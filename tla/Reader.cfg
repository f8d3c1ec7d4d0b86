SPECIFICATION LiveSpec
CONSTANTS
  cause = cause
  effect = effect
  other = other
  egg = egg
  NoEvent = NoEvent
  Never = Never
  Time <- Times
  Id <- Ids
  Rank <- Ranks
  Events = {cause, effect, other, egg}
  severity_rank <- Severities
  Parent <- Parents
  Filters <- Searches
  DeleteFilters <- Deletes
  limit = 1
INVARIANTS
  PagesComplete
  TraceComplete
PROPERTIES
  CallsAnswered
CHECK_DEADLOCK FALSE
