SPECIFICATION Spec
CONSTANTS
  cause = cause
  effect = effect
  other = other
  egg = egg
  NoEvent = NoEvent
  Never = Never
  Time <- Times
  Id <- Ids
  Rank <- Ranks
  Events = {cause, effect, other, egg}
  severity_rank <- Severities
  Parent <- Parents
  Filters <- Searches
  DeleteFilters <- Deletes
  limit = 1
INVARIANTS
  PreviewExact
CHECK_DEADLOCK FALSE
