SPECIFICATION Spec
CONSTANTS
  site = site
  evil = evil
  local = local
  oops = oops
  missing = missing
  warned = warned
  Pages = {site, evil}
  Allowed = {site}
  Key <- Address
  Failures = {oops, missing, warned}
  Kind <- Kinds
  Size <- Sizes
  maxBatch = 1
  maxBytes = 3
  max = 1
  windowMs = 2
  MaxTime = 4
  MaxRestarts = 1
  MaxRequests = 3
INVARIANTS
  OneEventEach
  RateBounded
CHECK_DEADLOCK FALSE
