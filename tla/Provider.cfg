SPECIFICATION LiveSpec
CONSTANTS
  a = a
  b = b
  flusher = flusher
  e1 = e1
  e2 = e2
  d1 = d1
  d2 = d2
  Threads = {a, b}
  FlushThread = flusher
  NoEvent = NoEvent
  Events = {e1, e2}
  Databases = {d1, d2}
  InitialConfig <- Mounted
  Surfaces <- BothSurfaces
  Arms <- MovedOrSealed
  Changes <- KeySetOrBufferOff
  Capacity = 1
  MaxCalls = 2
INVARIANTS
  EachEventHasOneFate
  FlushSettles
  EventsReachConfigured
  SealedAsAsked
PROPERTIES
  CallsReturn
CHECK_DEADLOCK FALSE
