SPECIFICATION Spec
CONSTANTS
  e1 = e1
  e2 = e2
  f = f
  a = a
  b = b
  NoConnection = NoConnection
  NoEvent = NoEvent
  Events = {e1, e2}
  Fingerprints = {f}
  FingerprintOf <- MCFingerprintOf
  Connections = {a, b}
  AutocommitWriters = {a, b}
  BatchWriters = {}
  Maintainers = {}
  MaxRowId = 3
  MaxInserts = 2
INVARIANTS
  AppendsChained
CHECK_DEADLOCK FALSE
