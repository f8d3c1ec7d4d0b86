SPECIFICATION Spec
CONSTANTS
  e1 = e1
  e2 = e2
  f = f
  a = a
  b = b
  NoConnection = NoConnection
  NoEvent = NoEvent
  Events = {e1, e2}
  Fingerprints = {f}
  FingerprintOf <- MCFingerprintOf
  Connections = {a, b}
  AutocommitWriters = {a, b}
  BatchWriters = {a, b}
  Maintainers = {a, b}
  MaxRowId = 3
  MaxInserts = 3
INVARIANTS
  TypeOK
  ChainVerifies
  RemovalsEntombed
  OnlyMatchedRemoved
  RollupCounts
SYMMETRY Symmetry
