SPECIFICATION LiveSpec
CONSTANTS
  p = p
  q = q
  Processes = {p, q}
  StartVersions <- NewOldOrNewer
  MaxOldRows = 2
  MaxRows = 2
  MaxStops = 2
INVARIANTS
  TypeOK
  SchemaComplete
  ChainCoversHistory
  IndexCoversHistory
  ReopensSucceed
PROPERTIES
  VersionOnlyGrows
  EveryOpenSettles
