SPECIFICATION Spec
CONSTANTS
  old = old
  recent = recent
  s1 = s1
  s2 = s2
  Operators = {s1, s2}
  Events = {old, recent}
  Old = {old}
  MaxCommands = 3
  MaxKills = 1
SYMMETRY Shells
INVARIANTS
  NothingVanishes
  ArchiveCopies
  BackupConsistent
  DeleteOnlyResolved
PROPERTIES
  ResolutionStands
CHECK_DEADLOCK FALSE
