SPECIFICATION Spec
CONSTANTS
  a = a
  s1 = s1
  s2 = s2
  e1 = e1
  e2 = e2
  k1 = k1
  k2 = k2
  hunter = hunter
  swordfish = swordfish
  timeout = timeout
  panic = panic
  NoSecret = NoSecret
  NoKey = NoKey
  NoCategory = NoCategory
  NoRow = NoRow
  Argv <- Arguments
  Rules <- Builtin
  Content <- Failures
  Apps = {a}
  Operators = {s1, s2}
  Events = {e1, e2}
  Keys = {k1, k2}
  MaxMounts = 2
  MaxCommands = 4
  MaxKills = 1
SYMMETRY Alike
INVARIANTS
  ImportReseals
CHECK_DEADLOCK FALSE
