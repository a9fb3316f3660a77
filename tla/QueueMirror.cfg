SPECIFICATION Spec
CONSTANTS
  c1 = c1
  c2 = c2
  a = a
  b = b
  Clients = {c1, c2}
  Texts = {a, b}
  None = None
  Scenarios <- MirrorScenarios
  MaxOrder = 2
SYMMETRY Symmetry
CHECK_DEADLOCK FALSE
INVARIANTS
  TypeOK
  IdsUnique
  VersionNamesText
  MirrorExact
