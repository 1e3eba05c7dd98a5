SPECIFICATION Spec
SYMMETRY Symmetry
CHECK_DEADLOCK FALSE
CONSTANTS
  Nil = Nil
  Deploys = {d1, d2, d3}
  Ids = {i1, i2, i3}
INVARIANTS
  TypeOK
  SwitchesToItsOwn
PROPERTIES
  TakesDownLiveOnlyIf
