SPECIFICATION Spec
CONSTANTS
  Addresses = {a1, a2}
  Reqs = {r1, r2, r3}
  Limit = 3
  Window = 2
INVARIANTS
  TypeOK
  OvershootBounded
PROPERTIES
  WindowNotReset
  BlockEnds
