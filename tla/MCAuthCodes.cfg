SPECIFICATION Spec
SYMMETRY Symmetry
CHECK_DEADLOCK FALSE
CONSTANTS
  Nil = Nil
  Users = {u1, u2}
  Clients = {web, app}
  Public = {app}
  Verifiers = {v1, v2}
  Codes = {k1, k2}
  Reqs = {r1, r2}
  CodeTTL = 1
  MaxTime = 2
INVARIANTS
  TypeOK
  GrantsApproved
  HeldCodesExpire
  SingleUseUnlessRaced
