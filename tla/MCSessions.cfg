SPECIFICATION Spec
SYMMETRY Symmetry
CHECK_DEADLOCK FALSE
CONSTANTS
  Nil = Nil
  Users = {u1}
  Clients = {c1}
  Infos = {i1}
  NoLastName = {i1}
  Sids = {s1, s2}
  Reqs = {r1, r2}
  AccessTTL = 1
  RotateBefore = 2
  SessionTTL = 3
  MaxTime = 5
INVARIANTS
  TypeOK
  HeldTokensWork
  IndexSound
  HeldTokensIndexed
PROPERTIES
  KeepsLease
