SPECIFICATION Spec
CHECK_DEADLOCK FALSE
CONSTANTS
  Nil = Nil
  Users = {u1}
  Clients = {c1}
  Infos = {i1}
  NoLastName = {}
  Sids = {s1, s2}
  Reqs = {r1, r2}
  AccessTTL = 1
  RotateBefore = 2
  SessionTTL = 3
  MaxTime = 5
PROPERTIES
  TokenIsDeleted
