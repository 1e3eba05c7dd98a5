SPECIFICATION ServerSpec
SYMMETRY Symmetry
CHECK_DEADLOCK FALSE
CONSTANTS
  Nil = Nil
  Users = {u1}
  Clients = {web, app}
  Infos = {i1}
  NoLastName = {i1}
  Sids = {s1, s2}
  Reqs = {r1}
  AccessTTL = 1
  RotateBefore = 1
  SessionTTL = 2
  MaxTime = 2
  Public = {app}
  Verifiers = {v1}
  Codes = {k1}
  CodeTTL = 1
  Sites = {web}
  Withdrawable = {app}
  CodeReqs = {q1}
INVARIANTS
  TokensEntitled
  ClientIsAudience
PROPERTIES
  KeepsSessions
  KeepsCodes
  StaysSignedOut
  WithdrawnGainsNobody
