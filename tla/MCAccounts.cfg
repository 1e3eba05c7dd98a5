SPECIFICATION Spec
SYMMETRY Symmetry
CHECK_DEADLOCK FALSE
CONSTANTS
  Nil = Nil
  Emails = {e1, e2}
  Passwords = {p1, p2}
  Links = {k1, k2}
  Reqs = {r1, r2}
INVARIANTS
  TypeOK
  PasswordChosen
  VerifiedByOwner
  MailedLinksExpire
  OneUseUnlessRaced
