SPECIFICATION Spec
CHECK_DEADLOCK FALSE
CONSTANTS
  Nil = Nil
  Emails = {e1}
  Passwords = {p1, p2}
  Links = {k1}
  Reqs = {r1, r2}
PROPERTIES
  RehashKeepsPassword
