SPECIFICATION Spec
SYMMETRY Symmetry
CHECK_DEADLOCK FALSE
CONSTANTS
  Nil = Nil
  Users = {u1, u2}
  Files = {f1, f2, f3, f4}
  Reqs = {r1, r2, r3}
INVARIANTS
  TypeOK
  PictureThere
  LeaksExplained
  PicturesApart
