SPECIFICATION TableSpec
SYMMETRY Symmetry
CONSTANTS
  Nil = Nil
  Users = {e1, e2}
  Names = {"x"}
  Countries = {"BE"}
  Reqs = {q1}
  Registrars = {r1, r2}
  MaxMs = 1
  Settling = {e1}
  OldTokens <- NoCountry
INVARIANTS
  PlaceholdersAreOld
  NamesWereHeld
  ConflictsOnlyInOneMs
PROPERTIES
  PanicsAreOld
