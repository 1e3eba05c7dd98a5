SPECIFICATION StartSpec
CHECK_DEADLOCK FALSE
INVARIANTS
  ServingHasTables
  CompleteUnlessDropped
PROPERTIES
  RunsAsContainer
  StartEnds
