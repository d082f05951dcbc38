SPECIFICATION FairSpec
CONSTANTS
  Goroutines = {"p1", "p2", "i", "v1", "v2"}
  Kind <- SmallKind
  Size <- SmallSize
INVARIANTS
  TypeOK
  ConnectionsConserved
  NobodyForgotten
PROPERTIES
  AnsweredUnlessNeededHangs
