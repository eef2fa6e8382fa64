CONSTANTS
  Null = Null
  This = this
  That = that
  Nodes = {n1, n2, n3, n4}
  CloneNodes = {n1, n2, n3, n4, n5}
  Keys = {1, 2, 3}
  MaxLen = 4
  MergeLen = 3
  CloneLen = 2
  SortLen = 7
  Counters = 3
SPECIFICATION Spec
CHECK_DEADLOCK FALSE
INVARIANTS TypeOK RemovesExactly UniqueKeepsOneOfEach MergesStably ClonesOrRollsBack SortsStably
PROPERTIES UniqueComparesNeighbours Terminates
