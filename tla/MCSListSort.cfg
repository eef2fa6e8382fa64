CONSTANTS
  Null = Null
  This = this
  X = carry
  Nodes = {n1, n2, n3}
  Keys <- TwoKeys
  MergeLen = 1
  Counters = 3
  Linear = TRUE
SPECIFICATION AnyLength
CHECK_DEADLOCK FALSE
INVARIANT SortFindsTheEnd
