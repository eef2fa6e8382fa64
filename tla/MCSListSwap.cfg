CONSTANTS
  Nodes = {n1, n2, n3}
  Lists = {l1, l2}
  Null = Null
  Junk = Junk
  LinkMode = "safe"
  ConstantTimeSize = TRUE
  Linear = FALSE
  CacheLast = FALSE
  SizeMod = 8
  MaxShift = 3
SPECIFICATION SwapSpec
INVARIANT SwapsInOneList
