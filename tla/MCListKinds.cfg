CONSTANTS
  Nodes = {n1, n2, n3, n4}
  NormalNodes = {n1, n2, n3}
  Lists = {l1, l2}
  Null = Null
  Junk = Junk
  SizeMod = 8
  MaxShift = 5
SPECIFICATION Spec
INVARIANTS Represented HooksTellMembership ObserversAgree LastIsCached
PROPERTY ImplementsPromise
