SPECIFICATION Spec
CONSTANTS
  k1 = k1
  k2 = k2
  x1 = x1
  x2 = x2
  x3 = x3
  y1 = y1
  y2 = y2
  End = End
  Junk = Junk
  Nodes <- MCNodes
  Keys <- MCKeys
  Key <- MCKey
  Hashings <- MCHashings
  Kinds <- MCKinds
  Tables = {t1, t2}
  Arrays = {a1, a2, a3}
  MaxCount = 4
  Counts = {2, 3, 4}
SYMMETRY MCSymmetry
INVARIANTS
  TypeOK
  Represented
  GroupsAreWhole
  CacheIsFirst
  SizeAndHooks
  SearchesFind
PROPERTY
  Advances
