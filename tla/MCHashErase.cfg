SPECIFICATION EraseInsideSpec
CONSTANTS
  k1 = k1
  k2 = k2
  x1 = x1
  x2 = x2
  x3 = x3
  y1 = y1
  y2 = y2
  End = End
  Junk = Junk
  Nodes <- MCNodes
  Keys <- MCKeys
  Key <- MCKey
  Hashings <- MCHashings
  Kinds <- MCMultiKinds
  Tables = {t1}
  Arrays = {a1}
  MaxCount = 4
  Counts = {2, 3, 4}
INVARIANT
  GroupsAreJoined
