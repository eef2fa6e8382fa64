CONSTANTS
  Nodes = {n1, n2, n3, n4}
  Lists = {l1, l2}
  Null = Null
  Junk = Junk
  LinkMode = "normal"
  ConstantTimeSize = TRUE
  SizeMod = 3
SPECIFICATION Spec
INVARIANTS TypeOK Represented SizeCounts
