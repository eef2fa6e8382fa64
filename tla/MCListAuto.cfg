CONSTANTS
  Nodes = {n1, n2, n3, n4}
  Lists = {l1, l2}
  Null = Null
  Junk = Junk
  LinkMode = "auto"
  ConstantTimeSize = FALSE
  SizeMod = 1
SPECIFICATION Spec
INVARIANT HooksTellMembership
