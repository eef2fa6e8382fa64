CONSTANTS
  Null = Null
  h1 = h1
  h2 = h2
  Headers = {h1, h2}
  Key <- AllKeys
  Priority <- Priorities
  Kinds <- AllKinds
SPECIFICATION Spec
INVARIANTS TypeOK Represented IteratorsFindTheWay SearchesFind HooksAndSizes Balanced
           SplayingBringsUp RotationsAreUndone MergeTakesAll
PROPERTY MergeAdvances
