CONSTANTS
  Null = Null
  This = this
  Src = src
  SrcNodes <- FourInSource
  OldNodes <- TwoBefore
  TornNodes <- SixNodes
  Key <- OwnNumber
SPECIFICATION Spec
CHECK_DEADLOCK FALSE
INVARIANTS TypeOK ClonesOrRollsBack Mirrors LastIsFound UnlinksInOrder
PROPERTY Terminates
