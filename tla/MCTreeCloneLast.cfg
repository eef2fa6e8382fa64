CONSTANTS
  Null = Null
  This = this
  Src = src
  SrcNodes <- FourInSource
  OldNodes <- TwoBefore
  TornNodes = {}
  Key <- OwnNumber
SPECIFICATION Spec
CHECK_DEADLOCK FALSE
INVARIANT HeaderFindsTheLast
