SPECIFICATION FairSpec
CONSTANTS
  Bands = {b1, b2}
  Turns = 3
  Moves = 2
INVARIANTS
  TypeOK
  DecodesInOrder
  ShowsOwnHover
  InitMeetsNoEncoder
  HoverIsServed
PROPERTIES
  RestIsShown
CHECK_DEADLOCK FALSE
