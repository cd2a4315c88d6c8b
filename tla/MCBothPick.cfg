CONSTANTS
  FieldX = 44
  FieldY = 26
  TankSize = 8
  Step = 1
  PowerStep = 3
  PowerFrames = 2
  Contact = 16
  Crew = {1, 2}
  Homes <- MCHomes
  Walls = {}
  WallSize = 8
  Places <- MCFarAway
  PickSize = 2
  FirstPlace <- MCMiddle
  Foes <- MCFoes
SPECIFICATION Spec
INVARIANT OnePicks
CHECK_DEADLOCK FALSE
