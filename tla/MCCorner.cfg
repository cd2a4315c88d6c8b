CONSTANTS
  FieldX = 28
  FieldY = 26
  TankSize = 8
  Step = 1
  PowerStep = 3
  PowerFrames = 4
  Contact = 16
  Crew = {1}
  Homes <- MCHomeCorner
  Walls = {}
  WallSize = 8
  Places <- MCFarAway
  PickSize = 2
  FirstPlace <- MCCorner
  Foes <- MCFoes
SPECIFICATION Spec
INVARIANT InField
CHECK_DEADLOCK FALSE
