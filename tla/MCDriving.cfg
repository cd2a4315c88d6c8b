CONSTANTS
  FieldX = 58
  FieldY = 26
  TankSize = 8
  Step = 1
  PowerStep = 3
  PowerFrames = 2
  Contact = 16
  Crew = {1}
  Homes <- MCHomeAlone
  Walls = {}
  WallSize = 8
  Places <- MCPlaces
  PickSize = 2
  FirstPlace <- MCFirst
  Foes <- MCFoes
SPECIFICATION LiveSpec
INVARIANTS TypeOK VerticalField HorizontalField AvoidsWalls
PROPERTIES FreshCount PowerEnds
CHECK_DEADLOCK FALSE
