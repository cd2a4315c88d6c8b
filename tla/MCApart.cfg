CONSTANTS
  Cols = 17
  Rows = 1
  number_obstacles = 16
  SeedX = 103
  SeedY = 453
  Orbit <- MCOrbit
  PowerUp <- MCNoPowerUp
  NoMap = NoMap
SPECIFICATION Spec
INVARIANT Apart
CHECK_DEADLOCK FALSE
