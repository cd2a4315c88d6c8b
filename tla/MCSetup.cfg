CONSTANTS
  Cols = 5
  Rows = 2
  number_obstacles = 4
  SeedX = 103
  SeedY = 453
  Orbit <- MCOrbit
  PowerUp <- MCPowerUp
  NoMap = NoMap
SPECIFICATION LiveSpec
INVARIANTS TypeOK AllDrawn
PROPERTIES KeepsLayout Generated
CHECK_DEADLOCK FALSE
