CONSTANTS
  XMax = 14
  YMax = 9
  BullMin = 0
  BullSize = 1
  BulletStep = 2
  CoverSize = 1
  BullHalf = 1
  MaxHits = 1
  HP = 1
  HitRadius = 2
  Cover = {o1}
  Corners <- MCCorners
  Drift <- MCCorners
  Formations <- MCFormationsLive
  TankStep = 5
  Home <- MCHome
SPECIFICATION LiveSpec
INVARIANT CoverCount
PROPERTIES NoTunnelling Shortens FlightEnds GameEnds
CHECK_DEADLOCK FALSE
