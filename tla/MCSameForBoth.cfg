CONSTANTS
  XMax = 14
  YMax = 9
  BullMin = 0
  BullSize = 1
  BulletStep = 2
  CoverSize = 1
  BullHalf = 1
  MaxHits = 2
  HP = 1
  HitRadius = 2
  Cover = {}
  Corners <- MCCorners
  Drift = {}
  Formations <- MCFormationsAim
  TankStep = 1
  Home <- MCHome
SPECIFICATION Spec
PROPERTIES SameForBoth
CHECK_DEADLOCK FALSE
