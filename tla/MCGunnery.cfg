CONSTANTS
  XMax = 14
  YMax = 9
  BullMin = 0
  BullSize = 1
  BulletStep = 2
  CoverSize = 1
  BullHalf = 1
  MaxHits = 2
  HP = 2
  HitRadius = 2
  Cover = {}
  Corners <- MCCorners
  Drift = {}
  Formations <- MCFormations
  TankStep = 5
  Home <- MCHome
SPECIFICATION Spec
INVARIANTS TypeOK StraightFlight InScreen HitIsThisShot RoundConsistent
PROPERTY KeepsPromise
CHECK_DEADLOCK FALSE
