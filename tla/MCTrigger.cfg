CONSTANTS
  XMax = 14
  YMax = 9
  BullMin = 0
  BullSize = 1
  BulletStep = 2
  Stand <- MCStand
SPECIFICATION Spec
PROPERTY OneShotPerPress
CHECK_DEADLOCK FALSE
