SPECIFICATION Spec
CONSTANTS
  MaxCmd = 3
  Drives = {0, 3}
  Turned = {1, 3}
  LinAccel = 2
  LinDecel = 3
  TractionAccelX = 2
  TractionDecelX = 3
  TractionAccelY = 1
  TractionDecelY = 2
  AngularAccel = 1
  MaxAngular = 2
  MaxLinear = 2
  Budget = 3
  DeadZone = 2
  Unset = Unset
INVARIANT SpeedsCapped
PROPERTIES NeverPast TickIsShared TargetReached
