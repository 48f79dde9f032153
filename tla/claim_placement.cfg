SPECIFICATION Spec
CONSTANTS
  NRobots = 2
  ResetLags = {1}
  RechargeFrames = 2
  RecoverFrames = 2
  LandingFrames = 2
INVARIANTS
  PlacementTakesBall
