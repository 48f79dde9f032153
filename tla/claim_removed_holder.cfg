SPECIFICATION CountSpec
CONSTANTS
  NRobots = 2
  NBlue = 1
  ResetLags = {1}
  RechargeFrames = 2
  RecoverFrames = 1
  LandingFrames = 2
PROPERTY VisionGoesOn
