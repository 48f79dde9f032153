SPECIFICATION Spec
CONSTANTS
  NRobots = 2
  ResetLags = {1, 2}
  RechargeFrames = 2
  RecoverFrames = 1
  LandingFrames = 3
INVARIANTS
  TypeOK
  ColliderMatchesHolder
  BallNeverStranded
  HeldBallIsParked
  HolderMayHold
  HolderSensesBall
  KickWinnerFires
  LosersSenseNothing
  HolderObeys
  FreeBallIsBack
PROPERTIES
  PublishedOnField
  PendingKickMeansFreeBall
  PlacementSettles
  ImplementsPossession
