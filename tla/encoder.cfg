SPECIFICATION Spec
CONSTANTS
  MaxRobots = 2
  MaxX = 1
  MaxY = 0
  Refusable = {1}
INVARIANTS TypeOK EncodersFollowVision DiagFollowsFeedback
