SPECIFICATION Spec
CONSTANTS
  Teams = {"blue", "yellow"}
  MaxRobots = 1
  MaxVel = 1
  DelaySteps = {0, 1}
  MaxDelay = 1
INVARIANTS TypeOK StillAfterReplacement DelayIsTransport
PROPERTIES CommandReached ImplementsIdeal
