SPECIFICATION SettingsSpec
CONSTANTS
  Teams = {"blue"}
  MaxRobots = 1
  MaxVel = 1
  DelaySteps = {1, 2}
  MaxDelay = 2
INVARIANT NoStaleDrive
