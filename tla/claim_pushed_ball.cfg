SPECIFICATION Spec
CONSTANTS
  Launches = {4, 6, 8, 12}
  FrameTimes = {2, 3}
  SlideDecel = 2
  RollDecel = 1
  KNum = 1
  KDen = 2
  Crawl = 2
  ImpactMin = 4
  Slack = 1
PROPERTY PushIsCounted
