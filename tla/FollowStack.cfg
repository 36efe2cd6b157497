SPECIFICATION FairSpec
CONSTANTS
  TimerInterval = 2
  TimeoutDuration = 3
  MinPwm = 200
  MaxPwm = 255
  MinFrameGap = 2
  QueueDepth = 2
  MaxBoxes = 2
  Centres = {0, 380, 1000}
  Heights = {300, 805}
INVARIANTS
  StopsAfterSilence
  LastWordIsStop
  NeverApproaches
