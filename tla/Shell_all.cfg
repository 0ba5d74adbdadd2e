SPECIFICATION LiveSpec
CONSTANTS
  PauseAbove = 0
  ResumeBelow = 0
  RingMax = 2
  QueueMax = 1
  MaxSessions = 1
  MaxFrames = 4
  MaxDrops = 1
INVARIANTS
  WindowBound
PROPERTIES
  ShowsInOrder
  PausedResumes
  BothEnd
CHECK_DEADLOCK FALSE
