SPECIFICATION LiveSpec
CONSTANTS
  MaxTime = 2
  Duration = 1
  Cooldown = 3
  OfflineAfter = 0
  MaxAttempts = 2
  MaxFaults = 1

  
PROPERTIES
  AlertFollowsDevice
  NoticesSettle
CHECK_DEADLOCK FALSE
