SPECIFICATION LiveSpec
CONSTANTS
  CapFrames = 1
  MaxFrames = 2
  MaxFaults = 1
PROPERTIES
  StreamsRecorded
  EndIsReported
CHECK_DEADLOCK FALSE
