SPECIFICATION LiveSpec
CONSTANTS
  e1 = e1
  Entries = {e1}
  Bad = {}
  Period <- EveryTwo
  JitterOf <- OneLate
  CatchUpOf <- CatchUpOne
  GraceOf <- GraceTwo
  Slack = 1
  Nothing = Nothing
  Torn = Torn
  MaxTime = 6
  MaxEdits = 2
  MaxFaults = 1
INVARIANTS
  StartedOnce
  InTime
PROPERTIES
  
  Converges
CHECK_DEADLOCK FALSE
