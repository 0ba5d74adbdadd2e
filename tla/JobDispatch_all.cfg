SPECIFICATION LiveSpec
CONSTANTS
  s1 = s1
  p1 = p1
  d1 = d1
  d2 = d2
  Scripts = {s1}
  Patches = {p1}
  Drainers = {d1, d2}
  Nobody = Nobody
  NoJob = NoJob
  Batch = 2
  MaxAttempts = 2
  MaxEvents = 3
INVARIANTS
  RanOnce
PROPERTIES
  
  QueuedEnds
CHECK_DEADLOCK FALSE
