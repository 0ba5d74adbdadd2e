SPECIFICATION LiveSpec
CONSTANTS
  j1 = j1
  j2 = j2
  u1 = u1
  u2 = u2
  Jobs = {j1, j2}
  Updates = {u1, u2, own}
  own = own
  Self = {own}
  Bodies <- AllBodies
  NoJob = none
  Backends <- AllBackends
INVARIANTS
  
  GateMatchesWork
  LateIsTold
PROPERTIES
  
  JobReports
CHECK_DEADLOCK FALSE
