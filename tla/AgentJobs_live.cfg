SPECIFICATION LiveSpec
CONSTANTS
  m1 = m1
  m2 = m2
  f1 = f1
  f2 = f2
  u1 = u1
  j1 = j1
  j2 = j2
  k1 = k1
  k2 = k2
  Msgs = {m1, m2}
  Fires = {f1}
  Updates = {u1}
  Jobs = {j1, j2, k1, k2}
  Poison = {m2}
  Hangs = {k1}
  MaxConcurrent = 2
  MaxDeliver = 1
  MaxAckPending = 2
  RecentlyDoneCap = 1
  MaxLives = 1
  JobOf <- OneJobEach
  NoAttempt = NoAttempt
INVARIANTS
  ConcurrencyBound
PROPERTIES
  ShutdownCompletes
  
CHECK_DEADLOCK FALSE
