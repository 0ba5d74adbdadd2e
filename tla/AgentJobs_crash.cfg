SPECIFICATION Spec
CONSTANTS
  m1 = m1
  m2 = m2
  f1 = f1
  f2 = f2
  u1 = u1
  j1 = j1
  j2 = j2
  k1 = k1
  k2 = k2
  Msgs = {m1}
  Fires = {f1, f2}
  Updates = {}
  Jobs = {j1, k1}
  Poison = {}
  Hangs = {}
  MaxConcurrent = 2
  MaxDeliver = 2
  MaxAckPending = 2
  RecentlyDoneCap = 2
  MaxLives = 2
  JobOf <- FiredTwice
  NoAttempt = NoAttempt
INVARIANTS
  DrainedIsReported
  AckedWasStarted
  StartedOncePerLife
  OneBodyPerJob
CHECK_DEADLOCK FALSE
