SPECIFICATION Spec
CONSTANTS
  t1 = t1
  t2 = t2
  Tx = {t1, t2}
  None = None
  MaxSecrets = 2
  MaxFaults = 2
SYMMETRY Symmetry
VIEW View
CONSTRAINT OneExcuse
INVARIANTS
  LockedOutOnlyIfExcused
PROPERTIES
  DeadStaysDead
CHECK_DEADLOCK FALSE
