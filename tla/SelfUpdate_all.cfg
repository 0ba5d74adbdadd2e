SPECIFICATION LiveSpec
CONSTANTS
  v0 = v0
  v1 = v1
  v2 = v2
  Versions = {v0, v1, v2}
  First = v0
  Dead = {v1}
  Flaky = {v2}
  None = None
  CrashWindow = 1
  CrashLimit = 2
  Keep = 3
  MinProbation = 2
  MaxProbation = 2
  MaxUpdates = 3
  MaxLosses = 1
INVARIANTS
  AlwaysABinary
  
PROPERTIES
  RolledBackForGood
  ComesBack
CHECK_DEADLOCK FALSE
