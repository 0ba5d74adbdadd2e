SPECIFICATION LiveSpec
CONSTANTS
  MaxIds = 5
  MaxFaults = 1
INVARIANTS
  PairUnlessCutShort
  ContainersBounded
  StandsAsideOnlyBefore
PROPERTIES
  Recovers
CHECK_DEADLOCK FALSE
