SPECIFICATION Spec
CONSTANTS
  k1 = k1
  k2 = k2
  a = a
  b = b
  w1 = w1
  w2 = w2
  Keys = {k1, k2}
  Values = {a, b}
  Writers = {w1, w2}
  Guarded = TRUE
  MaxLag = 1
  MaxSkew = 1
  MaxClock = 3
SYMMETRY Symmetry
INVARIANTS
  AnswersSound
PROPERTIES
  PastIsFixed
CHECK_DEADLOCK FALSE
