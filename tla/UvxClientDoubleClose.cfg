SPECIFICATION Spec
CONSTANTS
  d1 = d1
  d2 = d2
  d3 = d3
  Data <- MCData
  Repeats = TRUE
  FailsAtOnce = FALSE
  AppWaits = FALSE
INVARIANT NoDoubleClose
CHECK_DEADLOCK FALSE
