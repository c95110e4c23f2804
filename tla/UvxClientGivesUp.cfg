SPECIFICATION FairSpec
CONSTANTS
  d1 = d1
  d2 = d2
  d3 = d3
  Data <- MCData
  Repeats = TRUE
  FailsAtOnce = TRUE
  AppWaits = TRUE
PROPERTY KeepsTrying
