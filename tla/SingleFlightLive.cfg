\* Two statements, with failures and cancellations: every statement ends.
SPECIFICATION FairSpec
CONSTANTS
  Statement = {p1, p2}
  LoadState = {1, 2, 3}
  None = None
  Faults = {"generation", "cancel"}
  MaxAttempts = 2
  MaxGeneration = 0
PROPERTIES
  EveryStatementEnds
