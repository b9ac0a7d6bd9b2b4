\* Two statements across a bump: the current generation keeps no dead load.
SPECIFICATION Spec
CONSTANTS
  Statement = {p1, p2}
  LoadState = {1, 2, 3, 4, 5}
  None = None
  Faults = {"query", "store", "loss"}
  MaxAttempts = 3
  MaxGeneration = 1
SYMMETRY Interchangeable
INVARIANTS
  TypeOK
  CurrentEntryHasLeader
