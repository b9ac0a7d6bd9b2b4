\* Both transaction modes under failures: own writes are read, L2 holds committed data.
SPECIFICATION Spec
CONSTANTS
  Session = {s1, s2}
  Query = {q1}
  None = None
  Policies <- BothModes
  MaxVersion = 2
  MaxGeneration = 2
SYMMETRY Interchangeable
INVARIANTS
  TypeOK
  BypassReadsOwnWrites
  DeferUnpolluted
  DeferCommitted
