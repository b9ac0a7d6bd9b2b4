\* A Bypass transaction stores what it has not committed.
SPECIFICATION Spec
CONSTANTS
  Session = {s1, s2}
  Query = {q1}
  None = None
  Policies <- DefaultPolicy
  MaxVersion = 1
  MaxGeneration = 1
SYMMETRY Interchangeable
INVARIANTS
  StoreUnpolluted
