\* L1 answers one query with the result of another.
SPECIFICATION Spec
CONSTANTS
  Session = {s1, s2}
  Query = {q1, q2}
  None = None
  Policies <- DefaultPolicy
  MaxVersion = 0
  MaxGeneration = 0
SYMMETRY Interchangeable
INVARIANTS
  AnswersTheQuery
