\* Two calls against two writers: answers, entries, flights and the contract.
SPECIFICATION Spec
CONSTANTS
  Request = {r1, r2}
  Writer = {w1, w2}
  Key = {k1}
  Namespace = {n1}
  n1 = n1
  NamespaceOf <- OneNamespace
  Flight = {1, 2, 3, 4, 5}
  None = None
  Faults = {"get", "bump"}
  MaxVersion = 2
  MaxGeneration = 2
SYMMETRY Interchangeable
INVARIANTS
  TypeOK
  NoStaleAnswer
  StoreCurrent
  SingleLoader
  NoWrongRelease
PROPERTIES
  ContractSpec
