\* Three calls contending for one flight: one loads at a time, and each one ends.
SPECIFICATION FairSpec
CONSTANTS
  Request = {r1, r2, r3}
  Writer = {w1}
  Key = {k1}
  Namespace = {n1}
  n1 = n1
  NamespaceOf <- OneNamespace
  Flight = {1, 2, 3, 4}
  None = None
  Faults = {"generation", "put", "load", "loss"}
  MaxVersion = 0
  MaxGeneration = 0
INVARIANTS
  SingleLoader
  NoWrongRelease
  LoadOnlyOnMiss
PROPERTIES
  EveryCallEnds
