\* Two threads, two digests on two shards, every policy, see Scopes.
SPECIFICATION Spec
CONSTANTS
  Client = {p1, p2}
  Key = {k1, k2}
  Debug = debug
  None = None
  Strategies = {"fifo", "lru", "lfu"}
  Scope <- Scopes
  Shards = 2
  Layouts <- Apart
  TTL = 1
  MaxTime = 1
  MaxSeq = 6
SYMMETRY Interchangeable
CHECK_DEADLOCK FALSE
INVARIANTS
  TypeOK
  BoundedOvershoot
  EvictionFollowsPolicy
  AgingKeepsOrder
