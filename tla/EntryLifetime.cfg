\* Two executors over one entry of L2: lifetimes and digests.
SPECIFICATION Spec
CONSTANTS
  Executor = {e1, e2}
  None = None
  NoTenant = NoTenant
  Asked <- Questions
  MaxEntries = 1
  TTL = 2
  NullTTL = 1
  CacheNull = TRUE
  Skew = 1
SYMMETRY Interchangeable
INVARIANTS
  TypeOK
  LifetimeBounded
  SharedAnswersTheQuestion
