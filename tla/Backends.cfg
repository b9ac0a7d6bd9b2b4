\* Two callers on each external backend, a threshold with two failures to lose.
SPECIFICATION Spec
CONSTANTS
  Client = {p1, p2}
  None = None
  Deployments = {"redis", "memcached", "moka"}
  MaxGeneration = 2
  MaxLate = 1
  Threshold = 3
  Cooldown = 1
SYMMETRY Interchangeable
INVARIANTS
  TypeOK
  BreakerOpens
PROPERTIES
  PromiseSpec
  OpensOnConsecutiveFailures
