\* Two racing bumps of the Moka backend: the older one may stay on show.
SPECIFICATION Spec
CONSTANTS
  Client = {p1, p2}
  None = None
  Deployments = {"moka"}
  MaxGeneration = 2
  MaxLate = 0
  Threshold = 2
  Cooldown = 1
SYMMETRY Interchangeable
INVARIANTS
  ShowsLatestBump
