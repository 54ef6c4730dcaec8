\* Each region creates one Project against a limit of one: grants, concurrent
\* saves, conflicts, deletions, lost replies, repeated deliveries, restarts.
SPECIFICATION FairSpec
CONSTANTS
  Cn = cn
  Overseas = overseas
  None = None
  p1 = p1
  p2 = p2
  Project = {p1, p2}
  Creates <- CreatesByRegion
  Legacy = {}
  Pumping = {cn}
  Pulling = {cn}
  Limit = 1
  MaxEvents = 2
  Straying = {"post"}
  MaxRestores = 0
  BackedUp = {}
  Quiet = TRUE
INVARIANTS
  TypeOK ShelfIsTrue Converged QuotaHolds
PROPERTIES
  RegionsCatchUp
