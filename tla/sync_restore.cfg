\* A Project older than replication in both regions, and one region that is
\* restored from a copy taken at any time.
SPECIFICATION Spec
CONSTANTS
  Cn = cn
  Overseas = overseas
  None = None
  p1 = p1
  p2 = p2
  Project = {p1}
  Creates <- NobodyCreates
  Legacy = {p1}
  Pumping = {cn}
  Pulling = {cn}
  Limit = 1
  MaxEvents = 2
  Straying = {}
  MaxRestores = 1
  BackedUp = {cn, overseas}
  Quiet = TRUE
INVARIANTS
  EvidenceFences HeadsAreLeaves
PROPERTIES
  KeepsStreams
