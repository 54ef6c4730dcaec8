\* A cancel that lands while the inventory or a drawing is read.
SPECIFICATION Spec
CONSTANTS
  Check = {c1}
  NoCheck = NoCheck
  Tab = {tab1}
  Entries = 2
  Batch = 2
  MaxFailures = 2
  MaxRevision = 6
INVARIANT CancelStops
