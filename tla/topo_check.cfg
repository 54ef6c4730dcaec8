\* Two starts, cancels, Gallery failures and evictions around one record.
SPECIFICATION FairSpec
CONSTANTS
  Check = {c1, c2}
  NoCheck = NoCheck
  Tab = {tab1}
  Entries = 3
  Batch = 2
  MaxFailures = 2
  MaxRevision = 3
INVARIANTS
  TypeOK RemovalScheduled
PROPERTIES
  EveryCheckEnds
