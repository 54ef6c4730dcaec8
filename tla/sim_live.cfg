\* Alarm dispatch under fairness, beside a delivery sent before the switch.
SPECIFICATION FairSpec
CONSTANTS
  Owner = {o1}
  NoOwner = nobody
  RunId = {1}
  RequestId = {q1}
  Fingerprint = {f1}
  NoFingerprint = none
  QueueConsumer = {c1}
  Dispatcher = dispatcher
  AlarmDispatch = TRUE
  MaxAttempts = 2
  LeaseMs = 1
  MaxQueueWaitMs = 2
  RetentionMs = 1
  MaxQueuedGlobal = 2
  MaxQueuedPerOwner = 1
  MaxActivePerOwner = 1
  DispatchBatch = 2
  AlarmMs = 1
  RetryMs = 1
  Watched = {1}
  Cancellable = {1}
  Commands = {}
PROPERTY
  EveryRunSettles
INVARIANT
  MaintenanceScheduled
