\* Queue dispatch: two runs of an owner for one slot, requests repeated and reused.
SPECIFICATION Spec
CONSTANTS
  Owner = {o1}
  NoOwner = nobody
  RunId = {1, 2}
  RequestId = {q1, q2}
  Fingerprint = {f1, f2}
  NoFingerprint = none
  QueueConsumer = {c1}
  Dispatcher = dispatcher
  AlarmDispatch = FALSE
  MaxAttempts = 1
  LeaseMs = 1
  MaxQueueWaitMs = 1
  RetentionMs = 1
  MaxQueuedGlobal = 2
  MaxQueuedPerOwner = 2
  MaxActivePerOwner = 1
  DispatchBatch = 2
  AlarmMs = 1
  RetryMs = 1
  Watched = {}
  Cancellable = {}
  Commands = {}
INVARIANTS
  TypeOK OneActiveRun RequestNamesOneRun
SYMMETRY Symmetry
