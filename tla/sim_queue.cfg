\* Queue dispatch: two concurrent deliveries of one run, with cancels.
SPECIFICATION Spec
CONSTANTS
  Owner = {o1}
  NoOwner = nobody
  RunId = {1}
  RequestId = {q1}
  Fingerprint = {f1}
  NoFingerprint = none
  QueueConsumer = {c1, c2}
  Dispatcher = dispatcher
  AlarmDispatch = FALSE
  MaxAttempts = 2
  LeaseMs = 1
  MaxQueueWaitMs = 2
  RetentionMs = 1
  MaxQueuedGlobal = 2
  MaxQueuedPerOwner = 1
  MaxActivePerOwner = 1
  DispatchBatch = 2
  AlarmMs = 1
  RetryMs = 1
  Watched = {1}
  Cancellable = {1}
  Commands = {TRUE, FALSE}
INVARIANTS
  ExecutedAtMostOnce RetryAdviceIsSafe OutcomeIsEvidenced
PROPERTIES
  KeepsPromise
SYMMETRY Symmetry
