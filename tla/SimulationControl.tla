--------------------------- MODULE SimulationControl ---------------------------
(***************************************************************************)
(* Managed simulation runs end to end: the control Durable Object          *)
(* (worker/simulation-control-do.ts), the job consumer and the owner's     *)
(* routes (worker/simulation-operations.ts) and the executor they reach    *)
(* over HTTP (containers/ngspice).                                         *)
(*                                                                         *)
(* Every await of the consumer separates two actions; one storage          *)
(* transaction of the Durable Object is one action.  A call to the object  *)
(* can fail before it is applied, or be applied and lose its answer.       *)
(* Queue deliveries are at-least-once: a job once sent may be delivered at *)
(* any time, to any consumer, any number of times.                         *)
(***************************************************************************)
EXTENDS ManagedRun, FiniteSets

CONSTANTS RunId,             \* identities of runs, positive numbers
          RequestId,         \* the callers' request identities
          Fingerprint,       \* digests of a request's payload
          NoFingerprint,     \* of a request that was never made
          QueueConsumer,     \* concurrent deliveries of the queue transport
          Dispatcher,        \* the alarm handler's own consumer
          AlarmDispatch,     \* SIMULATION_DISPATCH = "alarm"
          MaxQueuedGlobal, MaxQueuedPerOwner, MaxActivePerOwner,
          DispatchBatch,     \* runs one alarm handler drains (4 in the code)
          AlarmMs,           \* the 30 s maintenance and recovery alarm
          RetryMs,           \* the consumer's retry delay (2 s)
          Watched,           \* runs whose owners long-poll the result
          Cancellable,       \* runs whose owners may cancel them
          Commands           \* what the operator may set accepting to

ASSUME ControlAssumption ==
  /\ RunId \subseteq Nat \ {0}
  /\ IsFiniteSet(RunId)
  /\ NoFingerprint \notin Fingerprint
  /\ Dispatcher \notin QueueConsumer
  /\ AlarmDispatch \in BOOLEAN
  /\ {MaxQueuedGlobal, MaxQueuedPerOwner, MaxActivePerOwner, DispatchBatch,
      AlarmMs, RetryMs} \subseteq Nat \ {0}
  /\ RetryMs <= AlarmMs
  /\ Watched \subseteq RunId
  /\ Cancellable \subseteq RunId
  /\ Commands \subseteq BOOLEAN

VARIABLES
  runs,            \* simulation_runs: one record per run identity
  requests,        \* simulation_start_requests
  accepting,       \* simulation_operations.accepting
  alarm,           \* time left to the stored alarm, or NoAlarm
  alarmScheduled,  \* the object's in-memory belief that an alarm is stored
  dispatch,        \* the running alarm handler: executing, runs taken, delay
  waiters,         \* resultWaiters: runs with a long-polling reader
  jobs,            \* runs whose queue message was sent
  work,            \* what each consumer is doing
  stored,          \* response.json in object storage, with its completion
  inbox,           \* run requests travelling to the executor
  cancels,         \* cancel requests travelling to the executor
  tokens,          \* cancelledTokens remembered by the executor
  exec,            \* the executor's one slot
  executed,        \* history: how often the executor started each run
  outcome          \* history: how the executor's own process ended

control == <<runs, requests, accepting, alarm, alarmScheduled, dispatch, waiters>>
transport == <<jobs, inbox, cancels>>
executor == <<tokens, exec, executed, outcome>>
vars == <<control, transport, work, stored, executor>>

Consumer == QueueConsumer \cup {Dispatcher}
NoAlarm == -1

(* What a consumer is told about the attempt it dispatched.  "refused" is  *)
(* one of retryableInfrastructureCodes, "unreachable" one of the uncertain *)
(* ones; "gateway-lost" is the gateway's executor-unreachable.             *)
Finished == {"completed", "failed", "timed-out", "cancelled"}
ReplyKind == {"none", "refused", "unreachable", "run-cancelled",
              "gateway-lost"} \cup Finished

Work == [pc : {"idle", "read", "find", "recover", "retire", "lease", "input",
               "missing", "wait", "refuse", "store", "settle", "catch",
               "catch-sent"},
         run : RunId \cup {0}, lease : Nat, left : Nat, reply : ReplyKind]

Idle == [pc |-> "idle", run |-> 0, lease |-> 0, left |-> 0, reply |-> "none"]
NoExec == [run |-> 0, lease |-> 0, cancelled |-> FALSE]
NoRequest == [run |-> 0, fingerprint |-> NoFingerprint]
NotDispatching == [executing |-> FALSE, count |-> 0, delay |-> 0,
                   stopped |-> FALSE]
NotStored == [lease |-> 0, kind |-> "none"]

TypeOK ==
  /\ runs \in [RunId -> Run]
  /\ requests \in [Owner \X RequestId ->
                     [run : RunId \cup {0},
                      fingerprint : Fingerprint \cup {NoFingerprint}]]
  /\ accepting \in BOOLEAN
  /\ alarm \in {NoAlarm} \cup 0..AlarmMs
  /\ alarmScheduled \in BOOLEAN
  /\ dispatch \in [executing : BOOLEAN, count : Nat, delay : 0..AlarmMs,
                   stopped : BOOLEAN]
  /\ waiters \subseteq RunId
  /\ jobs \subseteq RunId
  /\ work \in [Consumer -> Work]
  /\ stored \in [RunId -> [lease : Nat, kind : Finished \cup {"none"}]]
  /\ inbox \subseteq RunId \X Nat
  /\ cancels \subseteq RunId
  /\ tokens \subseteq RunId
  /\ exec \in [run : RunId \cup {0}, lease : Nat, cancelled : BOOLEAN]
  /\ executed \in [RunId -> Nat]
  /\ outcome \in [RunId -> Finished \cup {"none", "lost"}]

Init ==
  /\ runs = [r \in RunId |-> AbsentRun]
  /\ requests = [k \in Owner \X RequestId |-> NoRequest]
  /\ accepting = TRUE
  /\ alarm = NoAlarm
  /\ alarmScheduled = FALSE
  /\ dispatch = NotDispatching
  /\ waiters = {}
  /\ jobs = {}
  /\ work = [c \in Consumer |-> Idle]
  /\ stored = [r \in RunId |-> NotStored]
  /\ inbox = {}
  /\ cancels = {}
  /\ tokens = {}
  /\ exec = NoExec
  /\ executed = [r \in RunId |-> 0]
  /\ outcome = [r \in RunId |-> "none"]

-------------------------------------------------------------------------------
(* The Durable Object: reads, writes and alarms shared by its handlers.    *)

InState(rs, states) == {r \in RunId : rs[r].state \in states}
ResultReady(run) == run.state \in Terminal \/ run.result

(* pruneActive and pruneExpired.  Their LIMIT 100 is above the live runs   *)
(* the admission limits allow.                                             *)
PruneActive(rs) ==
  [r \in RunId |-> IF rs[r].state \in Live THEN ExpireRecord(rs[r]) ELSE rs[r]]
PruneExpired(rs) == [r \in RunId |-> ExpireRecord(rs[r])]

(* writeRecord: the rows written, and the long-polls that they release.    *)
Write(rs) ==
  /\ runs' = rs
  /\ waiters' = {r \in waiters : rs[r] = runs[r] \/ ~ResultReady(rs[r])}

(* Every fetch begins with ensureAlarm; some end with wakeDispatcher.  A   *)
(* POST then awaits its body: the alarm it relied on may have fired, and   *)
(* found nothing to maintain, before its transaction (BodyRead).           *)
EnsureAlarm ==
  /\ alarm' = IF ~alarmScheduled /\ alarm = NoAlarm THEN AlarmMs ELSE alarm
  /\ alarmScheduled' = TRUE

BodyRead == EnsureAlarm \/ UNCHANGED <<alarm, alarmScheduled>>

(* A broken variant of WakeDispatcher: the alarm of ensureAlarm is enough.  *)
WakeNobody == BodyRead

\* Storage awaits let no other event in: the transaction and the wake are one step.
WakeDispatcher ==
  IF AlarmDispatch /\ ~dispatch.executing
  THEN alarm' = 0 /\ alarmScheduled' = TRUE
  ELSE BodyRead

(* Queue order: created_at, then id.                                       *)
First(rs, r) ==
  /\ rs[r].state = "queued"
  /\ \A q \in InState(rs, {"queued"}) \ {r} :
       \/ rs[r].createdAt < rs[q].createdAt
       \/ rs[r].createdAt = rs[q].createdAt /\ r < q

(* The transition transaction: expire the run read, admit the event, apply *)
(* it.  A refused event still leaves the expirations written.              *)
Seen(r, kind) ==
  LET read == [runs EXCEPT ![r] = ExpireRecord(@)]
  IN  IF kind = "lease-acquired" /\ runs[r].state # "absent"
      THEN PruneActive(read) ELSE read

(* A broken variant of Admitted: a lease does not look at the slot.        *)
AdmittedWithoutSlot(r, event) ==
  LET seen == Seen(r, event.kind)
  IN  /\ seen[r].state # "absent"
      /\ Legal(seen[r], event)
      /\ event.kind = "lease-acquired" => First(seen, r)

Admitted(r, event) ==
  LET seen == Seen(r, event.kind)
  IN  /\ seen[r].state # "absent"
      /\ Legal(seen[r], event)
      /\ event.kind = "lease-acquired"
           => InState(seen, Active) = {} /\ First(seen, r)

Transitioned(r, event) ==
  LET seen == Seen(r, event.kind)
  IN  IF Admitted(r, event) THEN [seen EXCEPT ![r] = After(@, event)] ELSE seen

(* SimulationControlDO.transition, as any caller reaches it.               *)
Transition(r, event) ==
  /\ Write(Transitioned(r, event))
  /\ IF /\ Admitted(r, event)
        /\ Transitioned(r, event)[r].state \in Terminal \cup {"queued"}
     THEN WakeDispatcher ELSE BodyRead
  /\ UNCHANGED <<requests, accepting>>

-------------------------------------------------------------------------------
(* Admission, and the owner's and operator's routes.                       *)

(* The clock at admission: the last stamp used, or a later one.            *)
Stamps ==
  {n \in UNION {{runs[r].createdAt, runs[r].createdAt + 1} : r \in RunId} \ {0} :
     \A r \in RunId : runs[r].createdAt <= n}

OwnedBy(rs, o, states) == {r \in InState(rs, states) : rs[r].owner = o}

MayAdmit(rs, o) ==
  /\ accepting
  /\ Cardinality(InState(rs, {"queued"})) < MaxQueuedGlobal
  /\ Cardinality(OwnedBy(rs, o, {"queued"})) < MaxQueuedPerOwner
  /\ Cardinality(OwnedBy(rs, o, Active)) < MaxActivePerOwner

(* The queue transport sends the job after the transaction; the send can   *)
(* fail and the caller is told to repeat the same request.  Alarm dispatch *)
(* sends none, but may meet the messages sent before it was switched on.   *)
SendJob(r) ==
  /\ jobs' \in (IF AlarmDispatch /\ QueueConsumer = {} THEN {jobs}
                ELSE {jobs, jobs \cup {r}})
  /\ UNCHANGED <<inbox, cancels>>

(* A broken variant of NewRequest: a changed payload counts as new.        *)
NewRequestPerPayload(o, q, f) ==
  requests[<<o, q>>].run = 0 \/ requests[<<o, q>>].fingerprint # f

NewRequest(o, q, f) == requests[<<o, q>>].run = 0

(* accept, for a request identity never seen.                              *)
AcceptNew(o, q, f, r) ==
  LET pruned == PruneActive(runs)
  IN  /\ NewRequest(o, q, f)
      /\ MayAdmit(pruned, o)
      /\ runs[r].state = "absent"
      /\ \E created \in Stamps :
           Write([pruned EXCEPT ![r] = CreateManagedRun(o, created)])
      /\ requests' = [requests EXCEPT ![<<o, q>>] = [run |-> r, fingerprint |-> f]]
      /\ SendJob(r)
      /\ WakeDispatcher
      /\ UNCHANGED <<accepting, dispatch, work, stored, executor>>

(* accept, for the repetition of a request already accepted.               *)
AcceptAgain(o, q, f) ==
  LET pruned == PruneActive(runs)
      r == requests[<<o, q>>].run
      read == [pruned EXCEPT ![r] = ExpireRecord(@)]
  IN  /\ r # 0
      /\ requests[<<o, q>>].fingerprint = f
      /\ Write(read)
      /\ IF read[r].state = "queued" THEN SendJob(r) ELSE UNCHANGED transport
      /\ WakeDispatcher
      /\ UNCHANGED <<requests, accepting, dispatch, work, stored, executor>>

(* accept, answered 409: a reused request identity, a drained service or   *)
(* a full queue.  Only the expirations stay.                               *)
AcceptRefused(o, q, f) ==
  LET pruned == PruneActive(runs)
  IN  /\ \/ requests[<<o, q>>].run # 0 /\ requests[<<o, q>>].fingerprint # f
         \/ NewRequest(o, q, f) /\ ~MayAdmit(pruned, o)
      /\ Write(pruned)
      /\ BodyRead
      /\ UNCHANGED <<requests, accepting, dispatch, transport, work, stored,
                     executor>>

(* A POST arrives and its body is not read yet, or turns out to be invalid *)
(* (400): so far only the alarm is stored.                                 *)
Arrives ==
  /\ EnsureAlarm
  /\ UNCHANGED <<runs, requests, accepting, dispatch, waiters, transport, work,
                 stored, executor>>

(* list, and read without waiting: each applies the deadlines it meets.    *)
List(o) ==
  /\ Write([r \in RunId |-> IF runs[r].owner = o THEN ExpireRecord(runs[r])
                            ELSE runs[r]])
  /\ EnsureAlarm
  /\ UNCHANGED <<requests, accepting, dispatch, transport, work, stored,
                 executor>>

(* read with waitMs: register a listener unless the result is ready.       *)
AwaitResult(r) ==
  LET read == [runs EXCEPT ![r] = ExpireRecord(@)]
  IN  /\ r \in Watched \ waiters
      /\ runs[r].state # "absent"
      /\ runs' = read
      /\ waiters' = {w \in waiters : read[w] = runs[w] \/ ~ResultReady(read[w])}
                    \cup (IF ResultReady(read[r]) THEN {} ELSE {r})
      /\ EnsureAlarm
      /\ UNCHANGED <<requests, accepting, dispatch, transport, work, stored,
                     executor>>

(* The wait's own timeout answers with whatever the record says by then.   *)
AwaitTimesOut(r) ==
  /\ r \in waiters
  /\ runs' = [runs EXCEPT ![r] = ExpireRecord(@)]
  /\ waiters' = waiters \ {r}
  /\ UNCHANGED <<requests, accepting, alarm, alarmScheduled, dispatch,
                 transport, work, stored, executor>>

(* POST /operations: drain, or accept again.                               *)
SetAccepting(b) ==
  /\ accepting' = b
  /\ b # accepting
  /\ BodyRead
  /\ UNCHANGED <<runs, requests, dispatch, waiters, transport, work, stored,
                 executor>>

CancelEvent == [kind |-> "cancel-requested", leaseId |-> 0,
                recovery |-> "none", result |-> FALSE]

(* The cancel route: the control transition, then, for a run that was      *)
(* already dispatched, a best-effort cancel sent to the executor.          *)
Cancel(r) ==
  /\ r \in Cancellable
  /\ runs[r].state # "absent"
  /\ Transition(r, CancelEvent)
  /\ cancels' \in (IF Transitioned(r, CancelEvent)[r].state = "cancelling"
                   THEN {cancels, cancels \cup {r}} ELSE {cancels})
  /\ UNCHANGED <<dispatch, jobs, inbox, work, stored, executor>>

-------------------------------------------------------------------------------
(* The consumer of one job.  Queue consumers take any message; the alarm's *)
(* dispatcher takes the row its query puts first.                          *)

Receive(c, r) ==
  /\ c \in QueueConsumer
  /\ work[c].pc = "idle"
  /\ r \in jobs
  /\ work' = [work EXCEPT ![c] = [Idle EXCEPT !.pc = "read", !.run = r]]
  /\ UNCHANGED <<control, transport, stored, executor>>

(* message.ack() and message.retry(): the queue keeps redelivering either  *)
(* way; the dispatcher goes on after an ack and stops after a retry.       *)
Ack(c) ==
  /\ work' = [work EXCEPT ![c] = Idle]
  /\ dispatch' = IF c = Dispatcher THEN [dispatch EXCEPT !.delay = 0]
                 ELSE dispatch

Retry(c) ==
  /\ work' = [work EXCEPT ![c] = Idle]
  /\ dispatch' = IF c = Dispatcher
                 THEN [dispatch EXCEPT !.delay = RetryMs, !.stopped = TRUE]
                 ELSE dispatch

Goto(c, pc) ==
  /\ work' = [work EXCEPT ![c].pc = pc]
  /\ UNCHANGED dispatch

(* The catch block reached: finalizing, or holding no lease, it retries;   *)
(* otherwise it settles the attempt it owns.                               *)
Thrown(c) ==
  CASE work[c].pc = "missing" -> Goto(c, "catch")
    [] work[c].pc = "refuse" -> Goto(c, "catch-sent")
    [] OTHER -> Retry(c)

ControlCall == {"read", "recover", "retire", "lease", "missing", "refuse",
                "settle", "catch", "catch-sent"}

(* The control object could not be reached: nothing was applied.           *)
ControlUnavailable(c) ==
  /\ work[c].pc \in ControlCall
  /\ Thrown(c)
  /\ UNCHANGED <<runs, requests, accepting, alarm, alarmScheduled, waiters,
                 transport, stored, executor>>

ReadRun(c) ==
  LET r == work[c].run
      read == [runs EXCEPT ![r] = ExpireRecord(@)]
  IN  /\ work[c].pc = "read"
      /\ Write(read)
      /\ EnsureAlarm
      /\ \/ /\ read[r].state \in Active
            /\ work' = [work EXCEPT ![c].pc = "find",
                                    ![c].lease = read[r].leaseId,
                                    ![c].left = read[r].timer]
            /\ UNCHANGED dispatch
         \/ read[r].state = "queued" /\ Goto(c, "lease")
         \/ read[r].state \notin Active \cup {"queued"} /\ Ack(c)
      /\ UNCHANGED <<requests, accepting, transport, stored, executor>>

(* An active run: look for the result a previous delivery stored for this  *)
(* very lease; failing that, retire a lease whose time has passed.  When   *)
(* the store or the metadata it keeps cannot be read, nothing is decided.  *)
FindStored(c) ==
  LET r == work[c].run
  IN  /\ work[c].pc = "find"
      /\ \/ stored[r].lease = work[c].lease /\ Goto(c, "recover")
         \/ /\ stored[r].lease # work[c].lease /\ work[c].left = 0
            /\ Goto(c, "retire")
         \/ Retry(c)
      /\ UNCHANGED <<runs, requests, accepting, alarm, alarmScheduled, waiters,
                     transport, stored, executor>>

\* The executor's answers name no recovery of their own for a failure.
Completion(kind, lease) ==
  [kind |-> kind, leaseId |-> lease,
   recovery |-> IF kind \in {"failed", "timed-out"} THEN "fix-input"
                ELSE "none",
   result |-> TRUE]

InfrastructureFailed(lease, retryable) ==
  [kind |-> "infrastructure-failed", leaseId |-> lease,
   recovery |-> IF retryable THEN "retry-after" ELSE "not-retryable",
   result |-> FALSE]

(* transitionRun from the consumer: acknowledged when "done" holds of the  *)
(* state reached, retried when it does not or the event was refused, and   *)
(* thrown when the answer is lost.                                         *)
Report(c, event, done) ==
  LET r == work[c].run
  IN  /\ Transition(r, event)
      /\ \/ IF Admitted(r, event) /\ Transitioned(r, event)[r].state \in done
            THEN Ack(c) ELSE Retry(c)
         \/ Thrown(c)
      /\ UNCHANGED <<transport, stored, executor>>

Recover(c) ==
  /\ work[c].pc = "recover"
  /\ Report(c, Completion(stored[work[c].run].kind, work[c].lease), Terminal)

(* The lease is retired by time alone: the event names no lease.           *)
LeaseExpired == [kind |-> "lease-expired", leaseId |-> 0,
                 recovery |-> "not-retryable", result |-> FALSE]

Retire(c) ==
  /\ work[c].pc = "retire"
  /\ Report(c, LeaseExpired, RunState)

LeaseAcquired == [kind |-> "lease-acquired", leaseId |-> 0,
                  recovery |-> "none", result |-> FALSE]

AcquireLease(c) ==
  LET r == work[c].run
  IN  /\ work[c].pc = "lease"
      /\ Transition(r, LeaseAcquired)
      /\ \/ /\ Admitted(r, LeaseAcquired)
            /\ work' = [work EXCEPT
                          ![c].pc = "input",
                          ![c].lease = Transitioned(r, LeaseAcquired)[r].leaseId]
            /\ UNCHANGED dispatch
         \/ Retry(c)
      /\ UNCHANGED <<transport, stored, executor>>

(* The immutable input is read and the request leaves for the executor     *)
(* (dispatched = true); or the input is missing, or cannot be read.        *)
ReadInput(c) ==
  /\ work[c].pc = "input"
  /\ \/ /\ Goto(c, "wait")
        /\ inbox' = inbox \cup {<<work[c].run, work[c].lease>>}
     \/ /\ \E pc \in {"missing", "catch"} : Goto(c, pc)
        /\ UNCHANGED inbox
  /\ UNCHANGED <<runs, requests, accepting, alarm, alarmScheduled, waiters,
                 jobs, cancels, stored, executor>>

FailMissing(c) ==
  /\ work[c].pc = "missing"
  /\ Report(c, [kind |-> "failed", leaseId |-> work[c].lease,
                recovery |-> "reprepare", result |-> FALSE], Terminal)

(* How the answer is classified: an infrastructure code is reported as     *)
(* such, anything else is stored as the run's result.                      *)
Answered(w, kind) ==
  [w EXCEPT !.reply = kind,
            !.pc = IF kind \in {"refused", "unreachable"} THEN "refuse"
                   ELSE "store"]

(* The connection breaks or times out, at the Worker or at the gateway,    *)
(* whatever the executor did or will do with the request.                  *)
LoseReply(c) ==
  /\ work[c].pc = "wait"
  /\ \E lost \in {"unreachable", "gateway-lost"} :
       work' = [work EXCEPT ![c] = Answered(@, lost)]
  /\ UNCHANGED <<control, transport, stored, executor>>

(* A broken variant of Retryable: an uncertain code grants another attempt.*)
RetryableIfAny(reply) == reply \in {"refused", "unreachable"}

(* retryableInfrastructureCodes, against uncertainInfrastructureCodes.     *)
Retryable(reply) == reply = "refused"

Refuse(c) ==
  /\ work[c].pc = "refuse"
  /\ Report(c, InfrastructureFailed(work[c].lease, Retryable(work[c].reply)),
            RunState \ {"queued"})

(* Any other answer that is not a finished outcome becomes "failed".       *)
CompletionKind(reply) == IF reply \in Finished THEN reply ELSE "failed"

(* A broken variant of StoreResult: a failed put is settled all the same.  *)
StoreResultUnchecked(c) ==
  LET entry == [lease |-> work[c].lease, kind |-> CompletionKind(work[c].reply)]
  IN  /\ work[c].pc = "store"
      /\ stored' \in {stored, [stored EXCEPT ![work[c].run] = entry]}
      /\ Goto(c, "settle")
      /\ UNCHANGED <<runs, requests, accepting, alarm, alarmScheduled, waiters,
                     transport, executor>>

(* The body and its completion commit together, or the put throws, with or *)
(* without having been applied (a body interrupted on its way throws too). *)
StoreResult(c) ==
  LET entry == [lease |-> work[c].lease, kind |-> CompletionKind(work[c].reply)]
  IN  /\ work[c].pc = "store"
      /\ \/ /\ stored' = [stored EXCEPT ![work[c].run] = entry]
            /\ Goto(c, "settle")
         \/ /\ stored' \in {stored, [stored EXCEPT ![work[c].run] = entry]}
            /\ Goto(c, "catch-sent")
      /\ UNCHANGED <<runs, requests, accepting, alarm, alarmScheduled, waiters,
                     transport, executor>>

SettleRun(c) ==
  /\ work[c].pc = "settle"
  /\ Report(c, Completion(CompletionKind(work[c].reply), work[c].lease),
            Terminal)

(* The catch block: settle the attempt if this consumer still owns it.     *)
(* Its read and its transition are one step, since the transition is       *)
(* fenced by the lease that the read looks for.                            *)
CatchBlock(c) ==
  /\ work[c].pc \in {"catch", "catch-sent"}
  /\ Report(c, InfrastructureFailed(work[c].lease, work[c].pc = "catch"),
            RunState \ {"queued"})

(* A queue consumer dies; its message will be delivered again.             *)
ConsumerCrash(c) ==
  /\ c \in QueueConsumer
  /\ work[c].pc # "idle"
  /\ work' = [work EXCEPT ![c] = Idle]
  /\ UNCHANGED <<control, transport, stored, executor>>

ConsumerStep(c) ==
  \/ ReadRun(c) \/ FindStored(c) \/ Recover(c) \/ Retire(c) \/ AcquireLease(c)
  \/ ReadInput(c) \/ FailMissing(c) \/ Refuse(c)
  \/ StoreResult(c) \/ SettleRun(c) \/ CatchBlock(c)

-------------------------------------------------------------------------------
(* The alarm handler.                                                      *)

Remaining(rs) == InState(rs, RunState \ {"absent", "expired"})

(* A broken variant of RecoveryAlarm: none is stored before the I/O.       *)
NoRecoveryAlarm == NoAlarm

(* What alarm() stores before it awaits anything: the recovery wake.       *)
RecoveryAlarm == AlarmMs

(* alarm(), up to its first await: prune, then store the recovery alarm    *)
(* before any network I/O.  Without alarm dispatch the handler only prunes *)
(* and re-arms.                                                            *)
AlarmFires ==
  LET pruned == PruneExpired(runs)
  IN  /\ alarm = 0
      /\ ~dispatch.executing
      /\ Write(pruned)
      /\ IF AlarmDispatch
         THEN /\ alarm' = RecoveryAlarm
              /\ alarmScheduled' = FALSE
              /\ dispatch' = [executing |-> TRUE, count |-> 0,
                              delay |-> AlarmMs, stopped |-> FALSE]
         ELSE /\ alarm' = IF Remaining(pruned) # {} THEN AlarmMs ELSE NoAlarm
              /\ alarmScheduled' = (Remaining(pruned) # {})
              /\ UNCHANGED dispatch
      /\ UNCHANGED <<requests, accepting, transport, work, stored, executor>>

(* The row dispatch() takes: an active run before any queued one, then by  *)
(* created_at and id.                                                      *)
Candidate(r) ==
  LET class == IF InState(runs, Active) # {} THEN Active ELSE {"queued"}
  IN  /\ runs[r].state \in class
      /\ \A q \in InState(runs, class) \ {r} :
           \/ runs[r].createdAt < runs[q].createdAt
           \/ runs[r].createdAt = runs[q].createdAt /\ r < q

MayTake == /\ dispatch.executing
           /\ work[Dispatcher].pc = "idle"
           /\ dispatch.count < DispatchBatch
           /\ ~dispatch.stopped

TakeRow ==
  /\ MayTake
  /\ \E r \in RunId :
       /\ Candidate(r)
       /\ work' = [work EXCEPT ![Dispatcher] =
                     [Idle EXCEPT !.pc = "read", !.run = r]]
  /\ dispatch' = [dispatch EXCEPT !.count = @ + 1]
  /\ UNCHANGED <<runs, requests, accepting, alarm, alarmScheduled, waiters,
                 transport, stored, executor>>

(* The end of dispatch() and of alarm(): re-arm while a record remains.    *)
AlarmEnds ==
  /\ dispatch.executing
  /\ work[Dispatcher].pc = "idle"
  /\ MayTake => InState(runs, Live) = {}
  /\ dispatch' = NotDispatching
  /\ IF Remaining(runs) # {}
     THEN /\ alarm' = IF alarm \in {NoAlarm, 0} \/ alarm > dispatch.delay
                      THEN dispatch.delay ELSE alarm
          /\ alarmScheduled' = TRUE
     ELSE UNCHANGED <<alarm, alarmScheduled>>
  /\ UNCHANGED <<runs, requests, accepting, waiters, transport, work, stored,
                 executor>>

(* The object is evicted or restarted: its memory goes, its storage stays. *)
ObjectRestart ==
  /\ dispatch.executing \/ alarmScheduled \/ waiters # {}
  /\ alarmScheduled' = FALSE
  /\ dispatch' = NotDispatching
  /\ waiters' = {}
  /\ work' = [work EXCEPT ![Dispatcher] = Idle]
  /\ UNCHANGED <<runs, requests, accepting, alarm, transport, stored, executor>>

-------------------------------------------------------------------------------
(* The executor: one slot, a memory of cancelled tokens, and a fail-stop   *)
(* when it cannot settle a run; RunSupervisor has it in detail.  A token   *)
(* outlives every lease (180 s), so only a restart forgets it here.  The   *)
(* ngspice harness awaits its runtime between checking the token and       *)
(* taking the slot: a cancel in between dooms the run it admits.           *)

Answer(r, lease, kind) ==
  work' = [c \in Consumer |->
             IF /\ work[c].pc = "wait"
                /\ work[c].run = r
                /\ work[c].lease = lease
             THEN Answered(work[c], kind)
             ELSE work[c]]

Admit(r, lease) ==
  /\ <<r, lease>> \in inbox
  /\ inbox' = inbox \ {<<r, lease>>}
  /\ \/ /\ r \in tokens
        /\ Answer(r, lease, "run-cancelled")
        /\ UNCHANGED <<exec, executed>>
     \/ /\ Answer(r, lease, "refused")   \* busy, not ready or unavailable
        /\ UNCHANGED <<exec, executed>>
     \/ /\ exec = NoExec
        /\ exec' = [run |-> r, lease |-> lease, cancelled |-> r \in tokens]
        /\ executed' = [executed EXCEPT ![r] = @ + 1]
        /\ UNCHANGED work
  /\ UNCHANGED <<control, jobs, cancels, stored, tokens, outcome>>

(* The process ended; a cancel that came too late to stop it is dropped.   *)
Finish(kind) ==
  /\ exec.run # 0
  /\ kind = "cancelled" => exec.cancelled
  /\ outcome' = [outcome EXCEPT ![exec.run] = kind]
  /\ Answer(exec.run, exec.lease, kind)
  /\ exec' = NoExec
  /\ UNCHANGED <<control, transport, stored, tokens, executed>>

DeliverCancel(r) ==
  /\ r \in cancels
  /\ cancels' = cancels \ {r}
  /\ tokens' = tokens \cup {r}
  /\ exec' = IF exec.run = r THEN [exec EXCEPT !.cancelled = TRUE] ELSE exec
  /\ UNCHANGED <<control, jobs, inbox, work, stored, executed, outcome>>

(* The harness exits: its process, its tokens and the requests that had    *)
(* reached it are gone; others may still be travelling.                    *)
ExecutorRestart ==
  /\ exec # NoExec \/ tokens # {} \/ inbox # {}
  /\ exec' = NoExec
  /\ tokens' = {}
  /\ inbox' \in SUBSET inbox
  /\ outcome' = [r \in RunId |-> IF r = exec.run THEN "lost" ELSE outcome[r]]
  /\ UNCHANGED <<control, jobs, cancels, work, stored, executed>>

-------------------------------------------------------------------------------
Less(t) == IF t > 0 THEN t - 1 ELSE t

(* Time passes for every deadline at once.                                 *)
Tick ==
  /\ \/ alarm > 0
     \/ \E r \in RunId : runs[r].timer > 0
     \/ \E c \in Consumer : work[c].left > 0
  /\ runs' = [r \in RunId |-> [runs[r] EXCEPT !.timer = Less(@)]]
  /\ work' = [c \in Consumer |-> [work[c] EXCEPT !.left = Less(@)]]
  /\ alarm' = Less(alarm)
  /\ UNCHANGED <<requests, accepting, alarmScheduled, dispatch, waiters,
                 transport, stored, executor>>

OwnerNext ==
  \/ \E o \in Owner, q \in RequestId, f \in Fingerprint :
       \/ \E r \in RunId : AcceptNew(o, q, f, r)
       \/ AcceptAgain(o, q, f)
       \/ AcceptRefused(o, q, f)
  \/ \E o \in Owner : List(o)
  \/ \E r \in RunId : AwaitResult(r) \/ AwaitTimesOut(r) \/ Cancel(r)
  \/ \E b \in Commands : SetAccepting(b)
  \/ Arrives

ConsumerNext ==
  \E c \in Consumer :
    \/ \E r \in RunId : Receive(c, r)
    \/ ConsumerStep(c)
    \/ ControlUnavailable(c)
    \/ LoseReply(c)
    \/ ConsumerCrash(c)

AlarmNext == AlarmFires \/ TakeRow \/ AlarmEnds \/ ObjectRestart

ExecutorNext ==
  \/ \E request \in inbox : Admit(request[1], request[2])
  \/ \E kind \in Finished : Finish(kind)
  \/ \E r \in RunId : DeliverCancel(r)
  \/ ExecutorRestart

Next == OwnerNext \/ ConsumerNext \/ AlarmNext \/ ExecutorNext \/ Tick

Spec == Init /\ [][Next]_vars

(* Time passes, a stored alarm fires, a handler that runs goes on, and a   *)
(* request to the executor ends at the latest with the gateway's timeout   *)
(* (AbortSignal.timeout).  Nothing is assumed of owners, of the queue, of  *)
(* the executor or of the absence of crashes.                              *)
Fairness ==
  /\ WF_vars(Tick)
  /\ WF_vars(AlarmFires)
  /\ WF_vars(TakeRow)
  /\ WF_vars(AlarmEnds)
  /\ WF_vars(ConsumerStep(Dispatcher))
  /\ WF_vars(LoseReply(Dispatcher))

FairSpec == Spec /\ Fairness

-------------------------------------------------------------------------------
(* Properties.                                                             *)

(* A run is never started twice by the executor, whatever is redelivered,  *)
(* lost, retried or restarted (consumeSimulationJobs, transitionManagedRun *)
(* requeueing only a proven refusal).                                      *)
ExecutedAtMostOnce == \A r \in RunId : executed[r] <= 1

(* The channel has a single execution slot, shared by alarm and queue      *)
(* deliveries (the EXECUTOR_SLOT_BUSY test after pruneActive).             *)
OneActiveRun ==
  \A r, s \in InState(runs, Active) : r = s

(* A record that tells its owner to retry is one the executor never        *)
(* started and no longer can: repeating it cannot run the work twice.      *)
RetryAdviceIsSafe ==
  \A r \in RunId :
    runs[r].recovery = "retry-after"
      => executed[r] = 0 /\ \A a \in 0..MaxAttempts : <<r, a>> \notin inbox

(* A success or a deadline is recorded only from a process that really     *)
(* ended so, with its result stored under the attempt that ran; a late     *)
(* success is never relabelled: a cancelled run either never ran, or its   *)
(* process was the one the cancel killed.                                  *)
OutcomeIsEvidenced ==
  \A r \in RunId :
    /\ runs[r].state \in {"succeeded", "timed-out"}
         => /\ stored[r] = [lease |-> runs[r].attempt, kind |-> outcome[r]]
            /\ runs[r].state = SettledState(outcome[r])
    /\ runs[r].state = "cancelled" => outcome[r] \in {"none", "cancelled"}

(* The object never believes in an alarm that is not stored, so that the   *)
(* first request after its last alarm stores one; and with alarm dispatch, *)
(* while a record can still change by time, an alarm is stored for it,     *)
(* across restarts of the object, requests whose body outlasts the alarm   *)
(* they arrived with, and whatever the object believed of its alarm.       *)
MaintenanceScheduled ==
  /\ alarmScheduled => alarm # NoAlarm
  /\ AlarmDispatch /\ Remaining(runs) # {} => alarm # NoAlarm

(* Each accepted request names one run of its owner, and each run that     *)
(* exists was accepted for exactly one request: repeating a start, under   *)
(* drains, limits and expirations, never makes a second run.               *)
RequestNamesOneRun ==
  /\ \A k \in Owner \X RequestId :
       requests[k].run # 0 => runs[requests[k].run].owner = k[1]
  /\ \A r \in RunId :
       runs[r].state # "absent"
         => \E k \in Owner \X RequestId :
              /\ requests[k].run = r
              /\ \A l \in (Owner \X RequestId) \ {k} : requests[l].run # r

(* What the owner reads of a run.                                          *)
Fate(run) == IF run.state = "absent" THEN "none"
             ELSE IF run.state \in Live THEN "pending" ELSE run.state

(* The whole of it implements what a managed run promises its owner.       *)
Promise == INSTANCE RunPromise
  WITH fate <- [r \in RunId |-> Fate(runs[r])],
       started <- executed

KeepsPromise == Promise!Spec

(* With alarm dispatch every accepted run comes to an end, even if the     *)
(* executor never answers and the object restarts again and again.         *)
EveryRunSettles ==
  \A r \in RunId : runs[r].state \in Live ~> runs[r].state \in Terminal

-------------------------------------------------------------------------------
(* The inductive strengthening behind ExecutedAtMostOnce.                  *)

(* A consumer holds an attempt from the lease it acquired to its report; in *)
(* "catch-sent" it no longer can obtain another attempt for the run.       *)
Holding == {"input", "missing", "wait", "refuse", "store", "settle", "catch"}
Holds(c, r) == work[c].pc \in Holding /\ work[c].run = r

(* The executor was, or still may be, asked to run r.                      *)
MayRun(r) == executed[r] # 0 \/ \E m \in inbox : m[1] = r

(* Nobody holds an attempt of a run whose record calls it fresh.           *)
HoldersOwn == \A c \in Consumer, r \in RunId : Holds(c, r) => ~Fresh(runs[r])

OneHolder ==
  \A c, d \in Consumer, r \in RunId : Holds(c, r) /\ Holds(d, r) => c = d

SentOnce ==
  \A r \in RunId :
    /\ executed[r] \in {0, 1}
    /\ \A m, n \in inbox : m[1] = r /\ n[1] = r => m = n
    /\ \A m \in inbox : m[1] = r => executed[r] = 0

FreshIsUnsent == \A r \in RunId : Fresh(runs[r]) => ~MayRun(r)

(* A holder that will report a refusal knows that the executor has not     *)
(* started the run and cannot start it any more.                           *)
Unsent(w) == \/ w.pc \in {"input", "missing", "catch"}
             \/ w.pc = "refuse" /\ w.reply = "refused"

RefusalIsProven ==
  \A c \in Consumer, r \in RunId :
    Holds(c, r) /\ Unsent(work[c]) => ~MayRun(r)

ExecutionInv == /\ HoldersOwn
                /\ OneHolder
                /\ SentOnce
                /\ FreshIsUnsent
                /\ RefusalIsProven

(* What the type invariant needs to be inductive: a delivery that goes to  *)
(* recover a stored result has one to recover.                             *)
LeaseInv ==
  /\ \A r \in RunId : runs[r].state \in Active => runs[r].leaseId # 0
  /\ \A r \in RunId : stored[r].kind = "none" => stored[r].lease = 0
  /\ \A c \in Consumer :
       /\ work[c].pc # "idle" => work[c].run # 0
       /\ work[c].pc \in {"find"} \cup Holding \cup {"catch-sent"}
            => work[c].lease # 0
       /\ work[c].pc = "recover" => stored[work[c].run].kind # "none"

(* What MaintenanceScheduled needs: the handler stored an alarm before it  *)
(* dispatched, and the object believes in none that is not stored.         *)
AlarmBelief == alarmScheduled \/ dispatch.executing => alarm # NoAlarm

-------------------------------------------------------------------------------
(* The inductive strengthening behind OutcomeIsEvidenced and KeepsPromise. *)

(* The evidence about one run: the executor's process ended at most once   *)
(* and speaks for the one attempt it was given; what is stored belongs to  *)
(* an attempt the record knows of, and says what the process said.         *)
RunEvidence(r) ==
  /\ runs[r].state = "absent" => runs[r].attempt = 0
  /\ runs[r].state \in Active => runs[r].leaseId = runs[r].attempt
  /\ stored[r].lease <= runs[r].attempt
  /\ stored[r].kind \in {"none", "failed", outcome[r]}
  /\ outcome[r] # "none" => executed[r] = 1 /\ exec.run # r
  /\ exec.run = r => executed[r] = 1

VerdictEvidence(r) ==
  runs[r].state \in {"succeeded", "timed-out"}
    => /\ stored[r] = [lease |-> runs[r].attempt, kind |-> outcome[r]]
       /\ runs[r].state = SettledState(outcome[r])

(* A cancelled run whose process was not killed never had one and never    *)
(* will: nobody holds an attempt of it.                                    *)
Unstarted(r) == ~MayRun(r) /\ \A c \in Consumer : ~Holds(c, r)

CancelEvidence(r) ==
  runs[r].state = "cancelled" => outcome[r] = "cancelled" \/ Unstarted(r)

(* A consumer that holds an attempt holds the record's latest; only it can *)
(* store a result for that attempt, and it stores one once.                *)
HolderEvidence(c) ==
  LET w == work[c]
  IN  /\ w.pc \in Holding => w.lease = runs[w.run].attempt
      /\ w.pc \in Holding \ {"settle"} => stored[w.run].lease < w.lease
      /\ w.pc = "settle"
           => stored[w.run] = [lease |-> w.lease, kind |-> CompletionKind(w.reply)]
      /\ w.pc \in {"store", "settle"} /\ w.reply \in Finished
           => outcome[w.run] = w.reply
      /\ w.pc = "recover" => w.lease # 0 /\ w.lease <= stored[w.run].lease

EvidenceInv ==
  /\ \A r \in RunId : RunEvidence(r) /\ VerdictEvidence(r) /\ CancelEvidence(r)
  /\ \A c \in Consumer : HolderEvidence(c)

(* What RequestNamesOneRun needs: no two requests share a run, and every   *)
(* run named exists.                                                       *)
RequestInv ==
  /\ \A k, l \in Owner \X RequestId :
       requests[k].run # 0 /\ requests[k].run = requests[l].run => k = l
  /\ \A k \in Owner \X RequestId :
       requests[k].run # 0 => /\ runs[requests[k].run].state # "absent"
                              /\ runs[requests[k].run].owner = k[1]
  /\ \A r \in RunId : runs[r].state # "absent"
                         => \E k \in Owner \X RequestId : requests[k].run = r
===============================================================================
