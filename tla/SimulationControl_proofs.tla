----------------------- MODULE SimulationControl_proofs -----------------------
(***************************************************************************)
(* Theorems about SimulationControl, for every set of runs, owners and     *)
(* consumers and every value of the limits and timers.                     *)
(***************************************************************************)
EXTENDS SimulationControl, ManagedRun_proofs

-------------------------------------------------------------------------------
(* What one storage transaction does to the rows.                          *)

RowsOK(rs) == /\ rs \in [RunId -> Run]
              /\ \A r \in RunId : rs[r].state \in Active => rs[r].leaseId # 0

(* Rows that some deadlines were applied to: nothing started, no slot      *)
(* taken, no row made or brought back.                                     *)
Calmer(rs) ==
  /\ RowsOK(rs)
  /\ \A q \in RunId :
       /\ Fresh(rs[q]) => Fresh(runs[q])
       /\ rs[q].state \in Active => runs[q].state \in Active
       /\ (rs[q].state = "absent") <=> (runs[q].state = "absent")
       /\ runs[q].state = "expired" => rs[q].state = "expired"
       /\ Aged(runs[q], rs[q])

(* Applying passed deadlines to any of the rows is calming.                *)
LEMMA PruneCalms ==
  ASSUME RowsOK(runs), NEW rs,
         DOMAIN rs = RunId, rs = [q \in RunId |-> rs[q]],
         \A q \in RunId : rs[q] \in {runs[q], ExpireRecord(runs[q])}
  PROVE  Calmer(rs)
  <1>1. ASSUME NEW q \in RunId
        PROVE  /\ rs[q] \in Run
               /\ rs[q].state \in Active => rs[q].leaseId # 0
               /\ Fresh(rs[q]) => Fresh(runs[q])
               /\ rs[q].state \in Active => runs[q].state \in Active
               /\ (rs[q].state = "absent") <=> (runs[q].state = "absent")
               /\ runs[q].state = "expired" => rs[q].state = "expired"
               /\ Aged(runs[q], rs[q])
    <2>1. runs[q] \in Run /\ (runs[q].state \in Active => runs[q].leaseId # 0)
      BY DEF RowsOK
    <2>2. CASE rs[q] = runs[q]
      BY <2>1, <2>2, ExpirationAges
    <2>3. CASE rs[q] = ExpireRecord(runs[q])
      BY <2>1, <2>3, ExpirationType, ExpirationEffect, ExpirationAges
    <2>4. QED  BY <2>2, <2>3
  <1>2. rs \in [RunId -> Run]
    BY <1>1
  <1>3. QED  BY <1>1, <1>2 DEF Calmer, RowsOK

(* Expiring rows that were already expired is still calming: an expired    *)
(* deadline is not due again in the same transaction.                      *)
LEMMA ExpireTwice ==
  ASSUME NEW run \in Run
  PROVE  ExpireRecord(ExpireRecord(run)) = ExpireRecord(run)
  <1>1. CASE ~Due(run)
    BY <1>1 DEF ExpireRecord
  <1>2. CASE Due(run)
    <2>1. /\ ExpireRecord(run) = After(run, ManagedRunExpiration(run))
          /\ run.state \notin {"absent", "expired"}
      BY <1>2 DEF ExpireRecord, Due
    <2>2. ~Due(ExpireRecord(run))
      BY <1>2, <2>1, PolicyAssumption
         DEF Due, After, ManagedRunExpiration, Fail, Refused, Settle, Run,
             RunState, Live, Active, Terminal, Settled
    <2>3. QED  BY <2>2 DEF ExpireRecord
  <1>3. QED  BY <1>1, <1>2

(* Seeing, pruning and expiring move rows forward or to rest, never back.  *)
LEMMA SeenCalms ==
  ASSUME RowsOK(runs), NEW r \in RunId, NEW kind
  PROVE  /\ Calmer(Seen(r, kind))
         /\ Calmer(PruneActive(runs))
         /\ Calmer(PruneExpired(runs))
         /\ Calmer([runs EXCEPT ![r] = ExpireRecord(@)])
  <1> DEFINE read == [runs EXCEPT ![r] = ExpireRecord(@)]
  <1>0. runs \in [RunId -> Run]
    BY DEF RowsOK
  <1>1. Calmer(read)
    <2>1. /\ DOMAIN read = RunId
          /\ read = [q \in RunId |-> read[q]]
          /\ \A q \in RunId : read[q] \in {runs[q], ExpireRecord(runs[q])}
      BY <1>0
    <2> HIDE DEF read
    <2>2. QED  BY <2>1, PruneCalms
  <1>2. Calmer(PruneActive(runs))
    BY <1>0, PruneCalms DEF PruneActive
  <1>3. Calmer(PruneExpired(runs))
    BY <1>0, PruneCalms DEF PruneExpired
  <1>4. Calmer(PruneActive(read))
    <2>1. \A q \in RunId : ExpireRecord(ExpireRecord(runs[q])) = ExpireRecord(runs[q])
      BY <1>0, ExpireTwice
    <2>2. \A q \in RunId :
            PruneActive(read)[q] \in {runs[q], ExpireRecord(runs[q])}
      BY <1>0, <2>1 DEF PruneActive
    <2>3. /\ DOMAIN PruneActive(read) = RunId
          /\ PruneActive(read) = [q \in RunId |-> PruneActive(read)[q]]
      BY DEF PruneActive
    <2>4. QED  BY <2>2, <2>3, PruneCalms
  <1>5. Calmer(Seen(r, kind))
    BY <1>1, <1>4 DEF Seen
  <1>6. QED  BY <1>1, <1>2, <1>3, <1>5

(* A report that the control plane can be sent: a deadline is never        *)
(* reported, and a result never advises to repeat the work.                *)
SoundReport(event) ==
  /\ event \in Event
  /\ event.kind \notin {"expired", "queue-expired"}
  /\ event.kind \in {"failed", "timed-out"} => event.recovery # "retry-after"

(* What a transition does to the rows: only the refused run looks fresh    *)
(* again, only a lease takes the slot, and it takes it from nobody.        *)
LEMMA TransitionedEffect ==
  ASSUME RowsOK(runs), NEW r \in RunId, NEW event, SoundReport(event)
  PROVE  /\ RowsOK(Transitioned(r, event))
         /\ \A q \in RunId :
              Fresh(Transitioned(r, event)[q])
                => Fresh(runs[q]) \/ (q = r /\ Refused(event))
         /\ event.kind # "lease-acquired"
              => \A q \in RunId : Transitioned(r, event)[q].state \in Active
                                    => runs[q].state \in Active
         /\ \A p, q \in RunId :
              /\ Transitioned(r, event)[p].state \in Active
              /\ Transitioned(r, event)[q].state \in Active
              => p = q \/ (runs[p].state \in Active /\ runs[q].state \in Active)
         /\ \A q \in RunId :
              Transitioned(r, event)[q].state \in RunState \ {"absent", "expired"}
                => runs[q].state \in RunState \ {"absent", "expired"}
  <1> DEFINE seen == Seen(r, event.kind)
             rs == Transitioned(r, event)
  <1>1. Calmer(seen)
    BY SeenCalms
  <1>2. seen \in [RunId -> Run]
    BY <1>1 DEF Calmer, RowsOK
  <1>3. CASE ~Admitted(r, event)
    <2>1. rs = seen
      BY <1>3 DEF Transitioned
    <2>2. \A q \in RunId : seen[q].state \in RunState
      BY <1>2 DEF Run
    <2> HIDE DEF seen, rs
    <2>3. \A q \in RunId : runs[q].state \in RunState
      BY DEF RowsOK, Run
    <2>4. QED  BY <1>1, <2>1, <2>2, <2>3 DEF Calmer, rs
  <1>4. CASE Admitted(r, event)
    <2>1. /\ rs = [seen EXCEPT ![r] = After(seen[r], event)]
          /\ Legal(seen[r], event)
          /\ seen[r].state # "absent"
          /\ event.kind = "lease-acquired" => InState(seen, Active) = {}
      BY <1>4 DEF Transitioned, Admitted
    <2> HIDE DEF seen, rs
    <2>2. After(seen[r], event) \in Run
      BY <1>2, AfterType DEF SoundReport
    <2>3. Fresh(After(seen[r], event)) => Fresh(seen[r]) \/ Refused(event)
      BY <1>2, <2>1, AfterFresh DEF SoundReport
    <2>4. After(seen[r], event).state \in Active
            => \/ /\ event.kind = "lease-acquired"
                  /\ After(seen[r], event).leaseId # 0
               \/ /\ seen[r].state \in Active
                  /\ After(seen[r], event).leaseId = seen[r].leaseId
      BY <1>2, <2>1, AfterActive DEF SoundReport
    <2>5. /\ rs \in [RunId -> Run]
          /\ rs[r] = After(seen[r], event)
          /\ \A q \in RunId \ {r} : rs[q] = seen[q]
      BY <1>2, <2>1, <2>2
    <2>6. RowsOK(rs)
      BY <2>5, <2>4, <1>1 DEF RowsOK, Calmer
    <2>7. \A q \in RunId :
            Fresh(rs[q]) => Fresh(runs[q]) \/ (q = r /\ Refused(event))
      BY <2>5, <2>3, <1>1 DEF Calmer
    <2>8. event.kind # "lease-acquired"
            => \A q \in RunId : rs[q].state \in Active => runs[q].state \in Active
      BY <2>5, <2>4, <1>1 DEF Calmer
    <2>9. ASSUME NEW p \in RunId, NEW q \in RunId, rs[p].state \in Active,
                 rs[q].state \in Active
          PROVE  p = q \/ (runs[p].state \in Active /\ runs[q].state \in Active)
      <3>1. CASE event.kind = "lease-acquired"
        <4>1. \A x \in RunId : seen[x].state \notin Active
          BY <2>1, <3>1 DEF InState
        <4>2. p = r /\ q = r
          BY <2>5, <2>9, <4>1
        <4>3. QED  BY <4>2
      <3>2. CASE event.kind # "lease-acquired"
        BY <3>2, <2>8, <2>9
      <3>3. QED  BY <3>1, <3>2
    <2>10. After(seen[r], event).state # "expired" => seen[r].state # "expired"
      BY <2>1, <1>2
         DEF Legal, After, RequestCancel, ReportKind, Active, SoundReport, Event,
             EventKind
    <2>11. ASSUME NEW q \in RunId,
                  rs[q].state \in RunState \ {"absent", "expired"}
           PROVE  runs[q].state \in RunState \ {"absent", "expired"}
      <3>1. seen[q].state \notin {"absent", "expired"}
        BY <2>11, <2>5, <2>10, <2>1
      <3>2. runs[q].state \in RunState
        BY DEF RowsOK, Run
      <3>3. QED  BY <3>1, <3>2, <1>1 DEF Calmer
    <2>12. QED  BY <2>6, <2>7, <2>8, <2>9, <2>11 DEF rs
  <1>5. QED  BY <1>3, <1>4

-------------------------------------------------------------------------------
(* Type correctness.                                                       *)

TypeInv == TypeOK /\ LeaseInv

(* The alarm helpers keep the alarm well typed and never drop one, and the *)
(* belief they leave is an old one or comes with an alarm.                 *)
LEMMA AlarmHelpers ==
  ASSUME TypeOK, EnsureAlarm \/ BodyRead \/ WakeDispatcher
  PROVE  /\ alarm' \in {NoAlarm} \cup 0..AlarmMs
         /\ alarmScheduled' \in BOOLEAN
         /\ alarm # NoAlarm => alarm' # NoAlarm
         /\ alarmScheduled' => alarmScheduled \/ alarm' # NoAlarm
  <1>1. /\ alarm \in {NoAlarm} \cup 0..AlarmMs /\ alarmScheduled \in BOOLEAN
        /\ AlarmMs \in 0..AlarmMs /\ 0 \in 0..AlarmMs
        /\ AlarmMs # NoAlarm /\ 0 # NoAlarm
    BY ControlAssumption DEF TypeOK, NoAlarm
  <1>2. \/ EnsureAlarm
        \/ UNCHANGED <<alarm, alarmScheduled>>
        \/ alarm' = 0 /\ alarmScheduled' = TRUE
    BY DEF BodyRead, WakeDispatcher
  <1>3. CASE EnsureAlarm
    BY <1>1, <1>3 DEF EnsureAlarm
  <1>4. CASE UNCHANGED <<alarm, alarmScheduled>>
    BY <1>1, <1>4
  <1>5. CASE alarm' = 0 /\ alarmScheduled' = TRUE
    BY <1>1, <1>5
  <1>6. QED  BY <1>2, <1>3, <1>4, <1>5

(* A transition as the control object's caller sees it.                    *)
LEMMA TransitionType ==
  ASSUME TypeInv, NEW r \in RunId, NEW event, SoundReport(event),
         Transition(r, event)
  PROVE  /\ runs' = Transitioned(r, event)
         /\ RowsOK(runs')
         /\ alarm' \in {NoAlarm} \cup 0..AlarmMs
         /\ alarmScheduled' \in BOOLEAN
         /\ waiters' \subseteq RunId
         /\ UNCHANGED <<requests, accepting>>
  <1>1. RowsOK(runs)
    BY DEF TypeInv, TypeOK, LeaseInv, RowsOK
  <1>2. runs' = Transitioned(r, event) /\ waiters' \subseteq waiters
    BY DEF Transition, Write
  <1>3. alarm' \in {NoAlarm} \cup 0..AlarmMs /\ alarmScheduled' \in BOOLEAN
    BY AlarmHelpers DEF Transition, TypeInv
  <1>4. QED
    BY <1>1, <1>2, <1>3, TransitionedEffect DEF TypeInv, TypeOK, Transition

(* The state that a consumer may be in, apart from what is stored.         *)
SoundWork(w) ==
  /\ w \in Work
  /\ w.pc # "idle" => w.run # 0
  /\ w.pc \in {"find"} \cup Holding \cup {"catch-sent"} => w.lease # 0

(* A consumer that does nothing is in order,                               *)
LEMMA IdleIsSound == SoundWork(Idle) /\ Idle.pc = "idle"
  BY DEF SoundWork, Idle, Work, Holding, ReplyKind

(* and so is what every consumer holds.                                    *)
LEMMA WorkIsSound ==
  ASSUME TypeInv, NEW c \in Consumer
  PROVE  SoundWork(work[c]) /\ work \in [Consumer -> Work]
  BY DEF TypeInv, TypeOK, LeaseInv, SoundWork

(* The dispatcher of the VACASK queue is one of the consumers.             *)
LEMMA DispatcherIsConsumer == Dispatcher \in Consumer
  BY DEF Consumer

(* Moving on to another step keeps the run and the lease.                  *)
LEMMA GotoType ==
  ASSUME TypeInv, NEW c \in Consumer, work[c].pc # "idle",
         NEW pc \in {"find", "recover", "retire", "lease", "input", "missing",
                     "wait", "refuse", "store", "settle", "catch", "catch-sent"},
         work[c].lease # 0 \/ pc \in {"recover", "retire", "lease"}
  PROVE  SoundWork([work[c] EXCEPT !.pc = pc])
  BY WorkIsSound DEF SoundWork, Work, Holding

(* However a report ends, its consumer is idle or in its catch block.      *)
LEMMA ReportEnds ==
  ASSUME TypeInv, NEW c \in Consumer, Ack(c) \/ Retry(c) \/ Thrown(c)
  PROVE  /\ dispatch' \in [executing : BOOLEAN, count : Nat, delay : 0..AlarmMs,
                           stopped : BOOLEAN]
         /\ \E w \in Work :
              /\ work' = [work EXCEPT ![c] = w]
              /\ SoundWork(w)
              /\ w.run = work[c].run \/ w = Idle
              /\ w.pc \in {"idle", "catch", "catch-sent"}
              /\ w.pc = "catch" => work[c].pc = "missing"
              /\ w.pc # "idle" => Holds(c, w.run) /\ w.lease = work[c].lease
  <1>1. SoundWork(work[c]) /\ work \in [Consumer -> Work]
    BY WorkIsSound
  <1>2. dispatch \in [executing : BOOLEAN, count : Nat, delay : 0..AlarmMs,
                      stopped : BOOLEAN]
    BY DEF TypeInv, TypeOK
  <1>3. 0 \in 0..AlarmMs /\ RetryMs \in 0..AlarmMs
    BY ControlAssumption
  <1>4. CASE Ack(c)
    <2>1. work' = [work EXCEPT ![c] = Idle]
      BY <1>4 DEF Ack
    <2>2. dispatch' \in [executing : BOOLEAN, count : Nat, delay : 0..AlarmMs,
                         stopped : BOOLEAN]
      BY <1>2, <1>3, <1>4 DEF Ack
    <2>3. QED  BY <2>1, <2>2, IdleIsSound DEF SoundWork
  <1>5. CASE Retry(c)
    <2>1. work' = [work EXCEPT ![c] = Idle]
      BY <1>5 DEF Retry
    <2>2. dispatch' \in [executing : BOOLEAN, count : Nat, delay : 0..AlarmMs,
                         stopped : BOOLEAN]
      BY <1>2, <1>3, <1>5 DEF Retry
    <2>3. QED  BY <2>1, <2>2, IdleIsSound DEF SoundWork
  <1>6. CASE Thrown(c) /\ ~Retry(c)
    <2>1. PICK pc \in {"catch", "catch-sent"} :
            /\ work[c].pc \in {"missing", "refuse"}
            /\ pc = "catch" => work[c].pc = "missing"
            /\ Goto(c, pc)
      BY <1>6 DEF Thrown
    <2> DEFINE w == [work[c] EXCEPT !.pc = pc]
    <2>2. work' = [work EXCEPT ![c] = w] /\ dispatch' = dispatch
      BY <2>1, <1>1 DEF Goto
    <2>3. work[c].lease # 0 /\ work[c].pc # "idle"
      BY <1>1, <2>1 DEF SoundWork, Holding
    <2>4. SoundWork(w)
      BY <2>3, GotoType
    <2>5. w.pc = pc /\ w.run = work[c].run /\ w.lease = work[c].lease
      BY <1>1 DEF SoundWork, Work
    <2>6. Holds(c, w.run)
      BY <2>1, <2>5 DEF Holds, Holding
    <2> HIDE DEF w
    <2>7. QED  BY <1>2, <2>1, <2>2, <2>4, <2>5, <2>6 DEF SoundWork
  <1>7. QED  BY <1>4, <1>5, <1>6

(* A state is well typed when its rows, its consumers and the rest are.    *)
RestOK ==
  /\ requests \in [Owner \X RequestId ->
                     [run : RunId \cup {0},
                      fingerprint : Fingerprint \cup {NoFingerprint}]]
  /\ accepting \in BOOLEAN
  /\ alarm \in {NoAlarm} \cup 0..AlarmMs
  /\ alarmScheduled \in BOOLEAN
  /\ dispatch \in [executing : BOOLEAN, count : Nat, delay : 0..AlarmMs,
                   stopped : BOOLEAN]
  /\ waiters \subseteq RunId
  /\ jobs \subseteq RunId
  /\ cancels \subseteq RunId
  /\ tokens \subseteq RunId
  /\ exec \in [run : RunId \cup {0}, lease : Nat, cancelled : BOOLEAN]
  /\ executed \in [RunId -> Nat]
  /\ outcome \in [RunId -> Finished \cup {"none", "lost"}]
  /\ inbox \subseteq RunId \X Nat

StoredOK ==
  /\ stored \in [RunId -> [lease : Nat, kind : Finished \cup {"none"}]]
  /\ \A r \in RunId : stored[r].kind = "none" => stored[r].lease = 0

WorkOK ==
  /\ work \in [Consumer -> Work]
  /\ \A c \in Consumer :
       /\ SoundWork(work[c])
       /\ work[c].pc = "recover" => stored[work[c].run].kind # "none"

(* The type invariant has four parts: the rows, what is stored, what the   *)
(* consumers hold, and the rest; an action is looked at part by part.      *)
LEMMA TypeParts == TypeInv <=> RowsOK(runs) /\ StoredOK /\ WorkOK /\ RestOK
  BY DEF TypeInv, TypeOK, LeaseInv, RowsOK, StoredOK, WorkOK, RestOK, SoundWork

(* The same of the next state.                                             *)
LEMMA NextTypeParts ==
  RowsOK(runs)' /\ StoredOK' /\ WorkOK' /\ RestOK' => TypeInv'
  BY TypeParts, PTL

(* A consumer moves, nobody else does, and no stored result is lost.       *)
LEMMA OneMoves ==
  ASSUME WorkOK, NEW c \in Consumer, NEW w, SoundWork(w),
         work' = [work EXCEPT ![c] = w],
         \A r \in RunId : stored[r].kind # "none" => stored'[r].kind # "none",
         w.pc = "recover" => stored'[w.run].kind # "none"
  PROVE  WorkOK'
  <1>1. w \in Work
    BY DEF SoundWork
  <1>2. work' \in [Consumer -> Work]
    BY <1>1 DEF WorkOK
  <1>3. ASSUME NEW d \in Consumer
        PROVE  /\ SoundWork(work'[d])
               /\ work'[d].pc = "recover" => stored'[work'[d].run].kind # "none"
    <2>1. CASE d = c
      BY <2>1 DEF WorkOK
    <2>2. CASE d # c
      <3>1. work'[d] = work[d] /\ SoundWork(work[d])
        BY <2>2 DEF WorkOK
      <3>2. work[d].pc = "recover" => work[d].run \in RunId
        BY <3>1 DEF SoundWork, Work
      <3>3. QED  BY <3>1, <3>2 DEF WorkOK
    <2>3. QED  BY <2>1, <2>2
  <1>4. QED  BY <1>2, <1>3 DEF WorkOK, SoundWork

(* A report to the control plane, whatever it says, keeps the type         *)
(* invariant.                                                              *)
LEMMA ReportType ==
  ASSUME TypeInv, NEW c \in Consumer, work[c].pc # "idle",
         NEW event, SoundReport(event), NEW done, Report(c, event, done)
  PROVE  TypeInv' /\ work[c].run \in RunId
  <1>1. RowsOK(runs) /\ StoredOK /\ WorkOK /\ RestOK
    BY TypeParts
  <1>2. work[c].run \in RunId
    BY <1>1 DEF WorkOK, SoundWork, Work
  <1>3. /\ Transition(work[c].run, event)
        /\ Ack(c) \/ Retry(c) \/ Thrown(c)
        /\ UNCHANGED <<transport, stored, executor>>
    BY DEF Report
  <1>4. RowsOK(runs') /\ RestOK'
    BY <1>1, <1>2, <1>3, TransitionType, ReportEnds
       DEF RestOK, transport, executor
  <1>5. PICK w \in Work : /\ work' = [work EXCEPT ![c] = w]
                          /\ SoundWork(w)
                          /\ w.pc \in {"idle", "catch", "catch-sent"}
    BY <1>3, ReportEnds
  <1>6. WorkOK'
    BY <1>1, <1>3, <1>5, OneMoves
  <1>7. StoredOK'
    BY <1>1, <1>3 DEF StoredOK
  <1>8. RowsOK(runs)'
    BY <1>4 DEF RowsOK
  <1>9. QED  BY <1>2, <1>4, <1>6, <1>7, <1>8, NextTypeParts

(* The events the code sends: only a retryable infrastructure failure is a *)
(* refusal, and only AcquireLease asks for the slot.                       *)
LEMMA EventsSent ==
  ASSUME NEW lease \in Nat
  PROVE  /\ SoundReport(LeaseExpired) /\ ~Refused(LeaseExpired)
         /\ SoundReport(LeaseAcquired) /\ ~Refused(LeaseAcquired)
         /\ SoundReport(CancelEvent) /\ ~Refused(CancelEvent)
         /\ \A kind \in Finished :
              /\ SoundReport(Completion(kind, lease))
              /\ ~Refused(Completion(kind, lease))
              /\ Completion(kind, lease).kind # "lease-acquired"
         /\ \A retryable \in BOOLEAN :
              /\ SoundReport(InfrastructureFailed(lease, retryable))
              /\ Refused(InfrastructureFailed(lease, retryable)) => retryable
              /\ InfrastructureFailed(lease, retryable).kind # "lease-acquired"
         /\ LET missing == [kind |-> "failed", leaseId |-> lease,
                            recovery |-> "reprepare", result |-> FALSE]
            IN  SoundReport(missing) /\ ~Refused(missing)
         /\ LeaseExpired.kind # "lease-acquired"
         /\ CancelEvent.kind # "lease-acquired"
  <1> USE DEF SoundReport, Event, EventKind, Recovery, Refused
  <1>1. /\ SoundReport(LeaseExpired) /\ ~Refused(LeaseExpired)
        /\ SoundReport(LeaseAcquired) /\ ~Refused(LeaseAcquired)
        /\ SoundReport(CancelEvent) /\ ~Refused(CancelEvent)
    BY DEF LeaseExpired, LeaseAcquired, CancelEvent
  <1>2. \A kind \in Finished :
          /\ SoundReport(Completion(kind, lease))
          /\ ~Refused(Completion(kind, lease))
          /\ Completion(kind, lease).kind # "lease-acquired"
    BY DEF Completion, Finished
  <1>3. \A retryable \in BOOLEAN :
          /\ SoundReport(InfrastructureFailed(lease, retryable))
          /\ Refused(InfrastructureFailed(lease, retryable)) => retryable
          /\ InfrastructureFailed(lease, retryable).kind # "lease-acquired"
    BY DEF InfrastructureFailed
  <1>4. LET missing == [kind |-> "failed", leaseId |-> lease,
                        recovery |-> "reprepare", result |-> FALSE]
        IN  SoundReport(missing) /\ ~Refused(missing)
    OBVIOUS
  <1>5. LeaseExpired.kind # "lease-acquired" /\ CancelEvent.kind # "lease-acquired"
    BY DEF LeaseExpired, CancelEvent
  <1>6. QED  BY <1>1, <1>2, <1>3, <1>4, <1>5

(* A verdict a consumer speaks is the stored one it found or the answer it *)
(* was given, under its own lease.                                         *)
Speaks(c, event) ==
  event.kind \in {"completed", "timed-out", "cancelled"}
    => /\ event.leaseId = work[c].lease
       /\ \/ /\ work[c].pc = "recover"
             /\ event.kind = stored[work[c].run].kind
          \/ /\ work[c].pc = "settle"
             /\ event.kind = CompletionKind(work[c].reply)

(* Each step of a consumer that reports, as one report of a sound event.   *)
Reporting(c, event) ==
  /\ work[c].pc # "idle"
  /\ SoundReport(event)
  /\ event.kind # "lease-acquired"
  /\ Refused(event) => /\ Holds(c, work[c].run)
                        /\ work[c].pc \in {"refuse", "catch"}
                        /\ Unsent(work[c])
  /\ Speaks(c, event)
  /\ \E done \in SUBSET RunState : Report(c, event, done)

(* Every step in which a consumer reports is a report of some sound event. *)
LEMMA ReportingSteps ==
  ASSUME TypeInv, NEW c \in Consumer,
         \/ Recover(c) \/ Retire(c) \/ FailMissing(c) \/ Refuse(c)
         \/ SettleRun(c) \/ CatchBlock(c)
  PROVE  \E event : Reporting(c, event)
  <1>0. /\ work[c] \in Work
        /\ work[c].lease \in Nat
        /\ work[c].run \in RunId \cup {0}
        /\ work[c].pc # "idle" => work[c].run \in RunId
        /\ work[c].pc = "recover" => stored[work[c].run].kind # "none"
    BY TypeParts DEF WorkOK, SoundWork, Work
  <1>1. /\ Terminal \in SUBSET RunState
        /\ RunState \in SUBSET RunState
        /\ RunState \ {"queued"} \in SUBSET RunState
    BY DEF RunState
  <1>2. CASE Recover(c)
    <2>1. stored[work[c].run].kind \in Finished
      BY <1>0, <1>2, TypeParts DEF Recover, StoredOK
    <2>2. QED
      BY <1>0, <1>1, <1>2, <2>1, EventsSent
         DEF Recover, Reporting, Speaks, Completion
  <1>3. CASE Retire(c)
    BY <1>1, <1>3, EventsSent DEF Retire, Reporting, Speaks, LeaseExpired
  <1>4. CASE FailMissing(c)
    BY <1>0, <1>1, <1>4, EventsSent DEF FailMissing, Reporting, Speaks
  <1>5. CASE Refuse(c)
    <2>1. Retryable(work[c].reply) \in BOOLEAN
      BY DEF Retryable
    <2>2. Retryable(work[c].reply)
            => /\ Holds(c, work[c].run)
               /\ work[c].pc = "refuse"
               /\ Unsent(work[c])
      BY <1>5 DEF Retryable, Refuse, Holds, Holding, Unsent
    <2>3. QED
      BY <1>0, <1>1, <1>5, <2>1, <2>2, EventsSent
         DEF Refuse, Reporting, Speaks, InfrastructureFailed
  <1>6. CASE SettleRun(c)
    <2>1. CompletionKind(work[c].reply) \in Finished
      BY DEF CompletionKind, Finished
    <2>2. QED
      BY <1>0, <1>1, <1>6, <2>1, EventsSent
         DEF SettleRun, Reporting, Speaks, Completion
  <1>7. CASE CatchBlock(c)
    <2>1. (work[c].pc = "catch") \in BOOLEAN
      OBVIOUS
    <2>2. work[c].pc = "catch" => Holds(c, work[c].run) /\ Unsent(work[c])
      BY DEF Holds, Holding, Unsent
    <2>3. QED
      BY <1>0, <1>1, <1>7, <2>1, <2>2, EventsSent
         DEF CatchBlock, Reporting, Speaks, InfrastructureFailed
  <1>8. QED
    BY <1>2, <1>3, <1>4, <1>5, <1>6, <1>7

(* Admission adds one fresh row, which was absent, to calmed ones.         *)
LEMMA AcceptNewRows ==
  ASSUME TypeInv, NEW o \in Owner, NEW q \in RequestId, NEW f \in Fingerprint,
         NEW r \in RunId, AcceptNew(o, q, f, r)
  PROVE  /\ RowsOK(runs')
         /\ \A x \in RunId :
              /\ Fresh(runs'[x]) => Fresh(runs[x])
              /\ runs'[x].state \in Active => runs[x].state \in Active
         /\ \A x \in RunId \ {r} : Aged(runs[x], runs'[x])
         /\ runs[r].state = "absent"
         /\ \E created \in Nat : runs'[r] = CreateManagedRun(o, created)
  <1> DEFINE pruned == PruneActive(runs)
  <1>1. RowsOK(runs)
    BY TypeParts
  <1>2. Calmer(pruned)
    BY <1>1, SeenCalms
  <1>3. PICK created \in Stamps :
          runs' = [pruned EXCEPT ![r] = CreateManagedRun(o, created)]
    BY DEF AcceptNew, Write
  <1>4. created \in Nat
    <2>1. \A x \in RunId : runs[x].createdAt \in Nat
      BY <1>1 DEF RowsOK, Run
    <2>2. QED  BY <2>1 DEF Stamps
  <1>5. /\ CreateManagedRun(o, created) \in Run
        /\ CreateManagedRun(o, created).state = "queued"
    BY <1>4, PolicyAssumption
       DEF CreateManagedRun, AbsentRun, Run, RunState, Live, Active, Recovery
  <1> HIDE DEF pruned
  <1>6. pruned \in [RunId -> Run] /\ runs[r].state = "absent"
    BY <1>2 DEF Calmer, RowsOK, AcceptNew
  <1>7. /\ runs' \in [RunId -> Run]
        /\ runs'[r] = CreateManagedRun(o, created)
        /\ \A x \in RunId \ {r} : runs'[x] = pruned[x]
    BY <1>3, <1>5, <1>6
  <1>8. RowsOK(runs')
    BY <1>2, <1>5, <1>7 DEF RowsOK, Calmer, Active
  <1>9. Fresh(runs[r])
    BY <1>6 DEF Fresh
  <1>10. \A x \in RunId \ {r} : Aged(runs[x], runs'[x])
    BY <1>2, <1>7 DEF Calmer
  <1>11. \A x \in RunId :
           /\ Fresh(runs'[x]) => Fresh(runs[x])
           /\ runs'[x].state \in Active => runs[x].state \in Active
    BY <1>2, <1>5, <1>7, <1>9 DEF Calmer, Active
  <1>12. QED  BY <1>4, <1>6, <1>7, <1>8, <1>10, <1>11

(* Repeating a request only applies deadlines.                             *)
LEMMA AcceptAgainCalms ==
  ASSUME TypeInv, NEW o \in Owner, NEW q \in RequestId, NEW f \in Fingerprint,
         AcceptAgain(o, q, f)
  PROVE  Calmer(runs') /\ requests[<<o, q>>].run \in RunId
  <1> DEFINE r == requests[<<o, q>>].run
             read == [PruneActive(runs) EXCEPT ![r] = ExpireRecord(@)]
  <1>1. RowsOK(runs) /\ runs \in [RunId -> Run]
    BY TypeParts DEF RowsOK
  <1>2. r \in RunId
    <2>1. requests[<<o, q>>] \in [run : RunId \cup {0},
                                  fingerprint : Fingerprint \cup {NoFingerprint}]
      BY TypeParts DEF RestOK
    <2>2. QED  BY <2>1 DEF AcceptAgain
  <1>3. runs' = read
    BY DEF AcceptAgain, Write
  <1>4. \A x \in RunId : ExpireRecord(ExpireRecord(runs[x])) = ExpireRecord(runs[x])
    BY <1>1, ExpireTwice
  <1>5. \A x \in RunId : read[x] \in {runs[x], ExpireRecord(runs[x])}
    BY <1>4 DEF PruneActive
  <1>6. DOMAIN read = RunId /\ read = [x \in RunId |-> read[x]]
    BY DEF PruneActive
  <1> HIDE DEF read
  <1>7. Calmer(read)
    BY <1>1, <1>5, <1>6, PruneCalms
  <1>8. QED  BY <1>2, <1>3, <1>7

(* The remaining steps that only apply deadlines to the rows.              *)
LEMMA ReadersCalm ==
  ASSUME TypeInv,
         \/ \E o \in Owner, q \in RequestId, f \in Fingerprint :
              AcceptAgain(o, q, f) \/ AcceptRefused(o, q, f)
         \/ \E o \in Owner : List(o)
         \/ \E r \in RunId : AwaitResult(r) \/ AwaitTimesOut(r)
         \/ \E c \in Consumer : ReadRun(c)
         \/ AlarmFires
  PROVE  Calmer(runs')
  <1>1. RowsOK(runs)
    BY TypeParts
  <1>2. \A r \in RunId : Calmer([runs EXCEPT ![r] = ExpireRecord(@)])
    BY <1>1, SeenCalms
  <1>3. ASSUME NEW o \in Owner, NEW q \in RequestId, NEW f \in Fingerprint,
               AcceptAgain(o, q, f) \/ AcceptRefused(o, q, f)
        PROVE  Calmer(runs')
    <2>1. requests[<<o, q>>] \in [run : RunId \cup {0},
                                  fingerprint : Fingerprint \cup {NoFingerprint}]
      BY TypeParts DEF RestOK
    <2>2. CASE AcceptAgain(o, q, f)
      BY <2>2, AcceptAgainCalms
    <2>3. CASE AcceptRefused(o, q, f)
      <3>1. runs' = PruneActive(runs)
        BY <2>3 DEF AcceptRefused, Write
      <3>2. Calmer(PruneActive(runs))
        BY <1>1, PruneCalms DEF PruneActive
      <3>3. QED  BY <3>1, <3>2
    <2>4. QED  BY <1>3, <2>2, <2>3
  <1>4. ASSUME NEW o \in Owner, List(o)
        PROVE  Calmer(runs')
    <2> DEFINE rs == [r \in RunId |-> IF runs[r].owner = o
                                      THEN ExpireRecord(runs[r]) ELSE runs[r]]
    <2>1. runs' = rs
      BY <1>4 DEF List, Write
    <2>2. Calmer(rs)
      BY <1>1, PruneCalms
    <2>3. QED  BY <2>1, <2>2
  <1>5. ASSUME NEW r \in RunId, AwaitResult(r) \/ AwaitTimesOut(r)
        PROVE  Calmer(runs')
    BY <1>2, <1>5 DEF AwaitResult, AwaitTimesOut
  <1>6. ASSUME NEW c \in Consumer, ReadRun(c)
        PROVE  Calmer(runs')
    <2>1. work[c].run \in RunId
      BY <1>6, WorkIsSound DEF ReadRun, SoundWork, Work
    <2>2. runs' = [runs EXCEPT ![work[c].run] = ExpireRecord(@)]
      BY <1>6 DEF ReadRun, Write
    <2>3. QED  BY <1>2, <2>1, <2>2
  <1>7. CASE AlarmFires
    <2>1. runs' = PruneExpired(runs)
      BY <1>7 DEF AlarmFires, Write
    <2>2. Calmer(PruneExpired(runs))
      BY <1>1, PruneCalms DEF PruneExpired
    <2>3. QED  BY <2>1, <2>2
  <1>8. QED  BY <1>3, <1>4, <1>5, <1>6, <1>7

(* The owners' and the operator's steps keep the types.                    *)
LEMMA OwnerType ==
  ASSUME TypeInv, OwnerNext
  PROVE  TypeInv'
  <1>1. RowsOK(runs) /\ StoredOK /\ WorkOK /\ RestOK
    BY TypeParts
  <1>2. UNCHANGED <<work, stored>> => StoredOK' /\ WorkOK'
    BY <1>1 DEF StoredOK, WorkOK
  <1>3. ASSUME NEW o \in Owner, NEW q \in RequestId, NEW f \in Fingerprint,
               NEW r \in RunId, AcceptNew(o, q, f, r)
        PROVE  TypeInv'
    <2>1. RowsOK(runs)'
      BY <1>3, AcceptNewRows DEF RowsOK
    <2>2. requests' \in [Owner \X RequestId ->
                           [run : RunId \cup {0},
                            fingerprint : Fingerprint \cup {NoFingerprint}]]
      BY <1>1, <1>3 DEF AcceptNew, RestOK
    <2>3. jobs' \subseteq RunId /\ UNCHANGED <<inbox, cancels>>
      BY <1>1, <1>3 DEF AcceptNew, SendJob, RestOK
    <2>4. RestOK'
      BY <1>1, <1>3, <2>2, <2>3, AlarmHelpers
         DEF AcceptNew, RestOK, Write, TypeInv, executor
    <2>5. QED  BY <1>2, <1>3, <2>1, <2>4, NextTypeParts DEF AcceptNew
  <1>4. ASSUME NEW o \in Owner, NEW q \in RequestId, NEW f \in Fingerprint,
               AcceptAgain(o, q, f)
        PROVE  TypeInv'
    <2>1. RowsOK(runs)' /\ requests[<<o, q>>].run \in RunId
      BY <1>4, AcceptAgainCalms DEF RowsOK, Calmer
    <2>2. jobs' \subseteq RunId /\ UNCHANGED <<inbox, cancels>>
      BY <1>1, <1>4, <2>1 DEF AcceptAgain, SendJob, RestOK, transport
    <2>3. RestOK'
      BY <1>1, <1>4, <2>2, AlarmHelpers
         DEF AcceptAgain, RestOK, Write, TypeInv, executor
    <2>4. QED  BY <1>2, <1>4, <2>1, <2>3, NextTypeParts DEF AcceptAgain
  <1>5. ASSUME NEW o \in Owner, NEW q \in RequestId, NEW f \in Fingerprint,
               AcceptRefused(o, q, f)
        PROVE  TypeInv'
    <2>1. RowsOK(runs)'
      BY <1>5, ReadersCalm DEF RowsOK, Calmer
    <2>2. RestOK'
      BY <1>1, <1>5, AlarmHelpers
         DEF AcceptRefused, RestOK, Write, TypeInv, executor, transport
    <2>3. QED  BY <1>2, <1>5, <2>1, <2>2, NextTypeParts DEF AcceptRefused
  <1>6. ASSUME NEW o \in Owner, List(o)
        PROVE  TypeInv'
    <2>1. RowsOK(runs)'
      BY <1>6, ReadersCalm DEF RowsOK, Calmer
    <2>2. RestOK'
      BY <1>1, <1>6, AlarmHelpers
         DEF List, RestOK, Write, TypeInv, executor, transport
    <2>3. QED  BY <1>2, <1>6, <2>1, <2>2, NextTypeParts DEF List
  <1>7. ASSUME NEW r \in RunId, AwaitResult(r)
        PROVE  TypeInv'
    <2>1. RowsOK(runs)'
      BY <1>7, ReadersCalm DEF RowsOK, Calmer
    <2>2. RestOK'
      BY <1>1, <1>7, AlarmHelpers
         DEF AwaitResult, RestOK, TypeInv, executor, transport
    <2>3. QED  BY <1>2, <1>7, <2>1, <2>2, NextTypeParts DEF AwaitResult
  <1>8. ASSUME NEW r \in RunId, AwaitTimesOut(r)
        PROVE  TypeInv'
    <2>1. RowsOK(runs)'
      BY <1>8, ReadersCalm DEF RowsOK, Calmer
    <2>2. RestOK'
      BY <1>1, <1>8 DEF AwaitTimesOut, RestOK, executor, transport
    <2>3. QED  BY <1>2, <1>8, <2>1, <2>2, NextTypeParts DEF AwaitTimesOut
  <1>9. ASSUME NEW r \in RunId, Cancel(r)
        PROVE  TypeInv'
    <2>1. /\ RowsOK(runs)'
          /\ alarm' \in {NoAlarm} \cup 0..AlarmMs
          /\ alarmScheduled' \in BOOLEAN
          /\ waiters' \subseteq RunId
          /\ UNCHANGED <<requests, accepting>>
      BY <1>9, TransitionType, EventsSent, 0 \in Nat DEF Cancel, RowsOK
    <2>2. RestOK'
      BY <1>1, <1>9, <2>1 DEF Cancel, RestOK, executor
    <2>3. QED  BY <1>2, <1>9, <2>1, <2>2, NextTypeParts DEF Cancel
  <1>10. ASSUME NEW b \in Commands, SetAccepting(b)
         PROVE  TypeInv'
    <2>1. RowsOK(runs)'
      BY <1>1, <1>10 DEF SetAccepting, RowsOK
    <2>2. RestOK'
      BY <1>1, <1>10, AlarmHelpers, ControlAssumption
         DEF SetAccepting, RestOK, TypeInv, executor, transport
    <2>3. QED  BY <1>2, <1>10, <2>1, <2>2, NextTypeParts DEF SetAccepting
  <1>11. CASE Arrives
    <2>1. RowsOK(runs)'
      BY <1>1, <1>11 DEF Arrives, RowsOK
    <2>2. RestOK'
      BY <1>1, <1>11, AlarmHelpers
         DEF Arrives, RestOK, TypeInv, executor, transport
    <2>3. QED  BY <1>2, <1>11, <2>1, <2>2, NextTypeParts DEF Arrives
  <1>12. QED
    BY <1>3, <1>4, <1>5, <1>6, <1>7, <1>8, <1>9, <1>10, <1>11 DEF OwnerNext

(* An answer moves its consumers from waiting to reporting.                *)
LEMMA AnsweredType ==
  ASSUME NEW w, SoundWork(w), w.pc = "wait", NEW kind \in ReplyKind
  PROVE  /\ SoundWork(Answered(w, kind))
         /\ Answered(w, kind).pc \in {"refuse", "store"}
         /\ Answered(w, kind).run = w.run
         /\ Answered(w, kind).reply = kind
         /\ Answered(w, kind).pc = "refuse" => kind \in {"refused", "unreachable"}
  BY DEF Answered, SoundWork, Work, Holding

(* What an answer does to each consumer.                                   *)
LEMMA AnswerMoves ==
  ASSUME WorkOK, NEW r, NEW lease, NEW kind \in ReplyKind, Answer(r, lease, kind)
  PROVE  /\ work' \in [Consumer -> Work]
         /\ \A c \in Consumer :
              /\ SoundWork(work'[c])
              /\ work'[c].run = work[c].run
              /\ \/ work'[c] = work[c]
                 \/ /\ work[c].pc = "wait"
                    /\ work[c].run = r
                    /\ work[c].lease = lease
                    /\ work'[c] = Answered(work[c], kind)
              /\ /\ work[c].pc = "wait" /\ work[c].run = r
                 /\ work[c].lease = lease
                 => work'[c] = Answered(work[c], kind)
  <1>1. ASSUME NEW c \in Consumer
        PROVE  /\ SoundWork(work'[c])
               /\ work'[c].run = work[c].run
               /\ \/ work'[c] = work[c]
                  \/ /\ work[c].pc = "wait"
                     /\ work[c].run = r
                     /\ work[c].lease = lease
                     /\ work'[c] = Answered(work[c], kind)
               /\ /\ work[c].pc = "wait" /\ work[c].run = r
                  /\ work[c].lease = lease
                  => work'[c] = Answered(work[c], kind)
    BY AnsweredType DEF WorkOK, Answer
  <1>2. work' \in [Consumer -> Work]
    BY <1>1 DEF Answer, SoundWork
  <1>3. QED  BY <1>1, <1>2

(* An executor's answer that reaches its consumer leaves it in order.      *)
LEMMA AnswerType ==
  ASSUME WorkOK, NEW r, NEW lease, NEW kind \in ReplyKind,
         Answer(r, lease, kind), UNCHANGED stored
  PROVE  WorkOK'
  <1>1. \A c \in Consumer :
          /\ SoundWork(work'[c])
          /\ work'[c].pc = "recover" => stored[work'[c].run].kind # "none"
    BY AnswerMoves, AnsweredType DEF WorkOK
  <1>2. QED  BY <1>1, AnswerMoves DEF WorkOK, SoundWork

(* The deliveries' steps keep the types.                                   *)
LEMMA ConsumerType ==
  ASSUME TypeInv, ConsumerNext
  PROVE  TypeInv'
  <1>1. RowsOK(runs) /\ StoredOK /\ WorkOK /\ RestOK
    BY TypeParts
  <1>2. PICK c \in Consumer :
          \/ \E r \in RunId : Receive(c, r)
          \/ ConsumerStep(c)
          \/ ControlUnavailable(c)
          \/ LoseReply(c)
          \/ ConsumerCrash(c)
    BY DEF ConsumerNext
  <1>3. SoundWork(work[c]) /\ work \in [Consumer -> Work]
    BY WorkIsSound
  <1>4. UNCHANGED runs => RowsOK(runs)'
    BY <1>1 DEF RowsOK
  <1>5. UNCHANGED stored => StoredOK'
    BY <1>1 DEF StoredOK
  <1>6. UNCHANGED <<control, transport, executor>> => RestOK'
    BY <1>1 DEF RestOK, control, transport, executor
  <1>7. ASSUME NEW w, SoundWork(w), w.pc # "recover", UNCHANGED stored,
               work' = [work EXCEPT ![c] = w]
        PROVE  WorkOK'
    BY <1>1, <1>7, OneMoves
  <1>8. ASSUME NEW r \in RunId, Receive(c, r)
        PROVE  TypeInv'
    <2> DEFINE w == [Idle EXCEPT !.pc = "read", !.run = r]
    <2>1. SoundWork(w) /\ w.pc # "recover"
      BY ControlAssumption DEF Idle, SoundWork, Work, Holding, ReplyKind
    <2>2. WorkOK'
      BY <1>7, <1>8, <2>1 DEF Receive
    <2>3. QED
      BY <1>4, <1>5, <1>6, <1>8, <2>2, NextTypeParts DEF Receive, control
  <1>9. CASE ReadRun(c)
    <2>1. RowsOK(runs)'
      BY <1>9, ReadersCalm DEF RowsOK, Calmer
    <2> DEFINE r == work[c].run
               read == [runs EXCEPT ![r] = ExpireRecord(@)]
    <2>2. r \in RunId
      BY <1>3, <1>9 DEF ReadRun, SoundWork, Work
    <2>3. /\ runs' = read
          /\ read[r] \in Run
          /\ read[r].state \in Active => read[r].leaseId # 0
      BY <1>9, <2>1, <2>2 DEF ReadRun, Write, RowsOK
    <2>4. /\ waiters' \subseteq RunId
          /\ alarm' \in {NoAlarm} \cup 0..AlarmMs
          /\ alarmScheduled' \in BOOLEAN
      BY <1>1, <1>9, AlarmHelpers DEF ReadRun, Write, RestOK, TypeInv
    <2>5. CASE read[r].state \in Active
      <3> DEFINE w == [work[c] EXCEPT !.pc = "find", !.lease = read[r].leaseId,
                                      !.left = read[r].timer]
      <3>1. work' = [work EXCEPT ![c] = w] /\ UNCHANGED dispatch
        <4>1. /\ work' = [work EXCEPT ![c].pc = "find",
                                      ![c].lease = read[r].leaseId,
                                      ![c].left = read[r].timer]
              /\ UNCHANGED dispatch
          BY <1>9, <2>2, <2>5 DEF ReadRun, Active
        <4> HIDE DEF read
        <4>2. QED  BY <1>3, <4>1
      <3>2. read[r].leaseId \in Nat /\ read[r].timer \in Nat
        BY <2>3 DEF Run
      <3>3. SoundWork(w) /\ w.pc # "recover"
        BY <1>3, <2>2, <2>3, <2>5, <3>2, ControlAssumption
           DEF SoundWork, Work, Holding
      <3> HIDE DEF w
      <3>4. WorkOK'
        BY <1>7, <1>9, <3>1, <3>3 DEF ReadRun
      <3>5. RestOK'
        BY <1>1, <1>9, <2>4, <3>1 DEF ReadRun, RestOK, transport, executor
      <3>6. QED
        BY <1>5, <1>9, <2>1, <3>4, <3>5, NextTypeParts DEF ReadRun
    <2>6. CASE read[r].state = "queued"
      <3> DEFINE w == [work[c] EXCEPT !.pc = "lease"]
      <3>1. work' = [work EXCEPT ![c] = w] /\ UNCHANGED dispatch
        BY <1>3, <1>9, <2>2, <2>6 DEF ReadRun, Active, Goto
      <3>2. SoundWork(w) /\ w.pc # "recover"
        BY <1>3, <1>9 DEF ReadRun, SoundWork, Work, Holding
      <3> HIDE DEF w
      <3>3. WorkOK'
        BY <1>7, <1>9, <3>1, <3>2 DEF ReadRun
      <3>4. RestOK'
        BY <1>1, <1>9, <2>4, <3>1 DEF ReadRun, RestOK, transport, executor
      <3>5. QED
        BY <1>5, <1>9, <2>1, <3>3, <3>4, NextTypeParts DEF ReadRun
    <2>7. CASE read[r].state \notin Active \cup {"queued"}
      <3>1. Ack(c)
        BY <1>9, <2>2, <2>7 DEF ReadRun
      <3>2. WorkOK'
        BY <1>7, <1>9, <3>1, IdleIsSound DEF ReadRun, Ack
      <3>3. RestOK'
        BY <1>1, <1>9, <2>4, <3>1, ReportEnds
           DEF ReadRun, RestOK, transport, executor
      <3>4. QED
        BY <1>5, <1>9, <2>1, <3>2, <3>3, NextTypeParts DEF ReadRun
    <2>8. QED  BY <2>5, <2>6, <2>7
  <1>10. CASE FindStored(c)
    <2>1. UNCHANGED <<runs, requests, accepting, alarm, alarmScheduled, waiters,
                      transport, stored, executor>>
      BY <1>10 DEF FindStored
    <2>2. work[c].lease # 0 /\ work[c].pc = "find" /\ work[c].run \in RunId
      BY <1>3, <1>10 DEF FindStored, SoundWork, Work
    <2>3. CASE Retry(c)
      <3>1. WorkOK'
        BY <1>7, <2>1, <2>3, IdleIsSound DEF Retry
      <3>2. RestOK'
        BY <1>1, <2>1, <2>3, ReportEnds DEF RestOK, transport, executor
      <3>3. QED  BY <1>4, <1>5, <2>1, <3>1, <3>2, NextTypeParts
    <2>4. CASE ~Retry(c)
      <3>1. PICK pc \in {"recover", "retire"} :
              /\ Goto(c, pc)
              /\ pc = "recover" => stored[work[c].run].lease = work[c].lease
        BY <1>10, <2>4 DEF FindStored
      <3> DEFINE w == [work[c] EXCEPT !.pc = pc]
      <3>2. work' = [work EXCEPT ![c] = w] /\ UNCHANGED dispatch
        BY <1>3, <3>1 DEF Goto
      <3>3. SoundWork(w)
        BY <2>2, GotoType
      <3>4. w.pc = pc /\ w.run = work[c].run
        BY <1>3 DEF SoundWork, Work
      <3>5. w.pc = "recover" => stored'[w.run].kind # "none"
        BY <1>1, <2>1, <2>2, <3>1, <3>4 DEF StoredOK
      <3> HIDE DEF w
      <3>6. WorkOK'
        BY <1>1, <2>1, <3>2, <3>3, <3>5, OneMoves
      <3>7. RestOK'
        BY <1>1, <2>1, <3>2 DEF RestOK, transport, executor
      <3>8. QED  BY <1>4, <1>5, <2>1, <3>6, <3>7, NextTypeParts
    <2>5. QED  BY <2>3, <2>4
  <1>11. CASE \/ Recover(c) \/ Retire(c) \/ FailMissing(c) \/ Refuse(c)
              \/ SettleRun(c) \/ CatchBlock(c)
    BY <1>11, ReportingSteps, ReportType DEF Reporting
  <1>12. CASE AcquireLease(c)
    <2>1. PICK r \in RunId : r = work[c].run
      BY <1>3, <1>12 DEF AcquireLease, SoundWork, Work
    <2>2. Transition(r, LeaseAcquired) /\ SoundReport(LeaseAcquired)
      BY <1>12, <2>1, EventsSent, 0 \in Nat DEF AcquireLease
    <2>3. /\ RowsOK(runs)'
          /\ runs' = Transitioned(r, LeaseAcquired)
          /\ alarm' \in {NoAlarm} \cup 0..AlarmMs
          /\ alarmScheduled' \in BOOLEAN
          /\ waiters' \subseteq RunId
          /\ UNCHANGED <<requests, accepting>>
      BY <2>2, TransitionType DEF RowsOK
    <2>4. CASE Retry(c)
      <3>1. WorkOK'
        BY <1>7, <1>12, <2>4, IdleIsSound DEF Retry, AcquireLease
      <3>2. RestOK'
        BY <1>1, <1>12, <2>3, <2>4, ReportEnds
           DEF AcquireLease, RestOK, transport, executor
      <3>3. QED  BY <1>5, <1>12, <2>3, <3>1, <3>2, NextTypeParts DEF AcquireLease
    <2>5. CASE ~Retry(c)
      <3> DEFINE lease == runs'[r].leaseId
                 w == [work[c] EXCEPT !.pc = "input", !.lease = lease]
      <3>1. /\ Admitted(r, LeaseAcquired)
            /\ work' = [work EXCEPT ![c] = w]
            /\ UNCHANGED dispatch
        BY <1>3, <1>12, <2>1, <2>3, <2>5 DEF AcquireLease
      <3>2. Seen(r, "lease-acquired") \in [RunId -> Run]
        BY <1>1, SeenCalms DEF Calmer, RowsOK
      <3>3. lease = Seen(r, "lease-acquired")[r].attempt + 1
        BY <2>3, <3>1, <3>2
           DEF Transitioned, LeaseAcquired, After, Lease, Run
      <3>4. lease \in Nat /\ lease # 0
        BY <3>2, <3>3 DEF Run
      <3> HIDE DEF lease
      <3>5. SoundWork(w) /\ w.pc # "recover"
        BY <1>3, <2>1, <3>4, ControlAssumption DEF SoundWork, Work, Holding
      <3> HIDE DEF w
      <3>6. WorkOK'
        BY <1>7, <1>12, <3>1, <3>5 DEF AcquireLease
      <3>7. RestOK'
        BY <1>1, <1>12, <2>3, <3>1 DEF AcquireLease, RestOK, transport, executor
      <3>8. QED  BY <1>5, <1>12, <2>3, <3>6, <3>7, NextTypeParts DEF AcquireLease
    <2>6. QED  BY <2>4, <2>5
  <1>13. CASE ReadInput(c)
    <2>1. PICK pc \in {"wait", "missing", "catch"} : Goto(c, pc)
      BY <1>13 DEF ReadInput
    <2> DEFINE w == [work[c] EXCEPT !.pc = pc]
    <2>2. work[c].lease # 0 /\ work[c].pc = "input" /\ work[c].run \in RunId
          /\ work[c].lease \in Nat
      BY <1>3, <1>13 DEF ReadInput, SoundWork, Work, Holding
    <2>3. SoundWork(w) /\ w.pc # "recover"
      <3>1. SoundWork(w)
        BY <2>2, GotoType
      <3>2. QED  BY <1>3, <3>1 DEF SoundWork, Work
    <2>4. work' = [work EXCEPT ![c] = w] /\ UNCHANGED dispatch
      BY <1>3, <2>1 DEF Goto
    <2> HIDE DEF w
    <2>5. WorkOK'
      BY <1>7, <1>13, <2>3, <2>4 DEF ReadInput
    <2>6. inbox' \subseteq RunId \X Nat
      BY <1>1, <1>13, <2>2 DEF ReadInput, RestOK
    <2>7. RestOK'
      BY <1>1, <1>13, <2>4, <2>6 DEF ReadInput, RestOK, executor
    <2>8. QED  BY <1>4, <1>5, <1>13, <2>5, <2>7, NextTypeParts DEF ReadInput
  <1>14. CASE StoreResult(c)
    <2> DEFINE entry == [lease |-> work[c].lease,
                         kind |-> CompletionKind(work[c].reply)]
    <2>1. PICK pc \in {"settle", "catch-sent"} : Goto(c, pc)
      BY <1>14 DEF StoreResult
    <2> DEFINE w == [work[c] EXCEPT !.pc = pc]
    <2>2. work[c].lease # 0 /\ work[c].pc = "store" /\ work[c].lease \in Nat
      BY <1>3, <1>14 DEF StoreResult, SoundWork, Work, Holding
    <2>3. SoundWork(w) /\ w.pc # "recover"
      <3>1. SoundWork(w)
        BY <2>2, GotoType
      <3>2. QED  BY <1>3, <3>1 DEF SoundWork, Work
    <2>4. work' = [work EXCEPT ![c] = w] /\ UNCHANGED dispatch
      BY <1>3, <2>1 DEF Goto
    <2>5. entry.lease \in Nat /\ entry.kind \in Finished
      BY <2>2 DEF CompletionKind, Finished
    <2>6. stored' \in {stored, [stored EXCEPT ![work[c].run] = entry]}
      BY <1>14 DEF StoreResult
    <2>7. entry \in [lease : Nat, kind : Finished \cup {"none"}]
          /\ entry.kind # "none"
      BY <2>5 DEF Finished
    <2> HIDE DEF entry, w
    <2>8. StoredOK' /\ \A r \in RunId : stored[r].kind # "none"
                                         => stored'[r].kind # "none"
      BY <1>1, <2>6, <2>7 DEF StoredOK
    <2>9. WorkOK'
      BY <1>1, <2>3, <2>4, <2>8, OneMoves
    <2>10. RestOK'
      BY <1>1, <1>14, <2>4 DEF StoreResult, RestOK, transport, executor
    <2>11. QED  BY <1>4, <1>14, <2>8, <2>9, <2>10, NextTypeParts DEF StoreResult
  <1>15. CASE ControlUnavailable(c)
    <2>1. PICK w \in Work : /\ work' = [work EXCEPT ![c] = w]
                            /\ SoundWork(w)
                            /\ w.pc \in {"idle", "catch", "catch-sent"}
      BY <1>15, ReportEnds DEF ControlUnavailable
    <2>2. WorkOK'
      BY <1>7, <1>15, <2>1 DEF ControlUnavailable
    <2>3. RestOK'
      BY <1>1, <1>15, ReportEnds DEF ControlUnavailable, RestOK, transport, executor
    <2>4. QED  BY <1>4, <1>5, <1>15, <2>2, <2>3, NextTypeParts DEF ControlUnavailable
  <1>16. CASE LoseReply(c)
    <2>1. PICK lost \in {"unreachable", "gateway-lost"} :
            work' = [work EXCEPT ![c] = Answered(work[c], lost)]
      BY <1>16 DEF LoseReply
    <2>2. SoundWork(Answered(work[c], lost))
          /\ Answered(work[c], lost).pc # "recover"
      BY <1>3, <1>16, AnsweredType DEF LoseReply, ReplyKind
    <2>3. WorkOK'
      BY <1>7, <1>16, <2>1, <2>2 DEF LoseReply
    <2>4. QED
      BY <1>4, <1>5, <1>6, <1>16, <2>3, NextTypeParts DEF LoseReply, control
  <1>17. CASE ConsumerCrash(c)
    <2>1. WorkOK'
      BY <1>7, <1>17, IdleIsSound DEF ConsumerCrash
    <2>2. QED
      BY <1>4, <1>5, <1>6, <1>17, <2>1, NextTypeParts DEF ConsumerCrash, control
  <1>18. QED
    BY <1>2, <1>8, <1>9, <1>10, <1>11, <1>12, <1>13, <1>14, <1>15, <1>16, <1>17
       DEF ConsumerStep

(* The alarm handler's steps keep the types.                               *)
LEMMA AlarmType ==
  ASSUME TypeInv, AlarmNext
  PROVE  TypeInv'
  <1>1. RowsOK(runs) /\ StoredOK /\ WorkOK /\ RestOK
    BY TypeParts
  <1>2. UNCHANGED stored => StoredOK'
    BY <1>1 DEF StoredOK
  <1>3. UNCHANGED runs => RowsOK(runs)'
    BY <1>1 DEF RowsOK
  <1>4. ASSUME NEW w, SoundWork(w), w.pc # "recover", UNCHANGED stored,
               work' = [work EXCEPT ![Dispatcher] = w]
        PROVE  WorkOK'
    BY <1>1, <1>4, OneMoves, DispatcherIsConsumer
  <1>5. AlarmMs \in 0..AlarmMs /\ RecoveryAlarm = AlarmMs /\ 0 \in 0..AlarmMs
    BY ControlAssumption DEF RecoveryAlarm
  <1>6. CASE AlarmFires
    <2>1. RowsOK(runs)'
      BY <1>6, ReadersCalm DEF RowsOK, Calmer
    <2>2. /\ waiters' \subseteq RunId
          /\ alarm' \in {NoAlarm} \cup 0..AlarmMs
          /\ alarmScheduled' \in BOOLEAN
          /\ dispatch' \in [executing : BOOLEAN, count : Nat,
                            delay : 0..AlarmMs, stopped : BOOLEAN]
      <3>1. waiters' \subseteq RunId /\ alarmScheduled' \in BOOLEAN
        BY <1>1, <1>6 DEF AlarmFires, Write, RestOK
      <3>2. alarm' \in {NoAlarm} \cup 0..AlarmMs
        BY <1>5, <1>6 DEF AlarmFires
      <3>3. [executing |-> TRUE, count |-> 0, delay |-> AlarmMs, stopped |-> FALSE]
              \in [executing : BOOLEAN, count : Nat, delay : 0..AlarmMs,
                   stopped : BOOLEAN]
        BY <1>5
      <3>4. QED  BY <1>1, <1>6, <3>1, <3>2, <3>3 DEF AlarmFires, RestOK
    <2>3. WorkOK'
      BY <1>1, <1>6 DEF AlarmFires, WorkOK
    <2>4. RestOK'
      BY <1>1, <1>6, <2>2 DEF AlarmFires, RestOK, transport, executor
    <2>5. QED  BY <1>2, <1>6, <2>1, <2>3, <2>4, NextTypeParts DEF AlarmFires
  <1>7. CASE TakeRow
    <2>1. PICK r \in RunId :
            work' = [work EXCEPT ![Dispatcher] = [Idle EXCEPT !.pc = "read",
                                                              !.run = r]]
      BY <1>7 DEF TakeRow
    <2> DEFINE w == [Idle EXCEPT !.pc = "read", !.run = r]
    <2>2. SoundWork(w) /\ w.pc # "recover"
      BY ControlAssumption DEF Idle, SoundWork, Work, Holding, ReplyKind
    <2>3. WorkOK'
      BY <1>4, <1>7, <2>1, <2>2 DEF TakeRow
    <2>4. RestOK'
      <3>1. dispatch.count + 1 \in Nat
        BY <1>1 DEF RestOK
      <3>2. dispatch' \in [executing : BOOLEAN, count : Nat,
                           delay : 0..AlarmMs, stopped : BOOLEAN]
        BY <1>1, <1>7, <3>1 DEF TakeRow, RestOK
      <3>3. QED  BY <1>1, <1>7, <3>2 DEF TakeRow, RestOK, transport, executor
    <2>5. QED  BY <1>2, <1>3, <1>7, <2>3, <2>4, NextTypeParts DEF TakeRow
  <1>8. CASE AlarmEnds
    <2>1. WorkOK'
      BY <1>1, <1>8 DEF AlarmEnds, WorkOK
    <2>2. dispatch.delay \in 0..AlarmMs
      BY <1>1 DEF RestOK
    <2>3. RestOK'
      BY <1>1, <1>5, <1>8, <2>2
         DEF AlarmEnds, NotDispatching, RestOK, transport, executor
    <2>4. QED  BY <1>2, <1>3, <1>8, <2>1, <2>3, NextTypeParts DEF AlarmEnds
  <1>9. CASE ObjectRestart
    <2>1. WorkOK'
      BY <1>4, <1>9, IdleIsSound DEF ObjectRestart
    <2>2. RestOK'
      BY <1>1, <1>5, <1>9
         DEF ObjectRestart, NotDispatching, RestOK, transport, executor
    <2>3. QED  BY <1>2, <1>3, <1>9, <2>1, <2>2, NextTypeParts DEF ObjectRestart
  <1>10. QED  BY <1>6, <1>7, <1>8, <1>9 DEF AlarmNext

(* The executor's steps keep the types.                                    *)
LEMMA ExecutorType ==
  ASSUME TypeInv, ExecutorNext
  PROVE  TypeInv'
  <1>1. RowsOK(runs) /\ StoredOK /\ WorkOK /\ RestOK
    BY TypeParts
  <1>2. UNCHANGED runs => RowsOK(runs)'
    BY <1>1 DEF RowsOK
  <1>3. UNCHANGED stored => StoredOK'
    BY <1>1 DEF StoredOK
  <1>4. ASSUME NEW m \in inbox, Admit(m[1], m[2])
        PROVE  TypeInv'
    <2>1. m[1] \in RunId /\ m[2] \in Nat
      BY <1>1 DEF RestOK
    <2>2. WorkOK'
      <3>1. CASE UNCHANGED work
        BY <1>1, <1>4, <3>1 DEF Admit, WorkOK
      <3>2. CASE \E kind \in {"run-cancelled", "refused"} : Answer(m[1], m[2], kind)
        BY <1>1, <1>4, <3>2, AnswerType DEF Admit, ReplyKind
      <3>3. QED  BY <1>4, <3>1, <3>2 DEF Admit
    <2>3. executed[m[1]] + 1 \in Nat
      BY <1>1, <2>1 DEF RestOK
    <2>4. RestOK'
      <3>1. inbox' \subseteq RunId \X Nat
        BY <1>1, <1>4 DEF Admit, RestOK
      <3>2. executed' \in [RunId -> Nat]
        BY <1>1, <1>4, <2>1, <2>3 DEF Admit, RestOK
      <3>3. exec' \in [run : RunId \cup {0}, lease : Nat, cancelled : BOOLEAN]
        <4>1. exec' \in {exec, [run |-> m[1], lease |-> m[2],
                               cancelled |-> m[1] \in tokens]}
          BY <1>4 DEF Admit
        <4>2. [run |-> m[1], lease |-> m[2], cancelled |-> m[1] \in tokens]
                \in [run : RunId \cup {0}, lease : Nat, cancelled : BOOLEAN]
          BY <2>1
        <4>3. QED  BY <1>1, <4>1, <4>2 DEF RestOK
      <3>4. QED  BY <1>1, <1>4, <3>1, <3>2, <3>3 DEF Admit, RestOK, control
    <2>5. QED  BY <1>2, <1>3, <1>4, <2>2, <2>4, NextTypeParts DEF Admit, control
  <1>5. ASSUME NEW kind \in Finished, Finish(kind)
        PROVE  TypeInv'
    <2>1. WorkOK'
      BY <1>1, <1>5, AnswerType DEF Finish, ReplyKind
    <2>2. RestOK'
      BY <1>1, <1>5 DEF Finish, NoExec, RestOK, control, transport
    <2>3. QED  BY <1>2, <1>3, <1>5, <2>1, <2>2, NextTypeParts DEF Finish, control
  <1>6. ASSUME NEW r \in RunId, DeliverCancel(r)
        PROVE  TypeInv'
    <2>1. WorkOK'
      BY <1>1, <1>6 DEF DeliverCancel, WorkOK
    <2>2. RestOK'
      BY <1>1, <1>6 DEF DeliverCancel, RestOK, control
    <2>3. QED
      BY <1>2, <1>3, <1>6, <2>1, <2>2, NextTypeParts DEF DeliverCancel, control
  <1>7. CASE ExecutorRestart
    <2>1. WorkOK'
      BY <1>1, <1>7 DEF ExecutorRestart, WorkOK
    <2>2. RestOK'
      BY <1>1, <1>7 DEF ExecutorRestart, NoExec, RestOK, control
    <2>3. QED
      BY <1>2, <1>3, <1>7, <2>1, <2>2, NextTypeParts DEF ExecutorRestart, control
  <1>8. QED  BY <1>4, <1>5, <1>6, <1>7 DEF ExecutorNext

(* Time only shortens what is left.                                        *)
LEMMA TickType ==
  ASSUME TypeInv, Tick
  PROVE  TypeInv'
  <1>1. RowsOK(runs) /\ StoredOK /\ WorkOK /\ RestOK
    BY TypeParts
  <1>2. \A t \in Nat : Less(t) \in Nat
    BY DEF Less
  <1>3. RowsOK(runs)'
    <2>1. ASSUME NEW r \in RunId
          PROVE  /\ runs'[r] \in Run
                 /\ runs'[r].state = runs[r].state
                 /\ runs'[r].leaseId = runs[r].leaseId
      <3>1. runs[r] \in Run /\ Less(runs[r].timer) \in Nat
        BY <1>1, <1>2 DEF RowsOK, Run
      <3>2. runs'[r] = [runs[r] EXCEPT !.timer = Less(runs[r].timer)]
        BY DEF Tick
      <3>3. QED  BY <3>1, <3>2 DEF Run
    <2>2. runs' = [r \in RunId |-> runs'[r]]
      BY DEF Tick
    <2>3. QED  BY <1>1, <2>1, <2>2 DEF RowsOK
  <1>4. WorkOK'
    <2>1. ASSUME NEW c \in Consumer
          PROVE  /\ SoundWork(work'[c])
                 /\ work'[c].pc = work[c].pc
                 /\ work'[c].run = work[c].run
      <3>1. SoundWork(work[c]) /\ Less(work[c].left) \in Nat
        BY <1>1, <1>2 DEF WorkOK, SoundWork, Work
      <3>2. work'[c] = [work[c] EXCEPT !.left = Less(work[c].left)]
        BY DEF Tick
      <3>3. QED  BY <3>1, <3>2 DEF SoundWork, Work
    <2>2. work' = [c \in Consumer |-> work'[c]]
      BY DEF Tick
    <2>3. QED  BY <1>1, <2>1, <2>2 DEF WorkOK, SoundWork, Tick
  <1>5. alarm' \in {NoAlarm} \cup 0..AlarmMs
    BY <1>1, ControlAssumption DEF Tick, Less, RestOK, NoAlarm
  <1>6. RestOK' /\ StoredOK'
    BY <1>1, <1>5 DEF Tick, RestOK, StoredOK, transport, executor
  <1>7. QED  BY <1>3, <1>4, <1>6, NextTypeParts

(* The initial states satisfy the type invariant.                          *)
LEMMA InitType == Init => TypeInv
  <1> SUFFICES ASSUME Init PROVE TypeInv
    OBVIOUS
  <1>1. AbsentRun \in Run /\ AbsentRun.state \notin Active
    BY DEF AbsentRun, Run, RunState, Recovery, Active
  <1>2. RowsOK(runs)
    BY <1>1 DEF Init, RowsOK
  <1>3. NoRequest \in [run : RunId \cup {0},
                       fingerprint : Fingerprint \cup {NoFingerprint}]
    BY ControlAssumption DEF NoRequest
  <1>4. NotDispatching \in [executing : BOOLEAN, count : Nat,
                            delay : 0..AlarmMs, stopped : BOOLEAN]
    BY ControlAssumption DEF NotDispatching
  <1>5. NoExec \in [run : RunId \cup {0}, lease : Nat, cancelled : BOOLEAN]
    BY DEF NoExec
  <1>6. RestOK
    BY <1>3, <1>4, <1>5 DEF Init, RestOK
  <1>7. StoredOK
    BY DEF Init, StoredOK, NotStored
  <1>8. WorkOK
    BY IdleIsSound DEF Init, WorkOK, SoundWork
  <1>9. QED  BY <1>2, <1>6, <1>7, <1>8, TypeParts

(* Every step keeps the type invariant.                                    *)
LEMMA NextType ==
  ASSUME TypeInv, [Next]_vars
  PROVE  TypeInv'
  <1>1. CASE Next
    BY <1>1, OwnerType, ConsumerType, AlarmType, ExecutorType, TickType DEF Next
  <1>2. CASE UNCHANGED vars
    BY <1>2 DEF TypeInv, TypeOK, LeaseInv, vars, control, transport, executor
  <1>3. QED  BY <1>1, <1>2

(* Every row, consumer, request and timer of the control plane stays well  *)
(* formed, and a delivery that recovers a stored result finds one.         *)
THEOREM TypeCorrect == Spec => []TypeInv
  <1>1. TypeInv /\ [Next]_vars => TypeInv'
    BY NextType
  <1>2. QED  BY InitType, <1>1, PTL DEF Spec

(* Every variable keeps its type: the rows of the control plane, the       *)
(* queues, the consumers and the executors.                                *)
THEOREM TypeOKHolds == Spec => []TypeOK
  <1>1. TypeInv => TypeOK
    BY DEF TypeInv
  <1>2. QED  BY TypeCorrect, <1>1, PTL

-------------------------------------------------------------------------------
(* One active run.                                                         *)

(* Rows that no step started and no step took the slot for.                *)
Quiet == \A q \in RunId : /\ Fresh(runs'[q]) => Fresh(runs[q])
                          /\ runs'[q].state \in Active => runs[q].state \in Active

(* Owners, alarms, the executor and time never take the slot.              *)
LEMMA OthersAreQuiet ==
  ASSUME TypeInv,
         \/ OwnerNext \/ AlarmNext \/ ExecutorNext \/ Tick \/ UNCHANGED vars
         \/ \E c \in Consumer : ReadRun(c)
  PROVE  Quiet
  <1>1. RowsOK(runs)
    BY TypeParts
  <1>2. Calmer(runs') => Quiet
    BY DEF Calmer, Quiet
  <1>3. UNCHANGED runs => Quiet
    BY DEF Quiet
  <1>4. CASE OwnerNext
    <2>1. ASSUME NEW o \in Owner, NEW q \in RequestId, NEW f \in Fingerprint,
                 NEW r \in RunId, AcceptNew(o, q, f, r)
          PROVE  Quiet
      BY <2>1, AcceptNewRows DEF Quiet
    <2>2. ASSUME NEW r \in RunId, Cancel(r)
          PROVE  Quiet
      <3>1. runs' = Transitioned(r, CancelEvent) /\ SoundReport(CancelEvent)
        BY <2>2, EventsSent, 0 \in Nat DEF Cancel, Transition, Write
      <3>2. QED
        BY <1>1, <3>1, TransitionedEffect, EventsSent, 0 \in Nat DEF Quiet
    <2>3. Arrives \/ (\E b \in Commands : SetAccepting(b)) => Quiet
      BY <1>3 DEF SetAccepting, Arrives
    <2>4. QED  BY <1>2, <1>4, <2>1, <2>2, <2>3, ReadersCalm DEF OwnerNext
  <1>5. CASE AlarmNext
    BY <1>2, <1>3, <1>5, ReadersCalm
       DEF AlarmNext, TakeRow, AlarmEnds, ObjectRestart
  <1>6. CASE ExecutorNext
    BY <1>3, <1>6
       DEF ExecutorNext, Admit, Finish, DeliverCancel, ExecutorRestart, control
  <1>7. CASE Tick
    <2>1. \A q \in RunId : runs'[q] = [runs[q] EXCEPT !.timer = Less(@)]
      BY <1>7 DEF Tick
    <2>2. \A q \in RunId : runs'[q].state = runs[q].state
                           /\ runs'[q].recovery = runs[q].recovery
      BY <1>1, <2>1 DEF RowsOK, Run
    <2>3. QED  BY <2>2 DEF Quiet, Fresh
  <1>8. QED
    BY <1>2, <1>3, <1>4, <1>5, <1>6, <1>7, ReadersCalm DEF vars, control

(* A report frees the slot or leaves it, and makes only the run it         *)
(* refuses look fresh again.                                               *)
LEMMA ReportRows ==
  ASSUME TypeInv, NEW c \in Consumer, NEW event, Reporting(c, event)
  PROVE  \A q \in RunId :
           /\ Fresh(runs'[q])
                => Fresh(runs[q]) \/ (q = work[c].run /\ Refused(event))
           /\ runs'[q].state \in Active => runs[q].state \in Active
  <1>1. work[c].run \in RunId /\ RowsOK(runs)
    BY WorkIsSound, TypeParts DEF Reporting, SoundWork, Work
  <1>2. runs' = Transitioned(work[c].run, event)
    BY DEF Reporting, Report, Transition, Write
  <1>3. QED  BY <1>1, <1>2, TransitionedEffect DEF Reporting

(* Every step keeps at most one active run for each user and each engine.  *)
LEMMA OneActiveStep ==
  ASSUME TypeInv, OneActiveRun, [Next]_vars
  PROVE  OneActiveRun'
  <1>1. (\A q \in RunId : runs'[q].state \in Active => runs[q].state \in Active)
          => OneActiveRun'
    BY DEF OneActiveRun, InState
  <1>2. Quiet => OneActiveRun'
    BY <1>1 DEF Quiet
  <1>3. ASSUME NEW c \in Consumer, AcquireLease(c)
        PROVE  OneActiveRun'
    <2>1. /\ work[c].run \in RunId
          /\ RowsOK(runs)
          /\ SoundReport(LeaseAcquired)
          /\ runs' = Transitioned(work[c].run, LeaseAcquired)
      BY <1>3, WorkIsSound, TypeParts, EventsSent, 0 \in Nat
         DEF AcquireLease, SoundWork, Work, Transition, Write
    <2>2. \A p, q \in RunId :
            /\ runs'[p].state \in Active
            /\ runs'[q].state \in Active
            => p = q \/ (runs[p].state \in Active /\ runs[q].state \in Active)
      BY <2>1, TransitionedEffect
    <2>3. QED  BY <2>2 DEF OneActiveRun, InState
  <1>4. ASSUME NEW c \in Consumer, ConsumerStep(c)
        PROVE  OneActiveRun'
    <2>1. CASE \/ Recover(c) \/ Retire(c) \/ FailMissing(c) \/ Refuse(c)
               \/ SettleRun(c) \/ CatchBlock(c)
      BY <1>1, <2>1, ReportingSteps, ReportRows
    <2>2. CASE FindStored(c) \/ ReadInput(c) \/ StoreResult(c)
      BY <1>1, <2>2 DEF FindStored, ReadInput, StoreResult
    <2>3. QED
      BY <1>2, <1>3, <1>4, <2>1, <2>2, OthersAreQuiet DEF ConsumerStep
  <1>5. CASE ConsumerNext
    BY <1>1, <1>4, <1>5
       DEF ConsumerNext, Receive, ControlUnavailable, LoseReply, ConsumerCrash,
           control
  <1>6. QED  BY <1>2, <1>5, OthersAreQuiet DEF Next

(* The execution slot is never shared, whoever delivers the jobs           *)
(* (EXECUTOR_SLOT_BUSY after pruneActive in transition).                   *)
THEOREM OneActiveRunHolds == Spec => []OneActiveRun
  <1>1. Init => OneActiveRun
    BY DEF Init, AbsentRun, OneActiveRun, InState, Active
  <1>2. TypeInv /\ OneActiveRun /\ [Next]_vars => OneActiveRun'
    BY OneActiveStep
  <1>3. QED  BY <1>1, <1>2, TypeCorrect, PTL DEF Spec

-------------------------------------------------------------------------------
(* At most one execution.                                                  *)

(* Steps that make nothing fresh, send nothing to the executor and give no *)
(* consumer an attempt keep the invariant.                                 *)
LEMMA QuietKeepsExecution ==
  ASSUME ExecutionInv,
         \A r \in RunId : Fresh(runs'[r]) => Fresh(runs[r]),
         inbox' \subseteq inbox, executed' = executed,
         \A c \in Consumer, r \in RunId :
           Holds(c, r)' => /\ Holds(c, r)
                           /\ Unsent(work'[c]) => Unsent(work[c])
  PROVE  ExecutionInv'
  <1>1. \A r \in RunId : MayRun(r)' => MayRun(r)
    BY DEF MayRun
  <1>2. HoldersOwn' /\ OneHolder'
    BY DEF ExecutionInv, HoldersOwn, OneHolder
  <1>3. SentOnce'
    BY DEF ExecutionInv, SentOnce
  <1>4. FreshIsUnsent'
    BY <1>1 DEF ExecutionInv, FreshIsUnsent
  <1>5. RefusalIsProven'
    BY <1>1 DEF ExecutionInv, RefusalIsProven
  <1>6. QED  BY <1>2, <1>3, <1>4, <1>5 DEF ExecutionInv

(* The same when one consumer moves and gains no attempt.                  *)
LEMMA MoveKeepsExecution ==
  ASSUME TypeInv, ExecutionInv, NEW c \in Consumer, NEW w,
         work' = [work EXCEPT ![c] = w],
         w.pc \in Holding => /\ Holds(c, w.run)
                             /\ Unsent(w) => Unsent(work[c]),
         \A r \in RunId : Fresh(runs'[r]) => Fresh(runs[r]),
         inbox' \subseteq inbox, executed' = executed
  PROVE  ExecutionInv'
  <1>1. work \in [Consumer -> Work]
    BY WorkIsSound
  <1>2. ASSUME NEW d \in Consumer, NEW r \in RunId, Holds(d, r)'
        PROVE  Holds(d, r) /\ (Unsent(work'[d]) => Unsent(work[d]))
    <2>1. CASE d = c
      <3>1. work'[d] = w
        BY <1>1, <2>1
      <3>2. w.pc \in Holding /\ w.run = r
        BY <1>2, <3>1 DEF Holds
      <3>3. QED  BY <2>1, <3>1, <3>2
    <2>2. CASE d # c
      <3>1. work'[d] = work[d]
        BY <1>1, <2>2
      <3>2. QED  BY <1>2, <3>1 DEF Holds
    <2>3. QED  BY <2>1, <2>2
  <1>3. QED  BY <1>2, QuietKeepsExecution

(* An acquired lease gives one consumer an attempt of a run nobody held    *)
(* and the executor was never asked to run.                                *)
LEMMA LeaseKeepsExecution ==
  ASSUME TypeInv, ExecutionInv, NEW c \in Consumer, AcquireLease(c)
  PROVE  ExecutionInv'
  <1> DEFINE r == work[c].run
             seen == Seen(r, "lease-acquired")
  <1>1. /\ r \in RunId
        /\ RowsOK(runs)
        /\ work \in [Consumer -> Work]
        /\ SoundReport(LeaseAcquired)
        /\ ~Refused(LeaseAcquired)
        /\ runs' = Transitioned(r, LeaseAcquired)
        /\ UNCHANGED <<inbox, executed>>
    BY WorkIsSound, TypeParts, EventsSent, 0 \in Nat
       DEF AcquireLease, SoundWork, Work, Transition, Write, transport, executor
  <1>2. \A q \in RunId : Fresh(runs'[q]) => Fresh(runs[q])
    BY <1>1, TransitionedEffect
  <1>3. CASE Retry(c)
    <2>1. work' = [work EXCEPT ![c] = Idle] /\ Idle.pc \notin Holding
      BY <1>3, IdleIsSound DEF Retry, Holding
    <2>2. QED  BY <1>1, <1>2, <2>1, MoveKeepsExecution
  <1>4. CASE ~Retry(c)
    <2> DEFINE w == [work[c] EXCEPT !.pc = "input", !.lease = runs'[r].leaseId]
    <2>1. /\ Admitted(r, LeaseAcquired)
          /\ work' = [work EXCEPT ![c] = w]
      BY <1>1, <1>4 DEF AcquireLease
    <2>2. Calmer(seen) /\ seen[r] \in Run
      BY <1>1, SeenCalms DEF Calmer, RowsOK
    <2>3. /\ seen[r].state = "queued"
          /\ runs'[r] = Lease(seen[r])
      BY <1>1, <2>1, <2>2
         DEF Admitted, Transitioned, Legal, LeaseAcquired, After, Calmer, RowsOK
    <2>4. Fresh(runs[r]) /\ ~Fresh(runs'[r])
      BY <1>1, <2>2, <2>3 DEF Calmer, Fresh, Lease, Run
    <2>5. /\ w.pc = "input" /\ w.run = r
          /\ work'[c] = w
          /\ \A d \in Consumer \ {c} : work'[d] = work[d]
      BY <1>1, <2>1 DEF Work
    <2> HIDE DEF w, r, seen
    <2>6. ~MayRun(r) /\ \A d \in Consumer : ~Holds(d, r)
      BY <1>1, <2>4 DEF ExecutionInv, FreshIsUnsent, HoldersOwn
    <2>7. \A q \in RunId : MayRun(q)' <=> MayRun(q)
      BY <1>1 DEF MayRun
    <2>8. \A d \in Consumer, q \in RunId :
            Holds(d, q)' => (d = c /\ q = r) \/ (d # c /\ q # r /\ Holds(d, q))
      BY <2>5, <2>6 DEF Holds
    <2>9. HoldersOwn'
      BY <1>2, <2>4, <2>8 DEF ExecutionInv, HoldersOwn
    <2>10. OneHolder'
      BY <2>8 DEF ExecutionInv, OneHolder
    <2>11. SentOnce'
      BY <1>1 DEF ExecutionInv, SentOnce
    <2>12. FreshIsUnsent'
      BY <1>2, <2>7 DEF ExecutionInv, FreshIsUnsent
    <2>13. RefusalIsProven'
      BY <2>5, <2>6, <2>7, <2>8 DEF ExecutionInv, RefusalIsProven
    <2>14. QED  BY <2>9, <2>10, <2>11, <2>12, <2>13 DEF ExecutionInv
  <1>5. QED  BY <1>3, <1>4

(* A reported refusal puts back in the queue a run that its only holder    *)
(* knows was not and will not be started, and the holder lets it go.       *)
LEMMA ReportKeepsExecution ==
  ASSUME TypeInv, ExecutionInv, NEW c \in Consumer, NEW event,
         Reporting(c, event)
  PROVE  ExecutionInv'
  <1> DEFINE r == work[c].run
  <1>1. r \in RunId /\ work \in [Consumer -> Work]
    BY WorkIsSound DEF Reporting, SoundWork, Work
  <1>2. /\ UNCHANGED <<inbox, executed>>
        /\ Ack(c) \/ Retry(c) \/ Thrown(c)
    BY DEF Reporting, Report, transport, executor
  <1>3. PICK w \in Work :
          /\ work' = [work EXCEPT ![c] = w]
          /\ w.pc \in {"idle", "catch", "catch-sent"}
          /\ w.pc = "catch" => work[c].pc = "missing"
          /\ w.pc # "idle" => Holds(c, w.run)
    BY <1>2, ReportEnds
  <1>4. \A q \in RunId :
          Fresh(runs'[q]) => Fresh(runs[q]) \/ (q = r /\ Refused(event))
    BY ReportRows
  <1>5. CASE ~Refused(event)
    <2>1. \A q \in RunId : Fresh(runs'[q]) => Fresh(runs[q])
      BY <1>4, <1>5
    <2>2. w.pc \in Holding => Holds(c, w.run) /\ (Unsent(w) => Unsent(work[c]))
      BY <1>3 DEF Holding, Unsent
    <2>3. QED  BY <1>2, <1>3, <2>1, <2>2, MoveKeepsExecution
  <1>6. CASE Refused(event)
    <2>1. Holds(c, r) /\ Unsent(work[c])
      BY <1>6 DEF Reporting
    <2>2. w.pc \notin Holding
      <3>1. work[c].pc # "missing"
        BY <1>6 DEF Reporting
      <3>2. QED  BY <1>3, <3>1 DEF Holding
    <2> HIDE DEF r
    <2>3. ~MayRun(r)
      BY <1>1, <2>1 DEF ExecutionInv, RefusalIsProven
    <2>4. \A d \in Consumer, q \in RunId : Holds(d, q)' => Holds(d, q) /\ d # c
      BY <1>1, <1>3, <2>2 DEF Holds
    <2>5. \A d \in Consumer : d # c => work'[d] = work[d] /\ ~Holds(d, r)
      BY <1>1, <1>3, <2>1 DEF ExecutionInv, OneHolder
    <2>6. \A q \in RunId : MayRun(q)' <=> MayRun(q)
      BY <1>2 DEF MayRun
    <2>7. HoldersOwn'
      BY <1>4, <2>4, <2>5 DEF ExecutionInv, HoldersOwn
    <2>8. OneHolder'
      BY <2>4 DEF ExecutionInv, OneHolder
    <2>9. SentOnce'
      BY <1>2 DEF ExecutionInv, SentOnce
    <2>10. FreshIsUnsent'
      BY <1>4, <2>3, <2>6 DEF ExecutionInv, FreshIsUnsent
    <2>11. RefusalIsProven'
      BY <2>4, <2>5, <2>6 DEF ExecutionInv, RefusalIsProven
    <2>12. QED  BY <2>7, <2>8, <2>9, <2>10, <2>11 DEF ExecutionInv
  <1>7. QED  BY <1>5, <1>6

(* The holder that dispatches sends the only request there ever was.       *)
LEMMA DispatchKeepsExecution ==
  ASSUME TypeInv, ExecutionInv, NEW c \in Consumer, ReadInput(c)
  PROVE  ExecutionInv'
  <1> DEFINE r == work[c].run
  <1>1. /\ work[c].pc = "input"
        /\ r \in RunId
        /\ work \in [Consumer -> Work]
        /\ UNCHANGED <<runs, executed>>
        /\ Holds(c, r)
    BY WorkIsSound DEF ReadInput, SoundWork, Work, executor, Holds, Holding
  <1>2. PICK pc \in {"wait", "missing", "catch"} :
          /\ Goto(c, pc)
          /\ inbox' = IF pc = "wait" THEN inbox \cup {<<r, work[c].lease>>}
                      ELSE inbox
    BY DEF ReadInput
  <1> DEFINE w == [work[c] EXCEPT !.pc = pc]
  <1>3. /\ work' = [work EXCEPT ![c] = w]
        /\ w.pc = pc
        /\ w.run = r
    BY <1>1, <1>2 DEF Goto, Work
  <1> HIDE DEF w, r
  <1>4. CASE pc # "wait"
    <2>1. w.pc \in Holding => Holds(c, w.run) /\ (Unsent(w) => Unsent(work[c]))
      BY <1>1, <1>3 DEF Unsent
    <2>2. QED  BY <1>1, <1>2, <1>3, <1>4, <2>1, MoveKeepsExecution
  <1>5. CASE pc = "wait"
    <2> DEFINE sent == <<r, work[c].lease>>
    <2>1. inbox' = inbox \cup {sent} /\ sent[1] = r
      BY <1>2, <1>5
    <2>2. ~MayRun(r) /\ ~Fresh(runs[r])
      BY <1>1 DEF ExecutionInv, RefusalIsProven, HoldersOwn, Unsent
    <2>3. \A d \in Consumer : d # c => work'[d] = work[d] /\ ~Holds(d, r)
      BY <1>1, <1>3 DEF ExecutionInv, OneHolder
    <2>4. work'[c].pc = "wait" /\ work'[c].run = r
      BY <1>1, <1>3, <1>5
    <2> HIDE DEF sent
    <2>5. \A q \in RunId : MayRun(q)' => q = r \/ MayRun(q)
      BY <1>1, <2>1 DEF MayRun
    <2>6. \A d \in Consumer, q \in RunId :
            Holds(d, q)' => Holds(d, q) /\ (d = c <=> q = r)
      BY <1>1, <2>3, <2>4 DEF Holds
    <2>7. HoldersOwn'
      BY <1>1, <2>6 DEF ExecutionInv, HoldersOwn
    <2>8. OneHolder'
      BY <2>6 DEF ExecutionInv, OneHolder
    <2>9. SentOnce'
      BY <1>1, <2>1, <2>2 DEF ExecutionInv, SentOnce, MayRun
    <2>10. FreshIsUnsent'
      BY <1>1, <2>2, <2>5 DEF ExecutionInv, FreshIsUnsent
    <2>11. RefusalIsProven'
      <3>1. ~Unsent(work'[c])
        BY <2>4 DEF Unsent
      <3>2. QED
        BY <2>3, <2>5, <2>6, <3>1 DEF ExecutionInv, RefusalIsProven
    <2>12. QED  BY <2>7, <2>8, <2>9, <2>10, <2>11 DEF ExecutionInv
  <1>6. QED  BY <1>4, <1>5

(* The executor takes a request once: started, or answered as refused and  *)
(* never to be started.                                                    *)
LEMMA AdmitKeepsExecution ==
  ASSUME TypeInv, ExecutionInv, NEW m \in inbox, Admit(m[1], m[2])
  PROVE  ExecutionInv'
  <1> DEFINE r == m[1]
  <1>1. /\ r \in RunId
        /\ m = <<m[1], m[2]>>
        /\ WorkOK
        /\ executed \in [RunId -> Nat]
    BY TypeParts DEF RestOK
  <1>2. UNCHANGED runs /\ inbox' = inbox \ {m}
    BY <1>1 DEF Admit, control
  <1>3. CASE /\ executed' = executed
             /\ \E kind \in {"run-cancelled", "refused"} : Answer(r, m[2], kind)
    <2>1. PICK kind \in {"run-cancelled", "refused"} : Answer(r, m[2], kind)
      BY <1>3
    <2>2. kind \in ReplyKind
      BY DEF ReplyKind
    <2>3. \A d \in Consumer, q \in RunId :
            Holds(d, q)' => /\ Holds(d, q)
                            /\ \/ work'[d] = work[d]
                               \/ /\ work[d].pc = "wait" /\ q = r
      BY <1>1, <2>1, <2>2, AnswerMoves DEF Holds, Holding
    <2>4. ~MayRun(r)'
      BY <1>1, <1>2, <1>3 DEF ExecutionInv, SentOnce, MayRun
    <2> HIDE DEF r
    <2>5. \A q \in RunId : MayRun(q)' => MayRun(q)
      BY <1>2, <1>3 DEF MayRun
    <2>6. HoldersOwn'
      BY <1>2, <2>3 DEF ExecutionInv, HoldersOwn
    <2>7. OneHolder'
      BY <2>3 DEF ExecutionInv, OneHolder
    <2>8. SentOnce'
      BY <1>2, <1>3 DEF ExecutionInv, SentOnce
    <2>9. FreshIsUnsent'
      BY <1>2, <2>5 DEF ExecutionInv, FreshIsUnsent
    <2>10. RefusalIsProven'
      BY <2>3, <2>4, <2>5 DEF ExecutionInv, RefusalIsProven
    <2>11. QED  BY <2>6, <2>7, <2>8, <2>9, <2>10 DEF ExecutionInv
  <1>4. CASE /\ executed' = [executed EXCEPT ![r] = @ + 1]
             /\ UNCHANGED work
    <2>1. executed[r] = 0 /\ \A n \in inbox : n[1] = r => n = m
      BY <1>1 DEF ExecutionInv, SentOnce
    <2>2. executed'[r] = 1 /\ \A q \in RunId \ {r} : executed'[q] = executed[q]
      BY <1>1, <1>4, <2>1
    <2>3. MayRun(r)
      BY DEF MayRun
    <2>4. \A q \in RunId : MayRun(q)' => MayRun(q)
      BY <1>2, <2>2, <2>3 DEF MayRun
    <2> HIDE DEF r
    <2>5. HoldersOwn' /\ OneHolder'
      BY <1>2, <1>4 DEF ExecutionInv, HoldersOwn, OneHolder, Holds
    <2>6. SentOnce'
      BY <1>2, <2>1, <2>2 DEF ExecutionInv, SentOnce
    <2>7. FreshIsUnsent'
      BY <1>2, <2>4 DEF ExecutionInv, FreshIsUnsent
    <2>8. RefusalIsProven'
      BY <1>4, <2>4 DEF ExecutionInv, RefusalIsProven, Holds
    <2>9. QED  BY <2>5, <2>6, <2>7, <2>8 DEF ExecutionInv
  <1>5. QED  BY <1>3, <1>4 DEF Admit

(* The steps of a consumer keep the execution invariant.                   *)
LEMMA ConsumerKeepsExecution ==
  ASSUME TypeInv, ExecutionInv, ConsumerNext
  PROVE  ExecutionInv'
  <1>1. PICK c \in Consumer :
          \/ \E r \in RunId : Receive(c, r)
          \/ ConsumerStep(c)
          \/ ControlUnavailable(c)
          \/ LoseReply(c)
          \/ ConsumerCrash(c)
    BY DEF ConsumerNext
  <1>2. work[c] \in Work /\ work \in [Consumer -> Work] /\ SoundWork(work[c])
    BY WorkIsSound DEF SoundWork
  <1>3. (UNCHANGED runs \/ Quiet)
          => \A r \in RunId : Fresh(runs'[r]) => Fresh(runs[r])
    BY DEF Quiet
  <1>4. Idle.pc \notin Holding
    BY IdleIsSound DEF Holding
  <1>5. ASSUME NEW r \in RunId, Receive(c, r)
        PROVE  ExecutionInv'
    <2>1. [Idle EXCEPT !.pc = "read", !.run = r].pc \notin Holding
      BY DEF Idle, Holding
    <2>2. QED
      BY <1>3, <1>5, <2>1, MoveKeepsExecution
         DEF Receive, control, transport, executor
  <1>6. ASSUME Retry(c) \/ Ack(c), UNCHANGED <<inbox, executed>>,
               UNCHANGED runs \/ Quiet
        PROVE  ExecutionInv'
    BY <1>3, <1>4, <1>6, MoveKeepsExecution DEF Retry, Ack
  <1>7. ASSUME NEW pc, Goto(c, pc), UNCHANGED <<inbox, executed>>,
               UNCHANGED runs \/ Quiet,
               pc \notin Holding \/ (pc = "settle" /\ work[c].pc = "store")
        PROVE  ExecutionInv'
    <2> DEFINE w == [work[c] EXCEPT !.pc = pc]
    <2>1. /\ work' = [work EXCEPT ![c] = w]
          /\ w.pc = pc
          /\ w.run = work[c].run
      BY <1>2, <1>7 DEF Goto, Work
    <2>2. w.pc \in Holding => Holds(c, w.run) /\ (Unsent(w) => Unsent(work[c]))
      BY <1>7, <2>1 DEF Holds, Unsent, Holding
    <2> HIDE DEF w
    <2>3. QED  BY <1>3, <1>7, <2>1, <2>2, MoveKeepsExecution
  <1>8. CASE ReadRun(c)
    <2>1. Quiet /\ UNCHANGED <<inbox, executed>>
      BY <1>8, OthersAreQuiet DEF ReadRun, transport, executor
    <2>2. PICK read :
            \/ /\ work' = [work EXCEPT ![c].pc = "find",
                                       ![c].lease = read.leaseId,
                                       ![c].left = read.timer]
               /\ UNCHANGED dispatch
            \/ Goto(c, "lease")
            \/ Ack(c)
      BY <1>8 DEF ReadRun
    <2>3. CASE Goto(c, "lease") \/ Ack(c)
      BY <1>6, <1>7, <2>1, <2>3 DEF Holding
    <2>4. CASE work' = [work EXCEPT ![c].pc = "find", ![c].lease = read.leaseId,
                                    ![c].left = read.timer]
      <3> DEFINE w == [work[c] EXCEPT !.pc = "find", !.lease = read.leaseId,
                                      !.left = read.timer]
      <3>1. work' = [work EXCEPT ![c] = w]
        BY <1>2, <2>4
      <3>2. w.pc \notin Holding
        BY <1>2 DEF Work, Holding
      <3> HIDE DEF w
      <3>3. QED  BY <1>3, <2>1, <3>1, <3>2, MoveKeepsExecution
    <2>5. QED  BY <2>2, <2>3, <2>4
  <1>9. CASE FindStored(c)
    BY <1>6, <1>7, <1>9 DEF FindStored, Holding, transport, executor
  <1>10. CASE \/ Recover(c) \/ Retire(c) \/ FailMissing(c) \/ Refuse(c)
              \/ SettleRun(c) \/ CatchBlock(c)
    BY <1>10, ReportingSteps, ReportKeepsExecution
  <1>11. CASE AcquireLease(c) \/ ReadInput(c)
    BY <1>11, LeaseKeepsExecution, DispatchKeepsExecution
  <1>12. CASE StoreResult(c)
    <2>1. PICK pc \in {"settle", "catch-sent"} : Goto(c, pc)
      BY <1>12 DEF StoreResult
    <2>2. pc \notin Holding \/ (pc = "settle" /\ work[c].pc = "store")
      BY <1>12, <2>1 DEF StoreResult, Holding
    <2>3. QED
      BY <1>7, <1>12, <2>1, <2>2 DEF StoreResult, transport, executor
  <1>13. CASE ControlUnavailable(c)
    <2>1. PICK w \in Work :
            /\ work' = [work EXCEPT ![c] = w]
            /\ w.pc \in {"idle", "catch", "catch-sent"}
            /\ w.pc = "catch" => work[c].pc = "missing"
            /\ w.pc # "idle" => Holds(c, w.run)
      BY <1>13, ReportEnds DEF ControlUnavailable
    <2>2. w.pc \in Holding => Holds(c, w.run) /\ (Unsent(w) => Unsent(work[c]))
      BY <2>1 DEF Holding, Unsent
    <2>3. UNCHANGED <<runs, inbox, executed>>
      BY <1>13 DEF ControlUnavailable, transport, executor
    <2>4. QED  BY <1>3, <2>1, <2>2, <2>3, MoveKeepsExecution
  <1>14. CASE LoseReply(c)
    <2>1. PICK lost \in {"unreachable", "gateway-lost"} :
            work' = [work EXCEPT ![c] = Answered(work[c], lost)]
      BY <1>14 DEF LoseReply
    <2> DEFINE w == Answered(work[c], lost)
    <2>2. /\ w.run = work[c].run
          /\ w.reply # "refused"
          /\ w.pc \in {"refuse", "store"}
      BY <1>2, <1>14, <2>1, AnsweredType DEF LoseReply, ReplyKind
    <2>3. Holds(c, w.run) /\ ~Unsent(w)
      BY <1>14, <2>2 DEF LoseReply, Holds, Holding, Unsent
    <2> HIDE DEF w
    <2>4. UNCHANGED <<runs, inbox, executed>>
      BY <1>14 DEF LoseReply, control, transport, executor
    <2>5. QED  BY <1>3, <2>1, <2>3, <2>4, MoveKeepsExecution DEF w
  <1>15. CASE ConsumerCrash(c)
    <2>1. /\ work' = [work EXCEPT ![c] = Idle]
          /\ UNCHANGED <<runs, inbox, executed>>
      BY <1>15 DEF ConsumerCrash, control, transport, executor
    <2>2. QED  BY <1>3, <1>4, <2>1, MoveKeepsExecution
  <1>16. QED
    BY <1>1, <1>5, <1>8, <1>9, <1>10, <1>11, <1>12, <1>13, <1>14, <1>15
       DEF ConsumerStep

(* Every step keeps the execution invariant.                               *)
LEMMA ExecutionStep ==
  ASSUME TypeInv, ExecutionInv, [Next]_vars
  PROVE  ExecutionInv'
  <1>1. WorkOK
    BY TypeParts
  <1>2. Quiet => \A r \in RunId : Fresh(runs'[r]) => Fresh(runs[r])
    BY DEF Quiet
  <1>3. ASSUME Quiet, inbox' \subseteq inbox, executed' = executed,
               \A c \in Consumer : /\ work'[c].pc = work[c].pc
                                    /\ work'[c].run = work[c].run
                                    /\ work'[c].reply = work[c].reply
        PROVE  ExecutionInv'
    <2>1. \A c \in Consumer, r \in RunId :
            Holds(c, r)' => /\ Holds(c, r)
                            /\ Unsent(work'[c]) => Unsent(work[c])
      BY <1>3 DEF Holds, Unsent
    <2>2. QED  BY <1>2, <1>3, <2>1, QuietKeepsExecution
  <1>4. CASE OwnerNext
    <2>1. UNCHANGED <<inbox, executed, work>>
      <3> USE DEF transport, executor
      <3>1. ASSUME NEW o \in Owner, NEW q \in RequestId, NEW f \in Fingerprint
            PROVE  /\ \A r \in RunId : AcceptNew(o, q, f, r)
                                       => UNCHANGED <<inbox, executed, work>>
                   /\ AcceptAgain(o, q, f) => UNCHANGED <<inbox, executed, work>>
                   /\ AcceptRefused(o, q, f) => UNCHANGED <<inbox, executed, work>>
        BY DEF AcceptNew, AcceptAgain, AcceptRefused, SendJob
      <3>2. \A o \in Owner : List(o) => UNCHANGED <<inbox, executed, work>>
        BY DEF List
      <3>3. \A r \in RunId : AwaitResult(r) \/ AwaitTimesOut(r) \/ Cancel(r)
                               => UNCHANGED <<inbox, executed, work>>
        BY DEF AwaitResult, AwaitTimesOut, Cancel
      <3>4. Arrives \/ (\E b \in Commands : SetAccepting(b))
              => UNCHANGED <<inbox, executed, work>>
        BY DEF SetAccepting, Arrives
      <3>5. QED  BY <1>4, <3>1, <3>2, <3>3, <3>4 DEF OwnerNext
    <2>2. QED  BY <1>3, <1>4, <2>1, OthersAreQuiet
  <1>5. CASE AlarmNext
    <2>1. Quiet /\ UNCHANGED <<inbox, executed>>
      BY <1>5, OthersAreQuiet
         DEF AlarmNext, AlarmFires, TakeRow, AlarmEnds, ObjectRestart,
             transport, executor
    <2>2. CASE UNCHANGED work
      BY <1>3, <2>1, <2>2
    <2>3. CASE TakeRow \/ ObjectRestart
      <3>1. PICK w : work' = [work EXCEPT ![Dispatcher] = w] /\ w.pc \notin Holding
        <4>1. Idle.pc \notin Holding
              /\ \A r \in RunId : [Idle EXCEPT !.pc = "read", !.run = r].pc \notin Holding
          BY DEF Idle, Holding
        <4>2. QED  BY <2>3, <4>1 DEF TakeRow, ObjectRestart
      <3>2. QED
        BY <1>2, <2>1, <3>1, DispatcherIsConsumer, MoveKeepsExecution
    <2>4. QED  BY <1>5, <2>2, <2>3 DEF AlarmNext, AlarmFires, AlarmEnds
  <1>6. CASE ExecutorNext
    <2>1. Quiet
      BY <1>6, OthersAreQuiet
    <2>2. ASSUME NEW m \in inbox, Admit(m[1], m[2])
          PROVE  ExecutionInv'
      BY <2>2, AdmitKeepsExecution
    <2>3. ASSUME NEW kind \in Finished, Finish(kind)
          PROVE  ExecutionInv'
      <3>1. kind \in ReplyKind /\ Answer(exec.run, exec.lease, kind)
        BY <2>3 DEF Finish, ReplyKind
      <3>2. ASSUME NEW c \in Consumer, NEW r \in RunId, Holds(c, r)'
            PROVE  Holds(c, r) /\ (Unsent(work'[c]) => Unsent(work[c]))
        <4>1. CASE work'[c] = work[c]
          BY <3>2, <4>1 DEF Holds
        <4>2. CASE work[c].pc = "wait" /\ work'[c] = Answered(work[c], kind)
          <5>1. ~Unsent(work'[c])
            BY <1>1, <3>1, <4>2, AnsweredType DEF WorkOK, Unsent, Finished
          <5>2. work'[c].run = work[c].run
            BY <1>1, <3>1, AnswerMoves
          <5>3. QED  BY <3>2, <4>2, <5>1, <5>2 DEF Holds, Holding
        <4>3. QED  BY <1>1, <3>1, <4>1, <4>2, AnswerMoves
      <3>3. UNCHANGED <<inbox, executed>>
        BY <2>3 DEF Finish, transport
      <3>4. QED  BY <1>2, <2>1, <3>2, <3>3, QuietKeepsExecution
    <2>4. ASSUME NEW r \in RunId, DeliverCancel(r)
          PROVE  ExecutionInv'
      BY <1>3, <2>1, <2>4 DEF DeliverCancel
    <2>5. CASE ExecutorRestart
      BY <1>3, <2>1, <2>5 DEF ExecutorRestart
    <2>6. QED  BY <1>6, <2>2, <2>3, <2>4, <2>5 DEF ExecutorNext
  <1>7. CASE Tick
    <2>1. \A c \in Consumer : /\ work'[c].pc = work[c].pc
                              /\ work'[c].run = work[c].run
                              /\ work'[c].reply = work[c].reply
      BY <1>1, <1>7 DEF Tick, WorkOK, Work
    <2>2. QED
      BY <1>3, <1>7, <2>1, OthersAreQuiet DEF Tick, transport, executor
  <1>8. CASE UNCHANGED vars
    BY <1>3, <1>8, OthersAreQuiet DEF vars, transport, executor
  <1>9. QED
    BY <1>4, <1>5, <1>6, <1>7, <1>8, ConsumerKeepsExecution DEF Next

(* Whatever is lost, redelivered, retried or restarted, only the consumer  *)
(* whose attempt was refused before dispatch can put a run back in the     *)
(* queue, so no run is asked of the executor twice.                        *)
THEOREM ExecutionSafe == Spec => []ExecutionInv
  <1>1. Init => ExecutionInv
    BY DEF Init, ExecutionInv, HoldersOwn, OneHolder, SentOnce, FreshIsUnsent,
           RefusalIsProven, Holds, Holding, Idle, MayRun
  <1>2. TypeInv /\ ExecutionInv /\ [Next]_vars => ExecutionInv'
    BY ExecutionStep
  <1>3. QED  BY <1>1, <1>2, TypeCorrect, PTL DEF Spec

(* The executor starts no run twice (consumeSimulationJobs).               *)
THEOREM ExecutedAtMostOnceHolds == Spec => []ExecutedAtMostOnce
  <1>1. ExecutionInv => ExecutedAtMostOnce
    BY DEF ExecutionInv, SentOnce, ExecutedAtMostOnce
  <1>2. QED  BY <1>1, ExecutionSafe, PTL

(* A record that advises to retry is of a run that was never started and   *)
(* no longer can be (Problem.recovery of managed-run.ts).                  *)
THEOREM RetryAdviceIsSafeHolds == Spec => []RetryAdviceIsSafe
  <1>1. TypeInv /\ ExecutionInv => RetryAdviceIsSafe
    <2>1. SUFFICES ASSUME TypeInv, ExecutionInv, NEW r \in RunId,
                          runs[r].recovery = "retry-after"
                   PROVE  /\ executed[r] = 0
                          /\ \A a \in 0..MaxAttempts : <<r, a>> \notin inbox
      BY DEF RetryAdviceIsSafe
    <2>2. ~MayRun(r)
      BY <2>1 DEF ExecutionInv, FreshIsUnsent, Fresh
    <2>3. QED  BY <2>2 DEF MayRun
  <1>2. QED  BY <1>1, TypeCorrect, ExecutionSafe, PTL

-------------------------------------------------------------------------------
(* How one row moves.                                                      *)

(* A live row that the event of a transition was applied to.               *)
Acted(run, event, next) ==
  /\ run.state \in Live
  /\ Legal(run, event)
  /\ next = After(run, event)

(* The rows a transition reads: as they were, or after their deadline.     *)
LEMMA SeenRows ==
  ASSUME RowsOK(runs), NEW r \in RunId, NEW kind, NEW q \in RunId
  PROVE  Seen(r, kind)[q] \in {runs[q], ExpireRecord(runs[q])}
  <1> DEFINE read == [runs EXCEPT ![r] = ExpireRecord(@)]
  <1>1. runs \in [RunId -> Run] /\ runs[q] \in Run
    BY DEF RowsOK
  <1>2. read[q] \in {runs[q], ExpireRecord(runs[q])}
    BY <1>1
  <1>3. ExpireRecord(ExpireRecord(runs[q])) = ExpireRecord(runs[q])
    BY <1>1, ExpireTwice
  <1>4. PruneActive(read)[q] \in {runs[q], ExpireRecord(runs[q])}
    BY <1>2, <1>3 DEF PruneActive
  <1>5. QED  BY <1>2, <1>4 DEF Seen

(* A transition ages every row, or acts on the one live row it names.      *)
LEMMA TransitionedRow ==
  ASSUME RowsOK(runs), NEW r \in RunId, NEW event, SoundReport(event),
         NEW q \in RunId
  PROVE  \/ Aged(runs[q], Transitioned(r, event)[q])
         \/ q = r /\ Acted(runs[q], event, Transitioned(r, event)[q])
  <1> DEFINE seen == Seen(r, event.kind)
             rs == Transitioned(r, event)
  <1>1. Calmer(seen)
    BY SeenCalms
  <1>2. /\ seen \in [RunId -> Run]
        /\ runs[q] \in Run
        /\ Aged(runs[q], seen[q])
    BY <1>1 DEF Calmer, RowsOK
  <1>3. seen[q] = runs[q] \/ seen[q].state \in Terminal
    BY <1>2, SeenRows, ExpirationAges
  <1>4. CASE ~Admitted(r, event)
    BY <1>2, <1>4 DEF Transitioned
  <1>5. CASE Admitted(r, event)
    <2>1. /\ rs = [seen EXCEPT ![r] = After(seen[r], event)]
          /\ Legal(seen[r], event)
          /\ seen[r].state # "absent"
      BY <1>5 DEF Transitioned, Admitted
    <2> HIDE DEF seen, rs
    <2>2. CASE q # r
      BY <1>2, <2>1, <2>2 DEF rs
    <2>3. CASE q = r /\ seen[q].state \in Terminal
      <3>1. After(seen[r], event) = seen[r]
        BY <1>2, <2>1, <2>3, AfterRest DEF SoundReport
      <3>2. QED  BY <1>2, <2>1, <2>3, <3>1 DEF rs
    <2>4. CASE q = r /\ seen[q].state \notin Terminal
      <3>1. seen[q] = runs[q] /\ rs[q] = After(runs[q], event)
        BY <1>2, <1>3, <2>1, <2>4
      <3>2. runs[q].state \in Live
        BY <1>2, <2>1, <2>4, <3>1 DEF Run, RunState
      <3>3. QED  BY <2>1, <2>4, <3>1, <3>2 DEF Acted, rs
    <2>5. QED  BY <2>2, <2>3, <2>4
  <1>6. QED  BY <1>4, <1>5

(* A row that no step makes: aged, or moved on by an event.                *)
Stepped(q) ==
  \/ Aged(runs[q], runs'[q])
  \/ \E event : SoundReport(event) /\ Acted(runs[q], event, runs'[q])

(* Owners that only read, alarms, the executor and time only age the rows. *)
LEMMA OthersAge ==
  ASSUME TypeInv,
         \/ \E o \in Owner, q \in RequestId, f \in Fingerprint :
              AcceptAgain(o, q, f) \/ AcceptRefused(o, q, f)
         \/ \E o \in Owner : List(o)
         \/ \E r \in RunId : AwaitResult(r) \/ AwaitTimesOut(r)
         \/ Arrives \/ \E b \in Commands : SetAccepting(b)
         \/ \E c \in Consumer :
              \/ ReadRun(c) \/ FindStored(c) \/ ReadInput(c) \/ StoreResult(c)
              \/ ControlUnavailable(c) \/ LoseReply(c) \/ ConsumerCrash(c)
              \/ \E r \in RunId : Receive(c, r)
         \/ AlarmNext \/ ExecutorNext \/ Tick \/ UNCHANGED vars
  PROVE  /\ requests' = requests
         /\ \A q \in RunId : Aged(runs[q], runs'[q])
  <1>1. runs \in [RunId -> Run]
    BY TypeParts DEF RowsOK
  <1>2. UNCHANGED runs => \A q \in RunId : Aged(runs[q], runs'[q])
    BY <1>1, ExpirationAges
  <1>3. Calmer(runs') => \A q \in RunId : Aged(runs[q], runs'[q])
    BY DEF Calmer
  <1>4. CASE \/ \E o \in Owner, q \in RequestId, f \in Fingerprint :
                 AcceptAgain(o, q, f) \/ AcceptRefused(o, q, f)
             \/ \E o \in Owner : List(o)
             \/ \E r \in RunId : AwaitResult(r) \/ AwaitTimesOut(r)
             \/ \E c \in Consumer : ReadRun(c)
             \/ AlarmFires
    <2>1. Calmer(runs')
      BY <1>4, ReadersCalm
    <2>2. requests' = requests
      BY <1>4 DEF AcceptAgain, AcceptRefused, List, AwaitResult, AwaitTimesOut,
                  ReadRun, AlarmFires
    <2>3. QED  BY <1>3, <2>1, <2>2
  <1>5. CASE \/ Arrives \/ \E b \in Commands : SetAccepting(b)
             \/ TakeRow \/ AlarmEnds \/ ObjectRestart \/ UNCHANGED vars
    <2>1. UNCHANGED <<runs, requests>>
      BY <1>5 DEF SetAccepting, Arrives, TakeRow, AlarmEnds, ObjectRestart, vars,
                  control
    <2>2. QED  BY <1>2, <2>1
  <1>6. CASE \E c \in Consumer :
               \/ FindStored(c) \/ ReadInput(c) \/ StoreResult(c)
               \/ ControlUnavailable(c) \/ LoseReply(c) \/ ConsumerCrash(c)
               \/ \E r \in RunId : Receive(c, r)
    <2>1. UNCHANGED <<runs, requests>>
      BY <1>6 DEF FindStored, ReadInput, StoreResult, ControlUnavailable,
                  LoseReply, ConsumerCrash, Receive, control
    <2>2. QED  BY <1>2, <2>1
  <1>7. CASE ExecutorNext
    <2>1. UNCHANGED <<runs, requests>>
      BY <1>7 DEF ExecutorNext, Admit, Finish, DeliverCancel, ExecutorRestart,
                  control
    <2>2. QED  BY <1>2, <2>1
  <1>8. CASE Tick
    <2>1. /\ requests' = requests
          /\ \A q \in RunId : runs'[q] = [runs[q] EXCEPT !.timer = Less(@)]
      BY <1>8 DEF Tick
    <2>2. ASSUME NEW q \in RunId
          PROVE  Aged(runs[q], runs'[q])
      <3>1. runs[q] \in Run /\ runs'[q] = [runs[q] EXCEPT !.timer = Less(@)]
        BY <1>1, <2>1
      <3>2. /\ runs'[q].owner = runs[q].owner
            /\ runs'[q].attempt = runs[q].attempt
            /\ runs'[q].state = runs[q].state
            /\ runs'[q].leaseId = runs[q].leaseId
        BY <3>1 DEF Run
      <3>3. QED  BY <3>2 DEF Aged
    <2>3. QED  BY <2>1, <2>2
  <1>9. QED  BY <1>4, <1>5, <1>6, <1>7, <1>8 DEF AlarmNext

(* The steps that are one transition of one run.                           *)
Transitions(r, event) ==
  /\ r \in RunId
  /\ SoundReport(event)
  /\ runs' = Transitioned(r, event)
  /\ requests' = requests

(* Cancels, leases and reports are transitions.                            *)
LEMMA TransitionSteps ==
  ASSUME TypeInv
  PROVE  /\ \A r \in RunId : Cancel(r) => Transitions(r, CancelEvent)
         /\ \A c \in Consumer :
              /\ AcquireLease(c) => Transitions(work[c].run, LeaseAcquired)
              /\ \A event : Reporting(c, event) => Transitions(work[c].run, event)
  <1>1. SoundReport(CancelEvent) /\ SoundReport(LeaseAcquired)
    BY EventsSent, 0 \in Nat
  <1>2. \A c \in Consumer : work[c].pc # "idle" => work[c].run \in RunId
    BY WorkIsSound DEF SoundWork, Work
  <1>3. \A r \in RunId : Cancel(r) => Transitions(r, CancelEvent)
    BY <1>1 DEF Cancel, Transition, Write, Transitions
  <1>4. \A c \in Consumer :
          AcquireLease(c) => Transitions(work[c].run, LeaseAcquired)
    BY <1>1, <1>2 DEF AcquireLease, Transition, Write, Transitions
  <1>5. \A c \in Consumer : \A event :
          Reporting(c, event) => Transitions(work[c].run, event)
    BY <1>2 DEF Reporting, Report, Transition, Write, Transitions
  <1>6. QED  BY <1>3, <1>4, <1>5

(* Every step but an admission moves each row by age or by one event.      *)
LEMMA RowSteps ==
  ASSUME TypeInv, [Next]_vars
  PROVE  \/ \E o \in Owner, q \in RequestId, f \in Fingerprint, r \in RunId :
              AcceptNew(o, q, f, r)
         \/ requests' = requests /\ \A q \in RunId : Stepped(q)
  <1>1. RowsOK(runs)
    BY TypeParts
  <1>2. (\A q \in RunId : Aged(runs[q], runs'[q])) => \A q \in RunId : Stepped(q)
    BY DEF Stepped
  <1>3. ASSUME NEW r, NEW event, Transitions(r, event)
        PROVE  requests' = requests /\ \A q \in RunId : Stepped(q)
    <2>1. /\ r \in RunId /\ SoundReport(event)
          /\ runs' = Transitioned(r, event)
          /\ requests' = requests
      BY <1>3 DEF Transitions
    <2>2. ASSUME NEW q \in RunId
          PROVE  Stepped(q)
      <3>1. \/ Aged(runs[q], runs'[q])
            \/ Acted(runs[q], event, runs'[q])
        BY <1>1, <2>1, TransitionedRow
      <3>2. QED  BY <2>1, <3>1 DEF Stepped
    <2>3. QED  BY <2>1, <2>2
  <1>4. CASE OwnerNext
    <2>1. ASSUME NEW r \in RunId, Cancel(r)
          PROVE  requests' = requests /\ \A q \in RunId : Stepped(q)
      BY <1>3, <2>1, TransitionSteps
    <2>2. QED  BY <1>2, <1>4, <2>1, OthersAge DEF OwnerNext
  <1>5. CASE ConsumerNext
    <2>1. PICK c \in Consumer :
            \/ \E r \in RunId : Receive(c, r)
            \/ ConsumerStep(c)
            \/ ControlUnavailable(c)
            \/ LoseReply(c)
            \/ ConsumerCrash(c)
      BY <1>5 DEF ConsumerNext
    <2>2. CASE \/ Recover(c) \/ Retire(c) \/ FailMissing(c) \/ Refuse(c)
               \/ SettleRun(c) \/ CatchBlock(c)
      <3>1. PICK event : Reporting(c, event)
        BY <2>2, ReportingSteps
      <3>2. QED  BY <1>3, <3>1, TransitionSteps
    <2>3. CASE AcquireLease(c)
      BY <1>3, <2>3, TransitionSteps
    <2>4. QED  BY <1>2, <2>1, <2>2, <2>3, OthersAge DEF ConsumerStep
  <1>6. QED  BY <1>2, <1>4, <1>5, OthersAge DEF Next

-------------------------------------------------------------------------------
(* Each request names one run.                                             *)

(* A row that moves keeps its owner and goes on existing.                  *)
LEMMA SteppedKeeps ==
  ASSUME RowsOK(runs), NEW q \in RunId, Stepped(q)
  PROVE  /\ runs'[q].owner = runs[q].owner
         /\ (runs'[q].state = "absent") <=> (runs[q].state = "absent")
  <1>1. CASE Aged(runs[q], runs'[q])
    BY <1>1 DEF Aged, Active, Settled
  <1>2. ASSUME NEW event, SoundReport(event), Acted(runs[q], event, runs'[q])
        PROVE  /\ runs'[q].owner = runs[q].owner
               /\ (runs'[q].state = "absent") <=> (runs[q].state = "absent")
    <2>1. /\ runs[q] \in Run /\ event \in Event
          /\ runs[q].state # "absent"
          /\ runs'[q] = After(runs[q], event)
      BY <1>2 DEF RowsOK, SoundReport, Acted, Live, Active
    <2>2. QED  BY <2>1, AfterKeeps
  <1>3. QED  BY <1>1, <1>2 DEF Stepped

(* Admission gives a new request a row that no request named before.       *)
LEMMA AcceptNewNames ==
  ASSUME TypeInv, RequestInv, NEW o \in Owner, NEW q \in RequestId,
         NEW f \in Fingerprint, NEW r \in RunId, AcceptNew(o, q, f, r)
  PROVE  RequestInv'
  <1> DEFINE Key == Owner \X RequestId
             key == <<o, q>>
  <1>1. /\ key \in Key /\ key[1] = o
        /\ r # 0
        /\ \A k \in Key : requests[k].run \in RunId \cup {0}
    BY TypeParts, ControlAssumption DEF RestOK
  <1>2. /\ requests[key].run = 0
        /\ requests'[key].run = r
        /\ \A k \in Key \ {key} : requests'[k] = requests[k]
    BY TypeParts DEF AcceptNew, NewRequest, RestOK
  <1>3. /\ runs[r].state = "absent"
        /\ runs'[r].state = "queued" /\ runs'[r].owner = o
        /\ \A x \in RunId \ {r} :
             /\ runs'[x].owner = runs[x].owner
             /\ (runs'[x].state = "absent") <=> (runs[x].state = "absent")
    <2>1. /\ runs[r].state = "absent"
          /\ \E created \in Nat : runs'[r] = CreateManagedRun(o, created)
          /\ \A x \in RunId \ {r} : Stepped(x)
      BY AcceptNewRows DEF Stepped
    <2>2. runs'[r].state = "queued" /\ runs'[r].owner = o
      BY <2>1 DEF CreateManagedRun, AbsentRun
    <2>3. QED  BY <2>1, <2>2, SteppedKeeps, TypeParts
  <1> HIDE DEF Key, key
  <1>4. \A k \in Key : requests[k].run # r
    BY <1>1, <1>3 DEF RequestInv, Key
  <1>5. \A k, l \in Key : requests'[k].run # 0 /\ requests'[k].run = requests'[l].run
                          => k = l
    BY <1>1, <1>2, <1>4 DEF RequestInv, Key
  <1>6. \A k \in Key : requests'[k].run # 0
                         => /\ runs'[requests'[k].run].state # "absent"
                            /\ runs'[requests'[k].run].owner = k[1]
    BY <1>1, <1>2, <1>3, <1>4 DEF RequestInv, Key
  <1>7. ASSUME NEW x \in RunId, runs'[x].state # "absent"
        PROVE  \E k \in Key : requests'[k].run = x
    <2>1. CASE x = r
      BY <1>1, <1>2, <2>1
    <2>2. CASE x # r
      <3>1. PICK k \in Key : requests[k].run = x
        BY <1>3, <1>7, <2>2 DEF RequestInv, Key
      <3>2. k # key
        BY <1>2, <3>1, ControlAssumption
      <3>3. QED  BY <1>2, <3>1, <3>2
    <2>3. QED  BY <2>1, <2>2
  <1>8. QED  BY <1>5, <1>6, <1>7 DEF RequestInv, Key

(* Repeated, refused, cancelled, expired, delivered twice: a request names *)
(* the one run it was admitted for, and no run exists without its request  *)
(* (accept of simulation-control-do.ts).                                   *)
THEOREM RequestNamesOneRunHolds == Spec => []RequestNamesOneRun
  <1>1. Init => RequestInv
    BY DEF Init, RequestInv, NoRequest, AbsentRun
  <1>2. ASSUME TypeInv, RequestInv, [Next]_vars
        PROVE  RequestInv'
    <2>1. CASE requests' = requests /\ \A q \in RunId : Stepped(q)
      <3>1. \A q \in RunId :
              /\ runs'[q].owner = runs[q].owner
              /\ (runs'[q].state = "absent") <=> (runs[q].state = "absent")
        BY <1>2, <2>1, SteppedKeeps, TypeParts
      <3>2. \A k \in Owner \X RequestId : requests[k].run \in RunId \cup {0}
        BY <1>2, TypeParts DEF RestOK
      <3>3. QED  BY <1>2, <2>1, <3>1, <3>2 DEF RequestInv
    <2>2. QED  BY <1>2, <2>1, RowSteps, AcceptNewNames
  <1>3. TypeInv /\ RequestInv => RequestNamesOneRun
    <2>1. SUFFICES ASSUME TypeInv, RequestInv
                   PROVE  RequestNamesOneRun
      OBVIOUS
    <2>2. \A r \in RunId : r # 0
      BY ControlAssumption
    <2>3. QED  BY <2>1, <2>2 DEF RequestInv, RequestNamesOneRun
  <1>4. QED  BY <1>1, <1>2, <1>3, TypeCorrect, PTL DEF Spec

-------------------------------------------------------------------------------
(* Outcomes are evidenced.                                                 *)

(* A verdict that is the process's own, stored under the attempt that ran. *)
Evidenced(r, event) ==
  event.kind \in {"completed", "timed-out", "cancelled"} /\ runs[r].state \in Active
    => /\ stored[r] = [lease |-> runs[r].attempt, kind |-> outcome[r]]
       /\ event.kind = outcome[r]

(* How a row may move: by age, by admission, by an evidenced event, or by  *)
(* a lease.                                                                *)
RowMove(r) ==
  \/ Aged(runs[r], runs'[r])
  \/ /\ runs[r].state = "absent"
     /\ \E o \in Owner, created \in Nat : runs'[r] = CreateManagedRun(o, created)
  \/ \E event : /\ SoundReport(event)
                /\ Acted(runs[r], event, runs'[r])
                /\ event.kind # "lease-acquired"
                /\ Evidenced(r, event)
  \/ runs[r].state = "queued" /\ runs'[r] = Lease(runs[r])

(* A consumer holds what it held, lets go, moves on with its attempt       *)
(* before storing anything, or finds a stored result to recover.           *)
Moves(c) ==
  \/ /\ work'[c].pc = work[c].pc
     /\ work'[c].run = work[c].run
     /\ work'[c].lease = work[c].lease
     /\ work'[c].reply = work[c].reply
  \/ work'[c].pc \notin Holding \cup {"recover"}
  \/ /\ {work[c].pc, work'[c].pc} \subseteq Holding \ {"settle"}
     /\ work'[c].run = work[c].run
     /\ work'[c].lease = work[c].lease
     /\ work'[c].pc = "store" /\ work'[c].reply \in Finished
          => outcome'[work[c].run] = work'[c].reply
  \/ /\ work'[c].pc = "recover"
     /\ work'[c].lease # 0
     /\ work'[c].lease <= stored'[work'[c].run].lease

(* What a consumer knows of its run stays so while the run's attempt and   *)
(* stored result do, whenever an outcome is only added.                    *)
LEMMA HolderStep ==
  ASSUME NEW c \in Consumer, HolderEvidence(c), Moves(c),
         work[c].pc \in Holding
           => runs'[work[c].run].attempt = runs[work[c].run].attempt,
         work[c].pc \in Holding \cup {"recover"}
           => /\ stored'[work[c].run] = stored[work[c].run]
              /\ outcome[work[c].run] \in {"none", outcome'[work[c].run]}
  PROVE  HolderEvidence(c)'
  <1> DEFINE w == work[c]
             next == work'[c]
  <1>1. CASE next.pc \notin Holding \cup {"recover"}
    BY <1>1 DEF HolderEvidence, Holding
  <1>2. CASE next.pc = "recover" /\ ~(w.pc = next.pc /\ w.run = next.run
                                      /\ w.lease = next.lease /\ w.reply = next.reply)
    BY <1>2 DEF HolderEvidence, Holding, Moves
  <1>3. CASE /\ next.pc = w.pc /\ next.run = w.run
             /\ next.lease = w.lease /\ next.reply = w.reply
             /\ w.pc \in Holding \cup {"recover"}
    <2>1. "none" \notin Finished
      BY DEF Finished
    <2>2. w.pc \in {"store", "settle"} => w.pc \in Holding
      BY DEF Holding
    <2>3. QED  BY <1>3, <2>1, <2>2 DEF HolderEvidence
  <1>4. CASE /\ {w.pc, next.pc} \subseteq Holding \ {"settle"}
             /\ next.run = w.run /\ next.lease = w.lease
             /\ next.pc = "store" /\ next.reply \in Finished
                  => outcome'[w.run] = next.reply
    BY <1>4 DEF HolderEvidence, Holding
  <1>5. QED  BY <1>1, <1>2, <1>3, <1>4 DEF Moves

(* A step in which no consumer gains an attempt and nothing is sent starts *)
(* nothing.                                                                *)
LEMMA NothingGained ==
  ASSUME inbox' \subseteq inbox, executed' = executed,
         \A c \in Consumer : Moves(c),
         NEW r \in RunId, Unstarted(r)
  PROVE  Unstarted(r)'
  <1>1. \A c \in Consumer : Holds(c, r)' => Holds(c, r)
    BY DEF Moves, Holds, Holding
  <1>2. MayRun(r)' => MayRun(r)
    BY DEF MayRun
  <1>3. QED  BY <1>1, <1>2 DEF Unstarted

(* A run whose record calls it fresh was not started.                      *)
LEMMA FreshIsUnstarted ==
  ExecutionInv => \A r \in RunId : Fresh(runs[r]) => Unstarted(r)
  BY DEF ExecutionInv, FreshIsUnsent, HoldersOwn, Unstarted

(* The same of the next state.                                             *)
LEMMA NextFreshIsUnstarted ==
  ExecutionInv' => (\A r \in RunId : Fresh(runs[r]) => Unstarted(r))'
  BY FreshIsUnstarted, PTL

(* Only a lease counts an attempt.                                         *)
LEMMA RowAttempts ==
  ASSUME TypeInv, NEW r \in RunId, RunEvidence(r), RowMove(r)
  PROVE  \/ runs'[r].attempt = runs[r].attempt
         \/ runs[r].state = "queued" /\ runs'[r].attempt = runs[r].attempt + 1
  <1>1. runs[r] \in Run
    BY TypeParts DEF RowsOK
  <1>2. CASE Aged(runs[r], runs'[r])
    BY <1>2 DEF Aged
  <1>3. ASSUME NEW o \in Owner, NEW created \in Nat, runs[r].state = "absent",
               runs'[r] = CreateManagedRun(o, created)
        PROVE  runs'[r].attempt = runs[r].attempt
    BY <1>3 DEF CreateManagedRun, AbsentRun, RunEvidence
  <1>4. ASSUME NEW event, SoundReport(event), Acted(runs[r], event, runs'[r]),
               event.kind # "lease-acquired"
        PROVE  runs'[r].attempt = runs[r].attempt
    BY <1>1, <1>4, AfterKeeps DEF Acted, SoundReport, Live, Active
  <1>5. CASE runs[r].state = "queued" /\ runs'[r] = Lease(runs[r])
    BY <1>1, <1>5 DEF Lease, Run
  <1>6. QED  BY <1>2, <1>3, <1>4, <1>5 DEF RowMove

(* A row that moves so keeps its evidence.                                 *)
LEMMA RowEvidence ==
  ASSUME TypeInv, NEW r \in RunId, RunEvidence(r), VerdictEvidence(r), RowMove(r),
         UNCHANGED <<stored, outcome, executed, exec>>
  PROVE  RunEvidence(r)' /\ VerdictEvidence(r)'
  <1>1. /\ runs[r] \in Run /\ runs[r].attempt \in Nat
        /\ stored[r].lease \in Nat
    BY TypeParts DEF RowsOK, Run, StoredOK
  <1>2. /\ runs'[r].attempt \in {runs[r].attempt, runs[r].attempt + 1}
        /\ stored[r].lease <= runs'[r].attempt
    BY <1>1, RowAttempts DEF RunEvidence
  <1>3. SUFFICES /\ runs'[r].state = "absent" => runs'[r].attempt = 0
                 /\ runs'[r].state \in Active => runs'[r].leaseId = runs'[r].attempt
                 /\ VerdictEvidence(r)'
    BY <1>2 DEF RunEvidence
  <1>4. CASE Aged(runs[r], runs'[r])
    BY <1>4 DEF Aged, RunEvidence, VerdictEvidence, Active, Settled
  <1>5. ASSUME NEW o \in Owner, NEW created \in Nat,
               runs'[r] = CreateManagedRun(o, created)
        PROVE  /\ runs'[r].state = "absent" => runs'[r].attempt = 0
               /\ runs'[r].state \in Active => runs'[r].leaseId = runs'[r].attempt
               /\ VerdictEvidence(r)'
    <2>1. runs'[r].state = "queued"
      BY <1>5 DEF CreateManagedRun, AbsentRun
    <2>2. QED  BY <2>1 DEF VerdictEvidence, Active
  <1>6. ASSUME NEW event, SoundReport(event), Acted(runs[r], event, runs'[r]),
               event.kind # "lease-acquired", Evidenced(r, event)
        PROVE  /\ runs'[r].state = "absent" => runs'[r].attempt = 0
               /\ runs'[r].state \in Active => runs'[r].leaseId = runs'[r].attempt
               /\ VerdictEvidence(r)'
    <2>1. /\ event \in Event
          /\ event.kind \notin {"expired", "queue-expired"}
          /\ runs'[r] = After(runs[r], event)
          /\ Legal(runs[r], event)
          /\ runs[r].state \in Live /\ runs[r].state # "absent"
      BY <1>6 DEF SoundReport, Acted, Live, Active
    <2>2. runs'[r].state # "absent" /\ runs'[r].attempt = runs[r].attempt
      BY <1>1, <1>6, <2>1, AfterKeeps
    <2>3. runs'[r].state \in Active
            => runs[r].state \in Active /\ runs'[r].leaseId = runs[r].leaseId
      BY <1>1, <1>6, <2>1, AfterActive
    <2>4. runs'[r].state \in {"succeeded", "timed-out"}
            => /\ event.kind \in {"completed", "timed-out"}
               /\ runs[r].state \in Active
               /\ runs'[r].state = SettledState(event.kind)
      BY <1>1, <2>1, AfterVerdict
    <2>5. VerdictEvidence(r)'
      BY <1>6, <2>2, <2>4 DEF VerdictEvidence, Evidenced
    <2>6. QED  BY <2>2, <2>3, <2>5 DEF RunEvidence
  <1>7. CASE runs[r].state = "queued" /\ runs'[r] = Lease(runs[r])
    <2>1. runs'[r].state = "running" /\ runs'[r].leaseId = runs'[r].attempt
      BY <1>1, <1>7 DEF Lease, Run
    <2>2. QED  BY <2>1 DEF VerdictEvidence
  <1>8. QED  BY <1>4, <1>5, <1>6, <1>7 DEF RowMove

(* A row comes to be cancelled by its process's own end, or unstarted.     *)
LEMMA RowCancel ==
  ASSUME TypeInv, ExecutionInv, ExecutionInv', NEW r \in RunId,
         CancelEvidence(r), RowMove(r), outcome' = outcome,
         Unstarted(r) /\ runs'[r].state = "cancelled" => Unstarted(r)'
  PROVE  CancelEvidence(r)'
  <1>1. SUFFICES ASSUME runs'[r].state = "cancelled"
                 PROVE  outcome[r] = "cancelled" \/ Unstarted(r) \/ Unstarted(r)'
    BY DEF CancelEvidence
  <1>2. runs[r] \in Run
    BY TypeParts DEF RowsOK
  <1>3. /\ Fresh(runs[r]) => Unstarted(r)
        /\ Fresh(runs'[r]) => Unstarted(r)'
    <2>1. (\A q \in RunId : Fresh(runs[q]) => Unstarted(q))'
      BY NextFreshIsUnstarted
    <2>2. QED  BY <2>1, FreshIsUnstarted
  <1>4. CASE Aged(runs[r], runs'[r])
    BY <1>1, <1>4 DEF Aged, CancelEvidence
  <1>5. ASSUME NEW event, SoundReport(event), Acted(runs[r], event, runs'[r]),
               Evidenced(r, event)
        PROVE  outcome[r] = "cancelled" \/ Unstarted(r) \/ Unstarted(r)'
    <2>1. \/ runs[r].state = "queued"
          \/ event.kind = "cancelled" /\ runs[r].state \in Active
          \/ Fresh(runs'[r])
      BY <1>1, <1>2, <1>5, AfterVerdict DEF SoundReport, Acted
    <2>2. QED  BY <1>3, <1>5, <2>1 DEF Evidenced, Fresh
  <1>6. ~(runs[r].state = "queued" /\ runs'[r] = Lease(runs[r]))
    BY <1>1, <1>2 DEF Lease, Run
  <1>7. \A o \in Owner, created \in Nat : runs'[r] # CreateManagedRun(o, created)
    BY <1>1 DEF CreateManagedRun, AbsentRun
  <1>8. QED  BY <1>4, <1>5, <1>6, <1>7 DEF RowMove

(* A step that leaves the executor and the stored results alone.           *)
LEMMA EvidenceFrame ==
  ASSUME TypeInv, EvidenceInv, ExecutionInv, ExecutionInv',
         UNCHANGED <<stored, outcome, executed, exec>>,
         \A r \in RunId : RowMove(r),
         \A c \in Consumer : Moves(c) \/ HolderEvidence(c)',
         \A r \in RunId :
           Unstarted(r) /\ runs'[r].state = "cancelled" => Unstarted(r)'
  PROVE  EvidenceInv'
  <1>1. \A r \in RunId : RunEvidence(r)' /\ VerdictEvidence(r)'
    BY RowEvidence DEF EvidenceInv
  <1>2. \A r \in RunId : CancelEvidence(r)'
    BY RowCancel DEF EvidenceInv
  <1>3. ASSUME NEW c \in Consumer, Moves(c)
        PROVE  HolderEvidence(c)'
    <2>1. ASSUME work[c].pc \in Holding
          PROVE  runs'[work[c].run].attempt = runs[work[c].run].attempt
      <3>1. work[c].run \in RunId /\ Holds(c, work[c].run)
        BY <2>1, WorkIsSound DEF SoundWork, Work, Holds, Holding
      <3>2. runs[work[c].run].state # "queued"
        BY <3>1 DEF ExecutionInv, HoldersOwn, Fresh
      <3>3. QED  BY <3>1, <3>2, RowAttempts DEF EvidenceInv
    <2>2. QED  BY <1>3, <2>1, HolderStep DEF EvidenceInv
  <1>4. QED  BY <1>1, <1>2, <1>3 DEF EvidenceInv

(* Rows left alone move by age.                                            *)
LEMMA StillRows ==
  ASSUME TypeInv, UNCHANGED runs \/ \A q \in RunId : Aged(runs[q], runs'[q])
  PROVE  \A q \in RunId : RowMove(q)
  <1>1. runs \in [RunId -> Run]
    BY TypeParts DEF RowsOK
  <1>2. QED  BY <1>1, ExpirationAges DEF RowMove

(* A consumer that moves alone.                                            *)
LEMMA OthersStay ==
  ASSUME TypeInv, NEW c \in Consumer, NEW w, work' = [work EXCEPT ![c] = w]
  PROVE  /\ work'[c] = w
         /\ \A d \in Consumer \ {c} : work'[d] = work[d] /\ Moves(d)
  BY WorkIsSound DEF Moves

(* The verdict a consumer reports of a run it may still settle is          *)
(* evidenced: the lease it names is the one the result was stored under.   *)
LEMMA SpokenEvidence ==
  ASSUME TypeInv, EvidenceInv, NEW c \in Consumer, NEW event,
         Reporting(c, event), Legal(runs[work[c].run], event)
  PROVE  Evidenced(work[c].run, event)
  <1> DEFINE w == work[c]
             r == work[c].run
  <1>1. SUFFICES ASSUME event.kind \in {"completed", "timed-out", "cancelled"},
                        runs[r].state \in Active
                 PROVE  /\ stored[r] = [lease |-> runs[r].attempt,
                                        kind |-> outcome[r]]
                        /\ event.kind = outcome[r]
    BY DEF Evidenced
  <1>2. /\ r \in RunId /\ w.lease \in Nat
        /\ w.pc = "settle" => w.lease # 0
    BY WorkIsSound DEF Reporting, SoundWork, Work, Holding
  <1>3. /\ RunEvidence(r) /\ HolderEvidence(c)
        /\ stored[r] \in [lease : Nat, kind : Finished \cup {"none"}]
        /\ runs[r].attempt \in Nat
    BY <1>2, TypeParts DEF EvidenceInv, StoredOK, RowsOK, Run
  <1>4. /\ event.leaseId = w.lease
        /\ \/ w.pc = "recover" /\ event.kind = stored[r].kind
           \/ w.pc = "settle" /\ event.kind = CompletionKind(w.reply)
    BY <1>1 DEF Reporting, Speaks
  <1>5. w.lease # 0
    BY <1>2, <1>3, <1>4 DEF HolderEvidence
  <1>6. w.lease = runs[r].attempt
    BY <1>1, <1>3, <1>4, <1>5 DEF Legal, Fenced, RunEvidence
  <1>7. CASE w.pc = "recover"
    <2>1. stored[r].lease = runs[r].attempt
      BY <1>2, <1>3, <1>6, <1>7 DEF HolderEvidence, RunEvidence
    <2>2. event.kind = stored[r].kind
      BY <1>4, <1>7
    <2>3. stored[r].kind = outcome[r]
      BY <1>1, <1>3, <2>2 DEF RunEvidence
    <2>4. QED  BY <1>3, <2>1, <2>2, <2>3
  <1>8. CASE w.pc = "settle"
    <2>1. /\ stored[r] = [lease |-> w.lease, kind |-> CompletionKind(w.reply)]
          /\ event.kind = CompletionKind(w.reply)
      BY <1>3, <1>4, <1>8 DEF HolderEvidence
    <2>2. w.reply \in Finished /\ event.kind = w.reply
      BY <1>1, <2>1 DEF CompletionKind
    <2>3. outcome[r] = w.reply
      BY <1>3, <1>8, <2>2 DEF HolderEvidence
    <2>4. QED  BY <1>6, <2>1, <2>2, <2>3
  <1>9. QED  BY <1>4, <1>7, <1>8

(* Reports keep the evidence.                                              *)
LEMMA ReportEvidence ==
  ASSUME TypeInv, EvidenceInv, ExecutionInv, ExecutionInv',
         NEW c \in Consumer, NEW event, Reporting(c, event)
  PROVE  EvidenceInv'
  <1> DEFINE r == work[c].run
  <1>1. /\ r \in RunId /\ SoundReport(event)
        /\ runs' = Transitioned(r, event)
        /\ RowsOK(runs)
    BY TransitionSteps, TypeParts DEF Transitions
  <1>2. /\ UNCHANGED <<inbox, stored, outcome, executed, exec>>
        /\ Ack(c) \/ Retry(c) \/ Thrown(c)
    BY DEF Reporting, Report, transport, executor
  <1>3. ASSUME NEW q \in RunId
        PROVE  RowMove(q)
    <2>1. \/ Aged(runs[q], runs'[q])
          \/ q = r /\ Acted(runs[q], event, runs'[q])
      BY <1>1, TransitionedRow
    <2>2. CASE q = r /\ Acted(runs[q], event, runs'[q])
      <3>1. Evidenced(q, event)
        BY <2>2, SpokenEvidence DEF Acted
      <3>2. event.kind # "lease-acquired"
        BY DEF Reporting
      <3>3. QED  BY <1>1, <2>2, <3>1, <3>2 DEF RowMove
    <2>3. QED  BY <2>1, <2>2 DEF RowMove
  <1>4. PICK w \in Work :
          /\ work' = [work EXCEPT ![c] = w]
          /\ w.pc \in {"idle", "catch", "catch-sent"}
          /\ w.pc = "catch" => work[c].pc = "missing"
          /\ w.pc # "idle" => Holds(c, w.run) /\ w.lease = work[c].lease
    BY <1>2, ReportEnds
  <1>5. Moves(c)
    BY <1>4, OthersStay DEF Moves, Holding, Holds
  <1>6. \A d \in Consumer : Moves(d)
    BY <1>4, <1>5, OthersStay
  <1>7. QED  BY <1>2, <1>3, <1>6, NothingGained, EvidenceFrame

(* What an acquired lease does to its row; a refused one only ages rows.   *)
LEMMA LeasedRow ==
  ASSUME RowsOK(runs), NEW r \in RunId
  PROVE  /\ Admitted(r, LeaseAcquired)
              => /\ runs[r].state = "queued"
                 /\ Transitioned(r, LeaseAcquired)[r] = Lease(runs[r])
         /\ ~Admitted(r, LeaseAcquired)
              => \A q \in RunId : Aged(runs[q], Transitioned(r, LeaseAcquired)[q])
  <1> DEFINE seen == Seen(r, "lease-acquired")
  <1>1. LeaseAcquired.kind = "lease-acquired"
    BY DEF LeaseAcquired
  <1>2. /\ Calmer(seen) /\ seen \in [RunId -> Run]
        /\ seen[r] \in {runs[r], ExpireRecord(runs[r])}
        /\ runs[r] \in Run
    BY SeenCalms, SeenRows DEF Calmer, RowsOK
  <1> HIDE DEF seen
  <1>3. CASE Admitted(r, LeaseAcquired)
    <2>1. /\ seen[r].state = "queued"
          /\ Transitioned(r, LeaseAcquired)
               = [seen EXCEPT ![r] = After(seen[r], LeaseAcquired)]
      BY <1>1, <1>3 DEF Admitted, Transitioned, Legal, seen
    <2>2. seen[r] = runs[r]
      BY <1>2, <2>1, ExpirationAges DEF Terminal, Settled
    <2>3. After(seen[r], LeaseAcquired) = Lease(seen[r])
      BY <1>1 DEF After
    <2>4. QED  BY <1>2, <1>3, <2>1, <2>2, <2>3
  <1>4. CASE ~Admitted(r, LeaseAcquired)
    <2>1. Transitioned(r, LeaseAcquired) = seen
      BY <1>1, <1>4 DEF Transitioned, seen
    <2>2. QED  BY <1>2, <1>4, <2>1 DEF Calmer
  <1>5. QED  BY <1>3, <1>4

(* An acquired lease is of an attempt under which nothing is stored yet.   *)
LEMMA LeaseEvidence ==
  ASSUME TypeInv, EvidenceInv, ExecutionInv, ExecutionInv',
         NEW c \in Consumer, AcquireLease(c)
  PROVE  EvidenceInv'
  <1> DEFINE r == work[c].run
  <1>1. /\ r \in RunId /\ SoundReport(LeaseAcquired)
        /\ runs' = Transitioned(r, LeaseAcquired)
        /\ RowsOK(runs)
    BY TransitionSteps, TypeParts DEF Transitions
  <1>2. UNCHANGED <<inbox, stored, outcome, executed, exec>>
    BY DEF AcquireLease, transport, executor
  <1>3. ASSUME NEW q \in RunId
        PROVE  RowMove(q)
    <2>1. CASE Admitted(r, LeaseAcquired)
      <3>1. \/ Aged(runs[q], runs'[q])
            \/ q = r
        BY <1>1, TransitionedRow
      <3>2. QED  BY <1>1, <2>1, <3>1, LeasedRow DEF RowMove
    <2>2. CASE ~Admitted(r, LeaseAcquired)
      BY <1>1, <2>2, LeasedRow DEF RowMove
    <2>3. QED  BY <2>1, <2>2
  <1>4. CASE Retry(c)
    <2>1. work' = [work EXCEPT ![c] = Idle]
      BY <1>4 DEF Retry
    <2>2. Moves(c)
      BY <2>1, OthersStay, IdleIsSound DEF Moves, Holding
    <2>3. \A d \in Consumer : Moves(d)
      BY <2>1, <2>2, OthersStay
    <2>4. QED  BY <1>2, <1>3, <2>3, NothingGained, EvidenceFrame
  <1>5. CASE ~Retry(c)
    <2> DEFINE w == [work[c] EXCEPT !.pc = "input", !.lease = runs'[r].leaseId]
    <2>1. /\ Admitted(r, LeaseAcquired)
          /\ work' = [work EXCEPT ![c] = w]
      BY <1>1, <1>5, WorkIsSound DEF AcquireLease
    <2>2. runs[r].state = "queued" /\ runs'[r] = Lease(runs[r])
      BY <1>1, <2>1, LeasedRow
    <2>3. /\ runs'[r].state = "running"
          /\ runs'[r].attempt = runs[r].attempt + 1
          /\ runs'[r].leaseId = runs[r].attempt + 1
          /\ runs[r].attempt \in Nat
      BY <1>1, <2>2 DEF Lease, RowsOK, Run
    <2>4. w.pc = "input" /\ w.run = r /\ w.lease = runs'[r].leaseId
      BY WorkIsSound DEF Work
    <2> HIDE DEF w, r
    <2>5. /\ work'[c] = w
          /\ \A d \in Consumer \ {c} : work'[d] = work[d] /\ Moves(d)
      BY <2>1, OthersStay
    <2>6. HolderEvidence(c)'
      <3>1. stored[r].lease <= runs[r].attempt /\ stored[r].lease \in Nat
        BY <1>1, TypeParts DEF EvidenceInv, RunEvidence, StoredOK
      <3>2. stored'[r].lease < w.lease /\ w.lease = runs'[r].attempt
        BY <1>2, <2>3, <2>4, <3>1
      <3>3. QED  BY <2>4, <2>5, <3>2 DEF HolderEvidence, Holding
    <2>7. ASSUME NEW q \in RunId, Unstarted(q), runs'[q].state = "cancelled"
          PROVE  Unstarted(q)'
      <3>1. q # r
        BY <2>3, <2>7
      <3>2. \A d \in Consumer : Holds(d, q)' => Holds(d, q)
        BY <2>4, <2>5, <3>1 DEF Holds
      <3>3. MayRun(q)' => MayRun(q)
        BY <1>2 DEF MayRun
      <3>4. QED  BY <2>7, <3>2, <3>3 DEF Unstarted
    <2>8. \A d \in Consumer : Moves(d) \/ HolderEvidence(d)'
      BY <2>5, <2>6
    <2>9. QED  BY <1>2, <1>3, <2>7, <2>8, EvidenceFrame
  <1>6. QED  BY <1>4, <1>5

(* Dispatch is by a holder, of a run that is not at rest.                  *)
LEMMA DispatchEvidence ==
  ASSUME TypeInv, EvidenceInv, ExecutionInv, ExecutionInv',
         NEW c \in Consumer, ReadInput(c)
  PROVE  EvidenceInv'
  <1> DEFINE r == work[c].run
  <1>1. /\ work[c].pc = "input" /\ work[c] \in Work
        /\ Holds(c, r)
        /\ UNCHANGED <<runs, stored, outcome, executed, exec>>
    BY WorkIsSound DEF ReadInput, SoundWork, executor, Holds, Holding
  <1>2. PICK pc \in {"wait", "missing", "catch"} :
          /\ Goto(c, pc)
          /\ inbox' \in {inbox, inbox \cup {<<r, work[c].lease>>}}
    BY DEF ReadInput
  <1> DEFINE w == [work[c] EXCEPT !.pc = pc]
  <1>3. /\ work' = [work EXCEPT ![c] = w]
        /\ w.pc = pc /\ w.run = r /\ w.lease = work[c].lease
    BY <1>1, <1>2 DEF Goto, Work
  <1> HIDE DEF w, r
  <1>4. Moves(c)
    BY <1>1, <1>3, OthersStay DEF Moves, Holding, r
  <1>5. \A d \in Consumer : Moves(d)
    BY <1>3, <1>4, OthersStay
  <1>6. ASSUME NEW q \in RunId, Unstarted(q)
        PROVE  Unstarted(q)'
    <2>1. q # r
      BY <1>1, <1>6 DEF Unstarted
    <2>2. MayRun(q)' => MayRun(q)
      BY <1>1, <1>2, <2>1 DEF MayRun
    <2>3. \A d \in Consumer : Holds(d, q)' => Holds(d, q)
      BY <1>5 DEF Moves, Holds, Holding
    <2>4. QED  BY <1>6, <2>2, <2>3 DEF Unstarted
  <1>7. QED  BY <1>1, <1>5, <1>6, StillRows, EvidenceFrame

(* A result is stored by the one holder of the latest attempt, before any  *)
(* verdict of that attempt is recorded.                                    *)
LEMMA StoreEvidence ==
  ASSUME TypeInv, EvidenceInv, ExecutionInv, ExecutionInv',
         NEW c \in Consumer, StoreResult(c)
  PROVE  EvidenceInv'
  <1> DEFINE r == work[c].run
             entry == [lease |-> work[c].lease,
                       kind |-> CompletionKind(work[c].reply)]
  <1>1. /\ work[c].pc = "store" /\ work[c] \in Work
        /\ r \in RunId /\ Holds(c, r)
        /\ work[c].lease \in Nat
        /\ UNCHANGED <<runs, inbox, outcome, executed, exec>>
    BY WorkIsSound
       DEF StoreResult, SoundWork, Work, transport, executor, Holds, Holding
  <1>2. PICK pc \in {"settle", "catch-sent"} :
          /\ Goto(c, pc)
          /\ stored' \in {stored, [stored EXCEPT ![r] = entry]}
          /\ pc = "settle" => stored' = [stored EXCEPT ![r] = entry]
    BY DEF StoreResult
  <1>3. /\ stored' = stored \/ stored'[r] = entry
        /\ pc = "settle" => stored'[r] = entry
        /\ \A q \in RunId \ {r} : stored'[q] = stored[q]
    BY <1>1, <1>2, TypeParts DEF StoredOK
  <1> DEFINE w == [work[c] EXCEPT !.pc = pc]
  <1>4. /\ work' = [work EXCEPT ![c] = w]
        /\ w.pc = pc /\ w.run = r /\ w.lease = work[c].lease
        /\ w.reply = work[c].reply
    BY <1>1, <1>2 DEF Goto, Work
  <1>5. /\ RunEvidence(r) /\ VerdictEvidence(r) /\ HolderEvidence(c)
        /\ runs[r].attempt \in Nat /\ stored[r].lease \in Nat
        /\ entry.lease = work[c].lease
        /\ entry.kind = CompletionKind(work[c].reply)
    BY <1>1, TypeParts DEF EvidenceInv, RowsOK, Run, StoredOK
  <1>6. /\ work[c].lease = runs[r].attempt
        /\ stored[r].lease < work[c].lease
        /\ work[c].reply \in Finished => outcome[r] = work[c].reply
    BY <1>1, <1>5 DEF HolderEvidence, Holding
  <1>7. entry.kind \in {"failed", outcome[r]}
    BY <1>5, <1>6 DEF CompletionKind
  <1>8. work'[c] = w /\ \A d \in Consumer \ {c} : work'[d] = work[d] /\ Moves(d)
    BY <1>4, OthersStay
  <1> HIDE DEF w, r, entry
  <1>9. ASSUME NEW q \in RunId
        PROVE  RunEvidence(q)' /\ VerdictEvidence(q)' /\ CancelEvidence(q)'
    <2>1. RunEvidence(q) /\ VerdictEvidence(q) /\ CancelEvidence(q)
      BY DEF EvidenceInv
    <2>2. RunEvidence(q)'
      <3>1. CASE q # r \/ stored' = stored
        BY <1>1, <1>3, <2>1, <3>1 DEF RunEvidence
      <3>2. CASE q = r /\ stored'[r] = entry
        BY <1>1, <1>5, <1>6, <1>7, <2>1, <3>2 DEF RunEvidence
      <3>3. QED  BY <1>3, <3>1, <3>2
    <2>3. VerdictEvidence(q)'
      <3>1. CASE q # r \/ stored' = stored
        BY <1>1, <1>3, <2>1, <3>1 DEF VerdictEvidence
      <3>2. CASE q = r
        <4>1. runs[r].state \notin {"succeeded", "timed-out"}
          BY <1>5, <1>6 DEF VerdictEvidence
        <4>2. QED  BY <1>1, <3>2, <4>1 DEF VerdictEvidence
      <3>3. QED  BY <3>1, <3>2
    <2>4. CancelEvidence(q)'
      <3>1. Unstarted(q) => Unstarted(q)'
        <4>1. \A d \in Consumer : Holds(d, q)' => Holds(d, q)
          BY <1>1, <1>4, <1>8 DEF Holds, Holding
        <4>2. MayRun(q)' => MayRun(q)
          BY <1>1 DEF MayRun
        <4>3. QED  BY <4>1, <4>2 DEF Unstarted
      <3>2. QED  BY <1>1, <2>1, <3>1 DEF CancelEvidence
    <2>5. QED  BY <2>2, <2>3, <2>4
  <1>10. ASSUME NEW d \in Consumer
         PROVE  HolderEvidence(d)'
    <2>1. CASE d = c
      <3>1. work'[c].pc = pc /\ work'[c].run = r
            /\ work'[c].lease = work[c].lease /\ work'[c].reply = work[c].reply
        BY <1>4, <1>8
      <3>2. CASE pc = "settle"
        <4>1. stored'[work'[c].run]
                = [lease |-> work'[c].lease, kind |-> CompletionKind(work'[c].reply)]
          BY <1>3, <3>1, <3>2 DEF entry
        <4>2. work'[c].lease = runs'[work'[c].run].attempt
          BY <1>1, <1>6, <3>1
        <4>3. work'[c].reply \in Finished => outcome'[work'[c].run] = work'[c].reply
          BY <1>1, <1>6, <3>1
        <4>4. QED  BY <2>1, <3>1, <3>2, <4>1, <4>2, <4>3 DEF HolderEvidence
      <3>3. CASE pc = "catch-sent"
        BY <2>1, <3>1, <3>3 DEF HolderEvidence, Holding
      <3>4. QED  BY <3>2, <3>3
    <2>2. CASE d # c /\ work[d].run # r
      <3>1. work[d].pc \in Holding \cup {"recover"} => work[d].run \in RunId \ {r}
        BY <2>2, WorkIsSound DEF SoundWork, Work, Holding
      <3>2. QED
        BY <1>1, <1>3, <1>8, <2>2, <3>1, HolderStep DEF EvidenceInv
    <2>3. CASE d # c /\ work[d].run = r
      <3>1. work[d].pc \notin Holding
        BY <1>1, <2>3 DEF ExecutionInv, OneHolder, Holds
      <3>2. HolderEvidence(d) /\ work'[d] = work[d] /\ work[d].lease \in Nat
        BY <1>8, <2>3, WorkIsSound DEF EvidenceInv, Work
      <3>3. stored'[r].lease >= stored[r].lease /\ stored'[r].lease \in Nat
        BY <1>1, <1>3, <1>5, <1>6
      <3>4. work'[d].pc = "recover"
              => work'[d].lease # 0 /\ work'[d].lease <= stored'[work'[d].run].lease
        BY <1>5, <2>3, <3>2, <3>3 DEF HolderEvidence
      <3>5. work'[d].pc \notin Holding
        BY <3>1, <3>2
      <3>6. QED  BY <3>4, <3>5 DEF HolderEvidence, Holding
    <2>4. QED  BY <2>1, <2>2, <2>3
  <1>11. QED  BY <1>9, <1>10 DEF EvidenceInv

(* The steps of a consumer keep the evidence.                              *)
LEMMA ConsumerEvidence ==
  ASSUME TypeInv, EvidenceInv, ExecutionInv, ExecutionInv', ConsumerNext
  PROVE  EvidenceInv'
  <1>1. PICK c \in Consumer :
          \/ \E r \in RunId : Receive(c, r)
          \/ ConsumerStep(c)
          \/ ControlUnavailable(c)
          \/ LoseReply(c)
          \/ ConsumerCrash(c)
    BY DEF ConsumerNext
  <1>2. work[c] \in Work /\ SoundWork(work[c])
    BY WorkIsSound DEF SoundWork
  <1>3. ASSUME NEW w, work' = [work EXCEPT ![c] = w], Moves(c),
               UNCHANGED <<inbox, stored, outcome, executed, exec>>,
               UNCHANGED runs \/ \A q \in RunId : Aged(runs[q], runs'[q])
        PROVE  EvidenceInv'
    <2>1. \A d \in Consumer : Moves(d)
      BY <1>3, OthersStay
    <2>2. \A q \in RunId : RowMove(q)
      BY <1>3, StillRows
    <2>3. QED  BY <1>3, <2>1, <2>2, NothingGained, EvidenceFrame
  <1>4. ASSUME NEW w, work' = [work EXCEPT ![c] = w],
               w.pc \notin Holding \cup {"recover"}
        PROVE  Moves(c)
    BY <1>4, OthersStay DEF Moves
  <1>5. Idle.pc \notin Holding \cup {"recover"}
        /\ \A r \in RunId :
             [Idle EXCEPT !.pc = "read", !.run = r].pc \notin Holding \cup {"recover"}
    BY DEF Idle, Holding
  <1>6. ASSUME NEW r \in RunId, Receive(c, r)
        PROVE  EvidenceInv'
    <2>1. /\ work' = [work EXCEPT ![c] = [Idle EXCEPT !.pc = "read", !.run = r]]
          /\ UNCHANGED <<runs, inbox, stored, outcome, executed, exec>>
      BY <1>6 DEF Receive, control, transport, executor
    <2>2. QED  BY <1>3, <1>4, <1>5, <2>1
  <1>7. ASSUME Retry(c) \/ Ack(c),
               UNCHANGED <<inbox, stored, outcome, executed, exec>>,
               UNCHANGED runs \/ \A q \in RunId : Aged(runs[q], runs'[q])
        PROVE  EvidenceInv'
    <2>1. work' = [work EXCEPT ![c] = Idle]
      BY <1>7 DEF Retry, Ack
    <2>2. QED  BY <1>3, <1>4, <1>5, <1>7, <2>1
  <1>8. ASSUME NEW pc, Goto(c, pc), pc \notin Holding \cup {"recover"},
               UNCHANGED <<inbox, stored, outcome, executed, exec>>,
               UNCHANGED runs \/ \A q \in RunId : Aged(runs[q], runs'[q])
        PROVE  EvidenceInv'
    <2> DEFINE w == [work[c] EXCEPT !.pc = pc]
    <2>1. work' = [work EXCEPT ![c] = w] /\ w.pc = pc
      BY <1>2, <1>8, WorkIsSound DEF Goto, Work
    <2> HIDE DEF w
    <2>2. QED  BY <1>3, <1>4, <1>8, <2>1
  <1>9. CASE ReadRun(c)
    <2>1. /\ \A q \in RunId : Aged(runs[q], runs'[q])
          /\ UNCHANGED <<inbox, stored, outcome, executed, exec>>
      BY <1>9, OthersAge DEF ReadRun, transport, executor
    <2>2. CASE Goto(c, "lease") \/ Ack(c)
      BY <1>7, <1>8, <2>1, <2>2 DEF Holding
    <2>3. ASSUME NEW read,
                 work' = [work EXCEPT ![c].pc = "find", ![c].lease = read.leaseId,
                                      ![c].left = read.timer]
          PROVE  EvidenceInv'
      <3> DEFINE w == [work[c] EXCEPT !.pc = "find", !.lease = read.leaseId,
                                      !.left = read.timer]
      <3>1. work' = [work EXCEPT ![c] = w]
        BY <1>2, <2>3, WorkIsSound
      <3>2. w.pc \notin Holding \cup {"recover"}
        BY <1>2 DEF Work, Holding
      <3> HIDE DEF w
      <3>3. QED  BY <1>3, <1>4, <2>1, <3>1, <3>2
    <2>4. QED  BY <1>9, <2>2, <2>3 DEF ReadRun
  <1>10. CASE FindStored(c)
    <2>1. UNCHANGED <<runs, inbox, stored, outcome, executed, exec>>
      BY <1>10 DEF FindStored, transport, executor
    <2>2. CASE Goto(c, "retire") \/ Retry(c)
      BY <1>7, <1>8, <2>1, <2>2 DEF Holding
    <2>3. CASE Goto(c, "recover") /\ stored[work[c].run].lease = work[c].lease
      <3> DEFINE w == [work[c] EXCEPT !.pc = "recover"]
      <3>1. /\ work' = [work EXCEPT ![c] = w] /\ w.pc = "recover"
            /\ w.lease = work[c].lease /\ w.run = work[c].run
        BY <1>2, <2>3, WorkIsSound DEF Goto, Work
      <3>2. w.lease # 0 /\ w.lease \in Nat
        BY <1>2, <1>10, <3>1 DEF FindStored, SoundWork, Work
      <3> HIDE DEF w
      <3>3. Moves(c)
        BY <2>1, <2>3, <3>1, <3>2, OthersStay DEF Moves
      <3>4. QED  BY <1>3, <2>1, <3>1, <3>3
    <2>4. QED  BY <1>10, <2>2, <2>3 DEF FindStored
  <1>11. CASE \/ Recover(c) \/ Retire(c) \/ FailMissing(c) \/ Refuse(c)
              \/ SettleRun(c) \/ CatchBlock(c)
    BY <1>11, ReportingSteps, ReportEvidence
  <1>12. CASE AcquireLease(c) \/ ReadInput(c) \/ StoreResult(c)
    BY <1>12, LeaseEvidence, DispatchEvidence, StoreEvidence
  <1>13. CASE ControlUnavailable(c)
    <2>1. PICK w \in Work :
            /\ work' = [work EXCEPT ![c] = w]
            /\ w.pc \in {"idle", "catch", "catch-sent"}
            /\ w.pc = "catch" => work[c].pc = "missing"
            /\ w.pc # "idle" => Holds(c, w.run) /\ w.lease = work[c].lease
      BY <1>13, ReportEnds DEF ControlUnavailable
    <2>2. Moves(c)
      BY <2>1, OthersStay DEF Moves, Holding, Holds
    <2>3. UNCHANGED <<runs, inbox, stored, outcome, executed, exec>>
      BY <1>13 DEF ControlUnavailable, transport, executor
    <2>4. QED  BY <1>3, <2>1, <2>2, <2>3
  <1>14. CASE LoseReply(c)
    <2>1. PICK lost \in {"unreachable", "gateway-lost"} :
            work' = [work EXCEPT ![c] = Answered(work[c], lost)]
      BY <1>14 DEF LoseReply
    <2> DEFINE w == Answered(work[c], lost)
    <2>2. /\ w.run = work[c].run /\ w.lease = work[c].lease
          /\ w.reply = lost
          /\ w.pc \in {"refuse", "store"}
      BY <1>2 DEF Answered, Work
    <2>3. /\ work[c].pc = "wait"
          /\ UNCHANGED <<runs, inbox, stored, outcome, executed, exec>>
      BY <1>14 DEF LoseReply, control, transport, executor
    <2>4. lost \notin Finished
      BY DEF Finished
    <2>5. work' = [work EXCEPT ![c] = w]
      BY <2>1
    <2> HIDE DEF w
    <2>6. Moves(c)
      BY <2>2, <2>3, <2>4, <2>5, OthersStay DEF Moves, Holding
    <2>7. QED  BY <1>3, <2>3, <2>5, <2>6
  <1>15. CASE ConsumerCrash(c)
    <2>1. /\ work' = [work EXCEPT ![c] = Idle]
          /\ UNCHANGED <<runs, inbox, stored, outcome, executed, exec>>
      BY <1>15 DEF ConsumerCrash, control, transport, executor
    <2>2. QED  BY <1>3, <1>4, <1>5, <2>1
  <1>16. QED
    BY <1>1, <1>6, <1>9, <1>10, <1>11, <1>12, <1>13, <1>14, <1>15 DEF ConsumerStep

(* What a step of the executor does to the history of run q: nothing, the  *)
(* end of its process, or its one start.                                   *)
HistoryMove(q) ==
  \/ /\ outcome'[q] = outcome[q] /\ executed'[q] = executed[q]
     /\ exec'.run = q => exec.run = q
  \/ exec.run = q /\ exec'.run # q /\ executed'[q] = executed[q]
  \/ outcome'[q] = outcome[q] /\ executed[q] = 0 /\ executed'[q] = 1

(* The executor's steps leave rows and stored results alone.               *)
LEMMA HistoryFrame ==
  ASSUME TypeInv, EvidenceInv, ExecutionInv, UNCHANGED <<runs, stored>>,
         inbox' \subseteq inbox,
         \A q \in RunId : HistoryMove(q),
         \A q \in RunId : MayRun(q)' => MayRun(q),
         \A c \in Consumer : Moves(c)
  PROVE  EvidenceInv'
  <1>1. ASSUME NEW q \in RunId
        PROVE  /\ RunEvidence(q)' /\ VerdictEvidence(q)' /\ CancelEvidence(q)'
               /\ outcome[q] \in {"none", outcome'[q]}
    <2>1. RunEvidence(q) /\ VerdictEvidence(q) /\ CancelEvidence(q)
      BY DEF EvidenceInv
    <2>2. executed[q] \in {0, 1}
      BY DEF ExecutionInv, SentOnce
    <2>3. Unstarted(q) => Unstarted(q)'
      <3>1. \A c \in Consumer : Holds(c, q)' => Holds(c, q)
        BY DEF Moves, Holds, Holding
      <3>2. QED  BY <3>1 DEF Unstarted
    <2>4. CASE outcome'[q] = outcome[q] /\ executed'[q] = executed[q]
               /\ (exec'.run = q => exec.run = q)
      BY <2>1, <2>3, <2>4 DEF RunEvidence, VerdictEvidence, CancelEvidence
    <2>5. CASE exec.run = q /\ exec'.run # q /\ executed'[q] = executed[q]
      <3>1. outcome[q] = "none" /\ executed[q] = 1
        BY <2>1, <2>5 DEF RunEvidence
      <3>2. ~Unstarted(q)
        BY <3>1 DEF Unstarted, MayRun
      <3>3. runs[q].state # "cancelled"
        BY <2>1, <3>1, <3>2 DEF CancelEvidence
      <3>4. runs[q].state \notin {"succeeded", "timed-out"}
        BY <2>1, <3>1 DEF VerdictEvidence, SettledState
      <3>5. stored[q].kind \in {"none", "failed"}
        BY <2>1, <3>1 DEF RunEvidence
      <3>6. QED
        BY <2>1, <2>5, <3>1, <3>3, <3>4, <3>5
           DEF RunEvidence, VerdictEvidence, CancelEvidence
    <2>6. CASE outcome'[q] = outcome[q] /\ executed[q] = 0 /\ executed'[q] = 1
      <3>1. outcome[q] = "none"
        BY <2>1, <2>6 DEF RunEvidence
      <3>2. QED
        BY <2>1, <2>3, <2>6, <3>1 DEF RunEvidence, VerdictEvidence, CancelEvidence
    <2>7. QED  BY <2>4, <2>5, <2>6 DEF HistoryMove
  <1>2. ASSUME NEW c \in Consumer
        PROVE  HolderEvidence(c)'
    <2>1. work[c].pc \in Holding \cup {"recover"} => work[c].run \in RunId
      BY WorkIsSound DEF SoundWork, Work, Holding
    <2>2. QED  BY <1>1, <2>1, HolderStep DEF EvidenceInv
  <1>3. QED  BY <1>1, <1>2 DEF EvidenceInv

(* The executor's steps keep the evidence: a process that ends speaks for  *)
(* its run for the first time, and to the one consumer that waits for it.  *)
LEMMA ExecutorEvidence ==
  ASSUME TypeInv, EvidenceInv, ExecutionInv, ExecutorNext
  PROVE  EvidenceInv'
  <1>1. /\ WorkOK /\ inbox \subseteq RunId \X Nat
        /\ executed \in [RunId -> Nat]
        /\ outcome \in [RunId -> Finished \cup {"none", "lost"}]
        /\ exec \in [run : RunId \cup {0}, lease : Nat, cancelled : BOOLEAN]
    BY TypeParts DEF RestOK
  <1>2. 0 \notin RunId /\ NoExec.run = 0
    BY ControlAssumption DEF NoExec
  <1>3. ASSUME NEW r, NEW lease, NEW kind \in ReplyKind, Answer(r, lease, kind),
               kind \in Finished => outcome'[r] = kind
        PROVE  \A c \in Consumer : Moves(c)
    <2>1. SUFFICES ASSUME NEW c \in Consumer
                   PROVE  Moves(c)
      OBVIOUS
    <2>2. CASE work'[c] = work[c]
      BY <2>2 DEF Moves
    <2>3. CASE /\ work[c].pc = "wait" /\ work[c].run = r
               /\ work'[c] = Answered(work[c], kind)
      <3>1. /\ work'[c].pc \in {"refuse", "store"}
            /\ work'[c].run = r /\ work'[c].lease = work[c].lease
            /\ work'[c].reply = kind
        BY <1>1, <2>3, WorkIsSound DEF Answered, Work
      <3>2. QED  BY <1>3, <2>3, <3>1 DEF Moves, Holding
    <2>4. QED  BY <1>1, <1>3, <2>2, <2>3, AnswerMoves
  <1>4. UNCHANGED work => \A c \in Consumer : Moves(c)
    BY DEF Moves
  <1>5. ASSUME NEW m \in inbox, Admit(m[1], m[2])
        PROVE  EvidenceInv'
    <2>1. /\ m[1] \in RunId /\ inbox' \subseteq inbox
          /\ UNCHANGED <<runs, stored, outcome>>
      BY <1>1, <1>5 DEF Admit, control
    <2>2. CASE /\ UNCHANGED <<exec, executed>>
               /\ \E kind \in {"run-cancelled", "refused"} :
                    Answer(m[1], m[2], kind)
      <3>1. PICK kind \in {"run-cancelled", "refused"} : Answer(m[1], m[2], kind)
        BY <2>2
      <3>2. kind \in ReplyKind \ Finished
        BY DEF ReplyKind, Finished
      <3>3. \A c \in Consumer : Moves(c)
        BY <1>3, <3>1, <3>2
      <3>4. \A q \in RunId : HistoryMove(q) /\ (MayRun(q)' => MayRun(q))
        BY <2>1, <2>2 DEF HistoryMove, MayRun
      <3>5. QED  BY <2>1, <3>3, <3>4, HistoryFrame
    <2>3. CASE /\ exec' = [run |-> m[1], lease |-> m[2],
                           cancelled |-> m[1] \in tokens]
               /\ exec = NoExec
               /\ executed' = [executed EXCEPT ![m[1]] = @ + 1]
               /\ UNCHANGED work
      <3>1. executed[m[1]] = 0 /\ MayRun(m[1])
        BY <2>1 DEF ExecutionInv, SentOnce, MayRun
      <3>2. /\ executed'[m[1]] = 1
            /\ \A q \in RunId \ {m[1]} : executed'[q] = executed[q]
        BY <1>1, <2>1, <2>3, <3>1
      <3>3. exec'.run = m[1]
        BY <2>3
      <3>4. \A q \in RunId : HistoryMove(q)
        BY <2>1, <3>1, <3>2, <3>3 DEF HistoryMove
      <3>5. \A q \in RunId : MayRun(q)' => MayRun(q)
        BY <2>1, <3>1, <3>2 DEF MayRun
      <3>6. QED  BY <1>4, <2>1, <2>3, <3>4, <3>5, HistoryFrame
    <2>4. QED  BY <1>5, <2>2, <2>3 DEF Admit
  <1>6. ASSUME NEW kind \in Finished, Finish(kind)
        PROVE  EvidenceInv'
    <2>1. /\ exec.run \in RunId /\ exec' = NoExec
          /\ outcome' = [outcome EXCEPT ![exec.run] = kind]
          /\ Answer(exec.run, exec.lease, kind)
          /\ UNCHANGED <<runs, stored, inbox, executed>>
      BY <1>1, <1>6 DEF Finish, control, transport
    <2>2. /\ outcome'[exec.run] = kind
          /\ \A q \in RunId \ {exec.run} : outcome'[q] = outcome[q]
      BY <1>1, <2>1
    <2>3. \A c \in Consumer : Moves(c)
      BY <1>3, <2>1, <2>2 DEF ReplyKind
    <2>4. \A q \in RunId : HistoryMove(q) /\ (MayRun(q)' => MayRun(q))
      BY <1>2, <2>1, <2>2 DEF HistoryMove, MayRun
    <2>5. QED  BY <2>1, <2>3, <2>4, HistoryFrame
  <1>7. ASSUME NEW r \in RunId, DeliverCancel(r)
        PROVE  EvidenceInv'
    <2>1. /\ UNCHANGED <<runs, stored, inbox, executed, outcome, work>>
          /\ exec'.run = exec.run
      BY <1>1, <1>7 DEF DeliverCancel, control
    <2>2. \A q \in RunId : HistoryMove(q) /\ (MayRun(q)' => MayRun(q))
      BY <2>1 DEF HistoryMove, MayRun
    <2>3. QED  BY <1>4, <2>1, <2>2, HistoryFrame
  <1>8. CASE ExecutorRestart
    <2>1. /\ UNCHANGED <<runs, stored, executed, work>>
          /\ inbox' \subseteq inbox /\ exec' = NoExec
          /\ \A q \in RunId : q = exec.run \/ outcome'[q] = outcome[q]
      BY <1>8 DEF ExecutorRestart, control
    <2>2. \A q \in RunId : HistoryMove(q) /\ (MayRun(q)' => MayRun(q))
      BY <1>2, <2>1 DEF HistoryMove, MayRun
    <2>3. QED  BY <1>4, <2>1, <2>2, HistoryFrame
  <1>9. QED  BY <1>5, <1>6, <1>7, <1>8 DEF ExecutorNext

(* Every step keeps the evidence.                                          *)
LEMMA EvidenceStep ==
  ASSUME TypeInv, EvidenceInv, ExecutionInv, ExecutionInv', [Next]_vars
  PROVE  EvidenceInv'
  <1>1. RowsOK(runs) /\ work \in [Consumer -> Work]
    BY TypeParts DEF WorkOK
  <1>2. ASSUME UNCHANGED <<inbox, stored, outcome, executed, exec>>,
               \A c \in Consumer : Moves(c), \A r \in RunId : RowMove(r)
        PROVE  EvidenceInv'
    BY <1>2, NothingGained, EvidenceFrame
  <1>3. UNCHANGED work => \A c \in Consumer : Moves(c)
    BY DEF Moves
  <1>4. CASE OwnerNext
    <2>1. UNCHANGED <<inbox, work, stored, outcome, executed, exec>>
      <3> USE DEF transport, executor
      <3>1. ASSUME NEW o \in Owner, NEW q \in RequestId, NEW f \in Fingerprint,
                   \/ \E r \in RunId : AcceptNew(o, q, f, r)
                   \/ AcceptAgain(o, q, f) \/ AcceptRefused(o, q, f)
            PROVE  UNCHANGED <<inbox, work, stored, outcome, executed, exec>>
        BY <3>1 DEF AcceptNew, AcceptAgain, AcceptRefused, SendJob
      <3>2. ASSUME NEW r \in RunId, AwaitResult(r) \/ AwaitTimesOut(r) \/ Cancel(r)
            PROVE  UNCHANGED <<inbox, work, stored, outcome, executed, exec>>
        BY <3>2 DEF AwaitResult, AwaitTimesOut, Cancel
      <3>3. ASSUME \/ \E o \in Owner : List(o)
                   \/ Arrives \/ \E b \in Commands : SetAccepting(b)
            PROVE  UNCHANGED <<inbox, work, stored, outcome, executed, exec>>
        BY <3>3 DEF List, SetAccepting, Arrives
      <3>4. QED  BY <1>4, <3>1, <3>2, <3>3 DEF OwnerNext
    <2>2. \A r \in RunId : RowMove(r)
      <3>1. ASSUME NEW o \in Owner, NEW q \in RequestId, NEW f \in Fingerprint,
                   NEW r \in RunId, AcceptNew(o, q, f, r)
            PROVE  \A x \in RunId : RowMove(x)
        BY <3>1, AcceptNewRows DEF RowMove
      <3>2. ASSUME NEW r \in RunId, Cancel(r)
            PROVE  \A x \in RunId : RowMove(x)
        <4>1. /\ SoundReport(CancelEvent) /\ runs' = Transitioned(r, CancelEvent)
              /\ CancelEvent.kind = "cancel-requested"
          BY <3>2, TransitionSteps DEF Transitions, CancelEvent
        <4>2. \A x \in RunId : \/ Aged(runs[x], runs'[x])
                               \/ Acted(runs[x], CancelEvent, runs'[x])
          BY <1>1, <4>1, TransitionedRow
        <4>3. \A x \in RunId : Evidenced(x, CancelEvent)
          BY <4>1 DEF Evidenced
        <4>4. QED  BY <4>1, <4>2, <4>3 DEF RowMove
      <3>3. QED  BY <1>4, <3>1, <3>2, OthersAge, StillRows DEF OwnerNext
    <2>3. QED  BY <1>2, <1>3, <2>1, <2>2
  <1>5. CASE AlarmNext
    <2>1. UNCHANGED <<inbox, stored, outcome, executed, exec>>
      BY <1>5 DEF AlarmNext, AlarmFires, TakeRow, AlarmEnds, ObjectRestart,
                  transport, executor
    <2>2. \A r \in RunId : RowMove(r)
      BY <1>5, OthersAge, StillRows
    <2>3. \A c \in Consumer : Moves(c)
      <3>1. CASE TakeRow \/ ObjectRestart
        <4>1. PICK w : /\ work' = [work EXCEPT ![Dispatcher] = w]
                       /\ w.pc \notin Holding \cup {"recover"}
          <5>1. /\ Idle.pc \notin Holding \cup {"recover"}
                /\ \A r \in RunId : [Idle EXCEPT !.pc = "read", !.run = r].pc
                                        \notin Holding \cup {"recover"}
            BY DEF Idle, Holding
          <5>2. QED  BY <3>1, <5>1 DEF TakeRow, ObjectRestart
        <4>2. work'[Dispatcher] = w
              /\ \A d \in Consumer \ {Dispatcher} : Moves(d)
          BY <4>1, DispatcherIsConsumer, OthersStay
        <4>3. QED  BY <4>1, <4>2 DEF Moves
      <3>2. QED  BY <1>3, <1>5, <3>1 DEF AlarmNext, AlarmFires, AlarmEnds
    <2>4. QED  BY <1>2, <2>1, <2>2, <2>3
  <1>6. CASE Tick
    <2>1. UNCHANGED <<inbox, stored, outcome, executed, exec>>
      BY <1>6 DEF Tick, transport, executor
    <2>2. \A r \in RunId : RowMove(r)
      BY <1>6, OthersAge, StillRows
    <2>3. ASSUME NEW c \in Consumer
          PROVE  Moves(c)
      <3>1. work'[c] = [work[c] EXCEPT !.left = Less(@)] /\ work[c] \in Work
        BY <1>1, <1>6 DEF Tick
      <3>2. /\ work'[c].pc = work[c].pc /\ work'[c].run = work[c].run
            /\ work'[c].lease = work[c].lease /\ work'[c].reply = work[c].reply
        BY <3>1 DEF Work
      <3>3. QED  BY <3>2 DEF Moves
    <2>4. QED  BY <1>2, <2>1, <2>2, <2>3
  <1>7. CASE UNCHANGED vars
    BY <1>2, <1>3, <1>7, StillRows DEF vars, control, transport, executor
  <1>8. QED  BY <1>4, <1>5, <1>6, <1>7, ConsumerEvidence, ExecutorEvidence DEF Next

(* What every record says of an outcome, somebody observed: the stored     *)
(* result, the executor's process and the lease agree on the attempt.      *)
THEOREM EvidenceSafe == Spec => []EvidenceInv
  <1>1. Init => EvidenceInv
    <2>1. SUFFICES ASSUME Init
                   PROVE  EvidenceInv
      OBVIOUS
    <2>2. \A r \in RunId : /\ runs[r] = AbsentRun /\ stored[r] = NotStored
                           /\ outcome[r] = "none"
      BY <2>1 DEF Init
    <2>3. /\ AbsentRun.state = "absent" /\ AbsentRun.attempt = 0
          /\ NotStored.lease = 0 /\ NotStored.kind = "none"
      BY DEF AbsentRun, NotStored
    <2>4. \A r \in RunId : exec.run # r
      BY <2>1, ControlAssumption DEF Init, NoExec
    <2>5. \A c \in Consumer : work[c].pc = "idle"
      BY <2>1 DEF Init, Idle
    <2>6. \A r \in RunId : RunEvidence(r)
      BY <2>2, <2>3, <2>4 DEF RunEvidence, Active
    <2>7. \A r \in RunId : VerdictEvidence(r) /\ CancelEvidence(r)
      BY <2>2, <2>3 DEF VerdictEvidence, CancelEvidence
    <2>8. \A c \in Consumer : HolderEvidence(c)
      BY <2>5 DEF HolderEvidence, Holding
    <2>9. QED  BY <2>6, <2>7, <2>8 DEF EvidenceInv
  <1>2. TypeInv /\ ExecutionInv /\ ExecutionInv' /\ EvidenceInv /\ [Next]_vars
          => EvidenceInv'
    BY EvidenceStep
  <1>3. QED  BY <1>1, <1>2, TypeCorrect, ExecutionSafe, PTL DEF Spec

(* A success or a deadline is only ever recorded from the process that ran *)
(* the attempt, and a cancelled run was never a success that came late     *)
(* (completion of simulation-operations.ts, transitionManagedRun).         *)
THEOREM OutcomeIsEvidencedHolds == Spec => []OutcomeIsEvidenced
  <1>1. ExecutionInv /\ EvidenceInv => OutcomeIsEvidenced
    <2>1. SUFFICES ASSUME ExecutionInv, EvidenceInv, NEW r \in RunId
                   PROVE  /\ VerdictEvidence(r)
                          /\ runs[r].state = "cancelled"
                               => outcome[r] \in {"none", "cancelled"}
      BY DEF OutcomeIsEvidenced, VerdictEvidence
    <2>2. Unstarted(r) => outcome[r] = "none"
      BY <2>1 DEF EvidenceInv, RunEvidence, Unstarted, MayRun
    <2>3. QED  BY <2>1, <2>2 DEF EvidenceInv, CancelEvidence
  <1>2. QED  BY <1>1, ExecutionSafe, EvidenceSafe, PTL

-------------------------------------------------------------------------------
(* The promise to the owner of a run.                                      *)

(* What the owner reads of a run moves as promised: accepted, decided or   *)
(* lapsed, the last undecided only out of the queue.                       *)
FateMove(r) ==
  \/ Fate(runs'[r]) = Fate(runs[r])
  \/ Fate(runs[r]) = "none" /\ Fate(runs'[r]) = "pending"
  \/ Fate(runs[r]) = "pending" /\ Fate(runs'[r]) \in Promise!Outcome
  \/ /\ \/ Fate(runs[r]) \in Promise!Outcome
        \/ runs[r].state = "queued"
     /\ Fate(runs'[r]) = "expired"

(* Every step moves what the owner reads so.                               *)
LEMMA FateSteps ==
  ASSUME TypeInv, [Next]_vars
  PROVE  \A r \in RunId : FateMove(r)
  <1> USE DEF Live, Active, Settled, Terminal
  <1>1. runs \in [RunId -> Run] /\ RowsOK(runs)
    BY TypeParts DEF RowsOK
  <1>2. ASSUME NEW r \in RunId, Aged(runs[r], runs'[r])
        PROVE  FateMove(r)
    BY <1>2 DEF Aged, FateMove, Fate, Promise!Outcome
  <1>3. ASSUME NEW r \in RunId, NEW event, SoundReport(event),
               Acted(runs[r], event, runs'[r])
        PROVE  FateMove(r)
    <2>1. runs'[r].state \in Live \cup Settled
      BY <1>1, <1>3, AfterVerdict DEF Acted, SoundReport
    <2>2. runs[r].state \in Live
      BY <1>3 DEF Acted
    <2>3. QED  BY <2>1, <2>2 DEF FateMove, Fate, Promise!Outcome
  <1>4. ASSUME NEW o \in Owner, NEW q \in RequestId, NEW f \in Fingerprint,
               NEW r \in RunId, AcceptNew(o, q, f, r)
        PROVE  \A x \in RunId : FateMove(x)
    <2>1. runs[r].state = "absent" /\ runs'[r].state = "queued"
      <3>1. /\ runs[r].state = "absent"
            /\ \E created \in Nat : runs'[r] = CreateManagedRun(o, created)
        BY <1>4, AcceptNewRows
      <3>2. QED  BY <3>1 DEF CreateManagedRun, AbsentRun
    <2>2. FateMove(r)
      BY <2>1 DEF FateMove, Fate
    <2>3. \A x \in RunId \ {r} : Aged(runs[x], runs'[x])
      BY <1>4, AcceptNewRows
    <2>4. QED  BY <1>2, <2>2, <2>3
  <1>5. QED  BY <1>2, <1>3, <1>4, RowSteps DEF Stepped

(* What a step does to the starts of the runs: nothing, or the one start   *)
(* of one run, whose record does not move.                                 *)
LEMMA StartSteps ==
  ASSUME TypeInv, ExecutionInv, [Next]_vars
  PROVE  \/ executed' = executed
         \/ /\ runs' = runs
            /\ \A r \in RunId : \/ executed'[r] = executed[r]
                                 \/ /\ MayRun(r) /\ executed[r] = 0
                                    /\ executed'[r] = 1
  <1> USE DEF transport, executor, control
  <1>1. CASE OwnerNext
    <2>1. ASSUME NEW o \in Owner, NEW q \in RequestId, NEW f \in Fingerprint,
                 \/ \E r \in RunId : AcceptNew(o, q, f, r)
                 \/ AcceptAgain(o, q, f) \/ AcceptRefused(o, q, f)
          PROVE  executed' = executed
      BY <2>1 DEF AcceptNew, AcceptAgain, AcceptRefused
    <2>2. QED
      BY <1>1, <2>1 DEF OwnerNext, List, AwaitResult, AwaitTimesOut, Cancel,
                        SetAccepting, Arrives
  <1>2. CASE ConsumerNext
    <2>1. ASSUME NEW c \in Consumer,
                 \/ Recover(c) \/ Retire(c) \/ FailMissing(c) \/ Refuse(c)
                 \/ SettleRun(c) \/ CatchBlock(c)
          PROVE  executed' = executed
      BY <2>1, ReportingSteps DEF Reporting, Report
    <2>2. ASSUME NEW c \in Consumer,
                 \/ ReadRun(c) \/ FindStored(c) \/ AcquireLease(c) \/ ReadInput(c)
                 \/ StoreResult(c) \/ ControlUnavailable(c) \/ LoseReply(c)
                 \/ ConsumerCrash(c) \/ \E r \in RunId : Receive(c, r)
          PROVE  executed' = executed
      BY <2>2 DEF ReadRun, FindStored, AcquireLease, ReadInput, StoreResult,
                  ControlUnavailable, LoseReply, ConsumerCrash, Receive
    <2>3. QED  BY <1>2, <2>1, <2>2 DEF ConsumerNext, ConsumerStep
  <1>3. CASE AlarmNext
    BY <1>3 DEF AlarmNext, AlarmFires, TakeRow, AlarmEnds, ObjectRestart
  <1>4. CASE ExecutorNext
    <2>1. ASSUME NEW m \in inbox, Admit(m[1], m[2])
          PROVE  /\ runs' = runs
                 /\ \A r \in RunId : \/ executed'[r] = executed[r]
                                      \/ /\ MayRun(r) /\ executed[r] = 0
                                         /\ executed'[r] = 1
      <3>1. /\ m[1] \in RunId /\ executed \in [RunId -> Nat]
        BY TypeParts DEF RestOK
      <3>2. executed[m[1]] = 0 /\ MayRun(m[1])
        BY <3>1 DEF ExecutionInv, SentOnce, MayRun
      <3>3. \/ executed' = executed
            \/ executed' = [executed EXCEPT ![m[1]] = @ + 1]
        BY <2>1 DEF Admit
      <3>4. runs' = runs
        BY <2>1 DEF Admit
      <3>5. QED  BY <3>1, <3>2, <3>3, <3>4
    <2>2. QED
      BY <1>4, <2>1 DEF ExecutorNext, Finish, DeliverCancel, ExecutorRestart
  <1>5. CASE Tick \/ UNCHANGED vars
    BY <1>5 DEF Tick, vars
  <1>6. QED  BY <1>1, <1>2, <1>3, <1>4, <1>5 DEF Next

(* One step of the control plane is one of the promise, run by run.        *)
LEMMA PromiseStep ==
  ASSUME TypeInv, TypeInv', ExecutionInv, EvidenceInv, EvidenceInv', [Next]_vars
  PROVE  Promise!Next
  <1> DEFINE fates == [r \in RunId |-> Fate(runs[r])]
             next == [r \in RunId |-> Fate(runs'[r])]
             Promised(r) == \/ fates[r] = "none" /\ next[r] = "pending"
                               /\ executed'[r] = executed[r]
                            \/ /\ fates[r] \notin {"none", "succeeded", "timed-out",
                                                    "cancelled"}
                               /\ executed[r] = 0 /\ executed'[r] = 1
                               /\ next[r] = fates[r]
                            \/ /\ \/ fates[r] \in Promise!Outcome
                                  \/ fates[r] = "pending" /\ executed[r] = 0
                               /\ next[r] = "expired"
                               /\ executed'[r] = executed[r]
                            \/ next[r] = fates[r] /\ executed'[r] = executed[r]
                            \/ \E outcome1 \in Promise!Outcome :
                                 /\ fates[r] = "pending"
                                 /\ outcome1 \in {"succeeded", "timed-out"}
                                      => executed[r] = 1
                                 /\ next[r] = outcome1
                                 /\ executed'[r] = executed[r]
  <1>1. ASSUME NEW r \in RunId
        PROVE  Promised(r)
    <2>1. fates[r] = Fate(runs[r]) /\ next[r] = Fate(runs'[r])
      OBVIOUS
    <2>2. FateMove(r)
      BY FateSteps
    <2>3. CASE runs' = runs /\ executed'[r] # executed[r]
      <3>1. MayRun(r) /\ executed[r] = 0 /\ executed'[r] = 1
        BY <2>3, StartSteps
      <3>2. runs[r].state \notin {"absent", "succeeded", "timed-out", "cancelled"}
        <4>1. outcome[r] = "none"
          BY <3>1 DEF EvidenceInv, RunEvidence
        <4>2. ~Unstarted(r)
          BY <3>1 DEF Unstarted
        <4>3. runs[r].state \notin {"succeeded", "timed-out", "cancelled"}
          BY <4>1, <4>2 DEF EvidenceInv, VerdictEvidence, CancelEvidence, SettledState
        <4>4. runs[r].state # "absent"
          BY <3>1 DEF ExecutionInv, FreshIsUnsent, Fresh
        <4>5. QED  BY <4>3, <4>4
      <3>3. Fate(runs[r]) \notin {"none", "succeeded", "timed-out", "cancelled"}
        <4>1. runs[r].state \in RunState
          BY TypeParts DEF RowsOK, Run
        <4>2. QED  BY <3>2, <4>1 DEF Fate, RunState, Live, Active, Terminal, Settled
      <3>4. QED  BY <2>1, <2>3, <3>1, <3>3
    <2>4. CASE executed'[r] = executed[r]
      <3>1. runs[r].state = "queued" => Fate(runs[r]) = "pending" /\ executed[r] = 0
        BY DEF ExecutionInv, FreshIsUnsent, Fresh, MayRun, Fate, Live
      <3>2. ASSUME Fate(runs'[r]) \in {"succeeded", "timed-out"}
            PROVE  executed[r] = 1
        <4>1. runs'[r].state \in {"succeeded", "timed-out"}
          BY <3>2 DEF Fate
        <4>2. outcome'[r] # "none"
          BY <4>1 DEF EvidenceInv, VerdictEvidence, SettledState
        <4>3. QED  BY <2>4, <4>2 DEF EvidenceInv, RunEvidence
      <3> HIDE DEF fates, next
      <3>3. QED  BY <2>1, <2>2, <2>4, <3>1, <3>2 DEF FateMove
    <2>5. QED  BY <2>3, <2>4, StartSteps
  <1>2. /\ next = [r \in RunId |-> next[r]]
        /\ executed' = [r \in RunId |-> executed'[r]]
    <2>1. executed' \in [RunId -> Nat]
      BY DEF TypeInv, TypeOK
    <2>2. QED  BY <2>1
  <1>3. QED
    BY <1>1, <1>2
       DEF Promise!Next, Promise!Accept, Promise!Start, Promise!Lapse,
           Promise!Stay, Promise!Decide

(* Leases, queues, alarms, lost messages and restarts are invisible to the *)
(* owner: a run is decided once, is started at most once, succeeds or      *)
(* times out only if it was started, and lapses undecided only if not.     *)
THEOREM KeepsPromiseHolds == Spec => KeepsPromise
  <1>1. Init => Promise!Init
    BY DEF Init, Promise!Init, Fate, AbsentRun
  <1>2. /\ TypeInv /\ TypeInv' /\ ExecutionInv /\ EvidenceInv /\ EvidenceInv'
        /\ [Next]_vars
        => [Promise!Next]_<<[r \in RunId |-> Fate(runs[r])], executed>>
    BY PromiseStep
  <1>3. QED
    BY <1>1, <1>2, TypeCorrect, ExecutionSafe, EvidenceSafe, PTL
       DEF Spec, KeepsPromise, Promise!Spec

-------------------------------------------------------------------------------
(* A maintenance alarm is stored.                                          *)

AlarmInv == AlarmBelief /\ MaintenanceScheduled

(* ensureAlarm leaves an alarm stored,                                     *)
LEMMA EnsuredAlarm ==
  ASSUME AlarmInv, EnsureAlarm
  PROVE  AlarmInv'
  <1>1. AlarmMs # NoAlarm
    BY ControlAssumption DEF NoAlarm
  <1>2. alarm' # NoAlarm
    BY <1>1 DEF EnsureAlarm, AlarmInv, AlarmBelief
  <1>3. QED  BY <1>2 DEF AlarmInv, AlarmBelief, MaintenanceScheduled

(* and wakeDispatcher leaves one where alarms dispatch: the one it sets,   *)
(* or the recovery alarm of the handler that already runs.                 *)
LEMMA WokenAlarm ==
  ASSUME TypeInv, AlarmInv, WakeDispatcher, UNCHANGED dispatch
  PROVE  AlarmInv'
  <1>1. CASE AlarmDispatch /\ ~dispatch.executing
    <2>1. alarm' # NoAlarm
      BY <1>1 DEF WakeDispatcher, NoAlarm
    <2>2. QED  BY <2>1 DEF AlarmInv, AlarmBelief, MaintenanceScheduled
  <1>2. CASE ~(AlarmDispatch /\ ~dispatch.executing)
    <2>1. /\ alarm # NoAlarm => alarm' # NoAlarm
          /\ alarmScheduled' => alarmScheduled \/ alarm' # NoAlarm
      BY AlarmHelpers DEF TypeInv
    <2>2. AlarmDispatch => alarm' # NoAlarm
      BY <1>2, <2>1 DEF AlarmInv, AlarmBelief
    <2>3. QED
      BY <2>1, <2>2 DEF AlarmInv, AlarmBelief, MaintenanceScheduled
  <1>3. QED  BY <1>1, <1>2

(* The other steps neither drop an alarm, nor begin to believe in one that *)
(* is not stored, nor start the handler, nor add a row to maintain.        *)
LEMMA KeptAlarm ==
  ASSUME AlarmInv, alarm # NoAlarm => alarm' # NoAlarm,
         alarmScheduled' => alarmScheduled \/ alarm' # NoAlarm,
         dispatch'.executing => dispatch.executing,
         \A q \in RunId : runs'[q].state \in RunState \ {"absent", "expired"}
                            => runs[q].state \in RunState \ {"absent", "expired"}
  PROVE  AlarmInv'
  <1>1. Remaining(runs') # {} => Remaining(runs) # {}
    BY DEF Remaining, InState
  <1>2. QED  BY <1>1 DEF AlarmInv, AlarmBelief, MaintenanceScheduled

(* The end of a delivery does not end or start the alarm handler.          *)
LEMMA HandlerGoesOn ==
  ASSUME TypeInv, NEW c \in Consumer,
         \/ Ack(c) \/ Retry(c) \/ Thrown(c)
         \/ \E pc \in STRING : Goto(c, pc)
         \/ UNCHANGED dispatch
  PROVE  dispatch'.executing = dispatch.executing
  <1>1. dispatch \in [executing : BOOLEAN, count : Nat, delay : 0..AlarmMs,
                       stopped : BOOLEAN]
    BY TypeParts DEF RestOK
  <1>2. Thrown(c) => Retry(c) \/ UNCHANGED dispatch
    BY DEF Thrown, Goto
  <1>3. QED  BY <1>1, <1>2 DEF Ack, Retry, Goto

(* A transition adds no row, and drops no alarm.                           *)
LEMMA TransitionAlarm ==
  ASSUME TypeInv, AlarmInv, NEW r \in RunId, NEW event, SoundReport(event),
         Transition(r, event), dispatch'.executing = dispatch.executing
  PROVE  AlarmInv'
  <1>1. RowsOK(runs) /\ runs' = Transitioned(r, event)
    BY TypeParts DEF Transition, Write
  <1>2. \A q \in RunId : runs'[q].state \in RunState \ {"absent", "expired"}
                            => runs[q].state \in RunState \ {"absent", "expired"}
    BY <1>1, TransitionedEffect
  <1>3. BodyRead \/ WakeDispatcher
    BY DEF Transition
  <1>4. /\ alarm # NoAlarm => alarm' # NoAlarm
        /\ alarmScheduled' => alarmScheduled \/ alarm' # NoAlarm
    BY <1>3, AlarmHelpers DEF TypeInv
  <1>5. QED  BY <1>2, <1>4, KeptAlarm

(* Every step keeps the alarm invariant.                                   *)
LEMMA AlarmStep ==
  ASSUME TypeInv, AlarmInv, [Next]_vars
  PROVE  AlarmInv'
  <1>1. RowsOK(runs) /\ RestOK /\ WorkOK
    BY TypeParts
  <1>2. \A q \in RunId : runs[q].state \in RunState
    BY <1>1 DEF RowsOK, Run
  <1>3. /\ UNCHANGED <<runs, alarm, alarmScheduled>>
        /\ dispatch'.executing = dispatch.executing
        => AlarmInv'
    BY KeptAlarm
  <1>4. CASE OwnerNext
    <2>1. ASSUME NEW r \in RunId, AwaitTimesOut(r)
          PROVE  AlarmInv'
      <3>1. Calmer(runs')
        BY <2>1, ReadersCalm
      <3>2. QED  BY <1>2, <2>1, <3>1, KeptAlarm DEF Calmer, AwaitTimesOut
    <2>2. ASSUME NEW r \in RunId, AwaitResult(r)
          PROVE  AlarmInv'
      BY <2>2, EnsuredAlarm DEF AwaitResult
    <2>3. ASSUME NEW r \in RunId, Cancel(r)
          PROVE  AlarmInv'
      <3>1. Transition(r, CancelEvent) /\ UNCHANGED dispatch
        BY <2>3 DEF Cancel
      <3>2. QED  BY <3>1, EventsSent, 0 \in Nat, TransitionAlarm
    <2>4. ASSUME NEW o \in Owner, NEW q \in RequestId, NEW f \in Fingerprint,
                 (\E r \in RunId : AcceptNew(o, q, f, r)) \/ AcceptAgain(o, q, f)
          PROVE  AlarmInv'
      BY <2>4, WokenAlarm DEF AcceptNew, AcceptAgain
    <2>5. ASSUME NEW o \in Owner, NEW q \in RequestId, NEW f \in Fingerprint,
                 AcceptRefused(o, q, f)
          PROVE  AlarmInv'
      <3>1. Calmer(runs')
        BY <2>5, ReadersCalm
      <3>2. BodyRead /\ UNCHANGED dispatch
        BY <2>5 DEF AcceptRefused
      <3>3. /\ alarm # NoAlarm => alarm' # NoAlarm
            /\ alarmScheduled' => alarmScheduled \/ alarm' # NoAlarm
        BY <3>2, AlarmHelpers DEF TypeInv
      <3>4. QED  BY <1>2, <3>1, <3>2, <3>3, KeptAlarm DEF Calmer
    <2>6. ASSUME NEW b \in Commands, SetAccepting(b)
          PROVE  AlarmInv'
      <3>1. BodyRead /\ UNCHANGED <<runs, dispatch>>
        BY <2>6 DEF SetAccepting
      <3>2. /\ alarm # NoAlarm => alarm' # NoAlarm
            /\ alarmScheduled' => alarmScheduled \/ alarm' # NoAlarm
        BY <3>1, AlarmHelpers DEF TypeInv
      <3>3. QED  BY <3>1, <3>2, KeptAlarm
    <2>7. ASSUME Arrives \/ \E o \in Owner : List(o)
          PROVE  AlarmInv'
      BY <2>7, EnsuredAlarm DEF Arrives, List
    <2>8. QED
      BY <1>4, <2>1, <2>2, <2>3, <2>4, <2>5, <2>6, <2>7 DEF OwnerNext
  <1>5. CASE ConsumerNext
    <2>1. PICK c \in Consumer :
            \/ \E r \in RunId : Receive(c, r)
            \/ ConsumerStep(c)
            \/ ControlUnavailable(c)
            \/ LoseReply(c)
            \/ ConsumerCrash(c)
      BY <1>5 DEF ConsumerNext
    <2>2. work[c].pc # "idle" => work[c].run \in RunId
      BY WorkIsSound DEF SoundWork, Work
    <2>3. CASE \/ Recover(c) \/ Retire(c) \/ FailMissing(c) \/ Refuse(c)
               \/ SettleRun(c) \/ CatchBlock(c)
      <3>1. PICK event : Reporting(c, event)
        BY <2>3, ReportingSteps
      <3>2. /\ work[c].run \in RunId /\ SoundReport(event)
            /\ Transition(work[c].run, event)
            /\ Ack(c) \/ Retry(c) \/ Thrown(c)
        BY <2>2, <3>1 DEF Reporting, Report
      <3>3. dispatch'.executing = dispatch.executing
        BY <3>2, HandlerGoesOn
      <3>4. QED  BY <3>2, <3>3, TransitionAlarm
    <2>4. CASE AcquireLease(c)
      <3>1. /\ work[c].run \in RunId /\ SoundReport(LeaseAcquired)
            /\ Transition(work[c].run, LeaseAcquired)
            /\ Retry(c) \/ UNCHANGED dispatch
        BY <2>2, <2>4, EventsSent, 0 \in Nat DEF AcquireLease
      <3>2. dispatch'.executing = dispatch.executing
        BY <3>1, HandlerGoesOn
      <3>3. QED  BY <3>1, <3>2, TransitionAlarm
    <2>5. CASE ReadRun(c)
      BY <2>5, EnsuredAlarm DEF ReadRun
    <2>6. CASE FindStored(c) \/ ReadInput(c) \/ StoreResult(c)
      <3>1. Retry(c) \/ UNCHANGED dispatch
        BY <2>6 DEF FindStored, ReadInput, StoreResult, Goto
      <3>2. UNCHANGED <<runs, alarm, alarmScheduled>>
        BY <2>6 DEF FindStored, ReadInput, StoreResult
      <3>3. QED  BY <1>3, <3>1, <3>2, HandlerGoesOn
    <2>7. CASE ControlUnavailable(c)
      <3>1. Thrown(c) /\ UNCHANGED <<runs, alarm, alarmScheduled>>
        BY <2>7 DEF ControlUnavailable
      <3>2. QED  BY <1>3, <3>1, HandlerGoesOn
    <2>8. CASE LoseReply(c) \/ ConsumerCrash(c) \/ \E r \in RunId : Receive(c, r)
      BY <1>3, <2>8 DEF Receive, LoseReply, ConsumerCrash, control
    <2>9. QED
      BY <2>1, <2>3, <2>4, <2>5, <2>6, <2>7, <2>8 DEF ConsumerStep
  <1>6. CASE AlarmNext
    <2>1. AlarmMs # NoAlarm
      BY ControlAssumption DEF NoAlarm
    <2>2. CASE AlarmFires
      BY <2>1, <2>2
         DEF AlarmFires, Write, RecoveryAlarm, AlarmInv, AlarmBelief,
             MaintenanceScheduled, Remaining, InState
    <2>3. CASE TakeRow
      <3>1. dispatch' = [dispatch EXCEPT !.count = @ + 1]
        BY <2>3 DEF TakeRow
      <3>2. dispatch'.executing = dispatch.executing
        BY <1>1, <3>1 DEF RestOK
      <3>3. QED  BY <1>3, <2>3, <3>2 DEF TakeRow
    <2>4. CASE AlarmEnds
      <3>1. dispatch.delay # NoAlarm
        BY <1>1 DEF RestOK, NoAlarm
      <3>2. ~dispatch'.executing /\ UNCHANGED runs
        BY <2>4 DEF AlarmEnds, NotDispatching
      <3>3. CASE Remaining(runs) # {}
        <4>1. alarm' # NoAlarm
          BY <2>4, <3>1, <3>3 DEF AlarmEnds
        <4>2. QED  BY <4>1 DEF AlarmInv, AlarmBelief, MaintenanceScheduled
      <3>4. CASE Remaining(runs) = {}
        BY <2>4, <3>2, <3>4, KeptAlarm DEF AlarmEnds
      <3>5. QED  BY <3>3, <3>4
    <2>5. CASE ObjectRestart
      BY <2>5, KeptAlarm DEF ObjectRestart, NotDispatching
    <2>6. QED  BY <1>6, <2>2, <2>3, <2>4, <2>5 DEF AlarmNext
  <1>7. CASE ExecutorNext
    BY <1>3, <1>7
       DEF ExecutorNext, Admit, Finish, DeliverCancel, ExecutorRestart, control
  <1>8. CASE Tick
    <2>1. alarm' = Less(alarm) /\ UNCHANGED <<alarmScheduled, dispatch>>
      BY <1>8 DEF Tick
    <2>2. alarm # NoAlarm => alarm' # NoAlarm
      BY <1>1, <2>1 DEF RestOK, Less, NoAlarm
    <2>3. \A q \in RunId : runs'[q] = [runs[q] EXCEPT !.timer = Less(@)]
      BY <1>8 DEF Tick
    <2>4. \A q \in RunId : runs'[q].state = runs[q].state
      BY <1>1, <2>3 DEF RowsOK, Run
    <2>5. QED  BY <2>1, <2>2, <2>4, KeptAlarm
  <1>9. CASE UNCHANGED vars
    BY <1>3, <1>9 DEF vars, control
  <1>10. QED  BY <1>4, <1>5, <1>6, <1>7, <1>8, <1>9 DEF Next

(* The object never believes in an alarm that is not stored, and with      *)
(* alarm dispatch one is stored while a record can still change by time,   *)
(* over every restart of the object and however long a request's body      *)
(* takes (ensureAlarm, wakeDispatcher, alarm).                             *)
THEOREM MaintenanceScheduledHolds == Spec => []MaintenanceScheduled
  <1>1. Init => AlarmInv
    BY DEF Init, AbsentRun, NotDispatching, AlarmInv, AlarmBelief,
           MaintenanceScheduled, Remaining, InState
  <1>2. TypeInv /\ AlarmInv /\ [Next]_vars => AlarmInv'
    BY AlarmStep
  <1>3. AlarmInv => MaintenanceScheduled
    BY DEF AlarmInv
  <1>4. QED  BY <1>1, <1>2, <1>3, TypeCorrect, PTL DEF Spec
===============================================================================
