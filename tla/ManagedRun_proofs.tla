--------------------------- MODULE ManagedRun_proofs ---------------------------
(***************************************************************************)
(* What the transition table of ManagedRun preserves, for every record and *)
(* every event: the facts about transitionManagedRun that the proofs about *)
(* the whole control plane rest on.                                        *)
(***************************************************************************)
EXTENDS ManagedRun, TLAPS

(* Each way the table rewrites a record keeps it well formed.              *)
LEMMA UpdateTypes ==
  ASSUME NEW run \in Run
  PROVE  /\ Lease(run) \in Run
         /\ Requeue(run) \in Run
         /\ RequestCancel(run) \in Run
         /\ \A state \in Terminal, recovery \in Recovery, result \in BOOLEAN :
              Settle(run, state, recovery, result) \in Run
         /\ [run EXCEPT !.state = "expired", !.timer = 0, !.result = FALSE] \in Run
         /\ [run EXCEPT !.state = "expired", !.timer = 0, !.result = FALSE,
                        !.recovery = "retry-after"] \in Run
  <1> USE PolicyAssumption DEF Run, RunState, Terminal, Settled, Live, Active
  <1>1. Lease(run) \in Run
    <2>1. run.attempt + 1 \in Nat
      OBVIOUS
    <2>2. \A n \in Nat :
            [run EXCEPT !.state = "running", !.attempt = n, !.leaseId = n,
                        !.timer = LeaseMs, !.recovery = "none"] \in Run
      BY DEF Recovery
    <2>3. QED  BY <2>1, <2>2 DEF Lease
  <1>2. Requeue(run) \in Run
    BY DEF Requeue, Recovery
  <1>3. RequestCancel(run) \in Run
    BY DEF RequestCancel
  <1>4. ASSUME NEW state \in Terminal, NEW recovery \in Recovery,
               NEW result \in BOOLEAN
        PROVE  Settle(run, state, recovery, result) \in Run
    BY DEF Settle
  <1>5. [run EXCEPT !.state = "expired", !.timer = 0, !.result = FALSE] \in Run
    OBVIOUS
  <1>6. [run EXCEPT !.state = "expired", !.timer = 0, !.result = FALSE,
                    !.recovery = "retry-after"] \in Run
    BY DEF Recovery
  <1>7. QED  BY <1>1, <1>2, <1>3, <1>4, <1>5, <1>6

(* An event of the table leaves a well-formed record                       *)
(* (transitionManagedRun).                                                 *)
LEMMA AfterType ==
  ASSUME NEW run \in Run, NEW event \in Event
  PROVE  After(run, event) \in Run
  <1> DEFINE stored == event.result \/ run.result
  <1>1. /\ stored \in BOOLEAN
        /\ run.result \in BOOLEAN
        /\ run.recovery \in Recovery
        /\ event.recovery \in Recovery
        /\ event.kind \in EventKind
    BY DEF Run, Event
  <1>2. CASE event.kind = "lease-acquired"
    BY <1>2, UpdateTypes DEF After
  <1>3. CASE event.kind = "cancel-requested"
    BY <1>3, UpdateTypes DEF After
  <1>4. CASE event.kind \in {"completed", "cancelled"}
    <2>1. After(run, event)
            = Settle(run, SettledState(event.kind), run.recovery, stored)
      BY <1>4 DEF After
    <2>2. SettledState(event.kind) \in Terminal
      BY <1>4 DEF SettledState, Terminal, Settled
    <2>3. \A result \in BOOLEAN :
            Settle(run, SettledState(event.kind), run.recovery, result) \in Run
      BY <2>2, <1>1, UpdateTypes
    <2>4. QED  BY <2>1, <2>3, <1>1
  <1>5. CASE event.kind \in {"timed-out", "failed"}
    <2>1. After(run, event) = Settle(run, event.kind, event.recovery, stored)
      BY <1>5 DEF After
    <2>2. event.kind \in Terminal
      BY <1>5 DEF Terminal, Settled
    <2>3. \A result \in BOOLEAN :
            Settle(run, event.kind, event.recovery, result) \in Run
      BY <2>2, <1>1, UpdateTypes
    <2>4. QED  BY <2>1, <2>3, <1>1
  <1>6. CASE event.kind \in {"infrastructure-failed", "lease-expired"}
    <2>1. After(run, event) = Fail(run, event)
      BY <1>6 DEF After
    <2>2. {"cancelled", "infrastructure-failed"} \subseteq Terminal
          /\ {"retry-after", "not-retryable"} \subseteq Recovery
      BY DEF Terminal, Settled, Recovery
    <2>3. \A state \in {"cancelled", "infrastructure-failed"},
             recovery \in Recovery : Settle(run, state, recovery, run.result) \in Run
      BY <2>2, <1>1, UpdateTypes
    <2>4. QED  BY <2>1, <2>2, <2>3, <1>1, UpdateTypes DEF Fail
  <1>7. CASE event.kind = "expired"
    BY <1>7, UpdateTypes DEF After
  <1>8. CASE event.kind = "queue-expired"
    BY <1>8, UpdateTypes DEF After
  <1>9. QED
    BY <1>1, <1>2, <1>3, <1>4, <1>5, <1>6, <1>7, <1>8 DEF EventKind

(* Applying a passed deadline leaves a well-formed record (expireRecord).  *)
LEMMA ExpirationType ==
  ASSUME NEW run \in Run
  PROVE  /\ ManagedRunExpiration(run) \in Event
         /\ ExpireRecord(run) \in Run
  <1>1. ManagedRunExpiration(run) \in Event
    <2>1. run.leaseId \in Nat
      BY DEF Run
    <2>2. QED
      BY <2>1 DEF ManagedRunExpiration, Event, EventKind, Recovery
  <1>2. QED  BY <1>1, AfterType DEF ExpireRecord

(* No event makes a run that was started look fresh, except the refusal    *)
(* that proves it was not started (the requeue of transitionManagedRun).   *)
LEMMA AfterFresh ==
  ASSUME NEW run \in Run, NEW event \in Event, Legal(run, event),
         event.kind \in {"failed", "timed-out"} => event.recovery # "retry-after",
         Fresh(After(run, event))
  PROVE  Fresh(run) \/ Refused(event)
  <1> USE DEF Fresh, Legal, After, Run, RunState, Live, Active, Terminal, Settled
  <1>1. CASE event.kind = "lease-acquired"
    BY <1>1
  <1>2. CASE event.kind = "cancel-requested"
    BY <1>2 DEF RequestCancel
  <1>3. CASE event.kind \in {"completed", "cancelled"}
    BY <1>3 DEF Settle, SettledState, ReportKind
  <1>4. CASE event.kind \in {"timed-out", "failed"}
    BY <1>4 DEF Settle
  <1>5. CASE event.kind \in {"infrastructure-failed", "lease-expired"}
    BY <1>5 DEF Fail, Settle
  <1>6. CASE event.kind \in {"expired", "queue-expired"}
    BY <1>6
  <1>7. QED
    BY <1>1, <1>2, <1>3, <1>4, <1>5, <1>6 DEF Event, EventKind

(* Only an acquired lease makes a run active, and a run that stays active  *)
(* keeps its lease.                                                        *)
LEMMA AfterActive ==
  ASSUME NEW run \in Run, NEW event \in Event, Legal(run, event),
         After(run, event).state \in Active
  PROVE  \/ /\ event.kind = "lease-acquired"
            /\ After(run, event).leaseId # 0
         \/ /\ run.state \in Active
            /\ After(run, event).leaseId = run.leaseId
  <1> USE DEF Legal, After, Run, RunState, Live, Active, Terminal, Settled
  <1>1. CASE event.kind = "lease-acquired"
    <2>1. run.attempt + 1 # 0
      OBVIOUS
    <2>2. After(run, event).leaseId = run.attempt + 1
      BY <1>1 DEF Lease
    <2>3. QED  BY <1>1, <2>1, <2>2
  <1>2. CASE event.kind = "cancel-requested"
    BY <1>2 DEF RequestCancel
  <1>3. CASE event.kind \in {"completed", "cancelled"}
    BY <1>3 DEF Settle, SettledState
  <1>4. CASE event.kind \in {"timed-out", "failed"}
    BY <1>4 DEF Settle
  <1>5. CASE event.kind \in {"infrastructure-failed", "lease-expired"}
    BY <1>5 DEF Fail, Settle, Requeue
  <1>6. CASE event.kind \in {"expired", "queue-expired"}
    BY <1>6
  <1>7. QED
    BY <1>1, <1>2, <1>3, <1>4, <1>5, <1>6 DEF Event, EventKind

(* A passed deadline is a legal event: it starts nothing, frees the slot   *)
(* of an active run and brings no run back (managedRunExpiration).         *)
LEMMA ExpirationEffect ==
  ASSUME NEW run \in Run
  PROVE  /\ Fresh(ExpireRecord(run)) => Fresh(run)
         /\ ExpireRecord(run).state \in Active
              => run.state \in Active /\ ExpireRecord(run).leaseId = run.leaseId
         /\ (ExpireRecord(run).state = "absent") <=> (run.state = "absent")
         /\ run.state = "expired" => ExpireRecord(run).state = "expired"
  <1> DEFINE event == ManagedRunExpiration(run)
  <1>1. event \in Event
    BY ExpirationType
  <1>2. CASE ~Due(run)
    BY <1>2 DEF ExpireRecord
  <1>3. CASE Due(run)
    <2>1. /\ Legal(run, event)
          /\ event.kind \notin {"failed", "timed-out", "lease-acquired"}
          /\ ~Refused(event)
          /\ ExpireRecord(run) = After(run, event)
      BY <1>3 DEF Legal, ManagedRunExpiration, Due, ExpireRecord, Fenced, Refused,
                  Run, RunState, Live, Active, Terminal, Settled, ReportKind
    <2>2. run.state \notin {"absent", "expired"}
      BY <1>3 DEF Due
    <2>3. After(run, event).state # "absent"
      BY <1>3, <2>2 DEF After, ManagedRunExpiration, Fail, Settle, Run, RunState, Refused
    <2> HIDE DEF event
    <2>4. QED
      BY <1>1, <2>1, <2>2, <2>3, AfterFresh, AfterActive
  <1>4. QED  BY <1>2, <1>3

(* A record that at most a passed deadline was applied to.                 *)
Aged(run, next) ==
  /\ next.owner = run.owner
  /\ next.attempt = run.attempt
  /\ \/ next.state = run.state /\ next.leaseId = run.leaseId
     \/ run.state = "queued" /\ next.state = "expired"
     \/ run.state \in Active /\ next.state = "infrastructure-failed"
     \/ run.state \in Settled /\ next.state = "expired"

(* Applying a deadline ages the record, and brings it to rest if it does   *)
(* anything at all (expireRecord).                                         *)
LEMMA ExpirationAges ==
  ASSUME NEW run \in Run
  PROVE  /\ Aged(run, run)
         /\ Aged(run, ExpireRecord(run))
         /\ ExpireRecord(run) = run \/ ExpireRecord(run).state \in Terminal
  <1>1. Aged(run, run)
    BY DEF Aged
  <1>2. CASE ~Due(run)
    BY <1>1, <1>2 DEF ExpireRecord
  <1>3. CASE Due(run)
    <2>1. /\ ExpireRecord(run) = After(run, ManagedRunExpiration(run))
          /\ run.state \in RunState \ {"absent", "expired"}
      BY <1>3 DEF ExpireRecord, Due, Run
    <2>2. CASE run.state = "queued"
      <3>1. After(run, ManagedRunExpiration(run))
              = [run EXCEPT !.state = "expired", !.timer = 0, !.result = FALSE,
                            !.recovery = "retry-after"]
        BY <2>2 DEF After, ManagedRunExpiration, Active
      <3>2. QED  BY <2>1, <2>2, <3>1 DEF Aged, Run, Terminal
    <2>3. CASE run.state \in Active
      <3>1. After(run, ManagedRunExpiration(run))
              = Settle(run, "infrastructure-failed", "not-retryable", run.result)
        BY <2>3 DEF After, ManagedRunExpiration, Fail, Refused, Active
      <3>2. QED  BY <2>1, <2>3, <3>1 DEF Aged, Run, Settle, Terminal, Settled
    <2>4. CASE run.state \in Settled
      <3>1. After(run, ManagedRunExpiration(run))
              = [run EXCEPT !.state = "expired", !.timer = 0, !.result = FALSE]
        BY <2>4 DEF After, ManagedRunExpiration, Active, Settled
      <3>2. QED  BY <2>1, <2>4, <3>1 DEF Aged, Run, Terminal
    <2>5. QED  BY <2>1, <2>2, <2>3, <2>4 DEF RunState, Live, Terminal
  <1>4. QED  BY <1>1, <1>2, <1>3

(* A run at rest answers every event but its own expiry by staying as it   *)
(* is: a settled outcome is never rewritten.                               *)
LEMMA AfterRest ==
  ASSUME NEW run \in Run, NEW event \in Event, Legal(run, event),
         run.state \in Terminal, event.kind \notin {"expired", "queue-expired"}
  PROVE  After(run, event) = run
  <1>1. event.kind = "cancel-requested"
    BY DEF Legal, Event, EventKind, ReportKind, Terminal, Settled, Active
  <1>2. After(run, event) = RequestCancel(run)
    BY <1>1 DEF After
  <1>3. QED  BY <1>2 DEF RequestCancel, Terminal, Settled

(* No event changes whose run it is, and only a lease counts an attempt.   *)
LEMMA AfterKeeps ==
  ASSUME NEW run \in Run, NEW event \in Event, run.state # "absent"
  PROVE  /\ After(run, event).owner = run.owner
         /\ After(run, event).state # "absent"
         /\ event.kind # "lease-acquired"
              => After(run, event).attempt = run.attempt
  <1> USE DEF Run
  <1>1. CASE event.kind = "lease-acquired"
    BY <1>1 DEF After, Lease
  <1>2. CASE event.kind = "cancel-requested"
    BY <1>2 DEF After, RequestCancel
  <1>3. CASE event.kind \in {"completed", "cancelled"}
    BY <1>3 DEF After, Settle, SettledState
  <1>4. CASE event.kind \in {"timed-out", "failed"}
    BY <1>4 DEF After, Settle
  <1>5. CASE event.kind \in {"infrastructure-failed", "lease-expired"}
    BY <1>5 DEF After, Fail, Settle, Requeue
  <1>6. CASE event.kind \in {"expired", "queue-expired"}
    BY <1>6 DEF After
  <1>7. QED
    BY <1>1, <1>2, <1>3, <1>4, <1>5, <1>6 DEF Event, EventKind

(* How a live run comes to a verdict: a success or a deadline only by the  *)
(* report that says so, a cancellation by that report, out of the queue,   *)
(* or on the proof that nothing was started; it never lapses that way.     *)
LEMMA AfterVerdict ==
  ASSUME NEW run \in Run, NEW event \in Event, Legal(run, event),
         run.state \in Live, event.kind \notin {"expired", "queue-expired"}
  PROVE  /\ After(run, event).state \in Live \cup Settled
         /\ After(run, event).state \in {"succeeded", "timed-out"}
              => /\ event.kind \in {"completed", "timed-out"}
                 /\ run.state \in Active
                 /\ After(run, event).state = SettledState(event.kind)
         /\ After(run, event).state = "cancelled"
              => \/ run.state = "queued"
                 \/ event.kind = "cancelled" /\ run.state \in Active
                 \/ Fresh(After(run, event))
  <1> USE DEF Run, Live, Active, Settled
  <1>1. CASE event.kind = "lease-acquired"
    BY <1>1 DEF After, Lease
  <1>2. CASE event.kind = "cancel-requested"
    BY <1>2 DEF After, RequestCancel
  <1>3. CASE event.kind \in {"completed", "cancelled"}
    BY <1>3 DEF After, Settle, SettledState, Legal, ReportKind
  <1>4. CASE event.kind \in {"timed-out", "failed"}
    BY <1>4 DEF After, Settle, SettledState, Legal, ReportKind
  <1>5. CASE event.kind \in {"infrastructure-failed", "lease-expired"}
    BY <1>5 DEF After, Fail, Settle, Requeue, Fresh
  <1>6. QED
    BY <1>1, <1>2, <1>3, <1>4, <1>5 DEF Event, EventKind
===============================================================================
