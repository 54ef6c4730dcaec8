------------------------------ MODULE ManagedRun ------------------------------
(***************************************************************************)
(* The life of one managed simulation run: the record, the transition      *)
(* table and the expiration decision of                                    *)
(* packages/simulation-service/src/managed-run.ts.                         *)
(*                                                                         *)
(* Time.  The code stamps absolute times and compares them with now; here  *)
(* a record carries the time LEFT on the one deadline that its state has   *)
(* (queue wait while queued, lease while active, retention once settled),  *)
(* so "expiresAt <= now" reads timer = 0.  createdAt is kept as a rank     *)
(* because only its order is ever read.                                    *)
(*                                                                         *)
(* A lease is identified by the attempt it started: the code draws a UUID  *)
(* for every acquisition and increments attempt with it, so the pair (run, *)
(* attempt) is as unique as the UUID.  leaseId = 0 is "lease: undefined".  *)
(***************************************************************************)
EXTENDS Integers

CONSTANTS Owner,             \* accounts that own runs
          NoOwner,           \* the owner of a run that does not exist
          MaxAttempts,       \* admission.maxAttempts (3 in the code)
          LeaseMs,           \* policy.leaseMs, in ticks
          MaxQueueWaitMs,    \* policy.maxQueueWaitMs, in ticks
          RetentionMs        \* policy.retentionMs, in ticks

ASSUME PolicyAssumption ==
  /\ MaxAttempts \in Nat \ {0}
  /\ LeaseMs \in Nat \ {0}
  /\ MaxQueueWaitMs \in Nat \ {0}
  /\ RetentionMs \in Nat \ {0}
  /\ NoOwner \notin Owner

Active == {"running", "cancelling"}
Live == Active \cup {"queued"}
Settled == {"succeeded", "failed", "timed-out", "cancelled",
            "infrastructure-failed"}
Terminal == Settled \cup {"expired"}
RunState == {"absent"} \cup Live \cup Terminal

(* Problem.recovery: what the owner is told to do next.                    *)
Recovery == {"none", "retry-after", "not-retryable", "fix-input", "reprepare"}

Run == [state : RunState, owner : Owner \cup {NoOwner}, createdAt : Nat, attempt : Nat,
        leaseId : Nat, timer : Nat, recovery : Recovery, result : BOOLEAN]

EventKind == {"lease-acquired", "cancel-requested", "completed", "cancelled",
              "timed-out", "failed", "infrastructure-failed", "lease-expired",
              "expired", "queue-expired"}

Event == [kind : EventKind, leaseId : Nat, recovery : Recovery,
          result : BOOLEAN]

(* An identity no run has taken yet; it has no row.                        *)
AbsentRun == [state |-> "absent", owner |-> NoOwner, createdAt |-> 0,
              attempt |-> 0, leaseId |-> 0, timer |-> 0,
              recovery |-> "none", result |-> FALSE]

CreateManagedRun(o, created) ==
  [AbsentRun EXCEPT !.state = "queued", !.owner = o, !.createdAt = created,
                    !.timer = MaxQueueWaitMs]

(* An event that carries a lease is fenced to it; one that carries none    *)
(* (leaseId 0) is not.                                                     *)
Fenced(run, event) == event.leaseId # 0 => event.leaseId = run.leaseId

ReportKind == {"completed", "cancelled", "timed-out", "failed",
               "infrastructure-failed", "lease-expired"}

(* transitionManagedRun(...).ok                                            *)
Legal(run, event) ==
  /\ Fenced(run, event)
  /\ event.kind \in {"lease-acquired", "queue-expired"}
       => run.state = "queued"
  /\ event.kind = "cancel-requested" => run.state # "absent"
  /\ event.kind \in ReportKind => run.state \in Active
  /\ event.kind = "expired" => run.state \in Terminal

(* A broken variant of Refused: an uncertain failure counts as a refusal.  *)
RefusedOrLost(event) == event.kind = "infrastructure-failed"

(* Only a known pre-execution refusal grants another attempt.              *)
Refused(event) == /\ event.kind = "infrastructure-failed"
                  /\ event.recovery = "retry-after"

(* A broken variant of SettledState: the event names the state.            *)
SettledStateOfKind(kind) == kind

SettledState(kind) ==
  CASE kind = "completed" -> "succeeded"
    [] kind \in {"cancelled", "timed-out", "failed"} -> kind
    [] OTHER -> "infrastructure-failed"

Settle(run, state, recovery, result) ==
  [run EXCEPT !.state = state, !.leaseId = 0, !.timer = RetentionMs,
              !.recovery = recovery, !.result = result]

Requeue(run) ==
  [run EXCEPT !.state = "queued", !.leaseId = 0, !.timer = MaxQueueWaitMs,
              !.recovery = "retry-after"]

Lease(run) ==
  [run EXCEPT !.state = "running", !.attempt = run.attempt + 1,
              !.leaseId = run.attempt + 1, !.timer = LeaseMs,
              !.recovery = "none"]

(* A broken variant of RequestCancel: a running run is cancelled at once.  *)
RequestCancelAtOnce(run) ==
  IF run.state \in {"queued", "running"}
  THEN [run EXCEPT !.state = "cancelled", !.timer = RetentionMs, !.leaseId = 0]
  ELSE run

RequestCancel(run) ==
  CASE run.state = "queued" ->
         [run EXCEPT !.state = "cancelled", !.timer = RetentionMs]
    [] run.state = "running" -> [run EXCEPT !.state = "cancelling"]
    [] OTHER -> run

Fail(run, event) ==
  IF Refused(event)
  THEN IF run.state # "cancelling" /\ run.attempt < MaxAttempts
       THEN Requeue(run)
       ELSE Settle(run, IF run.state = "cancelling" THEN "cancelled"
                        ELSE "infrastructure-failed", "retry-after", run.result)
  ELSE Settle(run, "infrastructure-failed", "not-retryable", run.result)

(* transitionManagedRun(...).run, for a legal event.                       *)
After(run, event) ==
  CASE event.kind = "lease-acquired" -> Lease(run)
    [] event.kind = "cancel-requested" -> RequestCancel(run)
    [] event.kind \in {"completed", "cancelled"} ->
         Settle(run, SettledState(event.kind), run.recovery,
                event.result \/ run.result)
    [] event.kind \in {"timed-out", "failed"} ->
         Settle(run, event.kind, event.recovery, event.result \/ run.result)
    [] event.kind \in {"infrastructure-failed", "lease-expired"} ->
         Fail(run, event)
    [] event.kind = "expired" ->
         [run EXCEPT !.state = "expired", !.timer = 0, !.result = FALSE]
    [] event.kind = "queue-expired" ->
         [run EXCEPT !.state = "expired", !.timer = 0, !.result = FALSE,
                     !.recovery = "retry-after"]

(* managedRunExpiration: whether a deadline of this record has passed, and *)
(* the event that says so.                                                 *)
Due(run) == run.timer = 0 /\ run.state \notin {"absent", "expired"}

ManagedRunExpiration(run) ==
  [kind |-> CASE run.state = "queued" -> "queue-expired"
              [] run.state \in Active -> "lease-expired"
              [] OTHER -> "expired",
   leaseId |-> IF run.state \in Active THEN run.leaseId ELSE 0,
   recovery |-> IF run.state = "queued" THEN "retry-after"
                ELSE "not-retryable",
   result |-> FALSE]

(* expireRecord: every reader applies a passed deadline before it answers. *)
ExpireRecord(run) ==
  IF Due(run) THEN After(run, ManagedRunExpiration(run)) ELSE run

(* The record says that the run was not started, so that starting it, or   *)
(* repeating it, is still safe.                                            *)
Fresh(run) == run.state \in {"absent", "queued"} \/ run.recovery = "retry-after"
===============================================================================
