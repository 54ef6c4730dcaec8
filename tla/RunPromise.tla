------------------------------ MODULE RunPromise ------------------------------
(***************************************************************************)
(* What managed simulation promises the owner of a run, with no lease,     *)
(* queue, alarm or message: an accepted run is decided once, is started at *)
(* most once, succeeds or times out only if it was started, and lapses     *)
(* undecided only if it never was.  SimulationControl implements it.       *)
(***************************************************************************)
EXTENDS Naturals

CONSTANT RunId

VARIABLES fate,     \* what the owner reads of each run
          started   \* how often each run was started

Outcome == {"succeeded", "failed", "timed-out", "cancelled",
            "infrastructure-failed"}

Init == /\ fate = [r \in RunId |-> "none"]
        /\ started = [r \in RunId |-> 0]

Accept(r) == /\ fate[r] = "none"
             /\ fate'[r] = "pending"
             /\ started'[r] = started[r]

(* A request already under way may reach the executor after its run was    *)
(* given up; it never reaches it after a decision that speaks for it.      *)
Start(r) == /\ fate[r] \notin {"none", "succeeded", "timed-out", "cancelled"}
            /\ started[r] = 0
            /\ started'[r] = 1
            /\ fate'[r] = fate[r]

Decide(r, outcome) == /\ fate[r] = "pending"
                      /\ outcome \in {"succeeded", "timed-out"}
                           => started[r] = 1
                      /\ fate'[r] = outcome
                      /\ started'[r] = started[r]

Lapse(r) == /\ \/ fate[r] \in Outcome
               \/ fate[r] = "pending" /\ started[r] = 0
            /\ fate'[r] = "expired"
            /\ started'[r] = started[r]

Stay(r) == fate'[r] = fate[r] /\ started'[r] = started[r]

(* One transaction may settle several runs whose deadlines passed.         *)
Next ==
  /\ fate' = [r \in RunId |-> fate'[r]]
  /\ started' = [r \in RunId |-> started'[r]]
  /\ \A r \in RunId :
       \/ Accept(r) \/ Start(r) \/ Lapse(r) \/ Stay(r)
       \/ \E outcome \in Outcome : Decide(r, outcome)

Spec == Init /\ [][Next]_<<fate, started>>
===============================================================================
