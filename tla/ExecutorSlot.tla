------------------------------ MODULE ExecutorSlot ------------------------------
(***************************************************************************)
(* What the control plane may rely on from one executor, with no process,  *)
(* phase or timer: the slot holds one request at a time, a request holds   *)
(* it at most once, a refusal means it never did, and "cancelled" is       *)
(* answered only where somebody asked.  RunSupervisor implements it, and   *)
(* the executor of SimulationControl behaves like it.                      *)
(***************************************************************************)
EXTENDS Naturals

CONSTANT Request

VARIABLES fate,    \* what became of each request
          doomed   \* requests whose end has been asked for

Refusal == {"busy", "run-cancelled", "not-ready"}
Result == {"finished", "failed", "timed-out", "cancelled"}

Init == /\ fate = [r \in Request |-> "open"]
        /\ doomed = {}

(* An end is asked for, by the caller or the clock, and a request that was *)
(* never given the slot is forgotten: no request's fate changes.           *)
Ask == /\ UNCHANGED fate
       /\ doomed' \subseteq Request

Refuse(r) == /\ fate[r] = "open"
             /\ \E answer \in Refusal : fate' = [fate EXCEPT ![r] = answer]
             /\ doomed' \subseteq doomed

(* A cancel that arrived while the request was on its way dooms it.        *)
Start(r) == /\ fate[r] = "open"
            /\ \A q \in Request : fate[q] # "running"
            /\ fate' = [fate EXCEPT ![r] = "running"]
            /\ doomed' \subseteq doomed \cup {r}

End(r) == /\ fate[r] = "running"
          /\ \E result \in Result :
               /\ result = "cancelled" => r \in doomed
               /\ fate' = [fate EXCEPT ![r] = result]
          /\ doomed' \subseteq doomed

(* The executor exits: what it had not answered is never answered.         *)
Retire == /\ \E gone \in SUBSET {r \in Request : fate[r] \in {"open", "running"}} :
               /\ {r \in Request : fate[r] = "running"} \subseteq gone
               /\ fate' = [r \in Request |->
                             IF r \in gone THEN "lost" ELSE fate[r]]
          /\ doomed' = {}

Next == \/ Ask \/ Retire
        \/ \E r \in Request : Refuse(r) \/ Start(r) \/ End(r)

Spec == Init /\ [][Next]_<<fate, doomed>>
===============================================================================
