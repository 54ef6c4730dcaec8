----------------------------- MODULE RunSupervisor -----------------------------
(***************************************************************************)
(* One executor: the SimulationRunSupervisor that owns its slot            *)
(* (containers/ngspice/run-supervisor.mjs) and the harness around it, the  *)
(* ngspice one (containers/ngspice/entrypoint.mjs) or the VACASK one       *)
(* (containers/vacask/http-server.mjs, run-job.mjs, run-process.mjs).      *)
(*                                                                         *)
(* Node runs one callback at a time: an action is what runs from one await *)
(* or event to the next.  The simulator's own process group is concurrent  *)
(* with all of it, and the event that reports its exit comes later than    *)
(* the exit.                                                               *)
(***************************************************************************)
EXTENDS Integers, FiniteSets

CONSTANTS Request,         \* /run requests
          Token,           \* private run tokens
          NoToken,         \* of a request that carries none
          TokenOf,         \* the token of each request
          TimeoutOf,       \* its deadline, clamped by resolveRunTimeout
          NoRun,           \* the free slot
          MaxTimeout,      \* the longest deadline (120 s)
          Grace,           \* lifecycleGraceMs (10 s)
          Remember,        \* how long a cancelled token is kept (180 s)
          CancelCapacity   \* how many cancelled tokens are kept (256)

ASSUME SupervisorAssumption ==
  /\ NoToken \notin Token
  /\ NoRun \notin Request
  /\ IsFiniteSet(Token)
  /\ TokenOf \in [Request -> Token \cup {NoToken}]
  /\ TimeoutOf \in [Request -> 1..MaxTimeout]
  /\ {MaxTimeout, Grace, Remember, CancelCapacity} \subseteq Nat \ {0}
  /\ MaxTimeout + Grace < Remember

VARIABLES
  kind,      \* which harness this is: "ngspice" or "vacask"
  harness,   \* "up", or "down" once the process of the harness exited
  boot,      \* runtimeReadyPromise: "pending", "ready" or "failed"
  request,   \* where each request is, or how it was answered
  active,    \* the supervisor's one lease
  stop,      \* shutdown(): "no", "waiting" for the lease, or "done"
  tokens,    \* the keys of cancelledTokens
  left,      \* time until each token's entry expires
  process    \* the process group of each request

vars == <<kind, harness, boot, request, active, stop, tokens, left, process>>

Refusal == {"busy", "run-cancelled", "not-ready"}
Result == {"finished", "failed", "timed-out", "cancelled"}
NoTimer == -1

Lease == [run : Request \cup {NoRun},
          phase : {"idle", "preparing", "running", "terminating",
                   "collecting", "cleaning"},
          reason : {"none", "cancelled", "timeout"},
          child : BOOLEAN,       \* a child process is attached
          exited : BOOLEAN,      \* its exit event was delivered
          timer : {NoTimer} \cup 0..MaxTimeout,
          hard : {NoTimer} \cup 0..(MaxTimeout + Grace),
          result : Result \cup {"none"}]

NoLease == [run |-> NoRun, phase |-> "idle", reason |-> "none",
            child |-> FALSE, exited |-> FALSE, timer |-> NoTimer,
            hard |-> NoTimer, result |-> "none"]

TypeOK ==
  /\ kind \in {"ngspice", "vacask"}
  /\ harness \in {"up", "down"}
  /\ boot \in {"pending", "ready", "failed"}
  /\ request \in [Request -> {"sent", "checked", "held", "lost"}
                               \cup Refusal \cup Result]
  /\ active \in Lease
  /\ stop \in {"no", "waiting", "done"}
  /\ tokens \subseteq Token
  /\ left \in [Token -> 0..Remember]
  /\ process \in [Request -> {"none", "running", "killed", "finished", "dead"}]

Init ==
  /\ kind \in {"ngspice", "vacask"}
  /\ harness = "up"
  /\ boot = "pending"
  /\ request = [r \in Request |-> "sent"]
  /\ active = NoLease
  /\ stop = "no"
  /\ tokens = {}
  /\ left = [t \in Token |-> 0]
  /\ process = [r \in Request |-> "none"]

-------------------------------------------------------------------------------
Held == active.run # NoRun
Native == kind = "vacask"

(* SIGKILL to the process group; one that is gone is left alone.           *)
Kill(r) == [process EXCEPT ![r] = IF @ = "running" THEN "killed" ELSE @]

(* The tokens that survive the pruning at the head of /run and /cancel.    *)
Unexpired == {t \in tokens : left[t] > 0}

(* #cancelActive: only a run that still prepares or runs can be stopped.   *)
CancelActive ==
  IF active.phase \in {"preparing", "running"}
  THEN /\ active' = [active EXCEPT !.reason = "cancelled",
                                   !.phase = IF active.child
                                             THEN "terminating" ELSE @]
       /\ process' = IF active.child THEN Kill(active.run) ELSE process
  ELSE UNCHANGED <<active, process>>

(* A broken variant of TryExecute: only the stopping flag is looked at.    *)
TryExecuteBeside(r) ==
  IF stop # "no"
  THEN /\ request' = [request EXCEPT ![r] = "busy"]
       /\ UNCHANGED active
  ELSE /\ request' = [request EXCEPT ![r] = "held"]
       /\ active' = [NoLease EXCEPT !.run = r, !.phase = "preparing",
                                    !.hard = TimeoutOf[r] + Grace]

(* tryExecute() up to the first await of its operation.                    *)
TryExecute(r) ==
  IF Held \/ stop # "no"
  THEN /\ request' = [request EXCEPT ![r] = "busy"]
       /\ UNCHANGED active
  ELSE /\ request' = [request EXCEPT ![r] = "held"]
       /\ active' = [NoLease EXCEPT !.run = r, !.phase = "preparing",
                                    !.hard = TimeoutOf[r] + Grace]

(* The harness's process exits.  Its lease, its tokens and the requests it *)
(* was serving go with it; what it started is killed.                      *)
Retire ==
  /\ harness' = "down"
  /\ request' = [r \in Request |->
                   IF request[r] \in {"checked", "held"} THEN "lost"
                   ELSE request[r]]
  /\ active' = NoLease
  /\ tokens' = {}
  /\ left' = [t \in Token |-> 0]
  /\ process' = [r \in Request |->
                   IF process[r] = "running" THEN "killed" ELSE process[r]]
  /\ UNCHANGED <<kind, boot, stop>>

-------------------------------------------------------------------------------
(* The ngspice harness checks the token, then awaits its runtime.          *)
CheckToken(r) ==
  /\ harness = "up" /\ ~Native
  /\ request[r] = "sent"
  /\ tokens' = Unexpired
  /\ request' = [request EXCEPT ![r] = IF TokenOf[r] \in Unexpired
                                       THEN "run-cancelled" ELSE "checked"]
  /\ UNCHANGED <<kind, harness, boot, active, stop, left, process>>

Admit(r) ==
  /\ harness = "up" /\ ~Native
  /\ request[r] = "checked"
  /\ \/ /\ boot = "failed"
        /\ request' = [request EXCEPT ![r] = "not-ready"]
        /\ UNCHANGED active
     \/ boot = "ready" /\ TryExecute(r)
  /\ UNCHANGED <<kind, harness, boot, stop, tokens, left, process>>

(* The VACASK harness does both without giving way to another event.       *)
CheckAndAdmit(r) ==
  /\ harness = "up" /\ Native
  /\ request[r] = "sent"
  /\ IF boot # "ready"
     THEN /\ request' = [request EXCEPT ![r] = "not-ready"]
          /\ UNCHANGED <<active, tokens>>
     ELSE /\ tokens' = Unexpired
          /\ IF TokenOf[r] \in Unexpired
             THEN /\ request' = [request EXCEPT ![r] = "run-cancelled"]
                  /\ UNCHANGED active
             ELSE TryExecute(r)
  /\ UNCHANGED <<kind, harness, boot, stop, left, process>>

(* POST /cancel; a full memory refuses it (cancel-capacity).               *)
Cancel(t) ==
  /\ harness = "up"
  /\ \/ /\ t \notin Unexpired
        /\ Cardinality(Unexpired) >= CancelCapacity
        /\ tokens' = Unexpired
        /\ UNCHANGED <<left, active, process>>
     \/ /\ t \in Unexpired \/ Cardinality(Unexpired) < CancelCapacity
        /\ tokens' = Unexpired \cup {t}
        /\ left' = [left EXCEPT ![t] = Remember]
        /\ IF Held /\ TokenOf[active.run] = t
           THEN CancelActive
           ELSE UNCHANGED <<active, process>>
  /\ UNCHANGED <<kind, harness, boot, request, stop>>

(* A broken variant of Shutdown: it does not wait for the lease.           *)
ShutdownAtOnce ==
  /\ harness = "up" /\ Native
  /\ stop = "no"
  /\ stop' = "done"
  /\ IF Held THEN CancelActive ELSE UNCHANGED <<active, process>>
  /\ UNCHANGED <<kind, harness, boot, request, tokens, left>>

(* shutdown(), which only the VACASK entrypoint calls.                     *)
Shutdown ==
  /\ harness = "up" /\ Native
  /\ stop = "no"
  /\ IF Held
     THEN stop' = "waiting" /\ CancelActive
     ELSE stop' = "done" /\ UNCHANGED <<active, process>>
  /\ UNCHANGED <<kind, harness, boot, request, tokens, left>>

-------------------------------------------------------------------------------
(* The supervised operation.                                               *)
Preparing == harness = "up" /\ active.phase = "preparing"

(* A directory or an input file could not be written, or spawn() threw.    *)
StagingFails ==
  /\ Preparing
  /\ active' = [active EXCEPT !.phase = "cleaning", !.result = "failed"]
  /\ UNCHANGED <<kind, harness, boot, request, stop, tokens, left, process>>

(* A broken variant of CancelledByNow: the tokens are not looked at again. *)
CancelledInLease == active.reason = "cancelled"

(* Is the run cancelled when its process is about to start?  The ngspice   *)
(* harness looks at the remembered tokens once more.                       *)
CancelledByNow == \/ active.reason = "cancelled"
                  \/ ~Native /\ TokenOf[active.run] \in tokens

(* VACASK starts nothing for a cancelled run.                              *)
SkipProcess ==
  /\ Preparing
  /\ Native /\ CancelledByNow
  /\ active' = [active EXCEPT !.phase = "collecting", !.result = "cancelled"]
  /\ UNCHANGED <<kind, harness, boot, request, stop, tokens, left, process>>

(* spawn() and attachProcess().  A process that could not be started is    *)
(* attached too, until its error event.  ngspice starts the process of a   *)
(* cancelled run and kills it at once.                                     *)
Spawn ==
  /\ Preparing
  /\ ~(Native /\ CancelledByNow)
  /\ \E started \in BOOLEAN :
       IF CancelledByNow
       THEN /\ active' = [active EXCEPT !.reason = "cancelled",
                                        !.phase = "terminating",
                                        !.child = TRUE]
            /\ process' = [process EXCEPT ![active.run] =
                             IF started THEN "killed" ELSE @]
       ELSE /\ active' = [active EXCEPT !.phase = "running",
                                        !.child = TRUE,
                                        !.timer = TimeoutOf[active.run]]
            /\ process' = [process EXCEPT ![active.run] =
                             IF started THEN "running" ELSE @]
  /\ UNCHANGED <<kind, harness, boot, request, stop, tokens, left>>

(* The operating system ends a process, by itself or by the signal.        *)
ProcessEnds(r) ==
  /\ process[r] \in {"running", "killed"}
  /\ process' = [process EXCEPT ![r] = IF @ = "running" THEN "finished"
                                       ELSE "dead"]
  /\ UNCHANGED <<kind, harness, boot, request, active, stop, tokens, left>>

(* The child's exit event reaps what the deck left behind and waits up to  *)
(* 200 ms for the pipes to close.                                          *)
ExitEvent ==
  /\ harness = "up"
  /\ active.child /\ ~active.exited
  /\ process[active.run] \in {"finished", "dead"}
  /\ active' = [active EXCEPT !.exited = TRUE]
  /\ UNCHANGED <<kind, harness, boot, request, stop, tokens, left, process>>

(* Broken variants of Ending: an exit code is all that counts; whatever    *)
(* was stopped is called cancelled; the bare termination reason.           *)
EndingByExit == IF active.exited THEN "finished" ELSE "failed"
EndingStopped == IF active.reason # "none" THEN "cancelled"
                 ELSE IF active.exited THEN "finished" ELSE "failed"
EndingRaw == active.reason

(* How the run is reported to have ended, read when its process is         *)
(* detached.                                                               *)
Ending == CASE active.reason = "timeout" -> "timed-out"
            [] active.reason = "cancelled" -> "cancelled"
            [] active.reason = "none" /\ active.exited -> "finished"
            [] OTHER -> "failed"

(* close, the end of that wait, or the error event of a failed spawn: the  *)
(* process is detached, its timer cleared and the collection begins.       *)
Settle ==
  /\ harness = "up"
  /\ active.child
  /\ active.exited \/ process[active.run] = "none"
  /\ active' = [active EXCEPT !.phase = "collecting", !.child = FALSE,
                              !.timer = NoTimer, !.result = Ending]
  /\ UNCHANGED <<kind, harness, boot, request, stop, tokens, left, process>>

(* Collecting the output may throw; then the reply is an error.            *)
Collect ==
  /\ harness = "up"
  /\ active.phase = "collecting"
  /\ \E result \in {active.result, "failed"} :
       active' = [active EXCEPT !.phase = "cleaning", !.result = result]
  /\ UNCHANGED <<kind, harness, boot, request, stop, tokens, left, process>>

(* A broken variant of CleanUp: settled is not resolved.                   *)
CleanUpSilently ==
  /\ harness = "up"
  /\ active.phase = "cleaning"
  /\ request' = [request EXCEPT ![active.run] = active.result]
  /\ active' = NoLease
  /\ UNCHANGED <<kind, harness, boot, stop, tokens, left, process>>

(* The directory is removed, the slot cleared and settled resolved.        *)
CleanUp ==
  /\ harness = "up"
  /\ active.phase = "cleaning"
  /\ request' = [request EXCEPT ![active.run] = active.result]
  /\ active' = NoLease
  /\ stop' = IF stop = "waiting" THEN "done" ELSE stop
  /\ UNCHANGED <<kind, harness, boot, tokens, left, process>>

(* failCleanup(): VACASK does not release a slot whose data remains.       *)
CleanupFails ==
  /\ harness = "up" /\ Native
  /\ active.phase = "cleaning"
  /\ Retire

-------------------------------------------------------------------------------
ProcessTimer ==
  /\ harness = "up"
  /\ active.timer = 0
  /\ active' = [active EXCEPT !.phase = "terminating", !.reason = "timeout",
                              !.timer = NoTimer]
  /\ process' = Kill(active.run)
  /\ UNCHANGED <<kind, harness, boot, request, stop, tokens, left>>

(* A broken variant of HardTimer: the watchdog only guards the process.    *)
HardTimerOfProcess ==
  /\ harness = "up"
  /\ active.hard = 0 /\ active.child
  /\ Retire

(* The lease outlived its deadline and the grace: the harness fail-stops.  *)
HardTimer ==
  /\ harness = "up"
  /\ active.hard = 0
  /\ Retire

Booted ==
  /\ harness = "up"
  /\ boot = "pending"
  /\ boot' \in {"ready", "failed"}
  /\ UNCHANGED <<kind, harness, request, active, stop, tokens, left, process>>

Crash == harness = "up" /\ Retire

(* A new harness starts after the container of the old one is gone.        *)
Restart ==
  /\ harness = "down"
  /\ \A r \in Request : process[r] \notin {"running", "killed"}
  /\ harness' = "up"
  /\ boot' = "pending"
  /\ stop' = "no"
  /\ UNCHANGED <<kind, request, active, tokens, left, process>>

Less(n) == IF n > 0 THEN n - 1 ELSE n

(* Time passes for every timer; a timer that is due runs first.            *)
Tick ==
  /\ active.timer # 0 /\ active.hard # 0
  /\ active.timer > 0 \/ active.hard > 0 \/ \E t \in Token : left[t] > 0
  /\ active' = [active EXCEPT !.timer = Less(@), !.hard = Less(@)]
  /\ left' = [t \in Token |-> Less(left[t])]
  /\ UNCHANGED <<kind, harness, boot, request, stop, tokens, process>>

Next ==
  \/ \E r \in Request : \/ CheckToken(r) \/ Admit(r) \/ CheckAndAdmit(r)
                        \/ ProcessEnds(r)
  \/ \E t \in Token : Cancel(t)
  \/ Shutdown
  \/ StagingFails \/ SkipProcess \/ Spawn \/ ExitEvent \/ Settle
  \/ Collect \/ CleanUp \/ CleanupFails
  \/ ProcessTimer \/ HardTimer \/ Booted \/ Crash \/ Restart \/ Tick

Spec == Init /\ [][Next]_vars

(* Timers fire.  Nothing is assumed of the simulator, the file system or   *)
(* the operation: any of its steps may hang for ever.                      *)
Fairness == WF_vars(Tick) /\ WF_vars(HardTimer) /\ WF_vars(ProcessTimer)
FairSpec == Spec /\ Fairness

-------------------------------------------------------------------------------
Alive(r) == process[r] \in {"running", "killed"}

(* "Own one simulator process": there is never a second process beside one *)
(* that may still run, not even beside one that was only told to die, and  *)
(* while the harness is up that process belongs to the lease in the slot.  *)
OneProcess ==
  /\ \A r, q \in Request : Alive(r) /\ Alive(q) => r = q
  /\ \A r \in Request : Alive(r) /\ harness = "up"
                          => active.run = r /\ active.child

(* Once /cancel accepted a token, no process of that token runs on         *)
(* unsignalled while the entry is due to be remembered, wherever between   *)
(* check, admission, staging, start and exit the cancel came in.           *)
CancelHolds ==
  \A r \in Request : process[r] = "running" /\ TokenOf[r] # NoToken
                       => left[TokenOf[r]] = 0

(* The caller retries a refusal, so a refused request never had a process; *)
(* and output is reported only of a process that ended by itself, in the   *)
(* time it was given and before anyone stopped it.                         *)
AnswersAreTrue ==
  \A r \in Request :
    /\ request[r] \in Refusal \cup {"sent", "checked"} => process[r] = "none"
    /\ request[r] = "finished" => process[r] = "finished"
    /\ request[r] \in Result => ~Alive(r)

(* Once shutdown() resolved, nothing runs and nothing will be admitted.    *)
ShutdownIsClean ==
  stop = "done" /\ harness = "up"
    => /\ ~Held
       /\ \A r \in Request : ~Alive(r) /\ request[r] # "held"

(* The slot has one finite lifetime: it is given back, or the harness is   *)
(* retired, even when the operation never settles.                         *)
SlotIsReturned == \A r \in Request : (active.run = r) ~> (active.run # r)

(* Whoever waits for shutdown() is not kept waiting for ever.              *)
ShutdownSettles == (stop = "waiting") ~> (stop = "done" \/ harness = "down")

-------------------------------------------------------------------------------
(* The inductive strengthening: what the fields of the lease say of each   *)
(* other, and what they say of the process and the requests.               *)

LeaseShape ==
  /\ ~Held => active = NoLease
  /\ Held => active.phase # "idle"
  /\ active.child <=> active.phase \in {"running", "terminating"}
  /\ active.phase = "running" => active.reason = "none"
  /\ active.phase = "terminating" => active.reason # "none"
  /\ active.phase = "preparing" => ~active.exited /\ active.reason # "timeout"
  /\ active.timer # NoTimer => active.child
  /\ active.phase \in {"collecting", "cleaning"} <=> active.result # "none"
  /\ active.result = "cancelled" => active.reason = "cancelled"

LeaseOwns ==
  /\ \A r \in Request : request[r] = "held" <=> active.run = r
  /\ active.phase = "preparing" => process[active.run] = "none"
  /\ active.phase = "terminating" => process[active.run] # "running"
  /\ active.child /\ active.exited
       => process[active.run] \in {"finished", "dead"}
  /\ active.child /\ active.reason = "none"
       => process[active.run] \notin {"killed", "dead"}
  /\ active.result = "finished" => process[active.run] = "finished"

DownIsEmpty ==
  harness = "down"
    => /\ ~Held
       /\ \A r \in Request : process[r] # "running"

(* A token is remembered while it is due, and a VACASK run that prepares   *)
(* knows of its cancel.                                                    *)
TokensKept ==
  /\ \A t \in Token : left[t] > 0 => t \in tokens
  /\ Native /\ active.phase = "preparing" /\ active.reason = "none"
       => TokenOf[active.run] = NoToken \/ left[TokenOf[active.run]] = 0

SupervisorInv ==
  /\ TypeOK /\ LeaseShape /\ LeaseOwns /\ DownIsEmpty /\ TokensKept
  /\ OneProcess /\ CancelHolds /\ AnswersAreTrue /\ ShutdownIsClean

-------------------------------------------------------------------------------
(* What the control plane sees of all this.                                *)
Fate(r) == IF request[r] \in {"sent", "checked"} THEN "open"
           ELSE IF request[r] = "held" THEN "running" ELSE request[r]

(* A run is as good as stopped once a cancel of it is remembered.          *)
Doomed == {r \in Request : /\ active.run = r
                           /\ \/ active.reason = "cancelled"
                              \/ TokenOf[r] \in tokens}

Slot == INSTANCE ExecutorSlot WITH fate <- [r \in Request |-> Fate(r)],
                                   doomed <- Doomed

KeepsSlot == Slot!Spec
===============================================================================
