------------------------- MODULE RunSupervisor_proofs -------------------------
(***************************************************************************)
(* Proofs about the run supervisor and its harness.  The invariants are    *)
(* parts of one inductive invariant, SupervisorInv: OneProcess needs the   *)
(* lease to own the process (LeaseOwns), that needs the fields of the      *)
(* lease to agree with its phase (LeaseShape), and CancelHolds needs a     *)
(* prepared run to know of every remembered cancel (TokensKept).           *)
(*                                                                         *)
(* One lemma per action, one step per conjunct; then the theorems, and the *)
(* step simulation of ExecutorSlot.                                        *)
(***************************************************************************)
EXTENDS RunSupervisor, TLAPS

-------------------------------------------------------------------------------
(* What the operators that several actions share do to the lease.          *)

(* tryExecute refuses and leaves the lease alone, or gives the free slot   *)
(* to the request with a fresh lease that prepares.                        *)
LEMMA Grant ==
  ASSUME TypeOK, NEW r \in Request, TryExecute(r)
  PROVE  \/ /\ Held \/ stop # "no"
            /\ request' = [request EXCEPT ![r] = "busy"]
            /\ active' = active
         \/ /\ ~Held /\ stop = "no"
            /\ request' = [request EXCEPT ![r] = "held"]
            /\ active' \in Lease
            /\ active'.run = r /\ active'.phase = "preparing"
            /\ active'.reason = "none" /\ ~active'.child /\ ~active'.exited
            /\ active'.timer = NoTimer /\ active'.result = "none"
  <1>1. TimeoutOf[r] + Grace \in 0..(MaxTimeout + Grace)
    BY SupervisorAssumption
  <1>2. CASE Held \/ stop # "no"
    BY <1>2 DEF TryExecute
  <1>3. CASE ~(Held \/ stop # "no")
    <2>1. active' = [NoLease EXCEPT !.run = r, !.phase = "preparing",
                                    !.hard = TimeoutOf[r] + Grace]
      BY <1>3 DEF TryExecute
    <2>2. active' = [run |-> r, phase |-> "preparing", reason |-> "none",
            child |-> FALSE, exited |-> FALSE, timer |-> NoTimer,
            hard |-> TimeoutOf[r] + Grace, result |-> "none"]
      BY <2>1 DEF NoLease
    <2>3. active' \in Lease
      BY <1>1, <2>2 DEF Lease
    <2>4. QED BY <1>3, <2>2, <2>3 DEF TryExecute
  <1>4. QED BY <1>2, <1>3

(* #cancelActive changes only the reason and the phase of the lease:       *)
(* nothing unless the run prepares or runs, and a running process is told  *)
(* to die.                                                                 *)
LEMMA Stopped ==
  ASSUME SupervisorInv, CancelActive
  PROVE  /\ active' \in Lease
         /\ active'.run = active.run /\ active'.child = active.child
         /\ active'.exited = active.exited /\ active'.timer = active.timer
         /\ active'.result = active.result
         /\ ~Held => active' = NoLease
         /\ active.phase = "preparing" => active'.reason = "cancelled"
         /\ \/ active' = active /\ process' = process
               /\ active.phase \notin {"preparing", "running"}
            \/ /\ active.phase = "preparing" /\ active'.phase = "preparing"
               /\ active'.reason = "cancelled" /\ process' = process
            \/ /\ active.phase = "running" /\ active'.phase = "terminating"
               /\ active'.reason = "cancelled" /\ process' = Kill(active.run)
  <1>1. active \in Lease
    BY DEF SupervisorInv, TypeOK
  <1>2. CASE active.phase \in {"preparing", "running"}
    <2>1. active.child <=> active.phase = "running"
      BY <1>1, <1>2 DEF SupervisorInv, LeaseShape, Lease
    <2>2. CASE active.phase = "preparing"
      <3>1. /\ active' = [active EXCEPT !.reason = "cancelled"]
            /\ process' = process
        BY <1>1, <2>1, <2>2 DEF CancelActive, Lease
      <3>2. QED
        BY <1>1, <2>2, <3>1
        DEF SupervisorInv, LeaseShape, Lease, Held, NoLease
    <2>3. CASE active.phase = "running"
      <3>1. /\ active' = [active EXCEPT !.reason = "cancelled",
                                       !.phase = "terminating"]
            /\ process' = Kill(active.run)
        BY <1>1, <2>1, <2>3 DEF CancelActive, Lease
      <3>2. active' \in Lease
        BY <1>1, <3>1 DEF Lease
      <3>3. /\ active'.run = active.run /\ active'.child = active.child
            /\ active'.exited = active.exited /\ active'.timer = active.timer
            /\ active'.result = active.result /\ active'.reason = "cancelled"
            /\ active'.phase = "terminating"
        BY <1>1, <3>1 DEF Lease
      <3>4. Held
        BY <2>3 DEF SupervisorInv, LeaseShape, NoLease
      <3>5. QED BY <2>3, <3>1, <3>2, <3>3, <3>4
    <2>4. QED BY <1>2, <2>2, <2>3
  <1>3. CASE active.phase \notin {"preparing", "running"}
    BY <1>1, <1>3 DEF CancelActive, SupervisorInv, LeaseShape
  <1>4. QED BY <1>2, <1>3

(* When the process is started, the lease of a run that is cancelled by    *)
(* then is terminating and its process told to die; otherwise the run is   *)
(* running.                                                                *)
LEMMA Started ==
  ASSUME SupervisorInv, Spawn
  PROVE  /\ active' \in Lease
         /\ Held /\ active.run \in Request
         /\ active'.run = active.run /\ active'.child
         /\ active'.exited = active.exited
         /\ active'.result = active.result
         /\ \/ /\ CancelledByNow /\ ~Native
               /\ active'.reason = "cancelled" /\ active'.phase = "terminating"
               /\ active'.timer = active.timer
               /\ \/ process' = process
                  \/ process' = [process EXCEPT ![active.run] = "killed"]
            \/ /\ ~CancelledByNow
               /\ active'.reason = active.reason /\ active.reason = "none"
               /\ active'.phase = "running"
               /\ \/ process' = process
                  \/ process' = [process EXCEPT ![active.run] = "running"]
  <1>1. active \in Lease /\ active.phase = "preparing" /\ harness = "up"
    BY DEF SupervisorInv, TypeOK, Spawn, Preparing
  <1>2. Held /\ active.run \in Request
    BY <1>1 DEF SupervisorInv, LeaseShape, Held, Lease, NoLease
  <1>3. TimeoutOf[active.run] \in 0..MaxTimeout
    BY <1>2, SupervisorAssumption
  <1>4. process = [process EXCEPT ![active.run] = process[active.run]]
    BY <1>2 DEF SupervisorInv, TypeOK
  <1>5. CASE CancelledByNow
    <2>1. active' = [active EXCEPT !.reason = "cancelled",
                                   !.phase = "terminating", !.child = TRUE]
      BY <1>5 DEF Spawn
    <2>2. active' \in Lease
      BY <1>1, <2>1 DEF Lease
    <2>3. /\ active'.run = active.run /\ active'.child
          /\ active'.exited = active.exited /\ active'.result = active.result
          /\ active'.timer = active.timer
          /\ active'.reason = "cancelled" /\ active'.phase = "terminating"
      BY <1>1, <2>1 DEF Lease
    <2>4. \/ process' = process
          \/ process' = [process EXCEPT ![active.run] = "killed"]
      BY <1>4, <1>5 DEF Spawn
    <2>5. ~Native
      BY <1>5 DEF Spawn
    <2>6. QED BY <1>2, <1>5, <2>2, <2>3, <2>4, <2>5
  <1>6. CASE ~CancelledByNow
    <2>1. active' = [active EXCEPT !.phase = "running", !.child = TRUE,
                                   !.timer = TimeoutOf[active.run]]
      BY <1>6 DEF Spawn
    <2>2. active' \in Lease
      BY <1>1, <1>3, <2>1 DEF Lease
    <2>3. /\ active'.run = active.run /\ active'.child
          /\ active'.exited = active.exited /\ active'.result = active.result
          /\ active'.reason = active.reason /\ active'.phase = "running"
      BY <1>1, <2>1 DEF Lease
    <2>4. \/ process' = process
          \/ process' = [process EXCEPT ![active.run] = "running"]
      BY <1>4, <1>6 DEF Spawn
    <2>5. active.reason = "none"
      BY <1>1, <1>6 DEF CancelledByNow, SupervisorInv, LeaseShape, Lease
    <2>6. QED BY <1>2, <1>6, <2>2, <2>3, <2>4, <2>5
  <1>7. QED BY <1>5, <1>6

(* When the process is detached, the run is said to have finished only if  *)
(* its exit was seen and nothing stopped it, and to be cancelled only if   *)
(* so.                                                                     *)
LEMMA Detached ==
  ASSUME SupervisorInv, Settle
  PROVE  /\ active' \in Lease
         /\ active'.run = active.run /\ active'.phase = "collecting"
         /\ ~active'.child /\ active'.timer = NoTimer
         /\ active'.reason = active.reason
         /\ active'.result = Ending /\ Ending \in Result
         /\ Ending # "none"
         /\ Ending = "finished" => active.reason = "none" /\ active.exited
         /\ Ending = "cancelled" => active.reason = "cancelled"
  <1>1. active \in Lease
    BY DEF SupervisorInv, TypeOK
  <1>2. Ending \in Result /\ Ending # "none"
    BY <1>1 DEF Ending, Result
  <1>3. /\ Ending = "finished" => active.reason = "none" /\ active.exited
        /\ Ending = "cancelled" => active.reason = "cancelled"
    <2>1. active.reason \in {"none", "cancelled", "timeout"}
      BY <1>1 DEF Lease
    <2>2. active.exited \in BOOLEAN
      BY <1>1 DEF Lease
    <2>3. CASE active.reason = "none"
      BY <2>2, <2>3 DEF Ending
    <2>4. CASE active.reason # "none"
      BY <2>1, <2>4 DEF Ending
    <2>5. QED BY <2>3, <2>4
  <1>4. active' = [active EXCEPT !.phase = "collecting", !.child = FALSE,
                                 !.timer = NoTimer, !.result = Ending]
    BY DEF Settle
  <1>5. active' \in Lease
    BY <1>1, <1>2, <1>4 DEF Lease
  <1>6. QED BY <1>1, <1>2, <1>3, <1>4, <1>5 DEF Lease

(* A tick only lowers timers and the time left to tokens.                  *)
LEMMA TimePassed ==
  ASSUME SupervisorInv, Tick
  PROVE  /\ active' \in Lease /\ left' \in [Token -> 0..Remember]
         /\ active'.run = active.run /\ active'.phase = active.phase
         /\ active'.reason = active.reason /\ active'.child = active.child
         /\ active'.exited = active.exited /\ active'.result = active.result
         /\ active'.timer # NoTimer => active.timer # NoTimer
         /\ ~Held => active' = active
         /\ \A t \in Token : left'[t] <= left[t]
  <1>1. active \in Lease /\ left \in [Token -> 0..Remember]
    BY DEF SupervisorInv, TypeOK
  <1>2. MaxTimeout \in Nat /\ Grace \in Nat /\ Remember \in Nat
    BY SupervisorAssumption
  <1>3. active' = [active EXCEPT !.timer = Less(active.timer),
                                 !.hard = Less(active.hard)]
    BY DEF Tick
  <1>4. active.timer \in {-1} \cup 0..MaxTimeout
        /\ active.hard \in {-1} \cup 0..(MaxTimeout + Grace)
    BY <1>1 DEF Lease, NoTimer
  <1>5. /\ Less(active.timer) \in {-1} \cup 0..MaxTimeout
        /\ Less(active.hard) \in {-1} \cup 0..(MaxTimeout + Grace)
        /\ Less(active.timer) # -1 => active.timer # -1
        /\ active.timer = -1 => Less(active.timer) = -1
        /\ active.hard = -1 => Less(active.hard) = -1
    BY <1>2, <1>4 DEF Less
  <1>6. active' \in Lease
    BY <1>1, <1>3, <1>5 DEF Lease, NoTimer
  <1>7. /\ active'.run = active.run /\ active'.phase = active.phase
        /\ active'.reason = active.reason /\ active'.child = active.child
        /\ active'.exited = active.exited /\ active'.result = active.result
        /\ active'.timer = Less(active.timer)
    BY <1>1, <1>3 DEF Lease
  <1>8. ~Held => active' = active
    <2>1. SUFFICES ASSUME ~Held PROVE active' = active
      OBVIOUS
    <2>2. active = NoLease /\ active.timer = -1 /\ active.hard = -1
      BY <2>1 DEF SupervisorInv, LeaseShape, NoLease, NoTimer
    <2>3. QED BY <1>1, <1>3, <1>5, <2>2 DEF Lease
  <1>9. left' \in [Token -> 0..Remember] /\ \A t \in Token : left'[t] <= left[t]
    BY <1>1, <1>2 DEF Tick, Less
  <1>10. QED BY <1>5, <1>6, <1>7, <1>8, <1>9 DEF NoTimer

(* Collection changes the phase and perhaps the result of the lease.       *)
LEMMA Collected ==
  ASSUME SupervisorInv, Collect
  PROVE  /\ active' \in Lease
         /\ active'.run = active.run /\ active'.phase = "cleaning"
         /\ active'.child = active.child /\ active'.timer = active.timer
         /\ active'.reason = active.reason /\ active'.exited = active.exited
         /\ active'.result \in {active.result, "failed"}
  <1>1. active \in Lease
    BY DEF SupervisorInv, TypeOK
  <1>2. PICK result \in {active.result, "failed"} :
          active' = [active EXCEPT !.phase = "cleaning", !.result = result]
    BY DEF Collect
  <1>3. result \in Result \cup {"none"}
    BY <1>1 DEF Lease, Result
  <1>4. QED BY <1>1, <1>2, <1>3 DEF Lease

-------------------------------------------------------------------------------
(* Each action keeps the invariant.                                        *)

(* A token check forgets expired tokens and answers or passes the request. *)
LEMMA CheckTokenKeeps ==
  ASSUME SupervisorInv, NEW r \in Request, CheckToken(r)
  PROVE  SupervisorInv'
  <1>1. TypeOK'
    BY DEF SupervisorInv, TypeOK, Unexpired, CheckToken, Refusal
  <1>2. LeaseOwns'
    BY DEF SupervisorInv, LeaseOwns, CheckToken
  <1>3. TokensKept'
    BY DEF SupervisorInv, TokensKept, Unexpired, CheckToken, Native
  <1>4. AnswersAreTrue'
    BY DEF SupervisorInv, AnswersAreTrue, CheckToken, Alive
  <1>5. ShutdownIsClean'
    BY DEF SupervisorInv, ShutdownIsClean, CheckToken, Held, Alive
  <1>6. LeaseShape' /\ DownIsEmpty' /\ OneProcess' /\ CancelHolds'
    BY DEF SupervisorInv, LeaseShape, DownIsEmpty, OneProcess, CancelHolds,
           CheckToken, Held, Alive
  <1>7. QED
    BY <1>1, <1>2, <1>3, <1>4, <1>5, <1>6 DEF SupervisorInv

(* The ngspice harness admits, or refuses, a request whose token it        *)
(* checked.                                                                *)
LEMMA AdmitKeeps ==
  ASSUME SupervisorInv, NEW r \in Request, Admit(r)
  PROVE  SupervisorInv'
  <1>1. TypeOK'
    BY Grant DEF SupervisorInv, TypeOK, Admit, Refusal
  <1>2. LeaseShape'
    BY SupervisorAssumption, Grant DEF SupervisorInv, LeaseShape, Admit, Held
  <1>3. LeaseOwns'
    BY SupervisorAssumption, Grant
    DEF SupervisorInv, TypeOK, LeaseOwns, AnswersAreTrue, Admit, Held
  <1>4. DownIsEmpty'
    BY DEF DownIsEmpty, Admit
  <1>5. TokensKept'
    BY DEF SupervisorInv, TokensKept, Admit, Native
  <1>6. OneProcess'
    BY Grant DEF SupervisorInv, LeaseShape, OneProcess, Admit, Alive, NoLease
  <1>7. CancelHolds'
    BY DEF SupervisorInv, CancelHolds, Admit
  <1>8. AnswersAreTrue'
    BY Grant DEF SupervisorInv, AnswersAreTrue, TypeOK, Admit, Alive
  <1>9. ShutdownIsClean'
    BY Grant DEF SupervisorInv, ShutdownIsClean, TypeOK, Admit, Held, Alive
  <1>10. QED
    BY <1>1, <1>2, <1>3, <1>4, <1>5, <1>6, <1>7, <1>8, <1>9 DEF SupervisorInv

(* The VACASK harness checks and admits in one step.                       *)
LEMMA CheckAndAdmitKeeps ==
  ASSUME SupervisorInv, NEW r \in Request, CheckAndAdmit(r)
  PROVE  SupervisorInv'
  <1>1. TypeOK'
    BY Grant DEF SupervisorInv, TypeOK, Unexpired, CheckAndAdmit, Refusal
  <1>2. LeaseShape'
    BY SupervisorAssumption, Grant
    DEF SupervisorInv, LeaseShape, CheckAndAdmit, Held
  <1>3. LeaseOwns'
    BY SupervisorAssumption, Grant
    DEF SupervisorInv, TypeOK, LeaseOwns, AnswersAreTrue, CheckAndAdmit, Held
  <1>4. DownIsEmpty'
    BY DEF DownIsEmpty, CheckAndAdmit
  <1>5. TokensKept'
    BY SupervisorAssumption, Grant
    DEF SupervisorInv, TypeOK, TokensKept, Unexpired, CheckAndAdmit, Native
  <1>6. OneProcess'
    BY Grant
    DEF SupervisorInv, LeaseShape, OneProcess, CheckAndAdmit, Alive, NoLease
  <1>7. CancelHolds'
    BY DEF SupervisorInv, CancelHolds, CheckAndAdmit
  <1>8. AnswersAreTrue'
    BY Grant DEF SupervisorInv, AnswersAreTrue, TypeOK, CheckAndAdmit, Alive
  <1>9. ShutdownIsClean'
    BY Grant
    DEF SupervisorInv, ShutdownIsClean, TypeOK, CheckAndAdmit, Held, Alive
  <1>10. QED
    BY <1>1, <1>2, <1>3, <1>4, <1>5, <1>6, <1>7, <1>8, <1>9 DEF SupervisorInv

(* A cancel is remembered and stops the run of its token.                  *)
LEMMA CancelKeeps ==
  ASSUME SupervisorInv, NEW t \in Token, Cancel(t)
  PROVE  SupervisorInv'
  <1>1. TypeOK'
    BY SupervisorAssumption, Stopped
    DEF SupervisorInv, TypeOK, Cancel, Unexpired, Kill
  <1>2. LeaseShape'
    BY Stopped DEF SupervisorInv, LeaseShape, Cancel, Held
  <1>3. LeaseOwns'
    BY Stopped DEF SupervisorInv, TypeOK, LeaseOwns, Cancel, Kill, Held, Lease
  <1>4. DownIsEmpty'
    BY DEF DownIsEmpty, Cancel
  <1>5. TokensKept'
    BY SupervisorAssumption, Stopped
    DEF SupervisorInv, TypeOK, LeaseShape, TokensKept, Cancel, Unexpired, Held,
        NoLease, Lease, Native
  <1>6. OneProcess'
    BY Stopped DEF SupervisorInv, OneProcess, TypeOK, Cancel, Kill, Alive
  <1>7. CancelHolds'
    BY SupervisorAssumption, Stopped
    DEF SupervisorInv, TypeOK, LeaseShape, LeaseOwns, OneProcess, CancelHolds,
        Cancel, Kill, Held, Alive
  <1>8. AnswersAreTrue'
    BY Stopped DEF SupervisorInv, AnswersAreTrue, TypeOK, Cancel, Kill, Alive
  <1>9. ShutdownIsClean'
    BY DEF SupervisorInv, ShutdownIsClean, Cancel, Held, Alive
  <1>10. QED
    BY <1>1, <1>2, <1>3, <1>4, <1>5, <1>6, <1>7, <1>8, <1>9 DEF SupervisorInv

(* Shutdown stops the run and waits for its lease.                         *)
LEMMA ShutdownKeeps ==
  ASSUME SupervisorInv, Shutdown
  PROVE  SupervisorInv'
  <1>1. TypeOK'
    BY Stopped DEF SupervisorInv, TypeOK, Shutdown, Kill
  <1>2. LeaseShape'
    BY Stopped DEF SupervisorInv, LeaseShape, Shutdown, Held
  <1>3. LeaseOwns'
    BY Stopped
    DEF SupervisorInv, TypeOK, LeaseOwns, Shutdown, Kill, Held, Lease
  <1>4. DownIsEmpty'
    BY DEF DownIsEmpty, Shutdown
  <1>5. TokensKept'
    BY Stopped DEF SupervisorInv, TokensKept, Shutdown, Native
  <1>6. OneProcess'
    BY Stopped DEF SupervisorInv, OneProcess, TypeOK, Shutdown, Kill, Alive
  <1>7. CancelHolds'
    BY Stopped DEF SupervisorInv, CancelHolds, TypeOK, Shutdown, Kill
  <1>8. AnswersAreTrue'
    BY Stopped DEF SupervisorInv, AnswersAreTrue, TypeOK, Shutdown, Kill, Alive
  <1>9. ShutdownIsClean'
    BY SupervisorAssumption
    DEF SupervisorInv, LeaseOwns, OneProcess, ShutdownIsClean, Shutdown, Held,
        Alive
  <1>10. QED
    BY <1>1, <1>2, <1>3, <1>4, <1>5, <1>6, <1>7, <1>8, <1>9 DEF SupervisorInv

(* A run that could not be staged is cleaned up.                           *)
LEMMA StagingFailsKeeps ==
  ASSUME SupervisorInv, StagingFails
  PROVE  SupervisorInv'
  <1>1. TypeOK'
    <2>1. active' \in Lease
      BY DEF SupervisorInv, TypeOK, StagingFails, Preparing, Lease, Result,
             NoTimer
    <2>2. QED
      BY <2>1 DEF SupervisorInv, TypeOK, StagingFails, Preparing
  <1>2. LeaseShape'
    BY DEF SupervisorInv, LeaseShape, StagingFails, Preparing, Held, NoLease
  <1>3. LeaseOwns'
    BY DEF SupervisorInv, LeaseOwns, StagingFails
  <1>4. DownIsEmpty'
    BY DEF DownIsEmpty, StagingFails, Preparing
  <1>5. TokensKept'
    BY DEF SupervisorInv, TokensKept, StagingFails, Native
  <1>6. OneProcess'
    BY DEF SupervisorInv, OneProcess, StagingFails, Alive
  <1>7. ShutdownIsClean'
    BY DEF SupervisorInv, ShutdownIsClean, StagingFails, Held, Alive
  <1>8. CancelHolds' /\ AnswersAreTrue'
    BY DEF SupervisorInv, CancelHolds, AnswersAreTrue, StagingFails, Preparing,
           Alive
  <1>9. QED
    BY <1>1, <1>2, <1>3, <1>4, <1>5, <1>6, <1>7, <1>8 DEF SupervisorInv

(* A cancelled VACASK run goes on without a process.                       *)
LEMMA SkipProcessKeeps ==
  ASSUME SupervisorInv, SkipProcess
  PROVE  SupervisorInv'
  <1>1. TypeOK'
    <2>1. active' \in Lease
      BY DEF SupervisorInv, TypeOK, SkipProcess, Preparing, Lease, Result,
             NoTimer
    <2>2. QED
      BY <2>1 DEF SupervisorInv, TypeOK, SkipProcess, Preparing
  <1>2. LeaseShape'
    BY DEF SupervisorInv, LeaseShape, SkipProcess, Preparing, CancelledByNow,
           Held, NoLease
  <1>3. LeaseOwns'
    BY DEF SupervisorInv, LeaseOwns, SkipProcess
  <1>4. DownIsEmpty'
    BY DEF DownIsEmpty, SkipProcess, Preparing
  <1>5. TokensKept'
    BY DEF SupervisorInv, TokensKept, SkipProcess, Native
  <1>6. OneProcess'
    BY DEF SupervisorInv, OneProcess, SkipProcess, Alive
  <1>7. ShutdownIsClean'
    BY DEF SupervisorInv, ShutdownIsClean, SkipProcess, Held, Alive
  <1>8. CancelHolds' /\ AnswersAreTrue'
    BY DEF SupervisorInv, CancelHolds, AnswersAreTrue, SkipProcess, Preparing,
           Alive
  <1>9. QED
    BY <1>1, <1>2, <1>3, <1>4, <1>5, <1>6, <1>7, <1>8 DEF SupervisorInv

(* The process starts, in the slot and not against a cancel.               *)
LEMMA SpawnKeeps ==
  ASSUME SupervisorInv, Spawn
  PROVE  SupervisorInv'
  <1>1. TypeOK'
    BY Started DEF SupervisorInv, TypeOK, Spawn
  <1>2. LeaseShape'
    BY Started DEF SupervisorInv, LeaseShape, Spawn, Preparing, Held
  <1>3. LeaseOwns'
    BY Started
    DEF SupervisorInv, TypeOK, LeaseShape, LeaseOwns, Spawn, Preparing
  <1>4. DownIsEmpty'
    BY DEF DownIsEmpty, Spawn, Preparing
  <1>5. TokensKept'
    BY Started DEF SupervisorInv, TokensKept, Spawn, Native
  <1>6. OneProcess'
    BY Started DEF SupervisorInv, OneProcess, TypeOK, Spawn, Preparing, Alive
  <1>7. CancelHolds'
    BY SupervisorAssumption, Started
    DEF SupervisorInv, TypeOK, TokensKept, CancelHolds, Spawn, Preparing,
        CancelledByNow
  <1>8. AnswersAreTrue'
    BY DEF SupervisorInv, TypeOK, LeaseOwns, AnswersAreTrue, Spawn, Alive,
           Refusal, Result
  <1>9. ShutdownIsClean'
    BY Started DEF SupervisorInv, ShutdownIsClean, Spawn
  <1>10. QED
    BY <1>1, <1>2, <1>3, <1>4, <1>5, <1>6, <1>7, <1>8, <1>9 DEF SupervisorInv

(* A process ends.                                                         *)
LEMMA ProcessEndsKeeps ==
  ASSUME SupervisorInv, NEW r \in Request, ProcessEnds(r)
  PROVE  SupervisorInv'
  <1>1. TypeOK'
    BY DEF SupervisorInv, TypeOK, ProcessEnds
  <1>2. LeaseOwns'
    BY DEF SupervisorInv, LeaseOwns, ProcessEnds
  <1>3. DownIsEmpty'
    BY DEF SupervisorInv, DownIsEmpty, ProcessEnds, Held
  <1>4. OneProcess'
    BY DEF SupervisorInv, OneProcess, ProcessEnds, Alive
  <1>5. CancelHolds'
    BY DEF SupervisorInv, CancelHolds, ProcessEnds
  <1>6. AnswersAreTrue'
    BY DEF SupervisorInv, AnswersAreTrue, ProcessEnds, Alive
  <1>7. ShutdownIsClean'
    BY DEF SupervisorInv, ShutdownIsClean, ProcessEnds, Alive
  <1>8. LeaseShape' /\ TokensKept'
    BY DEF SupervisorInv, LeaseShape, TokensKept, ProcessEnds, Native, Held
  <1>9. QED
    BY <1>1, <1>2, <1>3, <1>4, <1>5, <1>6, <1>7, <1>8 DEF SupervisorInv

(* The exit of the process is seen.                                        *)
LEMMA ExitEventKeeps ==
  ASSUME SupervisorInv, ExitEvent
  PROVE  SupervisorInv'
  <1>1. TypeOK'
    <2>1. active' \in Lease
      BY DEF SupervisorInv, TypeOK, ExitEvent, Lease, Result, NoTimer
    <2>2. QED
      BY <2>1 DEF SupervisorInv, TypeOK, ExitEvent
  <1>2. LeaseShape'
    BY DEF SupervisorInv, LeaseShape, ExitEvent, Held, NoLease
  <1>3. LeaseOwns'
    BY DEF SupervisorInv, LeaseOwns, ExitEvent
  <1>4. DownIsEmpty'
    BY DEF DownIsEmpty, ExitEvent
  <1>5. TokensKept'
    BY DEF SupervisorInv, TokensKept, ExitEvent, Native
  <1>6. OneProcess'
    BY DEF SupervisorInv, OneProcess, ExitEvent, Alive
  <1>7. ShutdownIsClean'
    BY DEF SupervisorInv, ShutdownIsClean, ExitEvent, Held, Alive
  <1>8. CancelHolds' /\ AnswersAreTrue'
    BY DEF SupervisorInv, CancelHolds, AnswersAreTrue, ExitEvent, Alive
  <1>9. QED
    BY <1>1, <1>2, <1>3, <1>4, <1>5, <1>6, <1>7, <1>8 DEF SupervisorInv

(* The process is detached once it has gone.                               *)
LEMMA SettleKeeps ==
  ASSUME SupervisorInv, Settle
  PROVE  SupervisorInv'
  <1>1. TypeOK'
    BY Detached DEF SupervisorInv, TypeOK, Settle
  <1>2. LeaseShape'
    BY Detached DEF SupervisorInv, LeaseShape, Settle, Held, NoLease
  <1>3. LeaseOwns'
    BY Detached DEF SupervisorInv, LeaseOwns, Settle
  <1>4. DownIsEmpty'
    BY DEF DownIsEmpty, Settle
  <1>5. TokensKept'
    BY DEF SupervisorInv, TokensKept, Settle, Native
  <1>6. OneProcess'
    BY DEF SupervisorInv, LeaseOwns, OneProcess, Settle, Alive
  <1>7. ShutdownIsClean'
    BY DEF SupervisorInv, ShutdownIsClean, Settle, Held, Alive
  <1>8. CancelHolds' /\ AnswersAreTrue'
    BY DEF SupervisorInv, CancelHolds, AnswersAreTrue, Settle, Alive
  <1>9. QED
    BY <1>1, <1>2, <1>3, <1>4, <1>5, <1>6, <1>7, <1>8 DEF SupervisorInv

(* The output is collected.                                                *)
LEMMA CollectKeeps ==
  ASSUME SupervisorInv, Collect
  PROVE  SupervisorInv'
  <1>1. TypeOK'
    BY Collected DEF SupervisorInv, TypeOK, Collect
  <1>2. LeaseShape'
    BY DEF SupervisorInv, LeaseShape, Collect, Held, NoLease
  <1>3. LeaseOwns'
    BY DEF SupervisorInv, LeaseOwns, Collect
  <1>4. DownIsEmpty'
    BY DEF DownIsEmpty, Collect
  <1>5. TokensKept'
    BY DEF SupervisorInv, TokensKept, Collect, Native
  <1>6. OneProcess'
    BY DEF SupervisorInv, OneProcess, Collect, Alive
  <1>7. ShutdownIsClean'
    BY DEF SupervisorInv, ShutdownIsClean, Collect, Held, Alive
  <1>8. CancelHolds' /\ AnswersAreTrue'
    BY DEF SupervisorInv, CancelHolds, AnswersAreTrue, Collect, Alive
  <1>9. QED
    BY <1>1, <1>2, <1>3, <1>4, <1>5, <1>6, <1>7, <1>8 DEF SupervisorInv

(* The slot is given back and the request answered.                        *)
LEMMA CleanUpKeeps ==
  ASSUME SupervisorInv, CleanUp
  PROVE  SupervisorInv'
  <1>1. TypeOK'
    BY DEF SupervisorInv, TypeOK, LeaseShape, CleanUp, Held, NoLease, Lease
  <1>2. LeaseShape'
    BY DEF LeaseShape, CleanUp, Held, NoLease
  <1>3. LeaseOwns'
    BY SupervisorAssumption
    DEF SupervisorInv, TypeOK, LeaseOwns, CleanUp, NoLease, Lease, Result
  <1>4. DownIsEmpty'
    BY DEF DownIsEmpty, CleanUp
  <1>5. TokensKept'
    BY DEF SupervisorInv, TokensKept, CleanUp, NoLease, Native
  <1>6. OneProcess'
    BY DEF SupervisorInv, LeaseShape, OneProcess, CleanUp, Alive
  <1>7. CancelHolds'
    BY DEF SupervisorInv, CancelHolds, CleanUp
  <1>8. AnswersAreTrue'
    BY DEF SupervisorInv, TypeOK, LeaseShape, LeaseOwns, OneProcess,
           AnswersAreTrue, CleanUp, Alive, Lease, Refusal, Result
  <1>9. ShutdownIsClean'
    BY DEF SupervisorInv, TypeOK, LeaseShape, LeaseOwns, OneProcess,
           ShutdownIsClean, CleanUp, Held, Alive, NoLease, Lease, Result
  <1>10. QED
    BY <1>1, <1>2, <1>3, <1>4, <1>5, <1>6, <1>7, <1>8, <1>9 DEF SupervisorInv

(* The deadline kills the process.                                         *)
LEMMA ProcessTimerKeeps ==
  ASSUME SupervisorInv, ProcessTimer
  PROVE  SupervisorInv'
  <1>1. TypeOK'
    <2>1. active' \in Lease
      BY DEF SupervisorInv, TypeOK, ProcessTimer, Lease, Result, NoTimer
    <2>2. QED
      BY <2>1 DEF SupervisorInv, TypeOK, ProcessTimer, Kill
  <1>2. LeaseShape'
    BY DEF SupervisorInv, LeaseShape, ProcessTimer, Held, NoLease, NoTimer
  <1>3. LeaseOwns'
    BY DEF SupervisorInv, TypeOK, LeaseShape, LeaseOwns, ProcessTimer, Kill,
           Held, NoLease, Lease, NoTimer
  <1>4. DownIsEmpty'
    BY DEF DownIsEmpty, ProcessTimer
  <1>5. TokensKept'
    BY DEF SupervisorInv, TokensKept, ProcessTimer, Native
  <1>6. OneProcess'
    BY DEF SupervisorInv, OneProcess, ProcessTimer, Kill, Alive
  <1>7. CancelHolds'
    BY DEF SupervisorInv, CancelHolds, ProcessTimer, Kill
  <1>8. AnswersAreTrue'
    BY DEF SupervisorInv, AnswersAreTrue, ProcessTimer, Kill, Alive
  <1>9. ShutdownIsClean'
    BY DEF SupervisorInv, ShutdownIsClean, ProcessTimer, Kill, Held, Alive
  <1>10. QED
    BY <1>1, <1>2, <1>3, <1>4, <1>5, <1>6, <1>7, <1>8, <1>9 DEF SupervisorInv

(* The harness exits.                                                      *)
LEMMA RetireKeeps ==
  ASSUME SupervisorInv, Retire
  PROVE  SupervisorInv'
  <1>1. TypeOK'
    BY SupervisorAssumption DEF SupervisorInv, TypeOK, Retire, NoLease, Lease
  <1>2. LeaseShape'
    BY DEF LeaseShape, Retire, Held, NoLease
  <1>3. LeaseOwns'
    BY SupervisorAssumption DEF LeaseOwns, Retire, NoLease
  <1>4. DownIsEmpty'
    BY DEF DownIsEmpty, Retire, Held, NoLease
  <1>5. TokensKept'
    BY DEF TokensKept, Retire, NoLease, Native
  <1>6. OneProcess'
    BY DEF SupervisorInv, OneProcess, Retire, Alive
  <1>7. CancelHolds'
    BY DEF CancelHolds, Retire
  <1>8. AnswersAreTrue'
    BY DEF SupervisorInv, AnswersAreTrue, Retire, Alive, Refusal, Result
  <1>9. ShutdownIsClean'
    BY DEF ShutdownIsClean, Retire
  <1>10. QED
    BY <1>1, <1>2, <1>3, <1>4, <1>5, <1>6, <1>7, <1>8, <1>9 DEF SupervisorInv

(* The runtime is ready, or is not.                                        *)
LEMMA BootedKeeps ==
  ASSUME SupervisorInv, Booted
  PROVE  SupervisorInv'
  <1>1. TypeOK'
    BY DEF SupervisorInv, TypeOK, Booted
  <1>2. /\ LeaseShape' /\ LeaseOwns' /\ DownIsEmpty' /\ TokensKept'
       /\ OneProcess' /\ CancelHolds' /\ AnswersAreTrue' /\ ShutdownIsClean'
    BY DEF SupervisorInv, LeaseShape, LeaseOwns, DownIsEmpty, TokensKept,
           OneProcess, CancelHolds, AnswersAreTrue, ShutdownIsClean, Booted,
           Native, Held, Alive
  <1>3. QED
    BY <1>1, <1>2 DEF SupervisorInv

(* A new harness starts once nothing of the old one runs.                  *)
LEMMA RestartKeeps ==
  ASSUME SupervisorInv, Restart
  PROVE  SupervisorInv'
  <1>1. TypeOK'
    BY DEF SupervisorInv, TypeOK, Restart
  <1>2. DownIsEmpty'
    BY DEF DownIsEmpty, Restart
  <1>3. OneProcess'
    BY DEF OneProcess, Restart, Alive
  <1>4. ShutdownIsClean'
    BY DEF ShutdownIsClean, Restart
  <1>5. /\ LeaseShape' /\ LeaseOwns' /\ TokensKept' /\ CancelHolds'
       /\ AnswersAreTrue'
    BY DEF SupervisorInv, LeaseShape, LeaseOwns, TokensKept, CancelHolds,
           AnswersAreTrue, Restart, Native, Held, Alive
  <1>6. QED
    BY <1>1, <1>2, <1>3, <1>4, <1>5 DEF SupervisorInv

(* Time passes.                                                            *)
LEMMA TickKeeps ==
  ASSUME SupervisorInv, Tick
  PROVE  SupervisorInv'
  <1>1. TypeOK'
    BY TimePassed DEF SupervisorInv, TypeOK, Tick
  <1>2. LeaseShape'
    BY TimePassed DEF SupervisorInv, LeaseShape, Held
  <1>3. LeaseOwns'
    BY DEF SupervisorInv, LeaseOwns, Tick
  <1>4. DownIsEmpty'
    BY DEF SupervisorInv, DownIsEmpty, Tick, Held
  <1>5. TokensKept'
    BY SupervisorAssumption, TimePassed
    DEF SupervisorInv, TypeOK, LeaseShape, TokensKept, Tick, Held, NoLease,
        Lease, Native
  <1>6. OneProcess'
    BY DEF SupervisorInv, OneProcess, Tick, Alive
  <1>7. CancelHolds'
    BY SupervisorAssumption, TimePassed DEF SupervisorInv, CancelHolds, Tick
  <1>8. AnswersAreTrue'
    BY DEF SupervisorInv, AnswersAreTrue, Tick, Alive
  <1>9. ShutdownIsClean'
    BY DEF SupervisorInv, ShutdownIsClean, Tick, Held, Alive
  <1>10. QED
    BY <1>1, <1>2, <1>3, <1>4, <1>5, <1>6, <1>7, <1>8, <1>9 DEF SupervisorInv

(* Nothing happens.                                                        *)
LEMMA UnchangedKeeps ==
  ASSUME SupervisorInv, UNCHANGED vars
  PROVE  SupervisorInv'
  BY DEF SupervisorInv, TypeOK, LeaseShape, LeaseOwns, DownIsEmpty, TokensKept,
         OneProcess, CancelHolds, AnswersAreTrue, ShutdownIsClean, Held,
         Native, Alive, vars

-------------------------------------------------------------------------------
(* The invariant holds at first and is kept, so it always holds.           *)

(* A harness that has just started satisfies the invariant.                *)
LEMMA InitSafe ==
  ASSUME Init
  PROVE  SupervisorInv
  <1>1. TypeOK
    BY SupervisorAssumption DEF Init, TypeOK, Lease, NoLease, NoTimer
  <1>2. ~Held
    BY DEF Init, Held, NoLease
  <1>3. QED
    BY <1>1, <1>2, SupervisorAssumption
    DEF Init, SupervisorInv, LeaseShape, LeaseOwns, DownIsEmpty, TokensKept,
        OneProcess, CancelHolds, AnswersAreTrue, ShutdownIsClean, NoLease,
        Held, Alive, Refusal, Result, NoTimer

(* Every step keeps it; a failed cleanup, an outlived lease and a crash    *)
(* all retire the harness.                                                 *)
LEMMA NextSafe ==
  ASSUME SupervisorInv, [Next]_vars
  PROVE  SupervisorInv'
  <1>1. ASSUME NEW r \in Request,
               CheckToken(r) \/ Admit(r) \/ CheckAndAdmit(r) \/ ProcessEnds(r)
        PROVE  SupervisorInv'
    BY <1>1, CheckTokenKeeps, AdmitKeeps, CheckAndAdmitKeeps, ProcessEndsKeeps
  <1>2. ASSUME NEW t \in Token, Cancel(t) PROVE SupervisorInv'
    BY <1>2, CancelKeeps
  <1>3. CASE CleanupFails \/ HardTimer \/ Crash
    BY <1>3, RetireKeeps DEF CleanupFails, HardTimer, Crash
  <1>4. QED
    BY <1>1, <1>2, <1>3, ShutdownKeeps, StagingFailsKeeps, SkipProcessKeeps,
       SpawnKeeps, ExitEventKeeps, SettleKeeps, CollectKeeps, CleanUpKeeps,
       ProcessTimerKeeps, BootedKeeps, RestartKeeps, TickKeeps,
       UnchangedKeeps
    DEF Next

(* SupervisorInv is an invariant of the harness.                           *)
THEOREM SupervisorSafe == Spec => []SupervisorInv
  <1>1. Init => SupervisorInv
    BY InitSafe
  <1>2. SupervisorInv /\ [Next]_vars => SupervisorInv'
    BY NextSafe
  <1>3. QED BY <1>1, <1>2, PTL DEF Spec

(* The lease, the requests, the tokens and the processes stay well formed  *)
(* for every set of requests and tokens and all limits.                    *)
THEOREM TypeOKHolds == Spec => []TypeOK
  <1>1. SupervisorInv => TypeOK
    BY DEF SupervisorInv
  <1>2. QED BY <1>1, SupervisorSafe, PTL

(* Never a second simulator process beside one that may still run.         *)
THEOREM OneProcessHolds == Spec => []OneProcess
  <1>1. SupervisorInv => OneProcess
    BY DEF SupervisorInv
  <1>2. QED BY <1>1, SupervisorSafe, PTL

(* No process of a token whose cancel is due to be remembered runs on.     *)
THEOREM CancelHoldsTheorem == Spec => []CancelHolds
  <1>1. SupervisorInv => CancelHolds
    BY DEF SupervisorInv
  <1>2. QED BY <1>1, SupervisorSafe, PTL

(* A refused request had no process, and output is of one that ended by    *)
(* itself.                                                                 *)
THEOREM AnswersAreTrueHolds == Spec => []AnswersAreTrue
  <1>1. SupervisorInv => AnswersAreTrue
    BY DEF SupervisorInv
  <1>2. QED BY <1>1, SupervisorSafe, PTL

(* After a resolved shutdown nothing runs and nothing is admitted.         *)
THEOREM ShutdownIsCleanHolds == Spec => []ShutdownIsClean
  <1>1. SupervisorInv => ShutdownIsClean
    BY DEF SupervisorInv
  <1>2. QED BY <1>1, SupervisorSafe, PTL

-------------------------------------------------------------------------------
(* The harness keeps the promise of ExecutorSlot.                          *)

(* The fate of every request, as the control plane sees it.                *)
fates == [r \in Request |-> Fate(r)]

(* A step that answers nothing is at most a cancel asked of the slot.      *)
LEMMA AskStep ==
  ASSUME request' = request
  PROVE  Slot!Ask
  <1>1. fates' = fates
    BY DEF fates, Fate
  <1>2. Doomed' \subseteq Request
    BY DEF Doomed
  <1>3. QED BY <1>1, <1>2 DEF Slot!Ask, fates

(* The fates the control plane sees follow the answer of the one request.  *)
LEMMA FateOf ==
  ASSUME SupervisorInv, NEW r \in Request, NEW a,
         request' = [request EXCEPT ![r] = a],
         NEW f, f = IF a \in {"sent", "checked"} THEN "open"
                 ELSE IF a = "held" THEN "running" ELSE a
  PROVE  fates' = [fates EXCEPT ![r] = f]
  <1>1. request \in [Request -> {"sent", "checked", "held", "lost"}
                               \cup Refusal \cup Result]
    BY DEF SupervisorInv, TypeOK
  <1>2. request'[r] = a /\ \A q \in Request \ {r} : request'[q] = request[q]
    BY <1>1
  <1>3. \A q \in Request : fates'[q] = [fates EXCEPT ![r] = f][q]
    BY <1>2 DEF fates, Fate
  <1>4. QED BY <1>3 DEF fates

(* A refusal that leaves the lease alone refuses in ExecutorSlot too.      *)
LEMMA RefuseStep ==
  ASSUME SupervisorInv, NEW r \in Request, NEW a \in Refusal,
         request[r] \in {"sent", "checked"},
         request' = [request EXCEPT ![r] = a],
         active' = active, tokens' \subseteq tokens
  PROVE  Slot!Refuse(r)
  <1>1. fates' = [fates EXCEPT ![r] = a]
    BY FateOf DEF Refusal
  <1>2. fates[r] = "open"
    BY DEF fates, Fate
  <1>3. Doomed' \subseteq Doomed
    BY DEF Doomed
  <1>4. a \in Slot!Refusal
    BY DEF Refusal, Slot!Refusal
  <1>5. QED BY <1>1, <1>2, <1>3, <1>4 DEF Slot!Refuse, fates

(* An admission takes the abstract slot, which is free.                    *)
LEMMA StartStep ==
  ASSUME SupervisorInv, NEW r \in Request, ~Held,
         request[r] \in {"sent", "checked"},
         request' = [request EXCEPT ![r] = "held"], active'.run = r
  PROVE  Slot!Start(r)
  <1>1. fates' = [fates EXCEPT ![r] = "running"]
    BY FateOf
  <1>2. fates[r] = "open"
    BY DEF fates, Fate
  <1>3. \A q \in Request : request[q] # "held"
    BY SupervisorAssumption DEF SupervisorInv, LeaseOwns, Held
  <1>4. \A q \in Request : fates[q] # "running"
    BY <1>3 DEF SupervisorInv, TypeOK, fates, Fate, Refusal, Result
  <1>5. Doomed' \subseteq {r}
    BY DEF Doomed
  <1>6. QED BY <1>1, <1>2, <1>4, <1>5 DEF Slot!Start, fates

(* Cleaning up after a run ends it in ExecutorSlot with the same result.   *)
LEMMA EndStep ==
  ASSUME SupervisorInv, CleanUp
  PROVE  active.run \in Request /\ Slot!End(active.run)
  <1>1. Held /\ active \in Lease /\ active.phase = "cleaning"
    BY DEF SupervisorInv, TypeOK, LeaseShape, CleanUp, NoLease
  <1>2. active.run \in Request
    BY <1>1 DEF Held, Lease
  <1>3. active.result \in Slot!Result
    BY <1>1 DEF SupervisorInv, LeaseShape, Lease, Result, Slot!Result
  <1>4. request[active.run] = "held"
    BY <1>2 DEF SupervisorInv, LeaseOwns
  <1>5. fates[active.run] = "running"
    BY <1>2, <1>4 DEF fates, Fate
  <1>6. fates' = [fates EXCEPT ![active.run] = active.result]
    BY <1>2, <1>3, FateOf DEF CleanUp, Slot!Result
  <1>7. active.result = "cancelled" => active.run \in Doomed
    BY <1>2 DEF SupervisorInv, LeaseShape, Doomed
  <1>8. Doomed' \subseteq Doomed
    BY SupervisorAssumption DEF CleanUp, NoLease, Doomed
  <1>9. QED BY <1>2, <1>3, <1>5, <1>6, <1>7, <1>8 DEF Slot!End, fates

(* The harness's exit loses the running request and some open ones.        *)
LEMMA RetireStep ==
  ASSUME SupervisorInv, Retire
  PROVE  Slot!Retire
  <1> DEFINE gone == {r \in Request : request[r] \in {"checked", "held"}}
  <1>1. request \in [Request -> {"sent", "checked", "held", "lost"}
                               \cup Refusal \cup Result]
    BY DEF SupervisorInv, TypeOK
  <1>2. gone \in SUBSET {r \in Request : fates[r] \in {"open", "running"}}
    BY DEF fates, Fate
  <1>3. {r \in Request : fates[r] = "running"} \subseteq gone
    BY <1>1 DEF fates, Fate, Refusal, Result
  <1>4. \A r \in Request :
          request'[r] = IF r \in gone THEN "lost" ELSE request[r]
    BY DEF Retire
  <1>5. \A r \in Request : fates'[r] = IF r \in gone THEN "lost" ELSE fates[r]
    <2>1. TAKE r \in Request
    <2>2. CASE r \in gone
      BY <1>4, <2>2 DEF fates, Fate
    <2>3. CASE r \notin gone
      BY <1>4, <2>3 DEF fates, Fate
    <2>4. QED BY <2>2, <2>3
  <1>6. fates' = [r \in Request |-> IF r \in gone THEN "lost" ELSE fates[r]]
    BY <1>5 DEF fates
  <1>7. Doomed' = {}
    BY SupervisorAssumption DEF Retire, NoLease, Doomed
  <1> HIDE DEF gone
  <1>8. QED BY <1>2, <1>3, <1>6, <1>7 DEF Slot!Retire, fates

(* Every step of the supervisor and its harness is a step of ExecutorSlot. *)
LEMMA SlotStep ==
  ASSUME SupervisorInv, Next
  PROVE  Slot!Next
  <1>1. ASSUME NEW r \in Request,
               CheckToken(r) \/ Admit(r) \/ CheckAndAdmit(r) \/ ProcessEnds(r)
        PROVE  Slot!Next
    <2>1. CASE request' = request
      BY <2>1, AskStep DEF Slot!Next
    <2>2. CASE /\ request[r] = "sent"
               /\ request' = [request EXCEPT ![r] = "checked"]
      <3>1. fates' = [fates EXCEPT ![r] = "open"]
        BY <2>2, FateOf
      <3>2. fates' = fates
        BY <2>2, <3>1 DEF fates, Fate
      <3>3. Doomed' \subseteq Request
        BY DEF Doomed
      <3>4. QED BY <3>2, <3>3 DEF Slot!Next, Slot!Ask, fates
    <2>3. CASE /\ request[r] \in {"sent", "checked"}
               /\ request' = [request EXCEPT ![r] = "held"]
               /\ ~Held /\ active'.run = r
      BY <2>3, StartStep DEF Slot!Next
    <2>4. CASE /\ request[r] \in {"sent", "checked"}
               /\ \E a \in Refusal : request' = [request EXCEPT ![r] = a]
               /\ active' = active /\ tokens' \subseteq tokens
      BY <2>4, RefuseStep DEF Slot!Next
    <2>5. TryExecute(r)
            => \/ request' = [request EXCEPT ![r] = "busy"] /\ active' = active
               \/ /\ request' = [request EXCEPT ![r] = "held"]
                  /\ ~Held /\ active'.run = r
      BY DEF TryExecute, NoLease
    <2>6. QED
      BY <1>1, <2>1, <2>2, <2>3, <2>4, <2>5
      DEF CheckToken, Admit, CheckAndAdmit, ProcessEnds, Unexpired, Refusal
  <1>2. CASE CleanUp
    BY <1>2, EndStep DEF Slot!Next
  <1>3. CASE Retire
    BY <1>3, RetireStep DEF Slot!Next
  <1>4. CASE request' = request
    BY <1>4, AskStep DEF Slot!Next
  <1>5. QED
    BY <1>1, <1>2, <1>3, <1>4
    DEF Next, Cancel, Shutdown, StagingFails, SkipProcess, Spawn, ExitEvent,
        Settle, Collect, CleanupFails, ProcessTimer, HardTimer, Booted, Crash,
        Restart, Tick

(* The detailed harness implements the slot the control plane relies on:   *)
(* the initial states map to initial states, each step to a step or a      *)
(* stutter.                                                                *)
THEOREM SlotIsKept == Spec => KeepsSlot
  <1>1. Init => Slot!Init
    BY SupervisorAssumption DEF Init, Slot!Init, Fate, Doomed, NoLease
  <1>2. SupervisorInv /\ [Next]_vars => [Slot!Next]_<<fates, Doomed>>
    <2>1. CASE UNCHANGED vars
      BY <2>1 DEF vars, fates, Fate, Doomed
    <2>2. QED BY <2>1, SlotStep
  <1>3. SupervisorInv /\ [Next]_vars
          => [Slot!Next]_<<[r \in Request |-> Fate(r)], Doomed>>
    BY <1>2 DEF fates
  <1>4. QED BY <1>1, <1>3, SupervisorSafe, PTL DEF Spec, KeepsSlot, Slot!Spec
===============================================================================
