------------------------------ MODULE TopologyTask ------------------------------
(***************************************************************************)
(* The durable duplicate check of one account: TopologyTaskDO              *)
(* (worker/topology-task.ts), its alarm handler, and the tabs that start,  *)
(* watch, dismiss and cancel it.                                           *)
(*                                                                         *)
(* The object runs one event at a time and admits no event while it waits  *)
(* for its own storage, so an action reaches from one await of the Gallery *)
(* or of a body to the next.  Alarm handlers do not overlap.               *)
(***************************************************************************)
EXTENDS Integers

CONSTANTS Check,        \* identities of checks
          NoCheck,
          Tab,          \* pages that watch the account's check
          Entries,      \* the largest inventory
          Batch,        \* candidates per alarm (3)
          MaxFailures,  \* failures in a row that end a check (5)
          MaxRevision   \* bound: clients act on records below this revision

ASSUME TaskAssumption ==
  /\ NoCheck \notin Check
  /\ Entries \in Nat
  /\ {Batch, MaxFailures, MaxRevision} \subseteq Nat \ {0}

VARIABLES
  job,      \* the stored record, or NoJob
  alarm,    \* the stored alarm: "none", "soon", or "expiry" of the record
  worker,   \* where the alarm handler waits
  copy,     \* the record the handler works on
  step,     \* candidates it did since its alarm
  post,     \* each start: "unsent", waiting for its "body", or "accepted"
  seen,     \* what each start found when it arrived: an identity, running or not
  age,      \* since a check was created: "young" for 30 s, "expired" after 7 days
  tab,      \* the record each tab last received
  stopped   \* history: checks that were cancelled, or replaced as they ran

vars == <<job, alarm, worker, copy, step, post, seen, age, tab, stopped>>

Unlisted == -1

Job == [id : Check \cup {NoCheck}, revision : Nat, running : BOOLEAN,
        dismissed : BOOLEAN, total : {Unlisted} \cup 0..Entries,
        scanned : 0..Entries, failures : 0..MaxFailures]

NoJob == [id |-> NoCheck, revision |-> 0, running |-> FALSE,
          dismissed |-> FALSE, total |-> Unlisted, scanned |-> 0,
          failures |-> 0]

(* What a start remembers of the record it found.                          *)
Glimpse(j) == [id |-> j.id, running |-> j.running]

(* A new check; one whose drawing cannot be compared is complete at once.  *)
NewJob(c, comparable) ==
  [NoJob EXCEPT !.id = c, !.revision = 1, !.running = comparable]

TypeOK ==
  /\ {job, copy} \subseteq Job
  /\ job.id = NoCheck => job = NoJob
  /\ job.total # Unlisted => job.scanned <= job.total
  /\ job.running /\ job.total # Unlisted => job.scanned < job.total
  /\ alarm \in {"none", "soon", "expiry"}
  /\ worker \in {"idle", "inventory", "entry", "body"}
  /\ step \in 0..Batch
  /\ post \in [Check -> {"unsent", "body", "accepted"}]
  /\ seen \in [Check -> [id : Check \cup {NoCheck}, running : BOOLEAN]]
  /\ age \in [Check -> {"young", "settled", "expired"}]
  /\ tab \in [Tab -> Job]
  /\ stopped \subseteq Check

Init ==
  /\ job = NoJob /\ alarm = "none"
  /\ worker = "idle" /\ copy = NoJob /\ step = 0
  /\ post = [c \in Check |-> "unsent"]
  /\ seen = [c \in Check |-> Glimpse(NoJob)]
  /\ age = [c \in Check |-> "young"]
  /\ tab = [t \in Tab |-> NoJob]
  /\ stopped = {}

-------------------------------------------------------------------------------
(* The record a request finds: an expired one is removed first.            *)
Present == IF job.id # NoCheck /\ age[job.id] = "expired" THEN NoJob ELSE job

(* write(): the revision goes up with every write.                         *)
Written(j) == [j EXCEPT !.revision = @ + 1]

(* A broken variant of NextAlarm: only a running check needs an alarm.     *)
NextAlarmWhileRunning(j) == IF j.running THEN "soon" ELSE "none"

(* Ten milliseconds for the next batch, or the end of the retention.       *)
NextAlarm(j) == IF j.running THEN "soon" ELSE "expiry"

(* A GET returns the record, or says that the tab's is unchanged.          *)
Poll(t) ==
  /\ job' = Present
  /\ tab' = [tab EXCEPT ![t] = IF /\ @.id = Present.id
                                  /\ @.revision = Present.revision
                               THEN @ ELSE Present]
  /\ UNCHANGED <<alarm, worker, copy, step, post, seen, age, stopped>>

(* POST: the record is read before the body is.  A start that is sent      *)
(* again finds its own record and is answered with it: no change.          *)
PostArrives(c) ==
  /\ post[c] = "unsent"
  /\ job' = Present
  /\ seen' = [seen EXCEPT ![c] = Glimpse(Present)]
  /\ post' = [post EXCEPT ![c] = "body"]
  /\ UNCHANGED <<alarm, worker, copy, step, age, tab, stopped>>

PostAnswered(c, answer) ==
  /\ post[c] = "body"
  /\ post' = [post EXCEPT ![c] = answer]
  /\ seen' = [seen EXCEPT ![c] = Glimpse(NoJob)]
  /\ UNCHANGED <<worker, copy, step, tab>>

(* A second start, one that is too soon, or an invalid body.               *)
PostDeclined(c) ==
  /\ PostAnswered(c, "unsent")
  /\ UNCHANGED <<job, alarm, age, stopped>>

PostAccepted(c) ==
  /\ ~seen[c].running
  /\ seen[c].id # NoCheck => age[seen[c].id] # "young"
  /\ \E comparable \in BOOLEAN :
       /\ job' = NewJob(c, comparable)
       /\ alarm' = NextAlarm(job')
  /\ age' = [age EXCEPT ![c] = "young"]
  /\ stopped' = IF job.running THEN stopped \cup {job.id} ELSE stopped
  /\ PostAnswered(c, "accepted")

(* DELETE with the identity of the check; repeated cancels are answered.   *)
Cancel(t) ==
  /\ tab[t].id # NoCheck /\ tab[t].id = Present.id
  /\ Present.revision < MaxRevision
  /\ job' = Written([Present EXCEPT !.running = FALSE])
  /\ alarm' = "expiry"
  /\ tab' = [tab EXCEPT ![t] = job']
  /\ stopped' = stopped \cup {job.id}
  /\ UNCHANGED <<worker, copy, step, post, seen, age>>

(* PATCH hides the notice; the tab does not look at the reply.             *)
DismissNotice(t) ==
  /\ tab[t].id # NoCheck /\ tab[t].id = Present.id
  /\ Present.revision < MaxRevision
  /\ job' = Written([Present EXCEPT !.dismissed = TRUE])
  /\ UNCHANGED <<alarm, worker, copy, step, post, seen, age, tab, stopped>>

-------------------------------------------------------------------------------
(* The alarm handler.  A running check stores its retry first.             *)
AlarmDue == \/ alarm = "soon"
            \/ alarm = "expiry" /\ (job.id # NoCheck => age[job.id] = "expired")

(* A broken variant of StoredAlarm: the retry is stored after the reads.   *)
StoredAlarmLater == IF job.id = NoCheck \/ job.running THEN "none" ELSE "expiry"

(* What the handler stores before it reads anything.                       *)
StoredAlarm == IF job.id = NoCheck THEN "none" ELSE NextAlarm(job)

AlarmFires ==
  /\ AlarmDue /\ worker = "idle"
  /\ IF Present = NoJob
     THEN /\ job' = NoJob /\ alarm' = "none"
          /\ UNCHANGED <<worker, copy>>
     ELSE /\ alarm' = StoredAlarm
          /\ IF job.running
             THEN /\ copy' = job
                  /\ worker' = IF job.total = Unlisted THEN "inventory"
                               ELSE "entry"
             ELSE UNCHANGED <<worker, copy>>
          /\ UNCHANGED job
  /\ step' = 0
  /\ UNCHANGED <<post, seen, age, tab, stopped>>

Rest == worker' = "idle" /\ copy' = NoJob /\ step' = 0

(* Was the check cancelled or replaced since the handler read it?          *)
Superseded == job.id # copy.id \/ ~job.running

(* The catch block looks at the stored record.                             *)
Caught ==
  IF Superseded THEN UNCHANGED <<job, alarm>>
  ELSE /\ job' = Written([job EXCEPT !.failures = @ + 1,
                                     !.running = job.failures + 1 < MaxFailures])
       /\ alarm' = NextAlarm(job')

(* The Gallery does not answer, or answers that it cannot.                 *)
GalleryFails ==
  /\ worker \in {"inventory", "entry"}
  /\ Caught
  /\ Rest
  /\ UNCHANGED <<post, seen, age, tab, stopped>>

(* The candidates are listed; the record is written without another look.  *)
Inventory ==
  /\ worker = "inventory"
  /\ \E n \in 0..Entries :
       LET listed == Written([copy EXCEPT !.total = n])
       IN IF n = 0
          THEN /\ job' = Written([listed EXCEPT !.running = FALSE])
               /\ alarm' = "expiry"
               /\ Rest
          ELSE /\ job' = listed /\ copy' = listed
               /\ worker' = "entry"
               /\ UNCHANGED <<alarm, step>>
  /\ UNCHANGED <<post, seen, age, tab, stopped>>

(* A broken variant of Compared: the last candidate does not end the check. *)
ComparedOn(c) == Written([c EXCEPT !.scanned = @ + 1, !.failures = 0])

(* One more candidate of a record has been compared, or cannot be.         *)
Compared(c) == Written([c EXCEPT !.scanned = @ + 1,
                                 !.failures = 0,
                                 !.running = c.scanned + 1 < c.total])

(* The checkpoint, and the next candidate or the end of the batch.         *)
Checkpoint(c) ==
  /\ job' = Compared(c)
  /\ IF job'.running /\ step + 1 < Batch
     THEN /\ copy' = job' /\ step' = step + 1 /\ worker' = "entry"
          /\ UNCHANGED alarm
     ELSE alarm' = NextAlarm(job') /\ Rest

(* A candidate's reply: the handler looks at the stored record before it   *)
(* reads the body.  A candidate that is gone has none.                     *)
EntryReplies ==
  /\ worker = "entry"
  /\ \/ Superseded /\ Rest /\ UNCHANGED <<job, alarm>>
     \/ /\ ~Superseded
        /\ Checkpoint([copy EXCEPT !.dismissed = job.dismissed])
     \/ /\ ~Superseded
        /\ copy' = [copy EXCEPT !.dismissed = job.dismissed]
        /\ worker' = "body"
        /\ UNCHANGED <<job, alarm, step>>
  /\ UNCHANGED <<post, seen, age, tab, stopped>>

EntryBody ==
  /\ worker = "body"
  /\ Checkpoint(copy)
  /\ UNCHANGED <<post, seen, age, tab, stopped>>

-------------------------------------------------------------------------------
(* The object is evicted: what it awaited is lost, what it stored is not.  *)
Evict ==
  /\ worker # "idle" \/ \E c \in Check : post[c] = "body"
  /\ Rest
  /\ post' = [c \in Check |-> IF post[c] = "body" THEN "unsent" ELSE post[c]]
  /\ seen' = [c \in Check |-> Glimpse(NoJob)]
  /\ UNCHANGED <<job, alarm, age, tab, stopped>>

Settles(c) ==
  /\ age[c] = "young"
  /\ age' = [age EXCEPT ![c] = "settled"]
  /\ UNCHANGED <<job, alarm, worker, copy, step, post, seen, tab, stopped>>

(* Seven days do not pass while an alarm is due or something is awaited.   *)
Expires(c) ==
  /\ age[c] = "settled"
  /\ alarm # "soon" /\ worker = "idle"
  /\ \A d \in Check : post[d] # "body"
  /\ age' = [age EXCEPT ![c] = "expired"]
  /\ UNCHANGED <<job, alarm, worker, copy, step, post, seen, tab, stopped>>

Next ==
  \/ \E t \in Tab : Poll(t) \/ Cancel(t) \/ DismissNotice(t)
  \/ \E c \in Check : \/ PostArrives(c) \/ PostDeclined(c) \/ PostAccepted(c)
                      \/ Settles(c) \/ Expires(c)
  \/ AlarmFires \/ Inventory \/ EntryReplies \/ EntryBody \/ GalleryFails
  \/ Evict

Spec == Init /\ [][Next]_vars

(* Alarms fire, and a handler that is not evicted again and again gets an  *)
(* answer or a failure.                                                    *)
Fairness == /\ WF_vars(AlarmFires)
            /\ SF_vars(Inventory) /\ SF_vars(EntryReplies) /\ SF_vars(EntryBody)
FairSpec == Spec /\ Fairness

-------------------------------------------------------------------------------
(* A private drawing does not outlive its seven days: whatever was         *)
(* cancelled, replaced or evicted, an alarm is stored that removes it.     *)
RemovalScheduled == job.id # NoCheck => alarm # "none"

(* A running check comes to an end, whatever start replaced another on the *)
(* way.  Only one that was stopped already, and that a handler in flight   *)
(* wrote back (CancelStops), may stay as it is with no retry to end it.    *)
EveryCheckEnds == job.running ~> (~job.running \/ job.id \in stopped)

(* docs/specs/community-gallery.md: "only Cancel stops"; topology-task.ts  *)
(* looks for a cancellation that landed during a Gallery read.  A check    *)
(* whose cancel was answered does not run again.                           *)
CancelStops == job.running => job.id \notin stopped

===============================================================================
