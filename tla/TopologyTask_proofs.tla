-------------------------- MODULE TopologyTask_proofs --------------------------
(***************************************************************************)
(* Proofs about the durable duplicate check, for all checks, tabs and      *)
(* limits.  The inductive invariant TaskInv adds to the types what a       *)
(* record always satisfies (Fits) and what the handler relies on while it  *)
(* waits (Working): its copy is of a running check with something left to  *)
(* do, and an alarm is stored.                                             *)
(***************************************************************************)
EXTENDS TopologyTask, TLAPS

(* A record is listed before it is scanned; a running one has candidates   *)
(* left and has not failed too often.                                      *)
Fits(j) ==
  /\ j \in Job
  /\ j.total = Unlisted => j.scanned = 0
  /\ j.total # Unlisted => j.scanned <= j.total
  /\ j.running => /\ j.failures < MaxFailures
                  /\ j.total # Unlisted => j.scanned < j.total

Working ==
  worker # "idle" =>
    /\ Fits(copy) /\ copy.running /\ copy.id # NoCheck
    /\ worker = "inventory" <=> copy.total = Unlisted
    /\ step < Batch
    /\ alarm # "none"

TaskInv == TypeOK /\ Fits(job) /\ Working /\ RemovalScheduled

-------------------------------------------------------------------------------
(* A record of seven fields.                                               *)
Fields(i, r, u, d, t, s, f) ==
  [id |-> i, revision |-> r, running |-> u, dismissed |-> d, total |-> t, scanned |-> s,
   failures |-> f]

(* What the updates of a record make of its fields.                        *)
LEMMA Updates ==
  ASSUME NEW j \in Job, NEW v
  PROVE  /\ [j EXCEPT !.id = v] =
              Fields(v, j.revision, j.running, j.dismissed, j.total, j.scanned, j.failures)
         /\ [j EXCEPT !.running = v] =
              Fields(j.id, j.revision, v, j.dismissed, j.total, j.scanned, j.failures)
         /\ [j EXCEPT !.dismissed = v] =
              Fields(j.id, j.revision, j.running, v, j.total, j.scanned, j.failures)
         /\ [j EXCEPT !.total = v] =
              Fields(j.id, j.revision, j.running, j.dismissed, v, j.scanned, j.failures)
         /\ [j EXCEPT !.scanned = v] =
              Fields(j.id, j.revision, j.running, j.dismissed, j.total, v, j.failures)
         /\ [j EXCEPT !.failures = v] =
              Fields(j.id, j.revision, j.running, j.dismissed, j.total, j.scanned, v)
  BY DEF Job, Fields

LEMMA EndUpdate ==
  ASSUME NEW j \in Job, NEW v, NEW w
  PROVE  [j EXCEPT !.failures = v, !.running = w] =
           Fields(j.id, j.revision, w, j.dismissed, j.total, j.scanned, v)
  <1> DEFINE a == Fields(j.id, j.revision, j.running, j.dismissed, j.total, j.scanned, v)
  <1>1. [j EXCEPT !.failures = v, !.running = w]
          = [[j EXCEPT !.failures = v] EXCEPT !.running = w]
    BY Zenon
  <1>2. [j EXCEPT !.failures = v] = a
    BY DEF Job, Fields
  <1>3. [a EXCEPT !.running = w] =
          Fields(j.id, j.revision, w, j.dismissed, j.total, j.scanned, v)
    BY DEF Fields
  <1> HIDE DEF a
  <1>4. QED BY <1>1, <1>2, <1>3, Zenon

LEMMA NewUpdate ==
  ASSUME NEW j \in Job, NEW v, NEW w, NEW x
  PROVE  [j EXCEPT !.id = v, !.revision = w, !.running = x] =
           Fields(v, w, x, j.dismissed, j.total, j.scanned, j.failures)
  <1> DEFINE a == Fields(v, j.revision, j.running, j.dismissed, j.total, j.scanned, j.failures)
             b == Fields(v, w, j.running, j.dismissed, j.total, j.scanned, j.failures)
  <1>1. [j EXCEPT !.id = v, !.revision = w, !.running = x]
          = [[[j EXCEPT !.id = v] EXCEPT !.revision = w] EXCEPT !.running = x]
    BY Zenon
  <1>2. [j EXCEPT !.id = v] = a
    BY DEF Job, Fields
  <1>3. [a EXCEPT !.revision = w] = b
    BY DEF Fields
  <1>4. [b EXCEPT !.running = x] =
          Fields(v, w, x, j.dismissed, j.total, j.scanned, j.failures)
    BY DEF Fields
  <1> HIDE DEF a, b
  <1>5. QED BY <1>1, <1>2, <1>3, <1>4, Zenon

(* The records that the code makes.                                        *)
LEMMA NoJobFits == Fits(NoJob) /\ NoJob.id = NoCheck /\ NoJob.running = FALSE
  <1>1. NoJob = [id |-> NoCheck, revision |-> 0, running |-> FALSE, dismissed |-> FALSE,
                 total |-> Unlisted, scanned |-> 0, failures |-> 0]
    BY DEF NoJob
  <1>2. Unlisted \notin 0..Entries /\ 0 \in 0..Entries /\ 0 \in 0..MaxFailures
    BY TaskAssumption DEF Unlisted
  <1>3. NoJob \in Job
    BY <1>1, <1>2 DEF Job
  <1>4. QED BY <1>1, <1>3, TaskAssumption DEF Fits

LEMMA NewJobFits ==
  ASSUME NEW c \in Check, NEW comparable \in BOOLEAN
  PROVE  Fits(NewJob(c, comparable)) /\ NewJob(c, comparable).id = c
  <1>1. NewJob(c, comparable) =
          [id |-> c, revision |-> 1, running |-> comparable, dismissed |-> FALSE,
           total |-> Unlisted, scanned |-> 0, failures |-> 0]
    <2>1. NoJob \in Job
      BY NoJobFits DEF Fits
    <2>2. NewJob(c, comparable) =
            Fields(c, 1, comparable, NoJob.dismissed, NoJob.total, NoJob.scanned,
                   NoJob.failures)
      BY <2>1, NewUpdate, Zenon DEF NewJob
    <2>3. /\ NoJob.dismissed = FALSE /\ NoJob.total = Unlisted /\ NoJob.scanned = 0
          /\ NoJob.failures = 0
      BY DEF NoJob
    <2>4. QED BY <2>2, <2>3, Zenon DEF Fields
  <1>2. 0 \in 0..Entries /\ 0 \in 0..MaxFailures
    BY TaskAssumption
  <1>3. NewJob(c, comparable) \in Job
    BY <1>1, <1>2 DEF Job
  <1>4. QED BY <1>1, <1>3, TaskAssumption DEF Fits

(* A write changes nothing but the revision.                               *)
LEMMA WrittenFits ==
  ASSUME NEW j, Fits(j)
  PROVE  /\ Fits(Written(j))
         /\ Written(j).id = j.id /\ Written(j).running = j.running
         /\ Written(j).total = j.total
  <1>1. Written(j) = [id |-> j.id, revision |-> j.revision + 1, running |-> j.running,
                      dismissed |-> j.dismissed, total |-> j.total, scanned |-> j.scanned,
                      failures |-> j.failures]
    BY DEF Written, Fits, Job
  <1>2. QED BY <1>1 DEF Fits, Job

(* A check may always be stopped, and its notice be hidden.                *)
LEMMA StoppedFits ==
  ASSUME NEW j, Fits(j), NEW hidden \in BOOLEAN
  PROVE  /\ Fits([j EXCEPT !.running = FALSE]) /\ [j EXCEPT !.running = FALSE].id = j.id
         /\ Fits([j EXCEPT !.dismissed = hidden]) /\ [j EXCEPT !.dismissed = hidden].id = j.id
         /\ [j EXCEPT !.dismissed = hidden].running = j.running
         /\ [j EXCEPT !.dismissed = hidden].total = j.total
  <1>1. [j EXCEPT !.running = FALSE] =
          [id |-> j.id, revision |-> j.revision, running |-> FALSE, dismissed |-> j.dismissed,
           total |-> j.total, scanned |-> j.scanned, failures |-> j.failures]
    BY Updates DEF Fits, Fields
  <1>2. [j EXCEPT !.dismissed = hidden] =
          [id |-> j.id, revision |-> j.revision, running |-> j.running, dismissed |-> hidden,
           total |-> j.total, scanned |-> j.scanned, failures |-> j.failures]
    BY Updates DEF Fits, Fields
  <1>3. QED BY <1>1, <1>2 DEF Fits, Job

(* A failure ends a running check at the limit.                            *)
LEMMA FailedFits ==
  ASSUME NEW j, Fits(j), j.running
  PROVE  LET f == [j EXCEPT !.failures = @ + 1, !.running = j.failures + 1 < MaxFailures]
         IN Fits(f) /\ f.id = j.id
  <1> DEFINE f == [j EXCEPT !.failures = @ + 1, !.running = j.failures + 1 < MaxFailures]
  <1>0. j \in Job
    BY DEF Fits
  <1>f. f = [j EXCEPT !.failures = j.failures + 1, !.running = j.failures + 1 < MaxFailures]
    BY <1>0, Zenon DEF Job
  <1>1. f = [id |-> j.id, revision |-> j.revision, running |-> j.failures + 1 < MaxFailures,
             dismissed |-> j.dismissed, total |-> j.total, scanned |-> j.scanned,
             failures |-> j.failures + 1]
    <2>1. f = Fields(j.id, j.revision, j.failures + 1 < MaxFailures, j.dismissed, j.total,
                     j.scanned, j.failures + 1)
      BY <1>0, <1>f, EndUpdate, Zenon
    <2>2. QED BY <2>1, Zenon DEF Fields
  <1>2. j.failures + 1 \in 0..MaxFailures
    BY TaskAssumption DEF Fits, Job
  <1>3. (j.failures + 1 < MaxFailures) \in BOOLEAN
    OBVIOUS
  <1>4. QED BY <1>1, <1>2, <1>3 DEF Fits, Job

(* The inventory lists what is left to compare.                            *)
LEMMA ListedFits ==
  ASSUME NEW j, Fits(j), j.running, j.total = Unlisted, NEW n \in 0..Entries
  PROVE  LET l == [j EXCEPT !.total = n]
         IN /\ l.id = j.id /\ l.total = n
            /\ n # 0 => Fits(l) /\ l.running
            /\ Fits([Written(l) EXCEPT !.running = FALSE])
            /\ [Written(l) EXCEPT !.running = FALSE].id = j.id
  <1> DEFINE l == [j EXCEPT !.total = n]
             w == [Written(l) EXCEPT !.running = FALSE]
  <1>0. j \in Job /\ n # Unlisted /\ j.scanned = 0
    BY TaskAssumption DEF Unlisted, Fits
  <1>1. l = [id |-> j.id, revision |-> j.revision, running |-> j.running,
             dismissed |-> j.dismissed, total |-> n, scanned |-> j.scanned,
             failures |-> j.failures]
    BY <1>0, Updates DEF Fields
  <1>2. l \in Job
    BY <1>0, <1>1 DEF Job
  <1>3. n # 0 => Fits(l) /\ l.running
    BY <1>0, <1>1, <1>2 DEF Fits
  <1>w. Written(l) =
          [id |-> l.id, revision |-> l.revision + 1, running |-> l.running,
           dismissed |-> l.dismissed, total |-> l.total, scanned |-> l.scanned,
           failures |-> l.failures]
    <2> HIDE DEF l
    <2>1. QED BY <1>2 DEF Written, Job
  <1>4. Written(l) = Fields(j.id, j.revision + 1, j.running, j.dismissed, n, j.scanned,
                            j.failures)
    BY <1>2, <1>w, <1>1 DEF Fields
  <1>5. Written(l) \in Job
    <2>1. j.revision + 1 \in Nat
      BY <1>0 DEF Job
    <2> DEFINE r == j.revision + 1
    <2> HIDE DEF l, r
    <2>2. QED BY <1>0, <1>4, <2>1 DEF Job, Fields, r
  <1>6. w = Fields(j.id, j.revision + 1, FALSE, j.dismissed, n, j.scanned, j.failures)
    <2> DEFINE v == Written(l)
    <2>1. w = Fields(v.id, v.revision, FALSE, v.dismissed, v.total, v.scanned, v.failures)
      BY <1>5, Updates, Zenon
    <2>2. /\ v.id = j.id /\ v.revision = j.revision + 1 /\ v.dismissed = j.dismissed
          /\ v.total = n /\ v.scanned = j.scanned /\ v.failures = j.failures
      <3> HIDE DEF v
      <3>1. v = Fields(j.id, j.revision + 1, j.running, j.dismissed, n, j.scanned, j.failures)
        BY <1>4 DEF v
      <3>2. QED BY <3>1 DEF Fields
    <2>3. QED BY <2>1, <2>2, Zenon
  <1> HIDE DEF w
  <1>7. w \in Job
    <2>1. j.revision + 1 \in Nat
      BY <1>0 DEF Job
    <2>2. QED BY <1>0, <1>6, <2>1 DEF Job, Fields
  <1>8. Fits(w) /\ w.id = j.id
    <2>1. w.id = j.id /\ w.running = FALSE /\ w.total = n /\ w.scanned = 0
      BY <1>0, <1>6 DEF Fields
    <2>2. QED BY <1>0, <1>7, <2>1 DEF Fits, Job
  <1>9. QED BY <1>1, <1>3, <1>8 DEF w

(* One candidate more; the last one ends the check.                        *)
LEMMA ComparedFits ==
  ASSUME NEW j, Fits(j), j.running, j.total # Unlisted
  PROVE  /\ Fits(Compared(j)) /\ Compared(j).id = j.id
         /\ Compared(j).total # Unlisted
  <1> DEFINE u == [j EXCEPT !.scanned = j.scanned + 1, !.failures = 0,
                            !.running = j.scanned + 1 < j.total]
  <1>1. j \in Job /\ j.total \in 0..Entries /\ j.scanned \in 0..Entries
        /\ j.scanned < j.total
    BY DEF Fits, Job
  <1>2. /\ j.scanned + 1 \in 0..Entries /\ j.scanned + 1 <= j.total
        /\ 0 \in 0..MaxFailures /\ 0 < MaxFailures
    BY <1>1, TaskAssumption
  <1>3. (j.scanned + 1 < j.total) \in BOOLEAN
    OBVIOUS
  <1>4. /\ u \in Job /\ u.id = j.id /\ u.total = j.total /\ u.scanned = j.scanned + 1
        /\ u.failures = 0 /\ u.running = (j.scanned + 1 < j.total)
    BY <1>1, <1>2, <1>3 DEF Job
  <1>5. u.running <=> j.scanned + 1 < j.total
    BY <1>4
  <1> HIDE DEF u
  <1>6. Fits(u)
    BY <1>1, <1>2, <1>4, <1>5 DEF Fits, Job
  <1> USE DEF u
  <1>7. Compared(j) = Written(u)
    BY <1>1 DEF Compared, Job
  <1> HIDE DEF u
  <1>8. QED BY <1>1, <1>4, <1>6, <1>7, WrittenFits

(* What a request finds is a record of a check, or none.                   *)
LEMMA PresentFits ==
  ASSUME TaskInv
  PROVE  /\ Fits(Present)
         /\ Present = job \/ Present = NoJob
         /\ Present.id = NoCheck => Present = NoJob
  BY NoJobFits DEF TaskInv, TypeOK, Present

(* The rest of the types of a record that fits                             *)
LEMMA Typed ==
  ASSUME TaskInv, Fits(job'), copy' \in Job, job'.id # NoCheck \/ job' = NoJob
  PROVE  /\ {job', copy'} \subseteq Job
         /\ job'.id = NoCheck => job' = NoJob
         /\ job'.total # Unlisted => job'.scanned <= job'.total
         /\ job'.running /\ job'.total # Unlisted => job'.scanned < job'.total
  BY DEF Fits

-------------------------------------------------------------------------------
(* The requests.                                                           *)
LEMMA PollStep ==
  ASSUME TaskInv, NEW t \in Tab, Poll(t)
  PROVE  TaskInv'
  <1>1. Fits(job') /\ (job' = job \/ job' = NoJob) /\ (job'.id # NoCheck \/ job' = NoJob)
    BY PresentFits DEF Poll
  <1>2. tab' \in [Tab -> Job]
    BY PresentFits DEF Poll, TaskInv, TypeOK, Fits
  <1>3. TypeOK'
    BY <1>1, <1>2, Typed DEF Poll, TaskInv, TypeOK
  <1>4. Working'
    BY DEF Poll, TaskInv, Working
  <1>5. RemovalScheduled'
    BY <1>1, NoJobFits DEF Poll, TaskInv, RemovalScheduled
  <1>6. QED BY <1>1, <1>3, <1>4, <1>5 DEF TaskInv

LEMMA PostArrivesStep ==
  ASSUME TaskInv, NEW c \in Check, PostArrives(c)
  PROVE  TaskInv'
  <1>1. Fits(job') /\ (job' = job \/ job' = NoJob) /\ (job'.id # NoCheck \/ job' = NoJob)
    BY PresentFits DEF PostArrives
  <1>2. Glimpse(Present) \in [id : Check \cup {NoCheck}, running : BOOLEAN]
    BY PresentFits DEF Glimpse, Fits, Job
  <1>3. TypeOK'
    BY <1>1, <1>2, Typed DEF PostArrives, TaskInv, TypeOK
  <1>4. Working'
    BY DEF PostArrives, TaskInv, Working
  <1>5. RemovalScheduled'
    BY <1>1, NoJobFits DEF PostArrives, TaskInv, RemovalScheduled
  <1>6. QED BY <1>1, <1>3, <1>4, <1>5 DEF TaskInv

LEMMA PostAnsweredTypes ==
  ASSUME TaskInv, NEW c \in Check, NEW answer \in {"unsent", "accepted"}, PostAnswered(c, answer)
  PROVE  /\ post' \in [Check -> {"unsent", "body", "accepted"}]
         /\ seen' \in [Check -> [id : Check \cup {NoCheck}, running : BOOLEAN]]
         /\ UNCHANGED <<worker, copy, step, tab>>
  <1>1. Glimpse(NoJob) \in [id : Check \cup {NoCheck}, running : BOOLEAN]
    BY NoJobFits DEF Glimpse, Fits, Job
  <1>2. QED BY <1>1 DEF PostAnswered, TaskInv, TypeOK

LEMMA PostDeclinedStep ==
  ASSUME TaskInv, NEW c \in Check, PostDeclined(c)
  PROVE  TaskInv'
  <1>1. TypeOK'
    BY PostAnsweredTypes DEF PostDeclined, TaskInv, TypeOK
  <1>2. QED BY <1>1, PostAnsweredTypes DEF PostDeclined, TaskInv, Working, RemovalScheduled

LEMMA PostAcceptedStep ==
  ASSUME TaskInv, NEW c \in Check, PostAccepted(c)
  PROVE  TaskInv'
  <1>1. Fits(job') /\ job'.id = c /\ c # NoCheck
    BY NewJobFits, TaskAssumption DEF PostAccepted
  <1>2. alarm' \in {"soon", "expiry"}
    BY DEF PostAccepted, NextAlarm
  <1>3. UNCHANGED <<worker, copy, step, tab>>
    BY PostAnsweredTypes DEF PostAccepted
  <1>4. stopped' \subseteq Check
    <2>1. job.running => job.id \in Check
      BY NoJobFits DEF TaskInv, TypeOK, Job
    <2>2. QED BY <2>1 DEF PostAccepted, TaskInv, TypeOK
  <1>5. TypeOK'
    BY <1>1, <1>2, <1>3, <1>4, PostAnsweredTypes, Typed DEF PostAccepted, TaskInv, TypeOK
  <1>6. QED BY <1>1, <1>2, <1>3, <1>5 DEF TaskInv, Working, RemovalScheduled

LEMMA CancelStep ==
  ASSUME TaskInv, NEW t \in Tab, Cancel(t)
  PROVE  TaskInv'
  <1>1. Present.id # NoCheck /\ Present = job
    BY PresentFits, NoJobFits DEF Cancel
  <1>2. Fits(job') /\ job'.id # NoCheck
    BY <1>1, PresentFits, StoppedFits, WrittenFits DEF Cancel
  <1>3. job.id \in Check
    BY <1>1 DEF TaskInv, TypeOK, Job
  <1>4. tab' \in [Tab -> Job]
    BY <1>2 DEF Cancel, Fits, TaskInv, TypeOK
  <1>5. TypeOK'
    BY <1>2, <1>3, <1>4, Typed DEF Cancel, TaskInv, TypeOK
  <1>6. QED BY <1>2, <1>5 DEF Cancel, TaskInv, Working, RemovalScheduled

LEMMA DismissStep ==
  ASSUME TaskInv, NEW t \in Tab, DismissNotice(t)
  PROVE  TaskInv'
  <1>1. Present.id # NoCheck /\ Present = job
    BY PresentFits, NoJobFits DEF DismissNotice
  <1>2. Fits(job') /\ job'.id = job.id
    BY <1>1, PresentFits, StoppedFits, WrittenFits, ZenonT(30) DEF DismissNotice
  <1>3. TypeOK'
    BY <1>1, <1>2, Typed DEF DismissNotice, TaskInv, TypeOK
  <1>4. QED BY <1>1, <1>2, <1>3 DEF DismissNotice, TaskInv, Working, RemovalScheduled

-------------------------------------------------------------------------------
(* The alarm handler, from await to await.                                 *)
LEMMA AlarmFiresStep ==
  ASSUME TaskInv, AlarmFires
  PROVE  TaskInv'
  <1>1. CASE Present = NoJob
    <2>1. job' = NoJob /\ alarm' = "none" /\ worker' = "idle" /\ copy' = copy
      BY <1>1 DEF AlarmFires
    <2>2. TypeOK'
      BY <2>1, NoJobFits, Typed, TaskAssumption DEF AlarmFires, TaskInv, TypeOK
    <2>3. QED BY <2>1, <2>2, NoJobFits DEF TaskInv, Working, RemovalScheduled
  <1>2. CASE Present # NoJob
    <2>1. Present = job /\ job.id # NoCheck
      BY <1>2, PresentFits DEF TaskInv, TypeOK
    <2>2. job' = job /\ alarm' \in {"soon", "expiry"} /\ step' = 0
      BY <1>2, <2>1 DEF AlarmFires, StoredAlarm, NextAlarm
    <2>3. CASE job.running
      <3>1. copy' = job /\ worker' = IF job.total = Unlisted THEN "inventory" ELSE "entry"
        BY <1>2, <2>3 DEF AlarmFires
      <3>2. TypeOK'
        BY <2>1, <2>2, <3>1, Typed, TaskAssumption DEF AlarmFires, TaskInv, TypeOK
      <3>3. Working'
        BY <2>1, <2>2, <2>3, <3>1, TaskAssumption DEF TaskInv, Working
      <3>4. QED BY <2>2, <3>2, <3>3 DEF TaskInv, RemovalScheduled
    <2>4. CASE ~job.running
      <3>1. copy' = copy /\ worker' = "idle"
        BY <1>2, <2>4 DEF AlarmFires
      <3>2. TypeOK'
        BY <2>1, <2>2, <3>1, Typed, TaskAssumption DEF AlarmFires, TaskInv, TypeOK
      <3>3. QED BY <2>2, <3>1, <3>2 DEF TaskInv, Working, RemovalScheduled
    <2>5. QED BY <2>3, <2>4
  <1>3. QED BY <1>1, <1>2

LEMMA RestTypes ==
  ASSUME Rest
  PROVE  /\ worker' = "idle" /\ copy' \in Job /\ step' \in 0..Batch /\ Working'
  BY NoJobFits, TaskAssumption DEF Rest, Fits, Working

LEMMA GalleryFailsStep ==
  ASSUME TaskInv, GalleryFails
  PROVE  TaskInv'
  <1>1. /\ Fits(job') /\ (job'.id # NoCheck \/ job' = NoJob)
        /\ alarm' \in {"none", "soon", "expiry"}
        /\ job'.id # NoCheck => alarm' # "none"
    <2>1. CASE Superseded
      BY <2>1 DEF GalleryFails, Caught, TaskInv, TypeOK, RemovalScheduled
    <2>2. CASE ~Superseded
      <3>1. job.running /\ job.id # NoCheck
        BY <2>2 DEF Superseded, GalleryFails, TaskInv, Working
      <3>2. Fits(job') /\ job'.id = job.id
        BY <2>2, <3>1, FailedFits, WrittenFits DEF GalleryFails, Caught, TaskInv
      <3>3. QED BY <2>2, <3>1, <3>2 DEF GalleryFails, Caught, NextAlarm
    <2>3. QED BY <2>1, <2>2
  <1>2. TypeOK'
    BY <1>1, RestTypes, Typed DEF GalleryFails, TaskInv, TypeOK
  <1>3. QED BY <1>1, <1>2, RestTypes DEF GalleryFails, TaskInv, RemovalScheduled

LEMMA InventoryStep ==
  ASSUME TaskInv, Inventory
  PROVE  TaskInv'
  <1>1. /\ Fits(copy) /\ copy.running /\ copy.id # NoCheck /\ copy.total = Unlisted
        /\ step < Batch /\ alarm # "none"
    BY DEF Inventory, TaskInv, Working
  <1>2. PICK n \in 0..Entries :
          LET listed == Written([copy EXCEPT !.total = n])
          IN IF n = 0
             THEN /\ job' = Written([listed EXCEPT !.running = FALSE])
                  /\ alarm' = "expiry"
                  /\ Rest
             ELSE /\ job' = listed /\ copy' = listed
                  /\ worker' = "entry"
                  /\ UNCHANGED <<alarm, step>>
    BY DEF Inventory
  <1>3. CASE n = 0
    <2> DEFINE l == [copy EXCEPT !.total = n]
               w == [Written(l) EXCEPT !.running = FALSE]
    <2>0. Fits(w) /\ w.id = copy.id
      BY <1>1, ListedFits
    <2>w. job' = Written(w) /\ alarm' = "expiry" /\ Rest
      BY <1>2, <1>3
    <2> HIDE DEF w
    <2>1. Fits(job') /\ job'.id = copy.id
      BY <2>0, <2>w, WrittenFits
    <2>2. TypeOK'
      BY <1>1, <1>2, <1>3, <2>1, RestTypes, Typed DEF Inventory, TaskInv, TypeOK
    <2>3. QED BY <1>2, <1>3, <2>1, <2>2, RestTypes DEF TaskInv, RemovalScheduled
  <1>4. CASE n # 0
    <2>1. /\ Fits(job') /\ job'.id = copy.id /\ job'.running /\ job'.total = n
          /\ copy' = job' /\ worker' = "entry" /\ alarm' = alarm /\ step' = step
      <3> DEFINE l == [copy EXCEPT !.total = n]
      <3>1. Fits(l) /\ l.id = copy.id /\ l.total = n /\ l.running
        BY <1>1, <1>4, ListedFits
      <3>2. /\ job' = Written(l) /\ copy' = job' /\ worker' = "entry"
            /\ alarm' = alarm /\ step' = step
        BY <1>2, <1>4
      <3> HIDE DEF l
      <3>3. QED BY <3>1, <3>2, WrittenFits
    <2>2. TypeOK'
      <3>1. copy' \in Job
        BY <2>1 DEF Fits
      <3>2. QED BY <1>1, <2>1, <3>1, Typed DEF Inventory, TaskInv, TypeOK
    <2>3. n # Unlisted
      BY TaskAssumption DEF Unlisted
    <2>4. QED BY <1>1, <2>1, <2>2, <2>3 DEF TaskInv, Working, RemovalScheduled
  <1>5. QED BY <1>3, <1>4

LEMMA CheckpointStep ==
  ASSUME TaskInv, NEW c, Fits(c), c.running, c.total # Unlisted, c.id # NoCheck,
         step < Batch, alarm # "none", Checkpoint(c),
         UNCHANGED <<post, seen, age, tab, stopped>>
  PROVE  TaskInv'
  <1>1. Fits(job') /\ job'.id # NoCheck /\ job'.total # Unlisted
    BY ComparedFits DEF Checkpoint
  <1>2. CASE job'.running /\ step + 1 < Batch
    <2>1. copy' = job' /\ step' = step + 1 /\ worker' = "entry" /\ alarm' = alarm
      BY <1>2 DEF Checkpoint
    <2>2. step \in 0..Batch
      BY DEF TaskInv, TypeOK
    <2>3. step' \in 0..Batch /\ step' < Batch
      BY <1>2, <2>1, <2>2, TaskAssumption
    <2>4. copy' \in Job
      BY <1>1, <2>1 DEF Fits
    <2>5. TypeOK'
      BY <1>1, <2>1, <2>3, <2>4, Typed DEF TaskInv, TypeOK
    <2>6. QED BY <1>1, <1>2, <2>1, <2>3, <2>5 DEF TaskInv, Working, RemovalScheduled
  <1>3. CASE ~(job'.running /\ step + 1 < Batch)
    <2>1. alarm' \in {"soon", "expiry"} /\ Rest
      BY <1>3 DEF Checkpoint, NextAlarm
    <2>2. TypeOK'
      BY <1>1, <2>1, RestTypes, Typed DEF TaskInv, TypeOK
    <2>3. QED BY <1>1, <2>1, <2>2, RestTypes DEF TaskInv, RemovalScheduled
  <1>4. QED BY <1>2, <1>3

LEMMA EntryRepliesStep ==
  ASSUME TaskInv, EntryReplies
  PROVE  TaskInv'
  <1>1. /\ Fits(copy) /\ copy.running /\ copy.id # NoCheck /\ copy.total # Unlisted
        /\ step < Batch /\ alarm # "none"
    BY DEF EntryReplies, TaskInv, Working
  <1> DEFINE seenCopy == [copy EXCEPT !.dismissed = job.dismissed]
  <1>2. job.dismissed \in BOOLEAN
    BY DEF TaskInv, TypeOK, Job
  <1>3. /\ Fits(seenCopy) /\ seenCopy.running /\ seenCopy.id # NoCheck
        /\ seenCopy.total # Unlisted
    BY <1>1, <1>2, StoppedFits
  <1> HIDE DEF seenCopy
  <1>4. UNCHANGED <<post, seen, age, tab, stopped>>
    BY DEF EntryReplies
  <1>5. CASE Rest /\ UNCHANGED <<job, alarm>>
    <2>1. TypeOK'
      BY <1>4, <1>5, RestTypes DEF TaskInv, TypeOK
    <2>2. QED BY <1>5, <2>1, RestTypes DEF TaskInv, RemovalScheduled
  <1>6. CASE Checkpoint(seenCopy)
    BY <1>1, <1>3, <1>4, <1>6, CheckpointStep
  <1>7. CASE copy' = seenCopy /\ worker' = "body" /\ UNCHANGED <<job, alarm, step>>
    <2>1. copy' \in Job
      BY <1>3, <1>7 DEF Fits
    <2>2. TypeOK'
      BY <1>4, <1>7, <2>1 DEF TaskInv, TypeOK
    <2>3. QED BY <1>1, <1>3, <1>7, <2>2 DEF TaskInv, Working, RemovalScheduled
  <1>8. QED BY <1>5, <1>6, <1>7 DEF EntryReplies, seenCopy

LEMMA EntryBodyStep ==
  ASSUME TaskInv, EntryBody
  PROVE  TaskInv'
  <1>1. /\ Fits(copy) /\ copy.running /\ copy.id # NoCheck /\ copy.total # Unlisted
        /\ step < Batch /\ alarm # "none"
    BY DEF EntryBody, TaskInv, Working
  <1>2. QED BY <1>1, CheckpointStep DEF EntryBody

LEMMA EvictStep ==
  ASSUME TaskInv, Evict
  PROVE  TaskInv'
  <1>1. Glimpse(NoJob) \in [id : Check \cup {NoCheck}, running : BOOLEAN]
    BY NoJobFits DEF Glimpse, Fits, Job
  <1>2. TypeOK'
    BY <1>1, RestTypes DEF Evict, TaskInv, TypeOK
  <1>3. QED BY <1>2, RestTypes DEF Evict, TaskInv, RemovalScheduled

LEMMA TimeStep ==
  ASSUME TaskInv, NEW c \in Check, Settles(c) \/ Expires(c)
  PROVE  TaskInv'
  <1>1. TypeOK'
    BY DEF Settles, Expires, TaskInv, TypeOK
  <1>2. QED BY <1>1 DEF Settles, Expires, TaskInv, Working, RemovalScheduled

-------------------------------------------------------------------------------
(* The initial state, and every step.                                      *)
LEMMA TaskInit == Init => TaskInv
  <1>1. Glimpse(NoJob) \in [id : Check \cup {NoCheck}, running : BOOLEAN]
    BY NoJobFits DEF Glimpse, Fits, Job
  <1>2. NoJob.scanned = 0 /\ NoJob.total = Unlisted /\ NoJob \in Job
    BY NoJobFits DEF NoJob, Fits
  <1>3. Init => TypeOK
    BY <1>1, <1>2, NoJobFits, TaskAssumption DEF Init, TypeOK
  <1>4. QED BY <1>3, NoJobFits DEF Init, TaskInv, Working, RemovalScheduled

LEMMA TaskNext == TaskInv /\ [Next]_vars => TaskInv'
  <1>1. SUFFICES ASSUME TaskInv, [Next]_vars PROVE TaskInv'
    OBVIOUS
  <1>2. ASSUME NEW t \in Tab, Poll(t) \/ Cancel(t) \/ DismissNotice(t) PROVE TaskInv'
    BY <1>1, <1>2, PollStep, CancelStep, DismissStep
  <1>3. ASSUME NEW c \in Check,
               \/ PostArrives(c) \/ PostDeclined(c) \/ PostAccepted(c)
               \/ Settles(c) \/ Expires(c)
        PROVE  TaskInv'
    BY <1>1, <1>3, PostArrivesStep, PostDeclinedStep, PostAcceptedStep, TimeStep
  <1>4. CASE AlarmFires \/ Inventory \/ EntryReplies \/ EntryBody \/ GalleryFails
    BY <1>1, <1>4, AlarmFiresStep, InventoryStep, EntryRepliesStep, EntryBodyStep,
       GalleryFailsStep
  <1>5. CASE Evict
    BY <1>1, <1>5, EvictStep
  <1>6. CASE UNCHANGED vars
    BY <1>1, <1>6 DEF vars, TaskInv, TypeOK, Working, RemovalScheduled
  <1>7. QED BY <1>1, <1>2, <1>3, <1>4, <1>5, <1>6 DEF Next

(* The invariant of every reachable state.                                 *)
THEOREM TaskSafe == Spec => []TaskInv
  BY TaskInit, TaskNext, PTL DEF Spec

(* Types: in particular a check never scans beyond its inventory, and a    *)
(* running one always has a candidate left.                                *)
THEOREM TypeOKHolds == Spec => []TypeOK
  <1>1. TaskInv => TypeOK
    BY DEF TaskInv
  <1>2. QED BY <1>1, TaskSafe, PTL

(* The private drawing of every check has an alarm that removes it, on     *)
(* each path on which the check ends, fails, is cancelled or replaced.     *)
THEOREM RemovalScheduledHolds == Spec => []RemovalScheduled
  <1>1. TaskInv => RemovalScheduled
    BY DEF TaskInv
  <1>2. QED BY <1>1, TaskSafe, PTL
===============================================================================
