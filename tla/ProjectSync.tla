------------------------------- MODULE ProjectSync -------------------------------
(***************************************************************************)
(* Replication of one account's Cloud Projects between the two regions:    *)
(* the journal of a region (worker/project-sync-journal.ts) under the      *)
(* operations of its users (regional-projects.ts), the grants of the       *)
(* creation quota (project-quota.ts) and the pump that pulls and delivers  *)
(* one event at a time (project-sync.ts).                                  *)
(*                                                                         *)
(* A store runs an event up to its next await; the awaits of a reconcile   *)
(* hash a payload while other events run.  What a Project contains is the  *)
(* head that brought it.  Hashes are the heads: a payload holds its own.   *)
(***************************************************************************)
EXTENDS Integers, Sequences, FiniteSets

CONSTANTS
  Cn, Overseas, \* the regions; overseas owns the quota
  None,
  Project,      \* identities; a creation's key is the identity
  Creates,      \* Creates[r]: the keys drawn by the pages of region r
  Legacy,       \* Projects that overseas had before replication
  Pumping,      \* regions with a peer address
  Pulling,      \* regions that also pull (PROJECT_SYNC_PULL)
  Limit,        \* CLOUD_PROJECT_LIMIT
  MaxEvents,    \* bound: events a region issues
  Straying,     \* bound: the kinds of request, one at a time, that travel on
                \* when nobody waits for them any longer
  MaxRestores,  \* bound: restores from a backup
  BackedUp,     \* bound: regions of which a copy is taken
  Quiet         \* a restore waits until no request is under way

Region == {Cn, Overseas}
Peer(r) == IF r = Cn THEN Overseas ELSE Cn

ASSUME SyncAssumption ==
  /\ Cn # Overseas /\ None \notin Region \cup Project
  /\ Creates \in [Region -> SUBSET Project]
  /\ Creates[Cn] \cap Creates[Overseas] = {}
  /\ Legacy \subseteq Project
  /\ Legacy \cap (Creates[Cn] \cup Creates[Overseas]) = {}
  /\ Pulling \subseteq Pumping /\ Pumping \subseteq Region
  /\ {Limit, MaxEvents, MaxRestores} \subseteq Nat
  /\ Straying \subseteq {"pull", "post"}
  /\ BackedUp \subseteq Region /\ Quiet \in BOOLEAN

VARIABLES
  outbox,   \* the changes a region issued; an event's sequence is its place
  inbox,    \* the changes it received, in order, with their receipts
  acked,    \* what it knows its peer to have
  floor,    \* the furthest receipt a peer ever showed it
  fenced,   \* it may not issue (only in memory)
  active,   \* the heads of its version graphs
  current,  \* the head each Project shows
  rows,     \* Projects on its shelf
  quota,    \* reservations: a token, or 0
  era,      \* how often it was restored
  pump,     \* where its tick is
  net,      \* requests on their way to the peer
  jobs,     \* pull requests whose reconcile waits for a hash
  grants,   \* answers of the quota authority on their way to China
  backup    \* a copy of one region's storage

storage == <<outbox, inbox, acked, floor, active, current, rows, quota>>
vars == <<storage, fenced, era, pump, net, jobs, grants, backup>>

Version == Region \X (Nat \ {0}) \X Nat
NoHead == <<None, 0, 0>>
Change == [head : Version, project : Project, kind : {"save", "delete", "quota"},
           parents : SUBSET Version, token : Nat]

Entries(s) == {s[i] : i \in DOMAIN s}
Last(s) == s[Len(s)]
Greater(a, b) == IF a > b THEN a ELSE b

-------------------------------------------------------------------------------
(* The version graph: every change of a Project issued or received.        *)
Nodes(r) == {c \in Entries(outbox[r]) \cup Entries(inbox[r]) : c.kind # "quota"}
NodesOf(r, p) == {c \in Nodes(r) : c.project = p}
HeadsOf(r, p) == {c.head : c \in NodesOf(r, p)} \cap active[r]
Deleted(r, p) == \E c \in NodesOf(r, p) : c.kind = "delete"

(* What a region says of itself to its peer.                               *)
Status(r) == [received |-> Len(inbox[r]),
              hash |-> IF inbox[r] = <<>> THEN NoHead ELSE Last(inbox[r]).head]
NoStatus == [received |-> 0, hash |-> NoHead]

NoEvent == [sequence |-> 0, change |-> None]
EventAfter(r, n) ==
  IF n < Len(outbox[r])
  THEN [sequence |-> n + 1, change |-> outbox[r][n + 1]] ELSE NoEvent

Idle == [pc |-> "idle", status |-> NoStatus, event |-> NoEvent,
         verdict |-> FALSE, held |-> 0]

(* A tick that met a failure ends in "retry", any other in "idle".         *)
Retry == [Idle EXCEPT !.pc = "retry"]
Resting(r) == pump[r] \in {Idle, Retry}

Init ==
  /\ outbox = [r \in Region |-> <<>>] /\ inbox = [r \in Region |-> <<>>]
  /\ acked = [r \in Region |-> 0]
  /\ floor = [r \in Region |-> NoStatus]
  /\ fenced = [r \in Region |-> FALSE]
  /\ active = [r \in Region |-> {}]
  /\ current = [r \in Region |-> [p \in Project |-> NoHead]]
  /\ rows = [r \in Region |-> IF r = Overseas THEN Legacy ELSE {}]
  /\ quota = [r \in Region |-> [p \in Project |-> 0]]
  /\ era = [r \in Region |-> 0]
  /\ pump = [r \in Region |-> Idle]
  /\ net = {} /\ jobs = {} /\ grants = {}
  /\ backup = None

-------------------------------------------------------------------------------
(* A broken variant of Issued: the sequence is read before it is counted.  *)
IssuedTooEarly(r, p, kind, token) ==
  [head |-> <<r, Len(outbox[r]), era[r]>>, project |-> p, kind |-> kind,
   parents |-> IF kind = "quota" THEN {} ELSE HeadsOf(r, p), token |-> token]

(* record(): a fenced store throws, and the operation is rolled back.  The *)
(* new node has all current heads for parents, and replaces them.          *)
Issued(r, p, kind, token) ==
  [head |-> <<r, Len(outbox[r]) + 1, era[r]>>, project |-> p, kind |-> kind,
   parents |-> IF kind = "quota" THEN {} ELSE HeadsOf(r, p), token |-> token]

CanIssue(r) == ~fenced[r] /\ Len(outbox[r]) < MaxEvents

Record(r, p, kind) ==
  LET c == Issued(r, p, kind, 0) IN
  /\ CanIssue(r)
  /\ outbox' = [outbox EXCEPT ![r] = Append(@, c)]
  /\ active' = [active EXCEPT ![r] = (@ \ c.parents) \cup {c.head}]
  /\ current' = [current EXCEPT ![r][p] = c.head]

UsersUnchanged == UNCHANGED <<inbox, acked, floor, fenced, era, pump, net,
                              jobs, grants, backup>>

Reserved(r) == {p \in Project : quota[r][p] # 0}

(* A broken variant of Room: reservations not yet used are not counted.    *)
RoomForRows(r) == Cardinality(rows[r]) < Limit

(* The quota counts Projects and reservations, each identity once.         *)
Room(r) == Cardinality(rows[r] \cup Reserved(r)) < Limit

(* A creation: overseas reserves as it creates, China needs the grant.     *)
Create(r, p) ==
  /\ p \in Creates[r] /\ NodesOf(r, p) = {}
  /\ IF r = Overseas
     THEN /\ quota[r][p] # 0 \/ Room(r)
          /\ quota' = [quota EXCEPT ![r][p] = IF @ # 0 THEN @ ELSE 1 + era[r]]
     ELSE quota[r][p] # 0 /\ UNCHANGED quota
  /\ Cardinality(rows[r]) < Limit
  /\ rows' = [rows EXCEPT ![r] = @ \cup {p}]
  /\ Record(r, p, "save")
  /\ UsersUnchanged

(* The first capture of a Project that is older than replication, by a     *)
(* seed call or before its first operation.                                *)
Capture(r, p) ==
  /\ p \in rows[r] /\ current[r][p] = NoHead
  /\ Record(r, p, "save")
  /\ UNCHANGED <<rows, quota>> /\ UsersUnchanged

(* A save, favorite or publication that changes the one version there is;  *)
(* the save names it by its token.  The same content again changes nothing.*)
Save(r, p, token) ==
  /\ token \in HeadsOf(r, p) /\ HeadsOf(r, p) = {token}
  /\ ~Deleted(r, p) /\ p \in rows[r]
  /\ Record(r, p, "save")
  /\ UNCHANGED <<rows, quota>> /\ UsersUnchanged

(* With several heads, a save must name exactly them.                      *)
Resolve(r, p, named) ==
  /\ named = HeadsOf(r, p) /\ Cardinality(named) > 1
  /\ ~Deleted(r, p) /\ p \in rows[r]
  /\ Record(r, p, "save")
  /\ UNCHANGED <<rows, quota>> /\ UsersUnchanged

Delete(r, p) ==
  /\ HeadsOf(r, p) # {} /\ ~Deleted(r, p) /\ p \in rows[r]
  /\ rows' = [rows EXCEPT ![r] = @ \ {p}]
  /\ quota' = [quota EXCEPT ![r][p] = 0]
  /\ Record(r, p, "delete")
  /\ UsersUnchanged

(* The authority answers a request for a reservation with its event, which *)
(* it issues the first time.                                               *)
Granted(p) == {i \in DOMAIN outbox[Overseas] :
                 /\ outbox[Overseas][i].kind = "quota"
                 /\ outbox[Overseas][i].project = p}

Grant(p) ==
  LET token == IF quota[Overseas][p] # 0 THEN quota[Overseas][p]
               ELSE 1 + era[Overseas]
      c == Issued(Overseas, p, "quota", token) IN
  /\ p \in Creates[Cn] /\ ~Deleted(Overseas, p) /\ ~fenced[Overseas]
  /\ quota[Overseas][p] # 0 \/ Room(Overseas)
  /\ quota' = [quota EXCEPT ![Overseas][p] = token]
  /\ IF Granted(p) # {}
     THEN /\ grants' = grants \cup {[sequence |-> i, change |-> outbox[Overseas][i]]
                                      : i \in Granted(p)}
          /\ UNCHANGED outbox
     ELSE /\ CanIssue(Overseas)
          /\ outbox' = [outbox EXCEPT ![Overseas] = Append(@, c)]
          /\ grants' = grants \cup {[sequence |-> Len(outbox[Overseas]) + 1,
                                     change |-> c]}
  /\ UNCHANGED <<inbox, acked, floor, active, current, rows, fenced, era, pump,
                 net, jobs, backup>>

-------------------------------------------------------------------------------
(* receive(): what of an event a region takes, in order, once.             *)
Repeated(r, e) ==
  /\ e.sequence \in DOMAIN inbox[r]
  /\ inbox[r][e.sequence].head = e.change.head

(* A broken variant of Acceptable: only what builds on a head is taken.    *)
FastForward(r, e) ==
  LET c == e.change IN
  /\ e.sequence = Len(inbox[r]) + 1
  /\ c.head[1] # r
  /\ IF c.kind = "quota"
     THEN r = Cn /\ quota[r][c.project] \in {0, c.token}
     ELSE /\ r = Overseas /\ c.parents = {} => quota[r][c.project] # 0
          /\ c.parents = HeadsOf(r, c.project)

Acceptable(r, e) ==
  LET c == e.change IN
  /\ e.sequence = Len(inbox[r]) + 1
  /\ c.head[1] # r
  /\ IF c.kind = "quota"
     THEN r = Cn /\ quota[r][c.project] \in {0, c.token}
     ELSE /\ r = Overseas /\ c.parents = {} => quota[r][c.project] # 0
          /\ c.parents = {} => NodesOf(r, c.project) = {}
          /\ c.parents \subseteq {n.head : n \in NodesOf(r, c.project)}

(* materialize(): a deleted Project leaves the shelf whatever comes; with  *)
(* two heads the shelf keeps what it shows.                                *)
Tombstoned(r, c) == c.kind = "delete" \/ Deleted(r, c.project)

(* Broken variants of HeadsWith: the last change to arrive wins; parents   *)
(* stay heads.                                                             *)
LastHeadWins(r, c) == (active[r] \ HeadsOf(r, c.project)) \cup {c.head}
ParentsStay(r, c) == active[r] \cup {c.head}

HeadsWith(r, c) == (active[r] \ c.parents) \cup {c.head}
InConflict(r, c) == (HeadsOf(r, c.project) \ c.parents) # {}

(* A broken variant of ShelfAfter: a conflict keeps a deleted Project.     *)
ShelfOfConflict(r, c) ==
  IF InConflict(r, c) THEN rows[r]
  ELSE IF Tombstoned(r, c) THEN rows[r] \ {c.project}
  ELSE rows[r] \cup {c.project}

ShelfAfter(r, c) ==
  IF Tombstoned(r, c) THEN rows[r] \ {c.project}
  ELSE IF InConflict(r, c) THEN rows[r] ELSE rows[r] \cup {c.project}
ShownAfter(r, c) ==
  IF InConflict(r, c) /\ ~Tombstoned(r, c) THEN current[r][c.project] ELSE c.head

Taken(r, e) == Acceptable(r, e) \/ Repeated(r, e)

(* A grant is kept, and a reservation released with its deleted Project.   *)
QuotaAfter(r, e) ==
  LET p == e.change.project IN
  IF Taken(r, e) /\ Tombstoned(r, e.change) THEN [quota[r] EXCEPT ![p] = 0]
  ELSE IF Acceptable(r, e) /\ e.change.kind = "quota"
       THEN [quota[r] EXCEPT ![p] = e.change.token] ELSE quota[r]

Receive(r, e) ==
  LET c == e.change
      new == Acceptable(r, e)
      node == new /\ c.kind # "quota" IN
  /\ inbox' = IF new THEN [inbox EXCEPT ![r] = Append(@, c)] ELSE inbox
  /\ active' = IF node THEN [active EXCEPT ![r] = HeadsWith(r, c)] ELSE active
  /\ rows' = IF node THEN [rows EXCEPT ![r] = ShelfAfter(r, c)] ELSE rows
  /\ current' = IF node THEN [current EXCEPT ![r][c.project] = ShownAfter(r, c)]
                        ELSE current
  /\ quota' = [quota EXCEPT ![r] = QuotaAfter(r, e)]

GrantArrives(e) ==
  /\ e \in grants
  /\ grants' = grants \ {e}
  /\ Receive(Cn, e)
  /\ UNCHANGED <<outbox, acked, floor, fenced, era, pump, net, jobs, backup>>

-------------------------------------------------------------------------------
(* reconcile(): the receipts a peer shows are remembered, and the store is *)
(* open if its outbox holds what the peer has, now and at the furthest.    *)
FloorAfter(r, s) == IF s.received > floor[r].received THEN s ELSE floor[r]

(* A broken variant of Holds: an event that is not there is not compared.  *)
HoldsIfThere(r, s) ==
  s.received \in DOMAIN outbox[r] => outbox[r][s.received].head = s.hash

Holds(r, s) ==
  s.received > 0 => /\ s.received <= Len(outbox[r])
                    /\ outbox[r][s.received].head = s.hash

Valid(r, s) == Holds(r, s) /\ Holds(r, FloorAfter(r, s))

(* A hash is awaited when the peer's receipt is within the outbox and the  *)
(* furthest one is.                                                        *)
Awaits(r, s) == /\ s.received <= Len(outbox[r])
                /\ FloorAfter(r, s).received \in 1..Len(outbox[r])

Becomes(r, step) == pump' = [pump EXCEPT ![r] = step]

(* Of a pump's requests none is waited for any longer.                     *)
Abandoned(r) == {IF m.from = r THEN [m EXCEPT !.live = FALSE] ELSE m : m \in net}
Forgotten(r) == {IF j.from = r THEN [j EXCEPT !.live = FALSE] ELSE j : j \in jobs}

PullSend(r) ==
  /\ r \in Pulling /\ Resting(r)
  /\ net' = net \cup {[kind |-> "pull", from |-> r, status |-> Status(r),
                       event |-> NoEvent, live |-> TRUE]}
  /\ Becomes(r, [Idle EXCEPT !.pc = "pull"])
  /\ UNCHANGED <<storage, fenced, era, jobs, grants, backup>>

(* The peer's answer: refused if it is fenced by what it was shown, else   *)
(* acknowledged and answered with its next event.                          *)
PullAnswered(m, verdict) ==
  LET o == Peer(m.from) IN
  /\ fenced' = [fenced EXCEPT ![o] = ~verdict]
  /\ acked' = [acked EXCEPT ![o] = IF verdict THEN Greater(@, m.status.received)
                                   ELSE @]
  /\ IF m.live
     THEN Becomes(m.from, IF verdict
                          THEN [Idle EXCEPT !.pc = "pulled", !.status = Status(o),
                                  !.event = EventAfter(o, m.status.received)]
                          ELSE Idle)
     ELSE UNCHANGED pump

PullArrives(m) ==
  LET o == Peer(m.from) IN
  /\ m \in net /\ m.kind = "pull"
  /\ net' = net \ {m}
  /\ floor' = [floor EXCEPT ![o] = FloorAfter(o, m.status)]
  /\ IF Awaits(o, m.status)
     THEN /\ jobs' = jobs \cup {[from |-> m.from, status |-> m.status, live |-> m.live,
                                 verdict |-> Valid(o, m.status)]}
          /\ UNCHANGED <<fenced, acked, pump>>
     ELSE /\ PullAnswered(m, Valid(o, m.status))
          /\ UNCHANGED jobs
  /\ UNCHANGED <<outbox, inbox, active, current, rows, quota, era, grants, backup>>

PullHashed(j) ==
  /\ j \in jobs
  /\ jobs' = jobs \ {j}
  /\ PullAnswered(j, j.verdict)
  /\ UNCHANGED <<outbox, inbox, floor, active, current, rows, quota, era, net,
                 grants, backup>>

(* The pump reconciles its own store, after a pull or before a delivery,   *)
(* and goes on if the store is open.                                       *)
AfterVerdict(from) == IF from = "pulled" THEN "take" ELSE "export"

Reconcile(r) ==
  LET s == pump[r].status
      go == [pump[r] EXCEPT !.pc = AfterVerdict(@)] IN
  /\ pump[r].pc \in {"pulled", "status"}
  /\ floor' = [floor EXCEPT ![r] = FloorAfter(r, s)]
  /\ IF Awaits(r, s)
     THEN /\ Becomes(r, [go EXCEPT !.pc = IF @ = "take" THEN "take-hash"
                                          ELSE "export-hash",
                                   !.verdict = Valid(r, s)])
          /\ UNCHANGED fenced
     ELSE /\ fenced' = [fenced EXCEPT ![r] = ~Valid(r, s)]
          /\ Becomes(r, IF Valid(r, s) THEN go ELSE Idle)
  /\ UNCHANGED <<outbox, inbox, acked, active, current, rows, quota, era, net,
                 jobs, grants, backup>>

Hashed(r) ==
  /\ pump[r].pc \in {"take-hash", "export-hash"}
  /\ fenced' = [fenced EXCEPT ![r] = ~pump[r].verdict]
  /\ Becomes(r, IF pump[r].verdict
                THEN [pump[r] EXCEPT !.pc = IF @ = "take-hash" THEN "take"
                                            ELSE "export", !.verdict = FALSE]
                ELSE Idle)
  /\ UNCHANGED <<storage, era, net, jobs, grants, backup>>

(* The pulled event is received; a refusal blocks the tick.                *)
Take(r) ==
  LET e == pump[r].event IN
  /\ pump[r].pc = "take"
  /\ IF e = NoEvent THEN UNCHANGED <<inbox, active, current, rows, quota>>
                    ELSE Receive(r, e)
  /\ Becomes(r, IF e = NoEvent \/ Taken(r, e) THEN [Idle EXCEPT !.pc = "deliver"]
                ELSE Idle)
  /\ UNCHANGED <<outbox, acked, floor, fenced, era, net, jobs, grants, backup>>

ReadStatus(r) ==
  /\ r \in Pumping
  /\ IF r \in Pulling THEN pump[r].pc = "deliver" ELSE Resting(r)
  /\ Becomes(r, [Idle EXCEPT !.pc = "status", !.status = Status(Peer(r))])
  /\ UNCHANGED <<storage, fenced, era, net, jobs, grants, backup>>

(* The next event is posted, or all is acknowledged.                       *)
Export(r) ==
  LET after == pump[r].status.received
      e == EventAfter(r, after) IN
  /\ pump[r].pc = "export"
  /\ IF e # NoEvent
     THEN /\ net' = net \cup {[kind |-> "post", from |-> r, status |-> NoStatus,
                               event |-> e, live |-> TRUE]}
          /\ Becomes(r, [Idle EXCEPT !.pc = "post", !.event = e])
          /\ UNCHANGED acked
     ELSE /\ acked' = [acked EXCEPT ![r] = IF after <= Len(outbox[r])
                                           THEN Greater(@, after) ELSE @]
          /\ Becomes(r, Idle)
          /\ UNCHANGED net
  /\ UNCHANGED <<outbox, inbox, floor, active, current, rows, quota, fenced, era,
                 jobs, grants, backup>>

PostArrives(m) ==
  LET o == Peer(m.from) IN
  /\ m \in net /\ m.kind = "post"
  /\ net' = net \ {m}
  /\ Receive(o, m.event)
  /\ IF m.live
     THEN Becomes(m.from, IF Taken(o, m.event)
                          THEN [pump[m.from] EXCEPT !.pc = "posted",
                                  !.held = Greater(Len(inbox[o]), m.event.sequence)]
                          ELSE Idle)
     ELSE UNCHANGED pump
  /\ UNCHANGED <<outbox, acked, floor, fenced, era, jobs, grants, backup>>

Acknowledge(r) ==
  /\ pump[r].pc = "posted"
  /\ acked' = [acked EXCEPT ![r] = IF pump[r].held <= Len(outbox[r])
                                   THEN Greater(@, pump[r].held) ELSE @]
  /\ Becomes(r, Idle)
  /\ UNCHANGED <<outbox, inbox, floor, active, current, rows, quota, fenced, era,
                 net, jobs, grants, backup>>

(* A timeout or a failure ends the tick: its request or the reply is lost, *)
(* or the request is still on its way.                                     *)
GiveUp(r) ==
  /\ pump[r].pc \in {"pull", "pulled", "take", "status", "post", "posted"}
  /\ Becomes(r, Retry)
  /\ \/ net' = {m \in net : m.from # r \/ ~m.live}
     \/ /\ pump[r].pc \in Straying /\ \A m \in net : m.live
        /\ net' = Abandoned(r)
  /\ jobs' = Forgotten(r)
  /\ UNCHANGED <<storage, fenced, era, grants, backup>>

LoseGrant(e) ==
  /\ e \in grants
  /\ grants' = grants \ {e}
  /\ UNCHANGED <<storage, fenced, era, pump, net, jobs, backup>>

-------------------------------------------------------------------------------
(* A broken variant of Reopened: a store trusts what it finds.             *)
ReopenedAtOnce(r) == [fenced EXCEPT ![r] = FALSE]

(* A store that comes back is fenced: its storage may be an older copy.    *)
Reopened(r) == [fenced EXCEPT ![r] = TRUE]

(* Calls into the store fail with it: its own pump's and its peer's pull.  *)
CutOff(r) ==
  [q \in Region |->
     IF \/ q = r /\ pump[q].pc \in {"take-hash", "export-hash"}
        \/ q # r /\ pump[q].pc = "pull" /\ \E j \in jobs : j.from = q /\ j.live
     THEN Retry ELSE pump[q]]

Restart(r) ==
  /\ fenced' = Reopened(r)
  /\ pump' = CutOff(r)
  /\ jobs' = {j \in jobs : j.from = r}
  /\ UNCHANGED <<storage, era, net, grants, backup>>

Backup(r) ==
  /\ r \in BackedUp /\ backup = None
  /\ era[Cn] + era[Overseas] < MaxRestores
  /\ backup' = [of |-> r, outbox |-> Len(outbox[r]), inbox |-> Len(inbox[r]),
                acked |-> acked[r], floor |-> floor[r], active |-> active[r],
                current |-> current[r], rows |-> rows[r], quota |-> quota[r]]
  /\ UNCHANGED <<storage, fenced, era, pump, net, jobs, grants>>

NothingUnderWay ==
  /\ net = {} /\ jobs = {} /\ grants = {}
  /\ \A r \in Region : Resting(r)

Restore(r) ==
  /\ backup # None /\ backup.of = r
  /\ Quiet => NothingUnderWay
  /\ outbox' = [outbox EXCEPT ![r] = SubSeq(@, 1, backup.outbox)]
  /\ inbox' = [inbox EXCEPT ![r] = SubSeq(@, 1, backup.inbox)]
  /\ acked' = [acked EXCEPT ![r] = backup.acked]
  /\ floor' = [floor EXCEPT ![r] = backup.floor]
  /\ active' = [active EXCEPT ![r] = backup.active]
  /\ current' = [current EXCEPT ![r] = backup.current]
  /\ rows' = [rows EXCEPT ![r] = backup.rows]
  /\ quota' = [quota EXCEPT ![r] = backup.quota]
  /\ fenced' = Reopened(r)
  /\ era' = [era EXCEPT ![r] = @ + 1]
  /\ backup' = None
  /\ pump' = CutOff(r)
  /\ jobs' = {j \in jobs : j.from = r}
  /\ UNCHANGED <<net, grants>>

-------------------------------------------------------------------------------
Users(r) ==
  \E p \in Project :
    \/ Create(r, p) \/ Capture(r, p) \/ Delete(r, p)
    \/ \E token \in active[r] : Save(r, p, token)
    \/ \E named \in {HeadsOf(r, p)} : Resolve(r, p, named)

Tick(r) ==
  \/ PullSend(r) \/ Reconcile(r) \/ Hashed(r) \/ Take(r)
  \/ ReadStatus(r) \/ Export(r) \/ Acknowledge(r)

Arrives == \E m \in net : PullArrives(m) \/ PostArrives(m)

Next ==
  \/ \E r \in Region : Users(r) \/ Tick(r) \/ GiveUp(r)
                       \/ Restart(r) \/ Backup(r) \/ Restore(r)
  \/ \E p \in Project : Grant(p)
  \/ \E e \in grants : GrantArrives(e) \/ LoseGrant(e)
  \/ Arrives
  \/ \E j \in jobs : PullHashed(j)

Spec == Init /\ [][Next]_vars

(* Ticks go on, requests arrive, hashes are computed; users do as they     *)
(* like, and so do failures.                                               *)
FairSpec ==
  /\ Spec
  /\ \A r \in Pumping : WF_vars(Tick(r))
  /\ WF_vars(Arrives)
  /\ WF_vars(\E j \in jobs : PullHashed(j))

Failure(r) == GiveUp(r) \/ Restart(r)

-------------------------------------------------------------------------------
TypeOK ==
  /\ outbox \in [Region -> Seq(Change)] /\ inbox \in [Region -> Seq(Change)]
  /\ acked \in [Region -> Nat] /\ era \in [Region -> Nat]
  /\ fenced \in [Region -> BOOLEAN]
  /\ active \in [Region -> SUBSET Version]
  /\ current \in [Region -> [Project -> Version \cup {NoHead}]]
  /\ rows \in [Region -> SUBSET Project]
  /\ quota \in [Region -> [Project -> Nat]]

(* The evidence of a lost event is not erased: a region that was shown a   *)
(* receipt beyond its own outbox stays fenced.                             *)
EvidenceFences ==
  \A r \in Region : floor[r].received > Len(outbox[r]) => fenced[r]

(* Heads are the versions nobody built on, so no accepted save vanishes:   *)
(* it is a head or a head builds on it, in every region that has it.       *)
HeadsAreLeaves ==
  \A r \in Region, p \in Project :
    HeadsOf(r, p) = {c.head : c \in NodesOf(r, p)}
                      \ UNION {c.parents : c \in NodesOf(r, p)}

(* What the shelf shows: nothing of a deleted Project, the head when there *)
(* is one, and one of them as long as there are two.                       *)
ShelfIsTrue ==
  \A r \in Region, p \in Project :
    /\ Deleted(r, p) => p \notin rows[r]
    /\ NodesOf(r, p) # {} /\ ~Deleted(r, p)
         => p \in rows[r] /\ current[r][p] \in HeadsOf(r, p)

(* Regions that have all of each other agree on heads and deletions.       *)
Uncaptured == {p \in rows[Overseas] : current[Overseas][p] = NoHead}
CaughtUp == \A r \in Region : inbox[Peer(r)] = outbox[r]
Converged ==
  CaughtUp => /\ active[Cn] = active[Overseas]
              /\ rows[Cn] = rows[Overseas] \ Uncaptured

(* The limit holds over both regions, whoever creates and deletes where.   *)
QuotaHolds ==
  /\ Cardinality(rows[Overseas] \cup Reserved(Overseas)) <= Limit
  /\ Cardinality(rows[Cn]) <= Limit

(* When failures end and users rest, the regions catch up with each other: *)
(* no fence, lost reply, abandoned request or conflict holds a stream up.  *)
RegionsCatchUp ==
  <>[][outbox' = outbox /\ \A r \in Region : ~Failure(r)]_vars => <>[]CaughtUp

(* Both directions are streams as ReplicatedStream specifies them.         *)
FromCn == INSTANCE ReplicatedStream
  WITH issued <- outbox[Cn], held <- inbox[Overseas], open <- ~fenced[Cn]
FromOverseas == INSTANCE ReplicatedStream
  WITH issued <- outbox[Overseas], held <- inbox[Cn], open <- ~fenced[Overseas]

KeepsStreams == FromCn!Spec /\ FromOverseas!Spec
===============================================================================
