-------------------------- MODULE ProjectSync_proofs --------------------------
(***************************************************************************)
(* Proofs about the replication of Cloud Projects, for all Projects, keys, *)
(* limits and bounds.  With restores from backups, whatever is under way:  *)
(* the version graph of a region (Graph) is acyclic and the active         *)
(* versions are exactly its leaves, and every event under way is named by  *)
(* its place in the stream of its region (WireOk).  Without restores: an   *)
(* event under way still is in the outbox it came from (Genuine), a region *)
(* has a prefix of its peer's outbox, and of the versions of a Project     *)
(* that came from the peer only the last can be a head (Superseded), so    *)
(* that what a conflict leaves on the shelf is a head.                     *)
(* The quota rests on what the authority has or promised (Charged), and on *)
(* a limit kept at every earlier length of its outbox (Budget), because    *)
(* China has seen some prefix of it.  Restores that wait until nothing is  *)
(* under way: no verdict or receipt under way is better than what the      *)
(* region has seen already (Within, Beyond), so evidence keeps it fenced,  *)
(* and what a region issued and what its peer holds of it never differ     *)
(* (Consistent), so both directions are streams.                           *)
(***************************************************************************)
EXTENDS ProjectSync, FiniteSetTheorems, SequenceTheorems, TLAPS

(* An event of the region r is named by its place in the stream.           *)
Event(r) == {e \in [sequence : Nat \ {0}, change : Change] :
               e.change.head[1] = r /\ e.change.head[2] = e.sequence}
Receipt == [received : Nat, hash : Version \cup {NoHead}]

Pc == {"idle", "retry", "pull", "pulled", "take-hash", "take", "deliver", "status",
       "export-hash", "export", "post", "posted"}
Step == [pc : Pc, status : Receipt,
         event : Event(Cn) \cup Event(Overseas) \cup {NoEvent},
         verdict : BOOLEAN, held : Nat]

GoodStep(r, s) ==
  /\ s \in Step
  /\ s.pc \in {"pulled", "take-hash", "take"} => s.event \in Event(Peer(r)) \cup {NoEvent}

GoodMessage(m) ==
  /\ m \in [kind : {"pull", "post"}, from : Region, status : Receipt,
            event : Event(m.from) \cup {NoEvent}, live : BOOLEAN]
  /\ m.kind = "post" => m.event \in Event(m.from)

Job == [from : Region, status : Receipt, live : BOOLEAN, verdict : BOOLEAN]

WireOk ==
  /\ pump \in [Region -> Step]
  /\ \A r \in Region : GoodStep(r, pump[r])
  /\ \A m \in net : GoodMessage(m)
  /\ jobs \subseteq Job
  /\ grants \subseteq Event(Overseas)

(* The version graph over a set N of changes, of which a are active.       *)
Graph(N, a) ==
  /\ N \subseteq Change
  /\ \A c \in N : c.kind # "quota"
  /\ \A c, d \in N : c.head = d.head => c = d
  /\ \A d \in N : \A h \in d.parents : \E c \in N : c.head = h /\ c.project = d.project
  /\ \A h \in a : \E c \in N : c.head = h
  /\ \A c \in N : c.head \in a <=> \A d \in N : c.head \notin d.parents

GraphOf(out, in) == {c \in Entries(out) \cup Entries(in) : c.kind # "quota"}

(* Both streams of a region are named by place.                            *)
Named(r, s) == /\ s \in Seq(Change)
               /\ \A i \in DOMAIN s : s[i].head[1] = r /\ s[i].head[2] = i

StoreOk ==
  /\ outbox \in [Region -> Seq(Change)] /\ inbox \in [Region -> Seq(Change)]
  /\ acked \in [Region -> Nat] /\ era \in [Region -> Nat]
  /\ floor \in [Region -> Receipt]
  /\ fenced \in [Region -> BOOLEAN]
  /\ active \in [Region -> SUBSET Version]
  /\ current \in [Region -> [Project -> Version \cup {NoHead}]]
  /\ rows \in [Region -> SUBSET Project]
  /\ quota \in [Region -> [Project -> Nat]]
  /\ \A r \in Region : /\ Named(r, outbox[r]) /\ Named(Peer(r), inbox[r])
                       /\ Graph(GraphOf(outbox[r], inbox[r]), active[r])

Copy == [of : Region, outbox : Nat, inbox : Nat, acked : Nat, floor : Receipt,
         active : SUBSET Version, current : [Project -> Version \cup {NoHead}],
         rows : SUBSET Project, quota : [Project -> Nat]]

GoodCopy(b, out, in) ==
  /\ b \in Copy
  /\ b.outbox <= Len(out[b.of]) /\ b.inbox <= Len(in[b.of])
  /\ Graph(GraphOf(SubSeq(out[b.of], 1, b.outbox), SubSeq(in[b.of], 1, b.inbox)), b.active)

BackupOk == backup # None => GoodCopy(backup, outbox, inbox)

SyncInv == StoreOk /\ WireOk /\ BackupOk

-------------------------------------------------------------------------------
(* Regions and sequences.                                                  *)

LEMMA PeerFacts ==
  /\ Cn \in Region /\ Overseas \in Region
  /\ \A r \in Region : Peer(r) \in Region /\ Peer(r) # r /\ Peer(Peer(r)) = r
  BY SyncAssumption DEF Region, Peer

LEMMA VersionFacts ==
  /\ NoHead \notin Version
  /\ \A r \in Region, n \in Nat \ {0}, e \in Nat : <<r, n, e>> \in Version
  /\ \A v \in Version : v[1] \in Region /\ v[2] \in Nat \ {0}
  BY SyncAssumption DEF NoHead, Version

LEMMA AppendChange ==
  ASSUME NEW s \in Seq(Change), NEW c \in Change
  PROVE  /\ Append(s, c) \in Seq(Change)
         /\ Len(Append(s, c)) = Len(s) + 1
         /\ DOMAIN Append(s, c) = DOMAIN s \cup {Len(s) + 1}
         /\ \A i \in DOMAIN s : Append(s, c)[i] = s[i]
         /\ Append(s, c)[Len(s) + 1] = c
         /\ Entries(Append(s, c)) = Entries(s) \cup {c}
  <1>1. /\ Append(s, c) \in Seq(Change) /\ Len(Append(s, c)) = Len(s) + 1
        /\ DOMAIN Append(s, c) = DOMAIN s \cup {Len(s) + 1}
        /\ \A i \in DOMAIN s : Append(s, c)[i] = s[i]
        /\ Append(s, c)[Len(s) + 1] = c
    OBVIOUS
  <1>2. Entries(Append(s, c)) = Entries(s) \cup {c}
    BY <1>1, Zenon DEF Entries
  <1> QED BY <1>1, <1>2

LEMMA AppendNamed ==
  ASSUME NEW r, NEW s, Named(r, s), NEW c \in Change, c.head[1] = r, c.head[2] = Len(s) + 1
  PROVE  Named(r, Append(s, c))
  BY AppendChange DEF Named

LEMMA PrefixOfAppend ==
  ASSUME NEW s \in Seq(Change), NEW c \in Change, NEW n \in Nat, n <= Len(s)
  PROVE  SubSeq(Append(s, c), 1, n) = SubSeq(s, 1, n)
  OBVIOUS

LEMMA PrefixFacts ==
  ASSUME NEW s \in Seq(Change), NEW n \in Nat, n <= Len(s)
  PROVE  /\ SubSeq(s, 1, n) \in Seq(Change)
         /\ Len(SubSeq(s, 1, n)) = n
         /\ DOMAIN SubSeq(s, 1, n) = 1..n
         /\ \A i \in 1..n : i \in DOMAIN s /\ SubSeq(s, 1, n)[i] = s[i]
  OBVIOUS

LEMMA PrefixNamed ==
  ASSUME NEW r, NEW s, Named(r, s), NEW n \in Nat, n <= Len(s)
  PROVE  Named(r, SubSeq(s, 1, n))
  BY PrefixFacts DEF Named

-------------------------------------------------------------------------------
(* The version graph.                                                      *)

(* A new version built on versions that are there.                         *)
LEMMA GraphGrows ==
  ASSUME NEW N, NEW a, Graph(N, a),
         NEW c \in Change, c.kind # "quota",
         \A d \in N : d.head # c.head,
         \A h \in c.parents : \E d \in N : d.head = h /\ d.project = c.project
  PROVE  Graph(N \cup {c}, (a \ c.parents) \cup {c.head})
  <1> DEFINE M == N \cup {c}
             b == (a \ c.parents) \cup {c.head}
  <1>1. M \subseteq Change /\ \A d \in M : d.kind # "quota"
    BY DEF Graph
  <1>2. \A d, e \in M : d.head = e.head => d = e
    BY DEF Graph
  <1>3. \A d \in M : \A h \in d.parents : \E e \in M : e.head = h /\ e.project = d.project
    BY DEF Graph
  <1>4. \A h \in b : \E d \in M : d.head = h
    BY DEF Graph
  <1>5. ASSUME NEW d \in M
        PROVE  d.head \in b <=> \A e \in M : d.head \notin e.parents
    <2>1. CASE d \in N
      <3>1. d.head # c.head
        BY <2>1
      <3>2. d.head \in a <=> \A e \in N : d.head \notin e.parents
        BY <2>1 DEF Graph
      <3> QED BY <3>1, <3>2
    <2>2. CASE d = c
      <3>1. c.head \notin c.parents
        OBVIOUS
      <3>2. \A e \in N : c.head \notin e.parents
        BY DEF Graph
      <3> QED BY <2>2, <3>1, <3>2
    <2> QED BY <2>1, <2>2
  <1> QED BY <1>1, <1>2, <1>3, <1>4, <1>5, Zenon DEF Graph

(* No version of the graph is beyond both streams.                         *)
LEMMA GraphIsNamed ==
  ASSUME NEW r \in Region, NEW out, NEW in, Named(r, out), Named(Peer(r), in)
  PROVE  \A d \in GraphOf(out, in) :
           \/ d.head[1] = r /\ d.head[2] \in 1..Len(out)
           \/ d.head[1] = Peer(r) /\ d.head[2] \in 1..Len(in)
  <1> SUFFICES ASSUME NEW d \in GraphOf(out, in)
               PROVE  \/ d.head[1] = r /\ d.head[2] \in 1..Len(out)
                      \/ d.head[1] = Peer(r) /\ d.head[2] \in 1..Len(in)
    OBVIOUS
  <1>0. out \in Seq(Change) /\ in \in Seq(Change)
    BY DEF Named
  <1>1. CASE \E i \in DOMAIN out : d = out[i]
    BY <1>0, <1>1 DEF Named
  <1>2. CASE \E i \in DOMAIN in : d = in[i]
    BY <1>0, <1>2 DEF Named
  <1> QED BY <1>1, <1>2 DEF GraphOf, Entries

LEMMA GraphOfAppend ==
  ASSUME NEW out \in Seq(Change), NEW in \in Seq(Change), NEW c \in Change
  PROVE  /\ c.kind # "quota" =>
              /\ GraphOf(Append(out, c), in) = GraphOf(out, in) \cup {c}
              /\ GraphOf(out, Append(in, c)) = GraphOf(out, in) \cup {c}
         /\ c.kind = "quota" =>
              /\ GraphOf(Append(out, c), in) = GraphOf(out, in)
              /\ GraphOf(out, Append(in, c)) = GraphOf(out, in)
  <1>1. Entries(Append(out, c)) = Entries(out) \cup {c} /\ Entries(Append(in, c)) = Entries(in) \cup {c}
    BY AppendChange
  <1>2. \A d : d \in Entries(Append(out, c)) \cup Entries(in)
                  <=> d \in Entries(out) \cup Entries(in) \/ d = c
    BY <1>1
  <1>3. \A d : d \in Entries(out) \cup Entries(Append(in, c))
                  <=> d \in Entries(out) \cup Entries(in) \/ d = c
    BY <1>1
  <1> QED BY <1>2, <1>3 DEF GraphOf

LEMMA NodesAreGraph ==
  ASSUME NEW r \in Region
  PROVE  /\ Nodes(r) = GraphOf(outbox[r], inbox[r])
         /\ \A p \in Project : NodesOf(r, p) = {c \in GraphOf(outbox[r], inbox[r]) : c.project = p}
  BY DEF Nodes, NodesOf, GraphOf

(* The heads of a Project in the terms of its graph.                       *)
LEMMA HeadsAreThere ==
  ASSUME NEW r \in Region, NEW p \in Project, NEW N, N = GraphOf(outbox[r], inbox[r])
  PROVE  /\ \A h \in HeadsOf(r, p) : h \in active[r] /\ \E c \in N : c.head = h /\ c.project = p
         /\ \A c \in N : c.project = p /\ c.head \in active[r] => c.head \in HeadsOf(r, p)
         /\ Deleted(r, p) <=> \E c \in N : c.project = p /\ c.kind = "delete"
  BY NodesAreGraph DEF HeadsOf, Deleted

LEMMA GraphHasLeaves ==
  ASSUME NEW r \in Region, NEW p \in Project,
         Graph(GraphOf(outbox[r], inbox[r]), active[r])
  PROVE  HeadsOf(r, p) = {c.head : c \in NodesOf(r, p)} \ UNION {c.parents : c \in NodesOf(r, p)}
  <1> DEFINE N == GraphOf(outbox[r], inbox[r])
  <1>0. NodesOf(r, p) = {c \in N : c.project = p}
    BY NodesAreGraph
  <1>1. ASSUME NEW c \in NodesOf(r, p)
        PROVE  c.head \in active[r] <=> \A d \in NodesOf(r, p) : c.head \notin d.parents
    <2>1. \A d \in N : c.head \in d.parents => d \in NodesOf(r, p)
      BY <1>0 DEF Graph
    <2>2. c.head \in active[r] <=> \A d \in N : c.head \notin d.parents
      BY <1>0 DEF Graph
    <2> QED BY <1>0, <2>1, <2>2
  <1> QED BY <1>1, Zenon DEF HeadsOf


-------------------------------------------------------------------------------
(* The store.                                                              *)

LEMMA BackupKept ==
  ASSUME StoreOk, BackupOk, backup' = backup,
         \A q \in Region : outbox'[q] = outbox[q]
                           \/ \E c \in Change : outbox'[q] = Append(outbox[q], c),
         \A q \in Region : inbox'[q] = inbox[q]
                           \/ \E c \in Change : inbox'[q] = Append(inbox[q], c)
  PROVE  BackupOk'
  <1> SUFFICES ASSUME backup # None
               PROVE  GoodCopy(backup, outbox', inbox')
    BY DEF BackupOk
  <1> DEFINE q == backup.of
             n == backup.outbox
             k == backup.inbox
  <1>1. GoodCopy(backup, outbox, inbox)
    BY DEF BackupOk
  <1>2. q \in Region /\ n \in Nat /\ k \in Nat /\ n <= Len(outbox[q]) /\ k <= Len(inbox[q])
    BY <1>1 DEF GoodCopy, Copy
  <1>3. outbox[q] \in Seq(Change) /\ inbox[q] \in Seq(Change)
    BY <1>2 DEF StoreOk
  <1>4. n <= Len(outbox'[q]) /\ SubSeq(outbox'[q], 1, n) = SubSeq(outbox[q], 1, n)
    <2>1. CASE outbox'[q] = outbox[q]
      BY <1>2, <2>1
    <2>2. ASSUME NEW c \in Change, outbox'[q] = Append(outbox[q], c)
          PROVE  n <= Len(outbox'[q]) /\ SubSeq(outbox'[q], 1, n) = SubSeq(outbox[q], 1, n)
      BY <1>2, <1>3, <2>2, PrefixOfAppend, AppendChange
    <2> QED BY <1>2, <2>1, <2>2
  <1>5. k <= Len(inbox'[q]) /\ SubSeq(inbox'[q], 1, k) = SubSeq(inbox[q], 1, k)
    <2>1. CASE inbox'[q] = inbox[q]
      BY <1>2, <2>1
    <2>2. ASSUME NEW c \in Change, inbox'[q] = Append(inbox[q], c)
          PROVE  k <= Len(inbox'[q]) /\ SubSeq(inbox'[q], 1, k) = SubSeq(inbox[q], 1, k)
      BY <1>2, <1>3, <2>2, PrefixOfAppend, AppendChange
    <2> QED BY <1>2, <2>1, <2>2
  <1> QED BY <1>1, <1>4, <1>5 DEF GoodCopy

(* A step that leaves streams, graphs and shelf alone.                     *)
LEMMA StoreSame ==
  ASSUME StoreOk, BackupOk,
         UNCHANGED <<outbox, inbox, active, current, rows, quota, era, backup>>,
         acked' \in [Region -> Nat], floor' \in [Region -> Receipt],
         fenced' \in [Region -> BOOLEAN]
  PROVE  StoreOk' /\ BackupOk'
  BY DEF StoreOk, BackupOk

(* A region issues a change.                                               *)
LEMMA IssueKeeps ==
  ASSUME StoreOk, BackupOk, NEW r \in Region, NEW c \in Change,
         c.head[1] = r, c.head[2] = Len(outbox[r]) + 1,
         outbox' = [outbox EXCEPT ![r] = Append(@, c)],
         UNCHANGED <<inbox, acked, floor, fenced, era, backup>>,
         c.kind = "quota" => active' = active,
         c.kind # "quota" =>
           /\ \A h \in c.parents : \E d \in GraphOf(outbox[r], inbox[r]) :
                                      d.head = h /\ d.project = c.project
           /\ active' = [active EXCEPT ![r] = (@ \ c.parents) \cup {c.head}],
         current' \in [Region -> [Project -> Version \cup {NoHead}]],
         rows' \in [Region -> SUBSET Project], quota' \in [Region -> [Project -> Nat]]
  PROVE  StoreOk' /\ BackupOk'
  <1>0. outbox \in [Region -> Seq(Change)] /\ inbox \in [Region -> Seq(Change)]
        /\ active \in [Region -> SUBSET Version]
    BY DEF StoreOk
  <1>1. outbox' \in [Region -> Seq(Change)]
    BY <1>0
  <1>2. outbox'[r] = Append(outbox[r], c) /\ \A q \in Region : q # r => outbox'[q] = outbox[q]
    BY <1>0
  <1>3. active' \in [Region -> SUBSET Version] /\ \A q \in Region : q # r => active'[q] = active[q]
    <2>1. CASE c.kind = "quota"
      BY <1>0, <2>1
    <2>2. CASE c.kind # "quota"
      <3>1. c.head \in Version
        BY DEF Change
      <3>2. (active[r] \ c.parents) \cup {c.head} \in SUBSET Version
        BY <1>0, <3>1
      <3>3. active' = [active EXCEPT ![r] = (active[r] \ c.parents) \cup {c.head}]
        BY <2>2
      <3> QED BY <1>0, <3>2, <3>3
    <2> QED BY <2>1, <2>2
  <1>4. ASSUME NEW q \in Region
        PROVE  Named(q, outbox'[q]) /\ Named(Peer(q), inbox'[q])
               /\ Graph(GraphOf(outbox'[q], inbox'[q]), active'[q])
    <2>0. Named(q, outbox[q]) /\ Named(Peer(q), inbox[q])
          /\ Graph(GraphOf(outbox[q], inbox[q]), active[q]) /\ inbox'[q] = inbox[q]
      BY DEF StoreOk
    <2>1. CASE q # r
      BY <1>2, <1>3, <2>0, <2>1
    <2>2. CASE q = r
      <3>0. Named(r, outbox[r]) /\ Named(Peer(r), inbox[r])
            /\ Graph(GraphOf(outbox[r], inbox[r]), active[r])
        BY <2>0, <2>2
      <3>1. Named(r, outbox'[r])
        BY <1>2, <3>0, AppendNamed
      <3>2. \A d \in GraphOf(outbox[r], inbox[r]) : d.head # c.head
        BY <1>0, <3>0, GraphIsNamed, PeerFacts
      <3>3. CASE c.kind = "quota"
        <4>1. GraphOf(outbox'[r], inbox'[r]) = GraphOf(outbox[r], inbox[r])
          BY <1>0, <1>2, <3>3, GraphOfAppend
        <4> QED BY <2>0, <2>2, <3>1, <3>3, <4>1
      <3>4. CASE c.kind # "quota"
        <4>1. GraphOf(outbox'[r], inbox'[r]) = GraphOf(outbox[r], inbox[r]) \cup {c}
          BY <1>0, <1>2, <3>4, GraphOfAppend
        <4>2. active'[r] = (active[r] \ c.parents) \cup {c.head}
          BY <1>0, <3>4
        <4>3. \A h \in c.parents : \E d \in GraphOf(outbox[r], inbox[r]) :
                                      d.head = h /\ d.project = c.project
          BY <3>4
        <4>4. Graph(GraphOf(outbox[r], inbox[r]) \cup {c}, (active[r] \ c.parents) \cup {c.head})
          <5> DEFINE N == GraphOf(outbox[r], inbox[r])
          <5>1. Graph(N, active[r]) /\ (\A d \in N : d.head # c.head)
                /\ \A h \in c.parents : \E d \in N : d.head = h /\ d.project = c.project
            BY <3>0, <3>2, <4>3
          <5> HIDE DEF N
          <5>2. Graph(N \cup {c}, (active[r] \ c.parents) \cup {c.head})
            BY <3>4, <5>1, GraphGrows
          <5> QED BY <5>2 DEF N
        <4> QED BY <2>0, <2>2, <3>1, <4>1, <4>2, <4>4
      <3> QED BY <3>3, <3>4
    <2> QED BY <2>1, <2>2
  <1>5. StoreOk'
    BY <1>1, <1>3, <1>4 DEF StoreOk
  <1>6. BackupOk'
    BY <1>2, BackupKept
  <1> QED BY <1>5, <1>6

LEMMA IssuedIsChange ==
  ASSUME StoreOk, NEW r \in Region, NEW p \in Project,
         NEW kind \in {"save", "delete", "quota"}, NEW token \in Nat
  PROVE  /\ Issued(r, p, kind, token) \in Change
         /\ Issued(r, p, kind, token).head[1] = r
         /\ Issued(r, p, kind, token).head[2] = Len(outbox[r]) + 1
         /\ Issued(r, p, kind, token).kind = kind
         /\ Issued(r, p, kind, token).project = p
         /\ Issued(r, p, kind, token).token = token
         /\ kind # "quota" => Issued(r, p, kind, token).parents = HeadsOf(r, p)
  <1>1. Len(outbox[r]) + 1 \in Nat \ {0} /\ era[r] \in Nat /\ active[r] \subseteq Version
    BY DEF StoreOk
  <1>2. <<r, Len(outbox[r]) + 1, era[r]>> \in Version
    BY <1>1, VersionFacts
  <1>3. HeadsOf(r, p) \subseteq Version
    BY <1>1 DEF HeadsOf
  <1>4. Issued(r, p, kind, token) \in Change
    BY <1>2, <1>3 DEF Issued, Change
  <1> QED BY <1>4 DEF Issued

(* What a user issues builds on the heads of its Project.                  *)
LEMMA IssuedFacts ==
  ASSUME StoreOk, NEW r \in Region, NEW p \in Project, NEW kind \in {"save", "delete"},
         NEW c, c = Issued(r, p, kind, 0)
  PROVE  /\ c \in Change /\ c.head[1] = r /\ c.head[2] = Len(outbox[r]) + 1
         /\ c.kind = kind /\ c.kind # "quota" /\ c.project = p /\ c.parents = HeadsOf(r, p)
         /\ \A h \in c.parents : \E d \in GraphOf(outbox[r], inbox[r]) :
                                    d.head = h /\ d.project = c.project
  <1>1. kind \in {"save", "delete", "quota"} /\ 0 \in Nat
    OBVIOUS
  <1>2. /\ c \in Change /\ c.head[1] = r /\ c.head[2] = Len(outbox[r]) + 1
        /\ c.kind = kind /\ c.kind # "quota" /\ c.project = p /\ c.parents = HeadsOf(r, p)
    BY <1>1, IssuedIsChange
  <1>3. \A h \in HeadsOf(r, p) : \E d \in GraphOf(outbox[r], inbox[r]) : d.head = h /\ d.project = p
    BY HeadsAreThere
  <1> QED BY <1>2, <1>3

(* What the authority issues.                                              *)
LEMMA ReservedFacts ==
  ASSUME StoreOk, NEW p \in Project, NEW token \in Nat,
         NEW c, c = Issued(Overseas, p, "quota", token)
  PROVE  /\ c \in Change /\ c.head[1] = Overseas /\ c.head[2] = Len(outbox[Overseas]) + 1
         /\ c.kind = "quota" /\ c.project = p /\ c.token = token
  BY IssuedIsChange, PeerFacts

LEMMA RecordKeeps ==
  ASSUME SyncInv, NEW r \in Region, NEW p \in Project, NEW kind \in {"save", "delete"},
         Record(r, p, kind), UsersUnchanged,
         rows' \in [Region -> SUBSET Project], quota' \in [Region -> [Project -> Nat]]
  PROVE  SyncInv'
  <1>0. PICK c : c = Issued(r, p, kind, 0)
    OBVIOUS
  <1>1. /\ c \in Change /\ c.head[1] = r /\ c.head[2] = Len(outbox[r]) + 1 /\ c.kind # "quota"
        /\ \A h \in c.parents : \E d \in GraphOf(outbox[r], inbox[r]) :
                                   d.head = h /\ d.project = c.project
    <2>1. StoreOk
      BY DEF SyncInv
    <2> QED BY <1>0, <2>1, IssuedFacts
  <1>2. /\ outbox' = [outbox EXCEPT ![r] = Append(@, c)]
        /\ active' = [active EXCEPT ![r] = (@ \ c.parents) \cup {c.head}]
        /\ current' = [current EXCEPT ![r][p] = c.head]
    BY <1>0 DEF Record
  <1>3. current' \in [Region -> [Project -> Version \cup {NoHead}]]
    <2>1. c.head \in Version /\ current \in [Region -> [Project -> Version \cup {NoHead}]]
      BY <1>1 DEF SyncInv, StoreOk, Change
    <2> QED BY <1>2, <2>1
  <1>4. UNCHANGED <<inbox, acked, floor, fenced, era, backup, pump, net, jobs, grants>>
    BY DEF UsersUnchanged
  <1>5. StoreOk' /\ BackupOk'
    BY <1>1, <1>2, <1>3, <1>4, IssueKeeps DEF SyncInv
  <1>6. WireOk'
    BY <1>4 DEF WireOk, SyncInv
  <1> QED BY <1>5, <1>6 DEF SyncInv

LEMMA UsersKeep ==
  ASSUME SyncInv, NEW r \in Region, Users(r)
  PROVE  SyncInv'
  <1>0. rows \in [Region -> SUBSET Project] /\ quota \in [Region -> [Project -> Nat]] /\ era \in [Region -> Nat]
    BY DEF SyncInv, StoreOk
  <1> SUFFICES ASSUME NEW p \in Project,
                      \/ Create(r, p) \/ Capture(r, p) \/ Delete(r, p)
                      \/ \E token \in active[r] : Save(r, p, token)
                      \/ \E named \in {HeadsOf(r, p)} : Resolve(r, p, named)
               PROVE  SyncInv'
    BY DEF Users
  <1>1. CASE Create(r, p)
    <2>1. rows' = [rows EXCEPT ![r] = @ \cup {p}] /\ Record(r, p, "save") /\ UsersUnchanged
      BY <1>1 DEF Create
    <2>2. quota' = quota \/ quota' = [quota EXCEPT ![r][p] = IF @ # 0 THEN @ ELSE 1 + era[r]]
      BY <1>1 DEF Create
    <2>3. rows' \in [Region -> SUBSET Project]
      BY <1>0, <2>1
    <2>4. quota' \in [Region -> [Project -> Nat]]
      <3> DEFINE n == IF quota[r][p] # 0 THEN quota[r][p] ELSE 1 + era[r]
      <3>1. n \in Nat
        BY <1>0
      <3>2. quota' = quota \/ quota' = [quota EXCEPT ![r][p] = n]
        BY <1>0, <2>2
      <3> HIDE DEF n
      <3>3. [quota EXCEPT ![r][p] = n] = [quota EXCEPT ![r] = [quota[r] EXCEPT ![p] = n]]
        BY <1>0
      <3>4. [quota[r] EXCEPT ![p] = n] \in [Project -> Nat]
        BY <1>0, <3>1
      <3> QED BY <1>0, <3>2, <3>3, <3>4
    <2> QED BY <2>1, <2>3, <2>4, RecordKeeps
  <1>2. CASE Capture(r, p) \/ (\E token \in active[r] : Save(r, p, token))
             \/ (\E named \in {HeadsOf(r, p)} : Resolve(r, p, named))
    <2>1. rows' = rows /\ quota' = quota /\ Record(r, p, "save") /\ UsersUnchanged
      BY <1>2 DEF Capture, Save, Resolve
    <2> QED BY <1>0, <2>1, RecordKeeps
  <1>3. CASE Delete(r, p)
    <2>1. /\ rows' = [rows EXCEPT ![r] = @ \ {p}] /\ quota' = [quota EXCEPT ![r][p] = 0]
          /\ Record(r, p, "delete") /\ UsersUnchanged
      BY <1>3 DEF Delete
    <2>2. rows' \in [Region -> SUBSET Project] /\ quota' \in [Region -> [Project -> Nat]]
      BY <1>0, <2>1
    <2> QED BY <2>1, <2>2, RecordKeeps
  <1> QED BY <1>1, <1>2, <1>3

LEMMA GrantKeeps ==
  ASSUME SyncInv, NEW p \in Project, Grant(p)
  PROVE  SyncInv'
  <1> DEFINE token == IF quota[Overseas][p] # 0 THEN quota[Overseas][p] ELSE 1 + era[Overseas]
  <1>0. /\ Overseas \in Region /\ outbox \in [Region -> Seq(Change)]
        /\ quota \in [Region -> [Project -> Nat]] /\ era \in [Region -> Nat]
        /\ StoreOk /\ BackupOk /\ WireOk /\ Named(Overseas, outbox[Overseas])
    BY PeerFacts DEF SyncInv, StoreOk
  <1>1. token \in Nat
    BY <1>0
  <1>2. PICK c : c = Issued(Overseas, p, "quota", token)
    OBVIOUS
  <1>3. c \in Change /\ c.head[1] = Overseas /\ c.head[2] = Len(outbox[Overseas]) + 1
        /\ c.kind = "quota"
    BY <1>0, <1>1, <1>2, ReservedFacts
  <1>4. /\ quota' = [quota EXCEPT ![Overseas][p] = token]
        /\ \/ /\ outbox' = outbox
              /\ grants' = grants \cup {[sequence |-> i, change |-> outbox[Overseas][i]]
                                          : i \in Granted(p)}
           \/ /\ outbox' = [outbox EXCEPT ![Overseas] = Append(@, c)]
              /\ grants' = grants \cup {[sequence |-> Len(outbox[Overseas]) + 1, change |-> c]}
        /\ UNCHANGED <<inbox, acked, floor, active, current, rows, fenced, era, pump,
                       net, jobs, backup>>
    BY <1>2 DEF Grant
  <1> HIDE DEF token
  <1>5. quota' \in [Region -> [Project -> Nat]]
    <2>1. [quota EXCEPT ![Overseas][p] = token]
            = [quota EXCEPT ![Overseas] = [quota[Overseas] EXCEPT ![p] = token]]
      BY <1>0
    <2>2. [quota[Overseas] EXCEPT ![p] = token] \in [Project -> Nat]
      BY <1>0, <1>1
    <2> QED BY <1>0, <1>4, <2>1, <2>2
  <1>6. current \in [Region -> [Project -> Version \cup {NoHead}]] /\ rows \in [Region -> SUBSET Project]
    BY <1>0 DEF StoreOk
  <1>7. StoreOk' /\ BackupOk'
    <2>1. CASE outbox' = outbox
      <3>1. StoreOk'
        BY <1>0, <1>4, <1>5, <2>1 DEF StoreOk
      <3> QED BY <1>0, <1>4, <2>1, <3>1 DEF BackupOk
    <2>2. CASE outbox' = [outbox EXCEPT ![Overseas] = Append(@, c)]
      BY <1>0, <1>3, <1>4, <1>5, <1>6, <2>2, IssueKeeps
    <2> QED BY <1>4, <2>1, <2>2
  <1>8. grants' \subseteq Event(Overseas)
    <2>1. [sequence |-> Len(outbox[Overseas]) + 1, change |-> c] \in Event(Overseas)
      BY <1>0, <1>3 DEF Event
    <2>2. ASSUME NEW i \in Granted(p)
          PROVE  [sequence |-> i, change |-> outbox[Overseas][i]] \in Event(Overseas)
      <3>1. i \in DOMAIN outbox[Overseas] /\ outbox[Overseas] \in Seq(Change)
        BY <1>0 DEF Granted
      <3>2. i \in Nat \ {0} /\ outbox[Overseas][i] \in Change
        BY <3>1
      <3> QED BY <1>0, <3>1, <3>2 DEF Event, Named
    <2>3. grants \subseteq Event(Overseas)
      BY <1>0 DEF WireOk
    <2> QED BY <1>4, <2>1, <2>2, <2>3
  <1>9. WireOk'
    BY <1>0, <1>4, <1>8 DEF WireOk
  <1> QED BY <1>7, <1>9 DEF SyncInv

(* A region receives a change.                                             *)
LEMMA InboxKeeps ==
  ASSUME StoreOk, BackupOk, NEW r \in Region, NEW c \in Change,
         c.head[1] = Peer(r), c.head[2] = Len(inbox[r]) + 1,
         inbox' = [inbox EXCEPT ![r] = Append(@, c)],
         UNCHANGED <<outbox, acked, floor, fenced, era, backup>>,
         c.kind = "quota" => active' = active,
         c.kind # "quota" =>
           /\ \A h \in c.parents : \E d \in GraphOf(outbox[r], inbox[r]) :
                                      d.head = h /\ d.project = c.project
           /\ active' = [active EXCEPT ![r] = (@ \ c.parents) \cup {c.head}],
         current' \in [Region -> [Project -> Version \cup {NoHead}]],
         rows' \in [Region -> SUBSET Project], quota' \in [Region -> [Project -> Nat]]
  PROVE  StoreOk' /\ BackupOk'
  <1>0. outbox \in [Region -> Seq(Change)] /\ inbox \in [Region -> Seq(Change)]
        /\ active \in [Region -> SUBSET Version]
    BY DEF StoreOk
  <1>1. inbox' \in [Region -> Seq(Change)]
    BY <1>0
  <1>2. inbox'[r] = Append(inbox[r], c) /\ \A q \in Region : q # r => inbox'[q] = inbox[q]
    BY <1>0
  <1>3. active' \in [Region -> SUBSET Version] /\ \A q \in Region : q # r => active'[q] = active[q]
    <2>1. CASE c.kind = "quota"
      BY <1>0, <2>1
    <2>2. CASE c.kind # "quota"
      <3>1. c.head \in Version
        BY DEF Change
      <3>2. (active[r] \ c.parents) \cup {c.head} \in SUBSET Version
        BY <1>0, <3>1
      <3> QED BY <1>0, <2>2, <3>2
    <2> QED BY <2>1, <2>2
  <1>4. ASSUME NEW q \in Region
        PROVE  Named(q, outbox'[q]) /\ Named(Peer(q), inbox'[q])
               /\ Graph(GraphOf(outbox'[q], inbox'[q]), active'[q])
    <2>0. Named(q, outbox[q]) /\ Named(Peer(q), inbox[q])
          /\ Graph(GraphOf(outbox[q], inbox[q]), active[q]) /\ outbox'[q] = outbox[q]
      BY DEF StoreOk
    <2>1. CASE q # r
      BY <1>2, <1>3, <2>0, <2>1
    <2>2. CASE q = r
      <3>0. Named(r, outbox[r]) /\ Named(Peer(r), inbox[r])
            /\ Graph(GraphOf(outbox[r], inbox[r]), active[r])
        BY <2>0, <2>2
      <3>1. Named(Peer(r), inbox'[r])
        BY <1>2, <3>0, AppendNamed
      <3>2. \A d \in GraphOf(outbox[r], inbox[r]) : d.head # c.head
        BY <1>0, <3>0, GraphIsNamed, PeerFacts
      <3>3. CASE c.kind = "quota"
        <4>1. GraphOf(outbox'[r], inbox'[r]) = GraphOf(outbox[r], inbox[r])
          BY <1>0, <1>2, <3>3, GraphOfAppend
        <4> QED BY <2>0, <2>2, <3>1, <3>3, <4>1
      <3>4. CASE c.kind # "quota"
        <4>1. GraphOf(outbox'[r], inbox'[r]) = GraphOf(outbox[r], inbox[r]) \cup {c}
          BY <1>0, <1>2, <3>4, GraphOfAppend
        <4>2. active'[r] = (active[r] \ c.parents) \cup {c.head}
          BY <1>0, <3>4
        <4>3. \A h \in c.parents : \E d \in GraphOf(outbox[r], inbox[r]) :
                                      d.head = h /\ d.project = c.project
          BY <3>4
        <4>4. Graph(GraphOf(outbox[r], inbox[r]) \cup {c}, (active[r] \ c.parents) \cup {c.head})
          <5> DEFINE N == GraphOf(outbox[r], inbox[r])
          <5>1. Graph(N, active[r]) /\ (\A d \in N : d.head # c.head)
                /\ \A h \in c.parents : \E d \in N : d.head = h /\ d.project = c.project
            BY <3>0, <3>2, <4>3
          <5> HIDE DEF N
          <5>2. Graph(N \cup {c}, (active[r] \ c.parents) \cup {c.head})
            BY <3>4, <5>1, GraphGrows
          <5> QED BY <5>2 DEF N
        <4> QED BY <2>0, <2>2, <3>1, <4>1, <4>2, <4>4
      <3> QED BY <3>3, <3>4
    <2> QED BY <2>1, <2>2
  <1>5. StoreOk'
    BY <1>1, <1>3, <1>4 DEF StoreOk
  <1>6. BackupOk'
    BY <1>2, BackupKept
  <1> QED BY <1>5, <1>6

LEMMA ReceiveKeeps ==
  ASSUME StoreOk, BackupOk, NEW r \in Region, NEW e \in Event(Peer(r)), Receive(r, e),
         UNCHANGED <<outbox, acked, floor, fenced, era, backup>>
  PROVE  StoreOk' /\ BackupOk'
  <1>1. PICK c : c = e.change
    OBVIOUS
  <1>2. /\ c \in Change /\ c.head[1] = Peer(r) /\ c.head[2] = e.sequence
        /\ c.project \in Project /\ c.token \in Nat /\ c.head \in Version
    BY <1>1 DEF Event, Change
  <1>3. /\ current \in [Region -> [Project -> Version \cup {NoHead}]]
        /\ rows \in [Region -> SUBSET Project] /\ quota \in [Region -> [Project -> Nat]]
        /\ active \in [Region -> SUBSET Version] /\ inbox \in [Region -> Seq(Change)]
    BY DEF StoreOk
  <1>4. quota' \in [Region -> [Project -> Nat]]
    <2>1. QuotaAfter(r, e) \in [Project -> Nat]
      <3>1. [quota[r] EXCEPT ![c.project] = 0] \in [Project -> Nat]
            /\ [quota[r] EXCEPT ![c.project] = c.token] \in [Project -> Nat]
            /\ quota[r] \in [Project -> Nat]
        BY <1>2, <1>3
      <3> QED BY <1>1, <3>1 DEF QuotaAfter
    <2> QED BY <1>3, <2>1 DEF Receive
  <1>5. rows' \in [Region -> SUBSET Project]
    <2>1. ShelfAfter(r, c) \in SUBSET Project
      BY <1>2, <1>3 DEF ShelfAfter
    <2> QED BY <1>1, <1>3, <2>1 DEF Receive
  <1>6. current' \in [Region -> [Project -> Version \cup {NoHead}]]
    <2>1. ShownAfter(r, c) \in Version \cup {NoHead}
      BY <1>2, <1>3 DEF ShownAfter
    <2>2. [current[r] EXCEPT ![c.project] = ShownAfter(r, c)] \in [Project -> Version \cup {NoHead}]
      BY <1>3, <2>1
    <2>3. current' = current
          \/ current' = [current EXCEPT ![r] = [current[r] EXCEPT ![c.project] = ShownAfter(r, c)]]
      BY <1>1, <1>3 DEF Receive
    <2> QED BY <1>3, <2>2, <2>3
  <1>7. CASE ~Acceptable(r, e)
    <2>1. inbox' = inbox /\ active' = active
      BY <1>7 DEF Receive
    <2>2. StoreOk'
      BY <1>4, <1>5, <1>6, <2>1 DEF StoreOk
    <2> QED BY <2>1, <2>2 DEF BackupOk
  <1>8. CASE Acceptable(r, e)
    <2>1. /\ inbox' = [inbox EXCEPT ![r] = Append(@, c)]
          /\ c.kind = "quota" => active' = active
          /\ c.kind # "quota" => active' = [active EXCEPT ![r] = (@ \ c.parents) \cup {c.head}]
      BY <1>1, <1>3, <1>8 DEF Receive, HeadsWith
    <2>2. c.head[2] = Len(inbox[r]) + 1
      BY <1>2, <1>8 DEF Acceptable
    <2>3. c.kind # "quota" => \A h \in c.parents : \E d \in GraphOf(outbox[r], inbox[r]) :
                                 d.head = h /\ d.project = c.project
      <3>1. NodesOf(r, c.project) = {d \in GraphOf(outbox[r], inbox[r]) : d.project = c.project}
        BY <1>2, NodesAreGraph
      <3>2. c.kind # "quota" => c.parents \subseteq {n.head : n \in NodesOf(r, c.project)}
        BY <1>1, <1>8 DEF Acceptable
      <3> QED BY <3>1, <3>2
    <2> QED BY <1>2, <1>4, <1>5, <1>6, <2>1, <2>2, <2>3, InboxKeeps
  <1> QED BY <1>7, <1>8

-------------------------------------------------------------------------------
(* The pumps and the requests between them.                                *)

LEMMA ReceiptFacts ==
  ASSUME StoreOk, NEW r \in Region
  PROVE  /\ Status(r) \in Receipt
         /\ NoStatus \in Receipt
         /\ \A n \in Nat : EventAfter(r, n) \in Event(r) \cup {NoEvent}
         /\ \A s \in Receipt : FloorAfter(r, s) \in Receipt
  <1>0. outbox[r] \in Seq(Change) /\ inbox[r] \in Seq(Change) /\ Named(r, outbox[r]) /\ floor[r] \in Receipt
    BY DEF StoreOk
  <1>1. Status(r) \in Receipt
    <2>1. inbox[r] # <<>> => Last(inbox[r]) \in Change
      BY <1>0 DEF Last
    <2>2. inbox[r] # <<>> => Last(inbox[r]).head \in Version
      BY <2>1 DEF Change
    <2> QED BY <1>0, <2>2 DEF Status, Receipt
  <1>2. NoStatus \in Receipt
    BY DEF NoStatus, Receipt
  <1>3. ASSUME NEW n \in Nat
        PROVE  EventAfter(r, n) \in Event(r) \cup {NoEvent}
    <2>1. CASE n < Len(outbox[r])
      <3>1. n + 1 \in DOMAIN outbox[r] /\ n + 1 \in Nat \ {0} /\ outbox[r][n + 1] \in Change
        BY <1>0, <2>1
      <3>2. outbox[r][n + 1].head[1] = r /\ outbox[r][n + 1].head[2] = n + 1
        BY <1>0, <3>1 DEF Named
      <3> QED BY <2>1, <3>1, <3>2 DEF EventAfter, Event
    <2> QED BY <2>1 DEF EventAfter
  <1>4. \A s \in Receipt : FloorAfter(r, s) \in Receipt
    BY <1>0 DEF FloorAfter
  <1> QED BY <1>1, <1>2, <1>3, <1>4

LEMMA StepFacts ==
  /\ \A r \in Region : GoodStep(r, Idle) /\ GoodStep(r, Retry)
  /\ \A r \in Region : \A s \in Receipt : GoodStep(r, [Idle EXCEPT !.pc = "status", !.status = s])
  /\ \A r \in Region : GoodStep(r, [Idle EXCEPT !.pc = "pull"])
                       /\ GoodStep(r, [Idle EXCEPT !.pc = "deliver"])
  /\ \A r \in Region : \A s \in Receipt : \A e \in Event(Peer(r)) \cup {NoEvent} :
       GoodStep(r, [Idle EXCEPT !.pc = "pulled", !.status = s, !.event = e])
  /\ \A r \in Region : \A e \in Event(r) :
       GoodStep(r, [Idle EXCEPT !.pc = "post", !.event = e])
  <1>1. NoStatus \in Receipt
    BY DEF NoStatus, Receipt
  <1>2. \A r \in Region : /\ Event(r) \subseteq Event(Cn) \cup Event(Overseas)
                          /\ Event(Peer(r)) \subseteq Event(Cn) \cup Event(Overseas)
    BY DEF Region, Peer
  <1> QED BY <1>1, <1>2 DEF GoodStep, Step, Pc, Idle, Retry

(* A pump takes a step; the others stay where they are.                    *)
LEMMA PumpMoves ==
  ASSUME pump \in [Region -> Step], \A q \in Region : GoodStep(q, pump[q]),
         NEW r \in Region, NEW s, GoodStep(r, s), Becomes(r, s)
  PROVE  pump' \in [Region -> Step] /\ \A q \in Region : GoodStep(q, pump'[q])
  <1>1. s \in Step
    BY DEF GoodStep
  <1>2. \A q \in Region : pump'[q] = IF q = r THEN s ELSE pump[q]
    BY DEF Becomes
  <1> QED BY <1>1, <1>2 DEF Becomes

LEMMA PumpsKeep ==
  ASSUME WireOk, UNCHANGED <<pump, net, jobs>>, grants' \subseteq grants
  PROVE  WireOk'
  BY DEF WireOk

LEMMA GrantArrivesKeeps ==
  ASSUME SyncInv, NEW e \in grants, GrantArrives(e)
  PROVE  SyncInv'
  <1>1. e \in Event(Peer(Cn)) /\ Cn \in Region
    BY PeerFacts DEF SyncInv, WireOk, Peer
  <1>2. /\ Receive(Cn, e) /\ grants' \subseteq grants
        /\ UNCHANGED <<outbox, acked, floor, fenced, era, pump, net, jobs, backup>>
    BY DEF GrantArrives
  <1>3. StoreOk' /\ BackupOk'
    BY <1>1, <1>2, ReceiveKeeps DEF SyncInv
  <1>4. WireOk'
    BY <1>2, PumpsKeep DEF SyncInv
  <1> QED BY <1>3, <1>4 DEF SyncInv

LEMMA LoseGrantKeeps ==
  ASSUME SyncInv, NEW e \in grants, LoseGrant(e)
  PROVE  SyncInv'
  <1>1. StoreOk' /\ BackupOk'
    BY StoreSame DEF SyncInv, LoseGrant, storage, StoreOk
  <1>2. WireOk'
    BY PumpsKeep DEF SyncInv, LoseGrant
  <1> QED BY <1>1, <1>2 DEF SyncInv

LEMMA PullSendKeeps ==
  ASSUME SyncInv, NEW r \in Region, PullSend(r)
  PROVE  SyncInv'
  <1>1. StoreOk' /\ BackupOk'
    BY StoreSame DEF SyncInv, PullSend, storage, StoreOk
  <1>2. PICK m : /\ m = [kind |-> "pull", from |-> r, status |-> Status(r),
                         event |-> NoEvent, live |-> TRUE]
                 /\ net' = net \cup {m}
    BY DEF PullSend
  <1>3. GoodMessage(m)
    BY <1>2, ReceiptFacts DEF SyncInv, GoodMessage
  <1>4. pump' \in [Region -> Step] /\ \A q \in Region : GoodStep(q, pump'[q])
    BY StepFacts, PumpMoves DEF SyncInv, WireOk, PullSend
  <1>5. jobs' = jobs /\ grants' = grants
    BY DEF PullSend
  <1> QED BY <1>1, <1>2, <1>3, <1>4, <1>5 DEF SyncInv, WireOk

(* The answer to a pull: what it writes is well-formed.                    *)
LEMMA AnswerFacts ==
  ASSUME StoreOk, WireOk, NEW m, m.from \in Region, m.status \in Receipt, m.live \in BOOLEAN,
         NEW verdict \in BOOLEAN, PullAnswered(m, verdict)
  PROVE  /\ acked' \in [Region -> Nat] /\ fenced' \in [Region -> BOOLEAN]
         /\ pump' \in [Region -> Step] /\ \A q \in Region : GoodStep(q, pump'[q])
  <1> DEFINE o == Peer(m.from)
  <1>0. o \in Region /\ m.from \in Region /\ acked \in [Region -> Nat]
        /\ fenced \in [Region -> BOOLEAN] /\ m.status.received \in Nat
        /\ pump \in [Region -> Step] /\ \A q \in Region : GoodStep(q, pump[q])
    BY PeerFacts DEF StoreOk, WireOk, Receipt
  <1>1. acked' \in [Region -> Nat]
    <2>1. (IF verdict THEN Greater(acked[o], m.status.received) ELSE acked[o]) \in Nat
      BY <1>0 DEF Greater
    <2> QED BY <1>0, <2>1 DEF PullAnswered
  <1>2. fenced' \in [Region -> BOOLEAN]
    BY <1>0 DEF PullAnswered
  <1>3. pump' \in [Region -> Step] /\ \A q \in Region : GoodStep(q, pump'[q])
    <2>1. CASE ~m.live
      BY <1>0, <2>1 DEF PullAnswered
    <2>2. CASE m.live /\ verdict
      <3>1. PICK s : s = [Idle EXCEPT !.pc = "pulled", !.status = Status(o),
                                      !.event = EventAfter(o, m.status.received)]
        OBVIOUS
      <3>2. Becomes(m.from, s)
        BY <2>2, <3>1 DEF PullAnswered
      <3>3. GoodStep(m.from, s)
        BY <1>0, <3>1, ReceiptFacts, StepFacts
      <3> QED BY <1>0, <3>2, <3>3, PumpMoves
    <2>3. CASE m.live /\ ~verdict
      <3>1. Becomes(m.from, Idle)
        BY <2>3 DEF PullAnswered
      <3> QED BY <1>0, <3>1, StepFacts, PumpMoves
    <2> QED BY <2>1, <2>2, <2>3
  <1> QED BY <1>1, <1>2, <1>3

LEMMA PullArrivesKeeps ==
  ASSUME SyncInv, NEW m \in net, PullArrives(m)
  PROVE  SyncInv'
  <1> DEFINE o == Peer(m.from)
  <1>0. StoreOk /\ WireOk /\ BackupOk /\ GoodMessage(m)
    BY DEF SyncInv, WireOk
  <1>1. m.from \in Region /\ m.status \in Receipt /\ m.live \in BOOLEAN /\ o \in Region
    BY <1>0, PeerFacts DEF GoodMessage
  <1>2. floor' \in [Region -> Receipt]
    <2>1. FloorAfter(o, m.status) \in Receipt
      BY <1>0, <1>1, ReceiptFacts
    <2> QED BY <1>0, <2>1 DEF StoreOk, PullArrives
  <1>3. Valid(o, m.status) \in BOOLEAN
    BY DEF Valid, Holds
  <1>4. /\ acked' \in [Region -> Nat] /\ fenced' \in [Region -> BOOLEAN]
        /\ pump' \in [Region -> Step] /\ \A q \in Region : GoodStep(q, pump'[q])
        /\ jobs' \subseteq Job
    <2>1. CASE Awaits(o, m.status)
      <3>1. UNCHANGED <<fenced, acked, pump>>
            /\ jobs' = jobs \cup {[from |-> m.from, status |-> m.status, live |-> m.live,
                                   verdict |-> Valid(o, m.status)]}
        BY <2>1 DEF PullArrives
      <3> QED BY <1>0, <1>1, <1>3, <3>1 DEF StoreOk, WireOk, Job
    <2>2. CASE ~Awaits(o, m.status)
      <3>1. PullAnswered(m, Valid(o, m.status)) /\ jobs' = jobs
        BY <2>2 DEF PullArrives
      <3> QED BY <1>0, <1>1, <1>3, <3>1, AnswerFacts DEF WireOk
    <2> QED BY <2>1, <2>2
  <1>5. UNCHANGED <<outbox, inbox, active, current, rows, quota, era, grants, backup>>
        /\ net' \subseteq net
    BY DEF PullArrives
  <1>6. StoreOk' /\ BackupOk'
    BY <1>0, <1>2, <1>4, <1>5, StoreSame
  <1>7. WireOk'
    BY <1>0, <1>4, <1>5 DEF WireOk
  <1> QED BY <1>6, <1>7 DEF SyncInv

LEMMA PullHashedKeeps ==
  ASSUME SyncInv, NEW j \in jobs, PullHashed(j)
  PROVE  SyncInv'
  <1>0. StoreOk /\ WireOk /\ BackupOk /\ j \in Job
    BY DEF SyncInv, WireOk
  <1>1. j.from \in Region /\ j.status \in Receipt /\ j.live \in BOOLEAN /\ j.verdict \in BOOLEAN
    BY <1>0 DEF Job
  <1>2. PullAnswered(j, j.verdict) /\ jobs' \subseteq jobs
        /\ UNCHANGED <<outbox, inbox, floor, active, current, rows, quota, era, net,
                       grants, backup>>
    BY DEF PullHashed
  <1>3. /\ acked' \in [Region -> Nat] /\ fenced' \in [Region -> BOOLEAN]
        /\ pump' \in [Region -> Step] /\ \A q \in Region : GoodStep(q, pump'[q])
    BY <1>0, <1>1, <1>2, AnswerFacts
  <1>4. StoreOk' /\ BackupOk'
    <2>1. floor' \in [Region -> Receipt]
      BY <1>0, <1>2 DEF StoreOk
    <2> QED BY <1>0, <1>2, <1>3, <2>1, StoreSame
  <1>5. WireOk'
    BY <1>0, <1>2, <1>3 DEF WireOk
  <1> QED BY <1>4, <1>5 DEF SyncInv

LEMMA ReconcileKeeps ==
  ASSUME SyncInv, NEW r \in Region, Reconcile(r)
  PROVE  SyncInv'
  <1>0. StoreOk /\ WireOk /\ BackupOk /\ pump[r] \in Step /\ GoodStep(r, pump[r])
    BY DEF SyncInv, WireOk
  <1>1. PICK s : s = pump[r].status /\ s \in Receipt
    BY <1>0 DEF Step
  <1>2. /\ pump[r].pc \in {"pulled", "status"}
        /\ floor' = [floor EXCEPT ![r] = FloorAfter(r, s)]
        /\ UNCHANGED <<outbox, inbox, acked, active, current, rows, quota, era, net,
                       jobs, grants, backup>>
    BY <1>1 DEF Reconcile
  <1>3. floor' \in [Region -> Receipt]
    BY <1>0, <1>1, <1>2, ReceiptFacts DEF StoreOk
  <1>4. PICK t : /\ Becomes(r, t)
                 /\ \/ t = Idle
                    \/ /\ t.pc \in {"take-hash", "export-hash", "take", "export"}
                       /\ t.pc \in {"take-hash", "take"} => pump[r].pc = "pulled"
                       /\ t \in Step /\ t.event = pump[r].event
    <2> DEFINE go == [pump[r] EXCEPT !.pc = AfterVerdict(@)]
               wait == [go EXCEPT !.pc = IF @ = "take" THEN "take-hash" ELSE "export-hash",
                                  !.verdict = Valid(r, s)]
    <2>1. Valid(r, s) \in BOOLEAN
      BY DEF Valid, Holds
    <2>2. /\ go \in Step /\ go.event = pump[r].event
          /\ go.pc = IF pump[r].pc = "pulled" THEN "take" ELSE "export"
      BY <1>0 DEF Step, Pc, AfterVerdict
    <2>3. wait \in Step /\ wait.event = pump[r].event
          /\ wait.pc = IF pump[r].pc = "pulled" THEN "take-hash" ELSE "export-hash"
      <3> HIDE DEF go
      <3> QED BY <2>1, <2>2 DEF Step, Pc
    <2>4. Becomes(r, wait) \/ Becomes(r, go) \/ Becomes(r, Idle)
      BY <1>1 DEF Reconcile
    <2> HIDE DEF go, wait
    <2> QED BY <2>2, <2>3, <2>4
  <1>5. GoodStep(r, t)
    BY <1>0, <1>2, <1>4, StepFacts DEF GoodStep
  <1>6. pump' \in [Region -> Step] /\ \A q \in Region : GoodStep(q, pump'[q])
    BY <1>0, <1>4, <1>5, PumpMoves DEF WireOk
  <1>7. fenced' \in [Region -> BOOLEAN] /\ acked' \in [Region -> Nat]
    BY <1>0, <1>1, <1>2 DEF Reconcile, StoreOk
  <1>8. StoreOk' /\ BackupOk'
    BY <1>0, <1>2, <1>3, <1>7, StoreSame
  <1>9. WireOk'
    BY <1>0, <1>2, <1>6 DEF WireOk
  <1> QED BY <1>8, <1>9 DEF SyncInv

LEMMA HashedKeeps ==
  ASSUME SyncInv, NEW r \in Region, Hashed(r)
  PROVE  SyncInv'
  <1>0. StoreOk /\ WireOk /\ BackupOk /\ pump[r] \in Step /\ GoodStep(r, pump[r])
    BY DEF SyncInv, WireOk
  <1>1. PICK t : /\ Becomes(r, t)
                 /\ \/ t = Idle
                    \/ t = [pump[r] EXCEPT !.pc = IF @ = "take-hash" THEN "take" ELSE "export",
                                           !.verdict = FALSE]
    BY DEF Hashed
  <1>2. GoodStep(r, t)
    <2>1. CASE t = Idle
      BY <2>1, StepFacts
    <2>2. CASE t = [pump[r] EXCEPT !.pc = IF @ = "take-hash" THEN "take" ELSE "export",
                                   !.verdict = FALSE]
      <3>1. t \in Step /\ t.event = pump[r].event
            /\ t.pc = IF pump[r].pc = "take-hash" THEN "take" ELSE "export"
        BY <1>0, <2>2 DEF Step, Pc
      <3> QED BY <1>0, <3>1 DEF GoodStep
    <2> QED BY <1>1, <2>1, <2>2
  <1>3. pump' \in [Region -> Step] /\ \A q \in Region : GoodStep(q, pump'[q])
    BY <1>0, <1>1, <1>2, PumpMoves DEF WireOk
  <1>4. fenced' \in [Region -> BOOLEAN] /\ UNCHANGED <<storage, era, net, jobs, grants, backup>>
    BY <1>0 DEF Hashed, StoreOk
  <1>5. StoreOk' /\ BackupOk'
    BY <1>0, <1>4, StoreSame DEF storage, StoreOk
  <1>6. WireOk'
    BY <1>0, <1>3, <1>4 DEF WireOk
  <1> QED BY <1>5, <1>6 DEF SyncInv

LEMMA TakeKeeps ==
  ASSUME SyncInv, NEW r \in Region, Take(r)
  PROVE  SyncInv'
  <1>0. StoreOk /\ WireOk /\ BackupOk /\ GoodStep(r, pump[r]) /\ pump[r].pc = "take"
    BY DEF SyncInv, WireOk, Take
  <1>1. PICK e : e = pump[r].event
    OBVIOUS
  <1>2. e \in Event(Peer(r)) \cup {NoEvent}
    BY <1>0, <1>1 DEF GoodStep
  <1>3. UNCHANGED <<outbox, acked, floor, fenced, era, net, jobs, grants, backup>>
    BY DEF Take
  <1>4. StoreOk' /\ BackupOk'
    <2>1. CASE e = NoEvent
      <3>1. UNCHANGED <<inbox, active, current, rows, quota>>
        BY <1>1, <2>1 DEF Take
      <3> QED BY <1>0, <1>3, <3>1 DEF StoreOk, BackupOk
    <2>2. CASE e # NoEvent
      <3>1. Receive(r, e)
        BY <1>1, <2>2 DEF Take
      <3> QED BY <1>0, <1>2, <1>3, <2>2, <3>1, ReceiveKeeps
    <2> QED BY <2>1, <2>2
  <1>5. pump' \in [Region -> Step] /\ \A q \in Region : GoodStep(q, pump'[q])
    <2>1. Becomes(r, [Idle EXCEPT !.pc = "deliver"]) \/ Becomes(r, Idle)
      BY DEF Take
    <2> QED BY <1>0, <2>1, StepFacts, PumpMoves DEF WireOk
  <1>6. WireOk'
    BY <1>0, <1>3, <1>5 DEF WireOk
  <1> QED BY <1>4, <1>6 DEF SyncInv

LEMMA ReadStatusKeeps ==
  ASSUME SyncInv, NEW r \in Region, ReadStatus(r)
  PROVE  SyncInv'
  <1>1. StoreOk' /\ BackupOk'
    BY StoreSame DEF SyncInv, ReadStatus, storage, StoreOk
  <1>2. GoodStep(r, [Idle EXCEPT !.pc = "status", !.status = Status(Peer(r))])
    BY PeerFacts, ReceiptFacts, StepFacts DEF SyncInv
  <1>3. pump' \in [Region -> Step] /\ \A q \in Region : GoodStep(q, pump'[q])
    BY <1>2, PumpMoves DEF SyncInv, WireOk, ReadStatus
  <1>4. UNCHANGED <<net, jobs, grants>>
    BY DEF ReadStatus
  <1> QED BY <1>1, <1>3, <1>4 DEF SyncInv, WireOk

LEMMA ExportKeeps ==
  ASSUME SyncInv, NEW r \in Region, Export(r)
  PROVE  SyncInv'
  <1>0. StoreOk /\ WireOk /\ BackupOk /\ pump[r] \in Step
    BY DEF SyncInv, WireOk
  <1>1. PICK n, e : n = pump[r].status.received /\ e = EventAfter(r, n)
    OBVIOUS
  <1>2. n \in Nat /\ e \in Event(r) \cup {NoEvent}
    BY <1>0, <1>1, ReceiptFacts DEF Step, Receipt
  <1>3. UNCHANGED <<outbox, inbox, floor, active, current, rows, quota, fenced, era,
                    jobs, grants, backup>>
    BY DEF Export
  <1>4. CASE e # NoEvent
    <2>1. PICK m : /\ m = [kind |-> "post", from |-> r, status |-> NoStatus,
                           event |-> e, live |-> TRUE]
                   /\ net' = net \cup {m} /\ acked' = acked
                   /\ Becomes(r, [Idle EXCEPT !.pc = "post", !.event = e])
      BY <1>1, <1>4 DEF Export
    <2>2. GoodMessage(m)
      BY <1>0, <1>2, <1>4, <2>1, ReceiptFacts DEF GoodMessage
    <2>3. pump' \in [Region -> Step] /\ \A q \in Region : GoodStep(q, pump'[q])
      BY <1>0, <1>2, <1>4, <2>1, StepFacts, PumpMoves DEF WireOk
    <2>4. StoreOk' /\ BackupOk'
      BY <1>0, <1>3, <2>1, StoreSame DEF StoreOk
    <2>5. WireOk'
      BY <1>0, <1>3, <2>1, <2>2, <2>3 DEF WireOk
    <2> QED BY <2>4, <2>5 DEF SyncInv
  <1>5. CASE e = NoEvent
    <2>1. /\ acked' = [acked EXCEPT ![r] = IF n <= Len(outbox[r]) THEN Greater(@, n) ELSE @]
          /\ Becomes(r, Idle) /\ net' = net
      BY <1>1, <1>5 DEF Export
    <2>2. acked' \in [Region -> Nat]
      <3>1. (IF n <= Len(outbox[r]) THEN Greater(acked[r], n) ELSE acked[r]) \in Nat
        BY <1>0, <1>2 DEF StoreOk, Greater
      <3> QED BY <1>0, <2>1, <3>1 DEF StoreOk
    <2>3. pump' \in [Region -> Step] /\ \A q \in Region : GoodStep(q, pump'[q])
      BY <1>0, <2>1, StepFacts, PumpMoves DEF WireOk
    <2>4. StoreOk' /\ BackupOk'
      BY <1>0, <1>3, <2>2, StoreSame DEF StoreOk
    <2>5. WireOk'
      BY <1>0, <1>3, <2>1, <2>3 DEF WireOk
    <2> QED BY <2>4, <2>5 DEF SyncInv
  <1> QED BY <1>4, <1>5

LEMMA PostArrivesKeeps ==
  ASSUME SyncInv, NEW m \in net, PostArrives(m)
  PROVE  SyncInv'
  <1>0. StoreOk /\ WireOk /\ BackupOk /\ GoodMessage(m) /\ m.kind = "post"
    BY DEF SyncInv, WireOk, PostArrives
  <1>1. PICK o : o = Peer(m.from) /\ o \in Region /\ m.from = Peer(o) /\ m.from \in Region
    BY <1>0, PeerFacts DEF GoodMessage
  <1>2. m.event \in Event(Peer(o))
    BY <1>0, <1>1 DEF GoodMessage
  <1>3. Receive(o, m.event) /\ net' \subseteq net
        /\ UNCHANGED <<outbox, acked, floor, fenced, era, jobs, grants, backup>>
    BY <1>1 DEF PostArrives
  <1>4. StoreOk' /\ BackupOk'
    BY <1>0, <1>1, <1>2, <1>3, ReceiveKeeps
  <1>5. pump' \in [Region -> Step] /\ \A q \in Region : GoodStep(q, pump'[q])
    <2>1. PICK n : n = Greater(Len(inbox[o]), m.event.sequence)
      OBVIOUS
    <2>2. n \in Nat
      BY <1>0, <1>1, <1>2, <2>1 DEF Greater, Event, StoreOk
    <2>3. PICK s : s = [pump[m.from] EXCEPT !.pc = "posted", !.held = n]
      OBVIOUS
    <2>4. GoodStep(m.from, s)
      BY <1>0, <1>1, <2>2, <2>3 DEF GoodStep, Step, Pc, WireOk
    <2>5. pump' = pump \/ Becomes(m.from, s) \/ Becomes(m.from, Idle)
      BY <1>1, <2>1, <2>3 DEF PostArrives
    <2> QED BY <1>0, <1>1, <2>4, <2>5, StepFacts, PumpMoves DEF WireOk
  <1>6. WireOk'
    BY <1>0, <1>3, <1>5 DEF WireOk
  <1> QED BY <1>4, <1>6 DEF SyncInv

LEMMA AcknowledgeKeeps ==
  ASSUME SyncInv, NEW r \in Region, Acknowledge(r)
  PROVE  SyncInv'
  <1>0. StoreOk /\ WireOk /\ BackupOk /\ pump[r] \in Step
    BY DEF SyncInv, WireOk
  <1>1. PICK n : n = pump[r].held /\ n \in Nat
    BY <1>0 DEF Step
  <1>2. /\ acked' = [acked EXCEPT ![r] = IF n <= Len(outbox[r]) THEN Greater(@, n) ELSE @]
        /\ Becomes(r, Idle)
        /\ UNCHANGED <<outbox, inbox, floor, active, current, rows, quota, fenced, era,
                       net, jobs, grants, backup>>
    BY <1>1 DEF Acknowledge
  <1>3. acked' \in [Region -> Nat]
    <2>1. (IF n <= Len(outbox[r]) THEN Greater(acked[r], n) ELSE acked[r]) \in Nat
      BY <1>0, <1>1 DEF StoreOk, Greater
    <2> QED BY <1>0, <1>2, <2>1 DEF StoreOk
  <1>4. StoreOk' /\ BackupOk'
    BY <1>0, <1>2, <1>3, StoreSame DEF StoreOk
  <1>5. pump' \in [Region -> Step] /\ \A q \in Region : GoodStep(q, pump'[q])
    BY <1>0, <1>2, StepFacts, PumpMoves DEF WireOk
  <1>6. WireOk'
    BY <1>0, <1>2, <1>5 DEF WireOk
  <1> QED BY <1>4, <1>6 DEF SyncInv

LEMMA GiveUpKeeps ==
  ASSUME SyncInv, NEW r \in Region, GiveUp(r)
  PROVE  SyncInv'
  <1>0. StoreOk /\ WireOk /\ BackupOk
    BY DEF SyncInv
  <1>1. StoreOk' /\ BackupOk'
    BY <1>0, StoreSame DEF GiveUp, storage, StoreOk
  <1>2. pump' \in [Region -> Step] /\ \A q \in Region : GoodStep(q, pump'[q])
    BY <1>0, StepFacts, PumpMoves DEF WireOk, GiveUp
  <1>3. \A m \in net' : GoodMessage(m)
    <2>1. ASSUME NEW m \in net
          PROVE  GoodMessage([m EXCEPT !.live = FALSE])
      <3>1. GoodMessage(m)
        BY <1>0 DEF WireOk
      <3>2. PICK k : k = [m EXCEPT !.live = FALSE]
        OBVIOUS
      <3>3. k.kind = m.kind /\ k.from = m.from /\ k.event = m.event
        BY <3>1, <3>2 DEF GoodMessage
      <3>4. k \in [kind : {"pull", "post"}, from : Region, status : Receipt,
                   event : Event(m.from) \cup {NoEvent}, live : BOOLEAN]
        BY <3>1, <3>2 DEF GoodMessage
      <3> QED BY <3>1, <3>2, <3>3, <3>4 DEF GoodMessage
    <2>2. net' \subseteq net \/ net' = Abandoned(r)
      BY DEF GiveUp
    <2> QED BY <1>0, <2>1, <2>2 DEF WireOk, Abandoned
  <1>4. jobs' \subseteq Job
    <2>1. \A j \in Job : [j EXCEPT !.live = FALSE] \in Job
      BY DEF Job
    <2>2. jobs' = Forgotten(r)
      BY DEF GiveUp
    <2> QED BY <1>0, <2>1, <2>2 DEF WireOk, Forgotten
  <1>5. grants' = grants
    BY DEF GiveUp
  <1> QED BY <1>0, <1>1, <1>2, <1>3, <1>4, <1>5 DEF SyncInv, WireOk

(* Calls cut off by a store that fails.                                    *)
LEMMA CutOffKeeps ==
  ASSUME WireOk, NEW r \in Region, pump' = CutOff(r), jobs' \subseteq jobs,
         UNCHANGED <<net, grants>>
  PROVE  WireOk'
  <1>1. \A q \in Region : pump'[q] \in {Retry, pump[q]}
    BY DEF CutOff
  <1>2. \A q \in Region : GoodStep(q, pump'[q])
    BY <1>1, StepFacts DEF WireOk
  <1>3. pump' \in [Region -> Step]
    BY <1>2 DEF CutOff, GoodStep
  <1> QED BY <1>2, <1>3 DEF WireOk

LEMMA RestartKeeps ==
  ASSUME SyncInv, NEW r \in Region, Restart(r)
  PROVE  SyncInv'
  <1>1. StoreOk' /\ BackupOk'
    BY StoreSame DEF SyncInv, Restart, Reopened, storage, StoreOk
  <1>2. WireOk'
    BY CutOffKeeps DEF SyncInv, Restart
  <1> QED BY <1>1, <1>2 DEF SyncInv

LEMMA BackupKeeps ==
  ASSUME SyncInv, NEW r \in Region, Backup(r)
  PROVE  SyncInv'
  <1>0. StoreOk /\ WireOk /\ BackupOk
    BY DEF SyncInv
  <1>1. /\ backup' = [of |-> r, outbox |-> Len(outbox[r]), inbox |-> Len(inbox[r]),
                      acked |-> acked[r], floor |-> floor[r], active |-> active[r],
                      current |-> current[r], rows |-> rows[r], quota |-> quota[r]]
        /\ UNCHANGED <<outbox, inbox, acked, floor, active, current, rows, quota, fenced,
                       era, pump, net, jobs, grants>>
    BY DEF Backup, storage
  <1>2. outbox[r] \in Seq(Change) /\ inbox[r] \in Seq(Change)
        /\ Graph(GraphOf(outbox[r], inbox[r]), active[r])
    BY <1>0 DEF StoreOk
  <1>3. backup' \in Copy
    BY <1>0, <1>1, <1>2 DEF Copy, StoreOk
  <1>4. SubSeq(outbox[r], 1, Len(outbox[r])) = outbox[r] /\ SubSeq(inbox[r], 1, Len(inbox[r])) = inbox[r]
    BY <1>2
  <1>5. GoodCopy(backup', outbox, inbox)
    <2>1. PICK b : b = backup'
      OBVIOUS
    <2>2. b.of = r /\ b.outbox = Len(outbox[r]) /\ b.inbox = Len(inbox[r]) /\ b.active = active[r]
      BY <1>1, <2>1
    <2>3. b.outbox <= Len(outbox[r]) /\ b.inbox <= Len(inbox[r])
      BY <1>2, <2>2
    <2> QED BY <1>2, <1>3, <1>4, <2>1, <2>2, <2>3 DEF GoodCopy
  <1>6. BackupOk'
    BY <1>1, <1>5 DEF BackupOk
  <1>7. StoreOk' /\ WireOk'
    BY <1>0, <1>1 DEF StoreOk, WireOk
  <1> QED BY <1>6, <1>7 DEF SyncInv

LEMMA RestoreKeeps ==
  ASSUME SyncInv, NEW r \in Region, Restore(r)
  PROVE  SyncInv'
  <1>0. StoreOk /\ WireOk /\ backup # None /\ backup.of = r
    BY DEF SyncInv, Restore
  <1>1. GoodCopy(backup, outbox, inbox)
    BY <1>0 DEF SyncInv, BackupOk
  <1>2. PICK b : b = backup
    OBVIOUS
  <1>3. /\ b \in Copy /\ b.outbox <= Len(outbox[r]) /\ b.inbox <= Len(inbox[r])
        /\ Graph(GraphOf(SubSeq(outbox[r], 1, b.outbox), SubSeq(inbox[r], 1, b.inbox)), b.active)
    BY <1>0, <1>1, <1>2 DEF GoodCopy
  <1>4. /\ outbox' = [outbox EXCEPT ![r] = SubSeq(@, 1, b.outbox)]
        /\ inbox' = [inbox EXCEPT ![r] = SubSeq(@, 1, b.inbox)]
        /\ acked' = [acked EXCEPT ![r] = b.acked]
        /\ floor' = [floor EXCEPT ![r] = b.floor]
        /\ active' = [active EXCEPT ![r] = b.active]
        /\ current' = [current EXCEPT ![r] = b.current]
        /\ rows' = [rows EXCEPT ![r] = b.rows]
        /\ quota' = [quota EXCEPT ![r] = b.quota]
        /\ fenced' = [fenced EXCEPT ![r] = TRUE]
        /\ era' = [era EXCEPT ![r] = @ + 1]
        /\ backup' = None /\ pump' = CutOff(r) /\ jobs' \subseteq jobs
        /\ UNCHANGED <<net, grants>>
    BY <1>2 DEF Restore, Reopened
  <1>5. /\ b.outbox \in Nat /\ b.inbox \in Nat
        /\ outbox \in [Region -> Seq(Change)] /\ inbox \in [Region -> Seq(Change)]
        /\ Named(r, outbox[r]) /\ Named(Peer(r), inbox[r])
    BY <1>0, <1>3 DEF Copy, StoreOk
  <1>6. /\ Named(r, SubSeq(outbox[r], 1, b.outbox))
        /\ Named(Peer(r), SubSeq(inbox[r], 1, b.inbox))
    BY <1>3, <1>5, PrefixNamed
  <1>7. /\ SubSeq(outbox[r], 1, b.outbox) \in Seq(Change)
        /\ SubSeq(inbox[r], 1, b.inbox) \in Seq(Change)
    BY <1>6 DEF Named
  <1>8. /\ outbox' \in [Region -> Seq(Change)] /\ inbox' \in [Region -> Seq(Change)]
    BY <1>4, <1>5, <1>7
  <1>9. /\ acked' \in [Region -> Nat] /\ era' \in [Region -> Nat]
        /\ floor' \in [Region -> Receipt] /\ fenced' \in [Region -> BOOLEAN]
        /\ active' \in [Region -> SUBSET Version]
        /\ current' \in [Region -> [Project -> Version \cup {NoHead}]]
        /\ rows' \in [Region -> SUBSET Project]
        /\ quota' \in [Region -> [Project -> Nat]]
    <2>1. /\ b.acked \in Nat /\ b.floor \in Receipt /\ b.active \in SUBSET Version
          /\ b.current \in [Project -> Version \cup {NoHead}]
          /\ b.rows \in SUBSET Project /\ b.quota \in [Project -> Nat]
      BY <1>3 DEF Copy
    <2>2. acked' \in [Region -> Nat] /\ era' \in [Region -> Nat]
          /\ floor' \in [Region -> Receipt] /\ fenced' \in [Region -> BOOLEAN]
      BY <1>0, <1>4, <2>1 DEF StoreOk
    <2>3. active' \in [Region -> SUBSET Version] /\ rows' \in [Region -> SUBSET Project]
      BY <1>0, <1>4, <2>1 DEF StoreOk
    <2>4. /\ current' \in [Region -> [Project -> Version \cup {NoHead}]]
          /\ quota' \in [Region -> [Project -> Nat]]
      BY <1>0, <1>4, <2>1 DEF StoreOk
    <2> QED BY <2>2, <2>3, <2>4
  <1>10. ASSUME NEW q \in Region
         PROVE  Named(q, outbox'[q]) /\ Named(Peer(q), inbox'[q])
                /\ Graph(GraphOf(outbox'[q], inbox'[q]), active'[q])
    <2>1. CASE q = r
      <3>1. /\ outbox'[r] = SubSeq(outbox[r], 1, b.outbox)
            /\ inbox'[r] = SubSeq(inbox[r], 1, b.inbox) /\ active'[r] = b.active
        BY <1>0, <1>4, <1>5 DEF StoreOk
      <3> QED BY <1>3, <1>6, <2>1, <3>1
    <2>2. CASE q # r
      <3>1. outbox'[q] = outbox[q] /\ inbox'[q] = inbox[q] /\ active'[q] = active[q]
        BY <1>0, <1>4, <2>2 DEF StoreOk
      <3> QED BY <1>0, <3>1 DEF StoreOk
    <2> QED BY <2>1, <2>2
  <1>11. StoreOk'
    BY <1>8, <1>9, <1>10 DEF StoreOk
  <1>12. BackupOk'
    BY <1>4 DEF BackupOk
  <1>13. WireOk'
    BY <1>0, <1>4, CutOffKeeps
  <1> QED BY <1>11, <1>12, <1>13 DEF SyncInv

LEMMA InitIsGood == Init => SyncInv
  <1> SUFFICES ASSUME Init
               PROVE  SyncInv
    OBVIOUS
  <1>1. GraphOf(<<>>, <<>>) = {}
    BY DEF GraphOf, Entries
  <1>2. Graph({}, {})
    BY DEF Graph
  <1>3. \A r \in Region : Named(r, <<>>) /\ Named(Peer(r), <<>>)
    BY DEF Named
  <1>4. NoStatus \in Receipt
    BY DEF NoStatus, Receipt
  <1>5. /\ outbox \in [Region -> Seq(Change)] /\ inbox \in [Region -> Seq(Change)]
        /\ acked \in [Region -> Nat] /\ era \in [Region -> Nat]
        /\ floor \in [Region -> Receipt] /\ fenced \in [Region -> BOOLEAN]
        /\ active \in [Region -> SUBSET Version]
        /\ current \in [Region -> [Project -> Version \cup {NoHead}]]
        /\ rows \in [Region -> SUBSET Project]
        /\ quota \in [Region -> [Project -> Nat]]
    BY <1>4, SyncAssumption DEF Init
  <1>6. StoreOk
    BY <1>1, <1>2, <1>3, <1>5 DEF StoreOk, Init
  <1>7. pump \in [Region -> Step] /\ \A r \in Region : GoodStep(r, pump[r])
    BY StepFacts DEF Init, GoodStep
  <1>8. WireOk
    BY <1>7 DEF WireOk, Init
  <1>9. BackupOk
    BY DEF BackupOk, Init
  <1> QED BY <1>6, <1>8, <1>9 DEF SyncInv

LEMMA NextKeeps == SyncInv /\ [Next]_vars => SyncInv'
  <1> SUFFICES ASSUME SyncInv, [Next]_vars
               PROVE  SyncInv'
    OBVIOUS
  <1>1. ASSUME NEW r \in Region, Users(r)
        PROVE  SyncInv'
    BY <1>1, UsersKeep
  <1>2. ASSUME NEW r \in Region, Tick(r)
        PROVE  SyncInv'
    BY <1>2, PullSendKeeps, ReconcileKeeps, HashedKeeps, TakeKeeps, ReadStatusKeeps,
       ExportKeeps, AcknowledgeKeeps DEF Tick
  <1>3. ASSUME NEW r \in Region, GiveUp(r) \/ Restart(r) \/ Backup(r) \/ Restore(r)
        PROVE  SyncInv'
    BY <1>3, GiveUpKeeps, RestartKeeps, BackupKeeps, RestoreKeeps
  <1>4. ASSUME NEW p \in Project, Grant(p)
        PROVE  SyncInv'
    BY <1>4, GrantKeeps
  <1>5. ASSUME NEW e \in grants, GrantArrives(e) \/ LoseGrant(e)
        PROVE  SyncInv'
    BY <1>5, GrantArrivesKeeps, LoseGrantKeeps
  <1>6. CASE Arrives
    BY <1>6, PullArrivesKeeps, PostArrivesKeeps DEF Arrives
  <1>7. ASSUME NEW j \in jobs, PullHashed(j)
        PROVE  SyncInv'
    BY <1>7, PullHashedKeeps
  <1>8. CASE UNCHANGED vars
    BY <1>8 DEF vars, storage, SyncInv, StoreOk, WireOk, BackupOk
  <1> QED BY <1>1, <1>2, <1>3, <1>4, <1>5, <1>6, <1>7, <1>8 DEF Next

(* The inductive invariant holds, whatever is lost, repeated, restarted or *)
(* restored (worker/project-sync-journal.ts).                              *)
THEOREM SyncSafe == Spec => []SyncInv
  BY InitIsGood, NextKeeps, PTL DEF Spec

(* Every variable keeps to its type.                                       *)
THEOREM TypeOKHolds == Spec => []TypeOK
  <1>1. SyncInv => TypeOK
    BY DEF SyncInv, StoreOk, TypeOK
  <1> QED BY <1>1, SyncSafe, PTL

(* In every region the heads of a Project are the versions nobody built    *)
(* on, also after a restore from a backup: no accepted save is dropped     *)
(* from the version graph.                                                 *)
THEOREM HeadsAreLeavesHolds == Spec => []HeadsAreLeaves
  <1>1. SyncInv => HeadsAreLeaves
    BY GraphHasLeaves DEF SyncInv, StoreOk, HeadsAreLeaves
  <1> QED BY <1>1, SyncSafe, PTL

-------------------------------------------------------------------------------
(* Without restores.                                                       *)

Behind(s, t) == Len(s) <= Len(t) /\ \A i \in DOMAIN s : i \in DOMAIN t /\ t[i] = s[i]

(* The event e is in the stream s.                                         *)
Genuine(s, e) == e.sequence \in DOMAIN s /\ s[e.sequence] = e.change

TrueMessage(out, in, m) ==
  /\ m.kind = "post" => Genuine(out[m.from], m.event)
  /\ m.status.received <= Len(in[m.from])

TrueStep(out, in, r, s) ==
  /\ s.pc \in {"pulled", "take-hash", "take"} /\ s.event # NoEvent
       => Genuine(out[Peer(r)], s.event)
  /\ s.status.received <= Len(in[Peer(r)])
  /\ s.held <= Len(in[Peer(r)])

WireTrue ==
  /\ \A m \in net : TrueMessage(outbox, inbox, m)
  /\ \A j \in jobs : j.status.received <= Len(inbox[j.from])
  /\ \A e \in grants : Genuine(outbox[Overseas], e)
  /\ \A r \in Region : TrueStep(outbox, inbox, r, pump[r])
  /\ \A r \in Region : acked[r] <= Len(inbox[Peer(r)])

Agreed == \A r \in Region : Behind(inbox[Peer(r)], outbox[r])

(* A version that r issued before another one of the Project was built on  *)
(* by then.                                                                *)
BuiltOn(r, h, n) ==
  \/ \E k \in DOMAIN outbox[r] : /\ k <= n /\ outbox[r][k].kind # "quota"
                                 /\ h \in outbox[r][k].parents
  \/ \E k \in DOMAIN inbox[r] : inbox[r][k].kind # "quota" /\ h \in inbox[r][k].parents

Superseded ==
  \A r \in Region : \A j \in DOMAIN outbox[r] : \A i \in 1..(j - 1) :
    /\ outbox[r][i].kind # "quota" /\ outbox[r][j].kind # "quota"
    /\ outbox[r][i].project = outbox[r][j].project
    => BuiltOn(r, outbox[r][i].head, j)

(* The shelf, over the graph N with the active versions a: what it shows   *)
(* of a Project with two heads is the one the region issued itself.        *)
Shelf(r, p, N, a, shown, shelf) ==
  LET versions == {c \in N : c.project = p} IN
  /\ \A c \in versions : c.kind = "delete" => p \notin shelf
  /\ versions = {} => shown = NoHead /\ (p \in shelf => r = Overseas)
  /\ versions # {} /\ (\A c \in versions : c.kind # "delete")
       => /\ p \in shelf
          /\ shown \in a /\ \E c \in versions : c.head = shown
          /\ \A c \in versions : c.head[1] = r /\ c.head \in a => shown = c.head

ShelfOf(r, p) == Shelf(r, p, GraphOf(outbox[r], inbox[r]), active[r], current[r][p], rows[r])

AgreeInv ==
  /\ backup = None
  /\ WireTrue /\ Agreed /\ Superseded
  /\ \A r \in Region, p \in Project : ShelfOf(r, p)

(* What a step may do to a store that is never restored.                   *)
Issues(r, p, kind) ==
  /\ Record(r, p, kind)
  /\ kind = "save" => ~Deleted(r, p) /\ rows' = [rows EXCEPT ![r] = @ \cup {p}]
  /\ kind = "delete" => rows' = [rows EXCEPT ![r] = @ \ {p}]
  /\ UNCHANGED <<inbox, acked, fenced, pump, net, jobs, grants, backup>>

Reserves(c) ==
  /\ c \in Change /\ c.kind = "quota"
  /\ ~fenced[Overseas]
  /\ outbox' = [outbox EXCEPT ![Overseas] = Append(@, c)]
  /\ UNCHANGED <<inbox, acked, fenced, active, current, rows, pump, net, jobs, backup>>

Receives(r, e) ==
  /\ Genuine(outbox[Peer(r)], e) /\ e \in Event(Peer(r))
  /\ Receive(r, e)
  /\ UNCHANGED <<outbox, acked, fenced, backup>>

Rests == UNCHANGED <<outbox, inbox, active, current, rows, backup>>

StoreMoves ==
  \/ \E r \in Region, p \in Project, kind \in {"save", "delete"} : Issues(r, p, kind)
  \/ \E c \in Change : Reserves(c)
  \/ \E r \in Region : \E e \in Event(Peer(r)) : Receives(r, e)
  \/ Rests

LEMMA UsersIssue ==
  ASSUME SyncInv, AgreeInv, NEW r \in Region, Users(r)
  PROVE  \E p \in Project, kind \in {"save", "delete"} : Issues(r, p, kind)
  <1>0. rows \in [Region -> SUBSET Project]
    BY DEF SyncInv, StoreOk
  <1> SUFFICES ASSUME NEW p \in Project,
                      \/ Create(r, p) \/ Capture(r, p) \/ Delete(r, p)
                      \/ \E token \in active[r] : Save(r, p, token)
                      \/ \E named \in {HeadsOf(r, p)} : Resolve(r, p, named)
               PROVE  \E kind \in {"save", "delete"} : Issues(r, p, kind)
    BY DEF Users
  <1>1. CASE Create(r, p)
    <2>1. rows' = [rows EXCEPT ![r] = @ \cup {p}] /\ Record(r, p, "save") /\ UsersUnchanged
      BY <1>1 DEF Create
    <2>2. ~Deleted(r, p)
      BY <1>1 DEF Create, Deleted
    <2>3. Issues(r, p, "save")
      BY <2>1, <2>2 DEF Issues, UsersUnchanged
    <2> QED BY <2>3
  <1>2. CASE Capture(r, p) \/ (\E token \in active[r] : Save(r, p, token))
             \/ (\E named \in {HeadsOf(r, p)} : Resolve(r, p, named))
    <2>1. rows' = rows /\ p \in rows[r] /\ Record(r, p, "save") /\ UsersUnchanged
      BY <1>2 DEF Capture, Save, Resolve
    <2>2. ~Deleted(r, p)
      <3>1. ShelfOf(r, p)
        BY DEF AgreeInv
      <3> QED BY <2>1, <3>1, HeadsAreThere DEF ShelfOf, Shelf
    <2>3. rows' = [rows EXCEPT ![r] = @ \cup {p}]
      <3>1. rows[r] \cup {p} = rows[r]
        BY <2>1
      <3> QED BY <1>0, <2>1, <3>1
    <2>4. Issues(r, p, "save")
      BY <2>1, <2>2, <2>3 DEF Issues, UsersUnchanged
    <2> QED BY <2>4
  <1>3. CASE Delete(r, p)
    <2>1. Issues(r, p, "delete")
      BY <1>3 DEF Delete, Issues, UsersUnchanged
    <2> QED BY <2>1
  <1> QED BY <1>1, <1>2, <1>3

-------------------------------------------------------------------------------
(* Streams that only grow.                                                 *)

LEMMA GrownIsBehind ==
  ASSUME NEW s \in Seq(Change), NEW c \in Change
  PROVE  Behind(s, s) /\ Behind(s, Append(s, c))
  BY AppendChange DEF Behind

(* What is true of a request stays true as the streams grow.               *)
Grown(out, in, Out, In) ==
  \A q \in Region : Behind(out[q], Out[q]) /\ Behind(in[q], In[q])

LEMMA TruthStays ==
  ASSUME SyncInv, WireTrue, NEW out, NEW in, out \in [Region -> Seq(Change)],
         in \in [Region -> Seq(Change)], Grown(outbox, inbox, out, in)
  PROVE  /\ \A m \in net : TrueMessage(out, in, m)
         /\ \A j \in jobs : j.status.received <= Len(in[j.from])
         /\ \A e \in grants : Genuine(out[Overseas], e)
         /\ \A r \in Region : TrueStep(out, in, r, pump[r])
         /\ \A r \in Region : acked[r] <= Len(in[Peer(r)])
  <1>1. ASSUME NEW q \in Region, NEW e, Genuine(outbox[q], e)
        PROVE  Genuine(out[q], e)
    BY <1>1 DEF Genuine, Behind, Grown
  <1>2. ASSUME NEW q \in Region, NEW n \in Nat, n <= Len(inbox[q])
        PROVE  n <= Len(in[q])
    <2>1. Len(inbox[q]) <= Len(in[q]) /\ inbox[q] \in Seq(Change) /\ in[q] \in Seq(Change)
      BY DEF Behind, Grown, SyncInv, StoreOk
    <2> QED BY <1>2, <2>1
  <1>3. ASSUME NEW m \in net
        PROVE  TrueMessage(out, in, m)
    <2>1. GoodMessage(m) /\ TrueMessage(outbox, inbox, m)
      BY DEF SyncInv, WireOk, WireTrue
    <2>2. m.from \in Region /\ m.status.received \in Nat
      BY <2>1 DEF GoodMessage, Receipt
    <2> QED BY <1>1, <1>2, <2>1, <2>2 DEF TrueMessage
  <1>4. ASSUME NEW j \in jobs
        PROVE  j.status.received <= Len(in[j.from])
    <2>1. j.from \in Region /\ j.status.received \in Nat /\ j.status.received <= Len(inbox[j.from])
      BY DEF SyncInv, WireOk, WireTrue, Job, Receipt
    <2> QED BY <1>2, <2>1
  <1>5. \A e \in grants : Genuine(out[Overseas], e)
    BY <1>1, PeerFacts DEF WireTrue
  <1>6. ASSUME NEW r \in Region
        PROVE  TrueStep(out, in, r, pump[r]) /\ acked[r] <= Len(in[Peer(r)])
    <2>1. /\ TrueStep(outbox, inbox, r, pump[r]) /\ acked[r] <= Len(inbox[Peer(r)])
          /\ pump[r] \in Step /\ acked[r] \in Nat /\ Peer(r) \in Region
      BY PeerFacts DEF SyncInv, WireOk, WireTrue, StoreOk
    <2>2. pump[r].status.received \in Nat /\ pump[r].held \in Nat
      BY <2>1 DEF Step, Receipt
    <2> QED BY <1>1, <1>2, <2>1, <2>2 DEF TrueStep
  <1> QED BY <1>3, <1>4, <1>5, <1>6

(* A step that only takes from the requests under way.                     *)
LEMMA FewerAreTrue ==
  ASSUME SyncInv, WireTrue, SyncInv', Grown(outbox, inbox, outbox', inbox'),
         net' \subseteq net, jobs' \subseteq jobs, grants' \subseteq grants,
         \A r \in Region : TrueStep(outbox', inbox', r, pump'[r]) \/ pump'[r] = pump[r],
         \A r \in Region : acked'[r] <= Len(inbox'[Peer(r)]) \/ acked'[r] = acked[r]
  PROVE  WireTrue'
  <1>1. outbox' \in [Region -> Seq(Change)] /\ inbox' \in [Region -> Seq(Change)]
    BY DEF SyncInv, StoreOk
  <1>2. /\ \A m \in net : TrueMessage(outbox', inbox', m)
        /\ \A j \in jobs : j.status.received <= Len(inbox'[j.from])
        /\ \A e \in grants : Genuine(outbox'[Overseas], e)
        /\ \A r \in Region : TrueStep(outbox', inbox', r, pump[r])
        /\ \A r \in Region : acked[r] <= Len(inbox'[Peer(r)])
    BY <1>1, TruthStays
  <1> QED BY <1>2 DEF WireTrue

LEMMA StaysGrown ==
  ASSUME SyncInv, UNCHANGED <<outbox, inbox>>
  PROVE  Grown(outbox, inbox, outbox', inbox')
  BY DEF SyncInv, StoreOk, Grown, Behind

LEMMA OutboxGrown ==
  ASSUME SyncInv, NEW r \in Region, NEW c \in Change,
         outbox' = [outbox EXCEPT ![r] = Append(@, c)], inbox' = inbox
  PROVE  /\ Grown(outbox, inbox, outbox', inbox')
         /\ outbox'[r] = Append(outbox[r], c)
         /\ \A q \in Region : q # r => outbox'[q] = outbox[q]
         /\ \A q \in Region : outbox[q] \in Seq(Change) /\ inbox[q] \in Seq(Change)
  BY GrownIsBehind DEF SyncInv, StoreOk, Grown

LEMMA InboxGrown ==
  ASSUME SyncInv, NEW r \in Region, NEW e \in Event(Peer(r)), Receive(r, e), outbox' = outbox
  PROVE  /\ Grown(outbox, inbox, outbox', inbox')
         /\ \A q \in Region : q # r => inbox'[q] = inbox[q]
         /\ Acceptable(r, e) => inbox'[r] = Append(inbox[r], e.change)
         /\ ~Acceptable(r, e) => inbox' = inbox
         /\ \A q \in Region : outbox[q] \in Seq(Change) /\ inbox[q] \in Seq(Change)
  <1>1. e.change \in Change
    BY DEF Event
  <1>2. \A q \in Region : outbox[q] \in Seq(Change) /\ inbox[q] \in Seq(Change)
    BY DEF SyncInv, StoreOk
  <1>3. inbox' = IF Acceptable(r, e) THEN [inbox EXCEPT ![r] = Append(@, e.change)] ELSE inbox
    BY DEF Receive
  <1>4. /\ \A q \in Region : q # r => inbox'[q] = inbox[q]
        /\ Acceptable(r, e) => inbox'[r] = Append(inbox[r], e.change)
        /\ ~Acceptable(r, e) => inbox' = inbox
    BY <1>3 DEF SyncInv, StoreOk
  <1>5. Grown(outbox, inbox, outbox', inbox')
    BY <1>1, <1>2, <1>4, GrownIsBehind DEF Grown
  <1> QED BY <1>2, <1>4, <1>5

LEMMA IssueAgrees ==
  ASSUME SyncInv, Agreed, NEW r \in Region, NEW c \in Change,
         outbox' = [outbox EXCEPT ![r] = Append(@, c)], inbox' = inbox
  PROVE  Agreed'
  <1> SUFFICES ASSUME NEW q \in Region
               PROVE  Behind(inbox[Peer(q)], outbox'[q])
    BY DEF Agreed
  <1>0. Peer(q) \in Region
    BY PeerFacts
  <1>1. /\ outbox'[r] = Append(outbox[r], c) /\ (q # r => outbox'[q] = outbox[q])
        /\ outbox[q] \in Seq(Change) /\ inbox[Peer(q)] \in Seq(Change)
    BY <1>0, OutboxGrown
  <1>2. Behind(inbox[Peer(q)], outbox[q])
    BY DEF Agreed
  <1> QED BY <1>1, <1>2, AppendChange DEF Behind

LEMMA ReceiveAgrees ==
  ASSUME SyncInv, Agreed, NEW r \in Region, NEW e, Receives(r, e)
  PROVE  Agreed'
  <1> SUFFICES ASSUME NEW q \in Region
               PROVE  Behind(inbox'[Peer(q)], outbox[q])
    BY DEF Agreed, Receives
  <1>0. Peer(q) \in Region /\ (Peer(q) = r => q = Peer(r)) /\ Peer(r) \in Region
    BY PeerFacts
  <1>1. Behind(inbox[Peer(q)], outbox[q])
    BY DEF Agreed
  <1>2. /\ r # Peer(q) => inbox'[Peer(q)] = inbox[Peer(q)]
        /\ Acceptable(r, e) => inbox'[r] = Append(inbox[r], e.change)
        /\ ~Acceptable(r, e) => inbox' = inbox
        /\ inbox[r] \in Seq(Change) /\ outbox[q] \in Seq(Change) /\ e.change \in Change
    BY <1>0, InboxGrown DEF Receives, Event
  <1>3. CASE Peer(q) = r /\ Acceptable(r, e)
    <2>1. e.sequence = Len(inbox[r]) + 1 /\ Genuine(outbox[q], e)
      BY <1>0, <1>3 DEF Acceptable, Receives
    <2>2. Len(inbox[r]) + 1 \in DOMAIN outbox[q] /\ outbox[q][Len(inbox[r]) + 1] = e.change
      BY <2>1 DEF Genuine
    <2>3. Behind(inbox[r], outbox[q])
      BY <1>1, <1>3
    <2>4. Behind(Append(inbox[r], e.change), outbox[q])
      BY <1>2, <2>2, <2>3, AppendChange DEF Behind
    <2> QED BY <1>2, <1>3, <2>4
  <1> QED BY <1>1, <1>2, <1>3

-------------------------------------------------------------------------------
(* What is built on.                                                       *)

(* A version that the graph has built on, or that c has for a parent.      *)
LEMMA BuiltOnStays ==
  ASSUME SyncInv, SyncInv', Grown(outbox, inbox, outbox', inbox'),
         NEW r \in Region, NEW h, NEW n, BuiltOn(r, h, n)
  PROVE  BuiltOn(r, h, n)'
  <1>1. Behind(outbox[r], outbox'[r]) /\ Behind(inbox[r], inbox'[r])
    BY DEF Grown
  <1> QED BY <1>1 DEF BuiltOn, Behind

LEMMA SupersededStays ==
  ASSUME SyncInv, SyncInv', Grown(outbox, inbox, outbox', inbox'), Superseded,
         NEW r \in Region, outbox'[r] = outbox[r],
         NEW j \in DOMAIN outbox[r], NEW i \in 1..(j - 1),
         outbox[r][i].kind # "quota", outbox[r][j].kind # "quota",
         outbox[r][i].project = outbox[r][j].project
  PROVE  BuiltOn(r, outbox[r][i].head, j)'
  <1>1. BuiltOn(r, outbox[r][i].head, j)
    BY DEF Superseded
  <1>2. PICK h : h = outbox[r][i].head
    OBVIOUS
  <1>3. BuiltOn(r, h, j)'
    BY <1>1, <1>2, BuiltOnStays
  <1>4. outbox'[r][i].head = h
    BY <1>2
  <1> QED BY <1>3, <1>4 DEF BuiltOn

LEMMA InboxSupersedes ==
  ASSUME SyncInv, SyncInv', Grown(outbox, inbox, outbox', inbox'), Superseded, outbox' = outbox
  PROVE  Superseded'
  <1> SUFFICES ASSUME NEW r \in Region, NEW j \in DOMAIN outbox[r], NEW i \in 1..(j - 1),
                      outbox[r][i].kind # "quota", outbox[r][j].kind # "quota",
                      outbox[r][i].project = outbox[r][j].project
               PROVE  BuiltOn(r, outbox[r][i].head, j)'
    BY DEF Superseded
  <1> QED BY SupersededStays

LEMMA IssueSupersedes ==
  ASSUME SyncInv, SyncInv', Superseded, NEW r \in Region, NEW c \in Change,
         outbox' = [outbox EXCEPT ![r] = Append(@, c)], inbox' = inbox,
         c.kind # "quota" => c.project \in Project /\ c.parents = HeadsOf(r, c.project)
  PROVE  Superseded'
  <1>0. /\ Grown(outbox, inbox, outbox', inbox')
        /\ outbox'[r] = Append(outbox[r], c)
        /\ \A q \in Region : q # r => outbox'[q] = outbox[q]
        /\ \A q \in Region : outbox[q] \in Seq(Change) /\ inbox[q] \in Seq(Change)
    BY OutboxGrown
  <1> SUFFICES ASSUME NEW q \in Region, NEW j \in DOMAIN outbox'[q], NEW i \in 1..(j - 1),
                      outbox'[q][i].kind # "quota", outbox'[q][j].kind # "quota",
                      outbox'[q][i].project = outbox'[q][j].project
               PROVE  BuiltOn(q, outbox[q][i].head, j)' /\ outbox'[q][i] = outbox[q][i]
    BY DEF Superseded
  <1>1. CASE q # r
    <2>1. outbox'[q] = outbox[q]
      BY <1>0, <1>1
    <2> QED BY <1>0, <2>1, SupersededStays
  <1>2. CASE q = r
    <2>0. /\ DOMAIN outbox'[r] = DOMAIN outbox[r] \cup {Len(outbox[r]) + 1}
          /\ \A k \in DOMAIN outbox[r] : outbox'[r][k] = outbox[r][k]
          /\ outbox'[r][Len(outbox[r]) + 1] = c
      BY <1>0, AppendChange
    <2>1. i \in DOMAIN outbox[r] /\ outbox'[r][i] = outbox[r][i] /\ j \in Nat
      BY <1>0, <1>2, <2>0
    <2>2. PICK d : d = outbox[r][i]
      OBVIOUS
    <2>3. CASE j # Len(outbox[r]) + 1
      <3>1. j \in DOMAIN outbox[r] /\ outbox'[r][j] = outbox[r][j]
        BY <1>2, <2>0, <2>3
      <3>2. BuiltOn(r, d.head, j)
        BY <1>2, <2>1, <2>2, <3>1 DEF Superseded
      <3>3. BuiltOn(r, d.head, j)'
        BY <1>0, <3>2, BuiltOnStays
      <3> QED BY <1>2, <2>1, <2>2, <3>3 DEF BuiltOn
    <2>4. CASE j = Len(outbox[r]) + 1
      <3>0. c.kind # "quota" /\ c.project = d.project /\ d.kind # "quota"
            /\ d \in GraphOf(outbox[r], inbox[r]) /\ d.project \in Project
        BY <1>0, <1>2, <2>0, <2>1, <2>2, <2>4 DEF GraphOf, Entries, Change
      <3>1. Graph(GraphOf(outbox[r], inbox[r]), active[r])
        BY DEF SyncInv, StoreOk
      <3>2. CASE d.head \in active[r]
        <4>1. d.head \in c.parents
          BY <3>0, <3>2, HeadsAreThere
        <4>2. outbox'[r][j] = c /\ j \in DOMAIN outbox'[r]
          BY <2>0, <2>4
        <4> QED BY <1>2, <2>1, <2>2, <3>0, <4>1, <4>2 DEF BuiltOn
      <3>3. CASE d.head \notin active[r]
        <4>1. PICK x \in GraphOf(outbox[r], inbox[r]) : d.head \in x.parents
          BY <3>0, <3>1, <3>3 DEF Graph
        <4>2. BuiltOn(r, d.head, j)
          <5>1. CASE x \in Entries(outbox[r])
            <6>1. PICK k \in DOMAIN outbox[r] : x = outbox[r][k]
              BY <5>1 DEF Entries
            <6>2. k <= j
              BY <1>0, <2>4, <6>1
            <6> QED BY <4>1, <6>1, <6>2 DEF BuiltOn, GraphOf
          <5>2. CASE x \in Entries(inbox[r])
            BY <4>1, <5>2 DEF BuiltOn, GraphOf, Entries
          <5> QED BY <4>1, <5>1, <5>2 DEF GraphOf
        <4>3. BuiltOn(r, d.head, j)'
          BY <1>0, <4>2, BuiltOnStays
        <4> QED BY <1>2, <2>1, <2>2, <4>3 DEF BuiltOn
      <3> QED BY <3>2, <3>3
    <2> QED BY <2>3, <2>4
  <1> QED BY <1>1, <1>2

(* Of the versions that came from the peer, a head is a parent of the next *)
(* one that the region accepts.                                            *)
LEMMA ReceivedHeadIsParent ==
  ASSUME SyncInv, AgreeInv, NEW r \in Region, NEW e, e \in Event(Peer(r)),
         Genuine(outbox[Peer(r)], e), Acceptable(r, e), e.change.kind # "quota",
         NEW d \in GraphOf(outbox[r], inbox[r]), d.project = e.change.project,
         d.head \in active[r], d.head[1] # r
  PROVE  d.head \in e.change.parents
  <1> DEFINE o == Peer(r)
             n == Len(inbox[r]) + 1
  <1>0. /\ o \in Region /\ o # r /\ Peer(o) = r
        /\ outbox[r] \in Seq(Change) /\ inbox[r] \in Seq(Change)
        /\ outbox[o] \in Seq(Change) /\ inbox[o] \in Seq(Change)
        /\ Named(r, outbox[r]) /\ Graph(GraphOf(outbox[r], inbox[r]), active[r])
    BY PeerFacts DEF SyncInv, StoreOk
  <1>1. Behind(inbox[r], outbox[o]) /\ Behind(inbox[o], outbox[r])
    BY <1>0 DEF AgreeInv, Agreed
  <1>2. n \in DOMAIN outbox[o] /\ outbox[o][n] = e.change
    BY DEF Genuine, Acceptable
  <1>3. PICK i \in DOMAIN inbox[r] : d = inbox[r][i]
    BY <1>0 DEF GraphOf, Entries, Named
  <1>4. i \in 1..(n - 1) /\ outbox[o][i] = d
    BY <1>0, <1>1, <1>3 DEF Behind
  <1>5. d.kind # "quota"
    BY DEF GraphOf
  <1>6. BuiltOn(o, d.head, n)
    BY <1>0, <1>2, <1>4, <1>5 DEF AgreeInv, Superseded
  <1>7. \A x \in GraphOf(outbox[r], inbox[r]) : d.head \notin x.parents
    BY <1>0 DEF Graph
  <1>8. CASE \E k \in DOMAIN outbox[o] : /\ k <= n /\ outbox[o][k].kind # "quota"
                                         /\ d.head \in outbox[o][k].parents
    <2>1. PICK k \in DOMAIN outbox[o] : /\ k <= n /\ outbox[o][k].kind # "quota"
                                        /\ d.head \in outbox[o][k].parents
      BY <1>8
    <2>2. CASE k = n
      BY <1>2, <2>1, <2>2
    <2>3. CASE k # n
      <3>1. k \in DOMAIN inbox[r]
        BY <1>0, <2>1, <2>3
      <3>2. inbox[r][k] = outbox[o][k]
        BY <1>1, <3>1 DEF Behind
      <3>3. inbox[r][k] \in GraphOf(outbox[r], inbox[r])
        BY <2>1, <3>1, <3>2 DEF GraphOf, Entries
      <3> QED BY <1>7, <2>1, <3>2, <3>3
    <2> QED BY <2>2, <2>3
  <1>9. CASE \E k \in DOMAIN inbox[o] : inbox[o][k].kind # "quota" /\ d.head \in inbox[o][k].parents
    <2>1. PICK k \in DOMAIN inbox[o] : inbox[o][k].kind # "quota" /\ d.head \in inbox[o][k].parents
      BY <1>9
    <2>2. k \in DOMAIN outbox[r] /\ outbox[r][k] = inbox[o][k]
      BY <1>1, <2>1 DEF Behind
    <2>3. inbox[o][k] \in GraphOf(outbox[r], inbox[r])
      BY <2>1, <2>2 DEF GraphOf, Entries
    <2> QED BY <1>7, <2>1, <2>3
  <1> QED BY <1>6, <1>8, <1>9 DEF BuiltOn

-------------------------------------------------------------------------------
(* The shelf.                                                              *)

(* A new version of one Project leaves the shelf of the others as it is.   *)
LEMMA OthersShown ==
  ASSUME NEW r, NEW q, NEW N, NEW a, NEW shown, NEW shelf, NEW after,
         Graph(N, a), Shelf(r, q, N, a, shown, shelf), q \in shelf <=> q \in after,
         NEW c \in Change, c.project # q, \A d \in N : d.head # c.head,
         \A h \in c.parents : \E d \in N : d.head = h /\ d.project = c.project
  PROVE  Shelf(r, q, N \cup {c}, (a \ c.parents) \cup {c.head}, shown, after)
  <1> DEFINE b == (a \ c.parents) \cup {c.head}
             versions == {d \in N : d.project = q}
  <1>1. {d \in N \cup {c} : d.project = q} = versions
    OBVIOUS
  <1>2. \A d \in versions : d.head \notin c.parents /\ d.head # c.head
    BY DEF Graph
  <1>3. \A d \in versions : d.head \in b <=> d.head \in a
    BY <1>2
  <1>4. /\ \A d \in versions : d.kind = "delete" => q \notin shelf
        /\ versions = {} => shown = NoHead /\ (q \in shelf => r = Overseas)
        /\ versions # {} /\ (\A d \in versions : d.kind # "delete")
             => /\ q \in shelf
                /\ shown \in a /\ \E d \in versions : d.head = shown
                /\ \A d \in versions : d.head[1] = r /\ d.head \in a => shown = d.head
    BY DEF Shelf
  <1>5. /\ \A d \in versions : d.kind = "delete" => q \notin after
        /\ versions = {} => shown = NoHead /\ (q \in after => r = Overseas)
        /\ versions # {} /\ (\A d \in versions : d.kind # "delete")
             => /\ q \in after
                /\ shown \in b /\ \E d \in versions : d.head = shown
                /\ \A d \in versions : d.head[1] = r /\ d.head \in b => shown = d.head
    BY <1>3, <1>4
  <1> HIDE DEF versions, b
  <1> QED BY <1>1, <1>5 DEF Shelf, b

(* A region shows the version that it issued.                              *)
LEMMA IssuedShown ==
  ASSUME NEW r, NEW N, NEW a, NEW c \in Change, NEW after,
         Graph(N, a), \A d \in N : d.head # c.head,
         \A d \in N : d.project = c.project /\ d.head \in a => d.head \in c.parents,
         c.kind = "delete" => c.project \notin after,
         c.kind # "delete" => c.project \in after
                              /\ \A d \in N : d.project = c.project => d.kind # "delete"
  PROVE  Shelf(r, c.project, N \cup {c}, (a \ c.parents) \cup {c.head}, c.head, after)
  <1> DEFINE b == (a \ c.parents) \cup {c.head}
             versions == {d \in N \cup {c} : d.project = c.project}
  <1>1. c \in versions
    OBVIOUS
  <1>2. \A d \in versions : d.head \in b => d.head = c.head
    OBVIOUS
  <1>3. \A d \in versions : d.kind = "delete" => c.project \notin after
    OBVIOUS
  <1>4. (\A d \in versions : d.kind # "delete") => c.project \in after
    BY <1>1
  <1>5. c.head \in b
    OBVIOUS
  <1> HIDE DEF b
  <1> QED BY <1>1, <1>2, <1>3, <1>4, <1>5 DEF Shelf, b

(* What a region shows after it received c: with another head left, which  *)
(* is its own, that one.                                                   *)
LEMMA ReceivedShown ==
  ASSUME NEW r, NEW N, NEW a, NEW shown, NEW shelf, NEW after, NEW then, NEW c \in Change,
         Graph(N, a), Shelf(r, c.project, N, a, shown, shelf),
         \A d \in N : d.head # c.head, c.head[1] # r,
         \A d \in N : d.project = c.project /\ d.head \in a /\ d.head[1] # r
                        => d.head \in c.parents,
         NEW tomb \in BOOLEAN,
         tomb <=> (c.kind = "delete" \/ \E d \in N : d.project = c.project /\ d.kind = "delete"),
         NEW conflict \in BOOLEAN,
         conflict <=> \E d \in N : d.project = c.project /\ d.head \in a /\ d.head \notin c.parents,
         tomb => c.project \notin after,
         ~tomb /\ conflict => (c.project \in after <=> c.project \in shelf) /\ then = shown,
         ~tomb /\ ~conflict => c.project \in after /\ then = c.head
  PROVE  Shelf(r, c.project, N \cup {c}, (a \ c.parents) \cup {c.head}, then, after)
  <1> DEFINE p == c.project
             b == (a \ c.parents) \cup {c.head}
             old == {d \in N : d.project = p}
             versions == {d \in N \cup {c} : d.project = p}
  <1>0. versions = old \cup {c}
    OBVIOUS
  <1>1. CASE tomb
    <2>1. p \notin after /\ \E d \in versions : d.kind = "delete"
      BY <1>1
    <2>2. \A d \in versions : d.kind = "delete" => p \notin after
      BY <2>1
    <2> HIDE DEF b
    <2> QED BY <1>0, <2>1, <2>2 DEF Shelf, b
  <1>2. CASE ~tomb /\ ~conflict
    <2>1. \A d \in old : d.head \notin b
      BY <1>2
    <2>2. \A d \in versions : d.head[1] = r /\ d.head \in b => then = d.head
      BY <1>0, <2>1
    <2>3. \A d \in versions : d.kind # "delete"
      BY <1>2
    <2>4. p \in after /\ then = c.head /\ c.head \in b
      BY <1>2
    <2> HIDE DEF b
    <2> QED BY <1>0, <2>2, <2>3, <2>4 DEF Shelf, b
  <1>3. CASE ~tomb /\ conflict
    <2>1. \A d \in versions : d.kind # "delete"
      BY <1>3
    <2>2. PICK d \in old : d.head \in a /\ d.head \notin c.parents
      BY <1>3
    <2>3. d.head[1] = r
      BY <2>2
    <2>4. old # {} /\ \A x \in old : x.kind # "delete"
      BY <1>0, <2>1, <2>2
    <2>5. p \in shelf /\ \A x \in old : x.head[1] = r /\ x.head \in a => shown = x.head
      BY <2>4 DEF Shelf
    <2>6. shown = d.head /\ shown \in b
      BY <2>2, <2>3, <2>5
    <2>7. p \in after /\ then = shown
      BY <1>3, <2>5
    <2>8. \A x \in versions : x.head[1] = r /\ x.head \in b => shown = x.head
      BY <1>0, <2>5
    <2>9. d \in versions
      BY <1>0, <2>2
    <2> HIDE DEF b, old
    <2> QED BY <1>0, <2>1, <2>6, <2>7, <2>8, <2>9 DEF Shelf, b
  <1> QED BY <1>1, <1>2, <1>3

LEMMA ShelfSame ==
  ASSUME AgreeInv, NEW q \in Region, NEW p \in Project,
         GraphOf(outbox[q], inbox[q])' = GraphOf(outbox[q], inbox[q]),
         active'[q] = active[q], current'[q] = current[q], rows'[q] = rows[q]
  PROVE  ShelfOf(q, p)'
  <1>1. ShelfOf(q, p)
    BY DEF AgreeInv
  <1> QED BY <1>1 DEF ShelfOf

LEMMA IssueShelf ==
  ASSUME SyncInv, AgreeInv, NEW r \in Region, NEW p \in Project,
         NEW kind \in {"save", "delete"}, Issues(r, p, kind)
  PROVE  \A q \in Region, x \in Project : ShelfOf(q, x)'
  <1>0. PICK c : c = Issued(r, p, kind, 0)
    OBVIOUS
  <1>1. /\ c \in Change /\ c.head[1] = r /\ c.head[2] = Len(outbox[r]) + 1
        /\ c.kind = kind /\ c.project = p /\ c.parents = HeadsOf(r, p)
        /\ \A h \in c.parents : \E d \in GraphOf(outbox[r], inbox[r]) :
                                   d.head = h /\ d.project = c.project
    <2>1. StoreOk
      BY DEF SyncInv
    <2> QED BY <1>0, <2>1, IssuedFacts
  <1>2. /\ outbox' = [outbox EXCEPT ![r] = Append(@, c)] /\ inbox' = inbox
        /\ active' = [active EXCEPT ![r] = (@ \ c.parents) \cup {c.head}]
        /\ current' = [current EXCEPT ![r][p] = c.head]
        /\ kind = "save" => ~Deleted(r, p) /\ rows' = [rows EXCEPT ![r] = @ \cup {p}]
        /\ kind = "delete" => rows' = [rows EXCEPT ![r] = @ \ {p}]
    BY <1>0 DEF Issues, Record
  <1>3. PICK N, a : N = GraphOf(outbox[r], inbox[r]) /\ a = active[r]
    OBVIOUS
  <1>4. /\ outbox \in [Region -> Seq(Change)] /\ inbox \in [Region -> Seq(Change)]
        /\ active \in [Region -> SUBSET Version]
        /\ current \in [Region -> [Project -> Version \cup {NoHead}]]
        /\ rows \in [Region -> SUBSET Project]
        /\ Named(r, outbox[r]) /\ Named(Peer(r), inbox[r])
        /\ Graph(N, a)
    BY <1>3 DEF SyncInv, StoreOk
  <1>5. /\ GraphOf(outbox'[r], inbox'[r]) = N \cup {c}
        /\ active'[r] = (a \ c.parents) \cup {c.head}
    <2>1. c.kind # "quota" /\ outbox'[r] = Append(outbox[r], c) /\ inbox'[r] = inbox[r]
      BY <1>1, <1>2, <1>4
    <2>2. GraphOf(Append(outbox[r], c), inbox[r]) = N \cup {c}
      <3>1. outbox[r] \in Seq(Change) /\ inbox[r] \in Seq(Change)
        BY <1>4
      <3>2. GraphOf(Append(outbox[r], c), inbox[r]) = GraphOf(outbox[r], inbox[r]) \cup {c}
        BY <1>1, <2>1, <3>1, GraphOfAppend
      <3> QED BY <1>3, <3>2
    <2>3. active'[r] = (a \ c.parents) \cup {c.head}
      BY <1>2, <1>3, <1>4
    <2> QED BY <2>1, <2>2, <2>3
  <1>6. \A d \in N : d.head # c.head
    BY <1>1, <1>3, <1>4, GraphIsNamed, PeerFacts
  <1>7. ASSUME NEW q \in Region, NEW x \in Project
        PROVE  ShelfOf(q, x)'
    <2>1. CASE q # r
      <3>1. /\ outbox'[q] = outbox[q] /\ inbox'[q] = inbox[q]
            /\ active'[q] = active[q] /\ current'[q] = current[q]
        BY <1>2, <1>4, <2>1
      <3>2. rows'[q] = rows[q]
        BY <1>2, <1>4, <2>1
      <3> QED BY <3>1, <3>2, ShelfSame
    <2>2. CASE q = r /\ x # p
      <3>1. Shelf(r, x, N, a, current[r][x], rows[r])
        BY <1>3 DEF AgreeInv, ShelfOf
      <3>2. x \in rows[r] <=> x \in rows'[r]
        BY <1>2, <1>4, <2>2
      <3>3. current'[r][x] = current[r][x]
        BY <1>2, <1>4, <2>2
      <3>4. \A h \in c.parents : \E d \in N : d.head = h /\ d.project = c.project
        BY <1>1, <1>3
      <3>5. Shelf(r, x, N \cup {c}, (a \ c.parents) \cup {c.head}, current[r][x], rows'[r])
        BY <1>1, <1>4, <1>6, <2>2, <3>1, <3>2, <3>4, OthersShown
      <3> QED BY <1>5, <2>2, <3>3, <3>5 DEF ShelfOf
    <2>3. CASE q = r /\ x = p
      <3>1. current'[r][p] = c.head
        BY <1>2, <1>4
      <3>2. \A d \in N : d.project = c.project /\ d.head \in a => d.head \in c.parents
        BY <1>1, <1>3, HeadsAreThere
      <3>3. c.kind = "delete" => c.project \notin rows'[r]
        BY <1>1, <1>2, <1>4
      <3>4. c.kind # "delete" => c.project \in rows'[r]
                                 /\ \A d \in N : d.project = c.project => d.kind # "delete"
        <4>1. Deleted(r, p) <=> \E d \in N : d.project = p /\ d.kind = "delete"
          BY <1>3, HeadsAreThere
        <4> QED BY <1>1, <1>2, <1>4, <4>1
      <3>5. Shelf(r, c.project, N \cup {c}, (a \ c.parents) \cup {c.head}, c.head, rows'[r])
        BY <1>1, <1>4, <1>6, <3>2, <3>3, <3>4, IssuedShown
      <3> QED BY <1>1, <1>5, <2>3, <3>1, <3>5 DEF ShelfOf
    <2> QED BY <2>1, <2>2, <2>3
  <1> QED BY <1>7

LEMMA ReceiveShelf ==
  ASSUME SyncInv, AgreeInv, NEW r \in Region, NEW e, Receives(r, e)
  PROVE  \A q \in Region, x \in Project : ShelfOf(q, x)'
  <1>0. PICK c : c = e.change
    OBVIOUS
  <1>1. /\ c \in Change /\ c.head[1] = Peer(r) /\ c.head[2] = e.sequence
        /\ c.project \in Project /\ e \in Event(Peer(r)) /\ Genuine(outbox[Peer(r)], e)
        /\ Receive(r, e) /\ outbox' = outbox /\ Peer(r) # r
    BY <1>0, PeerFacts DEF Receives, Event, Change
  <1>2. PICK N, a : N = GraphOf(outbox[r], inbox[r]) /\ a = active[r]
    OBVIOUS
  <1>3. /\ outbox \in [Region -> Seq(Change)] /\ inbox \in [Region -> Seq(Change)]
        /\ active \in [Region -> SUBSET Version]
        /\ current \in [Region -> [Project -> Version \cup {NoHead}]]
        /\ rows \in [Region -> SUBSET Project]
        /\ Named(r, outbox[r]) /\ Named(Peer(r), inbox[r])
        /\ Graph(N, a)
    BY <1>2 DEF SyncInv, StoreOk
  <1>4. /\ \A q \in Region : q # r => inbox'[q] = inbox[q]
        /\ Acceptable(r, e) => inbox'[r] = Append(inbox[r], c)
        /\ ~Acceptable(r, e) => inbox' = inbox
    BY <1>0, <1>1, InboxGrown
  <1>5. CASE ~(Acceptable(r, e) /\ c.kind # "quota")
    <2>1. active' = active /\ current' = current /\ rows' = rows
      BY <1>0, <1>1, <1>5 DEF Receive
    <2>2. GraphOf(outbox'[r], inbox'[r]) = N
      <3>1. CASE ~Acceptable(r, e)
        BY <1>1, <1>2, <1>4, <3>1
      <3>2. CASE c.kind = "quota" /\ Acceptable(r, e)
        <4>1. outbox[r] \in Seq(Change) /\ inbox[r] \in Seq(Change)
          BY <1>3
        <4>2. GraphOf(outbox[r], Append(inbox[r], c)) = GraphOf(outbox[r], inbox[r])
          BY <1>1, <3>2, <4>1, GraphOfAppend
        <4>3. outbox'[r] = outbox[r] /\ inbox'[r] = Append(inbox[r], c)
          BY <1>1, <1>4, <3>2
        <4> QED BY <1>2, <4>2, <4>3
      <3> QED BY <1>5, <3>1, <3>2
    <2>3. \A q \in Region : GraphOf(outbox[q], inbox[q])' = GraphOf(outbox[q], inbox[q])
      BY <1>1, <1>2, <1>4, <2>2
    <2> QED BY <2>1, <2>3, ShelfSame
  <1>6. CASE Acceptable(r, e) /\ c.kind # "quota"
    <2>1. /\ active' = [active EXCEPT ![r] = HeadsWith(r, c)]
          /\ rows' = [rows EXCEPT ![r] = ShelfAfter(r, c)]
          /\ current' = [current EXCEPT ![r][c.project] = ShownAfter(r, c)]
      BY <1>0, <1>1, <1>6 DEF Receive
    <2>2. /\ GraphOf(outbox'[r], inbox'[r]) = N \cup {c}
          /\ active'[r] = (a \ c.parents) \cup {c.head}
      <3>1. outbox'[r] = outbox[r] /\ inbox'[r] = Append(inbox[r], c)
        BY <1>1, <1>4, <1>6
      <3>2. GraphOf(outbox[r], Append(inbox[r], c)) = N \cup {c}
        BY <1>1, <1>2, <1>3, <1>6, GraphOfAppend
      <3>3. active'[r] = (a \ c.parents) \cup {c.head}
        BY <1>2, <1>3, <2>1 DEF HeadsWith
      <3> QED BY <3>1, <3>2, <3>3
    <2>3. \A d \in N : d.head # c.head
      <3>1. c.head[2] = Len(inbox[r]) + 1
        BY <1>1, <1>6 DEF Acceptable
      <3> QED BY <1>1, <1>2, <1>3, <3>1, GraphIsNamed
    <2>4. \A h \in c.parents : \E d \in N : d.head = h /\ d.project = c.project
      <3>1. NodesOf(r, c.project) = {d \in N : d.project = c.project}
        BY <1>1, <1>2, NodesAreGraph
      <3>2. c.parents \subseteq {n.head : n \in NodesOf(r, c.project)}
        BY <1>0, <1>6 DEF Acceptable
      <3> QED BY <3>1, <3>2
    <2>5. ASSUME NEW q \in Region, NEW x \in Project
          PROVE  ShelfOf(q, x)'
      <3>1. CASE q # r
        <4>1. /\ outbox'[q] = outbox[q] /\ inbox'[q] = inbox[q]
              /\ active'[q] = active[q] /\ current'[q] = current[q] /\ rows'[q] = rows[q]
          BY <1>1, <1>3, <1>4, <2>1, <3>1
        <4> QED BY <4>1, ShelfSame
      <3>2. CASE q = r /\ x # c.project
        <4>1. Shelf(r, x, N, a, current[r][x], rows[r])
          BY <1>2 DEF AgreeInv, ShelfOf
        <4>2. x \in rows[r] <=> x \in rows'[r]
          <5>1. rows'[r] = ShelfAfter(r, c)
            BY <1>3, <2>1
          <5>2. x \in rows[r] <=> x \in ShelfAfter(r, c)
            BY <3>2 DEF ShelfAfter
          <5> QED BY <5>1, <5>2
        <4>3. current'[r][x] = current[r][x]
          BY <1>3, <2>1, <3>2
        <4>4. Shelf(r, x, N \cup {c}, (a \ c.parents) \cup {c.head}, current[r][x], rows'[r])
          BY <1>1, <1>3, <2>3, <2>4, <3>2, <4>1, <4>2, OthersShown
        <4> QED BY <2>2, <3>2, <4>3, <4>4 DEF ShelfOf
      <3>3. CASE q = r /\ x = c.project
        <4>1. PICK shown, then, shelf, after :
                 /\ shown = current[r][c.project] /\ then = current'[r][c.project]
                 /\ shelf = rows[r] /\ after = rows'[r]
          OBVIOUS
        <4>2. PICK tomb \in BOOLEAN, conflict \in BOOLEAN :
                tomb = Tombstoned(r, c) /\ conflict = InConflict(r, c)
          BY DEF Tombstoned, InConflict, Deleted
        <4>3. Shelf(r, c.project, N, a, shown, shelf)
          BY <1>1, <1>2, <4>1 DEF AgreeInv, ShelfOf
        <4>4. \A d \in N : d.project = c.project /\ d.head \in a /\ d.head[1] # r
                             => d.head \in c.parents
          BY <1>0, <1>1, <1>2, <1>6, ReceivedHeadIsParent
        <4>5. tomb <=> (c.kind = "delete" \/ \E d \in N : d.project = c.project /\ d.kind = "delete")
          <5>1. Deleted(r, c.project) <=> \E d \in N : d.project = c.project /\ d.kind = "delete"
            BY <1>1, <1>2, HeadsAreThere
          <5>2. tomb <=> c.kind = "delete" \/ Deleted(r, c.project)
            BY <4>2 DEF Tombstoned
          <5> QED BY <5>1, <5>2
        <4>6. conflict <=> \E d \in N : d.project = c.project /\ d.head \in a /\ d.head \notin c.parents
          <5>1. \A h \in HeadsOf(r, c.project) : h \in a /\ \E d \in N : d.head = h /\ d.project = c.project
            BY <1>1, <1>2, HeadsAreThere
          <5>2. \A d \in N : d.project = c.project /\ d.head \in a => d.head \in HeadsOf(r, c.project)
            BY <1>1, <1>2, HeadsAreThere
          <5>3. conflict <=> \E h \in HeadsOf(r, c.project) : h \notin c.parents
            BY <4>2 DEF InConflict
          <5> QED BY <5>1, <5>2, <5>3
        <4>7. after = ShelfAfter(r, c) /\ then = ShownAfter(r, c)
          BY <1>1, <1>3, <2>1, <4>1
        <4>8. tomb => c.project \notin after
          BY <4>2, <4>7 DEF ShelfAfter
        <4>9. ~tomb /\ conflict => (c.project \in after <=> c.project \in shelf) /\ then = shown
          BY <4>1, <4>2, <4>7 DEF ShelfAfter, ShownAfter
        <4>10. ~tomb /\ ~conflict => c.project \in after /\ then = c.head
          BY <4>2, <4>7 DEF ShelfAfter, ShownAfter
        <4>11. c.head[1] # r
          BY <1>1
        <4>12. Shelf(r, c.project, N \cup {c}, (a \ c.parents) \cup {c.head}, then, after)
          BY <1>1, <1>3, <2>3, <4>3, <4>4, <4>5, <4>6, <4>8, <4>9, <4>10, <4>11, ReceivedShown
        <4> QED BY <2>2, <3>3, <4>1, <4>12 DEF ShelfOf
      <3> QED BY <3>1, <3>2, <3>3
    <2> QED BY <2>5
  <1> QED BY <1>5, <1>6

-------------------------------------------------------------------------------
(* Every step keeps what is true without restores.                         *)

LEMMA MovesAgree ==
  ASSUME SyncInv, SyncInv', AgreeInv, StoreMoves, WireTrue'
  PROVE  AgreeInv'
  <1>0. Agreed /\ Superseded /\ backup = None
    BY DEF AgreeInv
  <1>1. ASSUME NEW r \in Region, NEW p \in Project, NEW kind \in {"save", "delete"},
               Issues(r, p, kind)
        PROVE  AgreeInv'
    <2>1. PICK c : c = Issued(r, p, kind, 0)
      OBVIOUS
    <2>2. c \in Change /\ c.project = p /\ c.parents = HeadsOf(r, p)
      <3>1. StoreOk
        BY DEF SyncInv
      <3> QED BY <2>1, <3>1, IssuedFacts
    <2>3. outbox' = [outbox EXCEPT ![r] = Append(@, c)] /\ inbox' = inbox /\ backup' = backup
      BY <1>1, <2>1 DEF Issues, Record
    <2>4. Agreed' /\ Superseded'
      BY <1>0, <2>2, <2>3, IssueAgrees, IssueSupersedes
    <2>5. \A q \in Region, x \in Project : ShelfOf(q, x)'
      BY <1>1, IssueShelf
    <2> QED BY <1>0, <2>3, <2>4, <2>5 DEF AgreeInv
  <1>2. ASSUME NEW c \in Change, Reserves(c)
        PROVE  AgreeInv'
    <2>1. /\ outbox' = [outbox EXCEPT ![Overseas] = Append(@, c)] /\ inbox' = inbox
          /\ c.kind = "quota" /\ backup' = backup
          /\ active' = active /\ current' = current /\ rows' = rows
      BY <1>2 DEF Reserves
    <2>2. Agreed' /\ Superseded'
      BY <1>0, <2>1, PeerFacts, IssueAgrees, IssueSupersedes
    <2>3. ASSUME NEW q \in Region
          PROVE  GraphOf(outbox[q], inbox[q])' = GraphOf(outbox[q], inbox[q])
      <3>1. /\ q = Overseas => outbox'[q] = Append(outbox[q], c)
            /\ q # Overseas => outbox'[q] = outbox[q]
            /\ outbox[q] \in Seq(Change) /\ inbox[q] \in Seq(Change)
        BY <2>1, PeerFacts, OutboxGrown
      <3>2. GraphOf(Append(outbox[q], c), inbox[q]) = GraphOf(outbox[q], inbox[q])
        BY <2>1, <3>1, GraphOfAppend
      <3> QED BY <2>1, <3>1, <3>2
    <2>4. \A q \in Region, x \in Project : ShelfOf(q, x)'
      BY <2>1, <2>3, ShelfSame
    <2> QED BY <1>0, <2>1, <2>2, <2>4 DEF AgreeInv
  <1>3. ASSUME NEW r \in Region, NEW e \in Event(Peer(r)), Receives(r, e)
        PROVE  AgreeInv'
    <2>1. outbox' = outbox /\ backup' = backup /\ Receive(r, e)
      BY <1>3 DEF Receives
    <2>2. Grown(outbox, inbox, outbox', inbox')
      BY <2>1, InboxGrown
    <2>3. Agreed' /\ Superseded'
      BY <1>0, <1>3, <2>1, <2>2, ReceiveAgrees, InboxSupersedes
    <2>4. \A q \in Region, x \in Project : ShelfOf(q, x)'
      BY <1>3, ReceiveShelf
    <2> QED BY <1>0, <2>1, <2>3, <2>4 DEF AgreeInv
  <1>4. CASE Rests
    <2>1. Agreed' /\ Superseded' /\ backup' = None
      BY <1>0, <1>4 DEF Rests, Agreed, Superseded, BuiltOn
    <2>2. \A q \in Region, x \in Project : ShelfOf(q, x)'
      BY <1>4, ShelfSame DEF Rests
    <2> QED BY <2>1, <2>2 DEF AgreeInv
  <1> QED BY <1>1, <1>2, <1>3, <1>4 DEF StoreMoves

LEMMA UsersMove ==
  ASSUME SyncInv, SyncInv', AgreeInv, NEW r \in Region, Users(r)
  PROVE  StoreMoves /\ WireTrue'
  <1>1. PICK p \in Project, kind \in {"save", "delete"} : Issues(r, p, kind)
    BY UsersIssue
  <1>2. PICK c : c = Issued(r, p, kind, 0)
    OBVIOUS
  <1>3. c \in Change
    <2>1. StoreOk
      BY DEF SyncInv
    <2> QED BY <1>2, <2>1, IssuedFacts
  <1>4. /\ outbox' = [outbox EXCEPT ![r] = Append(@, c)] /\ inbox' = inbox
        /\ UNCHANGED <<acked, pump, net, jobs, grants>>
    BY <1>1, <1>2 DEF Issues, Record
  <1>5. Grown(outbox, inbox, outbox', inbox')
    BY <1>3, <1>4, OutboxGrown
  <1>6. WireTrue'
    BY <1>4, <1>5, FewerAreTrue DEF AgreeInv
  <1> QED BY <1>1, <1>6 DEF StoreMoves

LEMMA GrantMoves ==
  ASSUME SyncInv, SyncInv', AgreeInv, NEW p \in Project, Grant(p)
  PROVE  StoreMoves /\ WireTrue'
  <1> DEFINE token == IF quota[Overseas][p] # 0 THEN quota[Overseas][p] ELSE 1 + era[Overseas]
  <1>0. /\ Overseas \in Region /\ WireTrue /\ token \in Nat /\ StoreOk
    <2>1. Overseas \in Region /\ quota \in [Region -> [Project -> Nat]] /\ era \in [Region -> Nat]
      BY PeerFacts DEF SyncInv, StoreOk
    <2>2. token \in Nat
      BY <2>1
    <2> QED BY <2>1, <2>2 DEF SyncInv, AgreeInv
  <1>1. PICK c : c = Issued(Overseas, p, "quota", token)
    OBVIOUS
  <1>2. c \in Change /\ c.kind = "quota"
    BY <1>0, <1>1, ReservedFacts
  <1>3. UNCHANGED <<inbox, acked, floor, active, current, rows, fenced, era, pump,
                    net, jobs, backup>> /\ ~fenced[Overseas]
    BY DEF Grant
  <1>4. CASE Granted(p) # {}
    <2>1. /\ outbox' = outbox
          /\ grants' = grants \cup {[sequence |-> i, change |-> outbox[Overseas][i]]
                                      : i \in Granted(p)}
      BY <1>4 DEF Grant
    <2>2. \A i \in Granted(p) : Genuine(outbox[Overseas],
                                        [sequence |-> i, change |-> outbox[Overseas][i]])
      BY DEF Granted, Genuine
    <2>3. \A e \in grants' : Genuine(outbox[Overseas], e)
      BY <1>0, <2>1, <2>2 DEF WireTrue
    <2>4. WireTrue'
      BY <1>0, <1>3, <2>1, <2>3 DEF WireTrue
    <2> QED BY <1>3, <2>1, <2>4 DEF StoreMoves, Rests
  <1>5. CASE Granted(p) = {}
    <2>1. /\ outbox' = [outbox EXCEPT ![Overseas] = Append(@, c)]
          /\ grants' = grants \cup {[sequence |-> Len(outbox[Overseas]) + 1, change |-> c]}
      BY <1>1, <1>5 DEF Grant
    <2>2. Grown(outbox, inbox, outbox', inbox') /\ outbox'[Overseas] = Append(outbox[Overseas], c)
          /\ outbox[Overseas] \in Seq(Change)
      BY <1>0, <1>2, <1>3, <2>1, OutboxGrown
    <2>3. Genuine(outbox'[Overseas], [sequence |-> Len(outbox[Overseas]) + 1, change |-> c])
      BY <1>2, <2>2, AppendChange DEF Genuine
    <2>4. outbox' \in [Region -> Seq(Change)] /\ inbox' \in [Region -> Seq(Change)]
      BY DEF SyncInv, StoreOk
    <2>5. /\ \A m \in net : TrueMessage(outbox', inbox', m)
          /\ \A j \in jobs : j.status.received <= Len(inbox'[j.from])
          /\ \A e \in grants : Genuine(outbox'[Overseas], e)
          /\ \A r \in Region : TrueStep(outbox', inbox', r, pump[r])
          /\ \A r \in Region : acked[r] <= Len(inbox'[Peer(r)])
      BY <1>0, <2>2, <2>4, TruthStays
    <2>6. WireTrue'
      BY <1>3, <2>1, <2>3, <2>5 DEF WireTrue
    <2>7. Reserves(c)
      BY <1>2, <1>3, <2>1 DEF Reserves
    <2> QED BY <1>2, <2>6, <2>7 DEF StoreMoves
  <1> QED BY <1>4, <1>5

LEMMA ReceiptsAreTrue ==
  ASSUME SyncInv
  PROVE  /\ \A q \in Region : Status(q).received = Len(inbox[q])
         /\ \A q \in Region : Status(q).received <= Len(inbox[q]) /\ Len(inbox[q]) \in Nat
         /\ NoStatus.received = 0
         /\ \A q \in Region, n \in Nat : EventAfter(q, n) # NoEvent
                                           => Genuine(outbox[q], EventAfter(q, n))
  <1>1. \A q \in Region : outbox[q] \in Seq(Change) /\ inbox[q] \in Seq(Change)
    BY DEF SyncInv, StoreOk
  <1>2. ASSUME NEW q \in Region, NEW n \in Nat, EventAfter(q, n) # NoEvent
        PROVE  Genuine(outbox[q], EventAfter(q, n))
    <2>1. n < Len(outbox[q]) /\ n + 1 \in DOMAIN outbox[q]
      BY <1>1, <1>2 DEF EventAfter
    <2> QED BY <2>1 DEF EventAfter, Genuine
  <1> QED BY <1>1, <1>2 DEF Status, NoStatus

LEMMA TrueSteps ==
  ASSUME NEW out \in [Region -> Seq(Change)], NEW in \in [Region -> Seq(Change)], NEW r \in Region
  PROVE  /\ TrueStep(out, in, r, Idle) /\ TrueStep(out, in, r, Retry)
         /\ TrueStep(out, in, r, [Idle EXCEPT !.pc = "pull"])
         /\ TrueStep(out, in, r, [Idle EXCEPT !.pc = "deliver"])
         /\ \A e : TrueStep(out, in, r, [Idle EXCEPT !.pc = "post", !.event = e])
         /\ \A s \in Receipt : s.received <= Len(in[Peer(r)]) =>
              /\ TrueStep(out, in, r, [Idle EXCEPT !.pc = "status", !.status = s])
              /\ \A e : (e # NoEvent => Genuine(out[Peer(r)], e)) =>
                   TrueStep(out, in, r,
                            [Idle EXCEPT !.pc = "pulled", !.status = s, !.event = e])
  <1>1. Len(in[Peer(r)]) \in Nat
    BY PeerFacts
  <1> QED BY <1>1 DEF TrueStep, Idle, Retry, NoStatus

LEMMA StreamsTyped ==
  ASSUME SyncInv
  PROVE  outbox \in [Region -> Seq(Change)] /\ inbox \in [Region -> Seq(Change)]
  BY DEF SyncInv, StoreOk

(* The answer to a pull: what it writes is true.                           *)
LEMMA AnswerIsTrue ==
  ASSUME SyncInv, AgreeInv, NEW m, m.from \in Region, m.status \in Receipt, m.live \in BOOLEAN,
         m.status.received <= Len(inbox[m.from]),
         NEW verdict \in BOOLEAN, PullAnswered(m, verdict)
  PROVE  /\ \A r \in Region : acked'[r] <= Len(inbox[Peer(r)])
         /\ \A r \in Region : TrueStep(outbox, inbox, r, pump'[r])
  <1> DEFINE o == Peer(m.from)
  <1>0. /\ o \in Region /\ Peer(o) = m.from /\ acked \in [Region -> Nat]
        /\ m.status.received \in Nat /\ pump \in [Region -> Step]
        /\ outbox \in [Region -> Seq(Change)] /\ inbox \in [Region -> Seq(Change)]
        /\ \A r \in Region : TrueStep(outbox, inbox, r, pump[r])
        /\ \A r \in Region : acked[r] <= Len(inbox[Peer(r)])
    BY PeerFacts DEF SyncInv, StoreOk, WireOk, Receipt, AgreeInv, WireTrue
  <1>1. \A r \in Region : acked'[r] <= Len(inbox[Peer(r)])
    <2>1. \A r \in Region : acked'[r] \in {acked[r]} \cup (IF r = o THEN {m.status.received} ELSE {})
      BY <1>0 DEF PullAnswered, Greater
    <2> QED BY <1>0, <2>1
  <1>2. ASSUME NEW r \in Region
        PROVE  TrueStep(outbox, inbox, r, pump'[r])
    <2>1. PICK s : s = [Idle EXCEPT !.pc = "pulled", !.status = Status(o),
                                    !.event = EventAfter(o, m.status.received)]
      OBVIOUS
    <2>2. TrueStep(outbox, inbox, m.from, s) /\ TrueStep(outbox, inbox, m.from, Idle)
      <3>1. Status(o) \in Receipt
        BY <1>0, ReceiptFacts DEF SyncInv
      <3>2. Status(o).received <= Len(inbox[o])
        BY <1>0, ReceiptsAreTrue
      <3>3. EventAfter(o, m.status.received) # NoEvent
              => Genuine(outbox[o], EventAfter(o, m.status.received))
        BY <1>0, ReceiptsAreTrue
      <3> QED BY <1>0, <2>1, <3>1, <3>2, <3>3, TrueSteps
    <2>3. pump' = pump \/ Becomes(m.from, s) \/ Becomes(m.from, Idle)
      BY <2>1 DEF PullAnswered
    <2> QED BY <1>0, <2>2, <2>3 DEF Becomes
  <1> QED BY <1>1, <1>2

LEMMA PullSendMoves ==
  ASSUME SyncInv, SyncInv', AgreeInv, NEW r \in Region, PullSend(r)
  PROVE  StoreMoves /\ WireTrue'
  <1>1. UNCHANGED <<outbox, inbox, active, current, rows, backup, acked, jobs, grants>>
    BY DEF PullSend, storage
  <1>2. PICK m : /\ m = [kind |-> "pull", from |-> r, status |-> Status(r),
                         event |-> NoEvent, live |-> TRUE]
                 /\ net' = net \cup {m}
    BY DEF PullSend
  <1>3. TrueMessage(outbox, inbox, m)
    BY <1>2, ReceiptsAreTrue DEF TrueMessage
  <1>4. \A q \in Region : TrueStep(outbox, inbox, q, pump'[q])
    <2>1. TrueStep(outbox, inbox, r, [Idle EXCEPT !.pc = "pull"])
      BY StreamsTyped, TrueSteps
    <2>2. Becomes(r, [Idle EXCEPT !.pc = "pull"])
      BY DEF PullSend
    <2> QED BY <2>1, <2>2 DEF Becomes, AgreeInv, WireTrue, SyncInv, WireOk
  <1>5. WireTrue'
    BY <1>1, <1>2, <1>3, <1>4 DEF WireTrue, AgreeInv
  <1> QED BY <1>1, <1>5 DEF StoreMoves, Rests

LEMMA PullArrivesMoves ==
  ASSUME SyncInv, SyncInv', AgreeInv, NEW m \in net, PullArrives(m)
  PROVE  StoreMoves /\ WireTrue'
  <1>0. GoodMessage(m) /\ TrueMessage(outbox, inbox, m) /\ WireTrue
    BY DEF SyncInv, WireOk, AgreeInv, WireTrue
  <1>1. /\ m.from \in Region /\ m.status \in Receipt /\ m.live \in BOOLEAN
        /\ m.status.received <= Len(inbox[m.from])
    BY <1>0 DEF GoodMessage, TrueMessage
  <1>2. UNCHANGED <<outbox, inbox, active, current, rows, backup, grants>> /\ net' \subseteq net
    BY DEF PullArrives
  <1>3. /\ \A j \in jobs' : j.status.received <= Len(inbox[j.from])
        /\ \A r \in Region : acked'[r] <= Len(inbox[Peer(r)])
        /\ \A r \in Region : TrueStep(outbox, inbox, r, pump'[r])
    <2>1. CASE Awaits(Peer(m.from), m.status)
      BY <1>0, <1>1, <2>1 DEF PullArrives, WireTrue
    <2>2. CASE ~Awaits(Peer(m.from), m.status)
      <3>1. PullAnswered(m, Valid(Peer(m.from), m.status)) /\ jobs' = jobs
        BY <2>2 DEF PullArrives
      <3>2. Valid(Peer(m.from), m.status) \in BOOLEAN
        BY DEF Valid, Holds
      <3> QED BY <1>0, <1>1, <3>1, <3>2, AnswerIsTrue DEF WireTrue
    <2> QED BY <2>1, <2>2
  <1>4. WireTrue'
    BY <1>0, <1>2, <1>3 DEF WireTrue
  <1> QED BY <1>2, <1>4 DEF StoreMoves, Rests

LEMMA PullHashedMoves ==
  ASSUME SyncInv, SyncInv', AgreeInv, NEW j \in jobs, PullHashed(j)
  PROVE  StoreMoves /\ WireTrue'
  <1>0. j \in Job /\ WireTrue /\ j.status.received <= Len(inbox[j.from])
    BY DEF SyncInv, WireOk, AgreeInv, WireTrue
  <1>1. j.from \in Region /\ j.status \in Receipt /\ j.live \in BOOLEAN /\ j.verdict \in BOOLEAN
    BY <1>0 DEF Job
  <1>2. /\ UNCHANGED <<outbox, inbox, active, current, rows, backup, grants, net>>
        /\ jobs' \subseteq jobs /\ PullAnswered(j, j.verdict)
    BY DEF PullHashed
  <1>3. /\ \A r \in Region : acked'[r] <= Len(inbox[Peer(r)])
        /\ \A r \in Region : TrueStep(outbox, inbox, r, pump'[r])
    BY <1>0, <1>1, <1>2, AnswerIsTrue
  <1>4. WireTrue'
    BY <1>0, <1>2, <1>3 DEF WireTrue
  <1> QED BY <1>2, <1>4 DEF StoreMoves, Rests

(* A tick of a pump that leaves the streams as they are.                   *)
LEMMA RestIsTrue ==
  ASSUME SyncInv, AgreeInv, UNCHANGED <<outbox, inbox, active, current, rows, backup>>,
         net' \subseteq net, jobs' \subseteq jobs, grants' \subseteq grants,
         \A q \in Region : TrueStep(outbox, inbox, q, pump'[q]) \/ pump'[q] = pump[q],
         \A q \in Region : acked'[q] <= Len(inbox[Peer(q)]) \/ acked'[q] = acked[q]
  PROVE  StoreMoves /\ WireTrue'
  <1>1. WireTrue
    BY DEF AgreeInv
  <1>2. /\ \A q \in Region : TrueStep(outbox, inbox, q, pump'[q])
        /\ \A q \in Region : acked'[q] <= Len(inbox[Peer(q)])
    BY <1>1 DEF WireTrue
  <1>3. WireTrue'
    BY <1>1, <1>2 DEF WireTrue
  <1> QED BY <1>3 DEF StoreMoves, Rests

LEMMA ReconcileMoves ==
  ASSUME SyncInv, AgreeInv, NEW r \in Region, Reconcile(r) \/ Hashed(r)
  PROVE  StoreMoves /\ WireTrue'
  <1>0. /\ pump[r] \in Step /\ TrueStep(outbox, inbox, r, pump[r]) /\ pump \in [Region -> Step]
        /\ outbox \in [Region -> Seq(Change)] /\ inbox \in [Region -> Seq(Change)]
    BY DEF SyncInv, WireOk, StoreOk, AgreeInv, WireTrue
  <1>1. UNCHANGED <<outbox, inbox, acked, active, current, rows, backup, net, jobs, grants>>
    BY DEF Reconcile, Hashed, storage
  <1>2. PICK t : /\ Becomes(r, t)
                 /\ \/ t = Idle
                    \/ /\ t.pc \in {"pulled", "take-hash", "take"}
                            => pump[r].pc \in {"pulled", "take-hash", "take"}
                       /\ t.event = pump[r].event /\ t.status = pump[r].status
                       /\ t.held = pump[r].held
    <2>1. CASE Reconcile(r)
      <3>1. PICK v : v = Valid(r, pump[r].status)
        OBVIOUS
      <3>2. PICK go : go = [pump[r] EXCEPT !.pc = AfterVerdict(@)]
        OBVIOUS
      <3>3. PICK wait : wait = [go EXCEPT !.pc = IF @ = "take" THEN "take-hash" ELSE "export-hash",
                                          !.verdict = v]
        OBVIOUS
      <3>4. /\ go \in Step /\ go.event = pump[r].event /\ go.status = pump[r].status
            /\ go.held = pump[r].held
            /\ go.pc = IF pump[r].pc = "pulled" THEN "take" ELSE "export"
        BY <1>0, <3>2 DEF Step, Pc, AfterVerdict
      <3>5. /\ wait.event = pump[r].event /\ wait.status = pump[r].status
            /\ wait.held = pump[r].held
            /\ wait.pc = IF pump[r].pc = "pulled" THEN "take-hash" ELSE "export-hash"
        BY <3>3, <3>4 DEF Step
      <3>6. Becomes(r, wait) \/ Becomes(r, go) \/ Becomes(r, Idle)
        BY <2>1, <3>1, <3>2, <3>3 DEF Reconcile
      <3> QED BY <3>4, <3>5, <3>6
    <2>2. CASE Hashed(r)
      <3>1. PICK go : go = [pump[r] EXCEPT !.pc = IF @ = "take-hash" THEN "take" ELSE "export",
                                           !.verdict = FALSE]
        OBVIOUS
      <3>2. /\ go.event = pump[r].event /\ go.status = pump[r].status /\ go.held = pump[r].held
            /\ go.pc = IF pump[r].pc = "take-hash" THEN "take" ELSE "export"
        BY <1>0, <3>1 DEF Step
      <3>3. Becomes(r, go) \/ Becomes(r, Idle)
        BY <2>2, <3>1 DEF Hashed
      <3> QED BY <3>2, <3>3
    <2> QED BY <2>1, <2>2
  <1>3. TrueStep(outbox, inbox, r, t)
    <2>1. CASE t = Idle
      BY <1>0, <2>1, TrueSteps
    <2>2. CASE t # Idle
      BY <1>0, <1>2, <2>2 DEF TrueStep
    <2> QED BY <2>1, <2>2
  <1>4. \A q \in Region : TrueStep(outbox, inbox, q, pump'[q]) \/ pump'[q] = pump[q]
    BY <1>0, <1>2, <1>3 DEF Becomes
  <1> QED BY <1>1, <1>4, RestIsTrue

LEMMA ReadStatusMoves ==
  ASSUME SyncInv, AgreeInv, NEW r \in Region, ReadStatus(r)
  PROVE  StoreMoves /\ WireTrue'
  <1>1. UNCHANGED <<outbox, inbox, acked, active, current, rows, backup, net, jobs, grants>>
    BY DEF ReadStatus, storage
  <1>2. PICK t : t = [Idle EXCEPT !.pc = "status", !.status = Status(Peer(r))] /\ Becomes(r, t)
    BY DEF ReadStatus
  <1>3. TrueStep(outbox, inbox, r, t)
    <2>1. Peer(r) \in Region
      BY PeerFacts
    <2>2. Status(Peer(r)) \in Receipt /\ Status(Peer(r)).received <= Len(inbox[Peer(r)])
      BY <2>1, ReceiptFacts, ReceiptsAreTrue DEF SyncInv
    <2> QED BY <1>2, <2>2, StreamsTyped, TrueSteps
  <1>4. \A q \in Region : TrueStep(outbox, inbox, q, pump'[q]) \/ pump'[q] = pump[q]
    BY <1>2, <1>3 DEF Becomes, SyncInv, WireOk
  <1> QED BY <1>1, <1>4, RestIsTrue

LEMMA TakeMoves ==
  ASSUME SyncInv, SyncInv', AgreeInv, NEW r \in Region, Take(r)
  PROVE  StoreMoves /\ WireTrue'
  <1>0. /\ GoodStep(r, pump[r]) /\ TrueStep(outbox, inbox, r, pump[r]) /\ pump[r].pc = "take"
        /\ pump \in [Region -> Step] /\ WireTrue
    BY DEF SyncInv, WireOk, AgreeInv, WireTrue, Take
  <1>1. PICK e : e = pump[r].event
    OBVIOUS
  <1>2. UNCHANGED <<outbox, acked, fenced, backup, net, jobs, grants>>
    BY DEF Take
  <1>3. \A q \in Region : TrueStep(outbox', inbox', q, pump'[q]) \/ pump'[q] = pump[q]
    <2>1. outbox' \in [Region -> Seq(Change)] /\ inbox' \in [Region -> Seq(Change)]
      BY DEF SyncInv, StoreOk
    <2>2. /\ TrueStep(outbox', inbox', r, [Idle EXCEPT !.pc = "deliver"])
          /\ TrueStep(outbox', inbox', r, Idle)
      BY <2>1, TrueSteps
    <2>3. Becomes(r, [Idle EXCEPT !.pc = "deliver"]) \/ Becomes(r, Idle)
      BY DEF Take
    <2> QED BY <1>0, <2>2, <2>3 DEF Becomes
  <1>4. CASE e = NoEvent
    <2>1. UNCHANGED <<inbox, active, current, rows>>
      BY <1>1, <1>4 DEF Take
    <2> QED BY <1>2, <1>3, <2>1, RestIsTrue
  <1>5. CASE e # NoEvent
    <2>1. Receive(r, e)
      BY <1>1, <1>5 DEF Take
    <2>2. e \in Event(Peer(r)) /\ Genuine(outbox[Peer(r)], e)
      BY <1>0, <1>1, <1>5 DEF GoodStep, TrueStep
    <2>3. Grown(outbox, inbox, outbox', inbox')
      BY <1>2, <2>1, <2>2, InboxGrown
    <2>4. WireTrue'
      BY <1>0, <1>2, <1>3, <2>3, FewerAreTrue
    <2>5. Receives(r, e)
      BY <1>2, <2>1, <2>2 DEF Receives
    <2> QED BY <2>2, <2>4, <2>5 DEF StoreMoves
  <1> QED BY <1>4, <1>5

LEMMA ExportMoves ==
  ASSUME SyncInv, SyncInv', AgreeInv, NEW r \in Region, Export(r)
  PROVE  StoreMoves /\ WireTrue'
  <1>0. /\ pump[r] \in Step /\ TrueStep(outbox, inbox, r, pump[r])
        /\ pump \in [Region -> Step] /\ WireTrue /\ acked \in [Region -> Nat]
        /\ outbox \in [Region -> Seq(Change)] /\ inbox \in [Region -> Seq(Change)]
    BY DEF SyncInv, WireOk, StoreOk, AgreeInv, WireTrue
  <1>1. PICK n, e : n = pump[r].status.received /\ e = EventAfter(r, n)
    OBVIOUS
  <1>2. n \in Nat /\ n <= Len(inbox[Peer(r)])
    BY <1>0, <1>1 DEF Step, Receipt, TrueStep
  <1>3. UNCHANGED <<outbox, inbox, active, current, rows, jobs, grants, backup>>
    BY DEF Export
  <1>4. CASE e # NoEvent
    <2>1. PICK m : /\ m = [kind |-> "post", from |-> r, status |-> NoStatus,
                           event |-> e, live |-> TRUE]
                   /\ net' = net \cup {m} /\ acked' = acked
                   /\ Becomes(r, [Idle EXCEPT !.pc = "post", !.event = e])
      BY <1>1, <1>4 DEF Export
    <2>2. TrueMessage(outbox, inbox, m)
      <3>1. Genuine(outbox[r], e)
        BY <1>1, <1>2, <1>4, ReceiptsAreTrue
      <3>2. NoStatus.received <= Len(inbox[r])
        BY ReceiptsAreTrue
      <3> QED BY <2>1, <3>1, <3>2 DEF TrueMessage
    <2>3. TrueStep(outbox, inbox, r, [Idle EXCEPT !.pc = "post", !.event = e])
      BY <1>0, TrueSteps
    <2>4. \A q \in Region : TrueStep(outbox, inbox, q, pump'[q])
      BY <1>0, <2>1, <2>3 DEF WireTrue, Becomes
    <2>5. WireTrue'
      BY <1>0, <1>3, <2>1, <2>2, <2>4 DEF WireTrue
    <2> QED BY <1>3, <2>5 DEF StoreMoves, Rests
  <1>5. CASE e = NoEvent
    <2>1. /\ acked' = [acked EXCEPT ![r] = IF n <= Len(outbox[r]) THEN Greater(@, n) ELSE @]
          /\ Becomes(r, Idle) /\ net' = net
      BY <1>1, <1>5 DEF Export
    <2>2. \A q \in Region : acked'[q] <= Len(inbox[Peer(q)]) \/ acked'[q] = acked[q]
      BY <1>0, <1>2, <2>1 DEF Greater
    <2>3. \A q \in Region : TrueStep(outbox, inbox, q, pump'[q]) \/ pump'[q] = pump[q]
      BY <1>0, <2>1, TrueSteps DEF Becomes
    <2> QED BY <1>3, <2>1, <2>2, <2>3, RestIsTrue
  <1> QED BY <1>4, <1>5

LEMMA PostArrivesMoves ==
  ASSUME SyncInv, SyncInv', AgreeInv, NEW m \in net, PostArrives(m)
  PROVE  StoreMoves /\ WireTrue'
  <1>0. /\ GoodMessage(m) /\ TrueMessage(outbox, inbox, m) /\ m.kind = "post"
        /\ pump \in [Region -> Step] /\ WireTrue
    BY DEF SyncInv, WireOk, AgreeInv, WireTrue, PostArrives
  <1>1. PICK o : o = Peer(m.from) /\ o \in Region /\ m.from = Peer(o) /\ m.from \in Region
    BY <1>0, PeerFacts DEF GoodMessage
  <1>2. PICK e : e = m.event /\ e \in Event(Peer(o)) /\ Genuine(outbox[Peer(o)], e)
    BY <1>0, <1>1 DEF GoodMessage, TrueMessage
  <1>3. Receive(o, e) /\ net' \subseteq net
        /\ UNCHANGED <<outbox, acked, fenced, jobs, grants, backup>>
    BY <1>1, <1>2 DEF PostArrives
  <1>4. Grown(outbox, inbox, outbox', inbox')
    BY <1>1, <1>2, <1>3, InboxGrown
  <1>5. PICK s : s = [pump[m.from] EXCEPT !.pc = "posted",
                                          !.held = Greater(Len(inbox[o]), e.sequence)]
    OBVIOUS
  <1>6. /\ outbox' \in [Region -> Seq(Change)] /\ inbox' \in [Region -> Seq(Change)]
        /\ inbox[o] \in Seq(Change)
    BY <1>1 DEF SyncInv, StoreOk
  <1>7. ASSUME Taken(o, e)
        PROVE  TrueStep(outbox', inbox', m.from, s)
    <2>1. Len(inbox[o]) <= Len(inbox'[o]) /\ e.sequence <= Len(inbox'[o]) /\ e.sequence \in Nat
      <3>1. CASE Acceptable(o, e)
        <4>1. e.sequence = Len(inbox[o]) + 1 /\ inbox'[o] = Append(inbox[o], e.change)
              /\ e.change \in Change
          BY <1>1, <1>2, <1>3, <3>1, InboxGrown DEF Acceptable, Event
        <4> QED BY <1>6, <4>1
      <3>2. CASE ~Acceptable(o, e)
        <4>1. inbox'[o] = inbox[o] /\ e.sequence \in DOMAIN inbox[o]
          BY <1>1, <1>2, <1>3, <1>7, <3>2, InboxGrown DEF Taken, Repeated
        <4> QED BY <1>6, <4>1
      <3> QED BY <3>1, <3>2
    <2>2. s.held <= Len(inbox'[o]) /\ s.status = pump[m.from].status /\ s.pc = "posted"
      BY <1>0, <1>1, <1>5, <1>6, <2>1 DEF Greater, Step
    <2>3. pump[m.from].status.received <= Len(inbox[o]) /\ pump[m.from].status.received \in Nat
      BY <1>0, <1>1 DEF WireTrue, TrueStep, Step, Receipt
    <2> QED BY <1>1, <1>6, <2>1, <2>2, <2>3 DEF TrueStep
  <1>8. \A q \in Region : TrueStep(outbox', inbox', q, pump'[q]) \/ pump'[q] = pump[q]
    <2>1. TrueStep(outbox', inbox', m.from, Idle)
      BY <1>1, <1>6, TrueSteps
    <2>2. \/ pump' = pump \/ Becomes(m.from, Idle)
          \/ Taken(o, e) /\ Becomes(m.from, s)
      BY <1>1, <1>2, <1>5 DEF PostArrives
    <2> QED BY <1>0, <1>7, <2>1, <2>2 DEF Becomes
  <1>9. WireTrue'
    BY <1>0, <1>3, <1>4, <1>8, FewerAreTrue
  <1>10. Receives(o, e)
    BY <1>2, <1>3 DEF Receives
  <1> QED BY <1>1, <1>2, <1>9, <1>10 DEF StoreMoves

LEMMA AcknowledgeMoves ==
  ASSUME SyncInv, AgreeInv, NEW r \in Region, Acknowledge(r)
  PROVE  StoreMoves /\ WireTrue'
  <1>0. /\ pump[r] \in Step /\ TrueStep(outbox, inbox, r, pump[r]) /\ acked \in [Region -> Nat]
        /\ pump \in [Region -> Step]
        /\ outbox \in [Region -> Seq(Change)] /\ inbox \in [Region -> Seq(Change)]
    BY DEF SyncInv, WireOk, StoreOk, AgreeInv, WireTrue
  <1>1. PICK n : n = pump[r].held /\ n \in Nat /\ n <= Len(inbox[Peer(r)])
    BY <1>0 DEF Step, TrueStep
  <1>2. /\ acked' = [acked EXCEPT ![r] = IF n <= Len(outbox[r]) THEN Greater(@, n) ELSE @]
        /\ Becomes(r, Idle)
        /\ UNCHANGED <<outbox, inbox, active, current, rows, net, jobs, grants, backup>>
    BY <1>1 DEF Acknowledge
  <1>3. \A q \in Region : acked'[q] <= Len(inbox[Peer(q)]) \/ acked'[q] = acked[q]
    BY <1>0, <1>1, <1>2 DEF Greater
  <1>4. \A q \in Region : TrueStep(outbox, inbox, q, pump'[q]) \/ pump'[q] = pump[q]
    BY <1>0, <1>2, TrueSteps DEF Becomes
  <1> QED BY <1>2, <1>3, <1>4, RestIsTrue

LEMMA GiveUpMoves ==
  ASSUME SyncInv, AgreeInv, NEW r \in Region, GiveUp(r)
  PROVE  StoreMoves /\ WireTrue'
  <1>0. WireTrue /\ WireOk /\ outbox \in [Region -> Seq(Change)] /\ inbox \in [Region -> Seq(Change)]
    BY DEF SyncInv, AgreeInv, StoreOk
  <1>1. UNCHANGED <<outbox, inbox, acked, active, current, rows, backup, grants>>
    BY DEF GiveUp, storage
  <1>2. \A m \in net' : TrueMessage(outbox, inbox, m)
    <2>1. ASSUME NEW m \in net
          PROVE  TrueMessage(outbox, inbox, [m EXCEPT !.live = FALSE])
      <3>1. PICK k : k = [m EXCEPT !.live = FALSE]
        OBVIOUS
      <3>2. k.kind = m.kind /\ k.from = m.from /\ k.event = m.event /\ k.status = m.status
        BY <1>0, <3>1 DEF WireOk, GoodMessage
      <3>3. TrueMessage(outbox, inbox, m)
        BY <1>0 DEF WireTrue
      <3> QED BY <3>1, <3>2, <3>3 DEF TrueMessage
    <2>2. net' \subseteq net \/ net' = Abandoned(r)
      BY DEF GiveUp
    <2> QED BY <1>0, <2>1, <2>2 DEF WireTrue, Abandoned
  <1>3. \A j \in jobs' : j.status.received <= Len(inbox[j.from])
    <2>1. ASSUME NEW j \in jobs, NEW k, k = [j EXCEPT !.live = FALSE]
          PROVE  k.status.received <= Len(inbox[k.from])
      BY <1>0, <2>1 DEF WireOk, WireTrue, Job
    <2>2. jobs' = Forgotten(r)
      BY DEF GiveUp
    <2> QED BY <1>0, <2>1, <2>2 DEF WireTrue, Forgotten
  <1>4. \A q \in Region : TrueStep(outbox, inbox, q, pump'[q])
    <2>1. TrueStep(outbox, inbox, r, Retry) /\ Becomes(r, Retry)
      BY <1>0, TrueSteps DEF GiveUp
    <2> QED BY <1>0, <2>1 DEF Becomes, WireTrue, WireOk
  <1>5. WireTrue'
    BY <1>0, <1>1, <1>2, <1>3, <1>4 DEF WireTrue
  <1> QED BY <1>1, <1>5 DEF StoreMoves, Rests

LEMMA RestartMoves ==
  ASSUME SyncInv, AgreeInv, NEW r \in Region, Restart(r)
  PROVE  StoreMoves /\ WireTrue'
  <1>1. /\ UNCHANGED <<outbox, inbox, acked, active, current, rows, backup, net, grants>>
        /\ jobs' \subseteq jobs /\ pump' = CutOff(r)
    BY DEF Restart, storage
  <1>2. \A q \in Region : TrueStep(outbox, inbox, q, pump'[q]) \/ pump'[q] = pump[q]
    BY <1>1, StreamsTyped, TrueSteps DEF CutOff
  <1> QED BY <1>1, <1>2, RestIsTrue

LEMMA GrantArrivesMoves ==
  ASSUME SyncInv, SyncInv', AgreeInv, NEW e \in grants, GrantArrives(e)
  PROVE  StoreMoves /\ WireTrue'
  <1>0. /\ Cn \in Region /\ Peer(Cn) = Overseas /\ WireTrue
        /\ e \in Event(Peer(Cn)) /\ Genuine(outbox[Peer(Cn)], e)
    BY PeerFacts DEF SyncInv, WireOk, AgreeInv, WireTrue, Peer
  <1>1. /\ Receive(Cn, e) /\ grants' \subseteq grants
        /\ UNCHANGED <<outbox, acked, fenced, pump, net, jobs, backup>>
    BY DEF GrantArrives
  <1>2. Grown(outbox, inbox, outbox', inbox')
    BY <1>0, <1>1, InboxGrown
  <1>3. WireTrue'
    BY <1>0, <1>1, <1>2, FewerAreTrue
  <1>4. Receives(Cn, e)
    BY <1>0, <1>1 DEF Receives
  <1> QED BY <1>0, <1>3, <1>4 DEF StoreMoves

LEMMA LoseGrantMoves ==
  ASSUME SyncInv, AgreeInv, NEW e \in grants, LoseGrant(e)
  PROVE  StoreMoves /\ WireTrue'
  BY RestIsTrue DEF LoseGrant, storage

LEMMA NextMoves ==
  ASSUME MaxRestores = 0, SyncInv, SyncInv', AgreeInv, [Next]_vars
  PROVE  StoreMoves /\ WireTrue'
  <1>1. ASSUME NEW r \in Region, Users(r)
        PROVE  StoreMoves /\ WireTrue'
    BY <1>1, UsersMove
  <1>2. ASSUME NEW r \in Region, Tick(r)
        PROVE  StoreMoves /\ WireTrue'
    BY <1>2, PullSendMoves, ReconcileMoves, TakeMoves, ReadStatusMoves, ExportMoves,
       AcknowledgeMoves DEF Tick
  <1>3. ASSUME NEW r \in Region, GiveUp(r) \/ Restart(r)
        PROVE  StoreMoves /\ WireTrue'
    BY <1>3, GiveUpMoves, RestartMoves
  <1>4. ASSUME NEW r \in Region, Backup(r) \/ Restore(r)
        PROVE  FALSE
    <2>1. era[Cn] \in Nat /\ era[Overseas] \in Nat /\ backup = None
      BY PeerFacts DEF SyncInv, StoreOk, AgreeInv
    <2> QED BY <1>4, <2>1 DEF Backup, Restore
  <1>5. ASSUME NEW p \in Project, Grant(p)
        PROVE  StoreMoves /\ WireTrue'
    BY <1>5, GrantMoves
  <1>6. ASSUME NEW e \in grants, GrantArrives(e) \/ LoseGrant(e)
        PROVE  StoreMoves /\ WireTrue'
    BY <1>6, GrantArrivesMoves, LoseGrantMoves
  <1>7. CASE Arrives
    BY <1>7, PullArrivesMoves, PostArrivesMoves DEF Arrives
  <1>8. ASSUME NEW j \in jobs, PullHashed(j)
        PROVE  StoreMoves /\ WireTrue'
    BY <1>8, PullHashedMoves
  <1>9. CASE UNCHANGED vars
    BY <1>9, RestIsTrue DEF vars, storage
  <1> QED BY <1>1, <1>2, <1>3, <1>4, <1>5, <1>6, <1>7, <1>8, <1>9 DEF Next

LEMMA InitAgrees == Init => AgreeInv
  <1> SUFFICES ASSUME Init
               PROVE  AgreeInv
    OBVIOUS
  <1>0. SyncInv
    BY InitIsGood
  <1>1. \A r \in Region : TrueStep(outbox, inbox, r, pump[r])
    BY <1>0, StreamsTyped, TrueSteps DEF Init
  <1>2. WireTrue
    <2>1. \A r \in Region : acked[r] = 0 /\ Peer(r) \in Region /\ inbox[Peer(r)] = <<>>
      BY PeerFacts DEF Init
    <2>2. \A r \in Region : acked[r] <= Len(inbox[Peer(r)])
      BY <2>1
    <2> QED BY <1>1, <2>2 DEF WireTrue, Init
  <1>3. Agreed
    BY PeerFacts DEF Agreed, Behind, Init
  <1>4. Superseded
    BY DEF Superseded, Init
  <1>5. GraphOf(<<>>, <<>>) = {}
    BY DEF GraphOf, Entries
  <1>6. \A r \in Region, p \in Project : ShelfOf(r, p)
    BY <1>5 DEF ShelfOf, Shelf, Init
  <1> QED BY <1>2, <1>3, <1>4, <1>6 DEF AgreeInv, Init

-------------------------------------------------------------------------------
(* What holds as long as no region is restored from a backup.              *)

LEMMA AgreeSafe ==
  ASSUME MaxRestores = 0
  PROVE  Spec => [](SyncInv /\ AgreeInv)
  <1>1. Init => SyncInv /\ AgreeInv
    BY InitIsGood, InitAgrees
  <1>2. SyncInv /\ AgreeInv /\ [Next]_vars => (SyncInv /\ AgreeInv)'
    <2> SUFFICES ASSUME SyncInv, AgreeInv, [Next]_vars
                 PROVE  SyncInv' /\ AgreeInv'
      OBVIOUS
    <2>1. SyncInv'
      BY NextKeeps
    <2>2. StoreMoves /\ WireTrue'
      BY <2>1, NextMoves
    <2> QED BY <2>1, <2>2, MovesAgree
  <1> QED BY <1>1, <1>2, PTL DEF Spec

(* The shelf shows nothing of a deleted Project, and of any other the head *)
(* or, in a conflict, one of the heads, however the changes of both        *)
(* regions, lost replies and restarts interleave.                          *)
THEOREM ShelfIsTrueHolds ==
  ASSUME MaxRestores = 0
  PROVE  Spec => []ShelfIsTrue
  <1>1. SyncInv /\ AgreeInv => ShelfIsTrue
    <2> SUFFICES ASSUME SyncInv, AgreeInv, NEW r \in Region, NEW p \in Project
                 PROVE  /\ Deleted(r, p) => p \notin rows[r]
                        /\ NodesOf(r, p) # {} /\ ~Deleted(r, p)
                             => p \in rows[r] /\ current[r][p] \in HeadsOf(r, p)
      BY DEF ShelfIsTrue
    <2>1. PICK N, versions : /\ N = GraphOf(outbox[r], inbox[r])
                             /\ versions = {c \in N : c.project = p}
      OBVIOUS
    <2>2. NodesOf(r, p) = versions
      BY <2>1, NodesAreGraph
    <2>3. /\ \A c \in versions : c.kind = "delete" => p \notin rows[r]
          /\ versions # {} /\ (\A c \in versions : c.kind # "delete")
               => /\ p \in rows[r] /\ current[r][p] \in active[r]
                  /\ \E c \in versions : c.head = current[r][p]
      BY <2>1 DEF AgreeInv, ShelfOf, Shelf
    <2>4. Deleted(r, p) <=> \E c \in versions : c.kind = "delete"
      BY <2>2 DEF Deleted
    <2> QED BY <2>2, <2>3, <2>4 DEF HeadsOf
  <1> QED BY <1>1, AgreeSafe, PTL

(* Regions that have all of each other's changes have the same heads and,  *)
(* but for Projects that replication never saw, the same shelf.            *)
THEOREM ConvergedHolds ==
  ASSUME MaxRestores = 0
  PROVE  Spec => []Converged
  <1>1. SyncInv /\ AgreeInv => Converged
    <2> SUFFICES ASSUME SyncInv, AgreeInv, CaughtUp
                 PROVE  active[Cn] = active[Overseas]
                        /\ rows[Cn] = rows[Overseas] \ Uncaptured
      BY DEF Converged
    <2>1. PICK N : N = GraphOf(outbox[Cn], inbox[Cn])
      OBVIOUS
    <2>2. N = GraphOf(outbox[Overseas], inbox[Overseas])
      BY <2>1, PeerFacts DEF CaughtUp, GraphOf, Peer
    <2>3. Graph(N, active[Cn]) /\ Graph(N, active[Overseas])
      BY <2>1, <2>2, PeerFacts DEF SyncInv, StoreOk
    <2>4. active[Cn] = active[Overseas]
      <3>1. \A c \in N : c.head \in active[Cn] <=> c.head \in active[Overseas]
        BY <2>3 DEF Graph
      <3>2. /\ \A h \in active[Cn] : \E c \in N : c.head = h
            /\ \A h \in active[Overseas] : \E c \in N : c.head = h
        BY <2>3 DEF Graph
      <3>3. \A h : h \in active[Cn] <=> h \in active[Overseas]
        BY <3>1, <3>2
      <3> QED BY <3>3
    <2>5. ASSUME NEW p \in Project
          PROVE  p \in rows[Cn] <=> p \in rows[Overseas] \ Uncaptured
      <3>1. /\ Shelf(Cn, p, N, active[Cn], current[Cn][p], rows[Cn])
            /\ Shelf(Overseas, p, N, active[Overseas], current[Overseas][p], rows[Overseas])
        BY <2>1, <2>2, PeerFacts DEF AgreeInv, ShelfOf
      <3>2. PICK versions : versions = {c \in N : c.project = p}
        OBVIOUS
      <3>3. NoHead \notin active[Overseas] /\ Cn # Overseas
        BY PeerFacts, VersionFacts, SyncAssumption DEF SyncInv, StoreOk
      <3>4. p \in Uncaptured <=> p \in rows[Overseas] /\ current[Overseas][p] = NoHead
        BY PeerFacts DEF Uncaptured, SyncInv, StoreOk
      <3>5. CASE versions = {}
        BY <3>1, <3>2, <3>3, <3>4, <3>5 DEF Shelf
      <3>6. CASE versions # {} /\ \A c \in versions : c.kind # "delete"
        BY <3>1, <3>2, <3>3, <3>4, <3>6 DEF Shelf
      <3>7. CASE \E c \in versions : c.kind = "delete"
        BY <3>1, <3>2, <3>7 DEF Shelf
      <3> QED BY <3>5, <3>6, <3>7
    <2>6. rows[Cn] \subseteq Project /\ rows[Overseas] \subseteq Project
      BY PeerFacts DEF SyncInv, StoreOk
    <2> QED BY <2>4, <2>5, <2>6
  <1> QED BY <1>1, AgreeSafe, PTL

(* What a region believes delivered is with its peer.                      *)
AckedIsHeld == \A r \in Region : acked[r] <= Len(inbox[Peer(r)])

(* An acknowledgement never passes what was received, also when replies    *)
(* are lost and events sent again (worker/project-sync.ts).                *)
THEOREM AckedIsHeldHolds ==
  ASSUME MaxRestores = 0
  PROVE  Spec => []AckedIsHeld
  <1>1. AgreeInv => AckedIsHeld
    BY DEF AgreeInv, WireTrue, AckedIsHeld
  <1> QED BY <1>1, AgreeSafe, PTL

-------------------------------------------------------------------------------
(* The quota.  The predicates are over the streams, shelves and            *)
(* reservations of both regions.                                           *)

Mentions(s, p) == \E i \in DOMAIN s : s[i].project = p
Deletes(s, p) == \E i \in DOMAIN s : s[i].kind = "delete" /\ s[i].project = p
Gone(out, in, p) == Deletes(out[Overseas], p) \/ Deletes(in[Overseas], p)

(* The Projects that the authority has or promised.                        *)
Charged(shelf, held) == {p \in Project : p \in shelf[Overseas] \/ held[Overseas][p] # 0}

Fits(S) == S \subseteq Project /\ IsFiniteSet(S) /\ Cardinality(S) <= Limit

(* It charges all it spoke of and has not seen deleted.                    *)
Promised(out, in, shelf, held) ==
  \A p \in Project : Mentions(out[Overseas], p) /\ ~Gone(out, in, p) => p \in Charged(shelf, held)

(* When it had issued k changes, the Projects these speak of and of which  *)
(* it had seen no deletion were within the limit.                          *)
Budget(s, seen, k) ==
  \E S : /\ Fits(S)
         /\ \A i \in 1..k : \/ s[i].project \in S
                            \/ \E j \in 1..k : s[j].kind = "delete" /\ s[j].project = s[i].project
                            \/ Deletes(seen, s[i].project)

(* All that China shows or may create, it has from the authority.          *)
Vouched(in, shelf, held) ==
  \A p \in Project : p \in shelf[Cn] \/ held[Cn][p] # 0 => Mentions(in[Cn], p)

Kept(out, in, shelf, held) ==
  /\ Fits(Charged(shelf, held))
  /\ Promised(out, in, shelf, held)
  /\ \A k \in 0..Len(out[Overseas]) : Budget(out[Overseas], in[Overseas], k)
  /\ Vouched(in, shelf, held)

QuotaInv == Kept(outbox, inbox, rows, quota)

LEMMA SmallerFits ==
  ASSUME NEW S, NEW T, Fits(S), T \subseteq S
  PROVE  Fits(T)
  <1>1. IsFiniteSet(T) /\ Cardinality(T) <= Cardinality(S)
    BY FS_Subset DEF Fits
  <1>2. Cardinality(T) \in Nat /\ Cardinality(S) \in Nat
    BY <1>1, FS_CardinalityType DEF Fits
  <1> QED BY <1>1, <1>2, SyncAssumption DEF Fits

LEMMA OneMoreFits ==
  ASSUME NEW S, NEW p \in Project, Fits(S), p \in S \/ Cardinality(S) < Limit
  PROVE  Fits(S \cup {p})
  <1>1. CASE p \in S
    <2>1. S \cup {p} = S
      BY <1>1
    <2> QED BY <2>1
  <1>2. CASE p \notin S
    <2>1. IsFiniteSet(S \cup {p}) /\ Cardinality(S \cup {p}) = Cardinality(S) + 1
      BY <1>2, FS_AddElement DEF Fits
    <2>2. Cardinality(S) \in Nat
      BY FS_CardinalityType DEF Fits
    <2> QED BY <1>2, <2>1, <2>2, SyncAssumption DEF Fits
  <1> QED BY <1>1, <1>2

LEMMA ChargedHere ==
  SyncInv => Charged(rows, quota) = rows[Overseas] \cup Reserved(Overseas)
  <1> SUFFICES ASSUME SyncInv
               PROVE  Charged(rows, quota) = rows[Overseas] \cup Reserved(Overseas)
    OBVIOUS
  <1>1. rows[Overseas] \subseteq Project
    BY PeerFacts DEF SyncInv, StoreOk
  <1> QED BY <1>1 DEF Charged, Reserved

LEMMA GoneHere ==
  ASSUME NEW p \in Project
  PROVE  Deleted(Overseas, p) <=> Gone(outbox, inbox, p)
  BY DEF Deleted, NodesOf, Nodes, Entries, Gone, Deletes

LEMMA AppendSpeaks ==
  ASSUME NEW s \in Seq(Change), NEW c \in Change
  PROVE  /\ \A p : Mentions(Append(s, c), p) <=> Mentions(s, p) \/ p = c.project
         /\ \A p : Deletes(Append(s, c), p)
                     <=> Deletes(s, p) \/ (p = c.project /\ c.kind = "delete")
  <1>1. PICK t : t = Append(s, c)
    OBVIOUS
  <1>2. /\ DOMAIN t = DOMAIN s \cup {Len(s) + 1} /\ t[Len(s) + 1] = c
        /\ \A i \in DOMAIN s : t[i] = s[i]
    BY <1>1, AppendChange
  <1>3. \A p : Mentions(t, p) <=> Mentions(s, p) \/ p = c.project
    BY <1>2 DEF Mentions
  <1>4. \A p : Deletes(t, p) <=> Deletes(s, p) \/ (p = c.project /\ c.kind = "delete")
    BY <1>2 DEF Deletes
  <1> QED BY <1>1, <1>3, <1>4

LEMMA BehindSpeaks ==
  ASSUME NEW s, NEW t, Behind(s, t)
  PROVE  /\ \A p : Mentions(s, p) => Mentions(t, p)
         /\ \A p : Deletes(s, p) => Deletes(t, p)
  BY DEF Behind, Mentions, Deletes

(* A budget once kept stays kept as the streams grow.                      *)
LEMMA BudgetStays ==
  ASSUME NEW s \in Seq(Change), NEW t, Behind(s, t), NEW seen, NEW more, Behind(seen, more),
         NEW k \in 0..Len(s), Budget(s, seen, k)
  PROVE  Budget(t, more, k)
  <1>1. \A i \in 1..k : i \in DOMAIN s
    OBVIOUS
  <1>2. \A i \in 1..k : t[i] = s[i]
    BY <1>1 DEF Behind
  <1>3. \A p : Deletes(seen, p) => Deletes(more, p)
    BY BehindSpeaks
  <1>4. PICK S : /\ Fits(S)
                 /\ \A i \in 1..k :
                      \/ s[i].project \in S
                      \/ \E j \in 1..k : s[j].kind = "delete" /\ s[j].project = s[i].project
                      \/ Deletes(seen, s[i].project)
    BY DEF Budget
  <1>5. \A i \in 1..k : \/ t[i].project \in S
                        \/ \E j \in 1..k : t[j].kind = "delete" /\ t[j].project = t[i].project
                        \/ Deletes(more, t[i].project)
    BY <1>2, <1>3, <1>4
  <1> QED BY <1>4, <1>5 DEF Budget

(* What the authority charges now is a budget for all that it issued.      *)
LEMMA ChargedIsBudget ==
  ASSUME NEW out, NEW in, NEW shelf, NEW held, out[Overseas] \in Seq(Change),
         Fits(Charged(shelf, held)), Promised(out, in, shelf, held)
  PROVE  Budget(out[Overseas], in[Overseas], Len(out[Overseas]))
  <1>1. PICK s, S : s = out[Overseas] /\ S = Charged(shelf, held)
    OBVIOUS
  <1>2. s \in Seq(Change) /\ Fits(S)
    BY <1>1
  <1>3. 1..Len(s) = DOMAIN s /\ \A i \in DOMAIN s : s[i].project \in Project
    <2>1. 1..Len(s) = DOMAIN s /\ \A i \in DOMAIN s : s[i] \in Change
      BY <1>2
    <2>2. \A c \in Change : c.project \in Project
      BY DEF Change
    <2> QED BY <2>1, <2>2
  <1>4. \A p \in Project : Mentions(s, p) => p \in S \/ Deletes(s, p) \/ Deletes(in[Overseas], p)
    BY <1>1 DEF Promised, Gone
  <1>5. \A i \in 1..Len(s) : \/ s[i].project \in S
                             \/ \E j \in 1..Len(s) : s[j].kind = "delete"
                                                     /\ s[j].project = s[i].project
                             \/ Deletes(in[Overseas], s[i].project)
    <2> SUFFICES ASSUME NEW i \in DOMAIN s
                 PROVE  s[i].project \in S \/ Deletes(s, s[i].project)
                        \/ Deletes(in[Overseas], s[i].project)
      BY <1>3 DEF Deletes
    <2>1. Mentions(s, s[i].project) /\ s[i].project \in Project
      BY <1>3 DEF Mentions
    <2> QED BY <1>4, <2>1
  <1> QED BY <1>1, <1>2, <1>5 DEF Budget

(* A step keeps the quota if the authority's charge stays true.            *)
LEMMA QuotaFollows ==
  ASSUME SyncInv, SyncInv', QuotaInv, Grown(outbox, inbox, outbox', inbox'),
         Len(outbox'[Overseas]) \in {Len(outbox[Overseas]), Len(outbox[Overseas]) + 1},
         Fits(Charged(rows', quota')), Promised(outbox', inbox', rows', quota'),
         Vouched(inbox', rows', quota')
  PROVE  QuotaInv'
  <1>0. /\ outbox[Overseas] \in Seq(Change) /\ outbox'[Overseas] \in Seq(Change)
        /\ Behind(outbox[Overseas], outbox'[Overseas]) /\ Behind(inbox[Overseas], inbox'[Overseas])
        /\ \A k \in 0..Len(outbox[Overseas]) : Budget(outbox[Overseas], inbox[Overseas], k)
    BY PeerFacts DEF SyncInv, StoreOk, Grown, QuotaInv, Kept
  <1>1. ASSUME NEW k \in 0..Len(outbox'[Overseas])
        PROVE  Budget(outbox'[Overseas], inbox'[Overseas], k)
    <2>0. Len(outbox[Overseas]) \in Nat
      BY <1>0
    <2>1. CASE k \in 0..Len(outbox[Overseas])
      BY <1>0, <2>1, BudgetStays
    <2>2. CASE k = Len(outbox'[Overseas])
      BY <1>0, <2>2, ChargedIsBudget
    <2> QED BY <2>0, <2>1, <2>2
  <1> QED BY <1>1 DEF QuotaInv, Kept

(* A user's change of the Project p: what it may do to the quota.          *)
LEMMA RecordCharges ==
  ASSUME SyncInv, SyncInv', AgreeInv, QuotaInv, NEW r \in Region, NEW p \in Project,
         NEW kind \in {"save", "delete"}, Record(r, p, kind), inbox' = inbox,
         \A q \in Region : q # r => rows'[q] = rows[q] /\ quota'[q] = quota[q],
         \A x \in Project : x # p => (x \in rows'[r] <=> x \in rows[r]) /\ quota'[r][x] = quota[r][x],
         r = Overseas /\ kind = "save" =>
           /\ p \in rows'[r]
           /\ p \in Charged(rows, quota) \/ Cardinality(Charged(rows, quota)) < Limit,
         r = Overseas /\ kind = "delete" => p \notin rows'[r] /\ quota'[r][p] = 0,
         r = Cn /\ (p \in rows'[r] \/ quota'[r][p] # 0) => p \in rows[r] \/ quota[r][p] # 0
  PROVE  QuotaInv'
  <1>0. PICK c : c = Issued(r, p, kind, 0)
    OBVIOUS
  <1>1. c \in Change /\ c.kind = kind /\ c.project = p
    <2>1. StoreOk
      BY DEF SyncInv
    <2> QED BY <1>0, <2>1, IssuedFacts
  <1>2. outbox' = [outbox EXCEPT ![r] = Append(@, c)]
    BY <1>0 DEF Record
  <1>3. /\ Grown(outbox, inbox, outbox', inbox') /\ outbox'[r] = Append(outbox[r], c)
        /\ \A q \in Region : q # r => outbox'[q] = outbox[q]
        /\ outbox[r] \in Seq(Change) /\ Len(outbox'[r]) = Len(outbox[r]) + 1
    <2>1. /\ Grown(outbox, inbox, outbox', inbox') /\ outbox'[r] = Append(outbox[r], c)
          /\ \A q \in Region : q # r => outbox'[q] = outbox[q]
          /\ outbox[r] \in Seq(Change)
      BY <1>1, <1>2, OutboxGrown
    <2>2. Len(outbox'[r]) = Len(outbox[r]) + 1
      BY <1>1, <2>1, AppendChange
    <2> QED BY <2>1, <2>2
  <1>4. Overseas \in Region /\ Cn \in Region /\ (r = Cn \/ r = Overseas) /\ Cn # Overseas
    BY SyncAssumption DEF Region
  <1>5. /\ Fits(Charged(rows, quota)) /\ Vouched(inbox, rows, quota)
        /\ Promised(outbox, inbox, rows, quota)
    BY DEF QuotaInv, Kept
  <1>6. Vouched(inbox', rows', quota')
    BY <1>4, <1>5 DEF Vouched
  <1>7. CASE r = Cn
    <2>1. outbox'[Overseas] = outbox[Overseas] /\ Charged(rows', quota') = Charged(rows, quota)
      BY <1>3, <1>4, <1>7 DEF Charged
    <2>2. Fits(Charged(rows', quota')) /\ Promised(outbox', inbox', rows', quota')
      BY <1>5, <2>1 DEF Promised, Gone
    <2> QED BY <1>3, <1>6, <2>1, <2>2, QuotaFollows
  <1>8. CASE r = Overseas
    <2>1. \A x \in Project :
            /\ Mentions(outbox'[Overseas], x) <=> Mentions(outbox[Overseas], x) \/ x = p
            /\ Deletes(outbox'[Overseas], x)
                 <=> Deletes(outbox[Overseas], x) \/ (x = p /\ kind = "delete")
      <3>1. outbox'[Overseas] = Append(outbox[Overseas], c) /\ outbox[Overseas] \in Seq(Change)
        BY <1>3, <1>8
      <3>2. /\ \A x : Mentions(outbox'[Overseas], x)
                        <=> Mentions(outbox[Overseas], x) \/ x = c.project
            /\ \A x : Deletes(outbox'[Overseas], x)
                        <=> Deletes(outbox[Overseas], x) \/ (x = c.project /\ c.kind = "delete")
        BY <1>1, <3>1, AppendSpeaks
      <3> QED BY <1>1, <3>2
    <2>2. \A x \in Project : x # p => (x \in Charged(rows', quota') <=> x \in Charged(rows, quota))
      BY <1>4, <1>8 DEF Charged
    <2>3. /\ kind = "save" => p \in Charged(rows', quota')
          /\ kind = "delete" => p \notin Charged(rows', quota')
      BY <1>4, <1>8 DEF Charged
    <2>4. Fits(Charged(rows', quota'))
      <3>0. Charged(rows', quota') \subseteq Project
        BY DEF Charged
      <3>1. CASE kind = "save"
        <4>1. Charged(rows', quota') = Charged(rows, quota) \cup {p}
          BY <1>5, <2>2, <2>3, <3>0, <3>1 DEF Fits
        <4> QED BY <1>5, <1>8, <3>1, <4>1, OneMoreFits
      <3>2. CASE kind = "delete"
        <4>1. Charged(rows', quota') \subseteq Charged(rows, quota)
          BY <2>2, <2>3, <3>0, <3>2
        <4> QED BY <1>5, <4>1, SmallerFits
      <3> QED BY <3>1, <3>2
    <2>5. Promised(outbox', inbox', rows', quota')
      <3> SUFFICES ASSUME NEW x \in Project, Mentions(outbox'[Overseas], x),
                          ~Gone(outbox', inbox', x)
                   PROVE  x \in Charged(rows', quota')
        BY DEF Promised
      <3>1. ~Deletes(outbox'[Overseas], x) /\ ~Deletes(inbox[Overseas], x)
        BY DEF Gone
      <3>2. CASE x # p
        BY <1>5, <2>1, <2>2, <3>1, <3>2 DEF Promised, Gone
      <3>3. CASE x = p
        BY <2>1, <2>3, <3>1, <3>3
      <3> QED BY <3>2, <3>3
    <2> QED BY <1>3, <1>6, <1>8, <2>4, <2>5, QuotaFollows
  <1> QED BY <1>4, <1>7, <1>8

LEMMA UsersCharge ==
  ASSUME SyncInv, SyncInv', AgreeInv, QuotaInv, NEW r \in Region, Users(r)
  PROVE  QuotaInv'
  <1>0. /\ rows \in [Region -> SUBSET Project] /\ quota \in [Region -> [Project -> Nat]]
        /\ quota[r] \in [Project -> Nat] /\ era[r] \in Nat
    BY DEF SyncInv, StoreOk
  <1> SUFFICES ASSUME NEW p \in Project,
                      \/ Create(r, p) \/ Capture(r, p) \/ Delete(r, p)
                      \/ \E token \in active[r] : Save(r, p, token)
                      \/ \E named \in {HeadsOf(r, p)} : Resolve(r, p, named)
               PROVE  QuotaInv'
    BY DEF Users
  <1>1. CASE Create(r, p)
    <2>1. rows' = [rows EXCEPT ![r] = @ \cup {p}] /\ Record(r, p, "save") /\ inbox' = inbox
      BY <1>1 DEF Create, UsersUnchanged
    <2>2. CASE r = Overseas
      <3>1. /\ quota[r][p] # 0 \/ Room(r)
            /\ quota' = [quota EXCEPT ![r][p] = IF @ # 0 THEN @ ELSE 1 + era[r]]
        BY <1>1, <2>2 DEF Create
      <3>2. quota' = [quota EXCEPT ![r] = [quota[r] EXCEPT ![p] = IF quota[r][p] # 0 THEN quota[r][p] ELSE 1 + era[r]]]
        BY <1>0, <3>1
      <3>3. p \in Charged(rows, quota) \/ Cardinality(Charged(rows, quota)) < Limit
        BY <2>2, <3>1, ChargedHere DEF Room, Charged
      <3>4. r # Cn
        BY <2>2, SyncAssumption
      <3>5. \A q \in Region : q # r => rows'[q] = rows[q] /\ quota'[q] = quota[q]
        BY <1>0, <2>1, <3>2
      <3>6. p \in rows'[r] /\ \A x \in Project : x # p => (x \in rows'[r] <=> x \in rows[r])
        BY <1>0, <2>1
      <3>7. \A x \in Project : x # p => quota'[r][x] = quota[r][x]
        BY <1>0, <3>2
      <3> QED BY <2>1, <3>3, <3>4, <3>5, <3>6, <3>7, RecordCharges
    <2>3. CASE r # Overseas
      <3>1. quota[r][p] # 0 /\ quota' = quota
        BY <1>1, <2>3 DEF Create
      <3>2. \A q \in Region : q # r => rows'[q] = rows[q]
        BY <1>0, <2>1
      <3>3. \A x \in Project : x # p => (x \in rows'[r] <=> x \in rows[r])
        BY <1>0, <2>1
      <3> QED BY <2>1, <2>3, <3>1, <3>2, <3>3, RecordCharges
    <2> QED BY <2>2, <2>3
  <1>2. CASE Capture(r, p) \/ (\E token \in active[r] : Save(r, p, token))
             \/ (\E named \in {HeadsOf(r, p)} : Resolve(r, p, named))
    <2>1. /\ UNCHANGED <<rows, quota, inbox>> /\ p \in rows[r] /\ Record(r, p, "save")
      BY <1>2 DEF Capture, Save, Resolve, UsersUnchanged
    <2>2. r = Overseas => p \in Charged(rows, quota)
      BY <2>1 DEF Charged
    <2> QED BY <2>1, <2>2, RecordCharges
  <1>3. CASE Delete(r, p)
    <2>1. /\ rows' = [rows EXCEPT ![r] = @ \ {p}] /\ Record(r, p, "delete") /\ inbox' = inbox
          /\ quota' = [quota EXCEPT ![r][p] = 0]
      BY <1>3 DEF Delete, UsersUnchanged
    <2>2. quota' = [quota EXCEPT ![r] = [quota[r] EXCEPT ![p] = 0]]
      BY <1>0, <2>1
    <2>3. \A q \in Region : q # r => rows'[q] = rows[q] /\ quota'[q] = quota[q]
      BY <1>0, <2>1, <2>2
    <2>4. p \notin rows'[r] /\ \A x \in Project : x # p => (x \in rows'[r] <=> x \in rows[r])
      BY <1>0, <2>1
    <2>5. quota'[r][p] = 0 /\ \A x \in Project : x # p => quota'[r][x] = quota[r][x]
      BY <1>0, <2>2
    <2> QED BY <2>1, <2>3, <2>4, <2>5, RecordCharges
  <1> QED BY <1>1, <1>2, <1>3

LEMMA GrantCharges ==
  ASSUME SyncInv, SyncInv', AgreeInv, QuotaInv, NEW p \in Project, Grant(p)
  PROVE  QuotaInv'
  <1>0. /\ quota \in [Region -> [Project -> Nat]] /\ quota[Overseas] \in [Project -> Nat]
        /\ era[Overseas] \in Nat /\ Overseas \in Region /\ Cn \in Region /\ Cn # Overseas
        /\ outbox[Overseas] \in Seq(Change)
    BY PeerFacts, SyncAssumption DEF SyncInv, StoreOk
  <1>1. PICK token : token = IF quota[Overseas][p] # 0 THEN quota[Overseas][p] ELSE 1 + era[Overseas]
    OBVIOUS
  <1>2. token \in Nat /\ token # 0
    BY <1>0, <1>1
  <1>3. PICK c : c = Issued(Overseas, p, "quota", token)
    OBVIOUS
  <1>4. c \in Change /\ c.kind = "quota" /\ c.project = p
    <2>1. StoreOk
      BY DEF SyncInv
    <2> QED BY <1>2, <1>3, <2>1, ReservedFacts
  <1>5. /\ quota[Overseas][p] # 0 \/ Room(Overseas)
        /\ quota' = [quota EXCEPT ![Overseas][p] = token]
        /\ \/ outbox' = outbox /\ Granted(p) # {}
           \/ outbox' = [outbox EXCEPT ![Overseas] = Append(@, c)]
        /\ rows' = rows /\ inbox' = inbox
    BY <1>1, <1>3 DEF Grant
  <1>6. quota' = [quota EXCEPT ![Overseas] = [quota[Overseas] EXCEPT ![p] = token]]
    BY <1>0, <1>5
  <1>7. /\ quota'[Cn] = quota[Cn] /\ quota'[Overseas][p] # 0
        /\ \A x \in Project : x # p => quota'[Overseas][x] = quota[Overseas][x]
    BY <1>0, <1>2, <1>6
  <1>8. Charged(rows', quota') = Charged(rows, quota) \cup {p}
    BY <1>5, <1>7 DEF Charged
  <1>9. p \in Charged(rows, quota) \/ Cardinality(Charged(rows, quota)) < Limit
    BY <1>5, ChargedHere DEF Room, Charged
  <1>10. /\ Fits(Charged(rows, quota)) /\ Vouched(inbox, rows, quota)
         /\ Promised(outbox, inbox, rows, quota)
    BY DEF QuotaInv, Kept
  <1>11. Fits(Charged(rows', quota'))
    BY <1>8, <1>9, <1>10, OneMoreFits
  <1>12. Vouched(inbox', rows', quota')
    BY <1>5, <1>7, <1>10 DEF Vouched
  <1>13. CASE outbox' = outbox
    <2>1. Promised(outbox', inbox', rows', quota')
      BY <1>5, <1>8, <1>10, <1>13 DEF Promised, Gone
    <2>2. Grown(outbox, inbox, outbox', inbox')
      BY <1>5, <1>13, StaysGrown
    <2> QED BY <1>11, <1>12, <1>13, <2>1, <2>2, QuotaFollows
  <1>14. CASE outbox' = [outbox EXCEPT ![Overseas] = Append(@, c)]
    <2>1. /\ Grown(outbox, inbox, outbox', inbox')
          /\ outbox'[Overseas] = Append(outbox[Overseas], c)
      BY <1>0, <1>4, <1>5, <1>14, OutboxGrown
    <2>2. /\ Len(outbox'[Overseas]) = Len(outbox[Overseas]) + 1
          /\ \A x : Mentions(outbox'[Overseas], x) <=> Mentions(outbox[Overseas], x) \/ x = p
          /\ \A x : Deletes(outbox[Overseas], x) => Deletes(outbox'[Overseas], x)
      BY <1>0, <1>4, <2>1, AppendChange, AppendSpeaks
    <2>3. Promised(outbox', inbox', rows', quota')
      BY <1>5, <1>8, <1>10, <2>2 DEF Promised, Gone
    <2> QED BY <1>11, <1>12, <2>1, <2>2, <2>3, QuotaFollows
  <1> QED BY <1>5, <1>13, <1>14

LEMMA ShelfHere ==
  ASSUME AgreeInv, NEW r \in Region, NEW p \in Project, NodesOf(r, p) # {}, ~Deleted(r, p)
  PROVE  p \in rows[r]
  <1>1. ShelfOf(r, p)
    BY DEF AgreeInv
  <1>2. NodesOf(r, p) = {c \in GraphOf(outbox[r], inbox[r]) : c.project = p}
    BY NodesAreGraph
  <1> QED BY <1>1, <1>2 DEF ShelfOf, Shelf, Deleted

(* What a received event does to its Project: the authority charges no     *)
(* more, and leaves off only what is deleted.                              *)
LEMMA ReceivedCharge ==
  ASSUME SyncInv, AgreeInv, NEW e \in Event(Cn), Receives(Overseas, e),
         NEW p, p = e.change.project
  PROVE  /\ p \in Charged(rows', quota') => p \in Charged(rows, quota)
         /\ p \in Charged(rows, quota) => p \in Charged(rows', quota') \/ Gone(outbox', inbox', p)
  <1>0. PICK c : c = e.change /\ c \in Change /\ p = c.project /\ p \in Project
    BY DEF Event, Change
  <1>1. /\ Overseas \in Region /\ Cn \in Region /\ Peer(Overseas) = Cn /\ Overseas # Cn
        /\ Peer(Cn) = Overseas
    BY PeerFacts, SyncAssumption DEF Peer
  <1>2. /\ rows[Overseas] \subseteq Project /\ quota[Overseas] \in [Project -> Nat]
        /\ rows \in [Region -> SUBSET Project] /\ quota \in [Region -> [Project -> Nat]]
    BY <1>1 DEF SyncInv, StoreOk
  <1>3. PICK new : new = Acceptable(Overseas, e) /\ new \in BOOLEAN
    BY DEF Acceptable
  <1>4. /\ rows'[Overseas] = IF new /\ c.kind # "quota" THEN ShelfAfter(Overseas, c)
                                                       ELSE rows[Overseas]
        /\ quota'[Overseas] = QuotaAfter(Overseas, e)
    BY <1>0, <1>1, <1>2, <1>3 DEF Receives, Receive
  <1>5. new => /\ c.kind # "quota"
               /\ c.parents = {} => quota[Overseas][p] # 0
               /\ c.parents # {} => NodesOf(Overseas, p) # {}
    BY <1>0, <1>1, <1>3 DEF Acceptable
  <1>6. Grown(outbox, inbox, outbox', inbox') /\ (new => inbox'[Overseas] = Append(inbox[Overseas], c))
        /\ inbox[Overseas] \in Seq(Change) /\ outbox' = outbox
    BY <1>0, <1>1, <1>3, InboxGrown DEF Receives
  <1>7. Gone(outbox, inbox, p) => Gone(outbox', inbox', p)
    BY <1>1, <1>6, BehindSpeaks DEF Gone, Grown
  <1>8. Deleted(Overseas, p) <=> Gone(outbox, inbox, p)
    BY <1>0, GoneHere
  <1>9. c.kind = "delete" /\ Taken(Overseas, e) => Gone(outbox', inbox', p)
    <2>1. CASE new /\ c.kind = "delete"
      <3>1. inbox'[Overseas] = Append(inbox[Overseas], c)
        BY <1>6, <2>1
      <3>2. Deletes(Append(inbox[Overseas], c), c.project)
        BY <1>0, <1>6, <2>1, AppendSpeaks
      <3> QED BY <1>0, <3>1, <3>2 DEF Gone
    <2>2. CASE Repeated(Overseas, e) /\ c.kind = "delete"
      <3>1. e.sequence \in DOMAIN inbox[Overseas] /\ outbox[Cn][e.sequence] = c
        BY <1>0, <1>1, <2>2 DEF Repeated, Receives, Genuine
      <3>2. Behind(inbox[Overseas], outbox[Cn])
        BY <1>1 DEF AgreeInv, Agreed
      <3>3. inbox[Overseas][e.sequence] = c
        BY <3>1, <3>2 DEF Behind
      <3>4. Deletes(inbox[Overseas], p)
        BY <1>0, <2>2, <3>1, <3>3 DEF Deletes
      <3> QED BY <1>7, <3>4 DEF Gone
    <2> QED BY <1>3, <2>1, <2>2 DEF Taken
  <1>10. quota'[Overseas][p] # 0 => quota[Overseas][p] # 0
    BY <1>0, <1>2, <1>3, <1>4, <1>5 DEF QuotaAfter
  <1>11. p \in rows'[Overseas] => p \in Charged(rows, quota)
    <2>1. CASE ~new
      BY <1>0, <1>4, <2>1 DEF Charged
    <2>2. CASE new
      <3>1. p \in ShelfAfter(Overseas, c) => p \in rows[Overseas] \/ ~Deleted(Overseas, p)
        BY <1>0 DEF ShelfAfter, Tombstoned
      <3>2. NodesOf(Overseas, p) # {} /\ ~Deleted(Overseas, p) => p \in rows[Overseas]
        BY <1>0, <1>1, ShelfHere
      <3> QED BY <1>0, <1>4, <1>5, <2>2, <3>1, <3>2 DEF Charged
    <2> QED BY <1>3, <2>1, <2>2
  <1>12. CASE Taken(Overseas, e) /\ Tombstoned(Overseas, c)
    <2>1. c.kind = "delete" \/ Gone(outbox, inbox, p)
      BY <1>0, <1>8, <1>12 DEF Tombstoned
    <2> QED BY <1>0, <1>7, <1>9, <1>10, <1>11, <1>12, <2>1 DEF Charged
  <1>13. CASE ~(Taken(Overseas, e) /\ Tombstoned(Overseas, c))
    <2>1. quota'[Overseas] = quota[Overseas]
      BY <1>0, <1>3, <1>4, <1>5, <1>13 DEF QuotaAfter
    <2>2. p \in rows[Overseas] => p \in rows'[Overseas]
      BY <1>0, <1>3, <1>4, <1>13 DEF ShelfAfter, Taken
    <2> QED BY <1>0, <1>10, <1>11, <2>1, <2>2 DEF Charged
  <1> QED BY <1>12, <1>13

LEMMA ReceiveCharges ==
  ASSUME SyncInv, SyncInv', AgreeInv, QuotaInv, NEW r \in Region, NEW e \in Event(Peer(r)),
         Receives(r, e)
  PROVE  QuotaInv'
  <1>0. PICK c, p : c = e.change /\ c \in Change /\ p = c.project /\ p \in Project
    BY DEF Event, Change
  <1>1. /\ Overseas \in Region /\ Cn \in Region /\ Overseas # Cn /\ (r = Cn \/ r = Overseas)
        /\ Peer(Overseas) = Cn
    BY SyncAssumption DEF Region, Peer
  <1>2. /\ rows \in [Region -> SUBSET Project] /\ quota \in [Region -> [Project -> Nat]]
        /\ rows[r] \subseteq Project /\ quota[r] \in [Project -> Nat]
    BY DEF SyncInv, StoreOk
  <1>3. /\ Grown(outbox, inbox, outbox', inbox') /\ outbox' = outbox
        /\ \A q \in Region : q # r => inbox'[q] = inbox[q]
        /\ Acceptable(r, e) => inbox'[r] = Append(inbox[r], c)
        /\ ~Acceptable(r, e) => inbox' = inbox
        /\ inbox[r] \in Seq(Change)
    BY <1>0, InboxGrown DEF Receives
  <1>4. \A q \in Region : q # r => rows'[q] = rows[q] /\ quota'[q] = quota[q]
    BY <1>2 DEF Receives, Receive
  <1>5. /\ rows'[r] = IF Acceptable(r, e) /\ c.kind # "quota" THEN ShelfAfter(r, c) ELSE rows[r]
        /\ quota'[r] = QuotaAfter(r, e)
    BY <1>0, <1>2 DEF Receives, Receive
  <1>6. \A x \in Project : x # p => (x \in rows'[r] <=> x \in rows[r])
    BY <1>0, <1>5 DEF ShelfAfter
  <1>7. \A x \in Project : x # p => quota'[r][x] = quota[r][x]
    BY <1>0, <1>2, <1>5 DEF QuotaAfter
  <1>8. /\ Fits(Charged(rows, quota)) /\ Vouched(inbox, rows, quota)
        /\ Promised(outbox, inbox, rows, quota)
    BY DEF QuotaInv, Kept
  <1>9. CASE r = Cn
    <2>1. Charged(rows', quota') = Charged(rows, quota) /\ inbox'[Overseas] = inbox[Overseas]
      BY <1>1, <1>3, <1>4, <1>9 DEF Charged
    <2>2. Fits(Charged(rows', quota')) /\ Promised(outbox', inbox', rows', quota')
      BY <1>3, <1>8, <2>1 DEF Promised, Gone
    <2>3. Vouched(inbox', rows', quota')
      <3> SUFFICES ASSUME NEW x \in Project, x \in rows'[Cn] \/ quota'[Cn][x] # 0
                   PROVE  Mentions(inbox'[Cn], x)
        BY DEF Vouched
      <3>1. Mentions(inbox[Cn], x) => Mentions(inbox'[Cn], x)
        BY <1>1, <1>3, BehindSpeaks DEF Grown
      <3>2. CASE x # p
        BY <1>6, <1>7, <1>8, <1>9, <3>1, <3>2 DEF Vouched
      <3>3. CASE Acceptable(r, e) /\ x = p
        <4>1. inbox'[Cn] = Append(inbox[Cn], c) /\ inbox[Cn] \in Seq(Change)
          BY <1>3, <1>9, <3>3
        <4>2. Mentions(Append(inbox[Cn], c), c.project)
          BY <1>0, <4>1, AppendSpeaks
        <4> QED BY <1>0, <3>3, <4>1, <4>2
      <3>4. CASE ~Acceptable(r, e) /\ x = p
        <4>1. rows'[r] = rows[r] /\ (quota'[r][p] # 0 => quota[r][p] # 0)
          BY <1>0, <1>2, <1>5, <3>4 DEF QuotaAfter
        <4> QED BY <1>8, <1>9, <3>1, <3>4, <4>1 DEF Vouched
      <3> QED BY <3>2, <3>3, <3>4
    <2>4. Len(outbox'[Overseas]) \in {Len(outbox[Overseas]), Len(outbox[Overseas]) + 1}
      BY <1>3
    <2> QED BY <1>3, <2>2, <2>3, <2>4, QuotaFollows
  <1>10. CASE r = Overseas
    <2>1. /\ p \in Charged(rows', quota') => p \in Charged(rows, quota)
          /\ p \in Charged(rows, quota) => p \in Charged(rows', quota') \/ Gone(outbox', inbox', p)
      BY <1>0, <1>1, <1>10, ReceivedCharge
    <2>2. \A x \in Project : x # p => (x \in Charged(rows', quota') <=> x \in Charged(rows, quota))
      BY <1>6, <1>7, <1>10 DEF Charged
    <2>3. Charged(rows', quota') \subseteq Charged(rows, quota)
      BY <2>1, <2>2 DEF Charged
    <2>4. Fits(Charged(rows', quota'))
      BY <1>8, <2>3, SmallerFits
    <2>5. \A x : Gone(outbox, inbox, x) => Gone(outbox', inbox', x)
      BY <1>1, <1>3, BehindSpeaks DEF Gone, Grown
    <2>6. Promised(outbox', inbox', rows', quota')
      BY <1>3, <1>8, <2>1, <2>2, <2>5 DEF Promised
    <2>7. Vouched(inbox', rows', quota')
      BY <1>1, <1>3, <1>4, <1>8, <1>10 DEF Vouched
    <2>8. Len(outbox'[Overseas]) \in {Len(outbox[Overseas]), Len(outbox[Overseas]) + 1}
      BY <1>3
    <2> QED BY <1>3, <2>4, <2>6, <2>7, <2>8, QuotaFollows
  <1> QED BY <1>1, <1>9, <1>10

LEMMA RestCharges ==
  ASSUME SyncInv, SyncInv', QuotaInv, UNCHANGED <<outbox, inbox, rows, quota>>
  PROVE  QuotaInv'
  BY DEF QuotaInv

LEMMA TakeCharges ==
  ASSUME SyncInv, SyncInv', AgreeInv, QuotaInv, NEW r \in Region, Take(r)
  PROVE  QuotaInv'
  <1>0. /\ GoodStep(r, pump[r]) /\ TrueStep(outbox, inbox, r, pump[r]) /\ pump[r].pc = "take"
    BY DEF SyncInv, WireOk, AgreeInv, WireTrue, Take
  <1>1. CASE pump[r].event = NoEvent
    BY <1>1, RestCharges DEF Take
  <1>2. CASE pump[r].event # NoEvent
    <2>1. pump[r].event \in Event(Peer(r)) /\ Genuine(outbox[Peer(r)], pump[r].event)
      BY <1>0, <1>2 DEF GoodStep, TrueStep
    <2>2. Receive(r, pump[r].event) /\ UNCHANGED <<outbox, acked, fenced, backup>>
      BY <1>2 DEF Take
    <2>3. Receives(r, pump[r].event)
      BY <2>1, <2>2 DEF Receives
    <2> QED BY <2>1, <2>3, ReceiveCharges
  <1> QED BY <1>1, <1>2

LEMMA PostArrivesCharges ==
  ASSUME SyncInv, SyncInv', AgreeInv, QuotaInv, NEW m \in net, PostArrives(m)
  PROVE  QuotaInv'
  <1>0. GoodMessage(m) /\ TrueMessage(outbox, inbox, m) /\ m.kind = "post"
    BY DEF SyncInv, WireOk, AgreeInv, WireTrue, PostArrives
  <1>1. PICK o : o = Peer(m.from) /\ o \in Region /\ m.from = Peer(o) /\ m.from \in Region
    BY <1>0, PeerFacts DEF GoodMessage
  <1>2. m.event \in Event(Peer(o)) /\ Genuine(outbox[Peer(o)], m.event)
    BY <1>0, <1>1 DEF GoodMessage, TrueMessage
  <1>3. Receive(o, m.event) /\ UNCHANGED <<outbox, acked, fenced, backup>>
    BY <1>1 DEF PostArrives
  <1>4. Receives(o, m.event)
    BY <1>1, <1>2, <1>3 DEF Receives
  <1> QED BY <1>1, <1>2, <1>4, ReceiveCharges

LEMMA GrantArrivesCharges ==
  ASSUME SyncInv, SyncInv', AgreeInv, QuotaInv, NEW e \in grants, GrantArrives(e)
  PROVE  QuotaInv'
  <1>1. /\ Cn \in Region /\ Peer(Cn) = Overseas /\ e \in Event(Peer(Cn))
        /\ Genuine(outbox[Peer(Cn)], e)
    BY PeerFacts DEF SyncInv, WireOk, AgreeInv, WireTrue, Peer
  <1>2. Receives(Cn, e)
    BY <1>1 DEF Receives, GrantArrives
  <1> QED BY <1>1, <1>2, ReceiveCharges

LEMMA NextCharges ==
  ASSUME MaxRestores = 0, SyncInv, SyncInv', AgreeInv, QuotaInv, [Next]_vars
  PROVE  QuotaInv'
  <1>1. ASSUME NEW r \in Region, Users(r)
        PROVE  QuotaInv'
    BY <1>1, UsersCharge
  <1>2. ASSUME NEW r \in Region, Tick(r)
        PROVE  QuotaInv'
    <2>1. CASE Take(r)
      BY <2>1, TakeCharges
    <2>2. CASE PullSend(r) \/ Reconcile(r) \/ Hashed(r) \/ ReadStatus(r) \/ Export(r) \/ Acknowledge(r)
      <3>1. UNCHANGED <<outbox, inbox, rows, quota>>
        BY <2>2 DEF PullSend, Reconcile, Hashed, ReadStatus, Export, Acknowledge, storage
      <3> QED BY <3>1, RestCharges
    <2> QED BY <1>2, <2>1, <2>2 DEF Tick
  <1>3. ASSUME NEW r \in Region, GiveUp(r) \/ Restart(r)
        PROVE  QuotaInv'
    <2>1. UNCHANGED <<outbox, inbox, rows, quota>>
      BY <1>3 DEF GiveUp, Restart, storage
    <2> QED BY <2>1, RestCharges
  <1>4. ASSUME NEW r \in Region, Backup(r) \/ Restore(r)
        PROVE  FALSE
    <2>1. era[Cn] \in Nat /\ era[Overseas] \in Nat /\ backup = None
      BY PeerFacts DEF SyncInv, StoreOk, AgreeInv
    <2> QED BY <1>4, <2>1 DEF Backup, Restore
  <1>5. ASSUME NEW p \in Project, Grant(p)
        PROVE  QuotaInv'
    BY <1>5, GrantCharges
  <1>6. ASSUME NEW e \in grants, GrantArrives(e)
        PROVE  QuotaInv'
    BY <1>6, GrantArrivesCharges
  <1>7. ASSUME NEW e \in grants, LoseGrant(e)
        PROVE  QuotaInv'
    <2>1. UNCHANGED <<outbox, inbox, rows, quota>>
      BY <1>7 DEF LoseGrant, storage
    <2> QED BY <2>1, RestCharges
  <1>8. ASSUME NEW m \in net, PostArrives(m)
        PROVE  QuotaInv'
    BY <1>8, PostArrivesCharges
  <1>9. ASSUME NEW m \in net, PullArrives(m)
        PROVE  QuotaInv'
    <2>1. UNCHANGED <<outbox, inbox, rows, quota>>
      BY <1>9 DEF PullArrives
    <2> QED BY <2>1, RestCharges
  <1>10. ASSUME NEW j \in jobs, PullHashed(j)
         PROVE  QuotaInv'
    <2>1. UNCHANGED <<outbox, inbox, rows, quota>>
      BY <1>10 DEF PullHashed
    <2> QED BY <2>1, RestCharges
  <1>11. CASE UNCHANGED vars
    <2>1. UNCHANGED <<outbox, inbox, rows, quota>>
      BY <1>11 DEF vars, storage
    <2> QED BY <2>1, RestCharges
  <1> QED BY <1>1, <1>2, <1>3, <1>4, <1>5, <1>6, <1>7, <1>8, <1>9, <1>10, <1>11 DEF Next, Arrives

LEMMA InitCharges ==
  ASSUME IsFiniteSet(Legacy), Cardinality(Legacy) <= Limit
  PROVE  Init => QuotaInv
  <1> SUFFICES ASSUME Init
               PROVE  QuotaInv
    OBVIOUS
  <1>1. Overseas \in Region /\ Cn \in Region /\ Overseas # Cn /\ Legacy \subseteq Project
    BY PeerFacts, SyncAssumption
  <1>2. /\ rows[Overseas] = Legacy /\ rows[Cn] = {}
        /\ \A p \in Project : quota[Overseas][p] = 0 /\ quota[Cn][p] = 0
        /\ outbox[Overseas] = <<>>
    BY <1>1 DEF Init
  <1>3. Charged(rows, quota) = Legacy
    BY <1>1, <1>2 DEF Charged
  <1>4. Fits(Charged(rows, quota))
    BY <1>1, <1>3 DEF Fits
  <1>5. ~\E p : Mentions(outbox[Overseas], p)
    BY <1>2 DEF Mentions
  <1>6. Promised(outbox, inbox, rows, quota) /\ Vouched(inbox, rows, quota)
    BY <1>2, <1>5 DEF Promised, Vouched
  <1>7. \A k \in 0..Len(outbox[Overseas]) : Budget(outbox[Overseas], inbox[Overseas], k)
    <2>1. \A k \in 0..Len(outbox[Overseas]) : 1..k = {}
      BY <1>2
    <2> QED BY <1>4, <2>1 DEF Budget
  <1> QED BY <1>4, <1>6, <1>7 DEF QuotaInv, Kept

(* The limit holds on the shelf of either region, and on what the          *)
(* authority promised, however creations, grants and deletions of both     *)
(* regions race and whatever is delivered late or twice.                   *)
THEOREM QuotaHoldsHolds ==
  ASSUME MaxRestores = 0, IsFiniteSet(Legacy), Cardinality(Legacy) <= Limit
  PROVE  Spec => []QuotaHolds
  <1>1. Init => QuotaInv
    BY InitCharges
  <1>2. SyncInv /\ AgreeInv /\ (SyncInv /\ AgreeInv)' /\ QuotaInv /\ [Next]_vars => QuotaInv'
    BY NextCharges
  <1>3. SyncInv /\ AgreeInv /\ QuotaInv => QuotaHolds
    <2> SUFFICES ASSUME SyncInv, AgreeInv, QuotaInv
                 PROVE  QuotaHolds
      OBVIOUS
    <2>0. /\ Overseas \in Region /\ Cn \in Region /\ Peer(Overseas) = Cn /\ Peer(Cn) = Overseas
          /\ rows[Cn] \subseteq Project
          /\ inbox[Cn] \in Seq(Change) /\ outbox[Overseas] \in Seq(Change)
      BY PeerFacts DEF SyncInv, StoreOk, Peer
    <2>1. Cardinality(rows[Overseas] \cup Reserved(Overseas)) <= Limit
      BY ChargedHere DEF QuotaInv, Kept, Fits
    <2>2. PICK k : k = Len(inbox[Cn])
      OBVIOUS
    <2>3. Behind(inbox[Cn], outbox[Overseas]) /\ Behind(inbox[Overseas], outbox[Cn])
      BY <2>0 DEF AgreeInv, Agreed
    <2>4. k \in 0..Len(outbox[Overseas]) /\ DOMAIN inbox[Cn] = 1..k
      BY <2>0, <2>2, <2>3 DEF Behind
    <2>5. PICK S : /\ Fits(S)
                   /\ \A i \in 1..k :
                        \/ outbox[Overseas][i].project \in S
                        \/ \E j \in 1..k : /\ outbox[Overseas][j].kind = "delete"
                                           /\ outbox[Overseas][j].project
                                                = outbox[Overseas][i].project
                        \/ Deletes(inbox[Overseas], outbox[Overseas][i].project)
      BY <2>4 DEF QuotaInv, Kept, Budget
    <2>6. \A i \in 1..k : inbox[Cn][i] = outbox[Overseas][i]
      BY <2>3, <2>4 DEF Behind
    <2>7. ASSUME NEW p \in Project, p \in rows[Cn]
          PROVE  p \in S
      <3>1. ~Deleted(Cn, p)
        <4>1. ShelfOf(Cn, p)
          BY <2>0 DEF AgreeInv
        <4> QED BY <2>0, <2>7, <4>1, HeadsAreThere DEF ShelfOf, Shelf
      <3>2. ~Deletes(inbox[Cn], p) /\ ~Deletes(outbox[Cn], p)
        BY <3>1 DEF Deleted, NodesOf, Nodes, Entries, Deletes
      <3>3. ~Deletes(inbox[Overseas], p)
        BY <2>3, <3>2, BehindSpeaks
      <3>4. Mentions(inbox[Cn], p)
        BY <2>7 DEF QuotaInv, Kept, Vouched
      <3>5. PICK i \in 1..k : outbox[Overseas][i].project = p
        BY <2>4, <2>6, <3>4 DEF Mentions
      <3>6. ~\E j \in 1..k : outbox[Overseas][j].kind = "delete" /\ outbox[Overseas][j].project = p
        BY <2>4, <2>6, <3>2 DEF Deletes
      <3> QED BY <2>5, <3>3, <3>5, <3>6
    <2>8. rows[Cn] \subseteq S
      BY <2>0, <2>7
    <2>9. Cardinality(rows[Cn]) <= Limit
      BY <2>5, <2>8, SmallerFits DEF Fits
    <2> QED BY <2>1, <2>9 DEF QuotaHolds
  <1> QED BY <1>1, <1>2, <1>3, AgreeSafe, PTL DEF Spec
-------------------------------------------------------------------------------
IsPrefix(s, t) == Len(s) <= Len(t) /\ s = SubSeq(t, 1, Len(s))

LEMMA BehindIsPrefix ==
  ASSUME NEW s \in Seq(Change), NEW t \in Seq(Change), Behind(s, t)
  PROVE  IsPrefix(s, t)
  BY DEF Behind, IsPrefix

-------------------------------------------------------------------------------
(* Restores, if there are any, wait until nothing is under way.  A region  *)
(* either holds all that its peer has or shows of it (Within), or it is    *)
(* fenced, no verdict under way lifts the fence, and the next receipt that *)
(* it is shown leaves the evidence (Beyond).  What it issued and what its  *)
(* peer holds of it never differ (Consistent).                             *)

(* The receipts of its peer that r is about to compare.                    *)
Shown(r) == {m.status : m \in {n \in net : n.kind = "pull" /\ n.from = Peer(r)}}
              \cup {s \in {pump[r].status} : pump[r].pc \in {"pulled", "status"}}

(* A verdict that will open r is under way.                                *)
Trusted(r) == \/ \E j \in jobs : j.from = Peer(r) /\ j.verdict
              \/ pump[r].pc \in {"take-hash", "export-hash"} /\ pump[r].verdict

(* The events of r that are under way.                                     *)
Carried(r) == {m.event : m \in {n \in net : n.kind = "post" /\ n.from = r}}
                \cup {e \in {pump[Peer(r)].event} :
                        pump[Peer(r)].pc \in {"pulled", "take-hash", "take"}}
                \cup {e \in grants : r = Overseas}

Within(r) ==
  /\ floor[r].received <= Len(outbox[r]) /\ Len(inbox[Peer(r)]) <= Len(outbox[r])
  /\ \A s \in Shown(r) : s.received <= Len(outbox[r])

Beyond(r) ==
  /\ fenced[r] /\ ~Trusted(r)
  /\ \/ floor[r].received > Len(outbox[r])
     \/ /\ Len(inbox[Peer(r)]) > Len(outbox[r])
        /\ \A s \in Shown(r) : s.received > Len(outbox[r])

(* Of the streams s and t one begins with the other.                       *)
Consistent(s, t) == \A i \in DOMAIN s : i \in DOMAIN t => s[i] = t[i]

(* The event e, if it is one, is in the stream s.                          *)
Holding(s, e) == e = NoEvent \/ Genuine(s, e)

FenceOf(r) == /\ Within(r) \/ Beyond(r)
              /\ Consistent(inbox[Peer(r)], outbox[r])
              /\ \A e \in Carried(r) : Holding(outbox[r], e)

FenceInv == \A r \in Region : FenceOf(r)

(* What a step without a restore may do to what r and its peer know of the *)
(* outbox of r.                                                            *)
Judged(r) == \E s \in Shown(r) : floor'[r] = FloorAfter(r, s) /\ Valid(r, s)

Evolves(r) ==
  /\ \/ outbox'[r] = outbox[r] /\ inbox'[Peer(r)] = inbox[Peer(r)]
     \/ /\ ~fenced[r] /\ \E c \in Change : outbox'[r] = Append(outbox[r], c)
        /\ inbox'[Peer(r)] = inbox[Peer(r)] /\ fenced'[r] = fenced[r]
     \/ /\ \E e \in Carried(r) : /\ e # NoEvent /\ e.change \in Change
                                 /\ e.sequence = Len(inbox[Peer(r)]) + 1
                                 /\ inbox'[Peer(r)] = Append(inbox[Peer(r)], e.change)
        /\ outbox'[r] = outbox[r] /\ fenced'[r] = fenced[r]
  /\ \/ floor'[r] = floor[r]
     \/ \E s \in Shown(r) : floor'[r] = FloorAfter(r, s)
  /\ \A s \in Shown(r)' : s \in Shown(r) \/ s.received = Len(inbox[Peer(r)])
  /\ Trusted(r)' => Trusted(r) \/ Judged(r)
  /\ ~fenced'[r] => ~fenced[r] \/ Trusted(r) \/ Judged(r)
  /\ \A e \in Carried(r)' : e \in Carried(r) \/ Holding(outbox'[r], e)

LEMMA ShownFacts ==
  ASSUME WireOk, NEW r \in Region
  PROVE  \A s \in Shown(r) : s \in Receipt /\ s.received \in Nat
  <1>1. \A m \in net : m.status \in Receipt
    BY DEF WireOk, GoodMessage
  <1>2. \A q \in Region : pump[q].status \in Receipt
    BY DEF WireOk, Step
  <1>3. \A s \in Shown(r) : s \in Receipt
    BY <1>1, <1>2 DEF Shown
  <1>4. \A s \in Receipt : s.received \in Nat
    BY DEF Receipt
  <1> QED BY <1>3, <1>4

LEMMA Measured ==
  ASSUME NEW out \in [Region -> Seq(Change)], NEW in \in [Region -> Seq(Change)],
         NEW flr \in [Region -> Receipt], NEW r \in Region
  PROVE  /\ Len(out[r]) \in Nat /\ Len(in[Peer(r)]) \in Nat
         /\ flr[r].received \in Nat
  <1>1. out[r] \in Seq(Change) /\ in[Peer(r)] \in Seq(Change) /\ flr[r] \in Receipt
    BY PeerFacts
  <1>2. flr[r].received \in Nat
    BY <1>1 DEF Receipt
  <1> QED BY <1>1, <1>2

LEMMA EvolvedFence ==
  ASSUME SyncInv, NEW r \in Region, FenceOf(r), SyncInv', Evolves(r)
  PROVE  FenceOf(r)'
  <1>0. /\ Peer(r) \in Region /\ r \in Region
        /\ outbox[r] \in Seq(Change) /\ inbox[Peer(r)] \in Seq(Change)
    BY PeerFacts DEF SyncInv, StoreOk
  <1>1. /\ Len(outbox[r]) \in Nat /\ Len(inbox[Peer(r)]) \in Nat /\ floor[r].received \in Nat
        /\ fenced[r] \in BOOLEAN
    BY Measured DEF SyncInv, StoreOk
  <1>2. /\ Len(outbox'[r]) \in Nat /\ Len(inbox'[Peer(r)]) \in Nat /\ floor'[r].received \in Nat
    BY Measured DEF SyncInv, StoreOk
  <1>3. /\ \A s \in Shown(r) : s.received \in Nat
        /\ \A s \in Shown(r) : FloorAfter(r, s).received
                                 = Greater(s.received, floor[r].received)
    BY <1>1, ShownFacts DEF SyncInv, FloorAfter, Greater
  <1>4. Judged(r) => /\ floor'[r].received <= Len(outbox[r])
                     /\ \E s \in Shown(r) : s.received <= Len(outbox[r])
    <2>1. ASSUME NEW s \in Shown(r), floor'[r] = FloorAfter(r, s), Valid(r, s)
          PROVE  s.received <= Len(outbox[r]) /\ floor'[r].received <= Len(outbox[r])
      BY <1>1, <1>2, <1>3, <2>1 DEF Valid, Holds
    <2> QED BY <2>1 DEF Judged
  <1>5. /\ \/ Len(outbox'[r]) = Len(outbox[r])
           \/ ~fenced[r] /\ Len(outbox'[r]) = Len(outbox[r]) + 1
        /\ \/ Len(inbox'[Peer(r)]) = Len(inbox[Peer(r)])
           \/ /\ Len(inbox'[Peer(r)]) = Len(inbox[Peer(r)]) + 1
              /\ Len(inbox[Peer(r)]) + 1 <= Len(outbox[r])
        /\ Consistent(inbox'[Peer(r)], outbox'[r])
        /\ \A e \in Carried(r) : Holding(outbox'[r], e)
    <2>0. Consistent(inbox[Peer(r)], outbox[r]) /\ \A e \in Carried(r) : Holding(outbox[r], e)
      BY DEF FenceOf
    <2>1. CASE outbox'[r] = outbox[r] /\ inbox'[Peer(r)] = inbox[Peer(r)]
      BY <2>0, <2>1
    <2>2. ASSUME NEW c \in Change, ~fenced[r], outbox'[r] = Append(outbox[r], c),
                 inbox'[Peer(r)] = inbox[Peer(r)]
          PROVE  /\ \/ Len(outbox'[r]) = Len(outbox[r])
                    \/ ~fenced[r] /\ Len(outbox'[r]) = Len(outbox[r]) + 1
                 /\ \/ Len(inbox'[Peer(r)]) = Len(inbox[Peer(r)])
                    \/ /\ Len(inbox'[Peer(r)]) = Len(inbox[Peer(r)]) + 1
                       /\ Len(inbox[Peer(r)]) + 1 <= Len(outbox[r])
                 /\ Consistent(inbox'[Peer(r)], outbox'[r])
                 /\ \A e \in Carried(r) : Holding(outbox'[r], e)
      <3>1. /\ Len(outbox'[r]) = Len(outbox[r]) + 1
            /\ DOMAIN outbox'[r] = DOMAIN outbox[r] \cup {Len(outbox[r]) + 1}
            /\ \A i \in DOMAIN outbox[r] : i \in DOMAIN outbox'[r] /\ outbox'[r][i] = outbox[r][i]
        BY <1>0, <2>2, AppendChange
      <3>2. Len(inbox[Peer(r)]) <= Len(outbox[r])
        BY <2>2 DEF FenceOf, Within, Beyond
      <3>3. \A i \in DOMAIN inbox[Peer(r)] : i \in DOMAIN outbox[r]
        BY <1>0, <3>2
      <3>4. Consistent(inbox'[Peer(r)], outbox'[r])
        BY <2>0, <2>2, <3>1, <3>3 DEF Consistent
      <3>5. \A e \in Carried(r) : Holding(outbox'[r], e)
        BY <2>0, <3>1 DEF Holding, Genuine
      <3> QED BY <2>2, <3>1, <3>4, <3>5
    <2>3. ASSUME NEW e \in Carried(r), e # NoEvent, e.change \in Change,
                 e.sequence = Len(inbox[Peer(r)]) + 1,
                 inbox'[Peer(r)] = Append(inbox[Peer(r)], e.change), outbox'[r] = outbox[r]
          PROVE  /\ \/ Len(outbox'[r]) = Len(outbox[r])
                    \/ ~fenced[r] /\ Len(outbox'[r]) = Len(outbox[r]) + 1
                 /\ \/ Len(inbox'[Peer(r)]) = Len(inbox[Peer(r)])
                    \/ /\ Len(inbox'[Peer(r)]) = Len(inbox[Peer(r)]) + 1
                       /\ Len(inbox[Peer(r)]) + 1 <= Len(outbox[r])
                 /\ Consistent(inbox'[Peer(r)], outbox'[r])
                 /\ \A d \in Carried(r) : Holding(outbox'[r], d)
      <3>1. /\ Len(inbox'[Peer(r)]) = Len(inbox[Peer(r)]) + 1
            /\ DOMAIN inbox'[Peer(r)] = DOMAIN inbox[Peer(r)] \cup {Len(inbox[Peer(r)]) + 1}
            /\ \A i \in DOMAIN inbox[Peer(r)] : inbox'[Peer(r)][i] = inbox[Peer(r)][i]
            /\ inbox'[Peer(r)][Len(inbox[Peer(r)]) + 1] = e.change
        BY <1>0, <2>3, AppendChange
      <3>2. e.sequence \in DOMAIN outbox[r] /\ outbox[r][e.sequence] = e.change
        BY <2>0, <2>3 DEF Holding, Genuine
      <3>3. Len(inbox[Peer(r)]) + 1 <= Len(outbox[r])
        BY <1>0, <2>3, <3>2
      <3>4. \A i \in DOMAIN inbox'[Peer(r)] : i \in DOMAIN inbox[Peer(r)] \/ i = e.sequence
        BY <1>0, <2>3, <3>1
      <3>5. Consistent(inbox'[Peer(r)], outbox'[r])
        BY <2>0, <2>3, <3>1, <3>2, <3>4 DEF Consistent
      <3> QED BY <2>0, <2>3, <3>1, <3>3, <3>5
    <2> QED BY <2>1, <2>2, <2>3 DEF Evolves
  <1>6. Within(r) => Within(r)'
    <2> SUFFICES ASSUME Within(r)
                 PROVE  Within(r)'
      OBVIOUS
    <2>1. Len(outbox[r]) <= Len(outbox'[r])
      BY <1>1, <1>5
    <2>2. Len(inbox'[Peer(r)]) <= Len(outbox[r])
      BY <1>1, <1>2, <1>5 DEF Within
    <2>3. floor'[r].received <= Len(outbox[r])
      BY <1>1, <1>2, <1>3 DEF Evolves, Within, Greater
    <2>4. \A s \in Shown(r)' : s.received <= Len(outbox[r])
      BY <1>1, <1>3 DEF Evolves, Within
    <2>5. \A s \in Shown(r)' : s.received <= Len(outbox'[r])
      <3>1. \A s \in Shown(r)' : s.received \in Nat
        BY <1>1, <1>3 DEF Evolves
      <3> QED BY <1>1, <1>2, <2>1, <2>4, <3>1
    <2> QED BY <1>1, <1>2, <2>1, <2>2, <2>3, <2>5 DEF Within
  <1>7. ~Within(r) /\ Beyond(r) => Beyond(r)'
    <2> SUFFICES ASSUME Beyond(r)
                 PROVE  Beyond(r)'
      OBVIOUS
    <2>1. fenced[r] /\ ~Trusted(r)
      BY DEF Beyond
    <2>2. Len(outbox'[r]) = Len(outbox[r])
      BY <1>5, <2>1
    <2>3. Len(inbox'[Peer(r)]) >= Len(inbox[Peer(r)])
      BY <1>1, <1>2, <1>5
    <2>4. CASE floor[r].received > Len(outbox[r])
      <3>1. floor'[r].received > Len(outbox[r])
        BY <1>1, <1>2, <1>3, <2>4 DEF Evolves, Greater
      <3>2. ~Judged(r)
        BY <1>1, <1>2, <1>4, <3>1
      <3>3. fenced'[r] /\ ~Trusted(r)'
        BY <2>1, <3>2 DEF Evolves
      <3> QED BY <2>2, <3>1, <3>3 DEF Beyond
    <2>5. CASE /\ Len(inbox[Peer(r)]) > Len(outbox[r])
               /\ \A s \in Shown(r) : s.received > Len(outbox[r])
      <3>1. ~Judged(r)
        BY <1>1, <1>3, <1>4, <2>5
      <3>2. fenced'[r] /\ ~Trusted(r)'
        BY <2>1, <3>1 DEF Evolves
      <3>3. \A s \in Shown(r)' : s.received > Len(outbox[r])
        BY <2>5 DEF Evolves
      <3>4. Len(inbox'[Peer(r)]) > Len(outbox[r])
        BY <1>1, <1>2, <2>3, <2>5
      <3> QED BY <2>2, <3>2, <3>3, <3>4 DEF Beyond
    <2> QED BY <2>4, <2>5 DEF Beyond
  <1>8. \A e \in Carried(r)' : Holding(outbox'[r], e)
    BY <1>5 DEF Evolves
  <1> QED BY <1>5, <1>6, <1>7, <1>8 DEF FenceOf

(* What a step puts under way: a receipt that is true now, an event that   *)
(* is there.                                                               *)
NetTells ==
  \A m \in net' :
    \/ \E n \in net : n.kind = m.kind /\ n.from = m.from
                      /\ n.status = m.status /\ n.event = m.event
    \/ m.kind = "pull" /\ m.status.received = Len(inbox[m.from])
    \/ m.kind = "post" /\ Holding(outbox'[m.from], m.event)

Tells(q, step) ==
  \/ step.pc \in {"idle", "retry", "pull", "deliver", "export-hash", "export",
                  "post", "posted"}
  \/ /\ step.pc \in {"take-hash", "take"} /\ pump[q].pc \in {"pulled", "take-hash"}
     /\ step.event = pump[q].event
  \/ step.pc = "status" /\ step.status.received = Len(inbox[Peer(q)])
  \/ /\ step.pc = "pulled" /\ step.status.received = Len(inbox[Peer(q)])
     /\ Holding(outbox'[Peer(q)], step.event)

PumpTells == \A q \in Region : pump'[q] = pump[q] \/ Tells(q, pump'[q])

LEMMA WireTells ==
  ASSUME NetTells, PumpTells, NEW r \in Region,
         \A e \in grants' : e \in grants \/ Holding(outbox'[Overseas], e)
  PROVE  /\ \A s \in Shown(r)' : s \in Shown(r) \/ s.received = Len(inbox[Peer(r)])
         /\ \A e \in Carried(r)' : e \in Carried(r) \/ Holding(outbox'[r], e)
  <1>0. Peer(r) \in Region /\ Peer(Peer(r)) = r
    BY PeerFacts
  <1>1. ASSUME NEW s \in Shown(r)'
        PROVE  s \in Shown(r) \/ s.received = Len(inbox[Peer(r)])
    <2>1. CASE pump'[r].pc \in {"pulled", "status"} /\ pump'[r].status = s
      <3>1. \/ pump'[r] = pump[r]
            \/ pump'[r].status.received = Len(inbox[Peer(r)])
        BY <2>1 DEF PumpTells, Tells
      <3> QED BY <2>1, <3>1 DEF Shown
    <2>2. CASE \E m \in net' : m.kind = "pull" /\ m.from = Peer(r) /\ m.status = s
      BY <2>2 DEF NetTells, Shown
    <2> QED BY <2>1, <2>2 DEF Shown
  <1>2. ASSUME NEW e \in Carried(r)'
        PROVE  e \in Carried(r) \/ Holding(outbox'[r], e)
    <2>1. CASE pump'[Peer(r)].pc \in {"pulled", "take-hash", "take"} /\ pump'[Peer(r)].event = e
      <3>1. \/ pump'[Peer(r)] = pump[Peer(r)]
            \/ /\ pump[Peer(r)].pc \in {"pulled", "take-hash"}
               /\ pump'[Peer(r)].event = pump[Peer(r)].event
            \/ Holding(outbox'[Peer(Peer(r))], pump'[Peer(r)].event)
        BY <1>0, <2>1 DEF PumpTells, Tells
      <3> QED BY <1>0, <2>1, <3>1 DEF Carried
    <2>2. CASE \E m \in net' : m.kind = "post" /\ m.from = r /\ m.event = e
      BY <2>2 DEF NetTells, Carried
    <2>3. CASE r = Overseas /\ e \in grants'
      BY <2>3 DEF Carried
    <2> QED BY <2>1, <2>2, <2>3 DEF Carried
  <1> QED BY <1>1, <1>2

LEMMA NoNewTrust ==
  ASSUME NEW r \in Region, pump'[r] = pump[r] \/ pump'[r].pc \notin {"take-hash", "export-hash"},
         \A j \in jobs' : \E k \in jobs : k.from = j.from /\ k.verdict = j.verdict
  PROVE  Trusted(r)' => Trusted(r)
  BY DEF Trusted

(* The steps that neither compare nor answer.                              *)
LEMMA StoreEvolves ==
  ASSUME SyncInv, NEW r \in Region,
         \/ outbox' = outbox /\ inbox' = inbox
         \/ /\ \E q \in Region : ~fenced[q] /\ \E c \in Change :
                 outbox' = [outbox EXCEPT ![q] = Append(@, c)]
            /\ inbox' = inbox /\ fenced' = fenced
         \/ /\ \E q \in Region : \E e \in Carried(Peer(q)) :
                 e \in Event(Peer(q)) /\ Receive(q, e)
            /\ outbox' = outbox /\ fenced' = fenced,
         floor' = floor, \A q \in Region : fenced'[q] \in {fenced[q], TRUE},
         NetTells, PumpTells,
         \A q \in Region : pump'[q] = pump[q] \/ pump'[q].pc \notin {"take-hash", "export-hash"},
         \A j \in jobs' : \E k \in jobs : k.from = j.from /\ k.verdict = j.verdict,
         \A e \in grants' : e \in grants \/ Holding(outbox'[Overseas], e)
  PROVE  Evolves(r)
  <1>0. /\ outbox \in [Region -> Seq(Change)] /\ inbox \in [Region -> Seq(Change)]
        /\ Peer(r) \in Region /\ Peer(Peer(r)) = r
    BY PeerFacts DEF SyncInv, StoreOk
  <1>1. /\ \A s \in Shown(r)' : s \in Shown(r) \/ s.received = Len(inbox[Peer(r)])
        /\ \A e \in Carried(r)' : e \in Carried(r) \/ Holding(outbox'[r], e)
    BY WireTells
  <1>2. \/ outbox'[r] = outbox[r] /\ inbox'[Peer(r)] = inbox[Peer(r)]
        \/ /\ ~fenced[r] /\ \E c \in Change : outbox'[r] = Append(outbox[r], c)
           /\ inbox'[Peer(r)] = inbox[Peer(r)] /\ fenced'[r] = fenced[r]
        \/ /\ \E e \in Carried(r) : /\ e # NoEvent /\ e.change \in Change
                                    /\ e.sequence = Len(inbox[Peer(r)]) + 1
                                    /\ inbox'[Peer(r)] = Append(inbox[Peer(r)], e.change)
           /\ outbox'[r] = outbox[r] /\ fenced'[r] = fenced[r]
    <2>1. ASSUME NEW q \in Region, ~fenced[q], NEW c \in Change,
                 outbox' = [outbox EXCEPT ![q] = Append(@, c)], inbox' = inbox, fenced' = fenced
          PROVE  \/ outbox'[r] = outbox[r] /\ inbox'[Peer(r)] = inbox[Peer(r)]
                 \/ /\ ~fenced[r] /\ \E d \in Change : outbox'[r] = Append(outbox[r], d)
                    /\ inbox'[Peer(r)] = inbox[Peer(r)] /\ fenced'[r] = fenced[r]
      <3>1. CASE q = r
        <4>1. outbox'[r] = Append(outbox[r], c)
          BY <1>0, <2>1, <3>1
        <4> QED BY <2>1, <3>1, <4>1
      <3>2. CASE q # r
        BY <1>0, <2>1, <3>2
      <3> QED BY <3>1, <3>2
    <2>2. ASSUME NEW q \in Region, NEW e \in Carried(Peer(q)), e \in Event(Peer(q)), Receive(q, e),
                 outbox' = outbox, fenced' = fenced
          PROVE  \/ outbox'[r] = outbox[r] /\ inbox'[Peer(r)] = inbox[Peer(r)]
                 \/ /\ \E d \in Carried(r) : /\ d # NoEvent /\ d.change \in Change
                                             /\ d.sequence = Len(inbox[Peer(r)]) + 1
                                             /\ inbox'[Peer(r)] = Append(inbox[Peer(r)], d.change)
                    /\ outbox'[r] = outbox[r] /\ fenced'[r] = fenced[r]
      <3>1. e.change \in Change /\ e.sequence # 0 /\ NoEvent.sequence = 0
        BY <2>2 DEF Event, NoEvent
      <3>2. CASE q = Peer(r) /\ Acceptable(q, e)
        <4>1. inbox'[q] = Append(inbox[q], e.change)
          BY <1>0, <2>2, <3>2 DEF Receive
        <4>2. e.sequence = Len(inbox[q]) + 1 /\ e \in Carried(r)
          BY <1>0, <2>2, <3>2 DEF Acceptable
        <4> QED BY <2>2, <3>1, <3>2, <4>1, <4>2
      <3>3. CASE ~(q = Peer(r) /\ Acceptable(q, e))
        <4>1. inbox'[Peer(r)] = inbox[Peer(r)]
          BY <1>0, <2>2, <3>3 DEF Receive
        <4> QED BY <2>2, <4>1
      <3> QED BY <3>2, <3>3
    <2> QED BY <2>1, <2>2
  <1>3. Trusted(r)' => Trusted(r)
    BY NoNewTrust
  <1> QED BY <1>1, <1>2, <1>3 DEF Evolves

LEMMA NextEventHolds ==
  ASSUME NEW q \in Region, outbox[q] \in Seq(Change), NEW n \in Nat
  PROVE  Holding(outbox[q], EventAfter(q, n))
  BY DEF Holding, Genuine, EventAfter

LEMMA OnePumpTells ==
  ASSUME WireOk, NEW r \in Region, NEW t, Becomes(r, t), Tells(r, t)
  PROVE  /\ PumpTells
         /\ \A q \in Region : q # r => pump'[q] = pump[q]
         /\ pump'[r] = t
  BY DEF Becomes, PumpTells, WireOk

NoVerdicts ==
  /\ \A q \in Region : pump'[q] = pump[q] \/ pump'[q].pc \notin {"take-hash", "export-hash"}
  /\ \A j \in jobs' : \E k \in jobs : k.from = j.from /\ k.verdict = j.verdict

LEMMA NetSame == net' \subseteq net => NetTells
  BY DEF NetTells

LEMMA PumpSame == pump' = pump /\ jobs' \subseteq jobs => PumpTells /\ NoVerdicts
  BY DEF PumpTells, NoVerdicts

LEMMA PumpCalm ==
  ASSUME WireOk, NEW r \in Region, NEW t, Becomes(r, t), Tells(r, t),
         t.pc \notin {"take-hash", "export-hash"}, jobs' = jobs
  PROVE  PumpTells /\ NoVerdicts
  <1>1. PumpTells /\ (\A q \in Region : q # r => pump'[q] = pump[q]) /\ pump'[r] = t
    BY OnePumpTells
  <1>2. \A q \in Region : pump'[q] = pump[q] \/ pump'[q].pc \notin {"take-hash", "export-hash"}
    BY <1>1
  <1>3. \A j \in jobs' : \E k \in jobs : k.from = j.from /\ k.verdict = j.verdict
    OBVIOUS
  <1> QED BY <1>1, <1>2, <1>3 DEF NoVerdicts

LEMMA UsersEvolve ==
  ASSUME SyncInv, NEW q \in Region, Users(q), NEW r \in Region
  PROVE  Evolves(r)
  <1>1. PICK p \in Project, kind \in {"save", "delete"} : Record(q, p, kind) /\ UsersUnchanged
    BY DEF Users, Create, Capture, Save, Resolve, Delete
  <1>2. PICK c \in Change : ~fenced[q] /\ outbox' = [outbox EXCEPT ![q] = Append(@, c)]
    <2>1. PICK c : c = Issued(q, p, kind, 0)
      OBVIOUS
    <2>0. StoreOk
      BY DEF SyncInv
    <2>2. c \in Change
      BY <2>0, <2>1, IssuedFacts
    <2> QED BY <1>1, <2>1, <2>2 DEF Record, CanIssue
  <1>3. UNCHANGED <<inbox, acked, floor, fenced, era, pump, net, jobs, grants, backup>>
    BY <1>1 DEF UsersUnchanged
  <1>4. NetTells /\ PumpTells /\ NoVerdicts
    BY <1>3, NetSame, PumpSame
  <1> QED BY <1>2, <1>3, <1>4, StoreEvolves DEF NoVerdicts

LEMMA GrantEvolves ==
  ASSUME SyncInv, NEW p \in Project, Grant(p), NEW r \in Region
  PROVE  Evolves(r)
  <1>0. outbox \in [Region -> Seq(Change)] /\ Overseas \in Region
    BY PeerFacts DEF SyncInv, StoreOk
  <1>1. UNCHANGED <<inbox, acked, floor, fenced, pump, net, jobs, backup>>
    BY DEF Grant
  <1>2. NetTells /\ PumpTells /\ NoVerdicts
    BY <1>1, NetSame, PumpSame
  <1>3. CASE Granted(p) # {}
    <2>1. outbox' = outbox
          /\ grants' = grants \cup {[sequence |-> i, change |-> outbox[Overseas][i]]
                                      : i \in Granted(p)}
      BY <1>3 DEF Grant
    <2>2. \A e \in grants' : e \in grants \/ Holding(outbox'[Overseas], e)
      BY <1>0, <2>1 DEF Granted, Holding, Genuine
    <2> QED BY <1>1, <1>2, <2>1, <2>2, StoreEvolves DEF NoVerdicts
  <1>4. CASE Granted(p) = {}
    <2>1. PICK c \in Change :
            /\ ~fenced[Overseas] /\ outbox' = [outbox EXCEPT ![Overseas] = Append(@, c)]
            /\ grants' = grants \cup {[sequence |-> Len(outbox[Overseas]) + 1, change |-> c]}
      <3>1. PICK token : token = IF quota[Overseas][p] # 0 THEN quota[Overseas][p]
                                 ELSE 1 + era[Overseas]
        OBVIOUS
      <3>2. token \in Nat /\ StoreOk
        <4>1. quota \in [Region -> [Project -> Nat]] /\ era \in [Region -> Nat] /\ StoreOk
          BY DEF SyncInv, StoreOk
        <4>2. quota[Overseas][p] \in Nat /\ era[Overseas] \in Nat
          BY <1>0, <4>1
        <4> QED BY <3>1, <4>1, <4>2
      <3>3. PICK c : c = Issued(Overseas, p, "quota", token)
        OBVIOUS
      <3>4. c \in Change
        BY <3>2, <3>3, ReservedFacts
      <3> QED BY <1>4, <3>1, <3>3, <3>4 DEF Grant, CanIssue
    <2>2. /\ Len(outbox[Overseas]) + 1 \in DOMAIN outbox'[Overseas]
          /\ outbox'[Overseas][Len(outbox[Overseas]) + 1] = c
      <3>1. outbox'[Overseas] = Append(outbox[Overseas], c) /\ outbox[Overseas] \in Seq(Change)
        BY <1>0, <2>1
      <3> QED BY <3>1, AppendChange
    <2>3. \A e \in grants' : e \in grants \/ Holding(outbox'[Overseas], e)
      BY <2>1, <2>2 DEF Holding, Genuine
    <2> QED BY <1>0, <1>1, <1>2, <2>1, <2>3, StoreEvolves DEF NoVerdicts
  <1> QED BY <1>3, <1>4

LEMMA GrantArrivesEvolves ==
  ASSUME SyncInv, NEW e \in grants, GrantArrives(e), NEW r \in Region
  PROVE  Evolves(r)
  <1>1. e \in Event(Peer(Cn)) /\ e \in Carried(Peer(Cn)) /\ Cn \in Region
    BY PeerFacts DEF SyncInv, WireOk, Peer, Carried
  <1>2. /\ Receive(Cn, e) /\ grants' \subseteq grants
        /\ UNCHANGED <<outbox, acked, floor, fenced, era, pump, net, jobs, backup>>
    BY DEF GrantArrives
  <1>3. NetTells /\ PumpTells /\ NoVerdicts
    BY <1>2, NetSame, PumpSame
  <1> QED BY <1>1, <1>2, <1>3, StoreEvolves DEF NoVerdicts

LEMMA LoseGrantEvolves ==
  ASSUME SyncInv, NEW e \in grants, LoseGrant(e), NEW r \in Region
  PROVE  Evolves(r)
  <1>1. grants' \subseteq grants /\ UNCHANGED <<storage, fenced, pump, net, jobs>>
    BY DEF LoseGrant
  <1>2. NetTells /\ PumpTells /\ NoVerdicts
    BY <1>1, NetSame, PumpSame
  <1> QED BY <1>1, <1>2, StoreEvolves DEF NoVerdicts, storage

LEMMA PullSendEvolves ==
  ASSUME SyncInv, NEW q \in Region, PullSend(q), NEW r \in Region
  PROVE  Evolves(r)
  <1>0. WireOk /\ Status(q).received = Len(inbox[q])
    BY DEF SyncInv, Status
  <1>1. /\ net' = net \cup {[kind |-> "pull", from |-> q, status |-> Status(q),
                             event |-> NoEvent, live |-> TRUE]}
        /\ Becomes(q, [Idle EXCEPT !.pc = "pull"])
        /\ UNCHANGED <<storage, fenced, era, jobs, grants, backup>>
    BY DEF PullSend
  <1>2. NetTells
    BY <1>0, <1>1 DEF NetTells
  <1>3. Tells(q, [Idle EXCEPT !.pc = "pull"]) /\ [Idle EXCEPT !.pc = "pull"].pc = "pull"
    BY DEF Tells, Idle
  <1>4. PumpTells /\ NoVerdicts
    BY <1>0, <1>1, <1>3, PumpCalm
  <1> QED BY <1>1, <1>2, <1>4, StoreEvolves DEF NoVerdicts, storage

LEMMA TakeEvolves ==
  ASSUME SyncInv, NEW q \in Region, Take(q), NEW r \in Region
  PROVE  Evolves(r)
  <1>0. WireOk /\ GoodStep(q, pump[q]) /\ pump[q].pc = "take"
        /\ Peer(q) \in Region /\ Peer(Peer(q)) = q
    BY PeerFacts DEF SyncInv, WireOk, Take
  <1>1. UNCHANGED <<outbox, acked, floor, fenced, era, net, jobs, grants, backup>>
    BY DEF Take
  <1>2. NetTells
    BY <1>1, NetSame
  <1>3. PICK t : Becomes(q, t) /\ t \in {Idle, [Idle EXCEPT !.pc = "deliver"]}
    BY DEF Take
  <1>4. Tells(q, t) /\ t.pc \notin {"take-hash", "export-hash"}
    BY <1>3 DEF Tells, Idle
  <1>5. PumpTells /\ NoVerdicts
    BY <1>0, <1>1, <1>3, <1>4, PumpCalm
  <1>6. \/ inbox' = inbox
        \/ \E e \in Carried(Peer(q)) : e \in Event(Peer(q)) /\ Receive(q, e)
    BY <1>0 DEF Take, GoodStep, Carried
  <1> QED BY <1>1, <1>2, <1>5, <1>6, StoreEvolves DEF NoVerdicts

LEMMA ReadStatusEvolves ==
  ASSUME SyncInv, NEW q \in Region, ReadStatus(q), NEW r \in Region
  PROVE  Evolves(r)
  <1>0. WireOk /\ Status(Peer(q)).received = Len(inbox[Peer(q)])
    BY DEF SyncInv, Status
  <1>1. UNCHANGED <<storage, fenced, era, net, jobs, grants, backup>>
    BY DEF ReadStatus
  <1>2. NetTells
    BY <1>1, NetSame
  <1>3. PICK t : Becomes(q, t) /\ t = [Idle EXCEPT !.pc = "status", !.status = Status(Peer(q))]
    BY DEF ReadStatus
  <1>4. Tells(q, t) /\ t.pc \notin {"take-hash", "export-hash"}
    BY <1>0, <1>3 DEF Tells, Idle
  <1>5. PumpTells /\ NoVerdicts
    BY <1>0, <1>1, <1>3, <1>4, PumpCalm
  <1> QED BY <1>1, <1>2, <1>5, StoreEvolves DEF NoVerdicts, storage

LEMMA ExportEvolves ==
  ASSUME SyncInv, NEW q \in Region, Export(q), NEW r \in Region
  PROVE  Evolves(r)
  <1>0. WireOk /\ pump[q] \in Step /\ outbox[q] \in Seq(Change)
    BY DEF SyncInv, WireOk, StoreOk
  <1>1. PICK n, e : n = pump[q].status.received /\ e = EventAfter(q, n) /\ n \in Nat
    BY <1>0 DEF Step, Receipt
  <1>2. UNCHANGED <<outbox, inbox, floor, active, current, rows, quota, fenced, era,
                    jobs, grants, backup>>
    BY DEF Export
  <1>3. PICK t : Becomes(q, t) /\ t \in {Idle, [Idle EXCEPT !.pc = "post", !.event = e]}
    BY <1>1 DEF Export
  <1>4. Tells(q, t) /\ t.pc \notin {"take-hash", "export-hash"}
    <2>1. [Idle EXCEPT !.pc = "post", !.event = e].pc = "post" /\ Idle.pc = "idle"
      BY DEF Idle
    <2> QED BY <1>3, <2>1 DEF Tells
  <1>5. PumpTells /\ NoVerdicts
    BY <1>0, <1>2, <1>3, <1>4, PumpCalm
  <1>6. Holding(outbox[q], e)
    BY <1>0, <1>1, NextEventHolds
  <1>7. \/ net' = net
        \/ net' = net \cup {[kind |-> "post", from |-> q, status |-> NoStatus,
                             event |-> e, live |-> TRUE]}
    BY <1>1 DEF Export
  <1>8. NetTells
    BY <1>2, <1>6, <1>7 DEF NetTells
  <1> QED BY <1>2, <1>5, <1>8, StoreEvolves DEF NoVerdicts

LEMMA PostArrivesEvolves ==
  ASSUME SyncInv, NEW m \in net, PostArrives(m), NEW r \in Region
  PROVE  Evolves(r)
  <1>0. WireOk /\ GoodMessage(m) /\ m.kind = "post"
    BY DEF SyncInv, WireOk, PostArrives
  <1>1. PICK o : o = Peer(m.from) /\ o \in Region /\ m.from = Peer(o) /\ m.from \in Region
    BY <1>0, PeerFacts DEF GoodMessage
  <1>2. m.event \in Event(Peer(o)) /\ m.event \in Carried(Peer(o))
    BY <1>0, <1>1 DEF GoodMessage, Carried
  <1>3. Receive(o, m.event) /\ net' \subseteq net
        /\ UNCHANGED <<outbox, acked, floor, fenced, era, jobs, grants, backup>>
    BY <1>1 DEF PostArrives
  <1>4. NetTells
    BY <1>3, NetSame
  <1>5. PumpTells /\ NoVerdicts
    <2>1. PICK s : s = [pump[m.from] EXCEPT !.pc = "posted",
                           !.held = Greater(Len(inbox[o]), m.event.sequence)]
      OBVIOUS
    <2>2. s.pc = "posted" /\ Idle.pc = "idle"
      BY <1>0, <1>1, <2>1 DEF WireOk, Step, Idle
    <2>3. pump' = pump \/ Becomes(m.from, s) \/ Becomes(m.from, Idle)
      BY <1>1, <2>1 DEF PostArrives
    <2>4. Tells(m.from, s) /\ Tells(m.from, Idle)
      BY <2>2 DEF Tells
    <2> QED BY <1>0, <1>1, <1>3, <2>2, <2>3, <2>4, PumpSame, PumpCalm
  <1> QED BY <1>1, <1>2, <1>3, <1>4, <1>5, StoreEvolves DEF NoVerdicts

LEMMA AcknowledgeEvolves ==
  ASSUME SyncInv, NEW q \in Region, Acknowledge(q), NEW r \in Region
  PROVE  Evolves(r)
  <1>0. WireOk
    BY DEF SyncInv
  <1>1. /\ Becomes(q, Idle)
        /\ UNCHANGED <<outbox, inbox, floor, active, current, rows, quota, fenced, era,
                       net, jobs, grants, backup>>
    BY DEF Acknowledge
  <1>2. Tells(q, Idle) /\ Idle.pc \notin {"take-hash", "export-hash"}
    BY DEF Tells, Idle
  <1>3. NetTells /\ PumpTells /\ NoVerdicts
    BY <1>0, <1>1, <1>2, NetSame, PumpCalm
  <1> QED BY <1>1, <1>3, StoreEvolves DEF NoVerdicts

LEMMA GiveUpEvolves ==
  ASSUME SyncInv, NEW q \in Region, GiveUp(q), NEW r \in Region
  PROVE  Evolves(r)
  <1>0. WireOk
    BY DEF SyncInv
  <1>1. /\ Becomes(q, Retry) /\ jobs' = Forgotten(q)
        /\ net' \subseteq net \/ net' = Abandoned(q)
        /\ UNCHANGED <<storage, fenced, era, grants, backup>>
    BY DEF GiveUp
  <1>2. Tells(q, Retry) /\ Retry.pc \notin {"take-hash", "export-hash"}
    BY DEF Tells, Idle, Retry
  <1>3. \A j \in jobs' : \E k \in jobs : k.from = j.from /\ k.verdict = j.verdict
    <2>1. \A j \in jobs : j \in Job
      BY <1>0 DEF WireOk
    <2> QED BY <1>1, <2>1 DEF Forgotten, Job
  <1>4. NetTells
    <2>1. ASSUME NEW m \in net, NEW n, n = [m EXCEPT !.live = FALSE]
          PROVE  n.kind = m.kind /\ n.from = m.from /\ n.status = m.status /\ n.event = m.event
      <3>1. GoodMessage(m)
        BY <1>0 DEF WireOk
      <3> QED BY <2>1, <3>1 DEF GoodMessage
    <2>2. ASSUME net' = Abandoned(q)
          PROVE  NetTells
      <3>1. \A n \in net' : \E m \in net : n = m \/ n = [m EXCEPT !.live = FALSE]
        BY <2>2 DEF Abandoned
      <3>2. \A n \in net' : \E m \in net : m.kind = n.kind /\ m.from = n.from
                                           /\ m.status = n.status /\ m.event = n.event
        BY <2>1, <3>1
      <3> QED BY <3>2 DEF NetTells
    <2> QED BY <1>1, <2>2, NetSame
  <1>5. PumpTells /\ (\A s \in Region : pump'[s] = pump[s] \/ pump'[s] = Retry)
    BY <1>0, <1>1, <1>2, OnePumpTells
  <1> QED BY <1>1, <1>2, <1>3, <1>4, <1>5, StoreEvolves DEF storage

LEMMA CutOffTells ==
  ASSUME NEW q \in Region, pump' = CutOff(q), jobs' \subseteq jobs
  PROVE  PumpTells /\ NoVerdicts
  <1>1. \A s \in Region : pump'[s] = pump[s] \/ pump'[s] = Retry
    BY DEF CutOff
  <1>2. Retry.pc = "retry"
    BY DEF Retry, Idle
  <1> QED BY <1>1, <1>2 DEF PumpTells, Tells, NoVerdicts

LEMMA RestartEvolves ==
  ASSUME SyncInv, NEW q \in Region, Restart(q), NEW r \in Region
  PROVE  Evolves(r)
  <1>1. /\ \A s \in Region : fenced'[s] \in {fenced[s], TRUE}
        /\ pump' = CutOff(q) /\ jobs' \subseteq jobs
        /\ UNCHANGED <<storage, era, net, grants, backup>>
    BY DEF Restart, Reopened, SyncInv, StoreOk
  <1>2. NetTells /\ PumpTells /\ NoVerdicts
    BY <1>1, NetSame, CutOffTells
  <1> QED BY <1>1, <1>2, StoreEvolves DEF NoVerdicts, storage

LEMMA RestEvolves ==
  ASSUME SyncInv, UNCHANGED <<storage, fenced, pump, net, jobs, grants>>, NEW r \in Region
  PROVE  Evolves(r)
  <1>1. NetTells /\ PumpTells /\ NoVerdicts
    BY NetSame, PumpSame
  <1> QED BY <1>1, StoreEvolves DEF NoVerdicts, storage

(* The steps that compare a receipt or that act on a comparison.           *)
LEMMA JudgeEvolves ==
  ASSUME NEW r \in Region, UNCHANGED <<outbox, inbox, grants>>, NetTells, PumpTells,
         \/ floor'[r] = floor[r]
         \/ \E s \in Shown(r) : floor'[r] = FloorAfter(r, s),
         Trusted(r)' => Trusted(r) \/ Judged(r),
         ~fenced'[r] => ~fenced[r] \/ Trusted(r) \/ Judged(r)
  PROVE  Evolves(r)
  <1>1. /\ \A s \in Shown(r)' : s \in Shown(r) \/ s.received = Len(inbox[Peer(r)])
        /\ \A e \in Carried(r)' : e \in Carried(r) \/ Holding(outbox'[r], e)
    BY WireTells
  <1> QED BY <1>1 DEF Evolves

LEMMA HashedEvolves ==
  ASSUME SyncInv, NEW q \in Region, Hashed(q), NEW r \in Region
  PROVE  Evolves(r)
  <1>0. WireOk /\ pump[q] \in Step /\ fenced \in [Region -> BOOLEAN]
        /\ pump[q].pc \in {"take-hash", "export-hash"}
    BY DEF SyncInv, WireOk, StoreOk, Hashed
  <1>1. /\ fenced' = [fenced EXCEPT ![q] = ~pump[q].verdict]
        /\ UNCHANGED <<storage, era, net, jobs, grants, backup>>
    BY DEF Hashed
  <1>2. PICK t : /\ Becomes(q, t)
                 /\ \/ t = Idle
                    \/ t = [pump[q] EXCEPT !.pc = IF @ = "take-hash" THEN "take" ELSE "export",
                                           !.verdict = FALSE]
    BY DEF Hashed
  <1>3. \/ t.pc = "idle"
        \/ /\ t.pc = IF pump[q].pc = "take-hash" THEN "take" ELSE "export"
           /\ t.event = pump[q].event
    <2>1. CASE t = Idle
      BY <2>1 DEF Idle
    <2>2. CASE t = [pump[q] EXCEPT !.pc = IF @ = "take-hash" THEN "take" ELSE "export",
                                   !.verdict = FALSE]
      BY <1>0, <2>2 DEF Step
    <2> QED BY <1>2, <2>1, <2>2
  <1>4. Tells(q, t) /\ t.pc \notin {"take-hash", "export-hash"}
    BY <1>0, <1>3 DEF Tells
  <1>5. NetTells /\ PumpTells /\ NoVerdicts
    BY <1>0, <1>1, <1>2, <1>4, NetSame, PumpCalm
  <1>6. Trusted(r)' => Trusted(r)
    BY <1>5, NoNewTrust DEF NoVerdicts
  <1>7. ~fenced'[r] => ~fenced[r] \/ Trusted(r)
    <2>1. CASE r = q
      BY <1>0, <1>1, <2>1 DEF Trusted
    <2>2. CASE r # q
      BY <1>0, <1>1, <2>2
    <2> QED BY <2>1, <2>2
  <1> QED BY <1>1, <1>5, <1>6, <1>7, JudgeEvolves DEF storage

LEMMA ReconcileEvolves ==
  ASSUME SyncInv, NEW q \in Region, Reconcile(q), NEW r \in Region
  PROVE  Evolves(r)
  <1>0. /\ WireOk /\ pump[q] \in Step /\ fenced \in [Region -> BOOLEAN]
        /\ floor \in [Region -> Receipt]
        /\ pump[q].pc \in {"pulled", "status"}
    BY DEF SyncInv, WireOk, StoreOk, Reconcile
  <1>1. PICK s : s = pump[q].status /\ s \in Shown(q)
    BY <1>0 DEF Shown
  <1>2. /\ floor' = [floor EXCEPT ![q] = FloorAfter(q, s)]
        /\ UNCHANGED <<outbox, inbox, acked, active, current, rows, quota, era, net,
                       jobs, grants, backup>>
    BY <1>1 DEF Reconcile
  <1>3. Valid(q, s) \in BOOLEAN
    BY DEF Valid, Holds
  <1>4. PICK t : /\ Becomes(q, t)
                 /\ \/ t.pc = "idle"
                    \/ /\ t.event = pump[q].event
                       /\ t.pc \in IF pump[q].pc = "pulled" THEN {"take", "take-hash"}
                                   ELSE {"export", "export-hash"}
                 /\ t.pc \in {"take-hash", "export-hash"} => t.verdict = Valid(q, s)
    <2>1. PICK go : go = [pump[q] EXCEPT !.pc = AfterVerdict(@)]
      OBVIOUS
    <2>2. PICK wait : wait = [go EXCEPT !.pc = IF @ = "take" THEN "take-hash" ELSE "export-hash",
                                        !.verdict = Valid(q, s)]
      OBVIOUS
    <2>3. /\ go \in Step /\ go.event = pump[q].event
          /\ go.pc = IF pump[q].pc = "pulled" THEN "take" ELSE "export"
      BY <1>0, <2>1 DEF Step, Pc, AfterVerdict
    <2>4. /\ wait.event = pump[q].event /\ wait.verdict = Valid(q, s)
          /\ wait.pc = IF pump[q].pc = "pulled" THEN "take-hash" ELSE "export-hash"
      BY <2>2, <2>3 DEF Step
    <2>5. Idle.pc = "idle"
      BY DEF Idle
    <2>6. Becomes(q, wait) \/ Becomes(q, go) \/ Becomes(q, Idle)
      BY <1>1, <2>1, <2>2 DEF Reconcile
    <2> QED BY <1>0, <2>3, <2>4, <2>5, <2>6
  <1>5. Tells(q, t)
    BY <1>0, <1>4 DEF Tells
  <1>6. /\ PumpTells
        /\ \A p \in Region : p # q => pump'[p] = pump[p]
        /\ pump'[q] = t
    BY <1>0, <1>4, <1>5, OnePumpTells
  <1>7. NetTells
    BY <1>2, NetSame
  <1>8. fenced' = fenced \/ fenced' = [fenced EXCEPT ![q] = ~Valid(q, s)]
    BY <1>1 DEF Reconcile
  <1>9. CASE r = q
    <2>1. floor'[r] = FloorAfter(r, s)
      BY <1>0, <1>2, <1>9
    <2>2. Valid(q, s) => Judged(r)
      BY <1>1, <1>9, <2>1 DEF Judged
    <2>3. Trusted(r)' => Trusted(r) \/ Judged(r)
      BY <1>2, <1>4, <1>6, <1>9, <2>2 DEF Trusted
    <2>4. ~fenced'[r] => ~fenced[r] \/ Judged(r)
      BY <1>0, <1>8, <1>9, <2>2
    <2> QED BY <1>1, <1>2, <1>6, <1>7, <1>9, <2>1, <2>3, <2>4, JudgeEvolves
  <1>10. CASE r # q
    <2>1. floor'[r] = floor[r] /\ fenced'[r] = fenced[r] /\ pump'[r] = pump[r]
      BY <1>0, <1>2, <1>6, <1>8, <1>10
    <2>2. Trusted(r)' => Trusted(r)
      BY <1>2, <2>1 DEF Trusted
    <2> QED BY <1>2, <1>6, <1>7, <2>1, <2>2, JudgeEvolves
  <1> QED BY <1>9, <1>10

LEMMA AnswerTells ==
  ASSUME SyncInv, NEW m, m.from \in Region, m.status \in Receipt, NEW verdict \in BOOLEAN,
         outbox' = outbox, PullAnswered(m, verdict)
  PROVE  /\ PumpTells
         /\ \A q \in Region : pump'[q] = pump[q] \/ pump'[q].pc \notin {"take-hash", "export-hash"}
  <1> DEFINE o == Peer(m.from)
             s == [Idle EXCEPT !.pc = "pulled", !.status = Status(o),
                               !.event = EventAfter(o, m.status.received)]
  <1>0. /\ o \in Region /\ WireOk /\ outbox[o] \in Seq(Change)
        /\ m.status.received \in Nat
    BY PeerFacts DEF SyncInv, StoreOk, Receipt
  <1>1. /\ s.pc = "pulled" /\ s.status = Status(o)
        /\ s.event = EventAfter(o, m.status.received)
    BY DEF Idle
  <1>2. Status(o).received = Len(inbox[o])
    BY DEF Status
  <1>3. Holding(outbox[o], EventAfter(o, m.status.received))
    BY <1>0, NextEventHolds
  <1>4. Tells(m.from, s)
    BY <1>1, <1>2, <1>3 DEF Tells
  <1>5. Idle.pc = "idle"
    BY DEF Idle
  <1>6. Tells(m.from, Idle)
    BY <1>5 DEF Tells
  <1>7. pump' = pump \/ Becomes(m.from, s) \/ Becomes(m.from, Idle)
    BY DEF PullAnswered
  <1> HIDE DEF s, o
  <1>8. CASE pump' = pump
    BY <1>8 DEF PumpTells
  <1>9. CASE Becomes(m.from, s)
    <2>1. PumpTells /\ (\A q \in Region : q # m.from => pump'[q] = pump[q]) /\ pump'[m.from] = s
      BY <1>0, <1>4, <1>9, OnePumpTells
    <2> QED BY <1>1, <2>1
  <1>10. CASE Becomes(m.from, Idle)
    <2>1. PumpTells /\ (\A q \in Region : q # m.from => pump'[q] = pump[q])
          /\ pump'[m.from] = Idle
      BY <1>0, <1>6, <1>10, OnePumpTells
    <2> QED BY <1>5, <2>1
  <1> QED BY <1>7, <1>8, <1>9, <1>10

LEMMA PullArrivesEvolves ==
  ASSUME SyncInv, NEW m \in net, PullArrives(m), NEW r \in Region
  PROVE  Evolves(r)
  <1>0. /\ GoodMessage(m) /\ m.kind = "pull" /\ jobs \subseteq Job
        /\ floor \in [Region -> Receipt] /\ fenced \in [Region -> BOOLEAN]
    BY DEF SyncInv, WireOk, StoreOk, PullArrives
  <1>1. PICK o : /\ o = Peer(m.from) /\ o \in Region /\ m.from = Peer(o)
                 /\ m.from \in Region /\ m.status \in Receipt
    BY <1>0, PeerFacts DEF GoodMessage
  <1>2. /\ floor' = [floor EXCEPT ![o] = FloorAfter(o, m.status)] /\ net' \subseteq net
        /\ UNCHANGED <<outbox, inbox, active, current, rows, quota, era, grants, backup>>
    BY <1>1 DEF PullArrives
  <1>3. m.status \in Shown(o) /\ Valid(o, m.status) \in BOOLEAN
    BY <1>0, <1>1 DEF Shown, Valid, Holds
  <1>4. NetTells
    BY <1>2, NetSame
  <1>5. Valid(o, m.status) /\ r = o => Judged(r)
    BY <1>0, <1>2, <1>3 DEF Judged
  <1>6. floor'[r] = floor[r] \/ \E s \in Shown(r) : floor'[r] = FloorAfter(r, s)
    BY <1>0, <1>1, <1>2, <1>3
  <1>7. CASE Awaits(o, m.status)
    <2>1. /\ UNCHANGED <<fenced, pump>>
          /\ jobs' = jobs \cup {[from |-> m.from, status |-> m.status, live |-> m.live,
                                 verdict |-> Valid(o, m.status)]}
      BY <1>1, <1>7 DEF PullArrives
    <2>2. PumpTells
      BY <2>1 DEF PumpTells
    <2>3. Trusted(r)' => Trusted(r) \/ Judged(r)
      <3>0. PICK v, k : /\ v = Valid(o, m.status)
                        /\ k = [from |-> m.from, status |-> m.status, live |-> m.live, verdict |-> v]
        OBVIOUS
      <3>1. \A j \in jobs' : j \in jobs \/ (j.from = Peer(o) /\ j.verdict = Valid(o, m.status))
        <4>1. jobs' = jobs \cup {k} /\ k.from = Peer(o) /\ k.verdict = v
          BY <1>1, <2>1, <3>0
        <4> QED BY <3>0, <4>1
      <3>2. Peer(r) = Peer(o) => r = o
        BY <1>1, PeerFacts
      <3> QED BY <1>5, <2>1, <3>1, <3>2 DEF Trusted
    <2> QED BY <1>2, <1>4, <1>6, <2>1, <2>2, <2>3, JudgeEvolves
  <1>8. CASE ~Awaits(o, m.status)
    <2>1. PullAnswered(m, Valid(o, m.status)) /\ jobs' = jobs
      BY <1>1, <1>8 DEF PullArrives
    <2>2. /\ PumpTells
          /\ \A q \in Region : pump'[q] = pump[q] \/ pump'[q].pc \notin {"take-hash", "export-hash"}
      BY <1>1, <1>2, <1>3, <2>1, AnswerTells
    <2>3. Trusted(r)' => Trusted(r)
      BY <2>1, <2>2, NoNewTrust
    <2>4. fenced' = [fenced EXCEPT ![o] = ~Valid(o, m.status)]
      BY <1>1, <2>1 DEF PullAnswered
    <2>5. ~fenced'[r] => ~fenced[r] \/ Judged(r)
      BY <1>0, <1>5, <2>4
    <2> QED BY <1>2, <1>4, <1>6, <2>2, <2>3, <2>5, JudgeEvolves
  <1> QED BY <1>7, <1>8

LEMMA PullHashedEvolves ==
  ASSUME SyncInv, NEW j \in jobs, PullHashed(j), NEW r \in Region
  PROVE  Evolves(r)
  <1>0. j \in Job /\ fenced \in [Region -> BOOLEAN]
    BY DEF SyncInv, WireOk, StoreOk
  <1>1. PICK o : /\ o = Peer(j.from) /\ o \in Region /\ j.from = Peer(o)
                 /\ j.from \in Region /\ j.status \in Receipt /\ j.verdict \in BOOLEAN
    BY <1>0, PeerFacts DEF Job
  <1>2. PullAnswered(j, j.verdict) /\ jobs' \subseteq jobs
        /\ UNCHANGED <<outbox, inbox, floor, active, current, rows, quota, era, net,
                       grants, backup>>
    BY DEF PullHashed
  <1>3. NetTells
    BY <1>2, NetSame
  <1>4. /\ PumpTells
        /\ \A q \in Region : pump'[q] = pump[q] \/ pump'[q].pc \notin {"take-hash", "export-hash"}
    BY <1>1, <1>2, AnswerTells
  <1>5. Trusted(r)' => Trusted(r)
    BY <1>2, <1>4, NoNewTrust
  <1>6. fenced' = [fenced EXCEPT ![o] = ~j.verdict]
    BY <1>1, <1>2 DEF PullAnswered
  <1>7. ~fenced'[r] => ~fenced[r] \/ Trusted(r)
    BY <1>0, <1>1, <1>6 DEF Trusted
  <1> QED BY <1>2, <1>3, <1>4, <1>5, <1>7, JudgeEvolves

(* Nothing is under way when a copy comes back: what is fenced may be of   *)
(* either kind.                                                            *)
LEMMA RestoreFences ==
  ASSUME SyncInv, SyncInv', FenceInv, Quiet, NEW q \in Region, Restore(q), NEW r \in Region
  PROVE  FenceOf(r)'
  <1>0. /\ backup # None /\ backup.of = q /\ NothingUnderWay
        /\ fenced \in [Region -> BOOLEAN] /\ floor \in [Region -> Receipt]
        /\ outbox \in [Region -> Seq(Change)] /\ inbox \in [Region -> Seq(Change)]
        /\ Peer(r) \in Region /\ Peer(r) # r
    BY PeerFacts DEF SyncInv, StoreOk, Restore
  <1>1. PICK b : /\ b = backup
                 /\ b.inbox \in Nat /\ b.inbox <= Len(inbox[q])
                 /\ b.outbox \in Nat /\ b.outbox <= Len(outbox[q])
    BY <1>0 DEF SyncInv, BackupOk, GoodCopy, Copy
  <1>2. /\ outbox' = [outbox EXCEPT ![q] = SubSeq(@, 1, b.outbox)]
        /\ inbox' = [inbox EXCEPT ![q] = SubSeq(@, 1, b.inbox)]
        /\ floor' = [floor EXCEPT ![q] = b.floor]
        /\ fenced' = [fenced EXCEPT ![q] = TRUE]
        /\ pump' = CutOff(q) /\ jobs' \subseteq jobs /\ net' = net /\ grants' = grants
    BY <1>1 DEF Restore, Reopened
  <1>3. net' = {} /\ jobs' = {} /\ grants' = {}
    BY <1>0, <1>2 DEF NothingUnderWay
  <1>4. \A s \in Region : pump'[s].pc \in {"idle", "retry"}
    <2>1. \A s \in Region : pump'[s] \in {Idle, Retry}
      BY <1>0, <1>2 DEF CutOff, NothingUnderWay, Resting
    <2> QED BY <2>1 DEF Idle, Retry
  <1>5. Shown(r)' = {} /\ ~Trusted(r)' /\ Carried(r)' = {}
    <2>1. pump'[r].pc \in {"idle", "retry"} /\ pump'[Peer(r)].pc \in {"idle", "retry"}
      BY <1>0, <1>4
    <2>2. Shown(r)' = {}
      BY <1>3, <2>1 DEF Shown
    <2>3. ~Trusted(r)'
      BY <1>3, <2>1 DEF Trusted
    <2>4. Carried(r)' = {}
      BY <1>3, <2>1 DEF Carried
    <2> QED BY <2>2, <2>3, <2>4
  <1>6. /\ Len(outbox'[r]) \in Nat /\ Len(inbox'[Peer(r)]) \in Nat /\ floor'[r].received \in Nat
    BY Measured DEF SyncInv, StoreOk
  <1>7. fenced'[r] => Within(r)' \/ Beyond(r)'
    BY <1>5, <1>6 DEF Within, Beyond
  <1>10. Consistent(inbox[Peer(r)], outbox[r])
    BY DEF FenceInv, FenceOf
  <1>8. CASE r = q
    <2>1. fenced'[r]
      BY <1>0, <1>2, <1>8
    <2>2. outbox'[r] = SubSeq(outbox[r], 1, b.outbox) /\ inbox'[Peer(r)] = inbox[Peer(r)]
      BY <1>0, <1>2, <1>8
    <2>3. \A i \in DOMAIN outbox'[r] : i \in DOMAIN outbox[r] /\ outbox'[r][i] = outbox[r][i]
      BY <1>0, <1>1, <1>8, <2>2, PrefixFacts
    <2>4. Consistent(inbox'[Peer(r)], outbox'[r])
      BY <1>10, <2>2, <2>3 DEF Consistent
    <2> QED BY <1>5, <1>7, <2>1, <2>4 DEF FenceOf
  <1>9. CASE r # q
    <2>1. q = Peer(r)
      BY <1>9 DEF Peer, Region
    <2>2. outbox'[r] = outbox[r] /\ floor'[r] = floor[r] /\ fenced'[r] = fenced[r]
      BY <1>0, <1>2, <1>9
    <2>3. Len(inbox'[Peer(r)]) <= Len(inbox[Peer(r)])
      <3>1. inbox'[q] = SubSeq(inbox[q], 1, b.inbox) /\ inbox[q] \in Seq(Change)
        BY <1>0, <1>2
      <3>2. Len(SubSeq(inbox[q], 1, b.inbox)) <= Len(inbox[q])
        BY <1>1, <3>1, PrefixFacts
      <3> QED BY <2>1, <3>1, <3>2
    <2>4. Len(outbox[r]) \in Nat /\ Len(inbox[Peer(r)]) \in Nat
      BY <1>0
    <2>5. Within(r) => Within(r)'
      BY <1>5, <1>6, <2>2, <2>3, <2>4 DEF Within
    <2>6. Within(r) \/ fenced[r]
      BY DEF FenceInv, FenceOf, Beyond
    <2>7. /\ inbox'[Peer(r)] = SubSeq(inbox[Peer(r)], 1, b.inbox)
          /\ b.inbox <= Len(inbox[Peer(r)])
      BY <1>0, <1>1, <1>2, <2>1
    <2>8. \A i \in DOMAIN inbox'[Peer(r)] :
             i \in DOMAIN inbox[Peer(r)] /\ inbox'[Peer(r)][i] = inbox[Peer(r)][i]
      <3>1. inbox[Peer(r)] \in Seq(Change) /\ b.inbox \in Nat
        BY <1>0, <1>1
      <3>2. /\ DOMAIN SubSeq(inbox[Peer(r)], 1, b.inbox) = 1..b.inbox
            /\ \A i \in 1..b.inbox : /\ i \in DOMAIN inbox[Peer(r)]
                                     /\ SubSeq(inbox[Peer(r)], 1, b.inbox)[i] = inbox[Peer(r)][i]
        BY <2>7, <3>1, PrefixFacts
      <3> QED BY <2>7, <3>2
    <2>9. Consistent(inbox'[Peer(r)], outbox'[r])
      BY <1>10, <2>2, <2>8 DEF Consistent
    <2> QED BY <1>5, <1>7, <2>2, <2>5, <2>6, <2>9 DEF FenceOf
  <1> QED BY <1>8, <1>9

LEMMA InitFences == Init => FenceInv
  <1> SUFFICES ASSUME Init, NEW r \in Region
               PROVE  FenceOf(r)
    BY DEF FenceInv
  <1>1. Peer(r) \in Region /\ Idle.pc = "idle" /\ NoStatus.received = 0 /\ Len(<<>>) = 0
    BY PeerFacts DEF Idle, NoStatus
  <1>2. /\ floor[r].received = 0 /\ Len(outbox[r]) = 0 /\ Len(inbox[Peer(r)]) = 0
        /\ net = {} /\ grants = {} /\ pump[r].pc = "idle" /\ pump[Peer(r)].pc = "idle"
    BY <1>1 DEF Init
  <1>3. Shown(r) = {} /\ Carried(r) = {}
    BY <1>2 DEF Shown, Carried
  <1>4. outbox[r] = <<>>
    BY DEF Init
  <1>5. Consistent(inbox[Peer(r)], outbox[r])
    BY <1>4 DEF Consistent
  <1> QED BY <1>2, <1>3, <1>5 DEF FenceOf, Within

LEMMA NextEvolves ==
  ASSUME SyncInv, [Next]_vars, ~ \E q \in Region : Restore(q), NEW r \in Region
  PROVE  Evolves(r)
  <1>1. ASSUME NEW q \in Region, Users(q)
        PROVE  Evolves(r)
    BY <1>1, UsersEvolve
  <1>2. ASSUME NEW q \in Region, Tick(q)
        PROVE  Evolves(r)
    BY <1>2, PullSendEvolves, ReconcileEvolves, HashedEvolves, TakeEvolves,
       ReadStatusEvolves, ExportEvolves, AcknowledgeEvolves DEF Tick
  <1>3. ASSUME NEW q \in Region, GiveUp(q) \/ Restart(q)
        PROVE  Evolves(r)
    BY <1>3, GiveUpEvolves, RestartEvolves
  <1>4. ASSUME NEW q \in Region, Backup(q)
        PROVE  Evolves(r)
    BY <1>4, RestEvolves DEF Backup
  <1>5. ASSUME NEW p \in Project, Grant(p)
        PROVE  Evolves(r)
    BY <1>5, GrantEvolves
  <1>6. ASSUME NEW e \in grants, GrantArrives(e) \/ LoseGrant(e)
        PROVE  Evolves(r)
    BY <1>6, GrantArrivesEvolves, LoseGrantEvolves
  <1>7. CASE Arrives
    BY <1>7, PullArrivesEvolves, PostArrivesEvolves DEF Arrives
  <1>8. ASSUME NEW j \in jobs, PullHashed(j)
        PROVE  Evolves(r)
    BY <1>8, PullHashedEvolves
  <1>9. CASE UNCHANGED vars
    BY <1>9, RestEvolves DEF vars
  <1> QED BY <1>1, <1>2, <1>3, <1>4, <1>5, <1>6, <1>7, <1>8, <1>9 DEF Next

LEMMA NextFences ==
  ASSUME SyncInv, SyncInv', FenceInv, Quiet \/ backup = None, [Next]_vars
  PROVE  FenceInv'
  <1> SUFFICES ASSUME NEW r \in Region
               PROVE  FenceOf(r)'
    BY DEF FenceInv
  <1>1. CASE \E q \in Region : Restore(q)
    <2>1. backup # None
      BY <1>1 DEF Restore
    <2> QED BY <1>1, <2>1, RestoreFences
  <1>2. CASE ~ \E q \in Region : Restore(q)
    <2>1. Evolves(r)
      BY <1>2, NextEvolves
    <2> QED BY <2>1, EvolvedFence DEF FenceInv
  <1> QED BY <1>1, <1>2

(* A region that is open holds all that its peer has or shows of it, and   *)
(* what its peer holds is what it issued, although journals fall back to   *)
(* earlier copies (worker/project-sync-journal.ts:613-633).                *)
THEOREM FenceSafe ==
  ASSUME Quiet \/ MaxRestores = 0
  PROVE  Spec => [](SyncInv /\ FenceInv)
  <1>1. Init => FenceInv
    BY InitFences
  <1>2. CASE Quiet
    <2>1. SyncInv /\ SyncInv' /\ FenceInv /\ [Next]_vars => FenceInv'
      BY <1>2, NextFences
    <2> QED BY <1>1, <2>1, SyncSafe, PTL DEF Spec
  <1>3. CASE MaxRestores = 0
    <2>1. AgreeInv => backup = None
      BY DEF AgreeInv
    <2>2. SyncInv /\ SyncInv' /\ AgreeInv /\ FenceInv /\ [Next]_vars => FenceInv'
      BY <2>1, NextFences
    <2>3. Spec => [](SyncInv /\ AgreeInv)
      BY <1>3, AgreeSafe
    <2> QED BY <1>1, <2>2, <2>3, PTL DEF Spec
  <1> QED BY <1>2, <1>3

(* The evidence of a lost event keeps a region fenced, over any number of  *)
(* restores each of which waits until nothing is under way: no verdict     *)
(* formed before new evidence lifts the fence (reconcile() of              *)
(* worker/project-sync-journal.ts:633).                                    *)
THEOREM EvidenceFencesHolds ==
  ASSUME Quiet \/ MaxRestores = 0
  PROVE  Spec => []EvidenceFences
  <1>1. SyncInv /\ FenceInv => EvidenceFences
    <2> SUFFICES ASSUME FenceInv, SyncInv, NEW r \in Region
                 PROVE  floor[r].received > Len(outbox[r]) => fenced[r]
      BY DEF EvidenceFences
    <2>1. Len(outbox[r]) \in Nat /\ floor[r].received \in Nat
      BY Measured DEF SyncInv, StoreOk
    <2> QED BY <2>1 DEF FenceInv, FenceOf, Within, Beyond
  <1> QED BY <1>1, FenceSafe, PTL

-------------------------------------------------------------------------------
(* Both directions implement ReplicatedStream.  What a step is to the      *)
(* stream that starts at r:                                                *)
StreamStep(r) ==
  \/ /\ ~fenced[r]
     /\ Len(outbox'[r]) = Len(outbox[r]) + 1 /\ IsPrefix(outbox[r], outbox'[r])
     /\ inbox'[Peer(r)] = inbox[Peer(r)] /\ fenced'[r] = fenced[r]
  \/ /\ Len(inbox[Peer(r)]) < Len(outbox[r])
     /\ inbox'[Peer(r)] = Append(inbox[Peer(r)], outbox[r][Len(inbox[Peer(r)]) + 1])
     /\ outbox'[r] = outbox[r] /\ fenced'[r] = fenced[r]
  \/ /\ fenced'[r] \/ fenced'[r] = fenced[r] \/ IsPrefix(inbox[Peer(r)], outbox[r])
     /\ outbox'[r] = outbox[r] /\ inbox'[Peer(r)] = inbox[Peer(r)]
  \/ /\ IsPrefix(outbox'[r], outbox[r]) /\ fenced'[r]
     /\ inbox'[Peer(r)] = inbox[Peer(r)]
  \/ /\ IsPrefix(inbox'[Peer(r)], inbox[Peer(r)])
     /\ outbox'[r] = outbox[r] /\ fenced'[r] = fenced[r]

LEMMA OpenIsBehind ==
  ASSUME SyncInv', NEW r \in Region, FenceOf(r)', ~fenced'[r]
  PROVE  IsPrefix(inbox'[Peer(r)], outbox'[r])
  <1>0. /\ Peer(r) \in Region
        /\ outbox' \in [Region -> Seq(Change)] /\ inbox' \in [Region -> Seq(Change)]
    BY PeerFacts DEF SyncInv, StoreOk
  <1>1. /\ outbox'[r] \in Seq(Change) /\ inbox'[Peer(r)] \in Seq(Change)
        /\ Len(outbox'[r]) \in Nat /\ Len(inbox'[Peer(r)]) \in Nat
    BY <1>0
  <1>2. Len(inbox'[Peer(r)]) <= Len(outbox'[r]) /\ Consistent(inbox'[Peer(r)], outbox'[r])
    BY DEF FenceOf, Within, Beyond
  <1>3. \A i \in DOMAIN inbox'[Peer(r)] : i \in DOMAIN outbox'[r]
    BY <1>1, <1>2
  <1>4. Behind(inbox'[Peer(r)], outbox'[r])
    BY <1>2, <1>3 DEF Behind, Consistent
  <1> QED BY <1>1, <1>4, BehindIsPrefix

LEMMA EvolvedStream ==
  ASSUME SyncInv, SyncInv', NEW r \in Region, FenceOf(r), FenceOf(r)', Evolves(r)
  PROVE  StreamStep(r)
  <1>0. /\ outbox[r] \in Seq(Change) /\ inbox[Peer(r)] \in Seq(Change)
    BY PeerFacts DEF SyncInv, StoreOk
  <1>1. CASE outbox'[r] = outbox[r] /\ inbox'[Peer(r)] = inbox[Peer(r)]
    <2>1. fenced'[r] \/ IsPrefix(inbox[Peer(r)], outbox[r])
      BY <1>1, OpenIsBehind
    <2> QED BY <1>1, <2>1 DEF StreamStep
  <1>2. ASSUME NEW c \in Change, ~fenced[r], outbox'[r] = Append(outbox[r], c),
               inbox'[Peer(r)] = inbox[Peer(r)], fenced'[r] = fenced[r]
        PROVE  StreamStep(r)
    <2>1. Len(outbox'[r]) = Len(outbox[r]) + 1 /\ outbox'[r] \in Seq(Change)
      BY <1>0, <1>2
    <2>2. IsPrefix(outbox[r], outbox'[r])
      <3>1. Behind(outbox[r], outbox'[r])
        BY <1>0, <1>2, GrownIsBehind
      <3> QED BY <1>0, <2>1, <3>1, BehindIsPrefix
    <2> QED BY <1>2, <2>1, <2>2 DEF StreamStep
  <1>3. ASSUME NEW e \in Carried(r), e # NoEvent, e.sequence = Len(inbox[Peer(r)]) + 1,
               inbox'[Peer(r)] = Append(inbox[Peer(r)], e.change), outbox'[r] = outbox[r],
               fenced'[r] = fenced[r]
        PROVE  StreamStep(r)
    <2>1. e.sequence \in DOMAIN outbox[r] /\ outbox[r][e.sequence] = e.change
      BY <1>3 DEF FenceOf, Holding, Genuine
    <2>2. Len(inbox[Peer(r)]) < Len(outbox[r])
      BY <1>0, <1>3, <2>1
    <2> QED BY <1>3, <2>1, <2>2 DEF StreamStep
  <1> QED BY <1>1, <1>2, <1>3 DEF Evolves

LEMMA RestoredStream ==
  ASSUME SyncInv, NEW q \in Region, Restore(q), NEW r \in Region
  PROVE  StreamStep(r)
  <1>0. /\ backup # None /\ backup.of = q
        /\ fenced \in [Region -> BOOLEAN]
        /\ outbox \in [Region -> Seq(Change)] /\ inbox \in [Region -> Seq(Change)]
        /\ Peer(r) \in Region /\ Peer(r) # r
    BY PeerFacts DEF SyncInv, StoreOk, Restore
  <1>1. PICK b : /\ b = backup
                 /\ b.inbox \in Nat /\ b.inbox <= Len(inbox[q])
                 /\ b.outbox \in Nat /\ b.outbox <= Len(outbox[q])
    BY <1>0 DEF SyncInv, BackupOk, GoodCopy, Copy
  <1>2. /\ outbox' = [outbox EXCEPT ![q] = SubSeq(@, 1, b.outbox)]
        /\ inbox' = [inbox EXCEPT ![q] = SubSeq(@, 1, b.inbox)]
        /\ fenced' = [fenced EXCEPT ![q] = TRUE]
    BY <1>1 DEF Restore, Reopened
  <1>3. CASE r = q
    <2>1. /\ outbox'[r] = SubSeq(outbox[r], 1, b.outbox) /\ inbox'[Peer(r)] = inbox[Peer(r)]
          /\ fenced'[r] /\ outbox[r] \in Seq(Change)
      BY <1>0, <1>2, <1>3
    <2>2. Len(SubSeq(outbox[r], 1, b.outbox)) = b.outbox
      BY <1>1, <1>3, <2>1, PrefixFacts
    <2>3. IsPrefix(outbox'[r], outbox[r])
      BY <1>1, <1>3, <2>1, <2>2 DEF IsPrefix
    <2> QED BY <2>1, <2>3 DEF StreamStep
  <1>4. CASE r # q
    <2>0. q = Peer(r)
      BY <1>4 DEF Peer, Region
    <2>1. /\ inbox'[Peer(r)] = SubSeq(inbox[Peer(r)], 1, b.inbox) /\ outbox'[r] = outbox[r]
          /\ fenced'[r] = fenced[r] /\ inbox[Peer(r)] \in Seq(Change)
      BY <1>0, <1>2, <1>4, <2>0
    <2>2. Len(SubSeq(inbox[Peer(r)], 1, b.inbox)) = b.inbox
      BY <1>1, <2>0, <2>1, PrefixFacts
    <2>3. IsPrefix(inbox'[Peer(r)], inbox[Peer(r)])
      BY <1>1, <2>0, <2>1, <2>2 DEF IsPrefix
    <2> QED BY <2>1, <2>3 DEF StreamStep
  <1> QED BY <1>3, <1>4

(* Every behaviour keeps the promise of ReplicatedStream in both           *)
(* directions, over any number of restores each of which waits until       *)
(* nothing is under way: no region issues another event under a sequence   *)
(* number that its peer holds.                                             *)
THEOREM KeepsStreamsHolds ==
  ASSUME Quiet \/ MaxRestores = 0
  PROVE  Spec => KeepsStreams
  <1>0. Cn \in Region /\ Overseas \in Region /\ Peer(Cn) = Overseas /\ Peer(Overseas) = Cn
    BY PeerFacts, SyncAssumption DEF Peer
  <1>1. Init => FromCn!Init /\ FromOverseas!Init
    BY <1>0 DEF Init, FromCn!Init, FromOverseas!Init
  <1>2. ASSUME SyncInv, FenceInv, SyncInv', FenceInv', [Next]_vars
        PROVE  /\ [FromCn!Next]_<<outbox[Cn], inbox[Overseas], ~fenced[Cn]>>
               /\ [FromOverseas!Next]_<<outbox[Overseas], inbox[Cn], ~fenced[Overseas]>>
    <2>1. ASSUME NEW r \in Region
          PROVE  StreamStep(r)
      <3>1. CASE \E q \in Region : Restore(q)
        BY <1>2, <3>1, RestoredStream
      <3>2. CASE ~ \E q \in Region : Restore(q)
        <4>1. Evolves(r)
          BY <1>2, <3>2, NextEvolves
        <4>2. FenceOf(r) /\ FenceOf(r)'
          BY <1>2 DEF FenceInv
        <4> QED BY <1>2, <4>1, <4>2, EvolvedStream
      <3> QED BY <3>1, <3>2
    <2>2. /\ fenced[Cn] \in BOOLEAN /\ fenced[Overseas] \in BOOLEAN
          /\ fenced'[Cn] \in BOOLEAN /\ fenced'[Overseas] \in BOOLEAN
      BY <1>0, <1>2 DEF SyncInv, StoreOk
    <2>3. StreamStep(Cn) /\ StreamStep(Overseas)
      BY <1>0, <2>1
    <2>4. [FromCn!Next]_<<outbox[Cn], inbox[Overseas], ~fenced[Cn]>>
      BY <1>0, <2>2, <2>3 DEF StreamStep, IsPrefix, FromCn!Next, FromCn!Issue, FromCn!Take,
         FromCn!Stop, FromCn!Open, FromCn!ProducerFallsBack, FromCn!HolderFallsBack,
         FromCn!Prefix
    <2>5. [FromOverseas!Next]_<<outbox[Overseas], inbox[Cn], ~fenced[Overseas]>>
      BY <1>0, <2>2, <2>3 DEF StreamStep, IsPrefix, FromOverseas!Next, FromOverseas!Issue,
         FromOverseas!Take, FromOverseas!Stop, FromOverseas!Open,
         FromOverseas!ProducerFallsBack, FromOverseas!HolderFallsBack, FromOverseas!Prefix
    <2> QED BY <2>4, <2>5
  <1>3. Spec => [](SyncInv /\ FenceInv)
    BY FenceSafe
  <1> QED BY <1>1, <1>2, <1>3, PTL DEF Spec, KeepsStreams, FromCn!Spec, FromOverseas!Spec
==============================================================================
