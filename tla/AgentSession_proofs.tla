-------------------------- MODULE AgentSession_proofs --------------------------
(***************************************************************************)
(* Proofs about the Agent session, for every set of calls, request IDs,    *)
(* payloads and sockets and for all bounds.  The inductive invariant       *)
(* AgentInv has a part for each memory of a write: the clients' attempts   *)
(* (ClientOk), the relay's tables against its storage (RelayOk), the       *)
(* messages under way against both (WireOk), the page's table against the  *)
(* runs (PageOk), and the results handed out against the runs (TruthOk).   *)
(***************************************************************************)
EXTENDS AgentSession, SequenceTheorems, TLAPS

In(q) == {q[k] : k \in 1 .. Len(q)}
Requests(s) == {m \in In(sock[s].down) : m.kind = "request"}
Successes(s) == {m \in In(sock[s].up) : m.result.code = "OK"}
RanPays(id) == {r.pay : r \in In(ran[id])}
Live == session.status # "ended"

(* The payload of the write that the session se has under way for an ID,   *)
(* and of the write that the storage st holds for it.                      *)
Undone(se, id) == IF se.pending[id] # None /\ ~se.pending[id].done
                  THEN se.pending[id].pay ELSE None
HeldPay(st, id) == IF st.ledger[id] # None THEN st.ledger[id] ELSE st.pending[id]

(* The storage has every undone write, and every completed one that the    *)
(* machine still remembers.                                                *)
Mirrors(se, st, id) ==
  /\ st.pending[id] # None => st.ledger[id] = None
  /\ se.status # "ended" =>
       /\ st.pending[id] = Undone(se, id)
       /\ se.pending[id] # None /\ se.pending[id].done
            => st.ledger[id] = se.pending[id].pay

GoodCall(j) ==
  /\ j \in CallState
  /\ j.pc = "new" => j.n = 0 /\ j.net = 0 /\ j.off = 0
  /\ j.pc \in {"waiting", "sleeping"} => j.n = 1 + j.net + j.off
  /\ j.pc = "sleeping" => j.off < OfflineRetries

ClientOk ==
  /\ call \in [Calls -> CallState]
  /\ arrived \subseteq Calls \X Attempts
  /\ \A c \in Calls : GoodCall(call[c])

(* A forward waits for the write that is stored under its ID.              *)
GoodForward(f, id) ==
  f # None => /\ IdOf[f.call] = id
              /\ Live => stored.pending[id] = PayloadOf[f.call]

RelayOk ==
  /\ session \in Session
  /\ stored \in Storage
  /\ forwards \in [Ids -> Forward \cup {None}]
  /\ given \subseteq Ids
  /\ ending \in {"no", "clearing", "over"}
  /\ ending # "no" => ~Live
  /\ ending = "over" => stored = Nothing
  /\ stored.status = "ended" => ~Live /\ stored = Nothing
  /\ ~Live => ending # "no" \/ stored.status = "ended"
  /\ \A id \in Ids : Mirrors(session, stored, id)
  /\ \A id \in Ids : GoodForward(forwards[id], id)
  /\ stored.status # "ended" => \A id \in given : stored.ledger[id] # None

GoodSocket(s) ==
  /\ sock[s].page = (page.tab.sock = s)
  /\ ~sock[s].page => sock[s].down = <<>>
  /\ sock[s].relay # "open" => sock[s].up = <<>>
  /\ sock[s].relay = "open" => page.tab.sock \in {0, s}

(* The writes of messages under way are held by the storage; those that    *)
(* were answered are known to the page.                                    *)
GoodRequest(s, m) ==
  /\ m.id \in given => page.tab.known[m.id] # None
  /\ Live /\ sock[s].relay = "open" => HeldPay(stored, m.id) = m.pay
GoodSuccess(s, m) ==
  /\ page.tab.sock = s => page.tab.known[m.id] # None
  /\ Live /\ sock[s].relay = "open" => HeldPay(stored, m.id) = m.result.pay
  /\ m.result.pay \in RanPays(m.id)
GoodTraffic(s) ==
  /\ \A m \in Requests(s) : GoodRequest(s, m)
  /\ \A m \in Successes(s) : GoodSuccess(s, m)

WireOk ==
  /\ sock \in [Sockets -> Socket]
  /\ \A s \in Sockets : GoodSocket(s) /\ GoodTraffic(s)

PageOk ==
  /\ page \in [no : 1 .. MaxPages, tab : Tables]
  /\ ran \in [Ids -> Seq(Runs)]
  /\ \A id \in Ids :
       /\ \A r \in In(ran[id]) : r.page <= page.no
       /\ \A r \in In(ran[id]) : r.page = page.no => page.tab.known[id] # None
       /\ page.tab.known[id] # None => page.tab.known[id] \in RanPays(id)

(* Cached results are of the payload that they are cached for.             *)
GoodCache(id) ==
  session.cache[id] # None /\ session.cache[id].result.code = "OK" =>
    /\ session.cache[id].result.pay = session.cache[id].pay
    /\ session.cache[id].pay \in RanPays(id)

GoodOut(c) ==
  call[c].out # None /\ call[c].out.code = "OK" =>
    call[c].out.pay = PayloadOf[c] /\ PayloadOf[c] \in RanPays(IdOf[c])

TruthOk == (\A id \in Ids : GoodCache(id)) /\ (\A c \in Calls : GoodOut(c))

AgentInv == ClientOk /\ RelayOk /\ WireOk /\ PageOk /\ TruthOk /\ upsets \in 0 .. MaxUpsets

-------------------------------------------------------------------------------
(* Queues and histories as the sets of what is in them.                    *)

LEMMA InAppended ==
  ASSUME NEW S, NEW q \in Seq(S), NEW m \in S
  PROVE  Append(q, m) \in Seq(S) /\ In(Append(q, m)) = In(q) \cup {m}
  <1>1. /\ Append(q, m) \in Seq(S) /\ Len(Append(q, m)) = Len(q) + 1 /\ Len(q) \in Nat
        /\ \A k \in 1 .. Len(q) : Append(q, m)[k] = q[k]
        /\ Append(q, m)[Len(q) + 1] = m
    BY AppendProperties, LenProperties
  <1>2. 1 .. Len(q) + 1 = (1 .. Len(q)) \cup {Len(q) + 1}
    BY <1>1
  <1>3. QED BY <1>1, <1>2 DEF In

LEMMA InTail ==
  ASSUME NEW S, NEW q \in Seq(S), q # <<>>
  PROVE  /\ Tail(q) \in Seq(S) /\ In(Tail(q)) \subseteq In(q)
         /\ Head(q) \in In(q) /\ Head(q) \in S
  <1>1. /\ Tail(q) \in Seq(S) /\ Len(Tail(q)) = Len(q) - 1 /\ Head(q) \in S
        /\ \A k \in 1 .. Len(Tail(q)) : Tail(q)[k] = q[k + 1]
        /\ Len(q) \in Nat \ {0} /\ Head(q) = q[1]
    BY HeadTailProperties, EmptySeq, LenProperties
  <1>2. \A k \in 1 .. Len(q) - 1 : k + 1 \in 1 .. Len(q)
    BY <1>1
  <1>3. 1 \in 1 .. Len(q)
    BY <1>1
  <1>4. QED BY <1>1, <1>2, <1>3 DEF In

LEMMA InEmpty == In(<<>>) = {}
  BY DEF In

LEMMA InTyped == ASSUME NEW S, NEW q \in Seq(S) PROVE In(q) \subseteq S
  BY ElementOfSeq DEF In

-------------------------------------------------------------------------------
(* The constants and the clients.                                          *)

LEMMA Bounds ==
  /\ NetworkRetries \in Nat /\ OfflineRetries \in Nat /\ MaxSockets \in Nat
  /\ MaxPages \in Nat \ {0} /\ MaxUpsets \in Nat
  /\ \A c \in Calls : IdOf[c] \in Ids /\ PayloadOf[c] \in Payloads /\ PayloadOf[c] # None
  /\ None \notin Payloads
  BY BoundsAssumption, CallsAssumption DEF Ids, Payloads

LEMMA UncertainGood ==
  /\ Uncertain \in Outcomes /\ Uncertain.code # "OK" /\ Refused \in Outcomes
  /\ \A code \in Codes : Outcome(code) \in Outcomes /\ Outcome(code).code = code
  BY DEF Uncertain, Refused, Outcome, Outcomes, Codes

LEMMA OverGood ==
  ASSUME NEW o \in Outcomes
  PROVE  /\ GoodCall(Over(o)) /\ Over(o).pc = "done"
         /\ Over(o).out \in Outcomes
         /\ Over(o).out.code = "OK" => Over(o).out = o
  <1>1. (IF o.code = "OK" THEN o ELSE Uncertain) \in Outcomes
    BY UncertainGood
  <1> DEFINE x == IF o.code = "OK" THEN o ELSE Uncertain
  <1>2. Unsent \in CallState /\ Over(o) = [Unsent EXCEPT !.pc = "done", !.out = x]
    BY Bounds DEF Over, Unsent, CallState
  <1> HIDE DEF x
  <1>3. /\ Over(o) \in CallState /\ Over(o).pc = "done" /\ Over(o).out = x
    BY <1>1, <1>2 DEF CallState, x
  <1>4. QED BY <1>1, <1>3, UncertainGood DEF GoodCall, x

(* A client that waits hears an answer.                                    *)
LEMMA HeardGood ==
  ASSUME NEW c \in Calls, GoodCall(call[c]), call[c].pc = "waiting", NEW o \in Outcomes
  PROVE  /\ GoodCall(Heard(c, o))
         /\ Heard(c, o).out # call[c].out /\ Heard(c, o).out.code = "OK" => Heard(c, o).out = o
  <1>1. CASE /\ o.code = "EDITOR_OFFLINE"
             /\ c \in Retrying /\ call[c].off < OfflineRetries
    <2>1. Heard(c, o) = [call[c] EXCEPT !.pc = "sleeping"]
      BY <1>1 DEF Heard
    <2>2. QED BY <1>1, <2>1 DEF GoodCall, CallState
  <1>2. CASE ~(/\ o.code = "EDITOR_OFFLINE"
               /\ c \in Retrying /\ call[c].off < OfflineRetries)
    <2>1. Heard(c, o) = Over(o)
      BY <1>2 DEF Heard
    <2>2. QED BY <2>1, OverGood
  <1>3. QED BY <1>1, <1>2

(* Only the clients whose handlers are in H hear an answer; the others     *)
(* stay as they are.                                                       *)
LEMMA AnswerAllGood ==
  ASSUME ClientOk, TruthOk, NEW H, NEW o \in Outcomes, AnswerAll(H, o),
         UNCHANGED ran, arrived' \subseteq arrived,
         o.code = "OK" => \A c \in Calls : \A n : <<c, n>> \in H =>
                            o.pay = PayloadOf[c] /\ PayloadOf[c] \in RanPays(IdOf[c])
  PROVE  ClientOk' /\ \A c \in Calls : GoodOut(c)'
  <1>1. ASSUME NEW c \in Calls PROVE GoodCall(call'[c]) /\ GoodOut(c)'
    <2>1. GoodCall(call[c]) /\ GoodOut(c) /\ RanPays(IdOf[c])' = RanPays(IdOf[c])
      BY DEF ClientOk, TruthOk, RanPays
    <2>2. CASE call[c].pc = "waiting" /\ <<c, call[c].n>> \in H
      <3>1. call'[c] = Heard(c, o)
        BY <2>2 DEF AnswerAll
      <3>2. GoodCall(Heard(c, o)) /\ (Heard(c, o).out # call[c].out /\ Heard(c, o).out.code = "OK"
               => Heard(c, o).out = o)
        BY <2>1, <2>2, HeardGood
      <3>3. QED BY <2>1, <2>2, <3>1, <3>2 DEF GoodOut
    <2>3. CASE ~(call[c].pc = "waiting" /\ <<c, call[c].n>> \in H)
      <3>1. call'[c] = call[c]
        BY <2>3 DEF AnswerAll
      <3>2. QED BY <2>1, <3>1 DEF GoodOut
    <2>4. QED BY <2>2, <2>3
  <1>2. \A c \in Calls : call'[c] \in CallState
    BY <1>1 DEF GoodCall
  <1>3. call' \in [Calls -> CallState]
    BY <1>2 DEF AnswerAll
  <1>4. QED BY <1>1, <1>3 DEF ClientOk

(* An attempt of one client.                                               *)
LEMMA AttemptGood ==
  ASSUME ClientOk, TruthOk, NEW c \in Calls, NEW j, GoodCall(j), j.out = call[c].out \/ j.out.code # "OK",
         call' = [call EXCEPT ![c] = j], UNCHANGED ran,
         arrived' = arrived \/ \E n \in Attempts : Attempt(c, n)
  PROVE  ClientOk' /\ \A d \in Calls : GoodOut(d)'
  <1>1. j \in CallState /\ call \in [Calls -> CallState]
    BY DEF GoodCall, ClientOk
  <1>2. call' \in [Calls -> CallState] /\ call'[c] = j
        /\ \A d \in Calls \ {c} : call'[d] = call[d]
    BY <1>1
  <1>3. \A d \in Calls : GoodCall(call'[d])
    BY <1>2 DEF ClientOk
  <1>4. arrived' \subseteq Calls \X Attempts
    BY DEF ClientOk, Attempt
  <1>5. \A d \in Calls : RanPays(IdOf[d])' = RanPays(IdOf[d]) /\ GoodOut(d)
    BY DEF RanPays, TruthOk
  <1>6. \A d \in Calls : GoodOut(d)'
    BY <1>2, <1>5 DEF GoodOut
  <1>7. QED BY <1>2, <1>3, <1>4, <1>6 DEF ClientOk

-------------------------------------------------------------------------------
(* The machine's tables and the storage.                                   *)

LEMMA NothingTyped ==
  /\ Nothing \in Storage /\ Nothing.status = "ended"
  /\ \A id \in Ids : Nothing.pending[id] = None /\ Nothing.ledger[id] = None
  BY DEF Nothing, Storage

LEMMA EntryNotNone ==
  /\ \A e \in Entry : e # None
  /\ \A e \in CacheEntry : e # None
  /\ \A e \in Forward : e # None
  /\ \A o \in Outcomes : o # None
  BY NoneAssumption

(* A live session is stored, and what is stored complete is forgotten.     *)
LEMMA PersistedFields ==
  ASSUME stored \in Storage, NEW s \in Session, s.status # "ended", Persist(s)
  PROVE  /\ stored' \in Storage /\ session' \in Session
         /\ stored'.status = s.status /\ session'.status = s.status
         /\ session'.cache = s.cache
         /\ \A id \in Ids :
              /\ stored'.pending[id] = Undone(s, id)
              /\ stored'.ledger[id] = IF s.pending[id] # None /\ s.pending[id].done
                                      THEN s.pending[id].pay ELSE stored.ledger[id]
              /\ session'.pending[id] = IF s.pending[id] # None /\ s.pending[id].done
                                        THEN None ELSE s.pending[id]
  <1>1. stored' = Saved(s) /\ session' = Forgetting(s)
    BY DEF Persist
  <1>2. s.pending \in [Ids -> Entry \cup {None}] /\ s.status \in {"active", "paused", "ended"}
        /\ s.cache \in [Ids -> CacheEntry \cup {None}]
    BY DEF Session
  <1>3. stored.ledger \in [Ids -> Payloads \cup {None}]
    BY DEF Storage
  <1>4. \A id \in Ids : s.pending[id] # None => s.pending[id].pay \in Payloads
    BY <1>2 DEF Entry
  <1>5. /\ stored'.status = s.status
        /\ stored'.pending = [id \in Ids |-> Undone(s, id)]
        /\ stored'.ledger = [id \in Ids |-> IF s.pending[id] # None /\ s.pending[id].done
                                            THEN s.pending[id].pay ELSE stored.ledger[id]]
    BY <1>1 DEF Saved, Undone
  <1> DEFINE P == [id \in Ids |-> Undone(s, id)]
             L == [id \in Ids |-> IF s.pending[id] # None /\ s.pending[id].done
                                  THEN s.pending[id].pay ELSE stored.ledger[id]]
  <1>6. P \in [Ids -> Payloads \cup {None}]
    BY <1>4 DEF Undone
  <1>7. L \in [Ids -> Payloads \cup {None}]
    BY <1>3, <1>4
  <1>8. stored' = [status |-> s.status, pending |-> P, ledger |-> L]
    BY <1>1 DEF Saved, Undone
  <1>9. stored' \in Storage
    <2> HIDE DEF P, L
    <2>1. QED BY <1>2, <1>6, <1>7, <1>8 DEF Storage
  <1> DEFINE Q == [id \in Ids |-> IF s.pending[id] # None /\ s.pending[id].done
                                  THEN None ELSE s.pending[id]]
  <1>10. Q \in [Ids -> Entry \cup {None}]
    BY <1>2
  <1>11. session' = [s EXCEPT !.pending = Q]
    BY <1>1 DEF Forgetting
  <1>12. session' \in Session /\ session'.status = s.status /\ session'.cache = s.cache
         /\ session'.pending = Q
    <2> HIDE DEF Q
    <2>1. QED BY <1>10, <1>11 DEF Session
  <1>13. QED BY <1>5, <1>9, <1>12

(* What the storage holds of a live session, it holds on; the IDs in X are *)
(* those whose entry is set.                                               *)
Holds(id) ==
  /\ HeldPay(stored, id) # None => HeldPay(stored', id) = HeldPay(stored, id)
  /\ stored.ledger[id] # None => stored'.ledger[id] = stored.ledger[id]

LEMMA PersistedMirrors ==
  ASSUME stored \in Storage, session \in Session, Live, NEW s \in Session, s.status # "ended",
         Persist(s), NEW id \in Ids, Mirrors(session, stored, id),
         s.pending[id] = session.pending[id]
  PROVE  /\ Mirrors(session', stored', id) /\ Holds(id)
         /\ stored'.pending[id] = stored.pending[id]
         /\ stored'.ledger[id] = stored.ledger[id]
  <1>1. /\ stored'.pending[id] = Undone(s, id)
        /\ stored'.ledger[id] = IF s.pending[id] # None /\ s.pending[id].done
                                THEN s.pending[id].pay ELSE stored.ledger[id]
        /\ session'.pending[id] = IF s.pending[id] # None /\ s.pending[id].done
                                  THEN None ELSE s.pending[id]
    BY PersistedFields
  <1>2. stored'.pending[id] = stored.pending[id]
    BY <1>1 DEF Mirrors, Undone, Live
  <1>3. stored'.ledger[id] = stored.ledger[id]
    BY <1>1 DEF Mirrors, Live
  <1>4. stored'.pending[id] = Undone(session', id)
    BY <1>1 DEF Undone
  <1>5. ~(session'.pending[id] # None /\ session'.pending[id].done)
    BY <1>1
  <1>6. Mirrors(session', stored', id)
    BY <1>2, <1>3, <1>4, <1>5 DEF Mirrors
  <1>7. QED BY <1>2, <1>3, <1>6 DEF Holds, HeldPay

(* A write that is begun: nothing was held for its ID, or the same payload *)
(* not yet done.                                                           *)
LEMMA BegunMirrors ==
  ASSUME stored \in Storage, NEW s \in Session, s.status # "ended", Persist(s),
         NEW id \in Ids, NEW pay \in Payloads, stored.ledger[id] = None,
         stored.pending[id] \in {None, pay},
         s.pending[id] = [pay |-> pay, done |-> FALSE]
  PROVE  /\ Mirrors(session', stored', id) /\ Holds(id)
         /\ stored'.pending[id] = pay /\ stored'.ledger[id] = None
  <1>1. /\ stored'.pending[id] = Undone(s, id)
        /\ stored'.ledger[id] = IF s.pending[id] # None /\ s.pending[id].done
                                THEN s.pending[id].pay ELSE stored.ledger[id]
        /\ session'.pending[id] = IF s.pending[id] # None /\ s.pending[id].done
                                  THEN None ELSE s.pending[id]
    BY PersistedFields
  <1>2. s.pending[id] # None
    BY EntryNotNone DEF Entry
  <1>3. /\ stored'.pending[id] = pay /\ stored'.ledger[id] = None
        /\ session'.pending[id] = s.pending[id]
    BY <1>1, <1>2 DEF Undone
  <1>4. Mirrors(session', stored', id)
    BY <1>2, <1>3 DEF Mirrors, Undone
  <1>5. QED BY <1>3, <1>4 DEF Holds, HeldPay

(* A write that is dropped before it was forwarded.                        *)
LEMMA DroppedMirrors ==
  ASSUME stored \in Storage, NEW s \in Session, s.status # "ended", Persist(s),
         NEW id \in Ids, s.pending[id] = None
  PROVE  /\ Mirrors(session', stored', id)
         /\ stored'.pending[id] = None /\ stored'.ledger[id] = stored.ledger[id]
  <1>1. /\ stored'.pending[id] = Undone(s, id)
        /\ stored'.ledger[id] = stored.ledger[id]
        /\ session'.pending[id] = None
    BY PersistedFields
  <1>2. QED BY <1>1 DEF Mirrors, Undone

(* A write that is completed.                                              *)
LEMMA CompletedMirrors ==
  ASSUME stored \in Storage, NEW s \in Session, s.status # "ended", Persist(s),
         NEW id \in Ids, NEW pay \in Payloads, stored.ledger[id] = None,
         stored.pending[id] = pay,
         s.pending[id] = [pay |-> pay, done |-> TRUE]
  PROVE  /\ Mirrors(session', stored', id) /\ Holds(id)
         /\ stored'.ledger[id] = pay
  <1>1. s.pending[id] # None
    BY EntryNotNone DEF Entry
  <1>2. /\ stored'.pending[id] = None
        /\ stored'.ledger[id] = pay
        /\ session'.pending[id] = None
    BY <1>1, PersistedFields DEF Undone
  <1>3. QED BY <1>2, Bounds DEF Mirrors, Undone, Holds, HeldPay

(* Once the session has ended, only nothing is stored.                     *)
LEMMA PersistEnded ==
  ASSUME NEW s, s.status = "ended", Persist(s)
  PROVE  stored' = Nothing /\ session' = s
  BY DEF Persist

(* The live session goes on: whatever it held before, it holds.            *)
KeepsWrites == session'.status # "ended" => Live /\ \A id \in Ids : Holds(id)

(* A live session is persisted; only the entries of X change.              *)
Untouched(s, X) == \A id \in Ids \ X :
  /\ s.pending[id] = session.pending[id]
  /\ forwards'[id] \in {None, forwards[id]}
  /\ id \in given' => id \in given
Touched(X) == \A id \in Ids \cap X :
  /\ Mirrors(session', stored', id)
  /\ forwards'[id] # None => /\ IdOf[forwards'[id].call] = id
                             /\ stored'.pending[id] = PayloadOf[forwards'[id].call]
  /\ id \in given' => stored'.ledger[id] # None

LEMMA RelayLive ==
  ASSUME RelayOk, Live, NEW s \in Session, s.status # "ended", Persist(s), UNCHANGED ending,
         forwards' \in [Ids -> Forward \cup {None}], given' \subseteq Ids,
         NEW X, Untouched(s, X), Touched(X)
  PROVE  /\ RelayOk' /\ session'.status = s.status /\ session'.cache = s.cache
         /\ \A id \in Ids \ X : Holds(id)
  <1>1. /\ stored' \in Storage /\ session' \in Session
        /\ stored'.status = s.status /\ session'.status = s.status
        /\ session'.cache = s.cache
    BY PersistedFields DEF RelayOk
  <1>2. ASSUME NEW id \in Ids \ X
        PROVE  /\ Mirrors(session', stored', id) /\ Holds(id)
               /\ stored'.pending[id] = stored.pending[id]
               /\ stored'.ledger[id] = stored.ledger[id]
    BY PersistedMirrors DEF RelayOk, Untouched
  <1>3. \A id \in Ids : Mirrors(session', stored', id)
    BY <1>2 DEF Touched
  <1>4. ASSUME NEW id \in Ids PROVE GoodForward(forwards[id], id)'
    <2>1. CASE id \in X
      BY <2>1 DEF GoodForward, Touched
    <2>2. CASE id \notin X
      BY <1>2, <2>2 DEF GoodForward, RelayOk, Untouched
    <2>3. QED BY <2>1, <2>2
  <1>5. ASSUME NEW id \in given' PROVE stored'.ledger[id] # None
    <2>1. CASE id \in X
      BY <2>1 DEF Touched
    <2>2. CASE id \notin X
      BY <1>2, <2>2 DEF RelayOk, Live, Untouched
    <2>3. QED BY <2>1, <2>2
  <1>6. ending' = "no" /\ Live'
    BY <1>1 DEF RelayOk, Live
  <1>7. QED BY <1>1, <1>2, <1>3, <1>4, <1>5, <1>6 DEF RelayOk, Live

(* An ended session stays ended; what is stored stays, or is deleted.      *)
LEMMA RelayEnded ==
  ASSUME RelayOk, session' \in Session, session'.status = "ended",
         \/ stored' = Nothing
         \/ UNCHANGED stored /\ (ending' = "over" => ending = "over"),
         ending' \in {"no", "clearing", "over"}, ending' # "no" \/ stored'.status = "ended",
         forwards' \in [Ids -> Forward \cup {None}],
         \A id \in Ids : forwards'[id] \in {None, forwards[id]},
         given' \subseteq Ids, stored'.status # "ended" => given' \subseteq given
  PROVE  RelayOk'
  <1>1. stored' \in Storage /\ (stored' = Nothing => stored'.status = "ended")
    BY NothingTyped DEF RelayOk
  <1>2. ASSUME NEW id \in Ids PROVE Mirrors(session', stored', id) /\ GoodForward(forwards[id], id)'
    <2>1. GoodForward(forwards[id], id)'
      BY DEF RelayOk, GoodForward, Live
    <2>2. stored'.pending[id] # None => stored'.ledger[id] = None
      BY NothingTyped DEF RelayOk, Mirrors
    <2>3. QED BY <2>1, <2>2 DEF Mirrors
  <1>3. stored'.status # "ended" => stored' = stored
    BY <1>1
  <1>4. stored'.status # "ended" => \A id \in given' : stored'.ledger[id] # None
    BY <1>3 DEF RelayOk
  <1>5. ending' = "over" => stored' = Nothing
    BY DEF RelayOk
  <1>6. stored'.status = "ended" => stored' = Nothing
    BY DEF RelayOk
  <1>7. QED BY <1>1, <1>2, <1>4, <1>5, <1>6 DEF RelayOk, Live

(* The forwards of F are given up; what they forwarded stays pending.      *)
LEMMA RejectGood ==
  ASSUME AgentInv, NEW F, F \subseteq Waiting, Reject(F), UNCHANGED <<arrived, ending, given, ran>>
  PROVE  ClientOk' /\ RelayOk' /\ TruthOk' /\ KeepsWrites
  <1>1. ClientOk /\ RelayOk /\ TruthOk
    BY DEF AgentInv
  <1>2. ClientOk' /\ \A c \in Calls : GoodOut(c)'
    BY <1>1, AnswerAllGood, UncertainGood DEF Reject
  <1>3. forwards' \in [Ids -> Forward \cup {None}]
        /\ \A id \in Ids : forwards'[id] \in {None, forwards[id]}
    BY <1>1 DEF Reject, RelayOk
  <1>4. session \in Session /\ Persist(session) /\ given \subseteq Ids
    BY <1>1 DEF RelayOk, Reject
  <1>5. RelayOk' /\ session'.cache = session.cache /\ KeepsWrites
    <2>a. ending' = ending /\ given' = given /\ given' \subseteq Ids
      BY <1>4
    <2>1. CASE Live
      <3>1. Untouched(session, {}) /\ Touched({})
        BY <1>3, <2>a DEF Untouched, Touched
      <3>2. session.status # "ended"
        BY <2>1 DEF Live
      <3>3. /\ RelayOk' /\ session'.cache = session.cache
            /\ \A id \in Ids \ {} : Holds(id)
        BY <1>1, <1>3, <1>4, <2>a, <2>1, <3>1, <3>2, RelayLive
      <3>4. QED BY <2>1, <3>3 DEF KeepsWrites
    <2>2. CASE ~Live
      <3>1. stored' = Nothing /\ session' = session /\ session'.status = "ended"
        BY <1>4, <2>2, PersistEnded DEF Live
      <3>2. ending' \in {"no", "clearing", "over"}
        BY <1>1, <2>a DEF RelayOk
      <3>3. RelayOk'
        BY <1>1, <1>3, <1>4, <2>a, <3>1, <3>2, RelayEnded, NothingTyped
      <3>4. QED BY <3>1, <3>3 DEF KeepsWrites
    <2>3. QED BY <2>1, <2>2
  <1>6. \A id \in Ids : GoodCache(id)'
    BY <1>1, <1>5 DEF TruthOk, GoodCache, RanPays
  <1>7. QED BY <1>2, <1>5, <1>6 DEF TruthOk

-------------------------------------------------------------------------------
(* The sockets and the page.                                               *)

LEMMA SocketTyped ==
  ASSUME WireOk, NEW s \in Sockets
  PROVE  /\ sock[s] \in Socket
         /\ sock[s].down \in Seq(Messages) /\ sock[s].up \in Seq(Answers)
         /\ \A m \in In(sock[s].down) : m \in Messages
         /\ \A m \in In(sock[s].up) : m \in Answers
         /\ \A m \in Requests(s) : m.id \in Ids /\ m.pay \in Payloads /\ m.pay # None
         /\ \A m \in Successes(s) : m.id \in Ids /\ m.result \in Outcomes
         /\ GoodSocket(s) /\ GoodTraffic(s)
  <1>1. sock[s] \in Socket /\ GoodSocket(s) /\ GoodTraffic(s)
    BY DEF WireOk
  <1>2. sock[s].down \in Seq(Messages) /\ sock[s].up \in Seq(Answers)
    BY <1>1 DEF Socket
  <1>3. In(sock[s].down) \subseteq Messages /\ In(sock[s].up) \subseteq Answers
    BY <1>2, InTyped
  <1>4. \A m \in Messages : m.kind = "request" => m.id \in Ids /\ m.pay \in Payloads
    BY DEF Messages
  <1>5. \A m \in Answers : m.id \in Ids /\ m.result \in Outcomes
    BY DEF Answers
  <1>6. QED BY <1>1, <1>2, <1>3, <1>4, <1>5, Bounds DEF Requests, Successes

LEMMA RanPaysTyped ==
  ASSUME PageOk, NEW id \in Ids
  PROVE  /\ ran[id] \in Seq(Runs) /\ In(ran[id]) \subseteq Runs
         /\ \A pay \in RanPays(id) : pay \in Payloads /\ pay # None
  <1>1. ran[id] \in Seq(Runs)
    BY DEF PageOk
  <1>2. In(ran[id]) \subseteq Runs
    BY <1>1, InTyped
  <1>3. QED BY <1>1, <1>2, Bounds DEF RanPays, Runs

(* No message is new, and what is known of those under way stays known.    *)
Settles(s) ==
  /\ Requests(s)' \subseteq Requests(s)
  /\ Successes(s)' \subseteq Successes(s)
  /\ sock'[s].relay = "open" => sock[s].relay = "open"
Knows(s) ==
  /\ page'.tab.sock \in {0, page.tab.sock}
  /\ \/ \A id \in Ids : page.tab.known[id] # None => page'.tab.known[id] # None
     \/ page'.tab.sock = 0 /\ Requests(s)' = {}

LEMMA RequestKept ==
  ASSUME WireOk, NEW s \in Sockets, NEW m \in Requests(s), m \in Requests(s)', Knows(s),
         sock'[s].relay = "open" => sock[s].relay = "open" /\ KeepsWrites,
         m.id \in given' => m.id \in given \/ page'.tab.known[m.id] # None
  PROVE  GoodRequest(s, m)'
  <1>1. GoodRequest(s, m) /\ m.id \in Ids /\ m.pay # None
    BY SocketTyped DEF GoodTraffic
  <1>2. m.id \in given' => page'.tab.known[m.id] # None
    BY <1>1 DEF GoodRequest, Knows
  <1>3. Live' /\ sock'[s].relay = "open" => HeldPay(stored', m.id) = m.pay
    BY <1>1 DEF GoodRequest, KeepsWrites, Holds, Live
  <1>4. QED BY <1>2, <1>3 DEF GoodRequest

LEMMA SuccessKept ==
  ASSUME WireOk, PageOk, NEW s \in Sockets, NEW m \in Successes(s), Knows(s),
         sock'[s].relay = "open" => sock[s].relay = "open" /\ KeepsWrites,
         RanPays(m.id) \subseteq RanPays(m.id)'
  PROVE  GoodSuccess(s, m)'
  <1>1. GoodSuccess(s, m) /\ m.id \in Ids /\ s # 0
    BY SocketTyped DEF GoodTraffic, Sockets
  <1>2. m.result.pay # None /\ m.result.pay \in RanPays(m.id)'
    BY <1>1, RanPaysTyped DEF GoodSuccess
  <1>3. page'.tab.sock = s => page'.tab.known[m.id] # None
    BY <1>1 DEF GoodSuccess, Knows
  <1>4. Live' /\ sock'[s].relay = "open" => HeldPay(stored', m.id) = m.result.pay
    BY <1>1, <1>2 DEF GoodSuccess, KeepsWrites, Holds, Live
  <1>5. QED BY <1>2, <1>3, <1>4 DEF GoodSuccess

LEMMA TrafficKept ==
  ASSUME WireOk, PageOk, NEW s \in Sockets, Settles(s), Knows(s),
         KeepsWrites \/ sock'[s].relay # "open",
         \A m \in Requests(s)' : m.id \in given' => m.id \in given \/ page'.tab.known[m.id] # None,
         \A id \in Ids : RanPays(id) \subseteq RanPays(id)'
  PROVE  GoodTraffic(s)'
  <1>1. \A m \in Requests(s)' : GoodRequest(s, m)'
    BY RequestKept DEF Settles
  <1>2. ASSUME NEW m \in Successes(s)' PROVE GoodSuccess(s, m)'
    <2>1. m \in Successes(s) /\ m.id \in Ids
      BY SocketTyped DEF Settles
    <2>2. QED BY <2>1, SuccessKept DEF Settles
  <1>3. QED BY <1>1, <1>2 DEF GoodTraffic

(* A step that leaves the sockets, the page and the answers as they are.   *)
LEMMA WireUnchanged ==
  ASSUME WireOk, PageOk, UNCHANGED <<sock, page, ran, given>>, KeepsWrites
  PROVE  WireOk' /\ PageOk'
  <1>1. ASSUME NEW s \in Sockets PROVE GoodSocket(s)' /\ GoodTraffic(s)'
    <2>1. Settles(s) /\ Knows(s)
      BY DEF Settles, Knows, Requests, Successes
    <2>2. \A id \in Ids : RanPays(id) \subseteq RanPays(id)'
      BY DEF RanPays
    <2>3. GoodTraffic(s)'
      BY <2>1, <2>2, TrafficKept
    <2>4. GoodSocket(s)'
      BY DEF GoodSocket, WireOk
    <2>5. QED BY <2>3, <2>4
  <1>2. PageOk'
    BY DEF PageOk, RanPays
  <1>3. QED BY <1>1, <1>2 DEF WireOk

LEMMA RelayUnchanged ==
  ASSUME RelayOk, UNCHANGED <<session, forwards, stored, ending, given>>
  PROVE  RelayOk' /\ KeepsWrites
  <1>1. RelayOk'
    BY DEF RelayOk, GoodForward, Live
  <1>2. KeepsWrites
    BY DEF KeepsWrites, Holds, Live
  <1>3. QED BY <1>1, <1>2

LEMMA TruthUnchanged ==
  ASSUME TruthOk, UNCHANGED <<call, session>>, \A id \in Ids : RanPays(id) \subseteq RanPays(id)'
  PROVE  TruthOk'
  BY Bounds DEF TruthOk, GoodCache, GoodOut

-------------------------------------------------------------------------------
(* The client's actions.                                                   *)

LEMMA ClientStep ==
  ASSUME AgentInv, NEW c \in Calls, NEW j, GoodCall(j), j.out = call[c].out \/ j.out.code # "OK",
         call' = [call EXCEPT ![c] = j],
         arrived' = arrived \/ \E n \in Attempts : Attempt(c, n),
         UNCHANGED <<session, forwards, stored, ending, sock, page, history, upsets>>
  PROVE  AgentInv'
  <1>1. UNCHANGED <<ran, given>>
    BY DEF history
  <1>2. ClientOk' /\ \A d \in Calls : GoodOut(d)'
    BY <1>1, AttemptGood DEF AgentInv
  <1>3. RelayOk' /\ KeepsWrites
    BY <1>1, RelayUnchanged DEF AgentInv
  <1>4. WireOk' /\ PageOk'
    BY <1>1, <1>3, WireUnchanged DEF AgentInv
  <1>5. \A id \in Ids : GoodCache(id)'
    BY <1>1 DEF AgentInv, TruthOk, GoodCache, RanPays
  <1>6. QED BY <1>2, <1>3, <1>4, <1>5 DEF AgentInv, TruthOk

LEMMA SendStep == ASSUME AgentInv, NEW c \in Calls, Send(c) PROVE AgentInv'
  <1> DEFINE j == [call[c] EXCEPT !.pc = "waiting", !.n = 1]
  <1>1. GoodCall(call[c]) /\ call[c] \in CallState /\ call[c].pc = "new"
    BY DEF AgentInv, ClientOk, Send, GoodCall
  <1>2. 1 \in Attempts
    BY Bounds DEF Attempts
  <1>a. 1 \in 0 .. 1 + NetworkRetries + OfflineRetries
    BY Bounds
  <1>b. j \in CallState
    BY <1>1, <1>a DEF CallState
  <1>c. /\ j.pc = "waiting" /\ j.n = 1 /\ j.net = call[c].net /\ j.off = call[c].off
        /\ j.out = call[c].out
    BY <1>1 DEF CallState
  <1>3. j \in CallState /\ j.pc = "waiting" /\ j.n = 1 /\ j.net = 0 /\ j.off = 0 /\ j.out = call[c].out
    BY <1>1, <1>b, <1>c DEF GoodCall
  <1>4. call' = [call EXCEPT ![c] = j] /\ Attempt(c, 1)
    BY DEF Send
  <1> HIDE DEF j
  <1>5. GoodCall(j)
    BY <1>3 DEF GoodCall
  <1>6. QED BY <1>2, <1>3, <1>4, <1>5, ClientStep DEF Send

LEMMA LoseStep == ASSUME AgentInv, NEW c \in Calls, Lose(c) PROVE AgentInv'
  <1> DEFINE j == [call[c] EXCEPT !.n = @ + 1, !.net = @ + 1]
  <1>1. GoodCall(call[c]) /\ call[c] \in CallState /\ call[c].pc = "waiting"
    BY DEF AgentInv, ClientOk, Lose, GoodCall
  <1>2. CASE c \in Retrying /\ call[c].net < NetworkRetries
    <2>1. call[c].n + 1 \in Attempts
      BY <1>1, <1>2, Bounds DEF GoodCall, CallState, Attempts
    <2>a. /\ call[c].n + 1 \in 0 .. 1 + NetworkRetries + OfflineRetries
          /\ call[c].net + 1 \in 0 .. NetworkRetries
      BY <1>1, <1>2, <2>1, Bounds DEF CallState, Attempts
    <2>b. j \in CallState
      BY <1>1, <2>a DEF CallState
    <2>2. /\ j.pc = "waiting" /\ j.n = call[c].n + 1
          /\ j.net = call[c].net + 1 /\ j.off = call[c].off /\ j.out = call[c].out
      BY <1>1 DEF CallState
    <2>3. call' = [call EXCEPT ![c] = j] /\ Attempt(c, call[c].n + 1)
      BY <1>2 DEF Lose
    <2> HIDE DEF j
    <2>4. GoodCall(j)
      BY <1>1, <2>b, <2>2 DEF GoodCall, CallState
    <2>5. QED BY <2>1, <2>2, <2>3, <2>4, ClientStep DEF Lose
  <1>3. CASE ~(c \in Retrying /\ call[c].net < NetworkRetries)
    <2>1. call' = [call EXCEPT ![c] = Over(Uncertain)] /\ arrived' = arrived
      BY <1>3 DEF Lose
    <2>2. GoodCall(Over(Uncertain)) /\ Over(Uncertain).out.code # "OK"
      BY OverGood, UncertainGood
    <2>3. QED BY <2>1, <2>2, ClientStep DEF Lose
  <1>4. QED BY <1>2, <1>3

LEMMA WakeStep == ASSUME AgentInv, NEW c \in Calls, Wake(c) PROVE AgentInv'
  <1> DEFINE j == [call[c] EXCEPT !.pc = "waiting", !.n = @ + 1, !.off = @ + 1]
  <1>1. GoodCall(call[c]) /\ call[c] \in CallState /\ call[c].pc = "sleeping"
    BY DEF AgentInv, ClientOk, Wake, GoodCall
  <1>2. call[c].n + 1 \in Attempts
    BY <1>1, Bounds DEF GoodCall, CallState, Attempts
  <1>a. /\ call[c].n + 1 \in 0 .. 1 + NetworkRetries + OfflineRetries
        /\ call[c].off + 1 \in 0 .. OfflineRetries
    BY <1>1, <1>2, Bounds DEF GoodCall, CallState, Attempts
  <1>b. j \in CallState
    BY <1>1, <1>a DEF CallState
  <1>3. /\ j.pc = "waiting" /\ j.n = call[c].n + 1
        /\ j.net = call[c].net /\ j.off = call[c].off + 1 /\ j.out = call[c].out
    BY <1>1 DEF CallState
  <1>4. call' = [call EXCEPT ![c] = j] /\ Attempt(c, call[c].n + 1)
    BY DEF Wake
  <1> HIDE DEF j
  <1>5. GoodCall(j)
    BY <1>1, <1>b, <1>3 DEF GoodCall, CallState
  <1>6. QED BY <1>2, <1>3, <1>4, <1>5, ClientStep DEF Wake

-------------------------------------------------------------------------------
(* Sockets that are left or cut.                                           *)

LEMMA LeftGood ==
  ASSUME NEW k \in Socket
  PROVE  /\ Left(k) \in Socket /\ Left(k).relay = k.relay /\ Left(k).up = k.up
         /\ Left(k).page = FALSE /\ Left(k).down = <<>>
  <1>1. <<>> \in Seq(Messages)
    OBVIOUS
  <1>2. Left(k) \in Socket
    BY <1>1 DEF Left, Socket
  <1>3. Left(k).relay = k.relay /\ Left(k).up = k.up /\ Left(k).page = FALSE /\ Left(k).down = <<>>
    BY DEF Left, Socket
  <1>4. QED BY <1>2, <1>3

LEMMA CutGood ==
  ASSUME NEW k \in Socket, NEW relay \in {"closing", "closed"}
  PROVE  /\ Cut(k, relay) \in Socket /\ Cut(k, relay).relay = relay /\ Cut(k, relay).up = <<>>
         /\ Cut(k, relay).page = k.page /\ Cut(k, relay).down = k.down
  <1>1. <<>> \in Seq(Answers)
    OBVIOUS
  <1>2. Cut(k, relay) \in Socket
    BY <1>1 DEF Cut, Socket
  <1>3. /\ Cut(k, relay).relay = relay /\ Cut(k, relay).up = <<>>
        /\ Cut(k, relay).page = k.page /\ Cut(k, relay).down = k.down
    BY DEF Cut, Socket
  <1>4. QED BY <1>2, <1>3

LEMMA NoTraffic ==
  ASSUME NEW s
  PROVE  /\ sock[s].down = <<>> => Requests(s) = {}
         /\ sock[s].up = <<>> => Successes(s) = {}
  BY InEmpty DEF Requests, Successes

(* One side of the socket leaves it.                                       *)
LEMMA QuietSettles ==
  ASSUME WireOk, NEW s \in Sockets,
         \/ sock'[s] = sock[s]
         \/ sock'[s] = Left(sock[s])
         \/ \E relay \in {"closing", "closed"} : sock'[s] = Cut(sock[s], relay)
  PROVE  /\ Settles(s) /\ sock'[s] \in Socket
         /\ sock'[s].relay \in {sock[s].relay, "closing", "closed"}
         /\ sock'[s].down \in {sock[s].down, <<>>} /\ sock'[s].up \in {sock[s].up, <<>>}
  <1>1. sock[s] \in Socket
    BY DEF WireOk
  <1>2. CASE sock'[s] = sock[s]
    BY <1>1, <1>2 DEF Settles, Requests, Successes
  <1>3. CASE sock'[s] = Left(sock[s])
    <2>1. /\ sock'[s] \in Socket /\ sock'[s].relay = sock[s].relay
          /\ sock'[s].down = <<>> /\ sock'[s].up = sock[s].up
      BY <1>1, <1>3, LeftGood
    <2>2. Requests(s)' = {} /\ Successes(s)' = Successes(s)
      BY <2>1, InEmpty DEF Requests, Successes
    <2>3. QED BY <2>1, <2>2 DEF Settles
  <1>4. ASSUME NEW relay \in {"closing", "closed"}, sock'[s] = Cut(sock[s], relay)
        PROVE  /\ Settles(s) /\ sock'[s] \in Socket
               /\ sock'[s].relay \in {sock[s].relay, "closing", "closed"}
               /\ sock'[s].down \in {sock[s].down, <<>>} /\ sock'[s].up \in {sock[s].up, <<>>}
    <2>1. /\ sock'[s] \in Socket /\ sock'[s].relay = relay
          /\ sock'[s].down = sock[s].down /\ sock'[s].up = <<>>
      BY <1>1, <1>4, CutGood
    <2>2. Requests(s)' = Requests(s) /\ Successes(s)' = {}
      BY <2>1, InEmpty DEF Requests, Successes
    <2>3. QED BY <2>1, <2>2 DEF Settles
  <1>5. QED BY <1>2, <1>3, <1>4

LEMMA WireSettles ==
  ASSUME WireOk, PageOk, sock' \in [Sockets -> Socket], UNCHANGED <<given, ran>>,
         \A s \in Sockets : Settles(s) /\ Knows(s) /\ GoodSocket(s)',
         KeepsWrites \/ \A s \in Sockets : sock'[s].relay # "open"
  PROVE  WireOk'
  <1>1. ASSUME NEW s \in Sockets PROVE GoodTraffic(s)'
    <2>1. \A id \in Ids : RanPays(id) \subseteq RanPays(id)'
      BY DEF RanPays
    <2>2. \A m \in Requests(s)' : m.id \in given' => m.id \in given
      OBVIOUS
    <2>3. QED BY <2>1, <2>2, TrafficKept
  <1>2. QED BY <1>1 DEF WireOk

(* The page leaves its socket, or closes and is loaded anew.               *)
LEMMA LeaveGood ==
  ASSUME AgentInv, page' \in [no : 1 .. MaxPages, tab : Tables], page'.tab.sock = 0,
         \/ page'.no = page.no /\ page'.tab.known = page.tab.known
         \/ page'.no = page.no + 1 /\ \A id \in Ids : page'.tab.known[id] = None,
         sock' \in [Sockets -> Socket],
         \A t \in Sockets : sock'[t] = IF t = page.tab.sock THEN Left(sock[t]) ELSE sock[t],
         UNCHANGED <<call, arrived, session, forwards, stored, ending, ran, given, upsets>>
  PROVE  AgentInv'
  <1>1. RelayOk' /\ KeepsWrites
    BY RelayUnchanged DEF AgentInv
  <1>2. ClientOk'
    BY DEF AgentInv, ClientOk
  <1>3. \A id \in Ids : RanPays(id) = RanPays(id)'
    BY DEF RanPays
  <1>4. TruthOk'
    BY <1>3, TruthUnchanged DEF AgentInv
  <1>5. PageOk'
    <2>1. PageOk /\ page.no \in 1 .. MaxPages
      BY DEF AgentInv, PageOk
    <2>2. \A id \in Ids : \A r \in In(ran[id]) : r.page \in 1 .. MaxPages
      BY <2>1, RanPaysTyped DEF Runs
    <2>3. ASSUME NEW id \in Ids
          PROVE  /\ \A r \in In(ran'[id]) : /\ r.page <= page'.no
                                            /\ r.page = page'.no => page'.tab.known[id] # None
                 /\ page'.tab.known[id] # None => page'.tab.known[id] \in RanPays(id)'
      <3>1. /\ ran'[id] = ran[id] /\ RanPays(id)' = RanPays(id)
            /\ \A r \in In(ran[id]) : /\ r.page <= page.no /\ r.page \in Nat
                                      /\ r.page = page.no => page.tab.known[id] # None
            /\ page.tab.known[id] # None => page.tab.known[id] \in RanPays(id)
        <4>1. ran'[id] = ran[id] /\ RanPays(id)' = RanPays(id)
          BY <1>3, <2>3
        <4>2. \A r \in In(ran[id]) : r.page \in Nat
          BY <2>2, <2>3
        <4>3. /\ \A r \in In(ran[id]) : /\ r.page <= page.no
                                        /\ r.page = page.no => page.tab.known[id] # None
              /\ page.tab.known[id] # None => page.tab.known[id] \in RanPays(id)
          BY <2>1, <2>3 DEF PageOk
        <4>4. QED BY <4>1, <4>2, <4>3
      <3>2. CASE page'.no = page.no /\ page'.tab.known = page.tab.known
        BY <3>1, <3>2
      <3>3. CASE page'.no = page.no + 1 /\ \A i \in Ids : page'.tab.known[i] = None
        <4>1. page.no \in Nat /\ page'.tab.known[id] = None
          BY <2>1, <2>3, <3>3
        <4>2. \A r \in In(ran[id]) : r.page <= page'.no /\ r.page # page'.no
          BY <3>1, <3>3, <4>1
        <4>3. QED BY <3>1, <4>1, <4>2
      <3>4. QED BY <3>2, <3>3
    <2>4. ran' \in [Ids -> Seq(Runs)]
      BY <2>1 DEF PageOk
    <2>5. QED BY <2>3, <2>4 DEF PageOk
  <1>6. ASSUME NEW s \in Sockets PROVE Settles(s) /\ Knows(s) /\ GoodSocket(s)'
    <2>1. WireOk /\ GoodSocket(s) /\ sock[s] \in Socket /\ s # 0
      BY SocketTyped DEF AgentInv, Sockets
    <2>2. Settles(s)
      BY <2>1, QuietSettles
    <2>3. CASE s = page.tab.sock
      <3>1. sock'[s].page = FALSE /\ sock'[s].down = <<>> /\ sock'[s].up = sock[s].up
            /\ sock'[s].relay = sock[s].relay
        BY <2>1, <2>3, LeftGood, ZenonT(30)
      <3>2. Requests(s)' = {}
        BY <3>1, InEmpty DEF Requests
      <3>3. Knows(s)
        BY <3>2 DEF Knows
      <3>4. GoodSocket(s)'
        BY <2>1, <3>1 DEF GoodSocket
      <3>5. QED BY <2>2, <3>3, <3>4
    <2>4. CASE s # page.tab.sock
      <3>1. sock'[s] = sock[s] /\ sock[s].page = FALSE /\ sock[s].down = <<>>
        BY <2>1, <2>4 DEF GoodSocket, Socket
      <3>2. Requests(s)' = {}
        BY <3>1, InEmpty DEF Requests
      <3>3. Knows(s)
        BY <3>2 DEF Knows
      <3>4. GoodSocket(s)'
        BY <2>1, <3>1 DEF GoodSocket
      <3>5. QED BY <2>2, <3>3, <3>4
    <2>5. QED BY <2>3, <2>4
  <1>7. WireOk'
    BY <1>1, <1>6, WireSettles DEF AgentInv
  <1>8. QED BY <1>1, <1>2, <1>4, <1>5, <1>7 DEF AgentInv

LEMMA DropStep == ASSUME AgentInv, NEW s \in Sockets, Drop(s) PROVE AgentInv'
  <1>1. page \in [no : 1 .. MaxPages, tab : Tables] /\ sock \in [Sockets -> Socket]
    BY DEF AgentInv, PageOk, WireOk
  <1>2. page.tab.sock = s /\ page' = [page EXCEPT !.tab.sock = 0]
        /\ sock' = [sock EXCEPT ![s] = Left(@)]
        /\ UNCHANGED <<call, arrived, session, forwards, stored, ending, ran, given, upsets>>
    BY DEF Drop, relayVars, history
  <1>3. page' \in [no : 1 .. MaxPages, tab : Tables]
    BY <1>1, <1>2, Bounds DEF Tables
  <1>4. page'.tab.sock = 0 /\ page'.no = page.no /\ page'.tab.known = page.tab.known
    BY <1>1, <1>2 DEF Tables
  <1>5. sock' \in [Sockets -> Socket]
        /\ \A t \in Sockets : sock'[t] = IF t = page.tab.sock THEN Left(sock[t]) ELSE sock[t]
    BY <1>1, <1>2, LeftGood
  <1>6. QED BY <1>2, <1>3, <1>4, <1>5, LeaveGood

LEMMA HearEndStep == ASSUME AgentInv, NEW s \in Sockets, HearEnd(s) PROVE AgentInv'
  <1>1. page \in [no : 1 .. MaxPages, tab : Tables] /\ sock \in [Sockets -> Socket]
    BY DEF AgentInv, PageOk, WireOk
  <1> DEFINE tab == [page.tab EXCEPT !.sock = 0, !.stopped = TRUE]
  <1>2. page.tab.sock = s /\ page' = [page EXCEPT !.tab = tab]
        /\ sock' = [sock EXCEPT ![s] = Left(@)]
        /\ UNCHANGED <<call, arrived, session, forwards, stored, ending, ran, given, upsets>>
    BY DEF HearEnd, relayVars, history
  <1>a. 0 \in 0 .. MaxSockets /\ page.tab \in Tables
    BY <1>1, Bounds
  <1>3. tab \in Tables
    BY <1>a DEF Tables
  <1>4. tab.sock = 0 /\ tab.known = page.tab.known
    BY <1>1 DEF Tables
  <1> HIDE DEF tab
  <1>5. page' \in [no : 1 .. MaxPages, tab : Tables] /\ page'.no = page.no /\ page'.tab = tab
    BY <1>1, <1>2, <1>3
  <1>6. sock' \in [Sockets -> Socket]
        /\ \A t \in Sockets : sock'[t] = IF t = page.tab.sock THEN Left(sock[t]) ELSE sock[t]
    BY <1>1, <1>2, LeftGood
  <1>7. QED BY <1>2, <1>4, <1>5, <1>6, LeaveGood

LEMMA ReloadStep == ASSUME AgentInv, Reload PROVE AgentInv'
  <1>1. page \in [no : 1 .. MaxPages, tab : Tables] /\ sock \in [Sockets -> Socket]
    BY DEF AgentInv, PageOk, WireOk
  <1>2. /\ page.no < MaxPages /\ page' = [no |-> page.no + 1, tab |-> Fresh]
        /\ sock' = [s \in Sockets |-> IF s = page.tab.sock THEN Left(sock[s]) ELSE sock[s]]
        /\ UNCHANGED <<call, arrived, session, forwards, stored, ending, ran, given, upsets>>
    BY DEF Reload, relayVars, history
  <1>3. Fresh \in Tables /\ Fresh.sock = 0 /\ \A id \in Ids : Fresh.known[id] = None
    BY Bounds DEF Fresh, Tables
  <1>4. page' \in [no : 1 .. MaxPages, tab : Tables] /\ page'.no = page.no + 1 /\ page'.tab = Fresh
    BY <1>1, <1>2, <1>3, Bounds
  <1>5. sock' \in [Sockets -> Socket]
        /\ \A t \in Sockets : sock'[t] = IF t = page.tab.sock THEN Left(sock[t]) ELSE sock[t]
    BY <1>1, <1>2, LeftGood
  <1>6. QED BY <1>2, <1>3, <1>4, <1>5, LeaveGood

LEMMA ShedStep == ASSUME AgentInv, NEW id \in Ids, Shed(id) PROVE AgentInv'
  <1>1. page \in [no : 1 .. MaxPages, tab : Tables] /\ page.tab.cached \ {id} \in SUBSET Ids
    BY DEF AgentInv, PageOk, Tables
  <1>2. page' = [page EXCEPT !.tab.cached = page.tab.cached \ {id}]
        /\ UNCHANGED <<call, arrived, session, forwards, stored, ending, sock, ran, given, upsets>>
    BY DEF Shed, relayVars, history
  <1>3. page' \in [no : 1 .. MaxPages, tab : Tables]
    BY <1>1, <1>2 DEF Tables
  <1>4. page'.no = page.no /\ page'.tab.sock = page.tab.sock /\ page'.tab.known = page.tab.known
    BY <1>1, <1>2 DEF Tables
  <1>5. RelayOk' /\ KeepsWrites
    BY <1>2, RelayUnchanged DEF AgentInv
  <1>6. ClientOk' /\ \A i \in Ids : RanPays(i) = RanPays(i)'
    BY <1>2 DEF AgentInv, ClientOk, RanPays
  <1>7. TruthOk'
    BY <1>2, <1>6, TruthUnchanged DEF AgentInv
  <1>8. PageOk'
    BY <1>2, <1>3, <1>4, <1>6 DEF AgentInv, PageOk
  <1>9. ASSUME NEW s \in Sockets PROVE Settles(s) /\ Knows(s) /\ GoodSocket(s)'
    BY <1>2, <1>4 DEF Settles, Knows, GoodSocket, Requests, Successes, AgentInv, WireOk
  <1>10. WireOk'
    BY <1>2, <1>5, <1>9, WireSettles DEF AgentInv, WireOk
  <1>11. QED BY <1>2, <1>5, <1>6, <1>7, <1>8, <1>10 DEF AgentInv

-------------------------------------------------------------------------------
(* Timeouts, evictions, pauses and the end of the session.                 *)

LEMMA TimeoutStep == ASSUME AgentInv, NEW id \in Ids, Timeout(id) PROVE AgentInv'
  <1>1. {id} \subseteq Waiting /\ Reject({id})
        /\ UNCHANGED <<arrived, ending, sock, page, ran, given, upsets>>
    BY DEF Timeout, Active, Waiting, history
  <1>2. ClientOk' /\ RelayOk' /\ TruthOk' /\ KeepsWrites
    BY <1>1, RejectGood
  <1>3. WireOk' /\ PageOk'
    BY <1>1, <1>2, WireUnchanged DEF AgentInv
  <1>4. QED BY <1>1, <1>2, <1>3 DEF AgentInv

LEMMA EvictStep == ASSUME AgentInv, NEW id \in Ids, Evict(id) PROVE AgentInv'
  <1>1. session' = [session EXCEPT !.cache[id] = None] /\ session \in Session
        /\ UNCHANGED <<call, arrived, forwards, stored, ending, sock, page, ran, given, upsets>>
    BY DEF Evict, history, AgentInv, RelayOk
  <1>2. session' \in Session
    BY <1>1 DEF Session
  <1>3. /\ session'.status = session.status /\ session'.pending = session.pending
        /\ \A i \in Ids : session'.cache[i] \in {None, session.cache[i]}
    BY <1>1 DEF Session
  <1>4. RelayOk'
    BY <1>1, <1>2, <1>3 DEF AgentInv, RelayOk, GoodForward, Live, Mirrors, Undone
  <1>5. KeepsWrites
    BY <1>1, <1>3 DEF KeepsWrites, Holds, Live
  <1>6. WireOk' /\ PageOk'
    BY <1>1, <1>5, WireUnchanged DEF AgentInv
  <1>7. ClientOk' /\ TruthOk'
    BY <1>1, <1>3 DEF AgentInv, ClientOk, TruthOk, GoodCache, GoodOut, RanPays
  <1>8. QED BY <1>1, <1>4, <1>6, <1>7 DEF AgentInv

(* A pause or its end.                                                     *)
LEMMA SwitchGood ==
  ASSUME AgentInv, Live, NEW status \in {"active", "paused"},
         Persist([session EXCEPT !.status = status]), upsets' \in 0 .. MaxUpsets,
         UNCHANGED <<call, arrived, forwards, ending, sock, page, ran, given>>
  PROVE  AgentInv'
  <1> DEFINE s == [session EXCEPT !.status = status]
  <1>1. session \in Session /\ RelayOk
    BY DEF AgentInv, RelayOk
  <1>2. /\ s \in Session /\ s.status = status /\ s.pending = session.pending
        /\ s.cache = session.cache /\ Persist(s)
    BY <1>1 DEF Session
  <1> HIDE DEF s
  <1>3. Untouched(s, {}) /\ Touched({})
    BY <1>2 DEF Untouched, Touched
  <1>4. /\ forwards' \in [Ids -> Forward \cup {None}] /\ given' \subseteq Ids
        /\ s.status # "ended" /\ ending' = ending
    BY <1>1, <1>2 DEF RelayOk
  <1>5. /\ RelayOk' /\ session'.cache = s.cache
        /\ \A id \in Ids \ {} : Holds(id)
    BY <1>1, <1>2, <1>3, <1>4, RelayLive
  <1>6. KeepsWrites
    BY <1>5 DEF KeepsWrites
  <1>7. WireOk' /\ PageOk'
    BY <1>6, WireUnchanged DEF AgentInv
  <1>8. ClientOk' /\ TruthOk'
    BY <1>2, <1>5 DEF AgentInv, ClientOk, TruthOk, GoodCache, GoodOut, RanPays
  <1>9. QED BY <1>5, <1>7, <1>8 DEF AgentInv

LEMMA PauseStep == ASSUME AgentInv, Pause PROVE AgentInv'
  <1>1. Live /\ upsets' \in 0 .. MaxUpsets
    BY Bounds DEF AgentInv, Pause, Live
  <1>2. Persist([session EXCEPT !.status = "paused"])
        /\ UNCHANGED <<call, arrived, forwards, ending, sock, page, ran, given>>
    BY DEF Pause, history
  <1>3. QED BY <1>1, <1>2, SwitchGood

LEMMA ResumeStep == ASSUME AgentInv, Resume PROVE AgentInv'
  <1>1. Live /\ upsets' \in 0 .. MaxUpsets
    BY DEF AgentInv, Resume, Live
  <1>2. Persist([session EXCEPT !.status = "active"])
        /\ UNCHANGED <<call, arrived, forwards, ending, sock, page, ran, given>>
    BY DEF Resume, history
  <1>3. QED BY <1>1, <1>2, SwitchGood

LEMMA ClearStep == ASSUME AgentInv, Clear PROVE AgentInv'
  <1>1. /\ ending = "clearing" /\ stored' = Nothing /\ ending' = "over"
        /\ UNCHANGED <<call, arrived, session, forwards, sock, page, ran, given, upsets>>
    BY DEF Clear, history
  <1>2. RelayOk /\ ~Live
    BY <1>1 DEF AgentInv, RelayOk
  <1>3. session' \in Session /\ session'.status = "ended" /\ forwards' \in [Ids -> Forward \cup {None}]
        /\ given' \subseteq Ids
    BY <1>1, <1>2 DEF RelayOk, Live
  <1>4. RelayOk'
    BY <1>1, <1>2, <1>3, RelayEnded, NothingTyped
  <1>5. KeepsWrites
    BY <1>3 DEF KeepsWrites
  <1>6. WireOk' /\ PageOk'
    BY <1>1, <1>5, WireUnchanged DEF AgentInv
  <1>7. ClientOk' /\ TruthOk'
    BY <1>1 DEF AgentInv, ClientOk, TruthOk, GoodCache, GoodOut, RanPays
  <1>8. QED BY <1>1, <1>4, <1>6, <1>7 DEF AgentInv

LEMMA ClosedStep == ASSUME AgentInv, NEW s \in Sockets, Closed(s) PROVE AgentInv'
  <1> DEFINE F == {id \in Waiting : forwards[id].sock = s}
  <1>1. /\ F \subseteq Waiting /\ Reject(F)
        /\ sock' = [sock EXCEPT ![s] = Cut(@, "closed")]
        /\ UNCHANGED <<arrived, ending, page, ran, given, upsets>>
    BY DEF Closed, history
  <1> HIDE DEF F
  <1>2. ClientOk' /\ RelayOk' /\ TruthOk' /\ KeepsWrites
    BY <1>1, RejectGood
  <1>3. PageOk'
    BY <1>1 DEF AgentInv, PageOk, RanPays
  <1>4. sock \in [Sockets -> Socket] /\ WireOk /\ PageOk
    BY DEF AgentInv, WireOk
  <1>5. Cut(sock[s], "closed") \in Socket
    BY <1>4, CutGood
  <1>6. sock' \in [Sockets -> Socket] /\ sock'[s] = Cut(sock[s], "closed")
        /\ \A t \in Sockets \ {s} : sock'[t] = sock[t]
    BY <1>1, <1>4, <1>5
  <1>7. ASSUME NEW t \in Sockets PROVE Settles(t) /\ Knows(t) /\ GoodSocket(t)'
    <2>1. Settles(t)
      BY <1>4, <1>6, QuietSettles
    <2>2. Knows(t)
      BY <1>1 DEF Knows
    <2>3. GoodSocket(t) /\ sock[t] \in Socket
      BY <1>4, SocketTyped
    <2>4. CASE t = s
      <3>1. /\ sock'[t].relay = "closed" /\ sock'[t].up = <<>>
            /\ sock'[t].page = sock[t].page /\ sock'[t].down = sock[t].down
        BY <1>6, <2>3, <2>4, CutGood
      <3>2. QED BY <1>1, <2>1, <2>2, <2>3, <3>1 DEF GoodSocket
    <2>5. CASE t # s
      BY <1>1, <1>6, <2>1, <2>2, <2>3, <2>5 DEF GoodSocket
    <2>6. QED BY <2>4, <2>5
  <1>8. WireOk'
    BY <1>1, <1>2, <1>4, <1>6, <1>7, WireSettles
  <1>9. QED BY <1>1, <1>2, <1>3, <1>8 DEF AgentInv

-------------------------------------------------------------------------------
(* Messages to the page.                                                   *)

LEMMA TellGood ==
  ASSUME WireOk, NEW s \in Sockets, NEW m \in Messages
  PROVE  /\ Tell(s, m) \in [Sockets -> Socket]
         /\ Tell(s, m)[s].relay = sock[s].relay /\ Tell(s, m)[s].page = sock[s].page
         /\ Tell(s, m)[s].up = sock[s].up
         /\ In(Tell(s, m)[s].down) \subseteq In(sock[s].down) \cup {m}
         /\ ~sock[s].page => Tell(s, m)[s].down = sock[s].down
         /\ \A t \in Sockets \ {s} : Tell(s, m)[t] = sock[t]
  <1>1. sock[s] \in Socket /\ sock \in [Sockets -> Socket] /\ sock[s].down \in Seq(Messages)
    BY SocketTyped DEF WireOk
  <1> DEFINE down == IF sock[s].page THEN Append(sock[s].down, m) ELSE sock[s].down
  <1>2. /\ down \in Seq(Messages) /\ In(down) \subseteq In(sock[s].down) \cup {m}
        /\ ~sock[s].page => down = sock[s].down
    BY <1>1, InAppended
  <1>3. Tell(s, m) = [sock EXCEPT ![s].down = down]
    BY DEF Tell
  <1> HIDE DEF down
  <1> DEFINE k == [sock[s] EXCEPT !.down = down]
  <1>4. k \in Socket /\ k.relay = sock[s].relay /\ k.page = sock[s].page /\ k.up = sock[s].up
        /\ k.down = down
    BY <1>1, <1>2 DEF Socket
  <1>5. Tell(s, m) = [sock EXCEPT ![s] = k]
    BY <1>1, <1>3
  <1> HIDE DEF k
  <1>6. /\ Tell(s, m) \in [Sockets -> Socket] /\ Tell(s, m)[s] = k
        /\ \A t \in Sockets \ {s} : Tell(s, m)[t] = sock[t]
    BY <1>1, <1>4, <1>5
  <1>7. QED BY <1>2, <1>4, <1>6

LEMMA DisconnectStep == ASSUME AgentInv, Disconnect PROVE AgentInv'
  <1> DEFINE m == [kind |-> "revoked"]
  <1>1. /\ Live /\ session' = [session EXCEPT !.status = "ended"] /\ ending' = "clearing"
        /\ sock' = [s \in Sockets |-> IF s \in Open THEN Tell(s, m)[s] ELSE sock[s]]
        /\ UNCHANGED <<call, arrived, forwards, stored, page, ran, given, upsets>>
    BY DEF Disconnect, history, Live
  <1>2. m \in Messages /\ m.kind # "request"
    BY DEF Messages
  <1> HIDE DEF m
  <1>3. RelayOk /\ session \in Session /\ WireOk /\ PageOk
    BY DEF AgentInv, RelayOk
  <1>4. session' \in Session /\ session'.status = "ended" /\ session'.cache = session.cache
    BY <1>1, <1>3 DEF Session
  <1>5. forwards' \in [Ids -> Forward \cup {None}] /\ given' \subseteq Ids
    BY <1>1, <1>3 DEF RelayOk
  <1>6. RelayOk'
    BY <1>1, <1>3, <1>4, <1>5, RelayEnded
  <1>7. KeepsWrites
    BY <1>4 DEF KeepsWrites
  <1>8. ASSUME NEW s \in Sockets
        PROVE  sock'[s] \in Socket /\ Settles(s) /\ Knows(s) /\ GoodSocket(s)'
    <2>1. GoodSocket(s) /\ sock[s] \in Socket
      BY <1>3, SocketTyped
    <2>2. CASE s \in Open
      <3>1. sock'[s] = Tell(s, m)[s]
        BY <1>1, <2>2
      <3>2. /\ sock'[s] \in Socket /\ sock'[s].relay = sock[s].relay
            /\ sock'[s].page = sock[s].page /\ sock'[s].up = sock[s].up
            /\ In(sock'[s].down) \subseteq In(sock[s].down) \cup {m}
            /\ ~sock[s].page => sock'[s].down = sock[s].down
        BY <1>2, <1>3, <3>1, TellGood
      <3>3. Settles(s)
        BY <1>2, <3>2 DEF Settles, Requests, Successes
      <3>4. GoodSocket(s)'
        BY <1>1, <2>1, <3>2 DEF GoodSocket
      <3>5. QED BY <1>1, <3>2, <3>3, <3>4 DEF Knows
    <2>3. CASE s \notin Open
      <3>1. sock'[s] = sock[s]
        BY <1>1, <2>3
      <3>2. Settles(s)
        BY <3>1 DEF Settles, Requests, Successes
      <3>3. GoodSocket(s)'
        BY <1>1, <2>1, <3>1 DEF GoodSocket
      <3>4. QED BY <1>1, <2>1, <3>1, <3>2, <3>3 DEF Knows
    <2>4. QED BY <2>2, <2>3
  <1>9. sock' \in [Sockets -> Socket]
    BY <1>1, <1>8
  <1>10. WireOk'
    BY <1>1, <1>3, <1>7, <1>8, <1>9, WireSettles
  <1>11. ClientOk' /\ PageOk' /\ TruthOk'
    BY <1>1, <1>4 DEF AgentInv, ClientOk, PageOk, TruthOk, GoodCache, GoodOut, RanPays
  <1>12. QED BY <1>1, <1>6, <1>10, <1>11 DEF AgentInv

(* What is restored is what was stored: every undone write is pending      *)
(* again, and nothing else is remembered.                                  *)
LEMMA RestartStep == ASSUME AgentInv, NEW asleep \in BOOLEAN, Restart(asleep) PROVE AgentInv'
  <1> DEFINE P == [id \in Ids |-> IF stored.pending[id] = None THEN None
                                  ELSE [pay |-> stored.pending[id], done |-> FALSE]]
             C == [id \in Ids |-> None]
  <1>1. /\ asleep => ending # "clearing"
        /\ upsets < MaxUpsets /\ upsets' = upsets + 1 /\ arrived' = {}
        /\ forwards' = [id \in Ids |-> None]
        /\ session' = [status |-> stored.status, pending |-> P, cache |-> C]
        /\ ending' = IF ending = "clearing" THEN "no" ELSE ending
        /\ UNCHANGED <<call, stored, page, ran, given>>
    BY DEF Restart, history
  <1>2. sock' = IF asleep THEN sock
                ELSE [s \in Sockets |-> IF sock[s].relay = "none" THEN sock[s]
                                        ELSE Cut(sock[s], "closed")]
    BY DEF Restart
  <1>3. RelayOk /\ WireOk /\ PageOk /\ sock \in [Sockets -> Socket] /\ upsets' \in 0 .. MaxUpsets
    BY <1>1, Bounds DEF AgentInv, WireOk
  <1>4. /\ P \in [Ids -> Entry \cup {None}] /\ C \in [Ids -> CacheEntry \cup {None}]
        /\ \A id \in Ids : P[id] = None \/ P[id] = [pay |-> stored.pending[id], done |-> FALSE]
        /\ \A id \in Ids : P[id] = None <=> stored.pending[id] = None
    <2>1. stored.pending \in [Ids -> Payloads \cup {None}]
      BY <1>3 DEF RelayOk, Storage
    <2>2. QED BY <2>1, EntryNotNone DEF Entry
  <1> HIDE DEF P, C
  <1>5. /\ session' \in Session /\ session'.status = stored.status
        /\ session'.pending = P /\ session'.cache = C
    BY <1>1, <1>3, <1>4 DEF RelayOk, Session, Storage
  <1>6. ASSUME NEW id \in Ids PROVE Mirrors(session', stored', id)
    <2>1. stored.pending[id] = Undone(session', id)
          /\ (session'.pending[id] # None => ~session'.pending[id].done)
      BY <1>4, <1>5 DEF Undone
    <2>2. QED BY <1>1, <1>3, <2>1 DEF RelayOk, Mirrors
  <1>7. /\ forwards' \in [Ids -> Forward \cup {None}]
        /\ \A id \in Ids : GoodForward(forwards[id], id)'
    BY <1>1 DEF GoodForward
  <1>8. RelayOk'
    BY <1>1, <1>3, <1>5, <1>6, <1>7, NothingTyped DEF RelayOk, Live
  <1>9. KeepsWrites \/ \A s \in Sockets : sock'[s].relay # "open"
    <2>1. CASE asleep
      BY <1>1, <1>3, <1>5, <2>1, NothingTyped DEF RelayOk, KeepsWrites, Live, Holds
    <2>2. CASE ~asleep
      BY <1>2, <1>3, <2>2, CutGood
    <2>3. QED BY <2>1, <2>2
  <1>10. ASSUME NEW s \in Sockets
         PROVE  sock'[s] \in Socket /\ Settles(s) /\ Knows(s) /\ GoodSocket(s)'
    <2>1. GoodSocket(s) /\ sock[s] \in Socket
      BY <1>3, SocketTyped
    <2>2. Knows(s)
      BY <1>1 DEF Knows
    <2>3. CASE sock'[s] = sock[s]
      <3>1. Settles(s)
        BY <2>3 DEF Settles, Requests, Successes
      <3>2. QED BY <1>1, <2>1, <2>2, <2>3, <3>1 DEF GoodSocket
    <2>4. CASE sock'[s] = Cut(sock[s], "closed")
      <3>1. /\ sock'[s] \in Socket /\ sock'[s].relay = "closed" /\ sock'[s].up = <<>>
            /\ sock'[s].page = sock[s].page /\ sock'[s].down = sock[s].down
        BY <2>1, <2>4, CutGood
      <3>2. Settles(s)
        BY <1>3, <2>4, QuietSettles
      <3>3. QED BY <1>1, <2>1, <2>2, <3>1, <3>2 DEF GoodSocket
    <2>5. QED BY <1>2, <2>3, <2>4
  <1>11. sock' \in [Sockets -> Socket]
    BY <1>2, <1>3, <1>10
  <1>12. WireOk'
    BY <1>1, <1>3, <1>9, <1>10, <1>11, WireSettles
  <1>13. \A id \in Ids : session'.cache[id] = None
    BY <1>5 DEF C
  <1>14. ClientOk' /\ PageOk' /\ TruthOk'
    BY <1>1, <1>13 DEF AgentInv, ClientOk, PageOk, TruthOk, GoodCache, GoodOut, RanPays
  <1>15. QED BY <1>3, <1>8, <1>12, <1>14 DEF AgentInv

(* The new socket replaces the open ones, and is empty.                    *)
LEMMA ConnectStep == ASSUME AgentInv, NEW s \in Sockets, Connect(s) PROVE AgentInv'
  <1> DEFINE k == [relay |-> "open", page |-> TRUE, down |-> <<>>, up |-> <<>>]
  <1>1. /\ page.tab.sock = 0 /\ page' = [page EXCEPT !.tab.sock = s]
        /\ sock' = [t \in Sockets |-> IF t = s THEN k
                                      ELSE IF t \in Open THEN Cut(sock[t], "closing")
                                      ELSE sock[t]]
        /\ UNCHANGED <<call, arrived, session, forwards, stored, ending, ran, given, upsets>>
    BY DEF Connect, relayVars, history
  <1>2. /\ k \in Socket /\ k.relay = "open" /\ k.page = TRUE /\ k.down = <<>> /\ k.up = <<>>
    <2>1. <<>> \in Seq(Messages) /\ <<>> \in Seq(Answers)
      OBVIOUS
    <2>2. QED BY <2>1 DEF Socket
  <1> HIDE DEF k
  <1>3. RelayOk /\ WireOk /\ PageOk /\ s # 0 /\ s \in 0 .. MaxSockets
    BY Bounds DEF AgentInv, Sockets
  <1>4. RelayOk' /\ KeepsWrites
    BY <1>1, <1>3, RelayUnchanged
  <1>5. page' \in [no : 1 .. MaxPages, tab : Tables]
    BY <1>1, <1>3 DEF PageOk, Tables
  <1>6. page'.no = page.no /\ page'.tab.sock = s /\ page'.tab.known = page.tab.known
    BY <1>1, <1>3 DEF PageOk, Tables
  <1>7. \A id \in Ids : RanPays(id) = RanPays(id)'
    BY <1>1 DEF RanPays
  <1>8. PageOk'
    BY <1>1, <1>3, <1>5, <1>6, <1>7 DEF PageOk
  <1>9. ASSUME NEW t \in Sockets
        PROVE  sock'[t] \in Socket /\ GoodSocket(t)' /\ GoodTraffic(t)'
    <2>1. /\ GoodSocket(t) /\ sock[t] \in Socket /\ ~sock[t].page /\ sock[t].down = <<>>
      <3>1. GoodSocket(t) /\ sock[t] \in Socket /\ t # 0
        BY <1>3, SocketTyped DEF Sockets
      <3>2. QED BY <1>1, <3>1 DEF GoodSocket, Socket
    <2>2. CASE t = s
      <3>1. sock'[t] = k
        BY <1>1, <2>2
      <3>2. Requests(t)' = {} /\ Successes(t)' = {}
        BY <1>2, <3>1, InEmpty DEF Requests, Successes
      <3>3. GoodTraffic(t)'
        BY <3>2 DEF GoodTraffic
      <3>4. GoodSocket(t)'
        BY <1>2, <1>6, <2>2, <3>1 DEF GoodSocket
      <3>5. QED BY <1>2, <3>1, <3>3, <3>4
    <2>3. CASE t # s /\ t \in Open
      <3>1. /\ sock'[t] \in Socket /\ sock'[t].relay = "closing" /\ sock'[t].up = <<>>
            /\ sock'[t].page = sock[t].page /\ sock'[t].down = <<>>
        BY <1>1, <2>1, <2>3, CutGood
      <3>2. Requests(t)' = {} /\ Successes(t)' = {}
        BY <3>1, InEmpty DEF Requests, Successes
      <3>3. GoodTraffic(t)'
        BY <3>2 DEF GoodTraffic
      <3>4. QED BY <1>6, <2>1, <2>3, <3>1, <3>3 DEF GoodSocket
    <2>4. CASE t # s /\ t \notin Open
      <3>1. sock'[t] = sock[t] /\ sock[t].up = <<>> /\ sock[t].relay # "open"
        BY <1>1, <2>1, <2>4 DEF Open, GoodSocket
      <3>2. Requests(t)' = {} /\ Successes(t)' = {}
        BY <2>1, <3>1, InEmpty DEF Requests, Successes
      <3>3. GoodTraffic(t)'
        BY <3>2 DEF GoodTraffic
      <3>4. QED BY <1>6, <2>1, <2>4, <3>1, <3>3 DEF GoodSocket
    <2>5. QED BY <2>2, <2>3, <2>4
  <1>10. sock' \in [Sockets -> Socket]
    BY <1>1, <1>9
  <1>11. WireOk'
    BY <1>9, <1>10 DEF WireOk
  <1>12. ClientOk' /\ TruthOk'
    BY <1>1 DEF AgentInv, ClientOk, TruthOk, GoodCache, GoodOut, RanPays
  <1>13. QED BY <1>1, <1>4, <1>8, <1>11, <1>12 DEF AgentInv

-------------------------------------------------------------------------------
(* The page runs or answers a request.                                     *)

LEMMA AnsweredSocket ==
  ASSUME WireOk, NEW s \in Sockets, NEW a \in Answers, sock[s].down # <<>>
  PROVE  /\ Answer(s, a) \in [Sockets -> Socket]
         /\ Answer(s, a)[s].relay = sock[s].relay /\ Answer(s, a)[s].page = sock[s].page
         /\ In(Answer(s, a)[s].down) \subseteq In(sock[s].down)
         /\ In(Answer(s, a)[s].up) \subseteq In(sock[s].up) \cup {a}
         /\ sock[s].relay # "open" => Answer(s, a)[s].up = sock[s].up
         /\ \A t \in Sockets \ {s} : Answer(s, a)[t] = sock[t]
  <1>1. sock[s] \in Socket /\ sock \in [Sockets -> Socket]
        /\ sock[s].down \in Seq(Messages) /\ sock[s].up \in Seq(Answers)
    BY SocketTyped DEF WireOk
  <1> DEFINE down == Tail(sock[s].down)
             up == IF sock[s].relay = "open" THEN Append(sock[s].up, a) ELSE sock[s].up
             k == [sock[s] EXCEPT !.down = down, !.up = up]
  <1>2. /\ down \in Seq(Messages) /\ In(down) \subseteq In(sock[s].down)
        /\ up \in Seq(Answers) /\ In(up) \subseteq In(sock[s].up) \cup {a}
        /\ sock[s].relay # "open" => up = sock[s].up
    BY <1>1, InAppended, InTail
  <1>3. Answer(s, a) = [sock EXCEPT ![s] = k]
    BY DEF Answer
  <1> HIDE DEF down, up
  <1>4. k \in Socket /\ k.relay = sock[s].relay /\ k.page = sock[s].page /\ k.up = up
        /\ k.down = down
    BY <1>1, <1>2 DEF Socket
  <1> HIDE DEF k
  <1>5. /\ Answer(s, a) \in [Sockets -> Socket] /\ Answer(s, a)[s] = k
        /\ \A t \in Sockets \ {s} : Answer(s, a)[t] = sock[t]
    BY <1>1, <1>3, <1>4
  <1>6. QED BY <1>2, <1>4, <1>5

(* The request m is answered with a: the page knows its ID now, and an OK  *)
(* is of a run of its payload.                                             *)
LEMMA HandleGood ==
  ASSUME AgentInv, NEW s \in Sockets, page.tab.sock = s, sock[s].down # <<>>,
         NEW m \in Requests(s), NEW a \in Answers, a.id = m.id, sock' = Answer(s, a),
         a.result.code = "OK" => a.result.pay = m.pay /\ m.pay \in RanPays(m.id)',
         PageOk', page'.tab.sock = s, page'.tab.known[m.id] # None,
         \A id \in Ids : page.tab.known[id] # None => page'.tab.known[id] # None,
         \A id \in Ids : RanPays(id) \subseteq RanPays(id)',
         UNCHANGED <<call, arrived, session, forwards, stored, ending, given, upsets>>
  PROVE  AgentInv'
  <1>1. RelayOk /\ WireOk /\ PageOk
    BY DEF AgentInv
  <1>2. RelayOk' /\ KeepsWrites
    BY <1>1, RelayUnchanged
  <1>3. ClientOk' /\ TruthOk'
    BY TruthUnchanged DEF AgentInv, ClientOk
  <1>4. /\ sock' \in [Sockets -> Socket]
        /\ sock'[s].relay = sock[s].relay /\ sock'[s].page = sock[s].page
        /\ In(sock'[s].down) \subseteq In(sock[s].down)
        /\ In(sock'[s].up) \subseteq In(sock[s].up) \cup {a}
        /\ sock[s].relay # "open" => sock'[s].up = sock[s].up
        /\ \A t \in Sockets \ {s} : sock'[t] = sock[t]
    BY <1>1, AnsweredSocket, ZenonT(30)
  <1>5. \A t \in Sockets : Knows(t)
    BY DEF Knows
  <1>6. ASSUME NEW t \in Sockets \ {s} PROVE GoodSocket(t)' /\ GoodTraffic(t)'
    <2>1. sock'[t] = sock[t]
      BY <1>4
    <2>2. Settles(t)
      BY <2>1 DEF Settles, Requests, Successes
    <2>3. \A r \in Requests(t)' : r.id \in given' => r.id \in given
      OBVIOUS
    <2>4. GoodTraffic(t)'
      BY <1>1, <1>2, <1>5, <2>2, <2>3, TrafficKept
    <2>5. GoodSocket(t)'
      BY <1>1, <2>1 DEF GoodSocket, WireOk
    <2>6. QED BY <2>4, <2>5
  <1>7. GoodSocket(s)'
    <2>1. GoodSocket(s) /\ sock[s] \in Socket /\ s # 0
      BY <1>1, SocketTyped DEF Sockets
    <2>2. sock[s].page /\ sock'[s].page
      BY <1>4, <2>1 DEF GoodSocket, Socket
    <2>3. sock'[s].page = (page'.tab.sock = s)
      BY <1>4, <2>1 DEF GoodSocket
    <2>4. QED BY <1>4, <2>1, <2>2, <2>3 DEF GoodSocket
  <1>8. ASSUME NEW r \in Requests(s)' PROVE GoodRequest(s, r)'
    <2>1. r \in Requests(s)
      BY <1>4 DEF Requests
    <2>2. QED BY <1>1, <1>2, <1>4, <1>5, <2>1, RequestKept
  <1>9. ASSUME NEW r \in Successes(s)' PROVE GoodSuccess(s, r)'
    <2>1. CASE r \in Successes(s)
      <3>1. r.id \in Ids
        BY <1>1, <2>1, SocketTyped
      <3>2. QED BY <1>1, <1>2, <1>4, <1>5, <2>1, <3>1, SuccessKept
    <2>2. CASE r \notin Successes(s)
      <3>1. r = a /\ a.result.code = "OK"
        BY <1>4, <2>2 DEF Successes
      <3>2. GoodRequest(s, m)
        BY <1>1 DEF WireOk, GoodTraffic
      <3>3. Live' /\ sock'[s].relay = "open" => HeldPay(stored', m.id) = m.pay
        BY <1>4, <3>2 DEF GoodRequest, Live
      <3>4. QED BY <3>1, <3>3 DEF GoodSuccess
    <2>3. QED BY <2>1, <2>2
  <1>10. WireOk'
    BY <1>4, <1>6, <1>7, <1>8, <1>9 DEF WireOk, GoodTraffic
  <1>11. QED BY <1>2, <1>3, <1>10 DEF AgentInv

LEMMA RememberedGood ==
  ASSUME PageOk, NEW id \in Ids, NEW pay \in Payloads, page.tab.known[id] # None
  PROVE  /\ Remembered(id, pay) \in Outcomes
         /\ Remembered(id, pay).code = "OK"
              => Remembered(id, pay).pay = pay /\ pay \in RanPays(id)
  <1>1. Result(pay) \in Outcomes /\ Result(pay).pay = pay
    BY DEF Result, Outcomes, Codes
  <1>2. /\ "REQUEST_ID_REUSED" \in Codes /\ "REQUEST_RESULT_UNAVAILABLE" \in Codes
        /\ Outcome("REQUEST_ID_REUSED").code # "OK"
        /\ Outcome("REQUEST_RESULT_UNAVAILABLE").code # "OK"
    BY DEF Codes, Outcome
  <1>3. CASE page.tab.known[id] # pay
    BY <1>2, <1>3, UncertainGood DEF Remembered
  <1>4. CASE page.tab.known[id] = pay
    BY <1>1, <1>2, <1>4, UncertainGood DEF Remembered, PageOk
  <1>5. QED BY <1>3, <1>4

(* A run is recorded, and the page knows it.                               *)
LEMMA RunGood ==
  ASSUME PageOk, NEW id \in Ids, NEW pay \in Payloads, page.tab.known[id] = None,
         ran' = [ran EXCEPT ![id] = Append(@, [pay |-> pay, page |-> page.no])],
         page' = [page EXCEPT !.tab =
                    [page.tab EXCEPT !.known[id] = pay, !.cached = @ \cup {id}]]
  PROVE  /\ PageOk' /\ page'.tab.sock = page.tab.sock /\ page'.tab.known[id] # None
         /\ \A i \in Ids : page.tab.known[i] # None => page'.tab.known[i] # None
         /\ \A i \in Ids : RanPays(i) \subseteq RanPays(i)'
         /\ pay \in RanPays(id)'
  <1> DEFINE r == [pay |-> pay, page |-> page.no]
             tab == [page.tab EXCEPT !.known[id] = pay, !.cached = @ \cup {id}]
  <1>1. /\ page \in [no : 1 .. MaxPages, tab : Tables] /\ page.tab \in Tables
        /\ ran \in [Ids -> Seq(Runs)] /\ ran[id] \in Seq(Runs)
        /\ page.tab.known \in [Ids -> Payloads \cup {None}] /\ pay # None
        /\ page.no \in 1 .. MaxPages
    BY Bounds DEF PageOk, Tables
  <1>2. r \in Runs /\ r.pay = pay /\ r.page = page.no
    BY <1>1 DEF Runs
  <1>3. tab \in Tables /\ tab.sock = page.tab.sock
        /\ tab.known = [page.tab.known EXCEPT ![id] = pay]
    BY <1>1 DEF Tables
  <1>4. page' = [page EXCEPT !.tab = tab] /\ ran' = [ran EXCEPT ![id] = Append(ran[id], r)]
    OBVIOUS
  <1> HIDE DEF r, tab
  <1>5. Append(ran[id], r) \in Seq(Runs) /\ In(Append(ran[id], r)) = In(ran[id]) \cup {r}
    BY <1>1, <1>2, InAppended
  <1>6. /\ ran' \in [Ids -> Seq(Runs)] /\ In(ran'[id]) = In(ran[id]) \cup {r}
        /\ \A i \in Ids \ {id} : ran'[i] = ran[i]
    BY <1>1, <1>4, <1>5
  <1>7. /\ page' \in [no : 1 .. MaxPages, tab : Tables] /\ page'.no = page.no
        /\ page'.tab = tab
    BY <1>1, <1>3, <1>4
  <1>8. tab.known[id] = pay /\ \A i \in Ids \ {id} : tab.known[i] = page.tab.known[i]
    BY <1>1, <1>3
  <1>9. RanPays(id)' = RanPays(id) \cup {pay} /\ \A i \in Ids \ {id} : RanPays(i)' = RanPays(i)
    BY <1>2, <1>6 DEF RanPays
  <1>10. ASSUME NEW i \in Ids
         PROVE  /\ \A x \in In(ran'[i]) : x.page <= page'.no
                /\ \A x \in In(ran'[i]) : x.page = page'.no => page'.tab.known[i] # None
                /\ page'.tab.known[i] # None => page'.tab.known[i] \in RanPays(i)'
    <2>1. CASE i = id
      <3>1. \A x \in In(ran[id]) : x.page <= page.no
        BY DEF PageOk
      <3>2. page.no <= page.no
        BY <1>1
      <3>3. QED BY <1>1, <1>2, <1>6, <1>7, <1>8, <1>9, <2>1, <3>1, <3>2
    <2>2. CASE i # id
      BY <1>6, <1>7, <1>8, <1>9, <2>2 DEF PageOk
    <2>3. QED BY <2>1, <2>2
  <1>11. PageOk'
    BY <1>6, <1>7, <1>10 DEF PageOk
  <1>12. QED BY <1>1, <1>3, <1>7, <1>8, <1>9, <1>11

LEMMA HandleStep == ASSUME AgentInv, NEW s \in Sockets, Handle(s) PROVE AgentInv'
  <1>0. PICK m : m = Head(sock[s].down)
    OBVIOUS
  <1> DEFINE a(result) == [id |-> m.id, result |-> result, large |-> result.pay \in Large]
  <1>1. /\ page.tab.sock = s /\ sock[s].down # <<>> /\ m.kind = "request"
        /\ UNCHANGED <<call, arrived, session, forwards, stored, ending, given, upsets>>
        /\ \/ /\ page.tab.known[m.id] # None
              /\ sock' = Answer(s, a(Remembered(m.id, m.pay)))
              /\ UNCHANGED <<page, ran>>
           \/ /\ page.tab.known[m.id] = None
              /\ ran' = [ran EXCEPT ![m.id] = Append(@, [pay |-> m.pay, page |-> page.no])]
              /\ page' = [page EXCEPT !.tab =
                            [page.tab EXCEPT !.known[m.id] = m.pay, !.cached = @ \cup {m.id}]]
              /\ sock' = Answer(s, a(Result(m.pay)))
    BY <1>0 DEF Handle, relayVars
  <1>2. WireOk /\ PageOk
    BY DEF AgentInv
  <1>3. m \in Requests(s) /\ m.id \in Ids /\ m.pay \in Payloads
    <2>1. m \in In(sock[s].down)
      BY <1>0, <1>1, <1>2, SocketTyped, InTail
    <2>2. m \in Requests(s)
      BY <1>1, <2>1 DEF Requests
    <2>3. QED BY <1>2, <2>2, SocketTyped
  <1>4. ASSUME NEW o \in Outcomes
        PROVE  a(o) \in Answers /\ a(o).id = m.id /\ a(o).result = o
    BY <1>3, <1>4 DEF Answers
  <1> HIDE DEF a
  <1>5. CASE /\ page.tab.known[m.id] # None
             /\ sock' = Answer(s, a(Remembered(m.id, m.pay)))
             /\ UNCHANGED <<page, ran>>
    <2> DEFINE o == Remembered(m.id, m.pay)
    <2>1. o \in Outcomes /\ (o.code = "OK" => o.pay = m.pay /\ m.pay \in RanPays(m.id))
      BY <1>2, <1>3, <1>5, RememberedGood
    <2>2. sock' = Answer(s, a(o))
      BY <1>5
    <2> HIDE DEF o
    <2>3. PageOk' /\ \A id \in Ids : RanPays(id) \subseteq RanPays(id)'
      BY <1>2, <1>5 DEF PageOk, RanPays
    <2>4. m.pay \in RanPays(m.id) => m.pay \in RanPays(m.id)'
      BY <1>3, <2>3
    <2>5. QED BY <1>1, <1>3, <1>4, <1>5, <2>1, <2>2, <2>3, <2>4, HandleGood
  <1>6. CASE /\ page.tab.known[m.id] = None
             /\ ran' = [ran EXCEPT ![m.id] = Append(@, [pay |-> m.pay, page |-> page.no])]
             /\ page' = [page EXCEPT !.tab =
                           [page.tab EXCEPT !.known[m.id] = m.pay, !.cached = @ \cup {m.id}]]
             /\ sock' = Answer(s, a(Result(m.pay)))
    <2> DEFINE o == Result(m.pay)
    <2>1. o \in Outcomes /\ o.pay = m.pay
      BY <1>3 DEF Result, Outcomes, Codes
    <2>2. sock' = Answer(s, a(o))
      BY <1>6
    <2> HIDE DEF o
    <2>3. /\ PageOk' /\ page'.tab.sock = page.tab.sock /\ page'.tab.known[m.id] # None
          /\ \A i \in Ids : page.tab.known[i] # None => page'.tab.known[i] # None
          /\ \A i \in Ids : RanPays(i) \subseteq RanPays(i)'
          /\ m.pay \in RanPays(m.id)'
      BY <1>2, <1>3, <1>6, RunGood
    <2>4. QED BY <1>1, <1>3, <1>4, <2>1, <2>2, <2>3, HandleGood
  <1>7. QED BY <1>1, <1>5, <1>6

-------------------------------------------------------------------------------
(* The relay takes a message of the editor.                                *)

LEMMA TakenSocket ==
  ASSUME WireOk, NEW s \in Sockets, sock[s].up # <<>>,
         sock' = [sock EXCEPT ![s].up = Tail(@)]
  PROVE  /\ sock' \in [Sockets -> Socket]
         /\ \A t \in Sockets :
              /\ sock'[t].relay = sock[t].relay /\ sock'[t].page = sock[t].page
              /\ sock'[t].down = sock[t].down /\ In(sock'[t].up) \subseteq In(sock[t].up)
              /\ t # s => sock'[t] = sock[t]
  <1>1. sock[s] \in Socket /\ sock \in [Sockets -> Socket] /\ sock[s].up \in Seq(Answers)
    BY SocketTyped DEF WireOk
  <1> DEFINE up == Tail(sock[s].up)
             k == [sock[s] EXCEPT !.up = up]
  <1>2. up \in Seq(Answers) /\ In(up) \subseteq In(sock[s].up)
    BY <1>1, InTail
  <1>3. sock' = [sock EXCEPT ![s] = k]
    OBVIOUS
  <1> HIDE DEF up
  <1>4. k \in Socket /\ k.relay = sock[s].relay /\ k.page = sock[s].page /\ k.up = up
        /\ k.down = sock[s].down
    BY <1>1, <1>2 DEF Socket
  <1> HIDE DEF k
  <1>5. /\ sock' \in [Sockets -> Socket] /\ sock'[s] = k
        /\ \A t \in Sockets \ {s} : sock'[t] = sock[t]
    BY <1>1, <1>3, <1>4
  <1>6. QED BY <1>2, <1>4, <1>5

(* Only the page's current socket has requests under way, and that page    *)
(* knows every write whose result it has sent.                             *)
LEMMA TakenWire ==
  ASSUME AgentInv, NEW s \in Sockets, sock[s].relay = "open", sock[s].up # <<>>,
         sock' = [sock EXCEPT ![s].up = Tail(@)], UNCHANGED <<page, ran>>, KeepsWrites,
         NEW m \in In(sock[s].up),
         \/ given' = given
         \/ m.result.code = "OK" /\ given' = given \cup {m.id}
  PROVE  WireOk' /\ PageOk'
  <1>1. WireOk /\ PageOk
    BY DEF AgentInv
  <1>2. /\ sock' \in [Sockets -> Socket]
        /\ \A t \in Sockets :
              /\ sock'[t].relay = sock[t].relay /\ sock'[t].page = sock[t].page
              /\ sock'[t].down = sock[t].down /\ In(sock'[t].up) \subseteq In(sock[t].up)
              /\ t # s => sock'[t] = sock[t]
    BY <1>1, TakenSocket
  <1>3. ASSUME NEW t \in Sockets PROVE GoodSocket(t)' /\ GoodTraffic(t)'
    <2>1. GoodSocket(t) /\ GoodSocket(s) /\ sock[t] \in Socket /\ s # 0 /\ t # 0
      BY <1>1, SocketTyped DEF Sockets
    <2>2. Settles(t) /\ Knows(t)
      BY <1>2 DEF Settles, Knows, Requests, Successes
    <2>3. ASSUME NEW r \in Requests(t)', r.id \in given', r.id \notin given
          PROVE  page'.tab.known[r.id] # None
      <3>1. r.id = m.id /\ m \in Successes(s)
        BY <2>3 DEF Successes
      <3>2. r \in Requests(t)
        BY <1>2 DEF Requests
      <3>3. sock[t].down # <<>>
        BY <3>2, InEmpty DEF Requests
      <3>4. page.tab.sock = t
        BY <2>1, <3>3 DEF GoodSocket
      <3>5. t = s
        BY <2>1, <3>4 DEF GoodSocket
      <3>6. QED BY <1>1, <3>1, <3>4, <3>5 DEF WireOk, GoodTraffic, GoodSuccess
    <2>4. \A id \in Ids : RanPays(id) \subseteq RanPays(id)'
      BY DEF RanPays
    <2>5. GoodTraffic(t)'
      BY <1>1, <2>2, <2>3, <2>4, TrafficKept
    <2>6. GoodSocket(t)'
      BY <1>2, <2>1 DEF GoodSocket
    <2>7. QED BY <2>5, <2>6
  <1>4. PageOk'
    BY <1>1 DEF PageOk, RanPays
  <1>5. QED BY <1>2, <1>3, <1>4 DEF WireOk

(* A forwarded write is the undone one of its ID.                          *)
LEMMA ForwardedWrite ==
  ASSUME RelayOk, Live, NEW id \in Ids, forwards[id] # None
  PROVE  /\ forwards[id].call \in Calls /\ IdOf[forwards[id].call] = id
         /\ stored.pending[id] = PayloadOf[forwards[id].call]
         /\ stored.ledger[id] = None
         /\ session.pending[id] # None /\ ~session.pending[id].done
         /\ session.pending[id].pay = PayloadOf[forwards[id].call]
         /\ HeldPay(stored, id) = PayloadOf[forwards[id].call]
  <1>1. forwards[id] \in Forward /\ forwards[id].call \in Calls
    BY DEF RelayOk, Forward
  <1>2. IdOf[forwards[id].call] = id /\ stored.pending[id] = PayloadOf[forwards[id].call]
    BY DEF RelayOk, GoodForward
  <1>3. stored.pending[id] # None
    BY <1>1, <1>2, Bounds
  <1>4. stored.ledger[id] = None /\ stored.pending[id] = Undone(session, id)
    BY <1>3 DEF RelayOk, Mirrors, Live
  <1>5. QED BY <1>1, <1>2, <1>3, <1>4 DEF Undone, HeldPay

(* The answer of a forwarded write is taken.                               *)
LEMMA TakeGood ==
  ASSUME AgentInv, Live, NEW s \in Sockets, sock[s].relay = "open",
         NEW m \in In(sock[s].up), forwards[m.id] # None,
         forwards' = [forwards EXCEPT ![m.id] = None], Persist(Completed(m.id, m.result)),
         AnswerAll({<<forwards[m.id].call, forwards[m.id].n>>}, m.result),
         given' = IF m.result.code = "OK" THEN given \cup {m.id} ELSE given,
         UNCHANGED <<arrived, ending, ran>>
  PROVE  ClientOk' /\ RelayOk' /\ TruthOk' /\ KeepsWrites
  <1> DEFINE id == m.id
             o == m.result
             c == forwards[id].call
             e == [pay |-> session.pending[id].pay, done |-> TRUE]
             r == [pay |-> session.pending[id].pay, result |-> o]
             k == Completed(id, o)
  <1>1. ClientOk /\ RelayOk /\ WireOk /\ PageOk /\ TruthOk
    BY DEF AgentInv
  <1>2. id \in Ids /\ o \in Outcomes
    <2>1. m \in Answers
      BY <1>1, SocketTyped
    <2>2. QED BY <2>1 DEF Answers
  <1>3. /\ c \in Calls /\ IdOf[c] = id /\ stored.pending[id] = PayloadOf[c]
        /\ stored.ledger[id] = None /\ session.pending[id].pay = PayloadOf[c]
        /\ HeldPay(stored, id) = PayloadOf[c] /\ PayloadOf[c] \in Payloads
    BY <1>1, <1>2, ForwardedWrite, Bounds
  <1>4. o.code = "OK" => o.pay = PayloadOf[c] /\ PayloadOf[c] \in RanPays(id)
    <2>1. SUFFICES ASSUME o.code = "OK" PROVE o.pay = PayloadOf[c] /\ PayloadOf[c] \in RanPays(id)
      OBVIOUS
    <2>2. GoodSuccess(s, m)
      BY <1>1, <2>1 DEF WireOk, GoodTraffic, Successes
    <2>3. QED BY <1>3, <2>2 DEF GoodSuccess
  <1>5. ClientOk' /\ \A d \in Calls : GoodOut(d)'
    <2> DEFINE H == {<<c, forwards[id].n>>}
    <2>1. AnswerAll(H, o) /\ arrived' \subseteq arrived /\ ran' = ran
      OBVIOUS
    <2>2. \A d \in Calls : \A n : <<d, n>> \in H => d = c
      OBVIOUS
    <2> HIDE DEF H, o, c, id
    <2>3. o.code = "OK" => \A d \in Calls : \A n : <<d, n>> \in H =>
                            o.pay = PayloadOf[d] /\ PayloadOf[d] \in RanPays(IdOf[d])
      BY <1>3, <1>4, <2>2
    <2>4. QED BY <1>1, <1>2, <2>1, <2>3, AnswerAllGood
  <1>6. e \in Entry /\ r \in CacheEntry
    BY <1>2, <1>3 DEF Entry, CacheEntry
  <1>7. session \in Session /\ k = [session EXCEPT !.pending[id] = e, !.cache[id] = r]
    BY <1>1 DEF RelayOk, Completed
  <1> HIDE DEF e, r, k
  <1>8. /\ k \in Session /\ k.status = session.status
        /\ k.pending = [session.pending EXCEPT ![id] = e]
        /\ k.cache = [session.cache EXCEPT ![id] = r]
    BY <1>2, <1>6, <1>7 DEF Session
  <1>9. /\ k.pending[id] = e /\ \A i \in Ids \ {id} : k.pending[i] = session.pending[i]
        /\ k.cache[id] = r /\ \A i \in Ids \ {id} : k.cache[i] = session.cache[i]
    BY <1>2, <1>7, <1>8 DEF Session
  <1>10. Persist(k) /\ k.status # "ended"
    BY <1>8 DEF k, Live
  <1>11. e = [pay |-> PayloadOf[c], done |-> TRUE]
    BY <1>3 DEF e
  <1>12. Mirrors(session', stored', id) /\ Holds(id) /\ stored'.ledger[id] = PayloadOf[c]
    <2>1. /\ stored \in Storage /\ k \in Session /\ k.status # "ended" /\ Persist(k)
          /\ k.pending[id] = [pay |-> PayloadOf[c], done |-> TRUE]
      BY <1>1, <1>8, <1>9, <1>10, <1>11 DEF RelayOk
    <2> HIDE DEF id, o, c
    <2>2. QED BY <1>2, <1>3, <2>1, CompletedMirrors
  <1>13. /\ forwards' \in [Ids -> Forward \cup {None}] /\ forwards'[id] = None
         /\ \A i \in Ids \ {id} : forwards'[i] = forwards[i]
         /\ given' \subseteq Ids /\ \A i \in Ids \ {id} : i \in given' => i \in given
    BY <1>1, <1>2 DEF RelayOk
  <1>14. Untouched(k, {id}) /\ Touched({id})
    <2>1. Untouched(k, {id})
      BY <1>9, <1>13 DEF Untouched
    <2>2. stored'.ledger[id] # None
      BY <1>3, <1>12, Bounds
    <2>3. Touched({id})
      BY <1>12, <1>13, <2>2 DEF Touched
    <2>4. QED BY <2>1, <2>3
  <1>15. /\ RelayOk' /\ session'.status = k.status /\ session'.cache = k.cache
         /\ \A i \in Ids \ {id} : Holds(i)
    BY <1>1, <1>8, <1>10, <1>13, <1>14, RelayLive
  <1>16. KeepsWrites
    BY <1>12, <1>15 DEF KeepsWrites
  <1>17. ASSUME NEW i \in Ids PROVE GoodCache(i)'
    <2>1. RanPays(i)' = RanPays(i) /\ GoodCache(i)
      BY <1>1 DEF RanPays, TruthOk
    <2>2. CASE i = id
      <3>1. session'.cache[i] = r /\ r.pay = PayloadOf[c] /\ r.result = o
        BY <1>3, <1>9, <1>15, <2>2 DEF r
      <3>2. QED BY <1>4, <2>1, <2>2, <3>1 DEF GoodCache
    <2>3. CASE i # id
      BY <1>9, <1>15, <2>1, <2>3 DEF GoodCache
    <2>4. QED BY <2>2, <2>3
  <1>18. QED BY <1>5, <1>15, <1>16, <1>17 DEF TruthOk

LEMMA ReceiveStep == ASSUME AgentInv, NEW s \in Sockets, Receive(s) PROVE AgentInv'
  <1>0. PICK m : m = Head(sock[s].up)
    OBVIOUS
  <1>1. /\ sock[s].relay = "open" /\ sock[s].up # <<>>
        /\ sock' = [sock EXCEPT ![s].up = Tail(@)]
        /\ UNCHANGED <<arrived, ending, page, ran, upsets>>
    BY DEF Receive
  <1>2. m \in In(sock[s].up)
    BY <1>0, <1>1, SocketTyped, InTail DEF AgentInv
  <1>3. CASE UNCHANGED <<call, session, forwards, stored, given>>
    <2>1. RelayOk' /\ KeepsWrites
      BY <1>1, <1>3, RelayUnchanged DEF AgentInv
    <2>2. WireOk' /\ PageOk'
      BY <1>1, <1>2, <1>3, <2>1, TakenWire
    <2>3. ClientOk' /\ TruthOk'
      BY <1>1, <1>3 DEF AgentInv, ClientOk, TruthOk, GoodCache, GoodOut, RanPays
    <2>4. QED BY <1>1, <2>1, <2>2, <2>3 DEF AgentInv
  <1>4. CASE Reject(Waiting) /\ UNCHANGED given
    <2>1. ClientOk' /\ RelayOk' /\ TruthOk' /\ KeepsWrites
      BY <1>1, <1>4, RejectGood
    <2>2. WireOk' /\ PageOk'
      BY <1>1, <1>2, <1>4, <2>1, TakenWire
    <2>3. QED BY <1>1, <2>1, <2>2 DEF AgentInv
  <1>5. CASE /\ Live /\ Active(m.id)
             /\ forwards' = [forwards EXCEPT ![m.id] = None]
             /\ Persist(Completed(m.id, m.result))
             /\ AnswerAll({<<forwards[m.id].call, forwards[m.id].n>>}, m.result)
             /\ given' = IF m.result.code = "OK" THEN given \cup {m.id} ELSE given
    <2>1. ClientOk' /\ RelayOk' /\ TruthOk' /\ KeepsWrites
      BY <1>1, <1>2, <1>5, TakeGood DEF Active
    <2>2. \/ given' = given
          \/ m.result.code = "OK" /\ given' = given \cup {m.id}
      <3>1. CASE m.result.code = "OK"
        BY <1>5, <3>1
      <3>2. CASE m.result.code # "OK"
        BY <1>5, <3>2
      <3>3. QED BY <3>1, <3>2
    <2>3. WireOk' /\ PageOk'
      BY <1>1, <1>2, <2>1, <2>2, TakenWire
    <2>4. QED BY <1>1, <2>1, <2>3 DEF AgentInv
  <1>6. QED BY <1>0, <1>3, <1>4, <1>5 DEF Receive, Live

-------------------------------------------------------------------------------
(* The relay begins a request.                                             *)

LEMMA HeldFacts ==
  ASSUME RelayOk, NEW id \in Ids
  PROVE  /\ Held(id) \in Entry \cup {None}
         /\ Live => /\ Held(id) = None =>
                         stored.ledger[id] = None /\ stored.pending[id] = None
                    /\ Held(id) # None /\ ~Held(id).done =>
                         stored.ledger[id] = None /\ stored.pending[id] = Held(id).pay
  <1>1. /\ session.pending[id] \in Entry \cup {None}
        /\ stored.ledger[id] \in Payloads \cup {None} /\ Mirrors(session, stored, id)
    BY DEF RelayOk, Session, Storage
  <1>2. CASE session.pending[id] = None /\ stored.ledger[id] # None
    <2>1. Held(id) = [pay |-> stored.ledger[id], done |-> TRUE]
      BY <1>2 DEF Held
    <2>2. Held(id) \in Entry /\ Held(id).done
      BY <1>1, <1>2, <2>1 DEF Entry
    <2>3. QED BY <2>2, EntryNotNone
  <1>3. CASE ~(session.pending[id] = None /\ stored.ledger[id] # None)
    <2>1. Held(id) = session.pending[id]
      BY <1>3 DEF Held
    <2>2. Live => stored.pending[id] = Undone(session, id)
      BY <1>1 DEF Mirrors, Live
    <2>3. Held(id) # None => Held(id).pay \in Payloads
      BY <1>1, <2>1 DEF Entry
    <2>4. Held(id) # None => Held(id).pay # None
      BY <2>3, Bounds
    <2>5. QED BY <1>1, <1>3, <2>1, <2>2, <2>4 DEF Undone, Mirrors
  <1>4. QED BY <1>2, <1>3

(* An answer without the editor is an outcome of its own, or the cached    *)
(* one of the same payload.                                                *)
LEMMA VerdictGood ==
  ASSUME RelayOk, TruthOk, NEW c \in Calls
  PROVE  /\ Verdict(c) \in Outcomes \cup {None}
         /\ Verdict(c) # None /\ Verdict(c).code = "OK" =>
              Verdict(c).pay = PayloadOf[c] /\ PayloadOf[c] \in RanPays(IdOf[c])
  <1> DEFINE id == IdOf[c]
  <1>1. id \in Ids /\ session.cache[id] \in CacheEntry \cup {None} /\ GoodCache(id)
    BY Bounds DEF RelayOk, Session, TruthOk
  <1>2. session.cache[id] # None => session.cache[id].result \in Outcomes
    BY <1>1 DEF CacheEntry
  <1>3. /\ "REQUEST_ID_REUSED" \in Codes /\ "REQUEST_RESULT_UNAVAILABLE" \in Codes
        /\ "refused" \in Codes /\ Refused = Outcome("refused")
    BY DEF Codes, Refused
  <1>4. \A code \in Codes \ {"OK"} : Outcome(code) \in Outcomes /\ Outcome(code).code # "OK"
    BY UncertainGood
  <1>5. \/ Verdict(c) = None
        \/ \E code \in Codes \ {"OK"} : Verdict(c) = Outcome(code)
        \/ /\ session.cache[id] # None /\ session.cache[id].pay = PayloadOf[c]
           /\ Verdict(c) = session.cache[id].result
    BY <1>3 DEF Verdict
  <1>6. QED BY <1>1, <1>2, <1>4, <1>5 DEF GoodCache

(* A request that proceeds is the first of its ID, or repeats the payload  *)
(* of an undone one that nothing waits for.                                *)
LEMMA Proceeds ==
  ASSUME RelayOk, NEW c \in Calls, Verdict(c) = None
  PROVE  /\ Live /\ session.status = "active" /\ IdOf[c] \in Ids
         /\ stored.ledger[IdOf[c]] = None
         /\ stored.pending[IdOf[c]] \in {None, PayloadOf[c]}
         /\ forwards[IdOf[c]] = None /\ IdOf[c] \notin given
  <1> DEFINE id == IdOf[c]
  <1>1. id \in Ids /\ session.cache[id] \in CacheEntry \cup {None}
    BY Bounds DEF RelayOk, Session
  <1>2. /\ Refused # None /\ Outcome("REQUEST_ID_REUSED") # None
        /\ Outcome("REQUEST_RESULT_UNAVAILABLE") # None
    <2>1. /\ Refused \in Outcomes /\ Outcome("REQUEST_ID_REUSED") \in Outcomes
          /\ Outcome("REQUEST_RESULT_UNAVAILABLE") \in Outcomes
      BY UncertainGood DEF Codes
    <2>2. QED BY <2>1, EntryNotNone
  <1>3. session.cache[id] # None => session.cache[id].result # None
    <2>1. session.cache[id] # None => session.cache[id].result \in Outcomes
      BY <1>1 DEF CacheEntry
    <2>2. QED BY <2>1, EntryNotNone
  <1>4. /\ session.status = "active"
        /\ \/ Held(id) = None
           \/ Held(id) # None /\ Held(id).pay = PayloadOf[c] /\ ~Held(id).done /\ ~Active(id)
    BY <1>2, <1>3 DEF Verdict
  <1>5. Live
    BY <1>4 DEF Live
  <1>6. /\ stored.ledger[id] = None
        /\ stored.pending[id] \in {None, PayloadOf[c]}
        /\ Held(id) = None => stored.pending[id] = None
    BY <1>1, <1>4, <1>5, HeldFacts
  <1>7. forwards[id] = None
    <2>1. SUFFICES ASSUME forwards[id] # None PROVE FALSE
      OBVIOUS
    <2>2. Held(id) = None
      BY <1>4, <2>1 DEF Active
    <2>3. stored.pending[id] # None
      BY <1>1, <1>5, <2>1, ForwardedWrite, Bounds
    <2>4. QED BY <1>6, <2>2, <2>3
  <1>8. id \notin given
    BY <1>5, <1>6 DEF RelayOk, Live
  <1>9. QED BY <1>1, <1>4, <1>5, <1>6, <1>7, <1>8

Looked(id) == [session EXCEPT !.pending[id] = Held(id)]

LEMMA LookedGood ==
  ASSUME RelayOk, NEW id \in Ids
  PROVE  /\ Looked(id) \in Session /\ Looked(id).status = session.status
         /\ Looked(id).cache = session.cache
         /\ Looked(id).pending = [session.pending EXCEPT ![id] = Held(id)]
         /\ Looked(id).pending[id] = Held(id)
         /\ \A i \in Ids \ {id} : Looked(id).pending[i] = session.pending[i]
  <1>1. session \in Session /\ Held(id) \in Entry \cup {None}
    BY HeldFacts DEF RelayOk
  <1>2. session.pending \in [Ids -> Entry \cup {None}]
    BY <1>1 DEF Session
  <1>3. /\ Looked(id) \in Session /\ Looked(id).status = session.status
        /\ Looked(id).cache = session.cache
        /\ Looked(id).pending = [session.pending EXCEPT ![id] = Held(id)]
    BY <1>1 DEF Looked, Session
  <1>4. QED BY <1>2, <1>3

(* The looked-up session with another entry for the ID.                    *)
With(id, e) == [Looked(id) EXCEPT !.pending[id] = e]

LEMMA LookedWith ==
  ASSUME RelayOk, NEW id \in Ids, NEW e \in Entry \cup {None}, NEW s, s = With(id, e)
  PROVE  /\ s \in Session /\ s.status = session.status /\ s.cache = session.cache
         /\ s.pending[id] = e /\ \A i \in Ids \ {id} : s.pending[i] = session.pending[i]
  <1>0. s = [Looked(id) EXCEPT !.pending[id] = e]
    BY DEF With
  <1>1. /\ Looked(id) \in Session /\ Looked(id).status = session.status
        /\ Looked(id).cache = session.cache
        /\ \A i \in Ids \ {id} : Looked(id).pending[i] = session.pending[i]
    BY LookedGood
  <1>2. Looked(id).pending \in [Ids -> Entry \cup {None}]
    BY <1>1 DEF Session
  <1>3. /\ s \in Session /\ s.status = session.status /\ s.cache = session.cache
        /\ s.pending = [Looked(id).pending EXCEPT ![id] = e]
    BY <1>0, <1>1 DEF Session
  <1>4. QED BY <1>1, <1>2, <1>3

(* Answered at once: the stored record of the ID is in memory again.       *)
LEMMA BeginAnswered ==
  ASSUME AgentInv, NEW c \in Calls, NEW n, Verdict(c) # None,
         arrived' = arrived \ {<<c, n>>}, session' = Looked(IdOf[c]),
         AnswerAll({<<c, n>>}, Verdict(c)),
         UNCHANGED <<stored, forwards, ending, sock, page, ran, given, upsets>>
  PROVE  AgentInv'
  <1> DEFINE id == IdOf[c]
             o == Verdict(c)
  <1>1. ClientOk /\ RelayOk /\ WireOk /\ PageOk /\ TruthOk /\ id \in Ids
    BY Bounds DEF AgentInv
  <1>2. o \in Outcomes /\ (o.code = "OK" => o.pay = PayloadOf[c] /\ PayloadOf[c] \in RanPays(IdOf[c]))
    BY <1>1, VerdictGood
  <1>3. ClientOk' /\ \A d \in Calls : GoodOut(d)'
    <2> DEFINE H == {<<c, n>>}
    <2>1. AnswerAll(H, o) /\ arrived' \subseteq arrived /\ ran' = ran
      OBVIOUS
    <2>2. \A d \in Calls : \A k : <<d, k>> \in H => d = c
      OBVIOUS
    <2> HIDE DEF H, o
    <2>3. o.code = "OK" => \A d \in Calls : \A k : <<d, k>> \in H =>
                            o.pay = PayloadOf[d] /\ PayloadOf[d] \in RanPays(IdOf[d])
      BY <1>2, <2>2
    <2>4. QED BY <1>1, <1>2, <2>1, <2>3, AnswerAllGood
  <1>4. /\ session' \in Session /\ session'.status = session.status
        /\ session'.cache = session.cache /\ session'.pending[id] = Held(id)
        /\ \A i \in Ids \ {id} : session'.pending[i] = session.pending[i]
    BY <1>1, LookedGood
  <1>5. ASSUME NEW i \in Ids PROVE Mirrors(session', stored', i)
    <2>1. Mirrors(session, stored, i)
      BY <1>1 DEF RelayOk
    <2>2. CASE i # id
      BY <1>4, <2>1, <2>2 DEF Mirrors, Undone
    <2>3. CASE i = id /\ session.pending[id] = None /\ stored.ledger[id] # None
      <3>1. session'.pending[id] = [pay |-> stored.ledger[id], done |-> TRUE]
        BY <1>4, <2>3 DEF Held
      <3>2. session'.pending[id].done /\ session'.pending[id].pay = stored.ledger[id]
        BY <3>1
      <3>3. QED BY <1>4, <2>1, <2>3, <3>2 DEF Mirrors, Undone
    <2>4. CASE i = id /\ ~(session.pending[id] = None /\ stored.ledger[id] # None)
      <3>1. session'.pending[id] = session.pending[id]
        BY <1>4, <2>4 DEF Held
      <3>2. QED BY <1>4, <2>1, <2>4, <3>1 DEF Mirrors, Undone
    <2>5. QED BY <2>2, <2>3, <2>4
  <1>6. \A i \in Ids : GoodForward(forwards[i], i)'
    BY <1>1, <1>4 DEF RelayOk, GoodForward, Live
  <1>7. RelayOk'
    BY <1>1, <1>4, <1>5, <1>6 DEF RelayOk, Live
  <1>8. KeepsWrites
    BY <1>4 DEF KeepsWrites, Holds, Live
  <1>9. WireOk' /\ PageOk'
    BY <1>1, <1>8, WireUnchanged
  <1>10. \A i \in Ids : GoodCache(i)'
    BY <1>1, <1>4 DEF TruthOk, GoodCache, RanPays
  <1>11. QED BY <1>3, <1>7, <1>9, <1>10 DEF AgentInv, TruthOk

(* No editor is attached: the request is dropped from the tables.          *)
LEMMA BeginOffline ==
  ASSUME AgentInv, NEW c \in Calls, NEW n, Verdict(c) = None, Open = {},
         arrived' = arrived \ {<<c, n>>},
         Persist(With(IdOf[c], None)),
         AnswerAll({<<c, n>>}, Outcome("EDITOR_OFFLINE")),
         UNCHANGED <<forwards, ending, sock, page, ran, given, upsets>>
  PROVE  AgentInv'
  <1> DEFINE id == IdOf[c]
  <1>1. ClientOk /\ RelayOk /\ WireOk /\ PageOk /\ TruthOk
    BY DEF AgentInv
  <1>2. /\ Live /\ id \in Ids /\ stored.ledger[id] = None
        /\ forwards[id] = None /\ id \notin given
    BY <1>1, Proceeds
  <1>3. Outcome("EDITOR_OFFLINE") \in Outcomes /\ Outcome("EDITOR_OFFLINE").code # "OK"
    BY UncertainGood DEF Codes
  <1>4. ClientOk' /\ \A d \in Calls : GoodOut(d)'
    <2>1. arrived' \subseteq arrived /\ ran' = ran
      OBVIOUS
    <2>2. QED BY <1>1, <1>3, <2>1, AnswerAllGood
  <1>5. PICK s : s = With(id, None)
    OBVIOUS
  <1>6. /\ s \in Session /\ s.status # "ended" /\ s.cache = session.cache
        /\ s.pending[id] = None /\ \A i \in Ids \ {id} : s.pending[i] = session.pending[i]
    <2> DEFINE e == None
    <2>1. e \in Entry \cup {None} /\ s = With(id, e)
      BY <1>5
    <2> HIDE DEF e, id
    <2>2. /\ s \in Session /\ s.status = session.status /\ s.cache = session.cache
          /\ s.pending[id] = e /\ \A i \in Ids \ {id} : s.pending[i] = session.pending[i]
      BY <1>1, <1>2, <2>1, LookedWith
    <2>3. QED BY <1>2, <2>2 DEF Live, e
  <1>7. Persist(s)
    BY <1>5
  <1>8. Mirrors(session', stored', id)
    BY <1>1, <1>2, <1>6, <1>7, DroppedMirrors DEF RelayOk
  <1>9. Untouched(s, {id}) /\ Touched({id})
    BY <1>2, <1>6, <1>8 DEF Untouched, Touched
  <1>10. forwards' \in [Ids -> Forward \cup {None}] /\ given' \subseteq Ids /\ ending' = ending
    BY <1>1 DEF RelayOk
  <1>11. RelayOk' /\ session'.cache = s.cache
    BY <1>1, <1>2, <1>6, <1>7, <1>9, <1>10, RelayLive
  <1>12. ASSUME NEW t \in Sockets
         PROVE  Settles(t) /\ Knows(t) /\ GoodSocket(t)' /\ sock'[t].relay # "open"
    <2>1. GoodSocket(t)'
      BY <1>1 DEF WireOk, GoodSocket
    <2>2. sock'[t].relay # "open"
      BY DEF Open
    <2>3. QED BY <2>1, <2>2 DEF Settles, Knows, Requests, Successes
  <1>13. WireOk'
    BY <1>1, <1>12, WireSettles DEF WireOk
  <1>14. PageOk' /\ \A i \in Ids : GoodCache(i)'
    BY <1>1, <1>6, <1>11 DEF PageOk, TruthOk, GoodCache, RanPays
  <1>15. QED BY <1>4, <1>11, <1>13, <1>14 DEF AgentInv, TruthOk

(* Forwarded: what is told to the page is what is stored.                  *)
LEMMA BeginForwarded ==
  ASSUME AgentInv, NEW c \in Calls, NEW n \in Attempts, Verdict(c) = None,
         NEW s \in Open, arrived' = arrived \ {<<c, n>>},
         forwards' = [forwards EXCEPT ![IdOf[c]] = [call |-> c, n |-> n, sock |-> s]],
         sock' = Tell(s, [kind |-> "request", id |-> IdOf[c], pay |-> PayloadOf[c]]),
         Persist(With(IdOf[c], [pay |-> PayloadOf[c], done |-> FALSE])),
         UNCHANGED <<call, ending, page, ran, given, upsets>>
  PROVE  AgentInv'
  <1> DEFINE id == IdOf[c]
             pay == PayloadOf[c]
  <1>0. PICK m : m = [kind |-> "request", id |-> id, pay |-> pay]
    OBVIOUS
  <1>1. ClientOk /\ RelayOk /\ WireOk /\ PageOk /\ TruthOk /\ s \in Sockets
    BY DEF AgentInv, Open
  <1>2. /\ Live /\ id \in Ids /\ stored.ledger[id] = None
        /\ stored.pending[id] \in {None, pay}
        /\ forwards[id] = None /\ id \notin given /\ pay \in Payloads /\ pay # None
    BY <1>1, Proceeds, Bounds
  <1>3. m \in Messages /\ m.kind = "request" /\ m.id = id /\ m.pay = pay
    BY <1>0, <1>2 DEF Messages
  <1>4. PICK e : e = [pay |-> pay, done |-> FALSE]
    OBVIOUS
  <1>5. PICK k : k = With(id, e)
    OBVIOUS
  <1>6. Persist(k) /\ e \in Entry \cup {None}
    BY <1>2, <1>4, <1>5 DEF Entry
  <1>7. PICK f : f = [call |-> c, n |-> n, sock |-> s]
    OBVIOUS
  <1>8. f \in Forward /\ f.call = c /\ forwards' = [forwards EXCEPT ![id] = f]
    BY <1>1, <1>7 DEF Forward
  <1>9. sock' = Tell(s, m)
    BY <1>0
  <1>10. k \in Session /\ k.status # "ended" /\ k.cache = session.cache /\ k.pending[id] = e
         /\ \A i \in Ids \ {id} : k.pending[i] = session.pending[i]
    <2> HIDE DEF id, pay
    <2>1. QED BY <1>1, <1>2, <1>5, <1>6, LookedWith DEF Live
  <1>11. /\ Mirrors(session', stored', id) /\ Holds(id)
         /\ stored'.pending[id] = pay /\ stored'.ledger[id] = None
    <2>1. stored \in Storage /\ k.pending[id] = [pay |-> pay, done |-> FALSE]
      BY <1>1, <1>4, <1>10 DEF RelayOk
    <2> HIDE DEF id, pay
    <2>2. QED BY <1>2, <1>6, <1>10, <2>1, BegunMirrors
  <1>12. /\ forwards' \in [Ids -> Forward \cup {None}] /\ forwards'[id] = f
         /\ \A i \in Ids \ {id} : forwards'[i] = forwards[i]
         /\ given' \subseteq Ids /\ given' = given /\ ending' = ending
    BY <1>1, <1>2, <1>8 DEF RelayOk
  <1>13. Untouched(k, {id}) /\ Touched({id})
    BY <1>2, <1>8, <1>10, <1>11, <1>12 DEF Untouched, Touched
  <1>14. /\ RelayOk' /\ session'.status = k.status /\ session'.cache = k.cache
         /\ \A i \in Ids \ {id} : Holds(i)
    BY <1>1, <1>2, <1>6, <1>10, <1>12, <1>13, RelayLive
  <1>15. KeepsWrites
    BY <1>2, <1>11, <1>14 DEF KeepsWrites
  <1>16. /\ sock' \in [Sockets -> Socket]
         /\ sock'[s].relay = sock[s].relay /\ sock'[s].page = sock[s].page
         /\ sock'[s].up = sock[s].up
         /\ In(sock'[s].down) \subseteq In(sock[s].down) \cup {m}
         /\ ~sock[s].page => sock'[s].down = sock[s].down
         /\ \A t \in Sockets \ {s} : sock'[t] = sock[t]
    <2>1. /\ Tell(s, m) \in [Sockets -> Socket]
          /\ Tell(s, m)[s].relay = sock[s].relay /\ Tell(s, m)[s].page = sock[s].page
          /\ Tell(s, m)[s].up = sock[s].up
          /\ In(Tell(s, m)[s].down) \subseteq In(sock[s].down) \cup {m}
          /\ ~sock[s].page => Tell(s, m)[s].down = sock[s].down
          /\ \A t \in Sockets \ {s} : Tell(s, m)[t] = sock[t]
      BY <1>1, <1>3, TellGood
    <2>2. QED BY <1>9, <2>1
  <1>17. \A t \in Sockets : Knows(t)
    BY DEF Knows
  <1>18. ASSUME NEW t \in Sockets PROVE GoodSocket(t)' /\ GoodTraffic(t)'
    <2>1. GoodSocket(t)'
      BY <1>1, <1>16 DEF WireOk, GoodSocket
    <2>2. \A i \in Ids : RanPays(i) \subseteq RanPays(i)'
      BY DEF RanPays
    <2>3. CASE t # s
      <3>1. Settles(t)
        BY <1>16, <2>3 DEF Settles, Requests, Successes
      <3>2. \A r \in Requests(t)' : r.id \in given' => r.id \in given
        BY <1>12
      <3>3. QED BY <1>1, <1>15, <1>17, <2>1, <2>2, <3>1, <3>2, TrafficKept
    <2>4. CASE t = s
      <3>1. ASSUME NEW r \in Requests(s)' PROVE GoodRequest(s, r)'
        <4>1. CASE r \in Requests(s)
          BY <1>1, <1>12, <1>15, <1>16, <1>17, <4>1, RequestKept
        <4>2. CASE r \notin Requests(s)
          <5>1. r = m
            BY <1>16, <4>2 DEF Requests
          <5>2. HeldPay(stored', id) = pay
            BY <1>11 DEF HeldPay
          <5>3. QED BY <1>2, <1>3, <1>12, <5>1, <5>2 DEF GoodRequest
        <4>3. QED BY <4>1, <4>2
      <3>2. ASSUME NEW r \in Successes(s)' PROVE GoodSuccess(s, r)'
        <4>1. r \in Successes(s) /\ r.id \in Ids
          BY <1>1, <1>16, SocketTyped DEF Successes
        <4>2. QED BY <1>1, <1>15, <1>16, <1>17, <2>2, <4>1, SuccessKept
      <3>3. QED BY <2>1, <2>4, <3>1, <3>2 DEF GoodTraffic
    <2>5. QED BY <2>3, <2>4
  <1>19. WireOk'
    BY <1>16, <1>18 DEF WireOk
  <1>20. PageOk' /\ ClientOk' /\ TruthOk'
    <2>1. session'.cache = session.cache
      BY <1>10, <1>14
    <2>2. QED BY <1>1, <2>1 DEF PageOk, ClientOk, TruthOk, GoodCache, GoodOut, RanPays
  <1>21. QED BY <1>14, <1>19, <1>20 DEF AgentInv

LEMMA BeginStep == ASSUME AgentInv, NEW c \in Calls, NEW n \in Attempts, Begin(c, n) PROVE AgentInv'
  <1>1. arrived' = arrived \ {<<c, n>>} /\ UNCHANGED <<ending, page, ran, given, upsets>>
    BY DEF Begin, history
  <1>2. CASE /\ Verdict(c) # None /\ session' = Looked(IdOf[c])
             /\ AnswerAll({<<c, n>>}, Verdict(c))
             /\ UNCHANGED <<stored, forwards, sock>>
    BY <1>1, <1>2, BeginAnswered
  <1>3. CASE /\ Verdict(c) = None /\ Open = {}
             /\ Persist(With(IdOf[c], None))
             /\ AnswerAll({<<c, n>>}, Outcome("EDITOR_OFFLINE"))
             /\ UNCHANGED <<forwards, sock>>
    BY <1>1, <1>3, BeginOffline
  <1>4. ASSUME Verdict(c) = None, NEW s \in Open,
               forwards' = [forwards EXCEPT ![IdOf[c]] = [call |-> c, n |-> n, sock |-> s]],
               sock' = Tell(s, [kind |-> "request", id |-> IdOf[c], pay |-> PayloadOf[c]]),
               Persist(With(IdOf[c], [pay |-> PayloadOf[c], done |-> FALSE])),
               UNCHANGED call
        PROVE  AgentInv'
    BY <1>1, <1>4, BeginForwarded
  <1>5. QED BY <1>2, <1>3, <1>4 DEF Begin, Looked, With

-------------------------------------------------------------------------------
LEMMA InitGood == Init => AgentInv
  <1>1. SUFFICES ASSUME Init PROVE AgentInv
    OBVIOUS
  <1>2. Unsent \in CallState /\ GoodCall(Unsent) /\ Unsent.out = None
    BY Bounds DEF Unsent, CallState, GoodCall
  <1>3. ClientOk
    BY <1>1, <1>2 DEF Init, ClientOk
  <1> DEFINE P == [id \in Ids |-> None]
  <1>4. P \in [Ids -> Entry \cup {None}] /\ P \in [Ids -> CacheEntry \cup {None}]
        /\ P \in [Ids -> Payloads \cup {None}] /\ P \in [Ids -> Forward \cup {None}]
        /\ \A id \in Ids : P[id] = None
    OBVIOUS
  <1>5. /\ session = [status |-> "active", pending |-> P, cache |-> P] /\ forwards = P
        /\ stored = [status |-> "active", pending |-> P, ledger |-> P]
    BY <1>1 DEF Init, Nothing
  <1> HIDE DEF P
  <1>6. /\ session \in Session /\ session.status = "active" /\ session.pending = P
        /\ session.cache = P
        /\ stored \in Storage /\ stored.status = "active" /\ stored.pending = P
        /\ stored.ledger = P
    BY <1>4, <1>5 DEF Session, Storage
  <1>7. RelayOk
    BY <1>1, <1>4, <1>5, <1>6 DEF Init, RelayOk, Mirrors, Undone, GoodForward, Live
  <1> DEFINE k == [relay |-> "none", page |-> FALSE, down |-> <<>>, up |-> <<>>]
  <1>8. k \in Socket /\ k.relay = "none" /\ k.page = FALSE /\ k.down = <<>> /\ k.up = <<>>
    <2>1. <<>> \in Seq(Messages) /\ <<>> \in Seq(Answers)
      OBVIOUS
    <2>2. QED BY <2>1 DEF Socket
  <1> HIDE DEF k
  <1>9. sock = [s \in Sockets |-> k]
    BY <1>1 DEF Init, k
  <1>10. Fresh \in Tables /\ Fresh.sock = 0 /\ \A id \in Ids : Fresh.known[id] = None
    BY Bounds DEF Fresh, Tables
  <1>11. page = [no |-> 1, tab |-> Fresh] /\ ran = [id \in Ids |-> <<>>]
    BY <1>1 DEF Init
  <1>12. PageOk
    <2>1. page \in [no : 1 .. MaxPages, tab : Tables]
      BY <1>10, <1>11, Bounds
    <2>2. \A id \in Ids : In(ran[id]) = {} /\ page.tab.known[id] = None
      BY <1>10, <1>11, InEmpty
    <2>3. <<>> \in Seq(Runs)
      OBVIOUS
    <2>4. ran \in [Ids -> Seq(Runs)]
      BY <1>11, <2>3
    <2>5. QED BY <2>1, <2>2, <2>4 DEF PageOk
  <1>13. ASSUME NEW s \in Sockets PROVE GoodSocket(s) /\ GoodTraffic(s)
    <2>1. Requests(s) = {} /\ Successes(s) = {} /\ s # 0
      BY <1>8, <1>9, InEmpty DEF Requests, Successes, Sockets
    <2>2. GoodSocket(s)
      BY <1>8, <1>9, <1>10, <1>11, <2>1 DEF GoodSocket
    <2>3. QED BY <2>1, <2>2 DEF GoodTraffic
  <1>14. WireOk
    BY <1>8, <1>9, <1>13 DEF WireOk
  <1>15. TruthOk
    BY <1>1, <1>2, <1>4, <1>6 DEF Init, TruthOk, GoodCache, GoodOut
  <1>16. upsets \in 0 .. MaxUpsets
    BY <1>1, Bounds DEF Init
  <1>17. QED BY <1>3, <1>7, <1>12, <1>14, <1>15, <1>16 DEF AgentInv

LEMMA NextGood == AgentInv /\ [Next]_vars => AgentInv'
  <1>1. SUFFICES ASSUME AgentInv, [Next]_vars PROVE AgentInv'
    OBVIOUS
  <1>2. ASSUME NEW c \in Calls, Client(c) \/ \E n \in Attempts : Begin(c, n)
        PROVE  AgentInv'
    BY <1>1, <1>2, SendStep, LoseStep, WakeStep, BeginStep DEF Client
  <1>3. ASSUME NEW id \in Ids, Timeout(id) \/ Evict(id) \/ Shed(id)
        PROVE  AgentInv'
    BY <1>1, <1>3, TimeoutStep, EvictStep, ShedStep
  <1>4. ASSUME NEW s \in Sockets, Wire(s)
        PROVE  AgentInv'
    BY <1>1, <1>4, ReceiveStep, ClosedStep, ConnectStep, HandleStep, HearEndStep, DropStep DEF Wire
  <1>5. CASE Human \/ Clear
    BY <1>1, <1>5, PauseStep, ResumeStep, DisconnectStep, ReloadStep, ClearStep DEF Human
  <1>6. CASE \E asleep \in BOOLEAN : Restart(asleep)
    BY <1>1, <1>6, RestartStep
  <1>7. CASE UNCHANGED vars
    <2>1. UNCHANGED <<call, arrived, session, forwards, stored, ending, sock, page, ran, given, upsets>>
      BY <1>7 DEF vars, relayVars, history
    <2>2. RelayOk' /\ KeepsWrites
      BY <1>1, <2>1, RelayUnchanged DEF AgentInv
    <2>3. WireOk' /\ PageOk'
      BY <1>1, <2>1, <2>2, WireUnchanged DEF AgentInv
    <2>4. ClientOk' /\ TruthOk'
      BY <1>1, <2>1 DEF AgentInv, ClientOk, TruthOk, GoodCache, GoodOut, RanPays
    <2>5. QED BY <1>1, <2>1, <2>2, <2>3, <2>4 DEF AgentInv
  <1>8. QED BY <1>1, <1>2, <1>3, <1>4, <1>5, <1>6, <1>7 DEF Next

(* The invariant that ties the four memories of a write together.          *)
THEOREM AgentSafe == Spec => []AgentInv
  BY InitGood, NextGood, PTL DEF Spec

(* Every part of the session keeps its shape.                              *)
THEOREM TypeOKHolds == Spec => []TypeOK
  <1>1. AgentInv => TypeOK
    BY DEF AgentInv, ClientOk, RelayOk, WireOk, PageOk, GoodSocket, TypeOK
  <1>2. QED BY <1>1, AgentSafe, PTL

(* The answered end of a session is final: nothing of it is active or      *)
(* stored again.                                                           *)
THEOREM EndIsFinalHolds == Spec => []EndIsFinal
  <1>1. AgentInv => EndIsFinal
    BY DEF AgentInv, RelayOk, EndIsFinal, Live
  <1>2. QED BY <1>1, AgentSafe, PTL

(* Whoever is told OK made the payload that ran.                           *)
THEOREM AnswersAreOwnHolds == Spec => []AnswersAreOwn
  <1>1. ASSUME AgentInv, NEW c \in Calls, call[c].out # None, call[c].out.code = "OK"
        PROVE  /\ call[c].out.pay = PayloadOf[c]
               /\ \E k \in 1 .. Len(ran[IdOf[c]]) : ran[IdOf[c]][k].pay = PayloadOf[c]
    <2>1. call[c].out.pay = PayloadOf[c] /\ PayloadOf[c] \in RanPays(IdOf[c])
      BY <1>1 DEF AgentInv, TruthOk, GoodOut
    <2>2. QED BY <2>1 DEF RanPays, In
  <1>2. AgentInv => AnswersAreOwn
    BY <1>1 DEF AnswersAreOwn
  <1>3. QED BY <1>2, AgentSafe, PTL

(* The page runs a request only under an ID whose result the relay has not *)
(* taken, and that this page has not run.                                  *)
LEMMA RunIsFresh ==
  ASSUME AgentInv, Next, NEW id \in Ids, ran'[id] # ran[id]
  PROVE  id \notin given /\ \A k \in 1 .. Len(ran[id]) : ran[id][k].page < page.no
  <1>1. PICK s \in Sockets : Handle(s)
    BY DEF Next, Client, Wire, Human, Send, Lose, Wake, Begin, Timeout, Evict, Shed, Receive,
           Closed, Connect, HearEnd, Drop, Pause, Resume, Disconnect, Reload, Clear, Restart,
           history
  <1>2. PICK m : m = Head(sock[s].down)
    OBVIOUS
  <1>3. /\ sock[s].down # <<>> /\ m.kind = "request" /\ page.tab.known[m.id] = None
        /\ ran' = [ran EXCEPT ![m.id] = Append(@, [pay |-> m.pay, page |-> page.no])]
    BY <1>1, <1>2 DEF Handle
  <1>4. m \in Requests(s) /\ m.id \in Ids
    <2>1. m \in In(sock[s].down)
      BY <1>2, <1>3, SocketTyped, InTail DEF AgentInv
    <2>2. m \in Requests(s)
      BY <1>3, <2>1 DEF Requests
    <2>3. QED BY <2>2, SocketTyped DEF AgentInv
  <1>5. m.id = id
    BY <1>3 DEF AgentInv, PageOk
  <1>6. id \notin given
    BY <1>3, <1>4, <1>5 DEF AgentInv, WireOk, GoodTraffic, GoodRequest
  <1>7. ASSUME NEW k \in 1 .. Len(ran[id]) PROVE ran[id][k].page < page.no
    <2>1. ran[id][k] \in In(ran[id]) /\ ran[id][k] \in Runs /\ PageOk
      BY RanPaysTyped DEF AgentInv, In
    <2>2. ran[id][k].page <= page.no /\ ran[id][k].page # page.no
      BY <1>3, <1>5, <2>1 DEF PageOk
    <2>3. ran[id][k].page \in Nat /\ page.no \in Nat
      BY <2>1 DEF Runs, PageOk
    <2>4. QED BY <2>2, <2>3
  <1>8. QED BY <1>6, <1>7

(* A completed write never runs again, and an uncertain one only on a page *)
(* that was loaded after its last run.                                     *)
THEOREM NeverRunsAgainHolds == Spec => NeverRunsAgain
  <1>1. AgentInv /\ [Next]_vars => [FreshRuns]_vars
    BY RunIsFresh DEF FreshRuns
  <1>2. QED BY <1>1, AgentSafe, PTL DEF Spec, NeverRunsAgain
===============================================================================
