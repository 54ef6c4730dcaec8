---------------------------- MODULE AgentSession ----------------------------
(***************************************************************************)
(* One Agent session: the client that retries a write under its request    *)
(* ID, the relay object (worker/agent-session-do.ts over the machine of    *)
(* packages/agent-adapter/src/session-state.ts), the sockets between the   *)
(* relay and the editor, and the editor page that runs the write.          *)
(*                                                                         *)
(* A write is known by its request ID and its payload; the ID is chosen by *)
(* the caller.  Four memories guard against a second run: the relay's      *)
(* result cache and pending table (lost at a restart), its stored ledger,  *)
(* and the page's own table (lost when the page is reloaded).              *)
(*                                                                         *)
(* Awaits on the object's own storage hold its input gate and its output   *)
(* gate, so a handler is cut into actions only where it awaits something   *)
(* else: the hash of the payload, the editor, the bucket.                  *)
(***************************************************************************)
EXTENDS Integers, Sequences

CONSTANTS
    Calls,            \* calls that clients make
    IdOf, PayloadOf,  \* the request ID and the payload of a call
    Retrying,         \* calls of the client library; others are bare HTTP
    Large,            \* payloads whose answer exceeds the relay's ceiling
    NetworkRetries,   \* session-transport.ts: networkRetryAttempts
    OfflineRetries,   \* session-transport.ts: length of offlineRetryDelaysMs
    MaxSockets, MaxPages,   \* bounds: connections, and loads of the page
    MaxUpsets,        \* bound: restarts of the object and pauses together
    None

Ids == {IdOf[c] : c \in Calls}
Payloads == {PayloadOf[c] : c \in Calls}
Attempts == 1 .. 1 + NetworkRetries + OfflineRetries
Sockets == 1 .. MaxSockets

ASSUME CallsAssumption ==
    /\ DOMAIN IdOf = Calls
    /\ DOMAIN PayloadOf = Calls
    /\ None \notin Payloads
    /\ Retrying \subseteq Calls
ASSUME BoundsAssumption ==
    /\ NetworkRetries \in Nat
    /\ OfflineRetries \in Nat
    /\ MaxSockets \in Nat
    /\ MaxPages \in Nat \ {0}
    /\ MaxUpsets \in Nat

VARIABLES
    call,      \* per call: what its client does, and the answer it got
    arrived,   \* handlers of the relay that await the hash of their payload
    session,   \* the machine: status, pending table and result cache
    forwards,  \* per request ID: the handler and the socket that wait
    stored,    \* the object's storage: status, pending table, ledger
    ending,    \* how far the end of the session has come
    sock,      \* per socket: both sides and the messages under way
    page,      \* the editor page: its number, socket and request tables
    ran,       \* history: the runs of each request ID
    given,     \* history: request IDs that were answered with their result
    upsets     \* how many restarts and pauses there were

relayVars == <<arrived, session, forwards, stored, ending>>
history == <<ran, given>>
vars == <<call, relayVars, sock, page, history, upsets>>

Outcome(code) == [code |-> code, pay |-> None]
Result(pay) == [code |-> "OK", pay |-> pay]

(* Answers that say the request was refused, and answers and losses after  *)
(* which its caller cannot tell whether it ran: EDITOR_DISCONNECTED,       *)
(* REQUEST_TIMEOUT, MESSAGE_TOO_LARGE, a lost connection.                  *)
Refused == Outcome("refused")
Uncertain == Outcome("uncertain")
Codes == {"OK", "refused", "uncertain", "EDITOR_OFFLINE",
          "REQUEST_ID_REUSED", "REQUEST_RESULT_UNAVAILABLE"}
Outcomes == [code : Codes, pay : Payloads \cup {None}]

(* The records that the tables hold beside None.                           *)
Entry == [pay : Payloads, done : BOOLEAN]
CacheEntry == [pay : Payloads, result : Outcomes]
Forward == [call : Calls, n : Attempts, sock : Sockets]
ASSUME NoneAssumption == None \notin Outcomes \cup Entry \cup CacheEntry \cup Forward

Unsent == [pc |-> "new", n |-> 0, net |-> 0, off |-> 0, out |-> None]
Over(o) == [Unsent EXCEPT !.pc = "done",
                          !.out = IF o.code = "OK" THEN o ELSE Uncertain]

Nothing == [status |-> "ended", pending |-> [id \in Ids |-> None],
            ledger |-> [id \in Ids |-> None]]
Fresh == [sock |-> 0, stopped |-> FALSE, known |-> [id \in Ids |-> None],
          cached |-> {}]

Init ==
    /\ call = [c \in Calls |-> Unsent]
    /\ arrived = {}
    /\ session = [status |-> "active", pending |-> [id \in Ids |-> None],
                  cache |-> [id \in Ids |-> None]]
    /\ forwards = [id \in Ids |-> None]
    /\ stored = [Nothing EXCEPT !.status = "active"]
    /\ ending = "no"
    /\ sock = [s \in Sockets |-> [relay |-> "none", page |-> FALSE,
                                  down |-> <<>>, up |-> <<>>]]
    /\ page = [no |-> 1, tab |-> Fresh]
    /\ ran = [id \in Ids |-> <<>>]
    /\ given = {}
    /\ upsets = 0

-----------------------------------------------------------------------------
(* The client: one call, its retries under the same request ID.            *)

Attempt(c, n) == arrived' = arrived \cup {<<c, n>>}

Send(c) ==
    /\ call[c].pc = "new"
    /\ call' = [call EXCEPT ![c] = [call[c] EXCEPT !.pc = "waiting", !.n = 1]]
    /\ Attempt(c, 1)
    /\ UNCHANGED <<session, forwards, stored, ending, sock, page, history, upsets>>

(* The client's fetch fails or runs out of time, whatever the relay does.  *)
Lose(c) ==
    /\ call[c].pc = "waiting"
    /\ IF c \in Retrying /\ call[c].net < NetworkRetries
       THEN /\ call' = [call EXCEPT ![c] =
                          [call[c] EXCEPT !.n = @ + 1, !.net = @ + 1]]
            /\ Attempt(c, call[c].n + 1)
       ELSE /\ call' = [call EXCEPT ![c] = Over(Uncertain)]
            /\ UNCHANGED arrived
    /\ UNCHANGED <<session, forwards, stored, ending, sock, page, history, upsets>>

(* The delay after EDITOR_OFFLINE is over.                                 *)
Wake(c) ==
    /\ call[c].pc = "sleeping"
    /\ call' = [call EXCEPT ![c] =
         [call[c] EXCEPT !.pc = "waiting", !.n = @ + 1, !.off = @ + 1]]
    /\ Attempt(c, call[c].n + 1)
    /\ UNCHANGED <<session, forwards, stored, ending, sock, page, history, upsets>>

(* What the client of c does with the answer o of the handler it awaits.   *)
Heard(c, o) ==
    IF /\ o.code = "EDITOR_OFFLINE"
       /\ c \in Retrying /\ call[c].off < OfflineRetries
    THEN [call[c] EXCEPT !.pc = "sleeping"]
    ELSE Over(o)

(* The answer o goes out for the handlers in H; clients that gave their    *)
(* attempt up do not hear it.                                              *)
AnswerAll(H, o) ==
    call' = [c \in Calls |->
               IF call[c].pc = "waiting" /\ <<c, call[c].n>> \in H
               THEN Heard(c, o) ELSE call[c]]

-----------------------------------------------------------------------------
(* The machine's ledger and the object's storage.                          *)

(* storeState: undone writes are stored with the state, completed ones     *)
(* each under a key of its own.                                            *)
Saved(s) ==
    [status  |-> s.status,
     pending |-> [id \in Ids |->
                    IF s.pending[id] # None /\ ~s.pending[id].done
                    THEN s.pending[id].pay ELSE None],
     ledger  |-> [id \in Ids |->
                    IF s.pending[id] # None /\ s.pending[id].done
                    THEN s.pending[id].pay ELSE stored.ledger[id]]]

(* forgetStoredRequests: what is stored leaves memory.                     *)
Forgetting(s) ==
    [s EXCEPT !.pending = [id \in Ids |->
        IF s.pending[id] # None /\ s.pending[id].done
        THEN None ELSE s.pending[id]]]

(* A broken variant of Persist: whatever ended in the meantime.            *)
PersistAnyway(s) == stored' = Saved(s) /\ session' = Forgetting(s)

(* persist: an ended session is deleted instead.                           *)
Persist(s) ==
    IF s.status = "ended"
    THEN stored' = Nothing /\ session' = s
    ELSE stored' = Saved(s) /\ session' = Forgetting(s)

(* A broken variant of Held: only the machine's own table is asked.        *)
HeldInMemory(id) == session.pending[id]

(* The stored record of a completed write is recalled for an ID that the   *)
(* machine does not hold.                                                  *)
Held(id) ==
    IF session.pending[id] = None /\ stored.ledger[id] # None
    THEN [pay |-> stored.ledger[id], done |-> TRUE]
    ELSE session.pending[id]

Active(id) == forwards[id] # None

(* beginRequest: the answer that needs no editor, or None to proceed.      *)
Verdict(c) ==
    LET id == IdOf[c]
        hit == session.cache[id]
        held == Held(id)
    IN  IF session.status # "active" THEN Refused
        ELSE IF hit # None
        THEN IF hit.pay = PayloadOf[c] THEN hit.result
             ELSE Outcome("REQUEST_ID_REUSED")
        ELSE IF held = None THEN None
        ELSE IF held.pay # PayloadOf[c] THEN Outcome("REQUEST_ID_REUSED")
        ELSE IF held.done THEN Outcome("REQUEST_RESULT_UNAVAILABLE")
        ELSE IF Active(id) THEN Refused
        ELSE None

-----------------------------------------------------------------------------
(* The relay: a request, its answer, its failures.                         *)

Open == {s \in Sockets : sock[s].relay = "open"}

(* One side of a socket k leaves it, and hears nothing more.               *)
Cut(k, relay) == [k EXCEPT !.relay = relay, !.up = <<>>]
Left(k) == [k EXCEPT !.page = FALSE, !.down = <<>>]

(* A broken variant of Tell: a socket the page has left still queues.      *)
TellAnyway(s, message) == [sock EXCEPT ![s].down = Append(@, message)]

Tell(s, message) == [sock EXCEPT ![s].down =
    IF sock[s].page THEN Append(@, message) ELSE @]

(* The hash is there: begin the request.  A refused or cached one is       *)
(* answered; another is recorded as pending, stored, and forwarded, or     *)
(* forgotten when no editor is attached.                                   *)
Begin(c, n) ==
    LET id == IdOf[c]
        verdict == Verdict(c)
        entry == [pay |-> PayloadOf[c], done |-> FALSE]
        looked == [session EXCEPT !.pending[id] = Held(id)]
    IN
    /\ <<c, n>> \in arrived
    /\ arrived' = arrived \ {<<c, n>>}
    /\ \/ /\ verdict # None
          /\ session' = looked
          /\ AnswerAll({<<c, n>>}, verdict)
          /\ UNCHANGED <<stored, forwards, sock>>
       \/ /\ verdict = None
          /\ Open = {}
          /\ Persist([looked EXCEPT !.pending[id] = None])
          /\ AnswerAll({<<c, n>>}, Outcome("EDITOR_OFFLINE"))
          /\ UNCHANGED <<forwards, sock>>
       \/ /\ verdict = None
          /\ \E s \in Open :
               /\ forwards' = [forwards EXCEPT ![id] =
                                 [call |-> c, n |-> n, sock |-> s]]
               /\ sock' = Tell(s, [kind |-> "request", id |-> id,
                                   pay |-> PayloadOf[c]])
          /\ Persist([looked EXCEPT !.pending[id] = entry])
          /\ UNCHANGED call
    /\ UNCHANGED <<ending, page, history, upsets>>

(* completeRequest: identity in the pending table, result in the cache.    *)
Completed(id, result) ==
    [session EXCEPT
        !.pending[id] = [pay |-> session.pending[id].pay, done |-> TRUE],
        !.cache[id] = [pay |-> session.pending[id].pay, result |-> result]]

(* A broken variant of Reject: what was forwarded is forgotten.            *)
RejectAndForget(F) ==
    /\ forwards' = [id \in Ids |-> IF id \in F THEN None ELSE forwards[id]]
    /\ AnswerAll({<<forwards[id].call, forwards[id].n>> : id \in F}, Uncertain)
    /\ Persist([session EXCEPT !.pending =
                  [id \in Ids |-> IF id \in F THEN None ELSE @[id]]])

(* Forwards are rejected: the requests stay pending and their fate is      *)
(* unknown.                                                                *)
Reject(F) ==
    /\ forwards' = [id \in Ids |-> IF id \in F THEN None ELSE forwards[id]]
    /\ AnswerAll({<<forwards[id].call, forwards[id].n>> : id \in F}, Uncertain)
    /\ Persist(session)

Waiting == {id \in Ids : forwards[id] # None}

(* A message of the editor: too large a one fails every forward; an answer *)
(* counts only on the socket its request went out on.                      *)
Receive(s) ==
    LET message == Head(sock[s].up)
        id == message.id
    IN
    /\ sock[s].relay = "open"
    /\ sock[s].up # <<>>
    /\ sock' = [sock EXCEPT ![s].up = Tail(@)]
    /\ \/ /\ session.status = "ended"
          /\ UNCHANGED <<call, session, forwards, stored, given>>
       \/ /\ session.status # "ended"
          /\ message.large
          /\ Reject(Waiting)
          /\ UNCHANGED given
       \/ /\ session.status # "ended"
          /\ ~message.large
          /\ Active(id) /\ forwards[id].sock = s
          /\ forwards' = [forwards EXCEPT ![id] = None]
          /\ Persist(Completed(id, message.result))
          /\ AnswerAll({<<forwards[id].call, forwards[id].n>>}, message.result)
          /\ given' = IF message.result.code = "OK" THEN given \cup {id}
                      ELSE given
       \/ /\ session.status # "ended"
          /\ ~message.large
          /\ ~(Active(id) /\ forwards[id].sock = s)
          /\ UNCHANGED <<call, session, forwards, stored, given>>
    /\ UNCHANGED <<arrived, ending, page, ran, upsets>>

Timeout(id) ==
    /\ Active(id)
    /\ Reject({id})
    /\ UNCHANGED <<arrived, ending, sock, page, history, upsets>>

(* webSocketClose: the forwards of that socket are rejected.               *)
Closed(s) ==
    /\ sock[s].relay \in {"open", "closing"}
    /\ sock' = [sock EXCEPT ![s] = Cut(@, "closed")]
    /\ Reject({id \in Waiting : forwards[id].sock = s})
    /\ UNCHANGED <<arrived, ending, page, history, upsets>>

(* An entry of the result cache is evicted or its time is over.            *)
Evict(id) ==
    /\ session.cache[id] # None
    /\ session' = [session EXCEPT !.cache[id] = None]
    /\ UNCHANGED <<call, arrived, forwards, stored, ending, sock, page,
                   history, upsets>>

Pause ==
    /\ session.status = "active"
    /\ upsets < MaxUpsets
    /\ upsets' = upsets + 1
    /\ Persist([session EXCEPT !.status = "paused"])
    /\ UNCHANGED <<call, arrived, forwards, ending, sock, page, history>>

Resume ==
    /\ session.status = "paused"
    /\ Persist([session EXCEPT !.status = "active"])
    /\ UNCHANGED <<call, arrived, forwards, ending, sock, page, history, upsets>>

(* disconnect: the machine is revoked and the editor told; the downloads   *)
(* are deleted from the bucket before the storage is, with other events in *)
(* between.                                                                *)
Disconnect ==
    /\ session.status # "ended"
    /\ session' = [session EXCEPT !.status = "ended"]
    /\ ending' = "clearing"
    /\ sock' = [s \in Sockets |->
                  IF s \in Open THEN Tell(s, [kind |-> "revoked"])[s]
                  ELSE sock[s]]
    /\ UNCHANGED <<call, arrived, forwards, stored, page, history, upsets>>

Clear ==
    /\ ending = "clearing"
    /\ stored' = Nothing
    /\ ending' = "over"
    /\ UNCHANGED <<call, arrived, session, forwards, sock, page, history, upsets>>

(* The object is evicted while nothing runs, and its sockets stay; or it   *)
(* is reset, and every handler and socket is cut off.  What it restores is *)
(* the stored state.                                                       *)
Restart(asleep) ==
    /\ upsets < MaxUpsets
    /\ upsets' = upsets + 1
    /\ asleep => arrived = {} /\ Waiting = {} /\ ending # "clearing"
    /\ arrived' = {}
    /\ forwards' = [id \in Ids |-> None]
    /\ session' = [status |-> stored.status,
                   pending |-> [id \in Ids |->
                      IF stored.pending[id] = None THEN None
                      ELSE [pay |-> stored.pending[id], done |-> FALSE]],
                   cache |-> [id \in Ids |-> None]]
    /\ ending' = IF ending = "clearing" THEN "no" ELSE ending
    /\ sock' = IF asleep THEN sock
               ELSE [s \in Sockets |->
                       IF sock[s].relay = "none" THEN sock[s]
                       ELSE Cut(sock[s], "closed")]
    /\ UNCHANGED <<call, stored, page, history>>

-----------------------------------------------------------------------------
(* The editor page.                                                        *)

(* connectEditor: the new socket replaces the open ones.                   *)
Connect(s) ==
    /\ page.tab.sock = 0 /\ ~page.tab.stopped
    /\ session.status # "ended"
    /\ sock[s].relay = "none"
    /\ \A t \in Sockets : t < s => sock[t].relay # "none"
    /\ sock' = [t \in Sockets |->
                  IF t = s THEN [relay |-> "open", page |-> TRUE,
                                 down |-> <<>>, up |-> <<>>]
                  ELSE IF t \in Open
                  THEN Cut(sock[t], "closing")
                  ELSE sock[t]]
    /\ page' = [page EXCEPT !.tab.sock = s]
    /\ UNCHANGED <<call, relayVars, history, upsets>>

Answer(s, message) == [sock EXCEPT ![s] = [sock[s] EXCEPT
    !.down = Tail(@),
    !.up = IF sock[s].relay = "open" THEN Append(@, message) ELSE @]]

(* The result of a request whose ID the page knows.                        *)
Remembered(id, pay) ==
    IF page.tab.known[id] # pay THEN Outcome("REQUEST_ID_REUSED")
    ELSE IF id \in page.tab.cached THEN Result(pay)
    ELSE Outcome("REQUEST_RESULT_UNAVAILABLE")

(* The page handles the next request on its socket, in one go.             *)
Handle(s) ==
    LET message == Head(sock[s].down)
        id == message.id
        answer(result) == [id |-> id, result |-> result,
                           large |-> result.pay \in Large]
    IN
    /\ page.tab.sock = s
    /\ sock[s].down # <<>>
    /\ message.kind = "request"
    /\ \/ /\ page.tab.known[id] # None
          /\ sock' = Answer(s, answer(Remembered(id, message.pay)))
          /\ UNCHANGED <<page, ran>>
       \/ /\ page.tab.known[id] = None
          /\ ran' = [ran EXCEPT ![id] =
                       Append(@, [pay |-> message.pay, page |-> page.no])]
          /\ page' = [page EXCEPT !.tab =
                       [page.tab EXCEPT !.known[id] = message.pay,
                                        !.cached = @ \cup {id}]]
          /\ sock' = Answer(s, answer(Result(message.pay)))
    /\ UNCHANGED <<call, relayVars, given, upsets>>

(* The page hears that the session is over, and never reconnects.          *)
HearEnd(s) ==
    /\ page.tab.sock = s
    /\ sock[s].down # <<>>
    /\ Head(sock[s].down).kind = "revoked"
    /\ page' = [page EXCEPT !.tab =
                  [page.tab EXCEPT !.sock = 0, !.stopped = TRUE]]
    /\ sock' = [sock EXCEPT ![s] = Left(@)]
    /\ UNCHANGED <<call, relayVars, history, upsets>>

(* The page's side of its socket closes: the network, a replaced socket, a *)
(* probe without an answer.                                                *)
Drop(s) ==
    /\ page.tab.sock = s
    /\ page' = [page EXCEPT !.tab.sock = 0]
    /\ sock' = [sock EXCEPT ![s] = Left(@)]
    /\ UNCHANGED <<call, relayVars, history, upsets>>

(* The page evicts a result from its cache, and keeps the hash.            *)
Shed(id) ==
    /\ id \in page.tab.cached
    /\ page' = [page EXCEPT !.tab.cached = @ \ {id}]
    /\ UNCHANGED <<call, relayVars, sock, history, upsets>>

(* The tab is reloaded: its tables are gone, the Project and the session's *)
(* credential are not.                                                     *)
Reload ==
    /\ page.no < MaxPages
    /\ ~page.tab.stopped
    /\ page' = [no |-> page.no + 1, tab |-> Fresh]
    /\ sock' = [s \in Sockets |->
                  IF s = page.tab.sock
                  THEN Left(sock[s])
                  ELSE sock[s]]
    /\ UNCHANGED <<call, relayVars, history, upsets>>

-----------------------------------------------------------------------------

Client(c) == Send(c) \/ Lose(c) \/ Wake(c)
Human == Pause \/ Resume \/ Disconnect \/ Reload
Wire(s) == Receive(s) \/ Closed(s) \/ Connect(s) \/ Handle(s) \/ HearEnd(s)
           \/ Drop(s)

Next ==
    \/ \E c \in Calls : Client(c) \/ \E n \in Attempts : Begin(c, n)
    \/ \E id \in Ids : Timeout(id) \/ Evict(id) \/ Shed(id)
    \/ \E s \in Sockets : Wire(s)
    \/ Human \/ Clear
    \/ \E asleep \in BOOLEAN : Restart(asleep)

Spec == Init /\ [][Next]_vars

-----------------------------------------------------------------------------

CallState == [pc : {"new", "waiting", "sleeping", "done"},
              n : 0 .. 1 + NetworkRetries + OfflineRetries,
              net : 0 .. NetworkRetries, off : 0 .. OfflineRetries,
              out : Outcomes \cup {None}]
Session == [status : {"active", "paused", "ended"},
            pending : [Ids -> Entry \cup {None}],
            cache : [Ids -> CacheEntry \cup {None}]]
Storage == [status : {"active", "paused", "ended"},
            pending : [Ids -> Payloads \cup {None}],
            ledger : [Ids -> Payloads \cup {None}]]
Messages == [kind : {"request"}, id : Ids, pay : Payloads]
            \cup [kind : {"revoked"}]
Answers == [id : Ids, result : Outcomes, large : BOOLEAN]
Socket == [relay : {"none", "open", "closing", "closed"}, page : BOOLEAN,
           down : Seq(Messages), up : Seq(Answers)]
Tables == [sock : 0 .. MaxSockets, stopped : BOOLEAN,
           known : [Ids -> Payloads \cup {None}], cached : SUBSET Ids]
Runs == [pay : Payloads, page : 1 .. MaxPages]

(* The state of every part is of its declared shape; the queues of a       *)
(* socket belong to sides that are open.                                   *)
TypeOK ==
    /\ call \in [Calls -> CallState]
    /\ arrived \subseteq Calls \X Attempts
    /\ session \in Session
    /\ forwards \in [Ids -> Forward \cup {None}]
    /\ stored \in Storage
    /\ ending \in {"no", "clearing", "over"}
    /\ sock \in [Sockets -> Socket]
    /\ \A s \in Sockets :
         /\ sock[s].page = (page.tab.sock = s)
         /\ ~sock[s].page => sock[s].down = <<>>
         /\ sock[s].relay # "open" => sock[s].up = <<>>
    /\ page \in [no : 1 .. MaxPages, tab : Tables]
    /\ ran \in [Ids -> Seq(Runs)]
    /\ given \subseteq Ids
    /\ upsets \in 0 .. MaxUpsets

FreshRuns ==
    \A id \in Ids : ran'[id] # ran[id] =>
        /\ id \notin given
        /\ \A k \in 1 .. Len(ran[id]) : ran[id][k].page < page.no

(* A write runs again only on a page that was loaded after its last run,   *)
(* and never once the relay has taken its result: whatever was evicted,    *)
(* reloaded, restarted, timed out or sent twice in between                 *)
(* (session-state.ts beginRequest: "A completed write never runs again").  *)
NeverRunsAgain == [][FreshRuns]_vars

(* A caller that is told its write succeeded made the payload that ran,    *)
(* also when another payload was sent under the same request ID.           *)
AnswersAreOwn ==
    \A c \in Calls : call[c].out # None /\ call[c].out.code = "OK" =>
        /\ call[c].out.pay = PayloadOf[c]
        /\ \E k \in 1 .. Len(ran[IdOf[c]]) :
              ran[IdOf[c]][k].pay = PayloadOf[c]

(* Once the end of the session has been answered, the session is not       *)
(* active again and nothing of it is stored, although handlers and sockets *)
(* of it finish later and the object may restart.                          *)
EndIsFinal ==
    ending = "over" => session.status = "ended" /\ stored = Nothing

=============================================================================
