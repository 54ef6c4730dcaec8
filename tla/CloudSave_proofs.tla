--------------------------- MODULE CloudSave_proofs ---------------------------
(***************************************************************************)
(* Proofs about Cloud Save, for every number of windows, contents and      *)
(* Projects and all bounds.  The inductive invariant CloudInv says of the  *)
(* store that every revision was made from the one before it and that the  *)
(* row shows the last one (Store), of every request at the worker that it  *)
(* names the revision its sender had (GoodRequest), and of every window    *)
(* that its baseline, and the receipt it is about to take, are in the      *)
(* store (GoodWindow).  OpenInv adds that a restore under way began with   *)
(* nothing unsaved and fetched what the store has; it is kept because the  *)
(* store only grows.                                                       *)
(***************************************************************************)
EXTENDS CloudSave, SequenceTheorems, TLAPS

Commit == [text : Contents, base : 0..MaxRevisions]
Row == [revision : 0..MaxRevisions, text : Contents, versions : SUBSET (1..MaxRevisions)]

(* What the history h has under the binding b.                             *)
StoredIn(h, b, text) == b.revision \in 1..Len(h[b.id]) /\ h[b.id][b.revision].text = text

(* No revision that h has is lost or changed in k.                         *)
Grows(h, k) == \A b \in Binding : \A text \in Contents : StoredIn(h, b, text) => StoredIn(k, b, text)

Store ==
  /\ project \in [Ids -> Row]
  /\ history \in [Ids -> Seq(Commit)]
  /\ \A id \in Ids : Exists(id) =>
       /\ project[id].revision = Len(history[id])
       /\ history[id][project[id].revision].text = project[id].text
  /\ \A id \in Ids : project[id].versions \subseteq 1..project[id].revision
  /\ NothingBuried

GoodRequest(r) == r \in Request /\ (r.revision > 0 => r.id \in Ids /\ r.base = r.revision)

(* A baseline is in the store, and a clean copy shows it.                  *)
GoodCopy(h, c) ==
  /\ c \in Copy
  /\ c.binding # None => c.base = c.binding.revision
  /\ c.baseline # None => c.binding # None /\ StoredIn(h, c.binding, c.baseline)
  /\ c.state = "clean" => c.live = c.baseline
  /\ c.state = "unbound" => c.live = Blank /\ c.binding = None

(* A receipt is for the text that was sent.                                *)
GoodSaving(h, s) ==
  /\ s \in Saving
  /\ GoodRequest(s.request)
  /\ s.request.revision > 0 => s.request.text = s.snapshot
  /\ s.answer # None /\ s.answer.status = "saved"
       => StoredIn(h, s.answer.binding, s.request.text)

GoodWindow(h, c, s, m, g) ==
  /\ GoodCopy(h, c)
  /\ s # None => GoodSaving(h, s) /\ (s.request.revision = 0 => m # None)
  /\ g # None => GoodCopy(h, g.next)

Typed ==
  /\ copy \in [Windows -> Copy]
  /\ session \in [Windows -> 0..MaxSessions]
  /\ saving \in [Windows -> Saving \cup {None}]
  /\ creation \in [Windows -> Creation \cup {None}]
  /\ guard \in [Windows -> Guard \cup {None}]

Counted == edits \in 0..MaxEdits /\ upsets \in 0..MaxUpsets

CloudInv ==
  /\ Store /\ Typed /\ Counted
  /\ \A r \in stray : GoodRequest(r)
  /\ \A w \in Windows : GoodWindow(history, copy[w], saving[w], creation[w], guard[w])

InHistory(h, text) == \E b \in Binding : StoredIn(h, b, text)

GoodOpening(h, o) ==
  /\ o \in Opening
  /\ o.step \in {"fetching", "fetched"} => o.live = Blank \/ InHistory(h, o.live)
  /\ o.step = "fetched" => GoodCopy(h, o.next)

OpenInv ==
  /\ opening \in [Windows -> Opening]
  /\ \A w \in Windows : GoodOpening(history, opening[w])

LEMMA InvIsTyped == CloudInv /\ OpenInv => TypeOK
  BY DEF CloudInv, OpenInv, Store, Typed, Counted, GoodRequest, TypeOK, Row

-------------------------------------------------------------------------------
(* The store.                                                              *)

(* The current revision of a Project has the text of its row.              *)
LEMMA CurrentIsStored ==
  ASSUME Store, NEW id \in Ids, Exists(id)
  PROVE  /\ Current(id) \in Binding
         /\ StoredIn(history, Current(id), project[id].text)
  <1>1. project[id] \in Row /\ history[id] \in Seq(Commit)
    BY DEF Store
  <1>2. project[id].revision \in 1..MaxRevisions
    BY <1>1, CloudSaveAssumption DEF Row, Exists
  <1>3. Current(id) \in Binding
    BY <1>2 DEF Current, Binding
  <1>4. Len(history[id]) \in Nat /\ project[id].revision = Len(history[id])
    BY <1>1, LenProperties DEF Store
  <1>5. QED BY <1>2, <1>3, <1>4 DEF Store, StoredIn, Current

LEMMA GrowsItself == ASSUME NEW h PROVE Grows(h, h)
  BY DEF Grows

(* A commit at the end of a history.                                       *)
LEMMA Appended ==
  ASSUME Store, NEW id \in Ids, NEW e \in Commit,
         history' = [history EXCEPT ![id] = Append(@, e)]
  PROVE  /\ history' \in [Ids -> Seq(Commit)]
         /\ history'[id] = Append(history[id], e)
         /\ \A i \in Ids \ {id} : history'[i] = history[i]
         /\ Len(history'[id]) = Len(history[id]) + 1 /\ Len(history[id]) \in Nat
         /\ \A n \in 1..Len(history[id]) : history'[id][n] = history[id][n]
         /\ history'[id][Len(history[id]) + 1] = e
         /\ Grows(history, history')
  <1>1. history[id] \in Seq(Commit) /\ history \in [Ids -> Seq(Commit)]
    BY DEF Store
  <1>2. history'[id] = Append(history[id], e) /\ \A i \in Ids \ {id} : history'[i] = history[i]
    BY <1>1
  <1>3. /\ Append(history[id], e) \in Seq(Commit)
        /\ Len(Append(history[id], e)) = Len(history[id]) + 1
        /\ \A n \in 1..Len(history[id]) : Append(history[id], e)[n] = history[id][n]
        /\ Append(history[id], e)[Len(history[id]) + 1] = e
    BY <1>1, AppendProperties
  <1>4. Len(history[id]) \in Nat
    BY <1>1, LenProperties
  <1>5. history' \in [Ids -> Seq(Commit)]
    BY <1>1, <1>3
  <1>6. Grows(history, history')
    <2>1. SUFFICES ASSUME NEW b \in Binding, NEW text \in Contents, StoredIn(history, b, text)
                   PROVE  StoredIn(history', b, text)
      BY DEF Grows
    <2>2. b.id \in Ids
      BY DEF Binding
    <2>3. CASE b.id = id
      BY <1>2, <1>3, <1>4, <2>1, <2>3 DEF StoredIn
    <2>4. CASE b.id # id
      BY <1>2, <2>1, <2>2, <2>4 DEF StoredIn
    <2>5. QED BY <2>3, <2>4
  <1>7. QED BY <1>2, <1>3, <1>4, <1>5, <1>6

(* A save is written only over the revision that it names.                 *)
LEMMA WriteStep ==
  ASSUME Store, NEW r, GoodRequest(r), r.revision > 0, DecideAgain(r) = None, Write(r.id, r)
  PROVE  /\ Store' /\ Grows(history, history')
         /\ [id |-> r.id, revision |-> project[r.id].revision + 1] \in Binding
         /\ StoredIn(history', [id |-> r.id, revision |-> project[r.id].revision + 1], r.text)
  <1> DEFINE id == r.id
             n == project[id].revision
             e == [text |-> r.text, base |-> r.base]
  <1>1. id \in Ids /\ r.base = r.revision /\ r.text \in Contents /\ r.base \in 0..MaxRevisions
    BY DEF GoodRequest, Request
  <1>2. Exists(id) /\ n = r.revision
    <2>1. None \notin Answer
      BY NoneAssumption
    <2>2. CASE ~Exists(id)
      BY <2>1, <2>2 DEF DecideAgain, Decide, Answer
    <2>3. CASE Exists(id) /\ project[id].text = r.text
      <3>1. Current(id) \in Binding
        BY <1>1, <2>3, CurrentIsStored
      <3>2. [status |-> "saved", binding |-> Current(id)] \in Answer
        BY <3>1 DEF Answer
      <3>3. QED BY <2>1, <2>3, <3>2 DEF DecideAgain, Decide
    <2>4. CASE Exists(id) /\ project[id].text # r.text /\ n # r.revision
      <3>1. Current(id) \in Binding
        BY <1>1, <2>4, CurrentIsStored
      <3>2. [status |-> "conflict", binding |-> Current(id)] \in Answer
        BY <3>1 DEF Answer
      <3>3. QED BY <2>1, <2>4, <3>2 DEF DecideAgain, Decide
    <2>5. QED BY <2>2, <2>3, <2>4
  <1>3. e \in Commit
    BY <1>1 DEF Commit
  <1>4. n \in 1..MaxRevisions /\ n + 1 \in 1..MaxRevisions /\ n = Len(history[id])
    BY <1>1, <1>2, CloudSaveAssumption, SMTT(20) DEF Store, Row, Exists, Write
  <1>5. history' = [history EXCEPT ![id] = Append(@, e)]
    BY DEF Write
  <1>6. /\ history' \in [Ids -> Seq(Commit)]
        /\ \A i \in Ids \ {id} : history'[i] = history[i]
        /\ Len(history'[id]) = n + 1
        /\ \A k \in 1..n : history'[id][k] = history[id][k]
        /\ history'[id][n + 1] = e
        /\ Grows(history, history')
    <2> HIDE DEF e, n, id
    <2>1. QED BY <1>1, <1>3, <1>4, <1>5, Appended
  <1>7. /\ project' = [project EXCEPT ![id] = [revision |-> n + 1, text |-> r.text,
                        versions |-> Newest(project[id].versions \cup {n})]]
    BY <1>1 DEF Write, Store
  <1>8. Newest(project[id].versions \cup {n}) \subseteq 1..(n + 1)
    BY <1>1, <1>4 DEF Newest, Store
  <1>9. [revision |-> n + 1, text |-> r.text,
         versions |-> Newest(project[id].versions \cup {n})] \in Row
    <2> DEFINE kept == Newest(project[id].versions \cup {n})
    <2>1. kept \subseteq 1..MaxRevisions
      BY <1>1, <1>4 DEF Newest, Store, Row
    <2>2. n + 1 \in 0..MaxRevisions
      BY <1>4, CloudSaveAssumption
    <2> DEFINE m == n + 1
    <2> HIDE DEF kept, m
    <2>3. m \in 0..MaxRevisions
      BY <2>2 DEF m
    <2>4. [revision |-> m, text |-> r.text, versions |-> kept] \in Row
      BY <1>1, <2>1, <2>3 DEF Row
    <2>5. QED BY <2>4 DEF m, kept
  <1>10. /\ project' \in [Ids -> Row]
         /\ project'[id].revision = n + 1 /\ project'[id].text = r.text
         /\ project'[id].versions \subseteq 1..(n + 1)
         /\ \A i \in Ids \ {id} : project'[i] = project[i]
    BY <1>1, <1>7, <1>8, <1>9 DEF Store
  <1>11. \A i \in Ids : Exists(i)' =>
           /\ project'[i].revision = Len(history'[i])
           /\ history'[i][project'[i].revision].text = project'[i].text
    <2>1. SUFFICES ASSUME NEW i \in Ids, Exists(i)'
                   PROVE  /\ project'[i].revision = Len(history'[i])
                          /\ history'[i][project'[i].revision].text = project'[i].text
      OBVIOUS
    <2>2. CASE i = id
      BY <1>6, <1>10, <2>2
    <2>3. CASE i # id
      BY <1>6, <1>10, <2>1, <2>3 DEF Store, Exists
    <2>4. QED BY <2>2, <2>3
  <1>12. \A i \in Ids : project'[i].versions \subseteq 1..project'[i].revision
    BY <1>10 DEF Store
  <1>13. NothingBuried'
    <2>1. SUFFICES ASSUME NEW i \in Ids, NEW k \in Revisions(i)', k > 1
                   PROVE  history'[i][k].base = k - 1
      BY DEF NothingBuried
    <2>2. CASE i = id /\ k = n + 1
      BY <1>1, <1>2, <1>4, <1>6, <2>2
    <2>3. CASE i = id /\ k # n + 1
      <3>1. k \in 1..n
        BY <1>4, <1>6, <2>3 DEF Revisions
      <3>2. k \in Revisions(i) /\ history'[i][k] = history[i][k]
        BY <1>4, <1>6, <2>3, <3>1 DEF Revisions
      <3>3. QED BY <1>1, <2>1, <2>3, <3>2 DEF Store, NothingBuried
    <2>4. CASE i # id
      BY <1>6, <2>1, <2>4 DEF Store, NothingBuried, Revisions
    <2>5. QED BY <2>2, <2>3, <2>4
  <1>14. Store'
    BY <1>6, <1>10, <1>11, <1>12, <1>13 DEF Store
  <1>15. [id |-> id, revision |-> n + 1] \in Binding
    BY <1>1, <1>4 DEF Binding
  <1>16. StoredIn(history', [id |-> id, revision |-> n + 1], r.text)
    BY <1>4, <1>6 DEF StoredIn
  <1>17. QED BY <1>6, <1>14, <1>15, <1>16

(* A create takes an id that was never used.                               *)
LEMMA InsertStep ==
  ASSUME Store, NEW r, GoodRequest(r), NEW id \in Ids, history[id] = <<>>, Insert(id, r)
  PROVE  /\ Store' /\ Grows(history, history')
         /\ [id |-> id, revision |-> 1] \in Binding
         /\ StoredIn(history', [id |-> id, revision |-> 1], r.text)
  <1> DEFINE e == [text |-> r.text, base |-> 0]
             row == [revision |-> 1, text |-> r.text, versions |-> {}]
  <1>1. r.text \in Contents /\ 1 \in 1..MaxRevisions /\ 0 \in 0..MaxRevisions
    BY CloudSaveAssumption DEF GoodRequest, Request
  <1>2. e \in Commit /\ row \in Row
    BY <1>1 DEF Commit, Row
  <1>3. /\ history' \in [Ids -> Seq(Commit)]
        /\ history'[id] = <<e>>
        /\ \A i \in Ids \ {id} : history'[i] = history[i]
    BY <1>2 DEF Insert, Store
  <1>4. Len(<<e>>) = 1 /\ <<e>>[1] = e
    OBVIOUS
  <1>5. /\ project' \in [Ids -> Row]
        /\ project'[id] = row
        /\ \A i \in Ids \ {id} : project'[i] = project[i]
    BY <1>2 DEF Insert, Store
  <1>6. Grows(history, history')
    <2>1. SUFFICES ASSUME NEW b \in Binding, NEW text \in Contents, StoredIn(history, b, text)
                   PROVE  StoredIn(history', b, text)
      BY DEF Grows
    <2>2. b.id \in Ids
      BY DEF Binding
    <2>3. b.id # id
      BY <2>1 DEF StoredIn
    <2>4. QED BY <1>3, <2>1, <2>2, <2>3 DEF StoredIn
  <1>7. \A i \in Ids : Exists(i)' =>
          /\ project'[i].revision = Len(history'[i])
          /\ history'[i][project'[i].revision].text = project'[i].text
    <2>1. SUFFICES ASSUME NEW i \in Ids, Exists(i)'
                   PROVE  /\ project'[i].revision = Len(history'[i])
                          /\ history'[i][project'[i].revision].text = project'[i].text
      OBVIOUS
    <2>2. CASE i = id
      <3>1. row.revision = 1 /\ row.text = e.text
        OBVIOUS
      <3> HIDE DEF row, e
      <3>2. QED BY <1>3, <1>4, <1>5, <2>2, <3>1
    <2>3. CASE i # id
      BY <1>3, <1>5, <2>1, <2>3 DEF Store, Exists
    <2>4. QED BY <2>2, <2>3
  <1>8. \A i \in Ids : project'[i].versions \subseteq 1..project'[i].revision
    <2>1. SUFFICES ASSUME NEW i \in Ids
                   PROVE  project'[i].versions \subseteq 1..project'[i].revision
      OBVIOUS
    <2>2. row.versions = {} /\ project[i].versions \subseteq 1..project[i].revision
      BY DEF Store
    <2> HIDE DEF row
    <2>3. CASE i = id
      BY <1>5, <2>2, <2>3
    <2>4. CASE i # id
      <3>1. project'[i] = project[i]
        BY <1>5, <2>4
      <3>2. QED BY <2>2, <3>1
    <2>5. QED BY <2>3, <2>4
  <1>9. NothingBuried'
    <2>1. SUFFICES ASSUME NEW i \in Ids, NEW k \in Revisions(i)', k > 1
                   PROVE  history'[i][k].base = k - 1
      BY DEF NothingBuried
    <2>2. CASE i = id
      BY <1>3, <1>4, <2>1, <2>2 DEF Revisions
    <2>3. CASE i # id
      BY <1>3, <2>1, <2>3 DEF Store, NothingBuried, Revisions
    <2>4. QED BY <2>2, <2>3
  <1>10. Store'
    BY <1>3, <1>5, <1>7, <1>8, <1>9 DEF Store
  <1>11. [id |-> id, revision |-> 1] \in Binding
    BY <1>1 DEF Binding
  <1>12. StoredIn(history', [id |-> id, revision |-> 1], r.text)
    BY <1>3, <1>4 DEF StoredIn
  <1>13. QED BY <1>6, <1>10, <1>11, <1>12

(* Without a write the store stays as it is.                               *)
LEMMA StoreKept ==
  ASSUME Store, UNCHANGED <<project, history>>
  PROVE  Store' /\ Grows(history, history')
  BY DEF Store, Grows, NothingBuried, Revisions, Exists

(* One call of the worker: whatever it does, the store stays good, and it  *)
(* acknowledges only what it has.                                          *)
LEMMA ServeStep ==
  ASSUME Store, Counted, NEW r, GoodRequest(r), NEW answer, Serve(r, answer)
  PROVE  /\ Store' /\ Grows(history, history') /\ upsets' \in 0..MaxUpsets
         /\ answer \in Answer \cup {None}
         /\ answer # None /\ answer.status = "saved"
              => StoredIn(history', answer.binding, r.text)
  <1>1. ASSUME r.revision > 0, answer = Decide(r), UNCHANGED <<project, history, upsets>>
        PROVE  /\ Store' /\ Grows(history, history') /\ upsets' \in 0..MaxUpsets
               /\ answer \in Answer \cup {None}
               /\ answer # None /\ answer.status = "saved"
                    => StoredIn(history', answer.binding, r.text)
    <2>1. Store' /\ Grows(history, history') /\ upsets' \in 0..MaxUpsets
      BY <1>1, StoreKept DEF Counted
    <2>2. r.id \in Ids
      BY <1>1 DEF GoodRequest
    <2>3. CASE ~Exists(r.id)
      BY <1>1, <2>1, <2>3 DEF Decide, Answer
    <2>4. CASE Exists(r.id) /\ project[r.id].text = r.text
      <3>1. Current(r.id) \in Binding /\ StoredIn(history, Current(r.id), r.text)
        BY <2>2, <2>4, CurrentIsStored
      <3>2. answer = [status |-> "saved", binding |-> Current(r.id)]
        BY <1>1, <2>4 DEF Decide
      <3>3. QED BY <1>1, <2>1, <3>1, <3>2 DEF Answer
    <2>5. CASE /\ Exists(r.id) /\ project[r.id].text # r.text
               /\ project[r.id].revision # r.revision
      <3>1. Current(r.id) \in Binding
        BY <2>2, <2>5, CurrentIsStored
      <3>2. answer = [status |-> "conflict", binding |-> Current(r.id)]
        BY <1>1, <2>5 DEF Decide
      <3>3. QED BY <2>1, <3>1, <3>2 DEF Answer
    <2>6. CASE /\ Exists(r.id) /\ project[r.id].text # r.text
               /\ project[r.id].revision = r.revision
      BY <1>1, <2>1, <2>6 DEF Decide
    <2>7. QED BY <2>3, <2>4, <2>5, <2>6
  <1>2. CASE /\ r.revision > 0 /\ DecideAgain(r) = None
             /\ answer = [status |-> "saved",
                          binding |-> [id |-> r.id, revision |-> project[r.id].revision + 1]]
             /\ Write(r.id, r) /\ UNCHANGED upsets
    <2>1. upsets' \in 0..MaxUpsets
      BY <1>2 DEF Counted
    <2> DEFINE b == [id |-> r.id, revision |-> project[r.id].revision + 1]
    <2>2. Store' /\ Grows(history, history') /\ b \in Binding /\ StoredIn(history', b, r.text)
      BY <1>2, WriteStep
    <2> HIDE DEF b
    <2>3. answer = [status |-> "saved", binding |-> b]
      BY <1>2 DEF b
    <2>4. QED BY <2>1, <2>2, <2>3 DEF Answer
  <1>3. CASE /\ answer \in {[status |-> "limit"], [status |-> "refused"]}
             /\ UNCHANGED <<project, history>> /\ upsets' \in 0..MaxUpsets
    <2>1. Store' /\ Grows(history, history')
      BY <1>3, StoreKept
    <2>2. QED BY <1>3, <2>1 DEF Answer
  <1>4. ASSUME NEW id \in Ids, history[id] = <<>>, Insert(id, r), UNCHANGED upsets,
               answer = [status |-> "saved", binding |-> [id |-> id, revision |-> 1]]
        PROVE  /\ Store' /\ Grows(history, history') /\ upsets' \in 0..MaxUpsets
               /\ answer \in Answer \cup {None}
               /\ answer # None /\ answer.status = "saved"
                    => StoredIn(history', answer.binding, r.text)
    <2>1. upsets' \in 0..MaxUpsets
      BY <1>4 DEF Counted
    <2> DEFINE b == [id |-> id, revision |-> 1]
    <2>2. Store' /\ Grows(history, history') /\ b \in Binding /\ StoredIn(history', b, r.text)
      BY <1>4, InsertStep
    <2> HIDE DEF b
    <2>3. answer = [status |-> "saved", binding |-> b]
      BY <1>4 DEF b
    <2>4. QED BY <2>1, <2>2, <2>3 DEF Answer
  <1>5. upsets \in 0..MaxUpsets /\ (upsets < MaxUpsets => upsets + 1 \in 0..MaxUpsets)
    BY CloudSaveAssumption DEF Counted
  <1>6. QED BY <1>1, <1>2, <1>3, <1>4, <1>5 DEF Serve, DecideAgain

-------------------------------------------------------------------------------
(* The windows.                                                            *)

(* What is in the store stays there, so copies and receipts stay good.     *)
LEMMA CopyKept ==
  ASSUME NEW h, NEW k, Grows(h, k), NEW c, GoodCopy(h, c)
  PROVE  GoodCopy(k, c)
  <1>1. c.baseline # None => c.binding \in Binding /\ c.baseline \in Contents
    BY DEF GoodCopy, Copy
  <1>2. c.baseline # None => StoredIn(k, c.binding, c.baseline)
    BY <1>1 DEF GoodCopy, Grows
  <1>3. QED BY <1>2 DEF GoodCopy

LEMMA SavingKept ==
  ASSUME NEW h, NEW k, Grows(h, k), NEW s, GoodSaving(h, s)
  PROVE  GoodSaving(k, s)
  <1>1. s.request.text \in Contents /\ s.answer \in Answer \cup {None}
    BY DEF GoodSaving, Saving, Request
  <1>2. s.answer # None /\ s.answer.status = "saved" => s.answer.binding \in Binding
    BY <1>1 DEF Answer
  <1>3. s.answer # None /\ s.answer.status = "saved"
          => StoredIn(k, s.answer.binding, s.request.text)
    BY <1>1, <1>2 DEF GoodSaving, Grows
  <1>4. QED BY <1>3 DEF GoodSaving

LEMMA WindowKept ==
  ASSUME NEW h, NEW k, Grows(h, k), NEW c, NEW s, NEW m, NEW g, GoodWindow(h, c, s, m, g)
  PROVE  GoodWindow(k, c, s, m, g)
  BY CopyKept, SavingKept DEF GoodWindow

(* An action of one window leaves the others alone.                        *)
LEMMA OneWindow ==
  ASSUME CloudInv, NEW w \in Windows,
         Store', Grows(history, history'), Typed', Counted',
         \A r \in stray' : GoodRequest(r),
         \A v \in Windows \ {w} : /\ copy'[v] = copy[v] /\ saving'[v] = saving[v]
                                 /\ creation'[v] = creation[v] /\ guard'[v] = guard[v],
         GoodWindow(history', copy'[w], saving'[w], creation'[w], guard'[w])
  PROVE  CloudInv'
  <1>1. ASSUME NEW v \in Windows
        PROVE  GoodWindow(history', copy'[v], saving'[v], creation'[v], guard'[v])
    <2>1. CASE v = w
      BY <2>1
    <2>2. CASE v # w
      <3>1. GoodWindow(history, copy[v], saving[v], creation[v], guard[v])
        BY DEF CloudInv
      <3>2. GoodWindow(history', copy[v], saving[v], creation[v], guard[v])
        BY <3>1, WindowKept
      <3>3. QED BY <2>2, <3>2
    <2>3. QED BY <2>1, <2>2
  <1>2. QED BY <1>1 DEF CloudInv

(* What a window may open.                                                 *)
LEMMA NewProjectGood == GoodCopy(history, NewProject)
  <1>1. 0 \in 0..MaxRevisions
    BY CloudSaveAssumption
  <1>2. QED BY <1>1, CloudSaveAssumption DEF GoodCopy, NewProject, Copy, States

LEMMA OpenedGood ==
  ASSUME Store, NEW id \in Ids, Exists(id)
  PROVE  GoodCopy(history, Opened(id))
  <1> DEFINE b == Current(id)
  <1>1. b \in Binding /\ StoredIn(history, b, project[id].text) /\ b.revision = project[id].revision
    BY CurrentIsStored DEF Current
  <1>2. project[id].text \in Contents /\ project[id].revision \in 0..MaxRevisions
    BY DEF Store, Row
  <1> HIDE DEF b
  <1>3. Opened(id) = [live |-> project[id].text, state |-> "clean", binding |-> b,
                      baseline |-> project[id].text, base |-> project[id].revision]
    BY DEF Opened, b
  <1>4. Opened(id) \in Copy
    BY <1>1, <1>2, <1>3 DEF Copy, States
  <1>5. /\ Opened(id).binding = b /\ Opened(id).baseline = project[id].text
        /\ Opened(id).live = project[id].text /\ Opened(id).base = project[id].revision
        /\ Opened(id).state = "clean"
    BY <1>3
  <1>6. QED BY <1>1, <1>4, <1>5, NoneAssumption DEF GoodCopy

LEMMA RevertedGood ==
  ASSUME NEW w \in Windows, GoodCopy(history, copy[w]), copy[w].baseline # None
  PROVE  GoodCopy(history, Reverted(w))
  <1>1. Reverted(w) \in Copy
    BY DEF Reverted, GoodCopy, Copy, States
  <1>2. QED BY <1>1 DEF Reverted, GoodCopy

LEMMA ReplacementsGood ==
  ASSUME CloudInv, NEW w \in Windows, NEW next \in Replacements(w)
  PROVE  GoodCopy(history, next)
  <1>1. GoodCopy(history, copy[w])
    BY DEF CloudInv, GoodWindow
  <1>2. CASE next = NewProject
    BY <1>2, NewProjectGood
  <1>3. CASE copy[w].baseline # None /\ next = Reverted(w)
    BY <1>1, <1>3, RevertedGood
  <1>4. QED BY <1>2, <1>3 DEF Replacements

(* What an action of one window finds there.                               *)
LEMMA Found ==
  ASSUME CloudInv, NEW w \in Windows
  PROVE  /\ Store /\ Typed /\ Counted
         /\ copy[w] \in Copy /\ GoodCopy(history, copy[w])
         /\ saving[w] \in Saving \cup {None} /\ creation[w] \in Creation \cup {None}
         /\ guard[w] \in Guard \cup {None} /\ session[w] \in 0..MaxSessions
         /\ GoodWindow(history, copy[w], saving[w], creation[w], guard[w])
         /\ saving[w] # None => GoodSaving(history, saving[w])
         /\ guard[w] # None => GoodCopy(history, guard[w].next)
  BY DEF CloudInv, GoodWindow, Typed

LEMMA EditStep ==
  ASSUME CloudInv, NEW w \in Windows, NEW text \in Contents, Edit(w, text)
  PROVE  CloudInv'
  <1>1. /\ copy' \in [Windows -> Copy]
        /\ \A v \in Windows \ {w} : copy'[v] = copy[v]
        /\ copy'[w].live = text /\ copy'[w].binding = copy[w].binding
        /\ copy'[w].base = copy[w].base /\ copy'[w].baseline = copy[w].baseline
        /\ copy'[w].state = IF copy[w].baseline = text THEN "clean" ELSE "dirty"
    BY Found DEF Edit, Typed, Copy, States
  <1>2. GoodCopy(history, copy'[w])
    BY <1>1, Found DEF GoodCopy
  <1>3. UNCHANGED <<project, history, stray, session, saving, creation, guard, upsets>>
    BY DEF Edit
  <1>4. Typed'
    BY <1>1, <1>3, Found DEF Typed
  <1>5. Counted'
    BY <1>3, Found, CloudSaveAssumption DEF Counted, Edit
  <1>6. GoodWindow(history', copy'[w], saving'[w], creation'[w], guard'[w])
    BY <1>2, <1>3, Found DEF GoodWindow
  <1>7. Store' /\ Grows(history, history')
    BY <1>3, Found, StoreKept
  <1>8. \A r \in stray' : GoodRequest(r)
    BY <1>3 DEF CloudInv
  <1>9. QED BY <1>1, <1>3, <1>4, <1>5, <1>6, <1>7, <1>8, OneWindow

(* A save names the revision that its window has, and sends what it shows. *)
LEMMA StartSaveGood ==
  ASSUME CloudInv, NEW w \in Windows, StartSave(w)
  PROVE  /\ copy' \in [Windows -> Copy]
         /\ saving' \in [Windows -> Saving \cup {None}]
         /\ creation' \in [Windows -> Creation \cup {None}]
         /\ \A v \in Windows \ {w} : /\ copy'[v] = copy[v] /\ saving'[v] = saving[v]
                                    /\ creation'[v] = creation[v]
         /\ GoodCopy(history, copy'[w])
         /\ GoodSaving(history, saving'[w])
         /\ saving'[w].request.revision = 0 => creation'[w] # None
  <1> DEFINE text == copy[w].live
             to == Target(w)
             made == PendingCreate(w, text)
             put == Put(to, text, IF copy[w].binding = None THEN to.revision ELSE copy[w].base)
             send(r) == [session |-> session[w], snapshot |-> text, request |-> r, answer |-> None]
  <1>1. /\ copy' \in [Windows -> Copy]
        /\ \A v \in Windows \ {w} : copy'[v] = copy[v]
        /\ copy'[w].live = text /\ copy'[w].binding = copy[w].binding
        /\ copy'[w].base = copy[w].base /\ copy'[w].baseline = copy[w].baseline
        /\ copy'[w].state = "saving"
    BY Found DEF StartSave, Typed, Copy, States
  <1>2. GoodCopy(history, copy'[w])
    BY <1>1, Found DEF GoodCopy
  <1>3. text \in Contents
    BY Found DEF Copy
  <1>4. made \in Creation
    BY <1>3, Found, NoneAssumption DEF PendingCreate, Creation
  <1>5. made # None
    BY <1>4, NoneAssumption
  <1>6. ASSUME NEW r, GoodRequest(r), r.revision > 0 => r.text = text
        PROVE  GoodSaving(history, send(r))
    <2>1. send(r) \in Saving
      BY <1>3, <1>6, Found DEF Saving, GoodRequest
    <2>2. QED BY <1>6, <2>1 DEF GoodSaving
  <1>7. CASE to # None
    <2>1. to \in Binding /\ (copy[w].binding # None => to = copy[w].binding)
      BY <1>7, Found DEF Target, Copy, Creation
    <2>2. put = [id |-> to.id, revision |-> to.revision, text |-> text,
                 base |-> to.revision, checked |-> FALSE]
      BY <2>1, Found DEF Put, GoodCopy
    <2>3. to.id \in Ids /\ to.revision \in 1..MaxRevisions
      BY <2>1 DEF Binding
    <2>4. to.id \in Ids \cup {0} /\ to.revision \in 0..MaxRevisions /\ to.revision > 0
      BY <2>3, CloudSaveAssumption
    <2>5. put.id = to.id /\ put.revision = to.revision /\ put.text = text /\ put.base = to.revision
      BY <2>2
    <2> HIDE DEF put, to, text
    <2>6. put \in Request
      BY <1>3, <2>2, <2>4 DEF Request
    <2> USE DEF text
    <2>7. GoodRequest(put) /\ put.revision # 0
      BY <2>3, <2>4, <2>5, <2>6 DEF GoodRequest
    <2>8. saving' = [saving EXCEPT ![w] = send(put)] /\ creation' = creation
      BY <1>7 DEF StartSave, put, to
    <2>9. GoodSaving(history, send(put)) /\ send(put).request = put
      BY <1>6, <2>5, <2>7
    <2> HIDE DEF send
    <2>10. send(put) \in Saving
      BY <2>9 DEF GoodSaving
    <2>11. /\ saving'[w] = send(put) /\ \A v \in Windows \ {w} : saving'[v] = saving[v]
           /\ saving' \in [Windows -> Saving \cup {None}]
      BY <2>8, <2>10, Found DEF Typed
    <2>12. QED BY <1>1, <1>2, <2>7, <2>8, <2>9, <2>11, Found DEF Typed
  <1>8. CASE to = None
    <2> DEFINE post == Post(made.text)
    <2>1. made.text \in Contents
      BY <1>4 DEF Creation
    <2>2. post.revision = 0 /\ post \in Request
      BY <2>1, CloudSaveAssumption DEF Post, Request
    <2> HIDE DEF post, made
    <2>3. GoodRequest(post)
      BY <2>2 DEF GoodRequest
    <2>4. /\ saving' = [saving EXCEPT ![w] = send(post)]
          /\ creation' = [creation EXCEPT ![w] = made]
      BY <1>8 DEF StartSave, post, made
    <2>5. GoodSaving(history, send(post)) /\ send(post).request = post
      BY <1>6, <2>2, <2>3
    <2> HIDE DEF send
    <2>6. send(post) \in Saving
      BY <2>5 DEF GoodSaving
    <2>7. /\ saving'[w] = send(post) /\ \A v \in Windows \ {w} : saving'[v] = saving[v]
          /\ saving' \in [Windows -> Saving \cup {None}]
          /\ creation'[w] = made /\ \A v \in Windows \ {w} : creation'[v] = creation[v]
          /\ creation' \in [Windows -> Creation \cup {None}]
      BY <1>4, <2>4, <2>6, Found DEF Typed
    <2>8. QED BY <1>1, <1>2, <1>5, <2>5, <2>7
  <1>9. QED BY <1>7, <1>8

LEMMA SaveStep ==
  ASSUME CloudInv, NEW w \in Windows, Save(w)
  PROVE  CloudInv'
  <1>1. UNCHANGED <<project, history, stray, session, guard, edits, upsets>> /\ StartSave(w)
    BY DEF Save
  <1>2. Typed' /\ Counted'
    BY <1>1, StartSaveGood, Found DEF Typed, Counted
  <1>3. GoodWindow(history', copy'[w], saving'[w], creation'[w], guard'[w])
    BY <1>1, StartSaveGood, Found DEF GoodWindow
  <1>4. Store' /\ Grows(history, history')
    BY <1>1, Found, StoreKept
  <1>5. \A r \in stray' : GoodRequest(r)
    BY <1>1 DEF CloudInv
  <1>6. QED BY <1>1, <1>2, <1>3, <1>4, <1>5, StartSaveGood, OneWindow

(* The worker answers the window that waits.                               *)
LEMMA ServedStep ==
  ASSUME CloudInv, NEW w \in Windows, Served(w)
  PROVE  CloudInv'
  <1> DEFINE old == saving[w]
             r == saving[w].request
  <1>1. saving[w] # None /\ GoodSaving(history, old) /\ old \in Saving /\ r \in Request
    BY Found DEF Served, Saving
  <1>2. PICK answer \in Answer \cup {None} :
          /\ Serve(r, answer)
          /\ saving' = [saving EXCEPT ![w].answer = answer, ![w].request.checked = TRUE]
    BY DEF Served
  <1>3. UNCHANGED <<stray, copy, session, creation, guard, edits>>
    BY DEF Served
  <1>4. GoodRequest(r)
    BY <1>1 DEF GoodSaving
  <1>5. /\ Store' /\ Grows(history, history') /\ upsets' \in 0..MaxUpsets
        /\ answer # None /\ answer.status = "saved"
             => StoredIn(history', answer.binding, r.text)
    BY <1>2, <1>4, Found, ServeStep
  <1> DEFINE q == [r EXCEPT !.checked = TRUE]
             sent == [old EXCEPT !.answer = answer]
             s == [sent EXCEPT !.request = q]
  <1>6. /\ q \in Request /\ GoodRequest(q) /\ q.revision = r.revision /\ q.text = r.text
    BY <1>1, <1>4 DEF Request, GoodRequest
  <1>7. sent \in Saving /\ sent.request = r /\ sent.answer = answer /\ sent.snapshot = old.snapshot
    BY <1>1 DEF Saving
  <1>8. /\ \A v \in Windows \ {w} : saving'[v] = saving[v]
        /\ saving'[w] = [sent EXCEPT !.request.checked = TRUE]
    BY <1>2, Found DEF Typed
  <1>9. saving'[w] = s
    <2> HIDE DEF sent, r
    <2>1. [sent EXCEPT !.request.checked = TRUE]
            = [sent EXCEPT !.request = [sent.request EXCEPT !.checked = TRUE]]
      BY Zenon
    <2>2. QED BY <1>7, <1>8, <2>1
  <1> HIDE DEF q, sent
  <1>10. /\ s \in Saving /\ s.request = q /\ s.snapshot = old.snapshot /\ s.answer = answer
    BY <1>6, <1>7 DEF Saving
  <1>11. GoodSaving(history', s)
    <2> HIDE DEF s, old, r
    <2>1. r.revision > 0 => r.text = old.snapshot
      BY <1>1 DEF GoodSaving, old, r
    <2>2. QED BY <1>5, <1>6, <1>10, <2>1 DEF GoodSaving
  <1>12. Typed' /\ Counted'
    <2>1. saving' \in [Windows -> Saving \cup {None}]
      <3>1. saving' = [v \in Windows |-> saving'[v]]
        BY <1>2, Found DEF Typed
      <3>2. \A v \in Windows : saving'[v] \in Saving \cup {None}
        BY <1>8, <1>9, <1>10, Found DEF Typed
      <3>3. QED BY <3>1, <3>2
    <2>2. QED BY <1>3, <1>5, <2>1, Found DEF Typed, Counted
  <1>13. GoodWindow(history', copy'[w], saving'[w], creation'[w], guard'[w])
    <2>1. GoodWindow(history', copy[w], saving[w], creation[w], guard[w])
      BY <1>5, Found, WindowKept
    <2>2. QED BY <1>1, <1>3, <1>6, <1>9, <1>10, <1>11, <2>1 DEF GoodWindow
  <1>14. \A x \in stray' : GoodRequest(x)
    BY <1>3 DEF CloudInv
  <1>15. QED BY <1>3, <1>5, <1>8, <1>12, <1>13, <1>14, OneWindow

(* The worker serves a request that nobody waits for.                      *)
LEMMA ServeStrayStep ==
  ASSUME CloudInv, ServeStray
  PROVE  CloudInv'
  <1>1. PICK r \in stray, answer \in Answer \cup {None} :
          /\ Serve(r, answer)
          /\ stray' = (stray \ {r}) \cup
                      (IF answer = None THEN {[r EXCEPT !.checked = TRUE]} ELSE {})
          /\ UNCHANGED <<copy, session, saving, creation, guard, edits>>
    BY DEF ServeStray
  <1>2. GoodRequest(r)
    BY DEF CloudInv
  <1>3. Store' /\ Grows(history, history') /\ upsets' \in 0..MaxUpsets
    BY <1>1, <1>2, ServeStep DEF CloudInv
  <1>4. GoodRequest([r EXCEPT !.checked = TRUE])
    BY <1>2 DEF GoodRequest, Request
  <1>5. \A x \in stray' : GoodRequest(x)
    BY <1>1, <1>4 DEF CloudInv
  <1>6. \A w \in Windows : GoodWindow(history', copy[w], saving[w], creation[w], guard[w])
    BY <1>3, WindowKept DEF CloudInv
  <1>7. QED BY <1>1, <1>3, <1>5, <1>6 DEF CloudInv, Typed, Counted

(* A call is lost: the request may still be at the worker.                 *)
LEMMA LoseCallStep ==
  ASSUME CloudInv, NEW w \in Windows, LoseCall(w)
  PROVE  CloudInv'
  <1>1. UNCHANGED <<project, history, copy, session, creation, guard, edits>>
    BY DEF LoseCall
  <1>2. saving[w] \in Saving /\ GoodSaving(history, saving[w])
    BY Found DEF LoseCall
  <1>3. [status |-> "unreachable"] \in Answer
    BY DEF Answer
  <1>4. /\ saving' \in [Windows -> Saving \cup {None}]
        /\ \A v \in Windows \ {w} : saving'[v] = saving[v]
        /\ saving'[w] \in Saving /\ saving'[w].request = saving[w].request
        /\ saving'[w].snapshot = saving[w].snapshot
        /\ saving'[w].answer = [status |-> "unreachable"]
    BY <1>2, <1>3, Found DEF LoseCall, Typed, Saving
  <1>5. GoodSaving(history, saving'[w])
    BY <1>2, <1>4 DEF GoodSaving
  <1>6. \A r \in stray' : GoodRequest(r)
    BY <1>2 DEF CloudInv, LoseCall, GoodSaving
  <1>7. Typed' /\ Counted'
    BY <1>1, <1>4, Found, CloudSaveAssumption DEF Typed, Counted, LoseCall
  <1>8. GoodWindow(history', copy'[w], saving'[w], creation'[w], guard'[w])
    BY <1>1, <1>2, <1>4, <1>5, Found, NoneAssumption DEF GoodWindow
  <1>9. Store' /\ Grows(history, history')
    BY <1>1, Found, StoreKept
  <1>10. QED BY <1>1, <1>4, <1>6, <1>7, <1>8, <1>9, OneWindow

(* The newer content is sent over the revision that the create made.       *)
LEMMA FollowUpStep ==
  ASSUME CloudInv, NEW w \in Windows, FollowUp(w)
  PROVE  CloudInv'
  <1> DEFINE old == saving[w]
             b == old.answer.binding
             put == Put(b, old.snapshot, b.revision)
  <1>1. UNCHANGED <<project, history, stray, copy, session, guard, edits, upsets>>
    BY DEF FollowUp
  <1>2. /\ old \in Saving /\ GoodSaving(history, old) /\ old.answer # None
        /\ old.answer.status = "saved" /\ old.request.revision = 0
    BY Found DEF FollowUp
  <1>3. b \in Binding /\ old.snapshot \in Contents
    BY <1>2 DEF Saving, Answer
  <1>4. b.id \in Ids /\ b.revision \in 1..MaxRevisions
    BY <1>3 DEF Binding
  <1>5. creation[w] \in Creation
    BY <1>2, Found, NoneAssumption DEF GoodWindow
  <1>6. /\ saving' = [saving EXCEPT ![w].answer = None, ![w].request = put]
        /\ creation' = [creation EXCEPT ![w].binding = b]
    BY DEF FollowUp
  <1>7. put = [id |-> b.id, revision |-> b.revision, text |-> old.snapshot,
               base |-> b.revision, checked |-> FALSE]
    BY DEF Put
  <1> HIDE DEF put, b
  <1>8. GoodRequest(put) /\ put \in Request /\ put.revision > 0 /\ put.text = old.snapshot
    <2>1. b.id \in Ids \cup {0} /\ b.revision \in 0..MaxRevisions /\ b.revision > 0
      BY <1>4, CloudSaveAssumption
    <2>2. put \in Request
      BY <1>3, <1>7, <2>1 DEF Request
    <2>3. QED BY <1>4, <1>7, <2>1, <2>2 DEF GoodRequest
  <1>9. /\ saving' \in [Windows -> Saving \cup {None}]
        /\ \A v \in Windows \ {w} : saving'[v] = saving[v]
        /\ saving'[w] \in Saving /\ saving'[w].request = put /\ saving'[w].answer = None
        /\ saving'[w].snapshot = old.snapshot
    BY <1>2, <1>6, <1>8, Found DEF Typed, Saving
  <1>10. /\ creation' \in [Windows -> Creation \cup {None}]
         /\ \A v \in Windows \ {w} : creation'[v] = creation[v]
    BY <1>3, <1>5, <1>6, Found DEF Typed, Creation
  <1>11. GoodSaving(history, saving'[w])
    BY <1>8, <1>9 DEF GoodSaving
  <1>12. Typed' /\ Counted'
    BY <1>1, <1>9, <1>10, Found DEF Typed, Counted
  <1>13. GoodWindow(history', copy'[w], saving'[w], creation'[w], guard'[w])
    BY <1>1, <1>8, <1>9, <1>11, Found DEF GoodWindow
  <1>14. Store' /\ Grows(history, history')
    BY <1>1, Found, StoreKept
  <1>15. \A r \in stray' : GoodRequest(r)
    BY <1>1 DEF CloudInv
  <1>16. QED BY <1>1, <1>9, <1>10, <1>12, <1>13, <1>14, <1>15, OneWindow

(* The end of a save touches the guard's step, never the Project it keeps. *)
LEMMA Settled ==
  ASSUME CloudInv, NEW w \in Windows, NEW outcome \in {"saved", "failed"}, Settle(w, outcome)
  PROVE  /\ saving' \in [Windows -> Saving \cup {None}]
         /\ guard' \in [Windows -> Guard \cup {None}]
         /\ \A v \in Windows \ {w} : saving'[v] = saving[v] /\ guard'[v] = guard[v]
         /\ saving'[w] = None
         /\ guard'[w] # None => GoodCopy(history, guard'[w].next)
  <1>1. /\ saving' \in [Windows -> Saving \cup {None}]
        /\ \A v \in Windows \ {w} : saving'[v] = saving[v]
        /\ saving'[w] = None
    BY Found DEF Settle, Typed
  <1>2. CASE guard[w] # None /\ guard[w].step = "saving"
    <2>1. guard' = [guard EXCEPT ![w].step = outcome] /\ guard[w] \in Guard
      BY <1>2, Found DEF Settle
    <2>2. /\ guard' \in [Windows -> Guard \cup {None}]
          /\ \A v \in Windows \ {w} : guard'[v] = guard[v]
          /\ guard'[w].next = guard[w].next
      BY <2>1, Found DEF Typed, Guard
    <2>3. QED BY <1>1, <1>2, <2>2, Found
  <1>3. CASE ~(guard[w] # None /\ guard[w].step = "saving")
    BY <1>1, <1>3, Found DEF Settle, Typed
  <1>4. QED BY <1>2, <1>3

LEMMA SaveAnsweredStep ==
  ASSUME CloudInv, NEW w \in Windows, SaveAnswered(w)
  PROVE  CloudInv'
  <1> DEFINE b == saving[w].answer.binding
             text == saving[w].snapshot
  <1>1. UNCHANGED <<project, history, stray, session, edits, upsets>> /\ Settle(w, "saved")
    BY DEF SaveAnswered
  <1>2. /\ saving[w] \in Saving /\ GoodSaving(history, saving[w]) /\ saving[w].answer # None
        /\ saving[w].answer.status = "saved" /\ saving[w].request.text = text
    BY Found DEF SaveAnswered, GoodSaving, Saving, Request
  <1>3. b \in Binding /\ text \in Contents /\ StoredIn(history, b, text)
    BY <1>2 DEF Saving, Answer, GoodSaving
  <1>4. b.revision \in 0..MaxRevisions /\ b # None
    BY <1>3, NoneAssumption, CloudSaveAssumption DEF Binding
  <1>5. /\ copy' \in [Windows -> Copy] /\ GoodCopy(history, copy'[w])
        /\ \A v \in Windows \ {w} : copy'[v] = copy[v]
    <2>1. CASE IsCurrent(w)
      <3>1. copy' = [copy EXCEPT ![w].binding = b, ![w].base = b.revision,
                       ![w].baseline = text, ![w].state = IF Matches(w) THEN "clean" ELSE "dirty"]
        BY <2>1 DEF SaveAnswered, Acknowledge
      <3> HIDE DEF b, text
      <3>2. /\ copy' \in [Windows -> Copy]
            /\ \A v \in Windows \ {w} : copy'[v] = copy[v]
            /\ copy'[w] \in Copy
            /\ copy'[w].binding = b /\ copy'[w].base = b.revision /\ copy'[w].baseline = text
            /\ copy'[w].live = copy[w].live
            /\ copy'[w].state = IF Matches(w) THEN "clean" ELSE "dirty"
        <4> DEFINE c == [copy[w] EXCEPT !.binding = b, !.base = b.revision, !.baseline = text,
                                        !.state = IF Matches(w) THEN "clean" ELSE "dirty"]
        <4>1. copy[w] \in Copy /\ copy \in [Windows -> Copy]
          BY Found DEF Typed
        <4>2. /\ c \in Copy /\ c.binding = b /\ c.base = b.revision /\ c.baseline = text
              /\ c.live = copy[w].live /\ c.state = IF Matches(w) THEN "clean" ELSE "dirty"
          BY <1>3, <1>4, <4>1 DEF Copy, States
        <4>3. copy' = [copy EXCEPT ![w] = c]
          BY <3>1, <4>1
        <4> HIDE DEF c
        <4>4. QED BY <4>1, <4>2, <4>3
      <3>3. Matches(w) => copy[w].live = text
        BY DEF Matches, text
      <3>4. QED BY <1>3, <1>4, <3>2, <3>3 DEF GoodCopy
    <2>2. CASE ~IsCurrent(w)
      BY <2>2, Found DEF SaveAnswered, Typed
    <2>3. QED BY <2>1, <2>2
  <1>6. /\ creation' \in [Windows -> Creation \cup {None}]
        /\ \A v \in Windows \ {w} : creation'[v] = creation[v]
    BY Found DEF SaveAnswered, Typed
  <1>7. Typed' /\ Counted'
    BY <1>1, <1>5, <1>6, Settled, Found DEF Typed, Counted
  <1>8. GoodWindow(history', copy'[w], saving'[w], creation'[w], guard'[w])
    BY <1>1, <1>5, Settled DEF GoodWindow
  <1>9. Store' /\ Grows(history, history')
    BY <1>1, Found, StoreKept
  <1>10. \A r \in stray' : GoodRequest(r)
    BY <1>1 DEF CloudInv
  <1>11. QED BY <1>1, <1>5, <1>6, <1>7, <1>8, <1>9, <1>10, Settled, OneWindow

LEMMA SaveFailedStep ==
  ASSUME CloudInv, NEW w \in Windows, SaveFailed(w)
  PROVE  CloudInv'
  <1>1. UNCHANGED <<project, history, stray, session, edits, upsets>> /\ Settle(w, "failed")
    BY DEF SaveFailed
  <1>2. saving[w] \in Saving /\ saving[w] # None
    BY Found DEF SaveFailed
  <1>3. /\ copy' \in [Windows -> Copy] /\ GoodCopy(history, copy'[w])
        /\ \A v \in Windows \ {w} : copy'[v] = copy[v]
    <2>1. CASE IsCurrent(w)
      <3>1. /\ AfterFailure(w) \in Copy
            /\ AfterFailure(w).live = copy[w].live /\ AfterFailure(w).binding = copy[w].binding
            /\ AfterFailure(w).base = copy[w].base
            /\ AfterFailure(w).baseline = copy[w].baseline
            /\ AfterFailure(w).state \in {"offline", "conflict", "failed"}
        BY Found DEF AfterFailure, Copy, States
      <3>2. copy' = [copy EXCEPT ![w] = AfterFailure(w)]
        BY <2>1 DEF SaveFailed
      <3>3. /\ copy' \in [Windows -> Copy] /\ copy'[w] = AfterFailure(w)
            /\ \A v \in Windows \ {w} : copy'[v] = copy[v]
        BY <3>1, <3>2, Found DEF Typed
      <3>4. QED BY <3>1, <3>3, Found DEF GoodCopy
    <2>2. CASE ~IsCurrent(w)
      BY <2>2, Found DEF SaveFailed, Typed
    <2>3. QED BY <2>1, <2>2
  <1>4. Released(w, saving[w].answer.status) \in Creation \cup {None}
    <2>1. CASE saving[w].request.revision > 0
      BY <2>1, Found DEF Released
    <2>2. CASE ~(saving[w].request.revision > 0)
      <3>1. saving[w].request.revision = 0
        BY <1>2, <2>2, CloudSaveAssumption DEF Saving, Request
      <3>2. creation[w] \in Creation
        BY <1>2, <3>1, Found DEF GoodWindow
      <3>3. QED BY <2>2, <3>2 DEF Released, Creation
    <2>3. QED BY <2>1, <2>2
  <1>5. /\ creation' \in [Windows -> Creation \cup {None}]
        /\ \A v \in Windows \ {w} : creation'[v] = creation[v]
    BY <1>4, Found DEF SaveFailed, Typed
  <1>6. Typed' /\ Counted'
    BY <1>1, <1>3, <1>5, Settled, Found DEF Typed, Counted
  <1>7. GoodWindow(history', copy'[w], saving'[w], creation'[w], guard'[w])
    BY <1>1, <1>3, Settled DEF GoodWindow
  <1>8. Store' /\ Grows(history, history')
    BY <1>1, Found, StoreKept
  <1>9. \A r \in stray' : GoodRequest(r)
    BY <1>1 DEF CloudInv
  <1>10. QED BY <1>1, <1>3, <1>5, <1>6, <1>7, <1>8, <1>9, Settled, OneWindow

(* Another Project takes the place of the copy.                            *)
LEMMA Installed ==
  ASSUME CloudInv, NEW w \in Windows, NEW next, GoodCopy(history, next), Install(w, next)
  PROVE  /\ copy' \in [Windows -> Copy] /\ copy'[w] = next
         /\ session' \in [Windows -> 0..MaxSessions]
         /\ creation' \in [Windows -> Creation \cup {None}]
         /\ \A v \in Windows \ {w} : /\ copy'[v] = copy[v] /\ session'[v] = session[v]
                                    /\ creation'[v] = creation[v]
         /\ saving[w] # None => creation'[w] = creation[w]
  <1>1. next \in Copy
    BY DEF GoodCopy
  <1>2. session[w] + 1 \in 0..MaxSessions
    BY Found, CloudSaveAssumption DEF Install
  <1>3. session' \in [Windows -> 0..MaxSessions] /\ \A v \in Windows \ {w} : session'[v] = session[v]
    BY <1>2, Found DEF Install, Typed
  <1>4. QED BY <1>1, <1>3, Found DEF Install, Typed

(* The question before a replacement keeps a good Project to open.         *)
LEMMA Asked ==
  ASSUME CloudInv, NEW w \in Windows, NEW g \in Guard \cup {None},
         g # None => GoodCopy(history, g.next), guard' = [guard EXCEPT ![w] = g]
  PROVE  /\ guard' \in [Windows -> Guard \cup {None}] /\ guard'[w] = g
         /\ \A v \in Windows \ {w} : guard'[v] = guard[v]
  BY Found DEF Typed

(* A good Project takes the place of the copy, or is kept for the question. *)
LEMMA ReplacedOrAsked ==
  ASSUME CloudInv, NEW w \in Windows, NEW next, GoodCopy(history, next),
         ReplaceNow(w, next) \/ Ask(w, next),
         UNCHANGED <<project, history, stray, saving, edits, upsets>>
  PROVE  CloudInv'
  <1>1. next \in Copy
    BY DEF GoodCopy
  <1>2. Store' /\ Grows(history, history') /\ \A r \in stray' : GoodRequest(r)
    BY Found, StoreKept DEF CloudInv
  <1>3. CASE /\ Install(w, next)
             /\ guard' = IF guard[w] # None /\ guard[w].step # "asked"
                         THEN [guard EXCEPT ![w].fresh = FALSE] ELSE guard
    <2>1. /\ guard' \in [Windows -> Guard \cup {None}]
          /\ \A v \in Windows \ {w} : guard'[v] = guard[v]
          /\ guard'[w] # None => GoodCopy(history, guard'[w].next)
      <3>1. CASE guard[w] # None /\ guard[w].step # "asked"
        <4>1. guard' = [guard EXCEPT ![w].fresh = FALSE] /\ guard[w] \in Guard
          BY <1>3, <3>1, Found
        <4>2. /\ guard' \in [Windows -> Guard \cup {None}]
              /\ \A v \in Windows \ {w} : guard'[v] = guard[v]
              /\ guard'[w].next = guard[w].next
          BY <4>1, Found DEF Typed, Guard
        <4>3. QED BY <3>1, <4>2, Found
      <3>2. CASE ~(guard[w] # None /\ guard[w].step # "asked")
        BY <1>3, <3>2, Found DEF Typed
      <3>3. QED BY <3>1, <3>2
    <2>2. Typed' /\ Counted'
      BY <1>1, <1>3, <2>1, Installed, Found DEF Typed, Counted
    <2>3. GoodWindow(history', copy'[w], saving'[w], creation'[w], guard'[w])
      BY <1>1, <1>3, <2>1, Installed, Found DEF GoodWindow
    <2>4. \A v \in Windows \ {w} : /\ copy'[v] = copy[v] /\ saving'[v] = saving[v]
                                /\ creation'[v] = creation[v] /\ guard'[v] = guard[v]
      BY <1>1, <1>3, <2>1, Installed
    <2>5. QED BY <1>2, <2>2, <2>3, <2>4, OneWindow
  <1>4. CASE /\ guard' = [guard EXCEPT ![w] =
                  [next |-> next, fresh |-> guard[w] = None \/ guard[w].step = "asked",
                   step |-> IF guard[w] = None THEN "asked" ELSE guard[w].step]]
             /\ UNCHANGED <<copy, session, creation>>
    <2> DEFINE fresh == guard[w] = None \/ guard[w].step = "asked"
               step == IF guard[w] = None THEN "asked" ELSE guard[w].step
               g == [next |-> next, fresh |-> fresh, step |-> step]
    <2>1. fresh \in BOOLEAN /\ step \in {"asked", "saving", "saved", "failed"}
      BY Found DEF Guard
    <2> HIDE DEF fresh, step
    <2>2. g \in Guard /\ g.next = next
      BY <1>1, <2>1 DEF Guard
    <2>3. guard' = [guard EXCEPT ![w] = g]
      BY <1>4 DEF fresh, step
    <2> HIDE DEF g
    <2>4. /\ guard' \in [Windows -> Guard \cup {None}] /\ guard'[w] = g
          /\ \A v \in Windows \ {w} : guard'[v] = guard[v]
      BY <1>1, <2>2, <2>3, Asked
    <2>5. Typed' /\ Counted'
      BY <1>4, <2>4, Found DEF Typed, Counted
    <2>6. GoodWindow(history', copy'[w], saving'[w], creation'[w], guard'[w])
      BY <1>1, <1>4, <2>2, <2>4, Found DEF GoodWindow
    <2>7. QED BY <1>2, <1>4, <2>4, <2>5, <2>6, OneWindow
  <1>5. QED BY <1>3, <1>4 DEF ReplaceNow, Ask

LEMMA ReplaceStep ==
  ASSUME CloudInv, NEW w \in Windows, Replace(w)
  PROVE  CloudInv'
  <1>1. PICK next \in Replacements(w) : ReplaceNow(w, next) \/ Ask(w, next)
    BY DEF Replace
  <1>2. UNCHANGED <<project, history, stray, saving, edits, upsets>>
    BY DEF Replace
  <1>3. QED BY <1>1, <1>2, ReplacementsGood, ReplacedOrAsked

LEMMA BeginOpenStep ==
  ASSUME CloudInv, NEW w \in Windows, BeginOpen(w)
  PROVE  CloudInv'
  <1>1. UNCHANGED <<project, history, stray, copy, session, saving, creation, guard, edits>>
    BY DEF BeginOpen
  <1>2. Store' /\ Typed' /\ Counted'
    BY <1>1, StoreKept, CloudSaveAssumption DEF CloudInv, Typed, Counted, BeginOpen
  <1>3. QED BY <1>1, <1>2 DEF CloudInv

LEMMA FetchedStep ==
  ASSUME CloudInv, NEW w \in Windows, Fetched(w)
  PROVE  CloudInv'
  <1>1. UNCHANGED <<project, history, stray, copy, session, saving, creation, guard, edits, upsets>>
    BY DEF Fetched
  <1>2. Store' /\ Typed' /\ Counted'
    BY <1>1, StoreKept DEF CloudInv, Typed, Counted
  <1>3. QED BY <1>1, <1>2 DEF CloudInv

LEMMA InstallOpenedStep ==
  ASSUME CloudInv, OpenInv, NEW w \in Windows, InstallOpened(w)
  PROVE  CloudInv'
  <1>1. GoodCopy(history, opening[w].next)
    BY DEF OpenInv, GoodOpening, InstallOpened
  <1>2. ReplaceNow(w, opening[w].next) /\ UNCHANGED <<project, history, stray, saving, edits, upsets>>
    BY DEF InstallOpened
  <1>3. QED BY <1>1, <1>2, ReplacedOrAsked

LEMMA CancelStep ==
  ASSUME CloudInv, NEW w \in Windows, Cancel(w)
  PROVE  CloudInv'
  <1>1. UNCHANGED <<project, history, stray, copy, session, saving, creation, edits, upsets>>
        /\ guard' = [guard EXCEPT ![w] = None]
    BY DEF Cancel
  <1>2. /\ guard' \in [Windows -> Guard \cup {None}] /\ guard'[w] = None
        /\ \A v \in Windows \ {w} : guard'[v] = guard[v]
    BY <1>1, Found DEF Typed
  <1>3. Typed' /\ Counted'
    BY <1>1, <1>2, Found DEF Typed, Counted
  <1>4. GoodWindow(history', copy'[w], saving'[w], creation'[w], guard'[w])
    BY <1>1, <1>2, Found DEF GoodWindow
  <1>5. Store' /\ Grows(history, history') /\ \A r \in stray' : GoodRequest(r)
    BY <1>1, Found, StoreKept DEF CloudInv
  <1>6. QED BY <1>1, <1>2, <1>3, <1>4, <1>5, OneWindow

(* The kept Project is installed and the question goes away.               *)
LEMMA GuardedInstall ==
  ASSUME CloudInv, NEW w \in Windows, guard[w] # None, Install(w, guard[w].next),
         guard' = [guard EXCEPT ![w] = None],
         UNCHANGED <<project, history, stray, saving, edits, upsets>>
  PROVE  CloudInv'
  <1>1. GoodCopy(history, guard[w].next)
    BY Found
  <1>2. /\ guard' \in [Windows -> Guard \cup {None}] /\ guard'[w] = None
        /\ \A v \in Windows \ {w} : guard'[v] = guard[v]
    BY Found DEF Typed
  <1>3. Typed' /\ Counted'
    BY <1>1, <1>2, Installed, Found DEF Typed, Counted
  <1>4. GoodWindow(history', copy'[w], saving'[w], creation'[w], guard'[w])
    BY <1>1, <1>2, Installed, Found DEF GoodWindow
  <1>5. Store' /\ Grows(history, history') /\ \A r \in stray' : GoodRequest(r)
    BY Found, StoreKept DEF CloudInv
  <1>6. QED BY <1>1, <1>2, <1>3, <1>4, <1>5, Installed, OneWindow

LEMMA DiscardStep ==
  ASSUME CloudInv, NEW w \in Windows, Discard(w)
  PROVE  CloudInv'
  BY GuardedInstall DEF Discard

LEMMA SaveAndContinueStep ==
  ASSUME CloudInv, NEW w \in Windows, SaveAndContinue(w)
  PROVE  CloudInv'
  <1>1. /\ UNCHANGED <<project, history, stray, session, edits, upsets>>
        /\ guard[w] # None /\ guard' = [guard EXCEPT ![w].step = "saving"]
    BY DEF SaveAndContinue
  <1>2. guard[w] \in Guard
    BY <1>1, Found
  <1>3. /\ guard' \in [Windows -> Guard \cup {None}]
        /\ \A v \in Windows \ {w} : guard'[v] = guard[v]
        /\ guard'[w].next = guard[w].next
    BY <1>1, <1>2, Found DEF Typed, Guard
  <1>4. GoodCopy(history, guard'[w].next)
    BY <1>1, <1>3, Found
  <1>5. Store' /\ Grows(history, history') /\ \A r \in stray' : GoodRequest(r)
    BY <1>1, Found, StoreKept DEF CloudInv
  <1>6. CASE StartSave(w)
    <2>1. Typed' /\ Counted'
      BY <1>1, <1>3, <1>6, StartSaveGood, Found DEF Typed, Counted
    <2>2. GoodWindow(history', copy'[w], saving'[w], creation'[w], guard'[w])
      BY <1>1, <1>4, <1>6, StartSaveGood DEF GoodWindow
    <2>3. QED BY <1>1, <1>3, <1>5, <1>6, <2>1, <2>2, StartSaveGood, OneWindow
  <1>7. CASE UNCHANGED <<copy, saving, creation>>
    <2>1. Typed' /\ Counted'
      BY <1>1, <1>3, <1>7, Found DEF Typed, Counted
    <2>2. GoodWindow(history', copy'[w], saving'[w], creation'[w], guard'[w])
      BY <1>1, <1>4, <1>7, Found DEF GoodWindow
    <2>3. QED BY <1>1, <1>3, <1>5, <1>7, <2>1, <2>2, OneWindow
  <1>8. QED BY <1>6, <1>7 DEF SaveAndContinue

LEMMA ContinueStep ==
  ASSUME CloudInv, NEW w \in Windows, Continue(w)
  PROVE  CloudInv'
  <1>1. guard[w] # None /\ UNCHANGED <<project, history, stray, saving, edits, upsets>>
    BY DEF Continue
  <1>2. CASE Install(w, guard[w].next) /\ guard' = [guard EXCEPT ![w] = None]
    BY <1>1, <1>2, GuardedInstall
  <1>3. CASE /\ guard' = [guard EXCEPT ![w].step = "asked", ![w].fresh = TRUE]
             /\ UNCHANGED <<copy, session, creation>>
    <2>1. guard[w] \in Guard
      BY <1>1, Found
    <2>2. /\ guard' \in [Windows -> Guard \cup {None}]
          /\ \A v \in Windows \ {w} : guard'[v] = guard[v]
          /\ guard'[w].next = guard[w].next
      BY <1>3, <2>1, Found DEF Typed, Guard
    <2>3. Typed' /\ Counted'
      BY <1>1, <1>3, <2>2, Found DEF Typed, Counted
    <2>4. GoodWindow(history', copy'[w], saving'[w], creation'[w], guard'[w])
      BY <1>1, <1>3, <2>2, Found DEF GoodWindow
    <2>5. Store' /\ Grows(history, history') /\ \A r \in stray' : GoodRequest(r)
      BY <1>1, Found, StoreKept DEF CloudInv
    <2>6. QED BY <1>1, <1>3, <2>2, <2>3, <2>4, <2>5, OneWindow
  <1>4. QED BY <1>2, <1>3 DEF Continue

(* The page is loaded anew: what it shows as clean was the stored content. *)
LEMMA ReloadStep ==
  ASSUME CloudInv, NEW w \in Windows, Reload(w)
  PROVE  CloudInv'
  <1> DEFINE bound == ~Dirty(w) /\ copy[w].binding # None
             state == IF bound THEN "clean" ELSE IF Dirty(w) THEN "dirty" ELSE "unbound"
             baseline == IF bound THEN copy[w].live ELSE None
  <1>1. UNCHANGED <<project, history, session, edits>>
    BY DEF Reload
  <1>2. copy' = [copy EXCEPT ![w] = [copy[w] EXCEPT !.state = state, !.baseline = baseline]]
    BY Found DEF Reload, Typed
  <1>3. copy[w].state \in {"unbound", "clean"} \/ Dirty(w)
    BY Found DEF Copy, States, Dirty
  <1>4. copy[w].live \in Contents /\ None \notin Contents
    BY Found, CloudSaveAssumption DEF Copy
  <1>5. bound => copy[w].live = copy[w].baseline
    BY <1>3, Found DEF GoodCopy
  <1>6. ~bound /\ ~Dirty(w) => copy[w].live = Blank /\ copy[w].binding = None
    BY <1>3, <1>4, Found DEF GoodCopy
  <1>7. state \in States /\ baseline \in Contents \cup {None}
    BY <1>4 DEF States
  <1>8. /\ bound => state = "clean" /\ baseline = copy[w].live
        /\ ~bound => state # "clean" /\ baseline = None
        /\ state = "unbound" => ~bound /\ ~Dirty(w)
    OBVIOUS
  <1> HIDE DEF bound, state, baseline
  <1>9. /\ copy' \in [Windows -> Copy]
        /\ \A v \in Windows \ {w} : copy'[v] = copy[v]
        /\ copy'[w] \in Copy
        /\ copy'[w].live = copy[w].live /\ copy'[w].binding = copy[w].binding
        /\ copy'[w].base = copy[w].base
        /\ copy'[w].state = state /\ copy'[w].baseline = baseline
    BY <1>2, <1>7, Found DEF Typed, Copy
  <1>10. GoodCopy(history, copy'[w])
    BY <1>4, <1>5, <1>6, <1>8, <1>9, Found DEF GoodCopy
  <1>11. /\ saving' = [saving EXCEPT ![w] = None] /\ creation' = [creation EXCEPT ![w] = None]
         /\ guard' = [guard EXCEPT ![w] = None]
    BY DEF Reload
  <1>12. /\ saving' \in [Windows -> Saving \cup {None}] /\ saving'[w] = None
         /\ creation' \in [Windows -> Creation \cup {None}]
         /\ guard' \in [Windows -> Guard \cup {None}] /\ guard'[w] = None
         /\ \A v \in Windows \ {w} : /\ saving'[v] = saving[v] /\ creation'[v] = creation[v]
                                    /\ guard'[v] = guard[v]
    BY <1>11, Found DEF Typed
  <1>13. Typed'
    BY <1>1, <1>9, <1>12, Found DEF Typed
  <1>14. Counted'
    BY <1>1, Found, CloudSaveAssumption DEF Counted, Reload
  <1>15. GoodWindow(history', copy'[w], saving'[w], creation'[w], guard'[w])
    BY <1>1, <1>10, <1>12 DEF GoodWindow
  <1>16. \A r \in stray' : GoodRequest(r)
    <2>1. saving[w] # None => GoodRequest(saving[w].request)
      BY Found DEF GoodSaving
    <2>2. QED BY <2>1 DEF CloudInv, Reload
  <1>17. Store' /\ Grows(history, history')
    BY <1>1, Found, StoreKept
  <1>18. QED BY <1>9, <1>12, <1>13, <1>14, <1>15, <1>16, <1>17, OneWindow

-------------------------------------------------------------------------------
(* The shelf.                                                              *)
LEMMA DeleteStep ==
  ASSUME CloudInv, NEW id \in Ids, Delete(id)
  PROVE  CloudInv'
  <1> DEFINE row == [revision |-> 0, text |-> Blank, versions |-> {}]
  <1>1. UNCHANGED <<history, stray, copy, session, saving, creation, guard, edits>>
        /\ project' = [project EXCEPT ![id] = row]
    BY DEF Delete
  <1>2. row \in Row /\ row.revision = 0 /\ row.versions = {}
    BY CloudSaveAssumption DEF Row
  <1> HIDE DEF row
  <1>3. /\ project' \in [Ids -> Row] /\ project'[id] = row
        /\ \A i \in Ids \ {id} : project'[i] = project[i]
    BY <1>1, <1>2 DEF CloudInv, Store
  <1>4. \A i \in Ids : Exists(i)' =>
          /\ project'[i].revision = Len(history[i])
          /\ history[i][project'[i].revision].text = project'[i].text
    <2>1. SUFFICES ASSUME NEW i \in Ids, Exists(i)'
                   PROVE  /\ project'[i].revision = Len(history[i])
                          /\ history[i][project'[i].revision].text = project'[i].text
      OBVIOUS
    <2>2. i # id
      BY <1>2, <1>3, <2>1 DEF Exists
    <2>3. QED BY <1>3, <2>1, <2>2 DEF CloudInv, Store, Exists
  <1>5. \A i \in Ids : project'[i].versions \subseteq 1..project'[i].revision
    BY <1>2, <1>3 DEF CloudInv, Store
  <1>6. NothingBuried'
    BY <1>1 DEF CloudInv, Store, NothingBuried, Revisions
  <1>7. Store'
    BY <1>1, <1>3, <1>4, <1>5, <1>6 DEF CloudInv, Store
  <1>8. Typed' /\ Counted'
    BY <1>1, CloudSaveAssumption DEF CloudInv, Typed, Counted, Delete
  <1>9. QED BY <1>1, <1>7, <1>8 DEF CloudInv

(* A save made on the current revision is a good request.                  *)
LEMMA CurrentPut ==
  ASSUME Store, NEW id \in Ids, Exists(id), NEW text \in Contents
  PROVE  GoodRequest(Put(Current(id), text, project[id].revision))
  <1> DEFINE b == Current(id)
             n == project[id].revision
             put == Put(b, text, n)
  <1>1. b.id = id /\ b.revision = n
    BY DEF Current
  <1>2. n \in 0..MaxRevisions /\ id \in Ids \cup {0}
    BY DEF Store, Row
  <1>3. put = [id |-> id, revision |-> n, text |-> text, base |-> n, checked |-> FALSE]
    BY <1>1 DEF Put
  <1> HIDE DEF put, n
  <1>4. put \in Request
    BY <1>2, <1>3 DEF Request
  <1>5. put.id = id /\ put.revision = n /\ put.base = n
    BY <1>3
  <1>6. GoodRequest(put)
    BY <1>4, <1>5 DEF GoodRequest
  <1>7. QED BY <1>6 DEF put, n

LEMMA ShelfSends ==
  ASSUME CloudInv, NEW id \in Ids, Exists(id), NEW text \in Contents,
         stray' = stray \cup {Put(Current(id), text, project[id].revision)},
         upsets < MaxUpsets, upsets' = upsets + 1,
         UNCHANGED <<project, history, copy, session, saving, creation, guard, edits>>
  PROVE  CloudInv'
  <1>1. \A r \in stray' : GoodRequest(r)
    BY CurrentPut DEF CloudInv
  <1>2. Store' /\ Typed' /\ Counted'
    BY StoreKept, CloudSaveAssumption DEF CloudInv, Typed, Counted
  <1>3. QED BY <1>1, <1>2 DEF CloudInv

LEMMA RestoreVersionStep ==
  ASSUME CloudInv, NEW id \in Ids, RestoreVersion(id)
  PROVE  CloudInv'
  <1>1. PICK v \in project[id].versions :
          stray' = stray \cup {Put(Current(id), history[id][v].text, project[id].revision)}
    BY DEF RestoreVersion
  <1>2. project[id] \in Row /\ v \in 1..project[id].revision /\ history[id] \in Seq(Commit)
    BY DEF CloudInv, Store
  <1>3. Exists(id)
    BY <1>2 DEF Exists, Row
  <1>4. v \in 1..Len(history[id])
    BY <1>2, <1>3 DEF CloudInv, Store
  <1>5. history[id][v].text \in Contents
    <2>1. history[id][v] \in Commit
      BY <1>2, <1>4
    <2>2. QED BY <2>1 DEF Commit
  <1>6. QED BY <1>1, <1>3, <1>5, ShelfSends DEF RestoreVersion

LEMMA SaveElsewhereStep ==
  ASSUME CloudInv, NEW id \in Ids, SaveElsewhere(id)
  PROVE  CloudInv'
  <1>1. PICK text \in Contents :
          stray' = stray \cup {Put(Current(id), text, project[id].revision)}
    BY DEF SaveElsewhere
  <1>2. QED BY <1>1, ShelfSends DEF SaveElsewhere

-------------------------------------------------------------------------------
(* The initial state, and every step.                                      *)
LEMMA InitGood == Init => CloudInv
  <1>1. SUFFICES ASSUME Init PROVE CloudInv
    OBVIOUS
  <1>2. PICK old \in 0..MaxShared, text \in Contents \ {Blank} :
          /\ project = [id \in Ids |-> [revision |-> IF id <= old THEN 1 ELSE 0,
                                       text |-> IF id <= old THEN text ELSE Blank, versions |-> {}]]
          /\ history = [id \in Ids |-> IF id <= old THEN <<[text |-> text, base |-> 0]>> ELSE <<>>]
    BY <1>1 DEF Init
  <1> DEFINE e == [text |-> text, base |-> 0]
             shared == [revision |-> 1, text |-> text, versions |-> {}]
             free == [revision |-> 0, text |-> Blank, versions |-> {}]
  <1>3. 0 \in 0..MaxRevisions /\ 1 \in 0..MaxRevisions /\ Blank \in Contents
    BY CloudSaveAssumption
  <1>4. e \in Commit /\ shared \in Row /\ free \in Row
    BY <1>3 DEF Commit, Row
  <1>5. e.text = text /\ shared.revision = 1 /\ shared.text = text /\ shared.versions = {}
        /\ free.revision = 0 /\ free.versions = {}
    OBVIOUS
  <1>6. \A id \in Ids : project[id] = IF id <= old THEN shared ELSE free
    BY <1>2
  <1>7. \A id \in Ids : history[id] = IF id <= old THEN <<e>> ELSE <<>>
    BY <1>2
  <1> HIDE DEF e, shared, free
  <1>8. Len(<<e>>) = 1 /\ <<e>>[1] = e /\ <<e>> \in Seq(Commit) /\ <<>> \in Seq(Commit)
    BY <1>4
  <1>9. Store
    <2>1. project \in [Ids -> Row] /\ history \in [Ids -> Seq(Commit)]
      BY <1>2, <1>4, <1>6, <1>7, <1>8
    <2>2. \A id \in Ids : Exists(id) =>
            /\ project[id].revision = Len(history[id])
            /\ history[id][project[id].revision].text = project[id].text
      <3>1. SUFFICES ASSUME NEW id \in Ids, Exists(id)
                     PROVE  /\ project[id].revision = Len(history[id])
                            /\ history[id][project[id].revision].text = project[id].text
        OBVIOUS
      <3>2. id <= old
        BY <1>5, <1>6, <3>1 DEF Exists
      <3>3. project[id] = shared /\ history[id] = <<e>>
        BY <1>6, <1>7, <3>2
      <3>4. QED BY <1>5, <1>8, <3>3
    <2>3. \A id \in Ids : project[id].versions \subseteq 1..project[id].revision
      BY <1>5, <1>6
    <2>4. NothingBuried
      <3>1. Len(<<>>) = 0
        OBVIOUS
      <3>2. QED BY <1>7, <1>8, <3>1 DEF NothingBuried, Revisions
    <2>5. QED BY <2>1, <2>2, <2>3, <2>4 DEF Store
  <1>10. \A w \in Windows : GoodCopy(history, copy[w])
    BY <1>1, <1>9, NewProjectGood, OpenedGood DEF Init
  <1>11. Typed
    <2>1. \A w \in Windows : copy[w] \in Copy
      BY <1>10 DEF GoodCopy
    <2>2. 0 \in 0..MaxSessions
      BY CloudSaveAssumption
    <2>3. QED BY <1>1, <2>1, <2>2 DEF Init, Typed
  <1>12. Counted
    BY <1>1, CloudSaveAssumption DEF Init, Counted
  <1>13. \A w \in Windows : GoodWindow(history, copy[w], saving[w], creation[w], guard[w])
    BY <1>1, <1>10 DEF Init, GoodWindow
  <1>14. QED BY <1>1, <1>9, <1>11, <1>12, <1>13 DEF CloudInv, Init

LEMMA NextGood == CloudInv /\ OpenInv /\ [Next]_vars => CloudInv'
  <1>1. SUFFICES ASSUME CloudInv, OpenInv, [Next]_vars PROVE CloudInv'
    OBVIOUS
  <1>2. ASSUME NEW w \in Windows,
               \/ \E text \in Contents \ {Blank} : Edit(w, text)
               \/ Save(w) \/ Served(w) \/ LoseCall(w)
               \/ FollowUp(w) \/ SaveAnswered(w) \/ SaveFailed(w)
        PROVE  CloudInv'
    BY <1>1, <1>2, EditStep, SaveStep, ServedStep, LoseCallStep, FollowUpStep,
       SaveAnsweredStep, SaveFailedStep
  <1>3. ASSUME NEW w \in Windows,
               \/ Replace(w) \/ BeginOpen(w) \/ Fetched(w) \/ InstallOpened(w)
               \/ Cancel(w) \/ Discard(w) \/ SaveAndContinue(w) \/ Continue(w)
               \/ Reload(w)
        PROVE  CloudInv'
    BY <1>1, <1>3, ReplaceStep, BeginOpenStep, FetchedStep, InstallOpenedStep, CancelStep, DiscardStep, SaveAndContinueStep, ContinueStep,
       ReloadStep
  <1>4. CASE ServeStray
    BY <1>1, <1>4, ServeStrayStep
  <1>5. ASSUME NEW id \in 1..MaxShared, Delete(id) \/ RestoreVersion(id) \/ SaveElsewhere(id)
        PROVE  CloudInv'
    <2>1. id \in Ids
      BY CloudSaveAssumption DEF Ids
    <2>2. QED BY <1>1, <1>5, <2>1, DeleteStep, RestoreVersionStep, SaveElsewhereStep
  <1>6. CASE UNCHANGED vars
    <2>1. Store'
      BY <1>1, <1>6, StoreKept DEF vars, CloudInv
    <2>2. QED BY <1>1, <1>6, <2>1 DEF vars, CloudInv, Typed, Counted
  <1>7. QED BY <1>1, <1>2, <1>3, <1>4, <1>5, <1>6 DEF Next

-------------------------------------------------------------------------------
(* The restore of the recent Project.                                      *)

(* Whatever happens, no revision is lost or changed.                       *)
LEMMA HistoryGrows ==
  ASSUME CloudInv, [Next]_vars
  PROVE  Grows(history, history')
  <1>1. CASE UNCHANGED history
    BY <1>1, GrowsItself
  <1>2. ASSUME NEW w \in Windows, Served(w) PROVE Grows(history, history')
    <2>1. saving[w] # None /\ GoodSaving(history, saving[w])
      BY <1>2, Found DEF Served
    <2>2. GoodRequest(saving[w].request)
      BY <2>1 DEF GoodSaving
    <2>3. PICK answer \in Answer \cup {None} : Serve(saving[w].request, answer)
      BY <1>2 DEF Served
    <2>4. QED BY <2>2, <2>3, ServeStep DEF CloudInv
  <1>3. CASE ServeStray
    <2>1. PICK r \in stray, answer \in Answer \cup {None} : Serve(r, answer)
      BY <1>3 DEF ServeStray
    <2>2. QED BY <2>1, ServeStep DEF CloudInv
  <1>4. ASSUME NEW w \in Windows,
               \/ \E text \in Contents \ {Blank} : Edit(w, text)
               \/ Save(w) \/ LoseCall(w)
               \/ FollowUp(w) \/ SaveAnswered(w) \/ SaveFailed(w)
        PROVE  UNCHANGED history
    BY <1>4 DEF Edit, Save, LoseCall, FollowUp, SaveAnswered, SaveFailed
  <1>5. ASSUME NEW w \in Windows,
               \/ Replace(w) \/ BeginOpen(w) \/ Fetched(w) \/ InstallOpened(w)
               \/ Cancel(w) \/ Discard(w) \/ SaveAndContinue(w) \/ Continue(w)
               \/ Reload(w)
        PROVE  UNCHANGED history
    BY <1>5 DEF Replace, BeginOpen, Fetched, InstallOpened, Cancel, Discard, SaveAndContinue,
                Continue, Reload
  <1>6. ASSUME NEW id \in 1..MaxShared, Delete(id) \/ RestoreVersion(id) \/ SaveElsewhere(id)
        PROVE  UNCHANGED history
    BY <1>6 DEF Delete, RestoreVersion, SaveElsewhere
  <1>7. CASE UNCHANGED vars
    BY <1>1, <1>7 DEF vars
  <1>8. QED BY <1>1, <1>2, <1>3, <1>4, <1>5, <1>6, <1>7 DEF Next

(* What a window without unsaved work shows is blank or in the store.      *)
LEMMA NothingUnsaved ==
  ASSUME CloudInv, NEW w \in Windows, ~Dirty(w)
  PROVE  copy[w].live = Blank \/ InHistory(history, copy[w].live)
  <1>1. copy[w].state \in {"unbound", "clean"} /\ copy[w].live \in Contents
    BY Found DEF Copy, States, Dirty
  <1>2. CASE copy[w].state = "unbound"
    BY <1>2, Found DEF GoodCopy
  <1>3. CASE copy[w].state = "clean"
    <2>1. copy[w].live = copy[w].baseline /\ copy[w].baseline # None
      BY <1>1, <1>3, Found, CloudSaveAssumption DEF GoodCopy
    <2>2. copy[w].binding \in Binding /\ StoredIn(history, copy[w].binding, copy[w].live)
      BY <2>1, Found DEF GoodCopy, Copy
    <2>3. QED BY <2>2 DEF InHistory
  <1>4. QED BY <1>1, <1>2, <1>3

LEMMA OpeningKept ==
  ASSUME NEW h, NEW k, Grows(h, k), NEW o, GoodOpening(h, o)
  PROVE  GoodOpening(k, o)
  <1>1. o \in Opening /\ o.live \in Contents
    BY DEF GoodOpening, Opening
  <1>2. InHistory(h, o.live) => InHistory(k, o.live)
    BY <1>1 DEF InHistory, Grows
  <1>3. QED BY <1>1, <1>2, CopyKept DEF GoodOpening

LEMMA DoneIsGood == \A h : GoodOpening(h, OpenIs("done")) /\ GoodOpening(h, OpenIs("ready"))
  BY CloudSaveAssumption DEF GoodOpening, OpenIs, Opening

(* One window's restore makes a step, the others' stay as they are.        *)
LEMMA OneOpening ==
  ASSUME OpenInv, Grows(history, history'), NEW w \in Windows, NEW o,
         GoodOpening(history', o), opening' = [opening EXCEPT ![w] = o]
  PROVE  OpenInv'
  <1>1. o \in Opening
    BY DEF GoodOpening
  <1>2. /\ opening' \in [Windows -> Opening] /\ opening'[w] = o
        /\ \A v \in Windows \ {w} : opening'[v] = opening[v]
    BY <1>1 DEF OpenInv
  <1>3. \A v \in Windows : GoodOpening(history', opening[v])
    BY OpeningKept DEF OpenInv
  <1>4. QED BY <1>2, <1>3 DEF OpenInv

LEMMA OpenNext == CloudInv /\ OpenInv /\ [Next]_vars => OpenInv'
  <1>1. SUFFICES ASSUME CloudInv, OpenInv, [Next]_vars PROVE OpenInv'
    OBVIOUS
  <1>2. Grows(history, history')
    BY <1>1, HistoryGrows
  <1>3. CASE UNCHANGED opening
    BY <1>1, <1>2, <1>3, OpeningKept DEF OpenInv
  <1>4. ASSUME NEW w \in Windows, BeginOpen(w) PROVE OpenInv'
    <2> DEFINE o == [step |-> "fetching", live |-> copy[w].live, next |-> None]
    <2>1. UNCHANGED history /\ opening' = [opening EXCEPT ![w] = o]
      BY <1>4 DEF BeginOpen
    <2>2. copy[w].live \in Contents
      BY <1>1, Found DEF Copy
    <2>3. copy[w].live = Blank \/ InHistory(history, copy[w].live)
      BY <1>1, <1>4, NothingUnsaved DEF BeginOpen
    <2>4. o \in Opening /\ o.step = "fetching" /\ o.live = copy[w].live
      BY <2>2 DEF Opening
    <2> HIDE DEF o
    <2>5. GoodOpening(history', o)
      BY <2>1, <2>3, <2>4 DEF GoodOpening
    <2>6. QED BY <1>1, <1>2, <2>1, <2>5, OneOpening
  <1>5. ASSUME NEW w \in Windows, Fetched(w) PROVE OpenInv'
    <2>1. UNCHANGED history /\ opening[w].step = "fetching" /\ GoodOpening(history, opening[w])
      BY <1>1, <1>5 DEF Fetched, OpenInv
    <2>2. CASE opening' = [opening EXCEPT ![w] = OpenIs("done")]
      BY <1>1, <1>2, <2>2, DoneIsGood, OneOpening
    <2>3. ASSUME NEW id \in Ids, Exists(id),
                 opening' = [opening EXCEPT ![w].step = "fetched", ![w].next = Opened(id)]
          PROVE  OpenInv'
      <3> DEFINE old == opening[w]
                 next == Opened(id)
                 o == [old EXCEPT !.step = "fetched", !.next = next]
      <3>1. GoodCopy(history, next) /\ next \in Copy
        BY <1>1, <2>3, OpenedGood DEF CloudInv, GoodCopy
      <3>2. opening' = [opening EXCEPT ![w] = o]
        BY <1>1, <2>3 DEF OpenInv
      <3>3. old \in Opening
        BY <2>1 DEF GoodOpening
      <3> HIDE DEF next, old
      <3>4. o \in Opening /\ o.step = "fetched" /\ o.next = next /\ o.live = old.live
        BY <3>1, <3>3 DEF Opening
      <3>5. old.live = Blank \/ InHistory(history, old.live)
        BY <2>1 DEF GoodOpening, old
      <3> HIDE DEF o
      <3>6. GoodOpening(history', o)
        BY <2>1, <3>1, <3>4, <3>5 DEF GoodOpening
      <3>7. QED BY <1>1, <1>2, <3>2, <3>6, OneOpening
    <2>4. QED BY <1>5, <2>2, <2>3 DEF Fetched
  <1>6. ASSUME NEW w \in Windows, InstallOpened(w) \/ Reload(w) PROVE OpenInv'
    <2>1. opening' = [opening EXCEPT ![w] = OpenIs("done")]
      BY <1>6 DEF InstallOpened, Reload
    <2>2. QED BY <1>1, <1>2, <2>1, DoneIsGood, OneOpening
  <1>7. ASSUME NEW w \in Windows,
               \/ \E text \in Contents \ {Blank} : Edit(w, text)
               \/ Save(w) \/ Served(w) \/ LoseCall(w)
               \/ FollowUp(w) \/ SaveAnswered(w) \/ SaveFailed(w)
        PROVE  UNCHANGED opening
    BY <1>7 DEF Edit, Save, Served, LoseCall, FollowUp, SaveAnswered, SaveFailed
  <1>8. ASSUME NEW w \in Windows,
               Replace(w) \/ Cancel(w) \/ Discard(w) \/ SaveAndContinue(w) \/ Continue(w)
        PROVE  UNCHANGED opening
    BY <1>8 DEF Replace, Cancel, Discard, SaveAndContinue, Continue
  <1>9. CASE ServeStray
    BY <1>9, <1>3 DEF ServeStray
  <1>10. ASSUME NEW id \in 1..MaxShared, Delete(id) \/ RestoreVersion(id) \/ SaveElsewhere(id)
         PROVE  UNCHANGED opening
    BY <1>10 DEF Delete, RestoreVersion, SaveElsewhere
  <1>11. CASE UNCHANGED vars
    BY <1>3, <1>11 DEF vars
  <1>12. QED BY <1>1, <1>3, <1>4, <1>5, <1>6, <1>7, <1>8, <1>9, <1>10, <1>11 DEF Next

LEMMA OpenInit == Init => OpenInv
  <1>1. SUFFICES ASSUME Init PROVE OpenInv
    OBVIOUS
  <1>2. opening = [w \in Windows |-> OpenIs(IF copy[w] = NewProject THEN "ready" ELSE "done")]
    BY <1>1 DEF Init
  <1>3. \A w \in Windows : GoodOpening(history, opening[w])
    BY <1>2, DoneIsGood
  <1>4. \A w \in Windows : opening[w] \in Opening
    BY <1>3 DEF GoodOpening
  <1>5. QED BY <1>2, <1>3, <1>4 DEF OpenInv

-------------------------------------------------------------------------------
(* The inductive invariant of the store, the requests and the windows.     *)
THEOREM CloudSafe == Spec => [](CloudInv /\ OpenInv)
  <1>1. Init => CloudInv /\ OpenInv
    BY InitGood, OpenInit
  <1>2. CloudInv /\ OpenInv /\ [Next]_vars => (CloudInv /\ OpenInv)'
    BY NextGood, OpenNext
  <1>3. QED BY <1>1, <1>2, PTL DEF Spec

(* The store, the windows and what is between them stay well formed.       *)
THEOREM TypeOKHolds == Spec => []TypeOK
  BY CloudSafe, InvIsTyped, PTL

(* A window that says "clean" shows the very content that the store took   *)
(* under the revision the window is bound to.                              *)
THEOREM CleanIsStoredHolds == Spec => []CleanIsStored
  <1>1. CloudInv => CleanIsStored
    <2>1. SUFFICES ASSUME CloudInv, NEW w \in Windows, copy[w].state = "clean"
                   PROVE  /\ copy[w].binding # None
                          /\ LET b == copy[w].binding
                             IN b.revision \in Revisions(b.id)
                                /\ history[b.id][b.revision].text = copy[w].live
      BY DEF CleanIsStored
    <2>2. copy[w].live \in Contents /\ copy[w].live = copy[w].baseline /\ GoodCopy(history, copy[w])
      BY <2>1, Found DEF GoodCopy, Copy
    <2>3. copy[w].baseline # None
      BY <2>2, CloudSaveAssumption
    <2>4. QED BY <2>2, <2>3 DEF GoodCopy, StoredIn, Revisions
  <1>2. QED BY <1>1, CloudSafe, PTL

(* No save, late request, retried create or restored version ever buries a *)
(* revision that its author had not loaded or written.                     *)
THEOREM NothingBuriedHolds == Spec => []NothingBuried
  <1>1. CloudInv => NothingBuried
    BY DEF CloudInv, Store
  <1>2. QED BY <1>1, CloudSafe, PTL

(* What a clean or a saved copy shows is in the store.                     *)
LEMMA BaselineInStore ==
  ASSUME CloudInv, NEW w \in Windows, copy[w].live = copy[w].baseline
  PROVE  InStore(copy[w].live)
  <1>1. copy[w].live \in Contents /\ GoodCopy(history, copy[w])
    BY Found DEF Copy
  <1>2. copy[w].baseline # None
    BY <1>1, CloudSaveAssumption
  <1>3. /\ copy[w].binding \in Binding /\ copy[w].binding.id \in Ids
        /\ StoredIn(history, copy[w].binding, copy[w].live)
    BY <1>1, <1>2 DEF GoodCopy, Copy, Binding
  <1>4. QED BY <1>3 DEF StoredIn, InStore, Revisions

LEMMA InHistoryInStore ==
  ASSUME NEW text, InHistory(history, text)
  PROVE  InStore(text)
  <1>1. PICK b \in Binding : StoredIn(history, b, text)
    BY DEF InHistory
  <1>2. b.id \in Ids
    BY DEF Binding
  <1>3. QED BY <1>1, <1>2 DEF StoredIn, InStore, Revisions

LEMMA ReplacementStep ==
  ASSUME CloudInv, OpenInv, Next, NEW w \in Windows, session'[w] # session[w], ~Discard(w)
  PROVE  copy[w].live = Blank \/ InStore(copy[w].live) \/ ChangedSince(w)
  <1>1. ASSUME NEW v \in Windows, NEW next, Install(v, next) PROVE v = w
    BY <1>1, Found DEF Install, Typed
  <1>2. CASE \E v \in Windows : Replace(v)
    <2>1. Replace(w) /\ ~Unsafe(w)
      BY <1>1, <1>2 DEF Replace, ReplaceNow, Ask
    <2>2. CASE Dirty(w)
      BY <2>1, <2>2 DEF Unsafe
    <2>3. CASE ~Dirty(w)
      BY <2>3, NothingUnsaved, InHistoryInStore
    <2>4. QED BY <2>2, <2>3
  <1>3. CASE \E v \in Windows : Continue(v)
    <2>1. MayContinue(w)
      BY <1>1, <1>3 DEF Continue
    <2>2. QED BY <2>1, BaselineInStore DEF MayContinue
  <1>4. CASE \E v \in Windows : Discard(v)
    BY <1>1, <1>4 DEF Discard
  <1>5. CASE \E v \in Windows :
               \/ \E text \in Contents \ {Blank} : Edit(v, text)
               \/ Save(v) \/ Served(v) \/ LoseCall(v)
               \/ FollowUp(v) \/ SaveAnswered(v) \/ SaveFailed(v)
               \/ BeginOpen(v) \/ Fetched(v)
               \/ Cancel(v) \/ SaveAndContinue(v) \/ Reload(v)
    BY <1>5 DEF Edit, Save, Served, LoseCall, FollowUp, SaveAnswered, SaveFailed, BeginOpen,
                Fetched, Cancel, SaveAndContinue, Reload
  <1>6. CASE ServeStray
    BY <1>6 DEF ServeStray
  <1>7. CASE \E id \in 1..MaxShared : Delete(id) \/ RestoreVersion(id) \/ SaveElsewhere(id)
    BY <1>7 DEF Delete, RestoreVersion, SaveElsewhere
  <1>8. CASE \E v \in Windows : InstallOpened(v)
    <2>1. InstallOpened(w)
      BY <1>1, <1>8 DEF InstallOpened, ReplaceNow
    <2>2. opening[w].live = Blank \/ InHistory(history, opening[w].live)
      BY <2>1 DEF OpenInv, GoodOpening, InstallOpened
    <2>3. CASE opening[w].live = copy[w].live
      BY <2>2, <2>3, InHistoryInStore
    <2>4. CASE opening[w].live # copy[w].live
      BY <2>1, <2>4 DEF ChangedSince
    <2>5. QED BY <2>3, <2>4
  <1>9. QED BY <1>2, <1>3, <1>4, <1>5, <1>6, <1>7, <1>8 DEF Next

(* A working copy is replaced without the user giving it up only if it is  *)
(* blank or its exact content was committed to the store, except for what  *)
(* was drawn while the restore of the recent Project fetched it: what the  *)
(* window showed when that restore began is never dropped.                 *)
THEOREM ReplacementKeepsWorkHolds == Spec => ReplacementKeepsWork
  <1>1. CloudInv /\ OpenInv /\ [Next]_vars => [SavedOrGivenUp]_vars
    BY ReplacementStep DEF SavedOrGivenUp
  <1>2. QED BY <1>1, CloudSafe, PTL DEF Spec, ReplacementKeepsWork
===============================================================================
