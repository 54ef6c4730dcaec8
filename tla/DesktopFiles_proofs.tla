------------------------ MODULE DesktopFiles_proofs ------------------------
(***************************************************************************)
(* Proofs about the desktop library file, for all contents and every       *)
(* length of the history.  One inductive invariant, DesktopInv: what the   *)
(* journal holds (JournalShape), what each step of an operation knows of   *)
(* the file and the journal (StepShape), where the contents of the history *)
(* come from (Displaced), what is archived before Save As (Archived), and, *)
(* while no other program writes, that file, grant and history agree       *)
(* (GrantHolds, Undisturbed).                                              *)
(***************************************************************************)
EXTENDS DesktopFiles, SequenceTheorems, TLAPS

\* The versions that a journal promises follow from what it replaces.
JournalShape ==
  pending # None =>
    /\ pending.before # pending.after
    /\ \/ pending.before = None /\ pending.versions = <<>>
       \/ /\ pending.before # None
          /\ \/ pending.versions = Latest(<<pending.before>> \o versions)
             \/ /\ pending.versions = <<>>
                /\ pending.before \in archive
                /\ pending.repeated \/ Elements(versions) \subseteq archive

\* What a step may rely on
StepShape ==
  op # None =>
    /\ op.step \in {"recheck", "rename"} =>
         IF op.expected = op.bytes THEN pending = None
         ELSE pending # None /\ pending.before = op.expected /\ pending.after = op.bytes
    /\ op.step = "rename" => op.raced \/ file = op.expected
    /\ op.step \in {"materialise", "settle"} => pending # None /\ pending.before = None
    /\ op.step = "materialise" =>
         /\ pending.after = op.bytes
         /\ file = None \/ (op.raced /\ touched.since)
    /\ op.step = "archive" => op.expected # None
    /\ op.step \in {"archive", "reserve"} => op.independent /\ ~op.repeated
    /\ op.step \notin {"materialise", "settle"} /\ ~op.binds => grant = None

\* Every version was replaced in the file; the content that is being replaced is in it still.
Displaced ==
  /\ Elements(versions) \subseteq displaced
  /\ pending # None =>
       /\ Elements(pending.versions) \subseteq displaced \cup {pending.before}
       /\ pending.before \in displaced \cup {file, None}
  /\ op # None /\ op.step \in {"prepare", "recheck", "rename"} =>
       op.expected \in displaced \cup {file, None}

\* What the first Save As replaces is archived with its history; a repeated one finds only the
\* content in the recycle area.
Archived ==
  /\ op # None /\ op.independent /\ ~op.repeated /\ op.expected # None
       /\ op.step \in {"reserve", "compare", "prepare"} =>
       pending = None /\ Elements(versions) \cup {op.expected} \subseteq archive
  /\ op # None /\ op.repeated => op.expected \in archive \cup {None, op.bytes}
  /\ copied # None => copied.before \in archive \cup {None}

GrantHolds ==
  /\ touched.since => touched.ever
  /\ ~touched.since =>
       IF Busy("finish") THEN file = op.bytes ELSE grant # None => file = grant

\* The file, the journal and the history while only this process writes
Undisturbed ==
  ~touched.ever =>
    /\ ~Damaged
    /\ Settled = past
    /\ file = None => past = <<>>
    /\ op # None /\ op.step \in {"prepare", "recheck", "rename"} => file = op.expected
    /\ Busy("settle") => file = pending.after
    /\ op # None /\ op.step \in {"recheck", "rename"} /\ op.expected # op.bytes =>
         pending.versions = IF op.independent \/ op.expected = None THEN <<>>
                            ELSE Latest(<<op.expected>> \o past)

DesktopInv ==
  TypeOK /\ JournalShape /\ StepShape /\ Displaced /\ Archived /\ GrantHolds /\ Undisturbed

----------------------------------------------------------------------------
(* The newest Kept of a longer history: what it holds and what it drops.   *)
LEMMA Rotation ==
  ASSUME NEW s \in History, NEW x \in Contents
  PROVE  /\ Latest(<<x>> \o s) \in History
         /\ x \in Elements(Latest(<<x>> \o s))
         /\ Elements(Latest(<<x>> \o s)) \subseteq {x} \cup Elements(s)
         /\ \A y \in Elements(s) \ Elements(Latest(<<x>> \o s)) :
              Len(s) = Kept /\ Len(Latest(<<x>> \o s)) = Kept /\ y = s[Kept]
  <1> DEFINE t == <<x>> \o s
             L == Latest(t)
  <1>1. PICK n \in 0..Kept : s \in [1..n -> Contents]
    BY DEF History
  <1>2. s \in Seq(Contents) /\ Len(s) = n /\ DOMAIN s = 1..n
    BY <1>1, DesktopFilesAssumption
  <1>3. /\ t \in Seq(Contents) /\ Len(t) = n + 1
        /\ t[1] = x /\ \A i \in 1..n : t[i + 1] = s[i]
    BY <1>2
  <1>4. PICK m \in 0..Kept : /\ m = (IF n + 1 < Kept THEN n + 1 ELSE Kept)
                             /\ L = SubSeq(t, 1, m)
    BY <1>3, DesktopFilesAssumption DEF Latest
  <1>5. m \in 1..(n + 1) /\ (m = n + 1 \/ (m = Kept /\ n = Kept))
    BY <1>1, <1>4, DesktopFilesAssumption
  <1> HIDE DEF t, L
  <1>6. /\ L \in [1..m -> Contents] /\ Len(L) = m
        /\ \A i \in 1..m : L[i] = t[i]
    <2>1. /\ SubSeq(t, 1, m) \in Seq(Contents)
          /\ Len(SubSeq(t, 1, m)) = m
          /\ \A i \in 1..m : SubSeq(t, 1, m)[i] = t[i]
      BY <1>3, <1>5, SubSeqProperties
    <2>2. L \in Seq(Contents) /\ Len(L) = m
      BY <1>4, <2>1
    <2>3. L \in [1..m -> Contents]
      BY <2>2
    <2>4. QED BY <1>4, <2>1, <2>2, <2>3
  <1>7. L \in History
    BY <1>6 DEF History
  <1>8. DOMAIN L = 1..m
    BY <1>6
  <1>9. x \in Elements(L)
    BY <1>3, <1>5, <1>6, <1>8 DEF Elements
  <1>10. Elements(L) \subseteq {x} \cup Elements(s)
    <2>1. SUFFICES ASSUME NEW i \in 1..m, i # 1
                   PROVE  L[i] \in Elements(s)
      BY <1>3, <1>6, <1>8 DEF Elements
    <2>2. i - 1 \in 1..n /\ (i - 1) + 1 = i
      BY <2>1, <1>5
    <2>3. L[i] = s[i - 1]
      BY <2>2, <1>3, <1>6
    <2>4. QED BY <2>2, <2>3, <1>2 DEF Elements
  <1>11. ASSUME NEW y \in Elements(s) \ Elements(L)
         PROVE  Len(s) = Kept /\ Len(L) = Kept /\ y = s[Kept]
    <2>1. PICK i \in 1..n : y = s[i]
      BY <1>2 DEF Elements
    <2>2. i + 1 \notin 1..m
      BY <2>1, <1>3, <1>6, <1>8 DEF Elements
    <2>3. n = Kept /\ i = Kept /\ m = Kept
      BY <2>2, <1>5
    <2>4. QED BY <2>1, <2>3, <1>2, <1>6
  <1>12. QED BY <1>7, <1>9, <1>10, <1>11 DEF t, L

(* The empty history.                                                      *)
LEMMA Nothing == <<>> \in History /\ Elements(<<>>) = {}
  <1>1. <<>> \in [1..0 -> Contents]
    OBVIOUS
  <1>2. 0 \in 0..Kept
    BY DesktopFilesAssumption
  <1>3. QED BY <1>1, <1>2 DEF History, Elements

(* Settling keeps the types of the history.                                *)
LEMMA SettledType == ASSUME TypeOK PROVE Settled \in History
  BY DEF TypeOK, Settled, Journals

(* What the next load takes for the history was replaced in the file.     *)
LEMMA SettledDisplaced == ASSUME DesktopInv PROVE Elements(Settled) \subseteq displaced
  <1>1. CASE pending # None /\ file = pending.after
    <2>1. Elements(pending.versions) \subseteq displaced \cup {pending.before}
      BY <1>1 DEF DesktopInv, Displaced
    <2>2. pending.before # None => pending.before \in displaced
      BY <1>1 DEF DesktopInv, Displaced, JournalShape
    <2>3. pending.before = None => Elements(pending.versions) = {}
      BY <1>1, Nothing DEF DesktopInv, JournalShape
    <2>4. QED BY <1>1, <2>1, <2>2, <2>3 DEF Settled
  <1>2. CASE ~(pending # None /\ file = pending.after)
    BY <1>2 DEF DesktopInv, Displaced, Settled
  <1>3. QED BY <1>1, <1>2

(* The first comparison                                                    *)
LEMMA CompareStep ==
  ASSUME DesktopInv, Compare
  PROVE  DesktopInv'
  <1>1. TypeOK'
    BY SettledType, Nothing DEF DesktopInv, TypeOK, File, Operation, Journals, Steps, disk, ghosts, Busy, Settled, Damaged, Compare
  <1>2. JournalShape'
    BY SettledType, Nothing DEF DesktopInv, JournalShape, TypeOK, disk, ghosts, Busy, Settled, Damaged, Compare
  <1>3. StepShape'
    BY SettledType, Nothing DEF DesktopInv, StepShape, TypeOK, Operation, Steps, disk, ghosts, Busy, Settled, Damaged, Compare, GrantHolds, Undisturbed
  <1>4. Displaced'
    BY SettledType, Nothing DEF DesktopInv, Displaced, TypeOK, disk, ghosts, Busy, Settled, Damaged, Compare
  <1>5. Archived'
    BY SettledType, Nothing DEF DesktopInv, Archived, TypeOK, disk, ghosts, Busy, Settled, Damaged, Compare
  <1>6. GrantHolds'
    BY SettledType, Nothing DEF DesktopInv, GrantHolds, TypeOK, disk, ghosts, Busy, Settled, Damaged, Compare, StepShape, Undisturbed
  <1>7. Undisturbed'
    BY SettledType, Nothing DEF DesktopInv, Undisturbed, TypeOK, disk, ghosts, Busy, Settled, Damaged, Compare, StepShape, GrantHolds
  <1>8. QED BY <1>1, <1>2, <1>3, <1>4, <1>5, <1>6, <1>7 DEF DesktopInv

(* The second comparison                                                   *)
LEMMA RecheckStep ==
  ASSUME DesktopInv, Recheck
  PROVE  DesktopInv'
  <1>1. TypeOK'
    <2>1. op \in Operation
      BY DEF Recheck, Busy, DesktopInv, TypeOK
    <2>2. op' \in {None} \cup Operation
      BY <2>1 DEF Recheck, Operation, Steps
    <2>3. QED BY <2>2 DEF Recheck, disk, ghosts, DesktopInv, TypeOK
  <1>2. JournalShape'
    BY SettledType, Nothing DEF DesktopInv, JournalShape, TypeOK, disk, ghosts, Busy, Settled, Damaged, Recheck
  <1>3. StepShape'
    BY SettledType, Nothing DEF DesktopInv, StepShape, TypeOK, Operation, Steps, disk, ghosts, Busy, Settled, Damaged, Recheck, GrantHolds, Undisturbed
  <1>4. Displaced'
    BY SettledType, Nothing DEF DesktopInv, Displaced, TypeOK, disk, ghosts, Busy, Settled, Damaged, Recheck
  <1>5. Archived'
    BY SettledType, Nothing DEF DesktopInv, Archived, TypeOK, disk, ghosts, Busy, Settled, Damaged, Recheck
  <1>6. GrantHolds'
    BY SettledType, Nothing DEF DesktopInv, GrantHolds, TypeOK, disk, ghosts, Busy, Settled, Damaged, Recheck, StepShape, Undisturbed
  <1>7. Undisturbed'
    BY SettledType, Nothing DEF DesktopInv, Undisturbed, TypeOK, disk, ghosts, Busy, Settled, Damaged, Recheck, StepShape, GrantHolds
  <1>8. QED BY <1>1, <1>2, <1>3, <1>4, <1>5, <1>6, <1>7 DEF DesktopInv

(* A step that fails                                                       *)
LEMMA FailStep ==
  ASSUME DesktopInv, Fail
  PROVE  DesktopInv'
  <1>1. TypeOK'
    BY SettledType, Nothing DEF DesktopInv, TypeOK, File, Operation, Journals, Steps, disk, ghosts, Busy, Settled, Damaged, Fail
  <1>2. JournalShape'
    BY SettledType, Nothing DEF DesktopInv, JournalShape, TypeOK, disk, ghosts, Busy, Settled, Damaged, Fail
  <1>3. StepShape'
    BY SettledType, Nothing DEF DesktopInv, StepShape, TypeOK, Operation, Steps, disk, ghosts, Busy, Settled, Damaged, Fail, GrantHolds, Undisturbed
  <1>4. Displaced'
    BY SettledType, Nothing DEF DesktopInv, Displaced, TypeOK, disk, ghosts, Busy, Settled, Damaged, Fail
  <1>5. Archived'
    BY SettledType, Nothing DEF DesktopInv, Archived, TypeOK, disk, ghosts, Busy, Settled, Damaged, Fail
  <1>6. GrantHolds'
    BY SettledType, Nothing DEF DesktopInv, GrantHolds, TypeOK, disk, ghosts, Busy, Settled, Damaged, Fail, StepShape, Undisturbed
  <1>7. Undisturbed'
    BY SettledType, Nothing DEF DesktopInv, Undisturbed, TypeOK, disk, ghosts, Busy, Settled, Damaged, Fail, StepShape, GrantHolds
  <1>8. QED BY <1>1, <1>2, <1>3, <1>4, <1>5, <1>6, <1>7 DEF DesktopInv

(* A save of the open Project begins.                                      *)
LEMMA SaveStep ==
  ASSUME DesktopInv, NEW bytes \in Contents, Save(bytes)
  PROVE  DesktopInv'
  <1>1. TypeOK'
    BY SettledType, Nothing DEF DesktopInv, TypeOK, File, Operation, Journals, Steps, disk, ghosts, Busy, Settled, Damaged, Save, Begin, Idle
  <1>2. JournalShape'
    BY SettledType, Nothing DEF DesktopInv, JournalShape, TypeOK, disk, ghosts, Busy, Settled, Damaged, Save, Begin, Idle
  <1>3. StepShape'
    BY SettledType, Nothing DEF DesktopInv, StepShape, TypeOK, Operation, Steps, disk, ghosts, Busy, Settled, Damaged, Save, Begin, Idle, GrantHolds, Undisturbed
  <1>4. Displaced'
    BY SettledType, Nothing DEF DesktopInv, Displaced, TypeOK, disk, ghosts, Busy, Settled, Damaged, Save, Begin, Idle
  <1>5. Archived'
    BY SettledType, Nothing DEF DesktopInv, Archived, TypeOK, disk, ghosts, Busy, Settled, Damaged, Save, Begin, Idle
  <1>6. GrantHolds'
    BY SettledType, Nothing DEF DesktopInv, GrantHolds, TypeOK, disk, ghosts, Busy, Settled, Damaged, Save, Begin, Idle, StepShape, Undisturbed
  <1>7. Undisturbed'
    BY SettledType, Nothing DEF DesktopInv, Undisturbed, TypeOK, disk, ghosts, Busy, Settled, Damaged, Save, Begin, Idle, StepShape, GrantHolds
  <1>8. QED BY <1>1, <1>2, <1>3, <1>4, <1>5, <1>6, <1>7 DEF DesktopInv

(* A creation begins or is repeated.                                       *)
LEMMA CreateStep ==
  ASSUME DesktopInv, NEW bytes \in Contents, Create(bytes)
  PROVE  DesktopInv'
  <1>1. TypeOK'
    <2>1. /\ receipt' \in {None} \cup Receipts
          /\ marker' \in BOOLEAN
      <3>1. CASE receipt = None /\ receipt' = [before |-> None, after |-> bytes] /\ marker' = TRUE
        BY <3>1 DEF File, Receipts
      <3>2. CASE receipt' = receipt /\ marker' = marker
        BY <3>2 DEF DesktopInv, TypeOK
      <3>3. QED BY <3>1, <3>2 DEF Create
    <2>2. op' \in Operation
      BY DEF DesktopInv, TypeOK, Create, Begin, Operation, Steps
    <2>3. QED BY <2>1, <2>2 DEF DesktopInv, TypeOK, Create, ghosts
  <1>2. JournalShape'
    BY SettledType, Nothing DEF DesktopInv, JournalShape, TypeOK, disk, ghosts, Busy, Settled, Damaged, Create, Begin, Idle
  <1>3. StepShape'
    BY SettledType, Nothing DEF DesktopInv, StepShape, TypeOK, Operation, Steps, disk, ghosts, Busy, Settled, Damaged, Create, Begin, Idle, GrantHolds, Undisturbed
  <1>4. Displaced'
    BY SettledType, Nothing DEF DesktopInv, Displaced, TypeOK, disk, ghosts, Busy, Settled, Damaged, Create, Begin, Idle
  <1>5. Archived'
    BY SettledType, Nothing DEF DesktopInv, Archived, TypeOK, disk, ghosts, Busy, Settled, Damaged, Create, Begin, Idle
  <1>6. GrantHolds'
    BY SettledType, Nothing DEF DesktopInv, GrantHolds, TypeOK, disk, ghosts, Busy, Settled, Damaged, Create, Begin, Idle, StepShape, Undisturbed
  <1>7. Undisturbed'
    BY SettledType, Nothing DEF DesktopInv, Undisturbed, TypeOK, disk, ghosts, Busy, Settled, Damaged, Create, Begin, Idle, StepShape, GrantHolds
  <1>8. QED BY <1>1, <1>2, <1>3, <1>4, <1>5, <1>6, <1>7 DEF DesktopInv

(* Save As begins.                                                         *)
LEMMA SaveAsStep ==
  ASSUME DesktopInv, NEW bytes \in Contents, SaveAs(bytes)
  PROVE  DesktopInv'
  <1>1. TypeOK'
    BY SettledType, Nothing DEF DesktopInv, TypeOK, File, Operation, Journals, Steps, disk, ghosts, Busy, Settled, Damaged, SaveAs, Begin, Idle
  <1>2. JournalShape'
    BY SettledType, Nothing DEF DesktopInv, JournalShape, TypeOK, disk, ghosts, Busy, Settled, Damaged, SaveAs, Begin, Idle
  <1>3. StepShape'
    BY SettledType, Nothing DEF DesktopInv, StepShape, TypeOK, Operation, Steps, disk, ghosts, Busy, Settled, Damaged, SaveAs, Begin, Idle, GrantHolds, Undisturbed
  <1>4. Displaced'
    BY SettledType, Nothing DEF DesktopInv, Displaced, TypeOK, disk, ghosts, Busy, Settled, Damaged, SaveAs, Begin, Idle
  <1>5. Archived'
    BY SettledType, Nothing DEF DesktopInv, Archived, TypeOK, disk, ghosts, Busy, Settled, Damaged, SaveAs, Begin, Idle
  <1>6. GrantHolds'
    BY SettledType, Nothing DEF DesktopInv, GrantHolds, TypeOK, disk, ghosts, Busy, Settled, Damaged, SaveAs, Begin, Idle, StepShape, Undisturbed
  <1>7. Undisturbed'
    BY SettledType, Nothing DEF DesktopInv, Undisturbed, TypeOK, disk, ghosts, Busy, Settled, Damaged, SaveAs, Begin, Idle, StepShape, GrantHolds
  <1>8. QED BY <1>1, <1>2, <1>3, <1>4, <1>5, <1>6, <1>7 DEF DesktopInv

(* Save As is repeated.                                                    *)
LEMMA RepeatSaveAsStep ==
  ASSUME DesktopInv, NEW bytes \in Contents, RepeatSaveAs(bytes)
  PROVE  DesktopInv'
  <1>1. TypeOK'
    BY SettledType, Nothing DEF DesktopInv, TypeOK, File, Operation, Journals, Steps, disk, ghosts, Busy, Settled, Damaged, RepeatSaveAs, Begin, Idle
  <1>2. JournalShape'
    BY SettledType, Nothing DEF DesktopInv, JournalShape, TypeOK, disk, ghosts, Busy, Settled, Damaged, RepeatSaveAs, Begin, Idle
  <1>3. StepShape'
    BY SettledType, Nothing DEF DesktopInv, StepShape, TypeOK, Operation, Steps, disk, ghosts, Busy, Settled, Damaged, RepeatSaveAs, Begin, Idle, GrantHolds, Undisturbed
  <1>4. Displaced'
    BY SettledType, Nothing DEF DesktopInv, Displaced, TypeOK, disk, ghosts, Busy, Settled, Damaged, RepeatSaveAs, Begin, Idle
  <1>5. Archived'
    BY SettledType, Nothing DEF DesktopInv, Archived, TypeOK, disk, ghosts, Busy, Settled, Damaged, RepeatSaveAs, Begin, Idle
  <1>6. GrantHolds'
    BY SettledType, Nothing DEF DesktopInv, GrantHolds, TypeOK, disk, ghosts, Busy, Settled, Damaged, RepeatSaveAs, Begin, Idle, StepShape, Undisturbed
  <1>7. Undisturbed'
    BY SettledType, Nothing DEF DesktopInv, Undisturbed, TypeOK, disk, ghosts, Busy, Settled, Damaged, RepeatSaveAs, Begin, Idle, StepShape, GrantHolds
  <1>8. QED BY <1>1, <1>2, <1>3, <1>4, <1>5, <1>6, <1>7 DEF DesktopInv

(* The destination of Save As is decided.                                  *)
LEMMA ReserveStep ==
  ASSUME DesktopInv, Reserve
  PROVE  DesktopInv'
  <1>1. /\ op \in Operation /\ op.step = "reserve" /\ ~op.repeated
        /\ UNCHANGED <<file, versions, pending, marker, receipt, archive, grant, displaced, past, touched>>
    BY DEF Reserve, Busy, DesktopInv, TypeOK, StepShape, ghosts
  <1>2. /\ op' \in Operation /\ op'.step = "compare" /\ op'.expected = op.expected
        /\ op'.bytes = op.bytes /\ op'.independent = op.independent
        /\ op'.repeated = op.repeated /\ op'.binds = op.binds
    BY <1>1 DEF Reserve, Operation, Steps
  <1>3. /\ copied' \in Receipts
        /\ copied'.before = op.expected
    BY <1>1 DEF Reserve, Operation, Receipts
  <1>4. TypeOK'
    BY <1>1, <1>2, <1>3 DEF DesktopInv, TypeOK
  <1>5. JournalShape'
    BY <1>1 DEF DesktopInv, JournalShape
  <1>6. StepShape'
    BY <1>1, <1>2 DEF Reserve, Busy, DesktopInv, StepShape
  <1>7. Displaced'
    BY <1>1, <1>2 DEF DesktopInv, Displaced
  <1>8. Archived'
    <2>1. op # None
      BY DEF Reserve, Busy
    <2>2. op.independent /\ op.expected # None =>
            pending = None /\ Elements(versions) \cup {op.expected} \subseteq archive
      BY <1>1, <2>1 DEF DesktopInv, Archived
    <2>3. op.expected \in archive \cup {None}
      BY <1>1, <2>1, <2>2 DEF DesktopInv, StepShape
    <2>4. QED BY <1>1, <1>2, <1>3, <2>2, <2>3 DEF Archived
  <1>9. GrantHolds'
    BY <1>1, <1>2 DEF Reserve, Busy, DesktopInv, GrantHolds
  <1>10. Undisturbed'
    BY <1>1, <1>2 DEF Busy, DesktopInv, Undisturbed, Damaged, Settled
  <1>11. QED BY <1>4, <1>5, <1>6, <1>7, <1>8, <1>9, <1>10 DEF DesktopInv

(* A rename in the library begins.                                         *)
LEMMA RenameProjectStep ==
  ASSUME DesktopInv, NEW bytes \in Contents, RenameProject(bytes)
  PROVE  DesktopInv'
  <1>1. TypeOK'
    BY SettledType, Nothing DEF DesktopInv, TypeOK, File, Operation, Journals, Steps, disk, ghosts, Busy, Settled, Damaged, RenameProject, Begin, Idle, Closed, Listed
  <1>2. JournalShape'
    BY SettledType, Nothing DEF DesktopInv, JournalShape, TypeOK, disk, ghosts, Busy, Settled, Damaged, RenameProject, Begin, Idle, Closed, Listed
  <1>3. StepShape'
    BY SettledType, Nothing DEF DesktopInv, StepShape, TypeOK, Operation, Steps, disk, ghosts, Busy, Settled, Damaged, RenameProject, Begin, Idle, Closed, Listed, GrantHolds, Undisturbed
  <1>4. Displaced'
    BY SettledType, Nothing DEF DesktopInv, Displaced, TypeOK, disk, ghosts, Busy, Settled, Damaged, RenameProject, Begin, Idle, Closed, Listed
  <1>5. Archived'
    BY SettledType, Nothing DEF DesktopInv, Archived, TypeOK, disk, ghosts, Busy, Settled, Damaged, RenameProject, Begin, Idle, Closed, Listed
  <1>6. GrantHolds'
    BY SettledType, Nothing DEF DesktopInv, GrantHolds, TypeOK, disk, ghosts, Busy, Settled, Damaged, RenameProject, Begin, Idle, Closed, Listed, StepShape, Undisturbed
  <1>7. Undisturbed'
    BY SettledType, Nothing DEF DesktopInv, Undisturbed, TypeOK, disk, ghosts, Busy, Settled, Damaged, RenameProject, Begin, Idle, Closed, Listed, StepShape, GrantHolds
  <1>8. QED BY <1>1, <1>2, <1>3, <1>4, <1>5, <1>6, <1>7 DEF DesktopInv

(* A Project is opened.                                                    *)
LEMMA OpenStep ==
  ASSUME DesktopInv, Open
  PROVE  DesktopInv'
  <1>1. TypeOK'
    BY SettledType, Nothing DEF DesktopInv, TypeOK, File, Operation, Journals, Steps, disk, ghosts, Busy, Settled, Damaged, Open, Idle
  <1>2. JournalShape'
    BY SettledType, Nothing DEF DesktopInv, JournalShape, TypeOK, disk, ghosts, Busy, Settled, Damaged, Open, Idle
  <1>3. StepShape'
    BY SettledType, Nothing DEF DesktopInv, StepShape, TypeOK, Operation, Steps, disk, ghosts, Busy, Settled, Damaged, Open, Idle, GrantHolds, Undisturbed
  <1>4. Displaced'
    BY SettledType, Nothing DEF DesktopInv, Displaced, TypeOK, disk, ghosts, Busy, Settled, Damaged, Open, Idle
  <1>5. Archived'
    BY SettledType, Nothing DEF DesktopInv, Archived, TypeOK, disk, ghosts, Busy, Settled, Damaged, Open, Idle
  <1>6. GrantHolds'
    BY SettledType, Nothing DEF DesktopInv, GrantHolds, TypeOK, disk, ghosts, Busy, Settled, Damaged, Open, Idle, StepShape, Undisturbed
  <1>7. Undisturbed'
    BY SettledType, Nothing DEF DesktopInv, Undisturbed, TypeOK, disk, ghosts, Busy, Settled, Damaged, Open, Idle, StepShape, GrantHolds
  <1>8. QED BY <1>1, <1>2, <1>3, <1>4, <1>5, <1>6, <1>7 DEF DesktopInv

(* A Project is closed.                                                    *)
LEMMA ReleaseStep ==
  ASSUME DesktopInv, Release
  PROVE  DesktopInv'
  <1>1. TypeOK'
    BY SettledType, Nothing DEF DesktopInv, TypeOK, File, Operation, Journals, Steps, disk, ghosts, Busy, Settled, Damaged, Release, Idle
  <1>2. JournalShape'
    BY SettledType, Nothing DEF DesktopInv, JournalShape, TypeOK, disk, ghosts, Busy, Settled, Damaged, Release, Idle
  <1>3. StepShape'
    BY SettledType, Nothing DEF DesktopInv, StepShape, TypeOK, Operation, Steps, disk, ghosts, Busy, Settled, Damaged, Release, Idle, GrantHolds, Undisturbed
  <1>4. Displaced'
    BY SettledType, Nothing DEF DesktopInv, Displaced, TypeOK, disk, ghosts, Busy, Settled, Damaged, Release, Idle
  <1>5. Archived'
    BY SettledType, Nothing DEF DesktopInv, Archived, TypeOK, disk, ghosts, Busy, Settled, Damaged, Release, Idle
  <1>6. GrantHolds'
    BY SettledType, Nothing DEF DesktopInv, GrantHolds, TypeOK, disk, ghosts, Busy, Settled, Damaged, Release, Idle, StepShape, Undisturbed
  <1>7. Undisturbed'
    BY SettledType, Nothing DEF DesktopInv, Undisturbed, TypeOK, disk, ghosts, Busy, Settled, Damaged, Release, Idle, StepShape, GrantHolds
  <1>8. QED BY <1>1, <1>2, <1>3, <1>4, <1>5, <1>6, <1>7 DEF DesktopInv

(* The process stops.                                                      *)
LEMMA CrashStep ==
  ASSUME DesktopInv, Crash
  PROVE  DesktopInv'
  <1>1. TypeOK'
    BY SettledType, Nothing DEF DesktopInv, TypeOK, File, Operation, Journals, Steps, disk, ghosts, Busy, Settled, Damaged, Crash
  <1>2. JournalShape'
    BY SettledType, Nothing DEF DesktopInv, JournalShape, TypeOK, disk, ghosts, Busy, Settled, Damaged, Crash
  <1>3. StepShape'
    BY SettledType, Nothing DEF DesktopInv, StepShape, TypeOK, Operation, Steps, disk, ghosts, Busy, Settled, Damaged, Crash, GrantHolds, Undisturbed
  <1>4. Displaced'
    BY SettledType, Nothing DEF DesktopInv, Displaced, TypeOK, disk, ghosts, Busy, Settled, Damaged, Crash
  <1>5. Archived'
    BY SettledType, Nothing DEF DesktopInv, Archived, TypeOK, disk, ghosts, Busy, Settled, Damaged, Crash
  <1>6. GrantHolds'
    BY SettledType, Nothing DEF DesktopInv, GrantHolds, TypeOK, disk, ghosts, Busy, Settled, Damaged, Crash, StepShape, Undisturbed
  <1>7. Undisturbed'
    BY SettledType, Nothing DEF DesktopInv, Undisturbed, TypeOK, disk, ghosts, Busy, Settled, Damaged, Crash, StepShape, GrantHolds
  <1>8. QED BY <1>1, <1>2, <1>3, <1>4, <1>5, <1>6, <1>7 DEF DesktopInv

(* Another program writes.                                                 *)
LEMMA OutsideStep ==
  ASSUME DesktopInv, NEW content \in File, Outside(content)
  PROVE  DesktopInv'
  <1>1. TypeOK'
    <2>1. op' \in {None} \cup Operation
      BY DEF Outside, Operation, DesktopInv, TypeOK
    <2>2. file' \in File /\ displaced' \subseteq Contents
      BY DEF Outside, Replaced, File, DesktopInv, TypeOK
    <2>3. past' \in History /\ touched' \in [ever : BOOLEAN, since : BOOLEAN]
      BY Nothing DEF Outside
    <2>4. QED BY <2>1, <2>2, <2>3 DEF Outside, DesktopInv, TypeOK
  <1>2. JournalShape'
    BY SettledType, Nothing DEF DesktopInv, JournalShape, TypeOK, disk, ghosts, Busy, Settled, Damaged, Outside, Replaced
  <1>3. StepShape'
    BY SettledType, Nothing DEF DesktopInv, StepShape, TypeOK, Operation, Steps, disk, ghosts, Busy, Settled, Damaged, Outside, Replaced, GrantHolds, Undisturbed
  <1>4. Displaced'
    BY SettledType, Nothing DEF DesktopInv, Displaced, TypeOK, disk, ghosts, Busy, Settled, Damaged, Outside, Replaced
  <1>5. Archived'
    BY SettledType, Nothing DEF DesktopInv, Archived, TypeOK, disk, ghosts, Busy, Settled, Damaged, Outside, Replaced
  <1>6. GrantHolds'
    BY SettledType, Nothing DEF DesktopInv, GrantHolds, TypeOK, disk, ghosts, Busy, Settled, Damaged, Outside, Replaced, StepShape, Undisturbed
  <1>7. Undisturbed'
    BY SettledType, Nothing DEF DesktopInv, Undisturbed, TypeOK, disk, ghosts, Busy, Settled, Damaged, Outside, Replaced, StepShape, GrantHolds
  <1>8. QED BY <1>1, <1>2, <1>3, <1>4, <1>5, <1>6, <1>7 DEF DesktopInv

(* The file is replaced.                                                   *)
LEMMA RenameStep ==
  ASSUME DesktopInv, Rename
  PROVE  DesktopInv'
  <1>1. TypeOK'
    <2>1. op \in Operation
      BY DEF Rename, Busy, DesktopInv, TypeOK
    <2>2. past' \in History
      <3>1. CASE op.expected = None
        BY <3>1, Nothing DEF Rename, DesktopInv, TypeOK
      <3>2. CASE op.expected # None
        <4>1. op.expected \in Contents /\ past \in History
          BY <2>1, <3>2 DEF Operation, File, DesktopInv, TypeOK
        <4>2. Latest(<<op.expected>> \o past) \in History
          BY <4>1, Rotation
        <4>3. QED BY <4>1, <4>2, Nothing DEF Rename
      <3>3. QED BY <3>1, <3>2
    <2>3. op' \in Operation
      BY <2>1 DEF Rename, Operation, Steps
    <2>4. displaced' \subseteq Contents /\ file' \in File
      BY <2>1 DEF Rename, Replaced, DesktopInv, TypeOK, Operation, File
    <2>5. touched' \in [ever : BOOLEAN, since : BOOLEAN]
      BY DEF Rename, DesktopInv, TypeOK
    <2>6. QED BY <2>2, <2>3, <2>4, <2>5 DEF Rename, DesktopInv, TypeOK
  <1>2. JournalShape'
    BY SettledType, Nothing DEF DesktopInv, JournalShape, TypeOK, disk, ghosts, Busy, Settled, Damaged, Rename, Replaced
  <1>3. StepShape'
    BY SettledType, Nothing DEF DesktopInv, StepShape, TypeOK, Operation, Steps, disk, ghosts, Busy, Settled, Damaged, Rename, Replaced, GrantHolds, Undisturbed
  <1>4. Displaced'
    BY SettledType, Nothing DEF DesktopInv, Displaced, TypeOK, disk, ghosts, Busy, Settled, Damaged, Rename, Replaced
  <1>5. Archived'
    BY SettledType, Nothing DEF DesktopInv, Archived, TypeOK, disk, ghosts, Busy, Settled, Damaged, Rename, Replaced
  <1>6. GrantHolds'
    <2>1. op \in Operation /\ touched \in [ever : BOOLEAN, since : BOOLEAN]
      BY DEF Rename, Busy, DesktopInv, TypeOK
    <2>2. op' # None /\ op'.step = "finish" /\ op'.bytes = op.bytes /\ file' = op.bytes
      <3>1. op' \in Operation /\ op'.step = "finish" /\ op'.bytes = op.bytes /\ file' = op.bytes
        BY <2>1 DEF Rename, Replaced, Operation, Steps
      <3>2. QED BY <3>1, DesktopFilesAssumption
    <2>3. ~touched'.since
      BY <2>1 DEF Rename
    <2>4. QED BY <2>2, <2>3 DEF GrantHolds, Busy
  <1>7. Undisturbed'
    <2>1. op \in Operation /\ touched \in [ever : BOOLEAN, since : BOOLEAN]
      BY DEF Rename, Busy, DesktopInv, TypeOK
    <2>2. op'.step = "finish" /\ touched'.ever = touched.ever /\ file' = op.bytes
      BY <2>1 DEF Rename, Replaced, Operation
    <2>3. SUFFICES ASSUME ~touched.ever
                   PROVE  ~Damaged' /\ Settled' = past' /\ file' # None
      BY <2>2 DEF Undisturbed, Busy
    <2>4. file = op.expected /\ Settled = past
      BY <2>3 DEF Rename, Busy, DesktopInv, Undisturbed
    <2>5. file' # None
      BY <2>1, <2>2, DesktopFilesAssumption DEF Operation
    <2>6. CASE op.expected = op.bytes
      <3>1. pending = None
        BY <2>6 DEF Rename, Busy, DesktopInv, StepShape
      <3>2. QED BY <3>1, <2>3, <2>4, <2>5, <2>6 DEF Rename, Damaged, Settled
    <2>7. CASE op.expected # op.bytes
      <3>1. pending # None /\ pending.before = op.expected /\ pending.after = op.bytes
        BY <2>7 DEF Rename, Busy, DesktopInv, StepShape
      <3>2. pending.versions = IF op.independent \/ op.expected = None THEN <<>>
                               ELSE Latest(<<op.expected>> \o past)
        BY <2>3, <2>7 DEF Rename, Busy, DesktopInv, Undisturbed
      <3>3. past' = pending.versions
        BY <2>3, <2>7, <3>2 DEF Rename
      <3>4. QED BY <3>1, <3>3, <2>2, <2>5 DEF Rename, Damaged, Settled
    <2>8. QED BY <2>6, <2>7
  <1>8. QED BY <1>1, <1>2, <1>3, <1>4, <1>5, <1>6, <1>7 DEF DesktopInv

(* The first save is completed.                                            *)
LEMMA MaterialiseStep ==
  ASSUME DesktopInv, Materialise
  PROVE  DesktopInv'
  <1>1. TypeOK'
    BY SettledType, Nothing DEF DesktopInv, TypeOK, File, Operation, Journals, Steps, disk, ghosts, Busy, Settled, Damaged, Materialise, Replaced
  <1>2. JournalShape'
    BY SettledType, Nothing DEF DesktopInv, JournalShape, TypeOK, disk, ghosts, Busy, Settled, Damaged, Materialise, Replaced
  <1>3. StepShape'
    BY SettledType, Nothing DEF DesktopInv, StepShape, TypeOK, Operation, Steps, disk, ghosts, Busy, Settled, Damaged, Materialise, Replaced, GrantHolds, Undisturbed
  <1>4. Displaced'
    BY SettledType, Nothing DEF DesktopInv, Displaced, TypeOK, disk, ghosts, Busy, Settled, Damaged, Materialise, Replaced
  <1>5. Archived'
    BY SettledType, Nothing DEF DesktopInv, Archived, TypeOK, disk, ghosts, Busy, Settled, Damaged, Materialise, Replaced
  <1>6. GrantHolds'
    BY SettledType, Nothing DEF DesktopInv, GrantHolds, TypeOK, disk, ghosts, Busy, Settled, Damaged, Materialise, Replaced, StepShape, Undisturbed
  <1>7. Undisturbed'
    <2>1. op \in Operation /\ pending # None /\ pending.before = None /\ pending.after = op.bytes
      BY DEF Materialise, Busy, DesktopInv, TypeOK, StepShape
    <2>2. op'.step = "settle" /\ file' = op.bytes
      BY <2>1 DEF Materialise, Replaced, Operation
    <2>3. SUFFICES ASSUME ~touched.ever
                   PROVE  ~Damaged' /\ Settled' = past' /\ file' # None /\ file' = pending'.after
      BY <2>2 DEF Undisturbed, Busy, Materialise
    <2>4. file = None
      BY <2>3 DEF Materialise, Busy, DesktopInv, StepShape, GrantHolds
    <2>5. past = <<>> /\ pending.versions = <<>>
      BY <2>1, <2>3, <2>4 DEF DesktopInv, Undisturbed, JournalShape
    <2>6. file' # None
      BY <2>1, <2>2, DesktopFilesAssumption DEF Operation
    <2>7. QED BY <2>1, <2>2, <2>5, <2>6 DEF Materialise, Damaged, Settled
  <1>8. QED BY <1>1, <1>2, <1>3, <1>4, <1>5, <1>6, <1>7 DEF DesktopInv

(* and its journal settled.                                                *)
LEMMA SettleStep ==
  ASSUME DesktopInv, Settle
  PROVE  DesktopInv'
  <1>1. TypeOK'
    <2>1. pending # None /\ pending.versions \in History
      BY DEF Settle, Busy, DesktopInv, TypeOK, StepShape, Journals
    <2>2. QED BY <2>1 DEF Settle, ghosts, DesktopInv, TypeOK
  <1>2. JournalShape'
    BY SettledType, Nothing DEF DesktopInv, JournalShape, TypeOK, disk, ghosts, Busy, Settled, Damaged, Settle
  <1>3. StepShape'
    BY SettledType, Nothing DEF DesktopInv, StepShape, TypeOK, Operation, Steps, disk, ghosts, Busy, Settled, Damaged, Settle, GrantHolds, Undisturbed
  <1>4. Displaced'
    <2>1. versions' = <<>>
      BY DEF Settle, Busy, DesktopInv, StepShape, JournalShape
    <2>2. QED BY <2>1, Nothing DEF Settle, ghosts, Displaced
  <1>5. Archived'
    BY SettledType, Nothing DEF DesktopInv, Archived, TypeOK, disk, ghosts, Busy, Settled, Damaged, Settle
  <1>6. GrantHolds'
    BY SettledType, Nothing DEF DesktopInv, GrantHolds, TypeOK, disk, ghosts, Busy, Settled, Damaged, Settle, StepShape, Undisturbed
  <1>7. Undisturbed'
    BY SettledType, Nothing DEF DesktopInv, Undisturbed, TypeOK, disk, ghosts, Busy, Settled, Damaged, Settle, StepShape, GrantHolds
  <1>8. QED BY <1>1, <1>2, <1>3, <1>4, <1>5, <1>6, <1>7 DEF DesktopInv

(* A write ends.                                                           *)
LEMMA FinishStep ==
  ASSUME DesktopInv, Finish
  PROVE  DesktopInv'
  <1>1. TypeOK'
    BY SettledType, Nothing DEF DesktopInv, TypeOK, File, Operation, Journals, Steps, disk, ghosts, Busy, Settled, Damaged, Finish, Load
  <1>2. JournalShape'
    BY SettledType, Nothing DEF DesktopInv, JournalShape, TypeOK, disk, ghosts, Busy, Settled, Damaged, Finish, Load
  <1>3. StepShape'
    BY SettledType, Nothing DEF DesktopInv, StepShape, TypeOK, Operation, Steps, disk, ghosts, Busy, Settled, Damaged, Finish, Load, GrantHolds, Undisturbed
  <1>4. Displaced'
    BY SettledDisplaced DEF DesktopInv, Displaced, TypeOK, disk, ghosts, Busy, Finish, Load
  <1>5. Archived'
    BY SettledType, Nothing DEF DesktopInv, Archived, TypeOK, disk, ghosts, Busy, Settled, Damaged, Finish, Load
  <1>6. GrantHolds'
    BY SettledType, Nothing DEF DesktopInv, GrantHolds, TypeOK, disk, ghosts, Busy, Settled, Damaged, Finish, Load, StepShape, Undisturbed
  <1>7. Undisturbed'
    BY SettledType, Nothing DEF DesktopInv, Undisturbed, TypeOK, disk, ghosts, Busy, Settled, Damaged, Finish, Load, StepShape, GrantHolds
  <1>8. QED BY <1>1, <1>2, <1>3, <1>4, <1>5, <1>6, <1>7 DEF DesktopInv

(* The history is looked at.                                               *)
LEMMA ViewHistoryStep ==
  ASSUME DesktopInv, ViewHistory
  PROVE  DesktopInv'
  <1>1. TypeOK'
    BY SettledType, Nothing DEF DesktopInv, TypeOK, File, Operation, Journals, Steps, disk, ghosts, Busy, Settled, Damaged, ViewHistory, Idle, Load
  <1>2. JournalShape'
    BY SettledType, Nothing DEF DesktopInv, JournalShape, TypeOK, disk, ghosts, Busy, Settled, Damaged, ViewHistory, Idle, Load
  <1>3. StepShape'
    BY SettledType, Nothing DEF DesktopInv, StepShape, TypeOK, Operation, Steps, disk, ghosts, Busy, Settled, Damaged, ViewHistory, Idle, Load, GrantHolds, Undisturbed
  <1>4. Displaced'
    BY SettledDisplaced DEF DesktopInv, Displaced, TypeOK, disk, ghosts, Busy, ViewHistory, Load, Idle
  <1>5. Archived'
    BY SettledType, Nothing DEF DesktopInv, Archived, TypeOK, disk, ghosts, Busy, Settled, Damaged, ViewHistory, Idle, Load
  <1>6. GrantHolds'
    BY SettledType, Nothing DEF DesktopInv, GrantHolds, TypeOK, disk, ghosts, Busy, Settled, Damaged, ViewHistory, Idle, Load, StepShape, Undisturbed
  <1>7. Undisturbed'
    BY SettledType, Nothing DEF DesktopInv, Undisturbed, TypeOK, disk, ghosts, Busy, Settled, Damaged, ViewHistory, Idle, Load, StepShape, GrantHolds
  <1>8. QED BY <1>1, <1>2, <1>3, <1>4, <1>5, <1>6, <1>7 DEF DesktopInv

(* Save As archives what it replaces.                                      *)
LEMMA ArchiveStep ==
  ASSUME DesktopInv, Archive
  PROVE  DesktopInv'
  <1>1. TypeOK'
    <2>1. op \in Operation /\ op.step = "archive"
      BY DEF Archive, Busy, DesktopInv, TypeOK
    <2>2. versions' \in History /\ pending' \in {None} \cup Journals
      BY SettledType DEF Archive, Load, DesktopInv, TypeOK
    <2>3. op' \in {None} \cup Operation
      BY <2>1 DEF Archive, Operation, Steps
    <2>4. archive' \subseteq Contents
      <3>1. CASE Load
        <4>1. op.expected # None /\ op.expected \in Contents
          BY <2>1 DEF Archive, Busy, DesktopInv, StepShape, Operation, File
        <4>2. Elements(Settled) \subseteq Contents
          BY SettledDisplaced DEF DesktopInv, TypeOK
        <4>3. archive \subseteq Contents
          BY DEF DesktopInv, TypeOK
        <4>4. QED BY <4>1, <4>2, <4>3, <3>1 DEF Archive, Load
      <3>2. CASE ~Load
        BY <3>2 DEF Archive, DesktopInv, TypeOK
      <3>3. QED BY <3>1, <3>2
    <2>5. QED BY <2>2, <2>3, <2>4 DEF Archive, ghosts, DesktopInv, TypeOK
  <1>2. JournalShape'
    BY SettledType, Nothing DEF DesktopInv, JournalShape, TypeOK, disk, ghosts, Busy, Settled, Damaged, Archive, Load
  <1>3. StepShape'
    BY SettledType, Nothing DEF DesktopInv, StepShape, TypeOK, Operation, Steps, disk, ghosts, Busy, Settled, Damaged, Archive, Load, GrantHolds, Undisturbed
  <1>4. Displaced'
    <2>1. op \in Operation /\ op.step = "archive"
      BY DEF Archive, Busy, DesktopInv, TypeOK
    <2>2. op' = None \/ op'.step = "reserve"
      BY <2>1 DEF Archive, Operation
    <2>3. QED BY <2>2, SettledDisplaced DEF Archive, Load, ghosts, DesktopInv, Displaced
  <1>5. Archived'
    <2>1. /\ op \in Operation /\ op.step = "archive" /\ ~op.repeated
          /\ UNCHANGED copied /\ archive \subseteq archive'
      BY DEF Archive, Busy, DesktopInv, TypeOK, StepShape
    <2>2. copied # None => copied'.before \in archive' \cup {None}
      BY <2>1 DEF DesktopInv, Archived
    <2>3. CASE op' = None
      BY <2>1, <2>2, <2>3 DEF Archived
    <2>4. CASE op' # None
      <3>1. Load /\ op'.expected = op.expected /\ op'.repeated = op.repeated
        BY <2>1, <2>4 DEF Archive, Operation
      <3>2. archive' = archive \cup {op.expected} \cup Elements(Settled)
        BY <2>4 DEF Archive
      <3>3. pending' = None /\ Elements(versions') \cup {op'.expected} \subseteq archive'
        BY <3>1, <3>2 DEF Load
      <3>4. QED BY <2>1, <2>2, <3>1, <3>3 DEF Archived
    <2>5. QED BY <2>3, <2>4
  <1>6. GrantHolds'
    <2>1. op \in Operation /\ op.step = "archive"
      BY DEF Archive, Busy, DesktopInv, TypeOK
    <2>2. op' = None \/ op'.step = "reserve"
      BY <2>1 DEF Archive, Operation
    <2>3. QED BY <2>1, <2>2 DEF Archive, ghosts, Busy, DesktopInv, GrantHolds
  <1>7. Undisturbed'
    <2>1. op \in Operation /\ op.step = "archive"
      BY DEF Archive, Busy, DesktopInv, TypeOK
    <2>2. op' = None \/ op'.step = "reserve"
      BY <2>1 DEF Archive, Operation
    <2>3. ~touched.ever => ~Damaged /\ Settled = past /\ (file = None => past = <<>>)
      BY DEF DesktopInv, Undisturbed
    <2>4. ~touched.ever => Load
      BY <2>3 DEF Archive
    <2>5. QED BY <2>2, <2>3, <2>4 DEF Archive, Load, ghosts, Busy, Undisturbed, Damaged, Settled
  <1>8. QED BY <1>1, <1>2, <1>3, <1>4, <1>5, <1>6, <1>7 DEF DesktopInv

(* A version is restored.                                                  *)
LEMMA RestoreVersionStep ==
  ASSUME DesktopInv, RestoreVersion
  PROVE  DesktopInv'
  <1>1. TypeOK'
    <2>1. PICK version \in Elements(Settled) : Begin("compare", file, version, FALSE, FALSE, FALSE)
      BY DEF RestoreVersion
    <2>2. version \in Contents /\ file \in File
      BY <2>1, SettledDisplaced DEF DesktopInv, TypeOK
    <2>3. op' \in Operation
      BY <2>1, <2>2 DEF Begin, Operation, Steps
    <2>4. QED BY <2>3, SettledType DEF RestoreVersion, Load, ghosts, DesktopInv, TypeOK
  <1>2. JournalShape'
    BY SettledType, Nothing DEF DesktopInv, JournalShape, TypeOK, disk, ghosts, Busy, Settled, Damaged, RestoreVersion, Closed, Listed, Idle, Load, Begin
  <1>3. StepShape'
    BY SettledType, Nothing DEF DesktopInv, StepShape, TypeOK, Operation, Steps, disk, ghosts, Busy, Settled, Damaged, RestoreVersion, Closed, Listed, Idle, Load, Begin, GrantHolds, Undisturbed
  <1>4. Displaced'
    BY SettledDisplaced DEF DesktopInv, Displaced, TypeOK, disk, ghosts, Busy, RestoreVersion, Load, Begin
  <1>5. Archived'
    BY SettledType, Nothing DEF DesktopInv, Archived, TypeOK, disk, ghosts, Busy, Settled, Damaged, RestoreVersion, Closed, Listed, Idle, Load, Begin
  <1>6. GrantHolds'
    BY SettledType, Nothing DEF DesktopInv, GrantHolds, TypeOK, disk, ghosts, Busy, Settled, Damaged, RestoreVersion, Closed, Listed, Idle, Load, Begin, StepShape, Undisturbed
  <1>7. Undisturbed'
    BY SettledType, Nothing DEF DesktopInv, Undisturbed, TypeOK, disk, ghosts, Busy, Settled, Damaged, RestoreVersion, Closed, Listed, Idle, Load, Begin, StepShape, GrantHolds
  <1>8. QED BY <1>1, <1>2, <1>3, <1>4, <1>5, <1>6, <1>7 DEF DesktopInv

(* The library is listed.                                                  *)
LEMMA ListStep ==
  ASSUME DesktopInv, List
  PROVE  DesktopInv'
  <1>1. TypeOK'
    <2>1. CASE Unborn
      <3>1. pending # None /\ pending.before = None /\ file = None /\ pending \in Journals
        BY <2>1 DEF Unborn, DesktopInv, TypeOK
      <3>2. /\ op' = [step |-> "materialise", expected |-> None, bytes |-> pending.after,
                      independent |-> FALSE, repeated |-> FALSE, binds |-> FALSE, raced |-> FALSE]
            /\ UNCHANGED <<file, versions, pending, marker, receipt, copied, archive, grant, ghosts>>
        BY <2>1 DEF List, Begin
      <3>3. op' \in Operation
        BY <3>1, <3>2 DEF Operation, Steps, File, Journals
      <3>4. QED BY <3>2, <3>3 DEF ghosts, DesktopInv, TypeOK
    <2>2. CASE ~Unborn
      <3>1. (file = None) \in BOOLEAN
        OBVIOUS
      <3>2. QED BY <3>1, <2>2, SettledType DEF List, Load, ghosts, DesktopInv, TypeOK
    <2>3. QED BY <2>1, <2>2
  <1>2. JournalShape'
    BY SettledType, Nothing DEF DesktopInv, JournalShape, TypeOK, disk, ghosts, Busy, Settled, Damaged, List, Idle, Load, Unborn, Begin
  <1>3. StepShape'
    <2>1. CASE Unborn
      <3>1. pending # None /\ pending.before = None /\ file = None /\ pending \in Journals
        BY <2>1 DEF Unborn, DesktopInv, TypeOK
      <3>2. /\ op' = [step |-> "materialise", expected |-> None, bytes |-> pending.after,
                      independent |-> FALSE, repeated |-> FALSE, binds |-> FALSE, raced |-> FALSE]
            /\ UNCHANGED <<file, versions, pending, marker, receipt, copied, archive, grant, ghosts>>
        BY <2>1 DEF List, Begin
      <3>3. QED BY <3>1, <3>2 DEF StepShape
    <2>2. CASE ~Unborn
      BY <2>2 DEF List, Idle, StepShape
    <2>3. QED BY <2>1, <2>2
  <1>4. Displaced'
    <2>1. CASE Unborn
      BY <2>1 DEF List, Begin, DesktopInv, Displaced, ghosts
    <2>2. CASE ~Unborn
      BY <2>2, SettledDisplaced DEF List, Load, Idle, DesktopInv, Displaced, ghosts
    <2>3. QED BY <2>1, <2>2
  <1>5. Archived'
    <2>1. CASE Unborn
      <3>1. pending # None /\ pending.before = None /\ file = None /\ pending \in Journals
        BY <2>1 DEF Unborn, DesktopInv, TypeOK
      <3>2. /\ op' = [step |-> "materialise", expected |-> None, bytes |-> pending.after,
                      independent |-> FALSE, repeated |-> FALSE, binds |-> FALSE, raced |-> FALSE]
            /\ UNCHANGED <<file, versions, pending, marker, receipt, copied, archive, grant, ghosts>>
        BY <2>1 DEF List, Begin
      <3>3. op'.repeated = FALSE /\ op'.independent = FALSE
        BY <3>2
      <3>4. QED BY <3>2, <3>3 DEF DesktopInv, Archived
    <2>2. CASE ~Unborn
      BY <2>2 DEF List, Idle, DesktopInv, Archived
    <2>3. QED BY <2>1, <2>2
  <1>6. GrantHolds'
    <2>1. CASE Unborn
      <3>1. pending # None /\ pending.before = None /\ file = None /\ pending \in Journals
        BY <2>1 DEF Unborn, DesktopInv, TypeOK
      <3>2. /\ op' = [step |-> "materialise", expected |-> None, bytes |-> pending.after,
                      independent |-> FALSE, repeated |-> FALSE, binds |-> FALSE, raced |-> FALSE]
            /\ UNCHANGED <<file, versions, pending, marker, receipt, copied, archive, grant, ghosts>>
        BY <2>1 DEF List, Begin
      <3>3. QED BY <3>2 DEF List, Idle, Busy, ghosts, DesktopInv, GrantHolds
    <2>2. CASE ~Unborn
      BY <2>2 DEF List, Idle, Busy, ghosts, DesktopInv, GrantHolds
    <2>3. QED BY <2>1, <2>2
  <1>7. Undisturbed'
    <2>1. CASE Unborn
      <3>1. pending # None /\ pending.before = None /\ file = None /\ pending \in Journals
        BY <2>1 DEF Unborn, DesktopInv, TypeOK
      <3>2. /\ op' = [step |-> "materialise", expected |-> None, bytes |-> pending.after,
                      independent |-> FALSE, repeated |-> FALSE, binds |-> FALSE, raced |-> FALSE]
            /\ UNCHANGED <<file, versions, pending, marker, receipt, copied, archive, grant, ghosts>>
        BY <2>1 DEF List, Begin
      <3>3. QED BY <3>2 DEF List, Idle, Busy, ghosts, DesktopInv, Undisturbed, Damaged, Settled
    <2>2. CASE ~Unborn
      <3>1. ~touched.ever => Settled = past /\ (file = None => past = <<>>)
        BY DEF DesktopInv, Undisturbed
      <3>2. QED BY <2>2, <3>1 DEF List, Load, Idle, Busy, ghosts, Undisturbed, Damaged, Settled
    <2>3. QED BY <2>1, <2>2
  <1>8. QED BY <1>1, <1>2, <1>3, <1>4, <1>5, <1>6, <1>7 DEF DesktopInv

(* The journal is written.                                                 *)
LEMMA PrepareStep ==
  ASSUME DesktopInv, Prepare
  PROVE  DesktopInv'
  <1>1. TypeOK'
    <2>1. op \in Operation /\ op.step = "prepare"
      BY DEF Prepare, Busy, DesktopInv, TypeOK
    <2>2. CASE Damaged
      <3>1. op' = None /\ UNCHANGED <<file, versions, pending, marker, receipt, copied, archive, grant, ghosts>>
        BY <2>2 DEF Prepare, Journal
      <3>2. QED BY <3>1 DEF DesktopInv, ghosts, Busy, Settled, Damaged, TypeOK
    <2>3. CASE ~Damaged
      <3>1. /\ UNCHANGED <<file, marker, receipt, copied, archive, grant, displaced, past, touched>>
            /\ versions' = Settled
            /\ op' = [op EXCEPT !.step = "recheck"]
        BY <2>3 DEF Prepare, Journal, ghosts
      <3>2. op' \in Operation /\ op'.step = "recheck" /\ op'.expected = op.expected
            /\ op'.bytes = op.bytes /\ op'.independent = op.independent
            /\ op'.repeated = op.repeated /\ op'.binds = op.binds /\ op'.raced = op.raced
        BY <2>1, <3>1 DEF Operation, Steps
      <3>3. IF op.expected = op.bytes THEN pending' = None
            ELSE pending' = [before |-> op.expected, after |-> op.bytes,
                             versions |-> IF op.independent \/ op.expected = None THEN <<>>
                                          ELSE Latest(<<op.expected>> \o Settled),
                             repeated |-> op.repeated]
        BY <2>3 DEF Prepare, Journal
      <3>4. op.expected # None => Latest(<<op.expected>> \o Settled) \in History
        BY <2>1, SettledType, Rotation DEF DesktopInv, Operation, File
      <3>5. pending' \in {None} \cup Journals
        BY <2>1, <3>3, <3>4, Nothing DEF Operation, Journals
      <3>6. QED BY <3>1, <3>2, <3>5, SettledType DEF DesktopInv, TypeOK
    <2>4. QED BY <2>2, <2>3
  <1>2. JournalShape'
    <2>1. op \in Operation /\ op.step = "prepare"
      BY DEF Prepare, Busy, DesktopInv, TypeOK
    <2>2. CASE Damaged
      <3>1. op' = None /\ UNCHANGED <<file, versions, pending, marker, receipt, copied, archive, grant, ghosts>>
        BY <2>2 DEF Prepare, Journal
      <3>2. QED BY <3>1 DEF DesktopInv, ghosts, Busy, Settled, Damaged, JournalShape
    <2>3. CASE ~Damaged
      <3>1. /\ UNCHANGED <<file, marker, receipt, copied, archive, grant, displaced, past, touched>>
            /\ versions' = Settled
            /\ op' = [op EXCEPT !.step = "recheck"]
        BY <2>3 DEF Prepare, Journal, ghosts
      <3>2. op' \in Operation /\ op'.step = "recheck" /\ op'.expected = op.expected
            /\ op'.bytes = op.bytes /\ op'.independent = op.independent
            /\ op'.repeated = op.repeated /\ op'.binds = op.binds /\ op'.raced = op.raced
        BY <2>1, <3>1 DEF Operation, Steps
      <3>3. IF op.expected = op.bytes THEN pending' = None
            ELSE pending' = [before |-> op.expected, after |-> op.bytes,
                             versions |-> IF op.independent \/ op.expected = None THEN <<>>
                                          ELSE Latest(<<op.expected>> \o Settled),
                             repeated |-> op.repeated]
        BY <2>3 DEF Prepare, Journal
      <3>4. op.independent /\ ~op.repeated /\ op.expected # None =>
              Elements(versions') \cup {op.expected} \subseteq archive'
        BY <2>1, <3>1 DEF Prepare, Busy, DesktopInv, Archived, Settled
      <3>5. op.repeated => op.expected \in archive' \cup {None, op.bytes}
        BY <2>1, <3>1 DEF Prepare, Busy, DesktopInv, Archived
      <3>6. op.repeated \in BOOLEAN /\ op.independent \in BOOLEAN
        BY <2>1 DEF Operation
      <3>7. QED BY <3>1, <3>3, <3>4, <3>5, <3>6 DEF JournalShape
    <2>4. QED BY <2>2, <2>3
  <1>3. StepShape'
    <2>1. op \in Operation /\ op.step = "prepare"
      BY DEF Prepare, Busy, DesktopInv, TypeOK
    <2>2. CASE Damaged
      <3>1. op' = None /\ UNCHANGED <<file, versions, pending, marker, receipt, copied, archive, grant, ghosts>>
        BY <2>2 DEF Prepare, Journal
      <3>2. QED BY <3>1 DEF DesktopInv, ghosts, Busy, Settled, Damaged, StepShape
    <2>3. CASE ~Damaged
      <3>1. /\ UNCHANGED <<file, marker, receipt, copied, archive, grant, displaced, past, touched>>
            /\ versions' = Settled
            /\ op' = [op EXCEPT !.step = "recheck"]
        BY <2>3 DEF Prepare, Journal, ghosts
      <3>2. op' \in Operation /\ op'.step = "recheck" /\ op'.expected = op.expected
            /\ op'.bytes = op.bytes /\ op'.independent = op.independent
            /\ op'.repeated = op.repeated /\ op'.binds = op.binds /\ op'.raced = op.raced
        BY <2>1, <3>1 DEF Operation, Steps
      <3>3. IF op.expected = op.bytes THEN pending' = None
            ELSE pending' = [before |-> op.expected, after |-> op.bytes,
                             versions |-> IF op.independent \/ op.expected = None THEN <<>>
                                          ELSE Latest(<<op.expected>> \o Settled),
                             repeated |-> op.repeated]
        BY <2>3 DEF Prepare, Journal
      <3>4. op.expected # op.bytes => pending' # None
        <4>1. op.expected # None => Latest(<<op.expected>> \o Settled) \in History
          BY <2>1, SettledType, Rotation DEF DesktopInv, Operation, File
        <4>2. op.expected # op.bytes => pending' \in Journals
          BY <2>1, <3>3, <4>1, Nothing DEF Operation, Journals
        <4>3. QED BY <4>2, DesktopFilesAssumption
      <3>5. QED BY <3>4, <2>1, <3>1, <3>2, <3>3 DEF Prepare, Busy, DesktopInv, StepShape
    <2>4. QED BY <2>2, <2>3
  <1>4. Displaced'
    <2>1. op \in Operation /\ op.step = "prepare"
      BY DEF Prepare, Busy, DesktopInv, TypeOK
    <2>2. CASE Damaged
      <3>1. op' = None /\ UNCHANGED <<file, versions, pending, marker, receipt, copied, archive, grant, ghosts>>
        BY <2>2 DEF Prepare, Journal
      <3>2. QED BY <3>1 DEF DesktopInv, ghosts, Busy, Settled, Damaged, Displaced
    <2>3. CASE ~Damaged
      <3>1. /\ UNCHANGED <<file, marker, receipt, copied, archive, grant, displaced, past, touched>>
            /\ versions' = Settled
            /\ op' = [op EXCEPT !.step = "recheck"]
        BY <2>3 DEF Prepare, Journal, ghosts
      <3>2. op' \in Operation /\ op'.step = "recheck" /\ op'.expected = op.expected
            /\ op'.bytes = op.bytes /\ op'.independent = op.independent
            /\ op'.repeated = op.repeated /\ op'.binds = op.binds /\ op'.raced = op.raced
        BY <2>1, <3>1 DEF Operation, Steps
      <3>3. IF op.expected = op.bytes THEN pending' = None
            ELSE pending' = [before |-> op.expected, after |-> op.bytes,
                             versions |-> IF op.independent \/ op.expected = None THEN <<>>
                                          ELSE Latest(<<op.expected>> \o Settled),
                             repeated |-> op.repeated]
        BY <2>3 DEF Prepare, Journal
      <3>4. Elements(versions') \subseteq displaced'
        BY <3>1, SettledDisplaced
      <3>5. op.expected \in displaced \cup {file, None}
        BY <2>1 DEF Prepare, Busy, DesktopInv, Displaced
      <3>6. op.expected # None =>
              Elements(Latest(<<op.expected>> \o Settled)) \subseteq {op.expected} \cup displaced
        BY <2>1, SettledType, SettledDisplaced, Rotation DEF DesktopInv, Operation, File
      <3>7. pending' # None => /\ Elements(pending'.versions) \subseteq displaced' \cup {pending'.before}
                               /\ pending'.before = op.expected
        BY <3>1, <3>3, <3>6, Nothing
      <3>8. QED BY <3>1, <3>2, <3>4, <3>5, <3>7 DEF Displaced
    <2>4. QED BY <2>2, <2>3
  <1>5. Archived'
    <2>1. op \in Operation /\ op.step = "prepare"
      BY DEF Prepare, Busy, DesktopInv, TypeOK
    <2>2. CASE Damaged
      <3>1. op' = None /\ UNCHANGED <<file, versions, pending, marker, receipt, copied, archive, grant, ghosts>>
        BY <2>2 DEF Prepare, Journal
      <3>2. QED BY <3>1 DEF DesktopInv, ghosts, Busy, Settled, Damaged, Archived
    <2>3. CASE ~Damaged
      <3>1. /\ UNCHANGED <<file, marker, receipt, copied, archive, grant, displaced, past, touched>>
            /\ versions' = Settled
            /\ op' = [op EXCEPT !.step = "recheck"]
        BY <2>3 DEF Prepare, Journal, ghosts
      <3>2. op' \in Operation /\ op'.step = "recheck" /\ op'.expected = op.expected
            /\ op'.bytes = op.bytes /\ op'.independent = op.independent
            /\ op'.repeated = op.repeated /\ op'.binds = op.binds /\ op'.raced = op.raced
        BY <2>1, <3>1 DEF Operation, Steps
      <3>3. IF op.expected = op.bytes THEN pending' = None
            ELSE pending' = [before |-> op.expected, after |-> op.bytes,
                             versions |-> IF op.independent \/ op.expected = None THEN <<>>
                                          ELSE Latest(<<op.expected>> \o Settled),
                             repeated |-> op.repeated]
        BY <2>3 DEF Prepare, Journal
      <3>4. QED BY <2>1, <3>1, <3>2 DEF Prepare, Busy, DesktopInv, Archived
    <2>4. QED BY <2>2, <2>3
  <1>6. GrantHolds'
    <2>1. op \in Operation /\ op.step = "prepare"
      BY DEF Prepare, Busy, DesktopInv, TypeOK
    <2>2. CASE Damaged
      <3>1. op' = None /\ UNCHANGED <<file, versions, pending, marker, receipt, copied, archive, grant, ghosts>>
        BY <2>2 DEF Prepare, Journal
      <3>2. QED BY <2>1, <3>1 DEF DesktopInv, ghosts, Busy, Settled, Damaged, GrantHolds
    <2>3. CASE ~Damaged
      <3>1. /\ UNCHANGED <<file, marker, receipt, copied, archive, grant, displaced, past, touched>>
            /\ versions' = Settled
            /\ op' = [op EXCEPT !.step = "recheck"]
        BY <2>3 DEF Prepare, Journal, ghosts
      <3>2. op' \in Operation /\ op'.step = "recheck" /\ op'.expected = op.expected
            /\ op'.bytes = op.bytes /\ op'.independent = op.independent
            /\ op'.repeated = op.repeated /\ op'.binds = op.binds /\ op'.raced = op.raced
        BY <2>1, <3>1 DEF Operation, Steps
      <3>3. IF op.expected = op.bytes THEN pending' = None
            ELSE pending' = [before |-> op.expected, after |-> op.bytes,
                             versions |-> IF op.independent \/ op.expected = None THEN <<>>
                                          ELSE Latest(<<op.expected>> \o Settled),
                             repeated |-> op.repeated]
        BY <2>3 DEF Prepare, Journal
      <3>4. QED BY <2>1, <3>1, <3>2 DEF Busy, DesktopInv, GrantHolds
    <2>4. QED BY <2>2, <2>3
  <1>7. Undisturbed'
    <2>1. op \in Operation /\ op.step = "prepare"
      BY DEF Prepare, Busy, DesktopInv, TypeOK
    <2>2. CASE Damaged
      <3>1. op' = None /\ UNCHANGED <<file, versions, pending, marker, receipt, copied, archive, grant, ghosts>>
        BY <2>2 DEF Prepare, Journal
      <3>2. QED BY <3>1 DEF DesktopInv, ghosts, Busy, Settled, Damaged, Undisturbed
    <2>3. CASE ~Damaged
      <3>1. /\ UNCHANGED <<file, marker, receipt, copied, archive, grant, displaced, past, touched>>
            /\ versions' = Settled
            /\ op' = [op EXCEPT !.step = "recheck"]
        BY <2>3 DEF Prepare, Journal, ghosts
      <3>2. op' \in Operation /\ op'.step = "recheck" /\ op'.expected = op.expected
            /\ op'.bytes = op.bytes /\ op'.independent = op.independent
            /\ op'.repeated = op.repeated /\ op'.binds = op.binds /\ op'.raced = op.raced
        BY <2>1, <3>1 DEF Operation, Steps
      <3>3. IF op.expected = op.bytes THEN pending' = None
            ELSE pending' = [before |-> op.expected, after |-> op.bytes,
                             versions |-> IF op.independent \/ op.expected = None THEN <<>>
                                          ELSE Latest(<<op.expected>> \o Settled),
                             repeated |-> op.repeated]
        BY <2>3 DEF Prepare, Journal
      <3>4. SUFFICES ASSUME ~touched.ever
                     PROVE  /\ ~Damaged' /\ Settled' = past
                            /\ file = None => past = <<>>
                            /\ file = op.expected
                            /\ op.expected # op.bytes =>
                                 pending'.versions = IF op.independent \/ op.expected = None THEN <<>>
                                                     ELSE Latest(<<op.expected>> \o past)
        BY <3>1, <3>2 DEF Undisturbed, Busy
      <3>5. Settled = past /\ file = op.expected /\ (file = None => past = <<>>)
        BY <2>1, <3>4 DEF Prepare, Busy, DesktopInv, Undisturbed
      <3>6. op.expected # op.bytes =>
              /\ pending' # None /\ pending'.after = op.bytes /\ pending'.before = op.expected
              /\ pending'.versions = IF op.independent \/ op.expected = None THEN <<>>
                                     ELSE Latest(<<op.expected>> \o past)
        <4>1. op.expected # None => Latest(<<op.expected>> \o Settled) \in History
          BY <2>1, SettledType, Rotation DEF DesktopInv, Operation, File
        <4>2. op.expected # op.bytes => pending' \in Journals
          BY <2>1, <3>3, <4>1, Nothing DEF Operation, Journals
        <4>3. QED BY <3>3, <3>5, <4>2, DesktopFilesAssumption
      <3>7. ~Damaged' /\ Settled' = past
        BY <3>1, <3>3, <3>5, <3>6 DEF Damaged, Settled
      <3>8. QED BY <3>5, <3>6, <3>7
    <2>4. QED BY <2>2, <2>3
  <1>8. QED BY <1>1, <1>2, <1>3, <1>4, <1>5, <1>6, <1>7 DEF DesktopInv

----------------------------------------------------------------------------
(* The initial state, and every step.                                      *)
LEMMA DesktopInit == Init => DesktopInv
  <1>1. Init => TypeOK
    <2>1. SUFFICES ASSUME Init PROVE TypeOK
      OBVIOUS
    <2>2. touched \in [ever : BOOLEAN, since : BOOLEAN]
      BY <2>1 DEF Init
    <2>3. QED BY <2>1, <2>2, Nothing DEF Init, TypeOK, File
  <1>2. QED BY <1>1, Nothing DEF Init, DesktopInv, JournalShape, StepShape, Displaced, Archived,
                GrantHolds, Undisturbed, Busy, Damaged, Settled

LEMMA DesktopNext == DesktopInv /\ [Next]_vars => DesktopInv'
  <1>1. SUFFICES ASSUME DesktopInv, [Next]_vars PROVE DesktopInv'
    OBVIOUS
  <1>2. ASSUME NEW bytes \in Contents, Save(bytes) PROVE DesktopInv'
    BY <1>1, <1>2, SaveStep
  <1>3. ASSUME NEW bytes \in Contents, Create(bytes) PROVE DesktopInv'
    BY <1>1, <1>3, CreateStep
  <1>4. ASSUME NEW bytes \in Contents, SaveAs(bytes) PROVE DesktopInv'
    BY <1>1, <1>4, SaveAsStep
  <1>5. ASSUME NEW bytes \in Contents, RenameProject(bytes) PROVE DesktopInv'
    BY <1>1, <1>5, RenameProjectStep
  <1>6. CASE Archive
    BY <1>1, <1>6, ArchiveStep
  <1>7. CASE Compare
    BY <1>1, <1>7, CompareStep
  <1>8. CASE Prepare
    BY <1>1, <1>8, PrepareStep
  <1>9. CASE Recheck
    BY <1>1, <1>9, RecheckStep
  <1>10. CASE Rename
    BY <1>1, <1>10, RenameStep
  <1>11. CASE Finish
    BY <1>1, <1>11, FinishStep
  <1>12. CASE Fail
    BY <1>1, <1>12, FailStep
  <1>13. CASE RestoreVersion
    BY <1>1, <1>13, RestoreVersionStep
  <1>14. CASE ViewHistory
    BY <1>1, <1>14, ViewHistoryStep
  <1>15. CASE Open
    BY <1>1, <1>15, OpenStep
  <1>16. CASE Release
    BY <1>1, <1>16, ReleaseStep
  <1>17. CASE List
    BY <1>1, <1>17, ListStep
  <1>18. CASE Materialise
    BY <1>1, <1>18, MaterialiseStep
  <1>19. CASE Settle
    BY <1>1, <1>19, SettleStep
  <1>20. CASE Crash
    BY <1>1, <1>20, CrashStep
  <1>21. ASSUME NEW content \in File, Outside(content) PROVE DesktopInv'
    BY <1>1, <1>21, OutsideStep
  <1>22. ASSUME NEW bytes \in Contents, RepeatSaveAs(bytes) PROVE DesktopInv'
    BY <1>1, <1>22, RepeatSaveAsStep
  <1>23. CASE Reserve
    BY <1>1, <1>23, ReserveStep
  <1>24. CASE UNCHANGED vars
    BY <1>1, <1>24 DEF vars, DesktopInv, TypeOK, JournalShape, StepShape, Displaced, Archived,
       GrantHolds, Undisturbed, Busy, Damaged, Settled
  <1>25. QED
    BY <1>1, <1>2, <1>3, <1>4, <1>5, <1>6, <1>7, <1>8, <1>9, <1>10, <1>11, <1>12, <1>13, <1>14, <1>15, <1>16, <1>17, <1>18, <1>19, <1>20, <1>21, <1>22, <1>23, <1>24 DEF Next

(* The invariant of every reachable state.                                 *)
THEOREM DesktopSafe == Spec => []DesktopInv
  BY DesktopInit, DesktopNext, PTL DEF Spec

(* Types: the disk, the process and the ghosts stay well formed for every  *)
(* set of contents and every length of the history.                        *)
THEOREM TypeOKHolds == Spec => []TypeOK
  <1>1. DesktopInv => TypeOK
    BY DEF DesktopInv
  <1>2. QED BY <1>1, DesktopSafe, PTL

(* The history holds only what was replaced in the file, and all of it     *)
(* while only this process writes: an exit on either side of the rename    *)
(* invents no version and forgets none.                                    *)
THEOREM NothingInventedHolds == Spec => []NothingInvented
  <1>1. DesktopInv => NothingInvented
    BY DEF DesktopInv, Displaced, Undisturbed, NothingInvented
  <1>2. QED BY <1>1, DesktopSafe, PTL

(* As long as no other program writes, the open Project holds what is in   *)
(* its file, so its save passes both comparisons.                          *)
THEOREM GrantIsCurrentHolds == Spec => []GrantIsCurrent
  <1>1. DesktopInv => GrantIsCurrent
    BY DEF DesktopInv, GrantHolds, GrantIsCurrent, Idle, Busy
  <1>2. QED BY <1>1, DesktopSafe, PTL

----------------------------------------------------------------------------
(* What a step may drop                                                    *)
Aged(lost) == Len(versions) = Kept /\ Len(versions') = Kept /\ lost = versions[Kept]
Anew == versions' = <<>> /\ pending # None /\ pending.before = None
Redone(lost) == versions' = <<>> /\ pending # None /\ pending.repeated /\ lost \in Elements(versions)
Raced(lost) == lost = file /\ op # None /\ op.raced /\ file' = op.bytes
Allowed(lost) == Aged(lost) \/ Anew \/ Redone(lost) \/ Raced(lost)

(* Settling the journal drops the oldest version at most: what a write     *)
(* replaced is the newest, and what Save As replaced is archived.          *)
LEMMA LoadKeeps ==
  ASSUME DesktopInv, ~Damaged, versions' = Settled, file' = file, archive \subseteq archive',
         NEW lost \in Held \ Held'
  PROVE  Allowed(lost)
  <1>1. /\ lost \notin Elements(Settled) /\ lost # file /\ lost \notin archive /\ lost # None
        /\ lost \in Elements(versions) \/ (pending # None /\ lost = pending.before)
    BY DEF Held
  <1>2. CASE pending # None /\ file = pending.after
    <2>1. Settled = pending.versions
      BY <1>2 DEF Settled
    <2>2. CASE pending.before = None /\ pending.versions = <<>>
      BY <1>2, <2>1, <2>2 DEF Allowed, Anew
    <2>3. CASE pending.versions = Latest(<<pending.before>> \o versions) /\ pending.before # None
      <3>1. versions \in History /\ pending.before \in Contents
        BY <1>2, <2>3 DEF DesktopInv, TypeOK, Journals, File
      <3>2. /\ pending.before \in Elements(Settled)
            /\ \A y \in Elements(versions) \ Elements(Settled) :
                 Len(versions) = Kept /\ Len(Settled) = Kept /\ y = versions[Kept]
        BY <2>1, <2>3, <3>1, Rotation
      <3>3. lost \in Elements(versions) \ Elements(Settled)
        BY <1>1, <3>2
      <3>4. QED BY <3>2, <3>3 DEF Allowed, Aged
    <2>4. CASE /\ pending.versions = <<>> /\ pending.before \in archive
               /\ pending.repeated \/ Elements(versions) \subseteq archive
      <3>1. lost \in Elements(versions) /\ pending.repeated
        BY <1>1, <2>4
      <3>2. QED BY <1>2, <2>1, <2>4, <3>1 DEF Allowed, Redone
    <2>5. QED BY <1>2, <2>2, <2>3, <2>4 DEF DesktopInv, JournalShape
  <1>3. CASE ~(pending # None /\ file = pending.after)
    <2>1. Settled = versions
      BY <1>3 DEF Settled
    <2>2. pending # None => pending.before = file
      BY <1>3 DEF Damaged
    <2>3. QED BY <1>1, <2>1, <2>2
  <1>4. QED BY <1>2, <1>3

(* No step of the application drops a content that the file, its history   *)
(* or the recycle area held, but by rotation, by creating a deleted file   *)
(* anew, by repeating a Save As, or over another program's last write.     *)
THEOREM WorkIsKeptHolds == Spec => WorkIsKept
  <1>1. ASSUME DesktopInv, [Next]_vars, \A content \in File : ~Outside(content),
               NEW lost \in Held \ Held'
        PROVE  Allowed(lost)
    <2>1. CASE UNCHANGED <<file, versions, pending, archive>>
      BY <1>1, <2>1 DEF Held
    <2>2. ASSUME NEW bytes \in Contents,
                 \/ Save(bytes) \/ Create(bytes) \/ RenameProject(bytes)
                 \/ SaveAs(bytes) \/ RepeatSaveAs(bytes)
          PROVE  Allowed(lost)
      BY <2>1, <2>2 DEF Save, Create, SaveAs, RepeatSaveAs, RenameProject, disk
    <2>3. CASE Reserve \/ Compare \/ Recheck \/ Fail \/ Open \/ Release \/ Crash
      BY <2>1, <2>3 DEF Reserve, Compare, Recheck, Fail, Open, Release, Crash, disk
    <2>4. CASE Archive
      <3>1. CASE Damaged
        BY <2>1, <2>4, <3>1 DEF Archive, Load
      <3>2. CASE ~Damaged
        BY <1>1, <2>4, <3>2, LoadKeeps DEF Archive, Load
      <3>3. QED BY <3>1, <3>2
    <2>5. CASE Prepare
      <3>1. CASE Damaged
        BY <2>1, <2>5, <3>1 DEF Prepare, Journal
      <3>2. CASE ~Damaged
        BY <1>1, <2>5, <3>2, LoadKeeps DEF Prepare, Journal
      <3>3. QED BY <3>1, <3>2
    <2>6. CASE Finish
      <3>1. CASE Load
        BY <1>1, <2>6, <3>1, LoadKeeps DEF Finish, Load
      <3>2. CASE ~Load
        BY <2>1, <2>6, <3>2 DEF Finish
      <3>3. QED BY <3>1, <3>2
    <2>7. CASE RestoreVersion \/ ViewHistory
      BY <1>1, <2>7, LoadKeeps DEF RestoreVersion, ViewHistory, Load
    <2>8. CASE List
      <3>1. CASE Unborn
        BY <2>1, <2>8, <3>1 DEF List
      <3>2. CASE ~Unborn
        BY <1>1, <2>8, <3>2, LoadKeeps DEF List, Load
      <3>3. QED BY <3>1, <3>2
    <2>9. CASE Settle
      <3>1. versions' = <<>> /\ pending # None /\ pending.before = None
        BY <1>1, <2>9 DEF Settle, Busy, DesktopInv, StepShape, JournalShape
      <3>2. QED BY <3>1 DEF Allowed, Anew
    <2>10. CASE Rename
      <3>1. lost = file
        BY <1>1, <2>10 DEF Held, Rename, Replaced
      <3>2. op # None /\ file' = op.bytes /\ (op.raced \/ file = op.expected)
        BY <1>1, <2>10 DEF Rename, Replaced, Busy, DesktopInv, StepShape
      <3>3. CASE file = op.expected /\ op.expected = op.bytes
        BY <1>1, <3>1, <3>2, <3>3 DEF Held
      <3>4. CASE file = op.expected /\ op.expected # op.bytes
        <4>1. pending # None /\ pending.before = file
          BY <1>1, <2>10, <3>4 DEF Rename, Busy, DesktopInv, StepShape
        <4>2. pending' = pending
          BY <2>10 DEF Rename
        <4>3. QED BY <1>1, <3>1, <4>1, <4>2 DEF Held
      <3>5. QED BY <3>1, <3>2, <3>3, <3>4 DEF Allowed, Raced
    <2>11. CASE Materialise
      <3>1. lost = file /\ lost # None
        BY <1>1, <2>11 DEF Held, Materialise, Replaced
      <3>2. op # None /\ file' = op.bytes /\ (op.raced \/ file = None)
        BY <1>1, <2>11 DEF Materialise, Replaced, Busy, DesktopInv, StepShape
      <3>3. QED BY <3>1, <3>2 DEF Allowed, Raced
    <2>12. CASE UNCHANGED vars
      BY <2>1, <2>12 DEF vars
    <2>13. QED
      BY <1>1, <2>2, <2>3, <2>4, <2>5, <2>6, <2>7, <2>8, <2>9, <2>10, <2>11, <2>12 DEF Next
  <1>2. ASSUME DesktopInv, [Next]_vars
        PROVE  [(\A content \in File : ~Outside(content)) =>
                  \A lost \in Held \ Held' :
                    \/ Len(versions) = Kept /\ Len(versions') = Kept /\ lost = versions[Kept]
                    \/ versions' = <<>> /\ pending # None /\ pending.before = None
                    \/ versions' = <<>> /\ pending # None /\ pending.repeated /\ lost \in Elements(versions)
                    \/ lost = file /\ op # None /\ op.raced /\ file' = op.bytes]_vars
    BY <1>1, <1>2 DEF Allowed, Aged, Anew, Redone, Raced
  <1>3. QED BY <1>2, DesktopSafe, PTL DEF Spec, WorkIsKept

=============================================================================
