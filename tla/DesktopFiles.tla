---------------------------- MODULE DesktopFiles ----------------------------
(***************************************************************************)
(* One Project file of the desktop application's library.                  *)
(*                                                                         *)
(* The main process serves one file operation at a time.  A write is       *)
(* compared with the file, journalled in the Save history, compared again, *)
(* and put in place by a rename; the next operation settles the journal of *)
(* one that was interrupted by comparing the file with both sides of it.   *)
(* The process may stop between any two steps, and other programs change   *)
(* or delete the file at any time.                                         *)
(*                                                                         *)
(* Contents stand for the bytes of the file.                               *)
(***************************************************************************)
EXTENDS Integers, Sequences

CONSTANTS Contents, None,
          Kept                  \* earlier versions that the history keeps

VARIABLES
  file,         \* the file, None when it does not exist
  versions,     \* the history, newest first
  pending,      \* the journal of a write that is not settled
  marker,       \* .pending-create: the first save of the file is not confirmed
  receipt,      \* what the creation of this file was decided to write
  copied,       \* what the last Save As over this file was decided to replace and write
  archive,      \* contents in the recycle area, from Save As over this file
  grant,        \* what the open Project last read or wrote
  op,           \* the operation that the process is busy with
  displaced,    \* ghost: every content the file has had before the present one
  past,         \* ghost: what the history has to be while only this process writes
  touched       \* ghost: another program wrote the file: ever, since the grant

vars == <<file, versions, pending, marker, receipt, copied, archive, grant, op, displaced, past, touched>>
disk == <<file, versions, pending, marker, receipt, copied, archive>>
ghosts == <<displaced, past, touched>>

File == Contents \cup {None}
Steps == {"archive", "reserve", "compare", "prepare", "recheck", "rename", "finish", "materialise", "settle"}
\* repeated: a Save As whose receipt decided the destination before
\* raced: another program wrote the file since op last compared it (ghost)
Operation == [step : Steps, expected : File, bytes : Contents, independent : BOOLEAN,
              repeated : BOOLEAN, binds : BOOLEAN, raced : BOOLEAN]
History == UNION {[1..n -> Contents] : n \in 0..Kept}
\* repeated: a repeated Save As wrote the journal (ghost)
Journals == [before : File, after : Contents, versions : History, repeated : BOOLEAN]
Receipts == [before : File, after : Contents]

ASSUME DesktopFilesAssumption ==
  /\ None \notin Contents \cup Operation \cup Journals \cup Receipts
  /\ Kept \in Nat \ {0}

Busy(step) == op # None /\ op.step = step
Idle == op = None
Elements(s) == {s[i] : i \in DOMAIN s}

\* Mutant: the list is cut one too late.
LatestAndOne(s) == SubSeq(s, 1, IF Len(s) <= Kept THEN Len(s) ELSE Kept + 1)

Latest(s) == SubSeq(s, 1, IF Len(s) < Kept THEN Len(s) ELSE Kept)

----------------------------------------------------------------------------
(* The history: project-history.ts *)

\* An interrupted write that the file cannot decide
Damaged == pending # None /\ file # pending.after /\ file # pending.before

\* Mutant: the journal is taken for the write.
SettledByJournal == IF pending = None THEN versions ELSE pending.versions

\* The versions once the file has decided the journal
Settled ==
  IF pending # None /\ file = pending.after THEN pending.versions ELSE versions

\* load, with the manifest it writes
Load ==
  /\ ~Damaged
  /\ versions' = Settled
  /\ pending' = None

\* prepare: settle what was pending, keep both sides, then write the journal
Journal ==
  /\ ~Damaged
  /\ versions' = Settled
  /\ pending' = IF op.expected = op.bytes THEN None ELSE
       [before |-> op.expected, after |-> op.bytes,
        versions |-> IF op.independent \/ op.expected = None THEN <<>>
                     ELSE Latest(<<op.expected>> \o Settled),
        repeated |-> op.repeated]

----------------------------------------------------------------------------
(* A write: commitProjectFile *)

Begin(step, expected, bytes, independent, repeated, binds) ==
  op' = [step |-> step, expected |-> expected, bytes |-> bytes, independent |-> independent,
         repeated |-> repeated, binds |-> binds, raced |-> FALSE]

Compare ==
  /\ Busy("compare")
  /\ op' = IF file = op.expected THEN [op EXCEPT !.step = "prepare"] ELSE None
  /\ UNCHANGED <<disk, grant, ghosts>>

Prepare ==
  /\ Busy("prepare")
  /\ \/ /\ Journal
        /\ op' = [op EXCEPT !.step = "recheck"]
     \/ /\ Damaged
        /\ op' = None
        /\ UNCHANGED <<versions, pending>>
  /\ UNCHANGED <<file, marker, receipt, copied, archive, grant, ghosts>>

\* Mutant: the second comparison is left out.
RecheckNothing ==
  /\ Busy("recheck")
  /\ op' = [op EXCEPT !.step = "rename", !.raced = FALSE]
  /\ UNCHANGED <<disk, grant, ghosts>>

Recheck ==
  /\ Busy("recheck")
  /\ op' = IF file = op.expected THEN [op EXCEPT !.step = "rename", !.raced = FALSE] ELSE None
  /\ UNCHANGED <<disk, grant, ghosts>>

Replaced(bytes) ==
  /\ file' = bytes
  /\ displaced' = displaced \cup ({file} \ {None})

Rename ==
  /\ Busy("rename")
  /\ Replaced(op.bytes)
  /\ past' = IF touched.ever \/ op.expected = op.bytes THEN past
             ELSE IF op.independent \/ op.expected = None THEN <<>>
             ELSE Latest(<<op.expected>> \o past)
  /\ op' = [op EXCEPT !.step = "finish"]
  /\ touched' = [touched EXCEPT !.since = FALSE]
  /\ UNCHANGED <<versions, pending, marker, receipt, copied, archive, grant>>

\* The file is saved, also when the history cannot be settled now.
Finish ==
  /\ Busy("finish")
  /\ \/ Load
     \/ UNCHANGED <<versions, pending>>
  /\ grant' = IF op.binds THEN op.bytes ELSE grant
  /\ op' = None
  /\ UNCHANGED <<file, marker, receipt, copied, archive, ghosts>>

\* A step before the rename fails, or the user refuses; what was created by key is retained.
Fail ==
  /\ op # None /\ op.step # "finish"
  /\ op' = None
  /\ UNCHANGED <<disk, grant, ghosts>>

----------------------------------------------------------------------------
(* The operations: createProjectFileHandler *)

\* save, bound to the grant
Save(bytes) ==
  /\ Idle
  /\ grant # None
  /\ Begin("compare", grant, bytes, FALSE, FALSE, TRUE)
  /\ UNCHANGED <<disk, grant, ghosts>>

\* save with a creation key and no binding: allocate the file and reserve it, or repeat a
\* creation whose answer was lost.  The destination may only hold what the receipt names.
Create(bytes) ==
  /\ Idle
  /\ grant \in {None, bytes}
  /\ \/ /\ receipt = None
        /\ file = None
        /\ receipt' = [before |-> None, after |-> bytes]
        /\ marker' = TRUE
     \/ /\ receipt # None
        /\ receipt.after = bytes
        /\ file \in {receipt.before, bytes}
        /\ UNCHANGED <<receipt, marker>>
  /\ Begin("compare", file, bytes, FALSE, FALSE, TRUE)
  /\ UNCHANGED <<file, versions, pending, copied, archive, grant, ghosts>>

\* Save As of another Project onto this file, which no open Project holds
SaveAs(bytes) ==
  /\ Idle
  /\ grant = None
  /\ Begin(IF file = None THEN "reserve" ELSE "archive", file, bytes, TRUE, FALSE, TRUE)
  /\ UNCHANGED <<disk, grant, ghosts>>

\* Save As repeated with the key of the last one, whose answer was lost or which failed: the
\* file may only hold what the receipt names, and nobody is asked nor is anything archived.
RepeatSaveAs(bytes) ==
  /\ Idle
  /\ copied # None /\ copied.after = bytes
  /\ \/ file = bytes /\ grant \in {None, bytes}
     \/ file = copied.before /\ grant = None
  /\ Begin("compare", file, bytes, TRUE, TRUE, TRUE)
  /\ UNCHANGED <<disk, grant, ghosts>>

\* Mutant: what is replaced is not archived.
ArchiveNothing ==
  /\ Busy("archive")
  /\ op' = [op EXCEPT !.step = "reserve"]
  /\ UNCHANGED <<disk, grant, ghosts>>

\* archiveReplacement: the content and its history go to the recycle area first.
Archive ==
  /\ Busy("archive")
  /\ \/ /\ Load
        /\ archive' = archive \cup {op.expected} \cup Elements(Settled)
        /\ op' = [op EXCEPT !.step = "reserve"]
     \/ /\ Damaged
        /\ op' = None
        /\ UNCHANGED <<versions, pending, archive>>
  /\ UNCHANGED <<file, marker, receipt, copied, grant, ghosts>>

\* reserve: the destination is decided for every repetition.
Reserve ==
  /\ Busy("reserve")
  /\ copied' = [before |-> op.expected, after |-> op.bytes]
  /\ op' = [op EXCEPT !.step = "compare"]
  /\ UNCHANGED <<file, versions, pending, marker, receipt, archive, grant, ghosts>>

\* Mutant: the saved copy is changed under an open Project.
ClosedAnyway == Idle

\* Library actions change a saved copy that no open Project holds.
Closed == Idle /\ grant = None

\* inspect: List, and no error is left
Listed == file # None /\ ~marker

\* library-action "rename"
RenameProject(bytes) ==
  /\ Closed /\ Listed
  /\ Begin("compare", file, bytes, FALSE, FALSE, FALSE)
  /\ UNCHANGED <<disk, grant, ghosts>>

\* library-action "restore-version"; the user saw the present content.
RestoreVersion ==
  /\ Closed
  /\ file # None
  /\ Load
  /\ \E version \in Elements(Settled) : Begin("compare", file, version, FALSE, FALSE, FALSE)
  /\ UNCHANGED <<file, marker, receipt, copied, archive, grant, ghosts>>

\* history
ViewHistory ==
  /\ Idle
  /\ file # None
  /\ Load
  /\ UNCHANGED <<file, marker, receipt, copied, archive, grant, op, ghosts>>

\* open and resume; an open Project keeps its own grant.
Open ==
  /\ Idle
  /\ file # None
  /\ grant = None
  /\ grant' = file
  /\ touched' = [touched EXCEPT !.since = FALSE]
  /\ UNCHANGED <<disk, op, displaced, past>>

Release ==
  /\ Idle
  /\ grant' = None
  /\ UNCHANGED <<disk, op, ghosts>>

\* The first save was journalled and never reached the file.
Unborn == file = None /\ pending # None /\ pending.before = None

\* list: confirm the first save of the file, or find that it has to be completed.
List ==
  /\ Idle
  /\ marker
  /\ \/ /\ Unborn
        /\ Begin("materialise", None, pending.after, FALSE, FALSE, FALSE)
        /\ UNCHANGED <<versions, pending, marker>>
     \/ /\ ~Unborn
        /\ Load
        /\ marker' = (file = None)
        /\ UNCHANGED op
  /\ UNCHANGED <<file, receipt, copied, archive, grant, ghosts>>

Materialise ==
  /\ Busy("materialise")
  /\ Replaced(op.bytes)
  /\ op' = [op EXCEPT !.step = "settle"]
  /\ UNCHANGED <<versions, pending, marker, receipt, copied, archive, grant, past, touched>>

Settle ==
  /\ Busy("settle")
  /\ versions' = pending.versions
  /\ pending' = None
  /\ marker' = (file = None)
  /\ op' = None
  /\ UNCHANGED <<file, receipt, copied, archive, grant, ghosts>>

----------------------------------------------------------------------------
Crash ==
  /\ op' = None
  /\ grant' = None
  /\ UNCHANGED <<disk, ghosts>>

\* Another program writes or deletes the file.
Outside(content) ==
  /\ content # file
  /\ Replaced(content)
  /\ touched' = [ever |-> TRUE, since |-> TRUE]
  /\ past' = <<>>
  /\ op' = IF op = None THEN None ELSE [op EXCEPT !.raced = TRUE]
  /\ UNCHANGED <<versions, pending, marker, receipt, copied, archive, grant>>

Init ==
  /\ file = None /\ versions = <<>> /\ pending = None
  /\ marker = FALSE /\ receipt = None /\ copied = None /\ archive = {}
  /\ grant = None /\ op = None
  /\ displaced = {} /\ past = <<>> /\ touched = [ever |-> FALSE, since |-> FALSE]

Next ==
  \/ \E bytes \in Contents : Save(bytes) \/ Create(bytes) \/ RenameProject(bytes)
                              \/ SaveAs(bytes) \/ RepeatSaveAs(bytes)
  \/ Archive \/ Reserve \/ Compare \/ Prepare \/ Recheck \/ Rename \/ Finish \/ Fail
  \/ RestoreVersion \/ ViewHistory \/ Open \/ Release
  \/ List \/ Materialise \/ Settle
  \/ Crash
  \/ \E content \in File : Outside(content)

Spec == Init /\ [][Next]_vars

----------------------------------------------------------------------------
\* Types of the disk, the process and the ghosts.
TypeOK ==
  /\ file \in File
  /\ versions \in History
  /\ pending \in {None} \cup Journals
  /\ marker \in BOOLEAN
  /\ receipt \in {None} \cup Receipts
  /\ copied \in {None} \cup Receipts
  /\ archive \subseteq Contents
  /\ grant \in File
  /\ op \in {None} \cup Operation
  /\ displaced \subseteq Contents
  /\ past \in History
  /\ touched \in [ever : BOOLEAN, since : BOOLEAN]

(* "A process exit on either side of rename never invents a committed      *)
(* version" (project-history.ts:24-25).  Every version was once replaced   *)
(* in the file; and as long as no other program writes, what the next      *)
(* load yields is exactly the contents that the last writes replaced, in   *)
(* their order, wherever a write failed or the process stopped.            *)
NothingInvented ==
  /\ Elements(versions) \subseteq displaced
  /\ ~touched.ever => ~Damaged /\ Settled = past

(* As long as no other program writes the file, the open Project holds     *)
(* what is in it, so that its save is not refused: neither a restore, a    *)
(* rename, a Save As, a repeated creation nor a recovery gets in between.  *)
GrantIsCurrent ==
  Idle /\ grant # None /\ ~touched.since => file = grant

Held ==
  ({file} \cup Elements(versions) \cup archive
     \cup (IF pending = None THEN {} ELSE {pending.before})) \ {None}

(* No step of the application drops a content from the file, its history   *)
(* and the recycle area together, except                                   *)
(*   - the oldest version when the history rotates,                        *)
(*   - the history of a file that was deleted and is created again,        *)
(*   - the history that the file got between a Save As that failed and its *)
(*     repetition, which archives nothing (project-files.ts:738-748),      *)
(*   - what another program wrote after the last comparison of the         *)
(*     operation that overwrites it (the window before the rename,         *)
(*     project-files.ts:160-161).                                          *)
WorkIsKept ==
  [][(\A content \in File : ~Outside(content)) =>
       \A lost \in Held \ Held' :
         \/ Len(versions) = Kept /\ Len(versions') = Kept /\ lost = versions[Kept]
         \/ versions' = <<>> /\ pending # None /\ pending.before = None
         \/ versions' = <<>> /\ pending # None /\ pending.repeated /\ lost \in Elements(versions)
         \/ lost = file /\ op # None /\ op.raced /\ file' = op.bytes]_vars
=============================================================================
