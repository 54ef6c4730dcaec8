----------------------------- MODULE CloudSave -----------------------------
(***************************************************************************)
(* Saving a Project to the account's Cloud Projects.                       *)
(*                                                                         *)
(* The store is one serial object that keeps a current revision and its    *)
(* last displaced versions per Cloud Project.  The worker between decides  *)
(* a save twice: once before it renders the preview, again at the commit.  *)
(* Each window of the editor holds one working copy, saves it through a    *)
(* coordinator that runs one save at a time, and replaces it by another    *)
(* Project behind a guard that asks about unsaved work.  When the page     *)
(* starts it fetches the Project opened last, and puts it in the place of  *)
(* the copy.  A request whose answer is lost keeps running at the worker.  *)
(*                                                                         *)
(* Contents stand for name, schema and text together.  This is the store   *)
(* of one region with revision numbers; ProjectSync has the head tokens.   *)
(***************************************************************************)
EXTENDS Integers, FiniteSets, Sequences

CONSTANTS Windows, Contents, Blank, None,
          Limit,                \* CLOUD_PROJECT_LIMIT
          Kept,                 \* versions kept beside the current one
          MaxShared,            \* bound: the Projects that other devices act on
          MaxProjects, MaxRevisions, MaxSessions, MaxEdits, MaxUpsets    \* bounds

ASSUME CloudSaveAssumption ==
  /\ Blank \in Contents
  /\ None \notin Contents
  /\ MaxProjects > 0 /\ MaxRevisions > 0
  /\ MaxShared \in 0..MaxProjects
  /\ {Limit, Kept, MaxProjects, MaxRevisions, MaxSessions, MaxEdits, MaxUpsets} \subseteq Nat

VARIABLES
  project,      \* the row of each Cloud Project: revision (0: none), text, versions
  history,      \* ghost: every revision ever committed, with the one it was made from
  stray,        \* requests at the worker whose window stopped listening
  copy,         \* the working copy of each window, and what it believes of it
  session,      \* the identity of that copy
  saving,       \* the save the coordinator has in flight
  creation,     \* pendingCreates: the payload a create must keep
  guard,        \* the question before a replacement
  opening,      \* the restore of the recent Project when the page starts
  edits, upsets \* how many edits, and losses, refusals, shelf actions and restores, there were

vars == <<project, history, stray, copy, session, saving, creation, guard, opening,
          edits, upsets>>

Ids == 1..MaxProjects
Binding == [id : Ids, revision : 1..MaxRevisions]
States == {"unbound", "clean", "dirty", "saving", "offline", "conflict", "failed"}
\* what a window shows; base is the revision its content grew from (ghost)
Copy == [live : Contents, state : States, binding : Binding \cup {None},
         baseline : Contents \cup {None},
         base : 0..MaxRevisions]
\* revision: the expected one, 0 for a create; base: the ghost of the copy it was taken from
Request == [id : Ids \cup {0}, revision : 0..MaxRevisions, text : Contents,
            base : 0..MaxRevisions, checked : BOOLEAN]
Answer == [status : {"saved", "conflict"}, binding : Binding]
            \cup [status : {"not-found", "limit", "refused", "unreachable"}]
Saving == [session : 0..MaxSessions, snapshot : Contents, request : Request,
           answer : Answer \cup {None}]
Creation == [text : Contents, state : {"pending", "rejected", "ambiguous"},
             binding : Binding \cup {None}]
Guard == [next : Copy, fresh : BOOLEAN, step : {"asked", "saving", "saved", "failed"}]
\* live: what the window showed when the open began (ghost)
Opening == [step : {"ready", "fetching", "fetched", "done"}, live : Contents,
            next : Copy \cup {None}]
OpenIs(step) == [step |-> step, live |-> Blank, next |-> None]

ASSUME NoneAssumption == None \notin Binding \cup Answer \cup Saving \cup Creation \cup Guard

----------------------------------------------------------------------------
(* The store: gallery-store-cloud-projects.ts *)

Exists(id) == project[id].revision > 0
Current(id) == [id |-> id, revision |-> project[id].revision]

\* How cloudProjectUpdate answers r without writing; None means that it must write.
Decide(r) ==
  IF ~Exists(r.id) THEN [status |-> "not-found"]
  ELSE IF project[r.id].text = r.text THEN [status |-> "saved", binding |-> Current(r.id)]
  ELSE IF project[r.id].revision # r.revision
       THEN [status |-> "conflict", binding |-> Current(r.id)]
  ELSE None

\* Mutant: the second call trusts the first.
TrustCheck(r) == IF Exists(r.id) THEN None ELSE [status |-> "not-found"]

\* The same, at the second call.
DecideAgain(r) == Decide(r)

\* The revisions that pruneCloudProjectVersions leaves.
Newest(revisions) == {v \in revisions : Cardinality({w \in revisions : w > v}) < Kept}

\* Mutant: the row is changed under its old revision.
WriteInPlace(id, r) ==
  /\ project' = [project EXCEPT ![id].text = r.text]
  /\ history' = [history EXCEPT ![id] = Append(@, [text |-> r.text, base |-> r.base])]

Write(id, r) ==
  /\ project[id].revision < MaxRevisions
  /\ project' = [project EXCEPT ![id] =
       [revision |-> @.revision + 1, text |-> r.text,
        versions |-> Newest(@.versions \cup {@.revision})]]
  /\ history' = [history EXCEPT ![id] = Append(@, [text |-> r.text, base |-> r.base])]

Insert(id, r) ==
  /\ project' = [project EXCEPT ![id] = [revision |-> 1, text |-> r.text, versions |-> {}]]
  /\ history' = [history EXCEPT ![id] = <<[text |-> r.text, base |-> 0]>>]

\* One call of the worker to the store for r, and its answer: None when
\* the check asks for the update.  An id is never used twice, whatever key a create carries.
Serve(r, answer) ==
  \/ /\ r.revision > 0 /\ ~r.checked
     /\ answer = Decide(r)
     /\ UNCHANGED <<project, history, upsets>>
  \/ /\ r.revision > 0 /\ r.checked
     /\ DecideAgain(r) # None
     /\ answer = DecideAgain(r)
     /\ UNCHANGED <<project, history, upsets>>
  \/ /\ r.revision > 0 /\ r.checked
     /\ DecideAgain(r) = None
     /\ answer = [status |-> "saved",
                  binding |-> [id |-> r.id, revision |-> project[r.id].revision + 1]]
     /\ Write(r.id, r)
     /\ UNCHANGED upsets
  \/ /\ r.revision = 0
     /\ Cardinality({id \in Ids : Exists(id)}) >= Limit
     /\ answer = [status |-> "limit"]
     /\ UNCHANGED <<project, history, upsets>>
  \/ /\ r.revision = 0
     /\ Cardinality({id \in Ids : Exists(id)}) < Limit
     /\ \E id \in Ids :
          /\ history[id] = <<>>
          /\ \A lower \in 1..(id - 1) : history[lower] # <<>>
          /\ answer = [status |-> "saved", binding |-> [id |-> id, revision |-> 1]]
          /\ Insert(id, r)
     /\ UNCHANGED upsets
  \/ /\ ~r.checked                       \* signed out, too large, not a Project
     /\ upsets < MaxUpsets /\ upsets' = upsets + 1
     /\ answer = [status |-> "refused"]
     /\ UNCHANGED <<project, history>>

----------------------------------------------------------------------------
(* The windows: use-project-file-lifecycle.ts *)

Dirty(w) == copy[w].state \in {"dirty", "saving", "offline", "conflict", "failed"}
Unsafe(w) == Dirty(w) /\ copy[w].live # Blank

\* matchesCurrentProject and isCurrent of the snapshot that is being saved
IsCurrent(w) == saving[w].session = session[w]
Matches(w) == copy[w].live = saving[w].snapshot

\* A change of the document; undoing back to the saved baseline makes it clean again.
Edit(w, text) ==
  /\ text # copy[w].live
  /\ edits < MaxEdits
  /\ edits' = edits + 1
  /\ copy' = [copy EXCEPT ![w].live = text,
                          ![w].state = IF copy[w].baseline = text THEN "clean" ELSE "dirty"]
  /\ UNCHANGED <<project, history, stray, session, saving, creation, guard, opening, upsets>>

Put(binding, text, base) ==
  [id |-> binding.id, revision |-> binding.revision, text |-> text, base |-> base, checked |-> FALSE]
Post(text) ==
  [id |-> 0, revision |-> 0, text |-> text, base |-> 0, checked |-> FALSE]

\* pendingCreate: an ambiguous create keeps its payload, a rejected one takes the new.
PendingCreate(w, text) ==
  IF creation[w] = None \/ creation[w].state = "rejected"
  THEN [text |-> text, state |-> "pending", binding |-> None]
  ELSE creation[w]

\* The binding a save goes to: the copy's, or one a create has recovered since.
Target(w) ==
  IF copy[w].binding = None /\ creation[w] # None THEN creation[w].binding ELSE copy[w].binding

\* saveProjectToCloud with the coordinator idle; a save while one is in flight only joins it.
StartSave(w) ==
  /\ saving[w] = None
  /\ LET text == copy[w].live
         to == Target(w)
         made == PendingCreate(w, text)
         send(r) == [session |-> session[w], snapshot |-> text, request |-> r, answer |-> None]
     IN /\ copy' = [copy EXCEPT ![w].state = "saving"]
        /\ IF to # None
           THEN /\ saving' = [saving EXCEPT ![w] = send(Put(to, text,
                                IF copy[w].binding = None THEN to.revision ELSE copy[w].base))]
                /\ UNCHANGED creation
           ELSE /\ saving' = [saving EXCEPT ![w] = send(Post(made.text))]
                /\ creation' = [creation EXCEPT ![w] = made]

Save(w) ==
  /\ StartSave(w)
  /\ UNCHANGED <<project, history, stray, session, guard, opening, edits, upsets>>

\* The worker serves the request the window is waiting for.
Served(w) ==
  /\ saving[w] # None /\ saving[w].answer = None
  /\ \E answer \in Answer \cup {None} :
       /\ Serve(saving[w].request, answer)
       /\ saving' = [saving EXCEPT ![w].answer = answer, ![w].request.checked = TRUE]
  /\ UNCHANGED <<stray, copy, session, creation, guard, opening, edits>>

\* The worker serves a request that nobody waits for; its answer goes nowhere.
ServeStray ==
  \E r \in stray, answer \in Answer \cup {None} :
    /\ Serve(r, answer)
    /\ stray' = (stray \ {r}) \cup
                (IF answer = None THEN {[r EXCEPT !.checked = TRUE]} ELSE {})
    /\ UNCHANGED <<copy, session, saving, creation, guard, opening, edits>>

\* The connection fails: before the request arrives, while it is served, or with the answer.
LoseCall(w) ==
  /\ upsets < MaxUpsets
  /\ upsets' = upsets + 1
  /\ saving[w] # None
  /\ saving[w].answer # [status |-> "unreachable"]
  /\ \/ UNCHANGED stray
     \/ /\ saving[w].answer = None
        /\ stray' = stray \cup {saving[w].request}
  /\ saving' = [saving EXCEPT ![w].answer = [status |-> "unreachable"]]
  /\ UNCHANGED <<project, history, copy, session, creation, guard, opening, edits>>

\* What remains of the create after an answer other than "saved".
Released(w, status) ==
  IF saving[w].request.revision > 0 THEN creation[w]
  ELSE IF status = "unreachable" THEN [creation[w] EXCEPT !.state = "ambiguous"]
  ELSE IF creation[w].state = "ambiguous" THEN creation[w]
  ELSE [creation[w] EXCEPT !.state = "rejected"]

\* The save ends: a "Save and continue" that waits for it learns how.
Settle(w, outcome) ==
  /\ saving' = [saving EXCEPT ![w] = None]
  /\ guard' = IF guard[w] # None /\ guard[w].step = "saving"
              THEN [guard EXCEPT ![w].step = outcome] ELSE guard

\* Mutant: the content is taken as clean without a look at what was edited meanwhile.
AcknowledgeAnyway(w, b) ==
  copy' = [copy EXCEPT ![w].binding = b, ![w].base = b.revision,
                       ![w].baseline = saving[w].snapshot, ![w].state = "clean"]

\* The receipt of a save, for a copy that is still the one that was saved.
Acknowledge(w, b) ==
  copy' = [copy EXCEPT ![w].binding = b, ![w].base = b.revision,
                       ![w].baseline = saving[w].snapshot,
                       ![w].state = IF Matches(w) THEN "clean" ELSE "dirty"]

\* A create answered for an older payload: save the newer content over it.
FollowUp(w) ==
  /\ saving[w] # None /\ saving[w].answer # None
  /\ saving[w].answer.status = "saved"
  /\ saving[w].request.revision = 0
  /\ saving[w].request.text # saving[w].snapshot
  /\ LET b == saving[w].answer.binding
     IN /\ creation' = [creation EXCEPT ![w].binding = b]
        /\ saving' = [saving EXCEPT ![w].answer = None,
                                    ![w].request = Put(b, saving[w].snapshot, b.revision)]
  /\ UNCHANGED <<project, history, stray, copy, session, guard, opening, edits, upsets>>

SaveAnswered(w) ==
  /\ saving[w] # None /\ saving[w].answer # None
  /\ saving[w].answer.status = "saved"
  /\ saving[w].request.revision > 0 \/ saving[w].request.text = saving[w].snapshot
  /\ creation' = [creation EXCEPT ![w] = None]
  /\ IF IsCurrent(w) THEN Acknowledge(w, saving[w].answer.binding) ELSE UNCHANGED copy
  /\ Settle(w, "saved")
  /\ UNCHANGED <<project, history, stray, session, opening, edits, upsets>>

\* A conflict and a refusal leave the binding as it was.
AfterFailure(w) ==
  [copy[w] EXCEPT !.state =
     IF saving[w].answer.status = "unreachable" THEN "offline"
     ELSE IF saving[w].answer.status = "conflict" THEN "conflict"
     ELSE "failed"]

SaveFailed(w) ==
  /\ saving[w] # None /\ saving[w].answer # None
  /\ saving[w].answer.status # "saved"
  /\ creation' = [creation EXCEPT ![w] =
       IF IsCurrent(w) THEN Released(w, saving[w].answer.status) ELSE None]
  /\ copy' = IF IsCurrent(w) THEN [copy EXCEPT ![w] = AfterFailure(w)] ELSE copy
  /\ Settle(w, "failed")
  /\ UNCHANGED <<project, history, stray, session, opening, edits, upsets>>

----------------------------------------------------------------------------
(* Replacing the working copy *)

NewProject ==
  [live |-> Blank, state |-> "unbound", binding |-> None, baseline |-> None, base |-> 0]
Opened(id) ==
  [live |-> project[id].text, state |-> "clean", binding |-> Current(id),
   baseline |-> project[id].text, base |-> project[id].revision]
\* The baseline and the binding of the moment the question is asked
Reverted(w) ==
  [live |-> copy[w].baseline, state |-> "clean", binding |-> copy[w].binding,
   baseline |-> copy[w].baseline, base |-> copy[w].base]

Replacements(w) ==
  {NewProject} \cup (IF copy[w].baseline # None /\ Dirty(w) THEN {Reverted(w)} ELSE {})

\* replaceActiveProject; a create of the old Project is kept only while its save runs
Install(w, next) ==
  /\ session[w] < MaxSessions
  /\ session' = [session EXCEPT ![w] = @ + 1]
  /\ copy' = [copy EXCEPT ![w] = next]
  /\ creation' = IF saving[w] = None THEN [creation EXCEPT ![w] = None] ELSE creation

\* No question, or a new one: either outdates the one that is being saved for.
ReplaceNow(w, next) ==
  /\ Install(w, next)
  /\ guard' = IF guard[w] # None /\ guard[w].step # "asked"
              THEN [guard EXCEPT ![w].fresh = FALSE] ELSE guard

Ask(w, next) ==
  /\ guard' = [guard EXCEPT ![w] =
       [next |-> next, fresh |-> guard[w] = None \/ guard[w].step = "asked",
        step |-> IF guard[w] = None THEN "asked" ELSE guard[w].step]]
  /\ UNCHANGED <<copy, session, creation>>

\* guardDirtyReplacement, as createNewProject and revertToSavedProjectBaseline call it
Replace(w) ==
  /\ \E next \in Replacements(w) :
       \/ ~Unsafe(w) /\ ReplaceNow(w, next)
       \/ Unsafe(w) /\ Ask(w, next)
  /\ UNCHANGED <<project, history, stray, saving, opening, edits, upsets>>

\* openCloudProjectById, which the page calls at most once, when no work is unsaved
BeginOpen(w) ==
  /\ opening[w].step = "ready"
  /\ ~Dirty(w)
  /\ upsets < MaxUpsets
  /\ upsets' = upsets + 1
  /\ opening' = [opening EXCEPT ![w] =
       [step |-> "fetching", live |-> copy[w].live, next |-> None]]
  /\ UNCHANGED <<project, history, stray, copy, session, saving, creation, guard, edits>>

\* The store's answer; or there is none, no such Project, or it does not parse.
Fetched(w) ==
  /\ opening[w].step = "fetching"
  /\ \/ \E id \in Ids :
          /\ Exists(id)
          /\ opening' = [opening EXCEPT ![w].step = "fetched", ![w].next = Opened(id)]
     \/ opening' = [opening EXCEPT ![w] = OpenIs("done")]
  /\ UNCHANGED <<project, history, stray, copy, session, saving, creation, guard, edits, upsets>>

\* The fetched Project is staged.  guardDirtyReplacement never asks here: it reads the
\* persistenceState of the render in which the open began, when no work was unsaved.
InstallOpened(w) ==
  /\ opening[w].step = "fetched"
  /\ ReplaceNow(w, opening[w].next)
  /\ opening' = [opening EXCEPT ![w] = OpenIs("done")]
  /\ UNCHANGED <<project, history, stray, saving, edits, upsets>>

Cancel(w) ==
  /\ guard[w] # None /\ guard[w].step = "asked"
  /\ guard' = [guard EXCEPT ![w] = None]
  /\ UNCHANGED <<project, history, stray, copy, session, saving, creation, opening, edits, upsets>>

\* confirmReplaceGuard: the user gives the work up.
Discard(w) ==
  /\ guard[w] # None /\ guard[w].step = "asked"
  /\ Install(w, guard[w].next)
  /\ guard' = [guard EXCEPT ![w] = None]
  /\ UNCHANGED <<project, history, stray, saving, opening, edits, upsets>>

\* saveAndContinueReplaceGuard up to its await; it starts a save or joins the one in flight.
SaveAndContinue(w) ==
  /\ guard[w] # None /\ guard[w].step = "asked"
  /\ guard' = [guard EXCEPT ![w].step = "saving"]
  /\ \/ StartSave(w)
     \/ saving[w] # None /\ UNCHANGED <<copy, saving, creation>>
  /\ UNCHANGED <<project, history, stray, session, opening, edits, upsets>>

\* Mutant: a save that succeeded is enough.
ContinueIfSaved(w) == guard[w].step = "saved" /\ guard[w].fresh

MayContinue(w) ==
  /\ guard[w].step = "saved"
  /\ guard[w].fresh
  /\ copy[w].baseline # None
  /\ copy[w].live = copy[w].baseline

\* and after it
Continue(w) ==
  /\ guard[w] # None /\ guard[w].step \in {"saved", "failed"}
  /\ \/ /\ MayContinue(w)
        /\ Install(w, guard[w].next)
        /\ guard' = [guard EXCEPT ![w] = None]
     \/ /\ ~MayContinue(w)
        /\ guard' = [guard EXCEPT ![w].step = "asked", ![w].fresh = TRUE]
        /\ UNCHANGED <<copy, session, creation>>
  /\ UNCHANGED <<project, history, stray, saving, opening, edits, upsets>>

\* refreshApp: the page is loaded anew from its recovery record; saves and creates are forgotten.
Reload(w) ==
  /\ upsets < MaxUpsets
  /\ upsets' = upsets + 1
  /\ copy' = [copy EXCEPT ![w] =
       LET bound == ~Dirty(w) /\ copy[w].binding # None
       IN [@ EXCEPT !.state = IF bound THEN "clean" ELSE IF Dirty(w) THEN "dirty" ELSE "unbound",
                    !.baseline = IF bound THEN copy[w].live ELSE None]]
  /\ saving' = [saving EXCEPT ![w] = None]
  /\ creation' = [creation EXCEPT ![w] = None]
  /\ guard' = [guard EXCEPT ![w] = None]
  /\ opening' = [opening EXCEPT ![w] = OpenIs("done")]
  /\ \/ UNCHANGED stray
     \/ /\ saving[w] # None /\ saving[w].answer = None
        /\ stray' = stray \cup {saving[w].request}
  /\ UNCHANGED <<project, history, session, edits>>

----------------------------------------------------------------------------
(* The shelf, on any device of the account *)

Delete(id) ==
  /\ upsets < MaxUpsets
  /\ upsets' = upsets + 1
  /\ Exists(id)
  /\ project' = [project EXCEPT ![id] = [revision |-> 0, text |-> Blank, versions |-> {}]]
  /\ UNCHANGED <<history, stray, copy, session, saving, creation, guard, opening, edits>>

\* A kept version is sent through Save with the revision that the shelf shows.
RestoreVersion(id) ==
  /\ upsets < MaxUpsets
  /\ upsets' = upsets + 1
  /\ \E v \in project[id].versions :
       stray' = stray \cup {Put(Current(id), history[id][v].text, project[id].revision)}
  /\ UNCHANGED <<project, history, copy, session, saving, creation, guard, opening, edits>>

\* A window that is not among Windows sends a save made on the current revision.
SaveElsewhere(id) ==
  /\ upsets < MaxUpsets
  /\ upsets' = upsets + 1
  /\ Exists(id)
  /\ \E text \in Contents \ {Blank, project[id].text} :
       stray' = stray \cup {Put(Current(id), text, project[id].revision)}
  /\ UNCHANGED <<project, history, copy, session, saving, creation, guard, opening, edits>>

----------------------------------------------------------------------------
\* Some Projects were saved before, and each window has one of them open or is blank.
Init ==
  /\ \E old \in 0..MaxShared, text \in Contents \ {Blank} :
       /\ project = [id \in Ids |-> [revision |-> IF id <= old THEN 1 ELSE 0,
                                    text |-> IF id <= old THEN text ELSE Blank, versions |-> {}]]
       /\ history = [id \in Ids |-> IF id <= old THEN <<[text |-> text, base |-> 0]>> ELSE <<>>]
  /\ stray = {}
  /\ copy \in [Windows -> {NewProject} \cup {Opened(id) : id \in {i \in Ids : Exists(i)}}]
  /\ session = [w \in Windows |-> 0]
  /\ saving = [w \in Windows |-> None]
  /\ creation = [w \in Windows |-> None]
  /\ guard = [w \in Windows |-> None]
  /\ opening = [w \in Windows |-> OpenIs(IF copy[w] = NewProject THEN "ready" ELSE "done")]
  /\ edits = 0
  /\ upsets = 0

Next ==
  \/ \E w \in Windows :
       \/ \E text \in Contents \ {Blank} : Edit(w, text)
       \/ Save(w) \/ Served(w) \/ LoseCall(w)
       \/ FollowUp(w) \/ SaveAnswered(w) \/ SaveFailed(w)
       \/ Replace(w) \/ BeginOpen(w) \/ Fetched(w) \/ InstallOpened(w)
       \/ Cancel(w) \/ Discard(w) \/ SaveAndContinue(w) \/ Continue(w)
       \/ Reload(w)
  \/ ServeStray
  \/ \E id \in 1..MaxShared : Delete(id) \/ RestoreVersion(id) \/ SaveElsewhere(id)

Spec == Init /\ [][Next]_vars

----------------------------------------------------------------------------
Revisions(id) == 1..Len(history[id])

\* Types of the store, the windows and what is between them.
TypeOK ==
  /\ project \in [Ids -> [revision : 0..MaxRevisions, text : Contents,
                          versions : SUBSET (1..MaxRevisions)]]
  /\ \A id \in Ids : Exists(id) => project[id].revision = Len(history[id])
  /\ stray \subseteq Request
  /\ copy \in [Windows -> Copy]
  /\ session \in [Windows -> 0..MaxSessions]
  /\ saving \in [Windows -> Saving \cup {None}]
  /\ creation \in [Windows -> Creation \cup {None}]
  /\ guard \in [Windows -> Guard \cup {None}]
  /\ opening \in [Windows -> Opening]
  /\ edits \in 0..MaxEdits /\ upsets \in 0..MaxUpsets

(* A window that says "clean" shows the very content that the store took   *)
(* under the revision the window is bound to: whatever was edited, undone, *)
(* reverted, replaced or reloaded while a save was on its way, and however *)
(* many of its answers were lost (the receipt of performProjectSaveToCloud,*)
(* the effect on edits, replaceActiveProject, the refresh).                *)
CleanIsStored ==
  \A w \in Windows : copy[w].state = "clean" =>
    /\ copy[w].binding # None
    /\ LET b == copy[w].binding
       IN b.revision \in Revisions(b.id) /\ history[b.id][b.revision].text = copy[w].live

(* Every revision after the first was made from the revision before it: no *)
(* save, late request, retried create or restored version ever buries a    *)
(* revision that its author had not loaded or written.                     *)
NothingBuried ==
  \A id \in Ids : \A n \in Revisions(id) : n > 1 => history[id][n].base = n - 1

InStore(text) == \E id \in Ids : \E n \in Revisions(id) : history[id][n].text = text

\* What the restore replaces was drawn or opened since it began.
ChangedSince(w) == InstallOpened(w) /\ opening[w].live # copy[w].live

SavedOrGivenUp ==
  \A w \in Windows :
    session'[w] # session[w] /\ copy'[w].live # copy[w].live /\ ~Discard(w) =>
      copy[w].live = Blank \/ InStore(copy[w].live) \/ ChangedSince(w)

(* A working copy is replaced without the user giving it up only if it is  *)
(* blank or its exact content was committed to the store: "Save and        *)
(* continue" never drops what was edited while its save ran, nor trusts a  *)
(* save of another Project it joined, and the restore of the recent        *)
(* Project never drops what the window showed when it began.  What was     *)
(* drawn during its fetch is the exception: the code does not look at it.  *)
ReplacementKeepsWork == [][SavedOrGivenUp]_vars
=============================================================================
