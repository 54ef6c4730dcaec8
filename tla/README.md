# Analog Canvas in TLA+

Analog Canvas is a schematic editor with a worker backend (Durable Objects),
simulator containers, a desktop shell and an agent interface. Most of its code
is sequential geometry, netlisting and rendering. This directory specifies the
part that is concurrent, distributed or long-lived: who may run what, what
survives a lost message or a restart, and what its users are promised.

Read it with the repository at hand: each module names the files it models, and
`PROJECT.json` gives the lines of every definition.

## 1. Inventory

### Managed simulation control plane (modelled)

*Code.* `worker/simulation-control-do.ts` (the control object),
`worker/simulation-operations.ts` (routes and job consumer),
`packages/simulation-service/src/managed-run.ts` (the record).

*State.* One row per run (state, attempt, lease, deadlines, error advice), start
requests by owner and identity, the switch `accepting`, the object's one alarm and
its in-memory beliefs about it (`executing`, `alarmScheduled`), long-polling
readers; queue messages; `response.json` in object storage.

*Operations.* accept, read with and without waiting, list, transition
(lease-acquired, completed, cancel-requested, infrastructure-failed,
lease-expired), operator's switch, alarm and dispatch; start and cancel
routes; the consumer from delivery to acknowledgement.

*Interaction.* A job reaches the consumer by a queue (at least once) or by the
object's own alarm. The consumer calls the control object, object storage and,
through a gateway, the executor.

*Hard.* Two deliveries of one run; every call can be lost before or after it was
applied; a snapshot decides what happens three awaits later; a refused attempt
is requeued while an older request may be travelling; an alarm handler's object
restarts under it; deadlines pass anywhere.

*Correct when* no run is executed twice, advice to retry is given only when
nothing ran, what is recorded has happened, a settled run stays settled, one run
holds the slot, a request names one run, limits bound an owner, a reader is
woken, and every accepted run comes to an end.

### Simulator executors (modelled)

*Code.* `containers/ngspice/run-supervisor.mjs`, `containers/ngspice/entrypoint.mjs`;
`containers/vacask/http-server.mjs`, `run-job.mjs`, `run-process.mjs`, `entrypoint.mjs`.

*State.* One lease (phase, child, reason, process timer, hard timer), remembered
cancelled tokens, boot, shutdown, the process groups.

*Operations.* /run, /cancel, shutdown; staging, spawn, exit, settle, collect,
cleanup; the timers; the harness's own end and restart.

*Hard.* A cancel between check and admission, admission and spawn, exit and
detachment; steps that hang; cleanup that fails; a process that outlives its
signal.

*Correct when* there is at most one process, a cancel holds wherever it came in,
answers are true, shutdown leaves nothing, and the slot always comes back.

### Duplicate check (topology task, modelled in part)

*Code.* `worker/topology-task.ts`; its client `gallery-topology-task.ts`.

*State.* One stored record per account with a revision, one alarm; the handler's
copy across Gallery reads; each tab's last record.

*Hard.* The copy is written back after awaits during which requests are
admitted; eviction inside a batch; failures in a row.

*Correct when* a check survives eviction, ends, never loses progress, its private
drawing is removed, a cancel stops it, and a tab is told of every change.

### Regional Cloud Project replication (modelled in part)

*Code.* `worker/project-sync-journal.ts` (the journal of a region),
`regional-projects.ts` (what its users do), `project-sync.ts` (the pump),
`project-quota.ts` (grants).

*State.* Per region: the version nodes and active heads of every Project, what the
shelf shows, the outbox, the receipts of the peer's changes, what the peer
acknowledged, the furthest receipt a peer ever showed (the floor), the fence (in
memory only), reservations of the quota.

*Operations.* create, save, resolve, delete, capture of older Projects; record,
receive, materialize, reconcile, acknowledge; the pump's pull, status, export and
delivery; a grant and its use; restart, backup, restore.

*Interaction.* One region (China) pulls from and posts to the other; a creation
there needs a grant of the authority overseas.

*Hard.* Replies are lost and requests come after they were given up; `reconcile`
awaits hashes between reading the floor and setting the fence; a region comes
back with older storage; both regions edit, delete and create at once.

*Correct when* each direction is a stream nobody reissues, heads are the versions
nobody built on, the shelf shows them, regions that have everything of each other
agree, the quota holds over both, and they do catch up.

### Agent session relay (modelled in part)

*Code.* `packages/agent-client` (retries), `worker/agent-session-do.ts` over
`packages/agent-adapter/src/session-state.ts` (the relay),
`apps/editor/src/agent` (the page).

*State.* Request ledger and results in memory and in storage, handlers waiting for
an editor, sockets with their messages, the page's own table of requests.

*Operations.* begin, forward, complete, time out, evict, pause, resume,
disconnect, restart; connect, handle, answer, reload; the client's send, loss,
retry.

*Hard.* A timeout races the answer; the socket is replaced or closed under
forwards; an oversized message; a restart between two steps of the end; a retry
that meets any of these.

*Correct when* a write whose result was taken never runs again, an answer is of the
payload that was sent, and an ended session leaves nothing.

### Cloud Save and the editor's working copy (modelled in part)

*Code.* `worker/gallery-store-cloud-projects.ts`, `worker/gallery-cloud-projects.ts`;
`apps/editor/src/document/use-project-file-lifecycle.ts` with the coordinator and the
client beside it.

*State.* Rows with a revision and displaced versions; per window the live Project,
its binding, baseline and state, the save in flight, the pending creation, the
guard's question, and what an open that began knew of the live Project.

*Operations.* create, conditional update in two decisions, delete, restore of a
version; edit, save, follow-up, guarded replacement (discard, save and continue,
cancel), revert, reload, the open of the recent Project when the page starts.

*Hard.* Edits, a replacement or a revert during a save; edits while a Project that
will replace the live one is fetched; an acknowledgement that was lost; requests that
arrive late; another device.

*Correct when* "clean" is true, no revision is buried unseen, and no work is replaced
unsaved without consent.

### Desktop files (modelled in part)

*Code.* `apps/desktop/src/project-files.ts`, `project-history.ts`.

*State.* The file, its version history with the journal of an unfinished write, the
marker of an unfinished creation, the receipts of a creation and of a Save As, the
recycle area, what the open Project last read or wrote.

*Hard.* A crash or failure between journal, rename and finish; other programs
writing between comparison and rename; a first save or a Save As that is repeated
after other writes came in between.

*Correct when* history never invents a version, the open Project's grant is
current, and no step drops a content but by rotation and in the named ways.

### Not modelled, with a protocol

| Component | State and operations | Hard | Why not |
|---|---|---|---|
| Resource replication: `worker/resource-replica.ts`, `resource-sync.ts` | keyed rows with an owning region, cursor, receipts | gaps, replays, a restored peer (`resource-replica.ts:334`) | its cursor repeats `ProjectSync`, with one owner per key in place of version heads; first in the plan |
| Accounts and regional sessions: `worker/auth-do.ts`, `regional-session.ts` | accounts, sessions, one-time grants | rotation and replay across regions | validation and cryptography around single-object transactions |
| Component library: `worker/component-library-do.ts` | definitions with revisions, receipts of idempotent saves | a digest is awaited before the receipt is read (line 129) | small; second in the plan |
| Long-polls of managed runs (`simulation-control-do.ts:217`) are modelled; their client `managed-hosted-executor.ts` and the in-memory registry are not | polling, retries, records of one process | other callers of the modelled record | its retries obey the record's advice, which is modelled |
| Edit engine: `packages/edit-engine` | document, undo and redo stacks, transactions | long legal sequences | 83 thousand lines of sequential geometry; its data is out of TLC's reach |

### Not modelled, without a protocol

Gallery, arena and boards (single-row transactions and pages), netlists, devices,
symbols, SPICE text and renderers (pure functions of documents), the canvas user
interface, MCP server, local host and PowerPoint adapters, backup calls,
deployment, generated data and repository scripts. `PROJECT.json` lists them with
the reason.

The hazards of all these, with the line where each bites and the properties that
answer it, are in `PROJECT.json`.

## 2. Modules

```
RunPromise <= SimulationControl -- ManagedRun        ExecutorSlot <= RunSupervisor
ReplicatedStream <= ProjectSync                      TopologyTask
AgentSession                CloudSave                DesktopFiles

A <= B   B implements A (INSTANCE A WITH ...)        A -- B   A EXTENDS B
MC<M>    instantiates M for TLC                      <M>_proofs   theorems about M
```

A definition headed "broken variant" is used by no specification: it states one
plausible bug of the definition before it, and shows that a property would notice.
An action is a whole handler, or the part of one between two awaits.

| Module | Stands for | State and actions in terms of the code |
|---|---|---|
| `ManagedRun` | `managed-run.ts` | `After(run, event)` is `transitionManagedRun`; `ManagedRunExpiration` the expiry rules. A thrown error is "no change". Deadlines count down in `timer`. |
| `SimulationControl` | control object, routes, job consumer | A storage transaction is one action; every await separates two. `work[c].pc` says where the consumer stands: *read* (record read), *find* (`response.json` looked for), *recover* (a stored result reported again), *retire* (lease-expired reported), *lease* (lease-acquired), *input*, *missing* (`request.json` read, its absence reported), *wait* (the executor), *refuse* (a retryable refusal reported), *store*, *settle* (`response.json` put, run settled), *catch*, *catch-sent* (the catch block before and after dispatch). `ControlUnavailable` loses a call before or after it was applied, `LoseReply` ends the executor call, `Receive` may deliver again, `BodyRead` lets the alarm that a POST relied on fire before its body is read (`Arrives` is one whose body never comes), `ObjectRestart` clears the object's memory, `ConsumerCrash` ends a consumer. `executed` and `outcome` are history. |
| `RunPromise` | what an owner is promised | accepted, started at most once, decided once; a run lapses undecided only if it never started. |
| `RunSupervisor` | the supervisor and both harnesses | Node runs one callback at a time, so a callback is an action; the process ends beside it (`ProcessEnds`, then `ExitEvent`, `Settle`). `kind` is the harness. Timers count down; a due one fires before time goes on. |
| `ExecutorSlot` | what `SimulationControl` relies on | the slot holds one request at a time and a request at most once; a refusal means it never did; *cancelled* is answered only where somebody asked. |
| `TopologyTask` | the duplicate check of an account | `job` is stored, `copy` is what the handler writes back; a post arrives (`PostArrives`) and is admitted later (`PostAccepted`). Every start has a new identity, as `randomUUID` gives it. |
| `ProjectSync` | journal, users, pump and quota of both regions | Capture of an older Project and the operation that follows it are two actions, as they are two calls. A head stands for content and hash. A restore may be limited to moments when nothing is under way (`Quiet`). |
| `ReplicatedStream` | one direction of the replication | issue, receive the next event, and the declared fallback of a restored region. |
| `AgentSession` | client library, relay, page | Awaits on the object's own storage hold its input gate, so handlers are cut only where they await a hash, the editor or the bucket. |
| `CloudSave` | Cloud Projects of one region, the windows of an account | A server request is decided in the steps the worker takes (read, conditional write). `SaveElsewhere`, `RestoreVersion`, `Delete` are other devices. The open at the start of a page is cut at its awaits: `BeginOpen` finds no unsaved work, `Fetched` has the Project, `InstallOpened` replaces the live one by the state of the render it began in. `base` and `history` are ghosts. |
| `DesktopFiles` | one library file with its history | Each durable step (archive, receipt, journal, rename, finish, marker) is an action that may fail or be the last before a crash; other programs write or delete in between. `RepeatSaveAs` is a Save As whose receipt is still there: it asks nobody and archives nothing. |

What each leaves out:

- `SimulationControl`: authorization, the content of requests and results, the
  long-poll's timing (a reader is woken or times out). A `failed` result carries no
  recovery of its own, as no executor sends one (`simulation-operations.ts:815-817`).
- `RunSupervisor`: output parsing, file names, limits on size, the data a failed cleanup
  leaves. A process group is its leader: its other members are killed and not awaited.
- `TopologyTask`: the comparison of drawings; a revision is a number.
- `ProjectSync`: several owners, changes of epoch, creation intents, protected
  identifiers, cohorts, the 507 answer of a full store. A key that both regions
  create ends as `resource-collision` in the code; `Creates` gives each region keys
  of its own. Delivery status is only *retry* or *idle*.
- `AgentSession`: claims, tokens and scopes, the deadline of a request given by its
  caller, the expiry alarm, rate limits, reads, file, simulation and Project requests,
  a change of browser context, events and artifacts, the endings other than DELETE
  (revocation and replacement of the Project). A host that throws and a reply too large
  for the cache are one failure.
- `CloudSave`: the binding to regional Projects (`PROJECTS`), Save As, exports and
  publications, pending source edits, crash recovery, tabs inside a window, favourites.
  Other opens of a Cloud Project go into a tab of their own and replace nothing; files,
  examples and Gallery circuits that are opened come with their own awaits.
- `DesktopFiles`: recent files and authorizations, moves of the recycle area, purge,
  copies and branches, directories, the renderer's own revision number, allocations without
  a key. Of the receipts of a Save As the last one is kept. Reserving a
  name for a new file and allocating it are one step. Creating a file anew over a deleted one
  starts its history anew (`project-history.ts:120-123`); `WorkIsKept` exempts it.

## 3. Runs

| Run | Instance | Shows |
|---|---|---|
| `sim_slots` | 2 runs of 1 owner, 2 request identities, 2 payloads, 1 consumer, 1 attempt | one active run; a request names one run |
| `sim_queue` | 1 run, 2 concurrent deliveries, 2 attempts, cancels, operator's switch | executed at most once; retry advice is safe; outcomes have evidence; `RunPromise` |
| `sim_live` | alarm dispatch and one queue delivery from before the switch, 2 attempts, fair | every run settles; an alarm is stored while anything can change |
| `sup_harness` | 2 attempts under one token, another token, timeouts 2 and 1, grace 1, tokens remembered for 4, 1 token at a time, fair, each harness | one process; cancels hold; answers are true; shutdown is clean and ends; the slot returns; `ExecutorSlot` |
| `topo_check` | 2 checks, 1 tab, 3 entries in batches of 2, 2 failures, 3 revisions, fair | a record is always removed; a running check ends unless it was stopped and written back |
| `topo_cancel` | 1 check, 2 entries, 6 revisions | *violated*: a cancel stops the check |
| `sync_quota` | each region creates 1 Project, limit 1, 2 events a region, late posts, restarts, no restore, fair | shelves are true; regions converge; the quota holds; regions catch up |
| `sync_restore` | 1 older Project, 2 events a region, 1 restore of either region while nothing is under way | evidence fences; heads are leaves; `ReplicatedStream` in both directions |
| `sync_fence` | as before, a restore at any time and a late pull | *violated*: evidence fences |
| `agent` | 2 calls that share an ID and differ in payload, one retries after a network and an offline error, one large result, 3 sockets, 2 pages, 1 upset | nothing taken runs again; answers are of the own payload; an end is final |
| `cloud` | 1 window, 3 contents, 1 Project, 3 revisions, 1 version kept, 2 edits, 2 sessions, 2 upsets | clean is stored; nothing buried; a replacement drops no work but what was drawn while an open was under way |
| `desktop` | 3 contents, 1 version kept (the code keeps 3) | nothing invented; the grant is current; no content dropped |

**Why these bounds.** Two deliveries make every race of the consumer, a third only
repeats one of them; two attempts make one requeue, after which a third is refused by
the same test. Two runs compete for one slot, two request identities and payloads
make every answer of admission. Two events a region are the least with an order and a
conflict; one restore the least with evidence of a lost event. Three entries in
batches of two make a full batch, a rest and an eviction between them. One kept
version makes a history, a rotation and an archive of both; the order of versions is
left to the theorems, which hold for any number (with two TLC finds no error either, in
seven million states). The open at the start of a page counts as one of the two upsets of `cloud`. Where the bound could hide something, the safety property
is also proved for all values (section 4).

Deadlock is checked except in `agent` and `cloud`: an ended session with no call left,
and a window whose edits and sessions are used up, really stop.

**Fairness** is stated for what the platform runs by itself and for nothing a user or
another machine does.

- `SimulationControl`: time, a stored alarm (Durable Object alarms are retried), the
  steps of the dispatcher's own handler once it runs, the end of its alarm handler, and
  `LoseReply`, because every executor call carries an abort timeout. No call has to succeed.
- `RunSupervisor`: weak fairness of time and of the two timers only. Staging, spawning,
  settling and collecting may hang for ever; this is what the hard timer is for.
- `TopologyTask`: weak fairness of the alarm, strong fairness of the Gallery's answers
  (`Inventory`, `EntryReplies`, `EntryBody`): a handler that is evicted again and again is
  still answered at some time. Failures need no fairness: a limit ends a check that only fails.
- `ProjectSync`: weak fairness of the pump's tick (its alarm), of the arrival of a post and
  of a hash that was begun. Losses are bounded only in the sense that requests which keep
  being sent keep arriving.

## 4. Proofs

Everything here holds for every value of the constants under the named assumptions:
`PolicyAssumption`, `ControlAssumption`, `SupervisorAssumption` (with MaxTimeout + Grace < Remember, as the
code's constants have it), `TaskAssumption`, `SyncAssumption`, `CallsAssumption`,
`BoundsAssumption` and `NoneAssumption`, `CloudSaveAssumption`, `DesktopFilesAssumption`.
They say that limits are numbers, that some sets are finite, that the alarm's retry is not
later than the alarm, and that the values for "none" are not in the sets they stand beside. Every safety invariant, action property and refinement that a
passing run checks has a theorem.

**Control plane.** Types need `LeaseInv`: an active run has a lease, a consumer between
read and report has one, and one that recovers has a stored result. `ExecutedAtMostOnce` and
`RetryAdviceIsSafe` need `ExecutionInv`: nobody holds an attempt of a run that its record calls
fresh (`HoldersOwn`), one consumer at most holds a run (`OneHolder`), at most one request of it
is under way, and none once it was executed (`SentOnce`), a fresh run was not and cannot be
executed (`FreshIsUnsent`), and neither can one whose holder will report a refusal
(`RefusalIsProven`). Without the last the requeue of a refused attempt is not safe: an older
request could be travelling. `MaintenanceScheduled` needs that what the object believes of its alarm
is never more than what is stored, and that a handler that runs has its recovery alarm
(`AlarmBelief`); no request adds a row without `wakeDispatcher`. `RequestNamesOneRun` needs that a run
is accepted for exactly one request (`RequestInv`). `OutcomeIsEvidenced` and the refinement
need `EvidenceInv`: a holder's attempt is the record's latest; it stores one result for it;
each verdict has its evidence (`RunEvidence`, `VerdictEvidence`, `HolderEvidence`); a run that
never started shows it (`Unstarted`); a run recorded as cancelled was stopped by its
cancel or never started (`CancelEvidence`). `KeepsPromise` maps a run's state to a fate and `executed` to `started`; each
transition is a move of `RunPromise` or a stutter.

**Executors.** `SupervisorInv` is types, the shape of the lease in every phase (`LeaseShape`),
what the lease says of its request and process (`LeaseOwns`), that a harness that is down has
neither (`DownIsEmpty`), and that a cancelled token is remembered while it is due and a run in
preparation knows of its cancel (`TokensKept`); the four promises are part of it, and the
refinement `SlotIsKept` rests on it.

**Duplicate check.** `TaskInv`: a record fits its inventory, and a running one has candidates
and tries left (`Fits`); the handler's copy is of such a check while an alarm is stored (`Working`).

**Desktop files.** `DesktopInv`: what the journal holds, and that one which empties the history
has its content archived, with the history unless it is of a repetition (`JournalShape`); what
each step of an operation knows of file and journal (`StepShape`), where the contents of the
history come from (`Displaced`), what is archived before a receipt names it (`Archived`), and, while no other program
writes, that file, grant and history agree (`GrantHolds`, `Undisturbed`).

**Cloud Save.** `CloudInv`: every revision was made from the one before it and the row shows
the last (`Store`), a request at the worker names the revision its sender had (`GoodRequest`),
and a window's baseline and the receipt it is about to take are in the store (`GoodWindow`).
`OpenInv` is its part for an open under way: what it found live when it began, and what it
fetched, are in the store (`GoodOpening`).

**Agent session.** `AgentInv` has one part per actor: client (`ClientOk`), relay (`RelayOk`),
messages (`WireOk`), page (`PageOk`), and what the ghosts say of them (`TruthOk`).

**Replication.** `SyncInv` holds with restores: types; the version graph of a region is
acyclic and its leaves are the active heads (`Graph`); an event is named by its region and
place; what travels is well formed and so named (`WireOk`); a backup is an earlier state (`BackupOk`).
`HeadsAreLeaves` follows.

With restores that wait until nothing is under way (`Quiet`, as `sync_restore` has it), or
with none, `FenceInv` is inductive beside it: a region either holds all that its peer has or
shows of it (`Within`), or it is fenced, no verdict under way will open it, and the next receipt it is
shown leaves the evidence (`Beyond`); and what it issued and what its peer holds never
differ where both have an event (`Consistent`). `EvidenceFences` follows, and that both
directions implement `ReplicatedStream`: an open region issues, a holder takes what is next, a
region opens only when its peer holds no more than it issued, a restored one falls back. For other restores the
theorem would be false; `sync_fence` shows the step.

Without restores there is more:

- `AgreeInv`: what travels is true (`Genuine`, `WireTrue`), an inbox is a prefix of the
  peer's outbox (`Agreed`), a version a region issued before another of the same Project was
  built on by then (`Superseded`), the shelf shows heads (`Shelf`). `ShelfIsTrue`, `Converged` and
  `AckedIsHeld` follow.
- `QuotaInv`: what the authority charged (`Charged`) and promised (`Promised`) stays within
  the limit for every earlier length of its outbox (`Budget`), because the peer may have seen
  only that much; a grant that travels is backed by a promise (`Vouched`).

## 5. Only model-checked

Liveness is out of the prover's reach (it needs ENABLED): `EveryRunSettles`,
`SlotIsReturned`, `ShutdownSettles`, `EveryCheckEnds`, `RegionsCatchUp`.

The theorems of `ProjectSync` that assume no restore (`ShelfIsTrue`, `Converged`, `QuotaHolds`,
and `AckedIsHeld`, which no run checks)
say what the run `sync_quota` checks. With a quiet restore TLC finds no violation of the
first two on the instance of `sync_restore`, but they are not proved there: after a restore `Agreed`
no longer holds.

## 6. What the work met

Two disagreements have a run.

- `topo_cancel`: a cancel that lands while the inventory or a drawing is read is overwritten
  by the handler's copy (`topology-task.ts:214-219`, `238`).
- `sync_fence`: `reconcile` sets the fence from a verdict it computed before it awaited a hash
  (`project-sync-journal.ts:613-633`); a late pull opens a store that a newer receipt fenced.

The models follow the code in these as well; no property of a run rests on the other reading.

- Managed runs. A lost executor reply is recorded as `failed`, where `simulation-execution.md`
  says infrastructure-failed. `lease-expired` names no lease, so a slow delivery can retire
  a newer attempt. A requeued run skips the admission test (`managed-run.ts:263-277`;
  `simulation-execution.md:263-264`). With queue dispatch, an alarm that fires into an
  empty store between `ensureAlarm` and the admission of a request whose body is slow
  (`simulation-control-do.ts:72,145,157`) leaves the accepted run with no alarm until the
  next request; `MaintenanceScheduled` says so for alarm dispatch only.
- Executors. A success that ends between exit and detachment is reported as cancelled when a
  cancel comes in there.
- Duplicate check. Two starts that await together are both accepted (`topology-task.ts:115,133`;
  `community-gallery.md:714`), and two stored records can carry one revision.
- Agent session. An exact retry is documented to join the pending request and is answered
  `REQUEST_IN_PROGRESS`; after a change of context it is `REQUEST_ID_REUSED`. "At most once"
  (`session-state.ts`) holds of results that were taken: an uncertain write that is
  retried after the page was reloaded runs again. A crash between revoke and
  `deleteAll` brings an active session back.
- Cloud Save. Without `PROJECTS` a create gets a fresh identifier, so one that is retried after
  a lost acknowledgement makes a second Project. "Save and continue" on a Revert uses the
  baseline and binding of the moment it asked, so the next save can conflict with its own.
  A repeated Save joins a save in flight even of another session. Edits that are drawn while
  the recent Project is fetched at the start of the page are replaced without a question
  (`use-project-file-lifecycle.ts:254-298,999,1012`), where
  `persistence-and-recovery.md:150-154` says "Before replacing dirty work the editor flushes a
  recovery write, then offers" to save, continue or stay; `ReplacementKeepsWork` names these.
- Desktop files. A Save As of one content over another is interrupted after its receipt, a
  third is saved, the second is restored, and the Save As is repeated: the third is then in no
  file, history or archive (`project-files.ts:738-748,766-772`), where
  `persistence-and-recovery.md:187-188` says "Overwriting another saved Project archives it to
  the recoverable recycle area"; `WorkIsKept` names these versions. Creating a file again over a deleted one starts its history anew.

## 7. Plan

1. Resource replication as a second instance of `ReplicatedStream`, with an owner per key.
2. The component library (a digest is awaited before the receipt is read,
   `component-library-do.ts:129`), then regional sessions.
3. Save As and the regional binding in `CloudSave`; changes of context in `AgentSession`.
4. Proofs: `ShelfIsTrue` and `Converged` over quiet restores, with `Consistent` in the place of
   `Agreed`; the invariants of the parts added under 1 to 3.

The undo stacks of the edit engine would make a small module of their own; their data would not.
