# pi-for-excel in TLA+

Pi for Excel is an agent in a taskpane beside a workbook. But for a worker that
runs Python it runs in one JavaScript event loop, so no two statements run at once; but almost every
operation is a chain of `await`s, and between two of them the user, other tabs,
other agents, the host (Excel or WPS) and the stores do what they like. This
directory models the parts of the program whose correctness depends on that, one
module per component, checks them with TLC on small instances and proves the
central results with TLAPS for every value of the constants.

Conventions used throughout:

- **A step is one run of the event loop**, from one answer that leaves the loop
  (host, store, provider, user) to the next `await` of such an answer. Nested
  calls and microtasks belong to the step unless another microtask can observe
  the point in between (the `finally` of the coordinator's queue is such a point
  and is an action of its own).
- IndexedDB orders transactions by their creation: a write takes effect, and a
  read sees the store, when it is issued; answers come in the order of issue.
- Names follow the code. `source:line` of every definition is in `PROJECT.json`.
- Definitions headed "Variant" or "Mutant of" are wrong versions of the
  definition that follows. They are used nowhere in a specification; each one
  shows that some property would notice the mistake.
- Bounds on counters are constants named `Max...` and appear in the guards.

Contents: [parts of the system](#1-the-parts-of-the-system) ·
[modules and code](#2-modules-and-how-they-correspond-to-the-code) ·
[runs](#3-runs) · [fairness](#4-fairness) · [proofs](#5-proofs) ·
[disagreements](#6-where-the-code-and-its-documentation-disagree) ·
[not modelled](#7-what-is-not-modelled) · [plan](#8-plan) ·
[running](#9-running-it)

## 1 The parts of the system

| part | state it keeps | operations | what it must guarantee |
|---|---|---|---|
| **Write coordinator** `workbook/coordinator.ts`, `tools/with-workbook-coordinator.ts` | per workbook key: `running`, `activeWrite`, `queue`, `revision` | a tool call resolves the workbook identity, checks the execution mode, asks for approval, queues, writes, publishes events; abort; change of mode | one mutation per workbook at a time, first come first served, no write stranded, no aborted call writes, revisions number the commits |
| **Lock state and closing of tabs** `taskpane/init.ts` | `runtime.lockState` per tab | paint coordinator events, refuse or confirm a close, save, dispose | the lock shown is the lock held; no tab goes under a write; what a tab had under way does not write after its close |
| **Recovery log** `workbook/recovery-log.ts`, `recovery-scope.ts`, `recovery/*` | list of backups in memory and in the settings store, a document token | append, restore (with rollback backup), delete, clear, list, lazy load | a backup goes only for a reason; memory and store agree; a rollback backup stays beside its original |
| **Save boundary monitor** `workbook/save-boundary-monitor.ts` | last dirty flag per workbook, last identity seen | polls that may overlap | clear backups when the workbook is saved, and none that is not covered by a save |
| **Session tabs** `taskpane/session-runtime-manager.ts`, `init.ts`, `sessions.ts` | strip of tabs, front tab, session id and messages of each, recently closed list | new, switch, move, close, close others, reopen, resume, replace, duplicate, fork | nothing said is lost: "Tabs are temporary, sessions are durable" |
| **Tab layout** `taskpane/tab-layout-persistence.ts` | chain of writes, stored layout | persist, restore at start-up | the stored layout catches up with the strip |
| **Action queue** `taskpane/action-queue.ts` | per tab: `actions`, `running`, `closed` | enqueue, drain, process, shutdown | an agent runs one prompt at a time; queued prompts run, in spite of failures; a closed tab starts none |
| **Compaction** `compaction/*`, `commands/builtins/export.ts` | messages of an agent | before a prompt, between turns, after an overflow, by `/compact` | rewriting the messages loses no prompt |
| **Extension manager** `extensions/runtime-manager.ts` | entries, active states, tool registry, refresh flags | initialize, install, enable, disable, reload, set a permission, uninstall, register and drop a tool | one instance runs; disabled means off; the agents have exactly the registered tools; an uninstall removes its own entry |
| **Extension sandbox** `extensions/sandbox-runtime.ts`, `extensions/sandbox/*` | ready promise, pending requests with timers, subscriptions, overlay and its buttons; in the frame: handlers, operations of the activation | bootstrap, activate, call, request, answer, time out, click, dispose | activated means all was carried out; every call settles; nothing is left after disposal; a click reaches no older handler |
| **Runtime capabilities** `taskpane/session-runtime-manager.ts`, `init.ts` | `refreshRequested`, the pass, tools and prompt of every agent | refresh passes, the builds of a tab that is created or changes its session | at rest every open tab has what the sources say |
| **Models and catalogues** `models/*`, `taskpane/runtime-model-reconcile.ts` | requested sync and network, published snapshot, model per tab | start-up, refresh passes, publication, reconciliation of the tabs | what is published is current; no free tab keeps a model of a provider that is gone |
| **Files workspace** `files/*` | two places of files, tags in memory and in the settings, cleaned places | write, import, delete, rename, list, connect a folder, clean scratch files | tags follow their files; a rename deletes nothing it has not copied |
| **Connections** `connections/*`, `tools/with-connection-preflight.ts` | definitions, one settings document | register, five mutations of a record, preflight of a tool, mark after a refused secret | a change touches its own record only; a refused connection stays off |
| **Workbook context** `context/*`, `taskpane/context-injection.ts` | cached overview and revision per workbook; per tab what was injected last | build, invalidate, time out, inject | an agent that is not told again has an overview that is current |
| **Credentials** `auth/restore.ts`, `auth/oauth-storage.ts`, `ui/provider-login.ts` | keys and grants, two stores shared by all taskpanes | restore at start-up, login, disconnect, save a key | key and grant say what the user did last |
| **Structure changes** `tools/modify-structure.ts`, `workbook/recovery/structure-*.ts` | per backup: the state that undoes a change | insert, delete, add, copy, rename, hide; capture; restore, which answers with its own opposite | an undo, or the undo of an undo, gives back the workbook there was |
| **Python in the browser** `python/*` | one worker, its globals, pending requests with timers | post, load, set the input, run, collect, time out, abort, worker error | a call is answered from its own input by its own script |
| tools, other backup formats, host adapters, storage, streaming, Python bridge, user interface, slash commands, prompt and skills, audit log, helper servers | | | see [section 7](#7-what-is-not-modelled) |

How they interact:

```
 user ──▶ action queue ──▶ agent ──▶ tool call ──▶ approval ──▶ coordinator ──▶ host
             │  ▲            ▲                                    │      │
             ▼  │ idle       │ tools                       events │      │ mutation done
          compaction      extension manager                       ▼      ▼
             │ rewrites      (refresh pass)                  lock state  recovery log ◀── save boundary
             ▼ messages                                      of the tab       │             monitor
         session tabs ── saves ──▶ sessions store                             ▼
             └────────── layouts ─▶ settings store ◀──────────── backups ─────┘
```

Calls go along the arrows. What is shared and read on both sides of an `await`
is where things go wrong: the workbook identity (coordinator, recovery log),
`lockState` (painted by one chain, read by another), the message list of an
agent (appended by a run, replaced by a compaction), the list of backups, the
sessions store, the maps of the extension manager, the tags of files, the
settings document of the connections, the overview cache, and the pairs of key
and grant. `PROJECT.json` lists these
hazards at their lines, with the properties that watch them.

## 2 Modules and how they correspond to the code

Dependencies: `RuntimeLocks` extends `WorkbookCoordinator`, which instantiates
the abstract `WriteLine`; the other components share no state with each other
and stand alone. `Lists` holds the filter of arrays that three of them use.
`MC*` modules hold the small instances; `*Proofs` modules and `ListTheorems` hold
the theorems. Four of the MC modules put several components side by side:
`MCOverlap` (WorkbookCoordinator, Connections), `MCServices` (WorkbookContext,
ModelChoice, ExtensionManager, PythonWorker), `MCAgents` (ActionQueue, RuntimeCapabilities,
ModelRefresh) and `MCDesk` (ExtensionSandbox, FilesWorkspace, Credentials, StructureBackups). A
behaviour of such a module is a behaviour of one of its components, chosen at the start: the state spaces add
up instead of multiplying, and nothing is lost, because no action of one reads
or writes a variable of another.

### WorkbookCoordinator, WriteLine

`pc[c]` is the `await` at which a tool call stands: *resolving* the identity,
*checking* the mode, *approving*, *queued*, *writing*, *settled* (its operation
has settled, the `finally` of the queue is a microtask away), *committed* (the
caller is about to hear of it), *done* or *failed*. `running`, `activeWrite`,
`queue`, `revision` are the fields of `WorkbookQueueState`, one state per key.
`ProcessQueue` is `processQueue`, `RunWrite` is `runWrite`; a call aborted while
queued settles as failed in the very step in which it gets the slot, because
`execute` runs synchronously into `throwIfAborted`. `Resolve` captures the key once and for all.
`ResolveRestore` is the restore of a backup from the user interface, which goes
to `runWrite` without mode or approval. `actsOn` records the document the host
shows when the write starts, which is what its tool will change. `Abort`,
`SetMode`, `FirstSave` (an unsaved workbook gets an identity) and
`SwitchWorkbook` (WPS) are the surroundings. Which tools mutate is an input
(`Mutating`). Tool names and parameters are left out.

`WriteLine` is what the coordinator promises: a line of writers per workbook, of
which only the head commits, once, with the next revision; all leave in order.
`ServesInLine` says the coordinator implements it, a line being the active write
followed by the queue.

### RuntimeLocks

Adds the tabs: each coordinator step publishes its events in the step, so
`PaintLocks` changes the lock state of the tab of the call's session in the same
step (`init.ts`, the subscriber). A close is `RequestClose` (refused for the last
tab and for a tab that shows `holding_lock`), `ConfirmClose`/`DeclineClose` of
the dialog shown for a busy agent, and `FinishClose` after the save, which aborts the agent and
checks nothing again. `Overflow` and `CompactionOver` are `recoverFromContextOverflow`, which the
queue of a tab awaits after a run: the agent is run again without a look at the
tab, so `MayCall` lets the agent of a tab closed meanwhile make calls, and
`madeClosed` remembers which. The overflow is offered to `LongSessions`. `OneCallAtATime` names the sessions whose agent makes its
tool calls one by one; `Orderly` sessions besides have no restore running in
their name. Only for those can the tab, which shows the *last* event, be exact;
the exclusion of two holders is stated for all.

### RecoveryLog

One taskpane and one document. `snapshots` is the memory, `disk` the stored
payload, `reads` the reads in flight. Operations (`Edits`, `Restores`, `Deletes`,
`Clears`, `Lists`) and `Polls` are processes; edits and restores exclude each
other because the coordinator serialises them (`Serial`), the others overlap
freely. A backup is its identity and the scope it is filed under: the token of a
never-saved document or the hash of the path. `EnsureLoaded`/`Loaded` is the lazy
load; `Persist` writes the list as it is and, if `faults`, may fail silently, as
the code does. `Starts` says how a taskpane may begin: with a saved workbook or
not, with the log in memory or not, with a sound store or a faulty one and
reloads, and which operations are made. `PollRead` is `checkOnce` between the answer to
`isDirty` and the clears; `Reload` drops memory and everything in flight. What a
backup contains and how the host applies it are left out. Abstracted further: a
backup that belongs to another workbook, and the optional retention limit.

### SessionTabs

A runtime starts with a session of its own, so both share one numbering.
`order`, `active`, `session`, `chat` are the strip; `stored`, `disk` the sessions
store, where a save replaces the whole conversation under the session id.
Messages are sent (`Send`) and answered (`Answer`, where the code saves). The
requests of the user (`Calls`) close, close others, reopen, resume, replace,
duplicate; each is a chain of awaits that meets whatever the strip has become
meanwhile. `LayoutWrite` takes the next layout of the persistence chain; `Reload`
restores the stored layout. `shared` is history: the sessions two tabs have held
at once. Modelled as in the code although surprising: a second close of the same
tab pushes the session to the recently closed list again, because the answer of
`closeRuntime` is ignored. Left out: failing saves (`saveSession` swallows
them), use of the user interface while the layout is being restored, the
latest-session pointer and the workbook link, the change of the layout key with
the workbook identity, renaming. Locks are in RuntimeLocks.

### ActionQueue

`actions` and `closed` are those of a queue, `step` is the `await` of
`process()`, `current` the prompt in hand. `TakeCommand`, `TakePrompt`,
`StartPrompt`, `RunDone`, `RecoveryStarts`, `Retry`, `RetryDone` are its loop.
`compacting[r]` and `midTurn[r]` are compactions under way: which agent they
rewrite and which messages they have read; `Rewrite` replaces the messages by
what the compaction has seen. A `/compact` command rewrites the agent of the tab in front
when the queue reaches it. `transcript` is the set of prompts in the messages,
those archived in a summary included. `rewritten` is the identity test of
`recoverFromContextOverflow`: a refresh of capabilities changes the array as
well, so a compaction that did nothing may count as one. `foreign` is history:
the agents a `/compact` of another tab has rewritten. `Close` stands for the end
of a close (shutdown of the queue, abort of the agent); the dialog and the save
before it are in RuntimeLocks and SessionTabs. An abort is a run that ends. Left out: token estimates and the
cut point (a compaction may always succeed, do nothing or throw), images, texts,
the display, messages the application injects.

### ExtensionManager

Calls (`Requests`, and `Boot` for `initialize()`) are chains of awaits over
shared maps: `persist`, `stop` (the instance in charge cleans up), `settle`,
`load`, `loading`, `clear`. An instance is one activation of an extension; its `life` goes from
loading to live, stopping, gone. `tool[e]` is the registry by tool name, `owners`
the instances that believe to own theirs, so that a clean-up by name can remove
the tool of a newer instance, as in the code. `RefreshRead`/`RefreshApply` are one pass of
`runCapabilityRefreshes`; `requested` is its flag. `overlapped` is history: the
extensions two calls have been about at once. One tool stands for all an
extension contributes; commands, events, widgets, model providers and connections
are left out. `CallGrant` is `setExtensionCapability`, which restarts an enabled
extension. `index` is the place of the entry an uninstall has found before its
awaits; `displaced` notes the uninstalls whose place another one has moved.
The store may fail at each call (`PersistFails`, `ClearFails`, `Uninstalled`): the
change of the entry stays and the call throws, which leaves an extension running
whose disabling was not stored (`unsettled`).
Waiting for a refresh is modelled as waiting for the refresher to be off.

### ExtensionSandbox

The host (`ready`, `host`, `caller`, `pendingRequests`, `subscriptions`, `shown`,
`actionIds`), the script in the frame (`script`, `activationOps`, `outstanding`,
`eventHandlers`, `actionHandlers`, `running`) and the two directions of the port
(`toHost`, `toSandbox`), which keep their order. `HostReceives` and
`ScriptReceives` are the two message handlers, one action each; `Ask` is any
request of the extension, by kind: done at once, taking a while, subscribing,
unsubscribing, showing or dismissing an overlay. `CallSandbox` starts a timer,
`CallTimesOut` fires it, `Dispose` sends the deactivation with its own timer and
`TearDown` is the end of it. A request of the extension is named by its number,
and so are the handlers and the overlay that come with it. Widgets (which behave
as the overlay does), parameter parsing and the storage behind a request are
left out.

### RuntimeCapabilities

A version number stands for all that tools and prompt are built of. `Request` is
`refreshCapabilities`; `PassReads` and `PassApplies` are the two ends of one
build, `VisitNext` the loop over the tabs registered when the pass began,
`NextVisit` its `do ... while (refreshRequested)`. `Create`, `RegisterTab` and
`SessionChanges`, `SessionApplied` are the builds that do not go through a pass.
`late` notes the tabs such a build gave an outdated version, `failed` those whose
last refresh failed: the code does not come back to either.

### ModelRefresh, ModelChoice

`ModelRefresh` is `ModelRefreshOwner`: two numbers stand for the custom providers
in the settings and for what the providers would fetch. `RequestRefresh` decides
what a request adds to `requestedSync` and `requestedNetwork`, `PassStarts`,
`ReadProviders`, `Sync`, `Ask`, `Fetched`, `Publish`, `PassEnds` are
`runRefreshes`; `StartupLoads` to `RestoreFails` are `startup` with its timeout for
the credentials. `givenUp` notes what a pass failed at, and the requests that
were absorbed by a pass that had begun. `ModelChoice` is what a publication does
to the tabs: `Reconcile` replaces the model of free tabs whose provider is gone,
a tab at work is passed by, and the end of a run repeats it on a timer (`Timer`).
A tab whose model the catalogues have in another form (`outdated`,
`CatalogChanges`) is given that form and is not looked at further, as in the code:
it may be left with a provider that is not listed.

### WorkbookContext

`overview[k]` is the cache by workbook key, `Announce` bumps the revision and
empties it, `BuildReads`/`BuildEnds` are a build over several host calls which
goes on after its injector has given up (`GivesUp`). `Decide` is
`decideWorkbookContextRefresh`, `Receive` remembers the revision of this moment.
Revisions are not numbers: `current` is the set of tabs that remember the
revision their key has now, which is all that is compared. `overlapped` notes
that an invalidation came while an overview was made. The selection, the files
listed beside it and the tracker of changed cells are left out.

### Connections

`stored` is the settings document. A change is `Change`, which reads the whole
document and changes one record, and `Save`, which writes it; changes do not wait
for each other. `overtaken` notes that another change was saved between the two.
`CallTool`, `Preflight`, `ToolEnds`, `Mark` are a tool that needs connections,
from the check to the mark of a refused secret.

### FilesWorkspace

`files` is what the two places hold, `tags`/`stored` the tags in memory and in the
settings. A call goes through `Begin` (which starts the clean-up of scratch files
in a place not yet cleaned), `Resolve` with `Probe`s of the places, `Choose`, the
operation itself and the change of the tags; a rename is a read, a write, a
delete (`RenameReads`, `RenameCopies`, `RenameRemoves`). The content of a file is the
call that wrote it. `disturbed` notes paths two calls were about at once, `bare`
those whose last call failed on the way to the tag.

### Credentials

Keys and grants are numbers; the key of a grant is the same number. A taskpane
restores provider after provider (`Load`, `Use`, `Refresh`, `SetRefreshed`,
`ClearGrant`, `ClearKey`), and the user presses buttons meanwhile in any taskpane
(`Press`, then `Login`, `StoreGrant`; `Disconnect_`, `ForgetGrant`; `SaveKey`). Each
write may fail, and `Close` ends a taskpane at any await. `muddled` notes the providers a failed or
abandoned write, an expired grant or two workers at once have left; a login or a
disconnect nobody came between clears it.

### StructureBackups

`workbook` is what the user sees: sheets with name, visibility and rows, and the
id the host gave them. An operation is a tool's or a restore's and works on the
state it is to make (`RecoveryModifyStructureState`), since `modify_structure`
and `applyModifyStructureState` make the same changes and keep the same states:
`SetName`, `SetVisibility`, `Overwrite`, `AddSheet`, `InsertRows` with `FillIn`,
and `CheckData`, `CaptureData`, `DeleteNow` for what goes. Where they differ the
flag `tool` says so: a tool checks no data and deletes what is too large for a
backup, a restore refuses both. `standing` is the sync the operation waits for;
at each the user may type or delete a sheet (`UserTypes`), and the host may fail
(`HostFails`), which leaves what was done so far. `goes` and `from` of a backup
are history: the workbook before and after its change, unless the user was in
the way. A column behaves as a row does and is left out, as are formulas, sheets
the user adds or renames meanwhile, and the partial failure of a batch other
than by position or visibility.

### PythonWorker

`waiting` is `pendingRequests`, `worker` the worker there is, by number; `handler`
is the await of `handleRun` each call stands at, `python` the globals its
handlers share. `PostCall`, `CallRunsLate`, `AbortCall`, `WorkerError` are the
taskpane's side, the rest the worker's. A script may set the result or not,
which is all that is known of it. An input is named after its call. `mixed`
notes the calls in whose worker another handler was at work.

## 3 Runs

Seven runs must hold, five show a disagreement (section 6). States are distinct
states.

| run | question | properties |
|---|---|---|
| `writers` (2.3 M) | is the queue of a key exclusive and awake, whatever is aborted, fails, is denied or changes identity; do changes of connections keep to their record and refused ones stay off? | `SerializedMutation` `NoStrandedWrite` `OwnRecordOnly` `RefusedStaysOff` |
| `locks` (364 k) | does a tab show the lock it holds, does a close leave no write behind, does every queued write settle, and does the coordinator implement `WriteLine`? | `LockStateExact` `CloseLeavesNoWrite` `QueuedWritesSettle` `ServesInLine` |
| `recovery_log` (420 k) | do backups leave the log only for a reason, does the save boundary clear the right ones, does a rollback backup stay beside the backup it undoes? | `TypeOK` `LogOnDisk` `RollbackBesideOriginal` `BackupsKept` `UnsavedKept` `SeenSaveClears` |
| `session_tabs` (3.8 M) | is anything said ever lost, does the layout follow the strip? | `TypeOK` `IdleTabSaved` `LayoutCatchesUp` `MessagesKept` `ClosedTabSaved` |
| `agents` (322 k) | does a queue own its agent, keep its prompts, stop when closed and drain; do all tabs end with the newest tools and prompt; is the published catalogue current and does every refresh end? | `AgentsTypeOK` `LoopOwnsAgent` `PromptsKept` `ClosedTabStartsNoPrompt` `QueueDrains` `RestIsCurrent` `PublishesCurrent` `RefreshesEnd` |
| `services` (5.3 M) | is an agent that is not told again up to date; has every free tab a model there is; does the extension manager run what is enabled, give the agents its tools and uninstall the right entry; is a Python call answered from its own input? | `ServicesTypeOK` `TrustedIsCurrent` `FreeTabsUsable` `RunsAsEnabled` `AgentsHaveTheTools` `UninstallRemovesOwn` `AnswersOwnInput` |
| `desk` (4.9 M) | does a sandbox keep house, do tags follow files and renames lose none, are key and grant those of the last button, does an undo of a structure change give back what there was? | `DeskTypeOK` `SandboxKeepsHouse` `TagsFollowFiles` `FilesKept` `SignedInAsAsked` `UndoUndoes` |

Bounds, and why they are enough:

- *Coordinator*: three mutations, one of them a restore, and a read; two
  sessions, two documents, `MaxIdentityChanges = 1`. A queue of length two behind an active write
  is the smallest in which order and wakeups can go wrong; one change of identity
  separates calls that captured different keys.
- *Connections*: two of them and two overlapping changes.
- *Locks*: three mutations of two tabs, one document. One tab makes a call and a
  restore that overlap, and its run may overflow once; the other makes its calls one by one.
- *Recovery*: a log of two (`MaxEntries`) and two starts. The sound one has a saved
  workbook, the log in memory and three writers, so that the limit is reached
  with a delete, a clear and two overlapping polls under way. The faulty one is
  unsaved and unloaded, with failing writes and one reload, for the types and
  `RollbackBesideOriginal`; the other properties except it by name (`faults`).
- *Tabs*: three runtimes, two messages, two requests of any kind, one reload, a
  recently closed list of one, one queued layout while the strip is changed by
  hand (requests queue as many as they need). Two requests are the smallest number that overlap; three runtimes let a tab be
  closed between two others. `MaxMessages = 2` is a prompt and its answer, or two prompts
  to two tabs.
- *Agents*: two tabs with two prompts and one `/compact`, so that a prompt can wait
  behind a prompt or a command, in its own tab or the other one; two tabs and
  `MaxSource = 3` changes of what tools are built of, one more than the passes that
  can be owed; `MaxConfig = 2` and `MaxRemote = 3` changes for the refreshes, enough
  for one before, one during and one after the pass that absorbs it.
- *Services*: two tabs, two builds of an overview, one structural change and two
  keys; two tabs and two providers;
  one extension at start-up, one to be installed, two calls of any kind and the
  start-up itself, all overlapping. Two of everything is what it takes to
  overlap; one structural change is enough for an announcement
  before, during and after a build, and the theorem covers longer histories.
  Three Python calls, one without input: one whose worker is ended, and two that
  follow or overlap each other in the next one.
- *Desk*: three requests of the extension and one call, so that an interface can
  be replaced while a click on the old one is on its way; two paths, two calls
  and one old scratch file; one provider, two taskpanes and two clicks,
  `MaxStarts = 2` and `MaxGrants = 4`; two sheets of three rows, of which the
  data of one is too large for a backup (`MaxCells = 2`), two spans of rows, two tools and up to four
  operations (`MaxTools`, `MaxChanges`), so that an undo can be undone and that
  undone again, and one act of the user (`MaxTyped`).

The model stops when all calls are made, so deadlock is not checked there.
`agents`, where capability refreshes go on for ever, is checked for it.

What the properties leave out on purpose:

- `MessagesKept`, `IdleTabSaved`, `ClosedTabSaved`, `PromptsKept` and
  `RunsAsEnabled` carry an exception (a session in two tabs, a `/compact` of
  another tab, two calls about one extension at once). The exceptions are needed:
  section 6 has counterexamples for the shared session and the `/compact`.
- `OwnRecordOnly` and `RefusedStaysOff` except changes another change overtook, `UninstallRemovesOwn`
  uninstalls another one displaced, `TrustedIsCurrent` overviews an invalidation
  overlapped, `FreeTabsUsable` tabs met in a compaction or in the making or whose model was only renewed,
  `PublishesCurrent` requests absorbed by a pass that had begun or made between the
  end of the loop and the end of its promise, `RestIsCurrent`
  tabs whose refresh failed or whose own build was overtaken, `TagsFollowFiles` and
  `FilesKept` paths two calls were about at once, `SignedInAsAsked` providers that
  are muddled, `AnswersOwnInput` calls that were mixed, `UndoUndoes` operations the
  user or the host was in the way of, sheets that came back under a new id and sheets
  that have changed places with their like. Each exception is a named history variable, so what the code does
  in these cases is in the model and can be asked for; section 6 says what it is.
- `UnsavedKept` is stated for a saved workbook: a restore that straddles the
  first save files its rollback under the old scope, and the poll that clears
  that scope takes it although no save covers it.
- `SeenSaveClears` speaks of saves a poll can see. A workbook changed and saved
  between two polls is never seen dirty and keeps its backups.
- `ClosedTabStartsNoPrompt` exempts the retry after an overflow, which does not
  look at `closed` again, and `CloseLeavesNoWrite` the calls of the agent run so
  (`madeClosed`). Restores are the user's and belong to no agent: none is aborted.
- `RunsAsEnabled` excepts, besides the overlaps, an extension whose disabling was
  not stored, until a call stops it (`unsettled`).
- `QueueDrains` is released when the queue's loop throws: a compaction or a
  command that rejects ends the loop with actions still queued, until the next
  one is entered.

- `SandboxKeepsHouse` says that a waiting call has a timer, not that it ends: with
  the timer assumed to fire that would be no more than the assumption.

## 4 Fairness

Fairness is assumed of machines, never of users or of the model.

- `WorkbookCoordinator!Fairness` and `LFairness`: weak fairness of the steps a
  call takes when the host or a store answers, its tool settles or a microtask
  runs; and of the save behind a close. Nobody is assumed to approve, to abort or to call: a
  call may wait for its approval for ever, and queued writes still settle.
- `RecoveryLog!Fairness`: the store and the host answer, the polling interval ticks;
  strong fairness of `PollRead`, since the host may now and then fail to tell
  whether the workbook is dirty but not for ever.
- `ActionQueue!Fairness`: weak fairness of the steps of the loop and of the ends of
  compactions (a provider answers or fails); strong fairness of the end of a run,
  because a run that may compact between turns has finitely many turns.

- `CapFairness` and `ModelFairness`: the awaits of a pass come to an end
  (the fetch of a provider has a timeout). Requests, changes and tabs are not
  assumed to stop: `RefreshesEnd` is about what happens when they do.
- In `MCAgents` each of these is stated for the component the behaviour is of.

The other modules state no liveness and assume none.

## 5 Proofs

All proofs are checked to the last leaf; the theorems hold for every value of
the constants that satisfies the named assumptions of the modules. Every
assumption is evaluated by TLC on the instances of section 3. Of the properties
the runs check, all invariants and all action properties are theorems.

| module | about |
|---|---|
| `ListTheorems` | what filters, removals, insertions and appends leave of a list |
| `WritersProofs` | WorkbookCoordinator, WriteLine, RuntimeLocks, Connections |
| `RecoveryLogProofs` | RecoveryLog |
| `SessionTabsProofs` | SessionTabs |
| `AgentsProofs` | ActionQueue, RuntimeCapabilities, ModelRefresh, and `MCAgents` of the three |
| `ServicesProofs` | WorkbookContext, ModelChoice, PythonWorker, ExtensionManager, and `MCServices` |
| `StructureProofs` | StructureBackups |
| `DeskProofs` | Credentials, FilesWorkspace, ExtensionSandbox, and `MCDesk` of these and StructureBackups |

The last theorems of `AgentsProofs`, `ServicesProofs` and `DeskProofs`
(`AgentsTogether`, `ServicesTogether`, `DeskTogether`) say that a behaviour of
the components side by side is one of each of them, so that what is proved of one
alone holds where the run checks it; `AgentsTypesHold`, `ServicesTypesHold` and
`DeskTypesHold` follow.

### Lists

The prover cannot instantiate the operator `SelectSeq` takes, and none of the
library's induction theorems. `Lists!Without` therefore filters by a recursive
function over the places of a list, and `ListTheorems` proves what it leaves by
the least length for which the claim would fail (`LeastNumber`, a fact about sets
of numbers). The other lemmas say where the items of a list are after
`RemoveAt`, `InsertAt`, `Append`, `SubSeq` and an update, and that a list without
repetitions stays so.

### Workbook coordinator and locks

From `CoordinatorAssumption` (the sessions of calls exist, restores are
mutations, null values are distinct from the rest):

| theorem | says |
|---|---|
| `TypeCorrect` | `Spec => []TypeOK` |
| `SlotsKept` | `Spec => []SlotInv` |
| `MutationsSerialized` | `Spec => []SerializedMutation` |
| `NoWriteStranded` | `Spec => []NoStrandedWrite` |
| `AbortedCallsRest` | `Spec => AbortedNeverStarts` |
| `RevisionsCount` | `Spec => []RevisionsNumberCommits` |
| `CoordinatorKeepsLine` | `Spec => Line!Spec` |

`SerializedMutation` alone is not inductive: it does not say who owns a slot nor
what is in a queue. `SlotInv` does: a taken slot is held by the call `activeWrite` names, and that
call is writing or about to run its `finally`; a free slot has an empty queue;
every holder is the active write of its key; a queue holds queued calls of that
key, each once. The heart of the argument is `ProcessQueueSlot`: given `Handover`,
the state in which a slot is free and a sorted queue is at hand, `processQueue`
restores `SlotInv` whether it starts the head or finds nothing. `runWrite` and
the `finally` block both reduce to it (`RunWriteSlot`, `FinallySlot`); steps that
touch neither slot nor queue are covered by `OutsideSlot` and `SettleSlot`.
`MutationsSerialized` and `NoWriteStranded` then follow from `SlotInv` at once.
`RevisionsCount` adds that the stamps of a key are the numbers from 1 to its
revision, each given once. `CoordinatorKeepsLine` maps every step to a step of
`WriteLine` or a stutter: a call that queues or starts at once joins the line, a
write that succeeds commits at its head, `finally` leaves it. The fairness of
`WriteLine` (part of `ServesInLine`) is model-checked.

`TabsImplementCoordinator` (`LSpec => Spec`: the tabs only constrain and abort, so
every theorem above holds of the composition), `LocksTypesHold`, `ClosesLeaveNoWrite`
(`LSpec => CloseLeavesNoWrite`) and `LocksExact` (`LSpec => []LockStateExact`).
The second last rests on `FinishClose` aborting every call in flight and on
`madeClosed` having every call made after it; the last on `SlotInv` and on the fact that an orderly
session has one call with the coordinator at a time, so that the last event is
about that call.

### Recovery log

| theorem | says | of starts |
|---|---|---|
| `RecoveryTypesHold` | `Spec => []TypeOK` | any |
| `RollbackHolds` | `Spec => []RollbackBesideOriginal` | any |
| `StoreHoldsLog` | `Spec => []LogOnDisk` | with the log in memory, where the store is sound |
| `KeptHolds` | `Spec => BackupsKept` | the same |
| `UnsavedHolds` | `Spec => UnsavedKept` | the same, of a saved workbook |

`Shape` adds to the types who waits for a read and what a process has settled
before it comes to where it is. `RollbackBesideOriginal` speaks of backups in
memory only, but a reload or a late answer may bring back an older list: `Filing`
states it for every backup the log can come to hold again, in memory, in the
store or in an answer under way, and adds that a backup is filed once, under one
scope, when its writer is done. For the others `InStep` is enough: memory and
store agree and no read is in flight. `recovery_load_race` (section 6) is what
happens without it, and shows the hypothesis of `KeptHolds` is needed.
`UnsavedHolds` needs a document that has its path (`OnePath`): a restore applied
across the first save files its rollback under the token, and the first poll
that clears the token takes it although no save has covered it.

### Session tabs

`TabsTypesHold`, `LayoutHolds`, `IdleHolds`, `MessagesHold` and `ClosedHolds` state
`TypeOK`, `LayoutCatchesUp`, `IdleTabSaved`, `MessagesKept` and `ClosedTabSaved`, for any
number of tabs, requests and messages and any length of the strip.

A save writes the whole conversation of a tab, so `MessagesKept` asks of whoever
may still save that it has all that is stored. `SessionsInv` names them: the open
tabs of a session, a load that has read it for a tab, and a close that asks the
user about a tab which another call has closed meanwhile and will save all the
same. Of a session nobody marked as shared there is one such holder (`Alone`);
a tab has at least what is stored (`OfTab`), a load exactly (`OfLoad`), and what a
close promised to keep is stored until it is answered (`OfClose`). `LayoutInv` says
that the last layout of the chain is the strip's, or a change of a session is about
to queue it.

### Around the agents

`QueueTypesHold`, `AgentsHaveOneOwner` (`LoopOwnsAgent`), `PromptsSurvive`
(`PromptsKept`) and `ClosedTabsRest` (`ClosedTabStartsNoPrompt`), without any
assumption on the constants. `PromptsKept` speaks of a step that rewrites
messages read many steps earlier. The inductive invariant `QueueInv` adds
`SeenAll`: a compaction that a queue or a run waits for has seen every prompt of
its agent, because prompts are added only by a run, a run only starts from its own
loop (`LoopOwnsAgent`), and that loop is waiting. The exception, an agent rewritten
by a `/compact` of another tab, is exactly where `SeenAll` breaks.

`CapTypesHold`, `RestHolds` (`RestIsCurrent`): whoever is outdated is still to be
visited, or a refresh is wanted: a change asks in the same step, and a pass that
has read too early has had the flag set again. `ModelTypesHold`, `PublishedHolds`
(`PublishesCurrent`): what a pass has read of settings and catalogues is what is
there, or another pass is asked for, or the difference is in `givenUp`.

### Services

`ContextTypesHold`, `CacheHolds`, `TrustHolds` (`TrustedIsCurrent`): the invariant
follows an overview from the build over the cache and the answer to the
injector's belief; at each place it is as new as what was announced under its
key, or marked as overlapped, and a tab is `current` only while nothing was
announced since.

`ChoiceTypesHold`, `UsableHolds` (`FreeTabsUsable`), from `ChoiceAssumption` (a null value
apart from the models): a free tab whose provider is gone was passed by, or a
timer or a reconciliation will come to it.

`PythonTypesHold`, `OwnInputHolds` (`AnswersOwnInput`): a handler that is alone in its
worker finds in the globals what it put there, until it answers (`GlobalsOfOne`).

`ExtensionTypesHold`, `UninstallHolds` (`UninstallRemovesOwn`), `ToolsHold`
(`AgentsHaveTheTools`), `RunsHold` (`RunsAsEnabled`), from `ExtensionAssumption`. An
uninstall nobody displaced still has its entry at the place it found (`PlaceInv`).
An instance is loaded once and cleaned up once, by calls that wait for it, and the maps of
the manager name instances of their own extension (`LoadInv`). What the agents
have of an extension is its registered tool, or a pass is wanted, or an activation
has dropped it (`ToolsInv`). For `RunsAsEnabled`, `RunInv` describes an extension no
two calls were about at once (`Calm`): nothing is under way and it runs as it is
enabled, or a disable that could not be stored has left it running, or the await of its only call says what runs.

### Connections

`ConnInvHolds`, `ConnTypesHold`, `RefusedHolds` (`RefusedStaysOff`), `OwnRecordHolds`
(`OwnRecordOnly`). A pending change holds the stored records of all other
connections, or is marked as overtaken, since every save marks the changes that
are pending.

### Desk

`CredentialTypesHold`, `SignedInHolds` (`SignedInAsAsked`), from `CredentialsAssumption`
(at least one provider, each once, and room for the grants there are at the start). The
invariant `CredInv` has one clause per await (`Stands`): what the two entries hold
while a worker that nobody has joined is there. `AloneIsOnly` makes that sound:
where nothing is muddled, whoever is at work is alone, so the steps of all
others leave the entries of the provider as they are (`WorkerMoves`). A worker that
comes joins (`WorkerComes`), goes on (`WorkerStays`) or leaves (`WorkerLeaves`); every
action is one of the three.

`FilesTypesHold`, `TagsFollowHolds` (`TagsFollowFiles`), `KeptHolds` (`FilesKept`), from
`FilesAssumption`: the same idea for paths. Of a path that is not disturbed one
call is the owner at most (`OneOwner`); `CallStands` says at each await what that
call has done to the file and to its tag, `Base` what holds of a path nobody
owns, and `Copies` that a rename has copied what it is about to delete.

`SandboxTypesHold`, `HouseHolds` (`SandboxKeepsHouse`): a number that is in one map
of the two sides, or in a message, was issued (`SentIsIssued`); a request of the
script is on its way, in work or answered (`Answered`); the order of the port
settles which interface a click can reach (`LastButtons`).

### Structure changes

From `StructureAssumption` (names and ids of the sheets at the start are each their
own and one is visible; `Gone` is not the record of a sheet):

| theorem | says |
|---|---|
| `StructureTypesHold` | `StructureSpec => []StructureTypeOK` |
| `UndoHolds` | `StructureSpec => []UndoUndoes` |

Excel refuses two sheets of one name and a workbook without a visible sheet, and
every restore must leave neither, whatever the user deleted between its awaits: that
is the point of the types. `StructureInv` has the sheets by place, what an operation
has sighted, and that each state kept in a backup has the fields its restore reads
(`Stated`).

`UndoUndoes` says nothing of the backups that are not being restored, so it is not
inductive. `Reverses(state, p, w, g)` is what a backup is worth: a restore of the state in
`w`, where its sheet is at place `p`, is refused nowhere and gives `g`, both up to the
ids of the sheets (`Plain`). `UndoInv` states it at three points: of every backup, for
the workbook its change left and the one before it (`BackupsReverse`); of an operation
under way, for the part of its change that is done (`Apart`); of a restore that owes
a workbook, for the part that is left (`Ahead`). Each action then has one lemma with two
halves. The restore arrives at what it owes, because `Ahead` says that the guard
of the next step holds and what it gives. And the backup it leaves reverses what
was done, which is where the pairs of changes meet: what is inserted is removed
again and the other way round, for sheets (`InsertedRemoved`, `RemovedInserted`,
`MoveWay`) and for rows, whose values must fit in again where those below them were pushed
(`RowsInAndOut`, `RowsOutAndIn`), and with data (`FilledFits`, `PutBackThere`):
the values that are put back lie in the rows that go, and are few enough to be
captured once more (`Fits`). The invariant was checked by TLC first, on the
instance of the run and on larger ones; it failed there in a way that is part of the
property now, when the sheet of a backup has changed places with another one
(section 6).

### Only model-checked

- Liveness (`QueuedWritesSettle`, `SeenSaveClears`, `QueueDrains`, `RefreshesEnd`, the
  fairness in `ServesInLine`), which with `ENABLED` is out of the prover's reach.

## 6 Where the code and its documentation disagree

Five runs end in a counterexample. Each checks a single property, taken from a
comment, a text or a document of the repository.

| run | counterexample | statement it contradicts |
|---|---|---|
| `coordinator_identity_change` | a first save between two mutations puts them under different keys, and both write one workbook | `workbook/coordinator.ts:4` "serialized workbook mutation" |
| `locks_close_race` | the lock state is read before the awaits of a close and not after: the tab goes under a write that started meanwhile | `language/locales/en.json:568`, `docs/archive/design-session-resume-ux.md:121` "close action disabled until write completes" |
| `recovery_load_race` | a list and an append both find the log not loaded; the later answer drops the backup just appended | `workbook/recovery-log.ts:4` backups "so users can revert Pi's changes" |
| `session_tabs_resume` | an open session resumed into a second tab: each tab saves the whole conversation, the later save removes the other's messages | `docs/archive/design-session-resume-ux.md:37` "sessions are durable" |
| `action_queue_other_tab` | a `/compact` queued in one tab compacts the tab in front when its turn comes; a prompt added there meanwhile is overwritten | `taskpane/action-queue.ts:6` on what the queue is for |

The instances are as small as the counterexample allows: the coordinator has
three mutations and one document; the locks two tabs; the log one edit and one
list; the tabs two runtimes and one request; the queue the instance of
`agents`.

Seen in the models, without a run of their own, because no statement of the
repository says otherwise in so many words:

- two overlapping uninstalls remove the wrong entry, because the second one uses
  an index found before its awaits (`displaced`); a disable or uninstall during an
  activation finds nothing to clean up, and the extension then runs although it
  is disabled; an extension installed during start-up is activated twice
  (`overlapped`). `docs/extensions.md` promises a clean-up in the second case;
- two changes of connections at once lose one of them (`overtaken`), which may
  bring back a refused secret as well;
- an overview whose build a structural write overlaps is put into the cache that
  the write has just emptied, and stays there until the next one (`overlapped`);
- a request for the network that meets a pass with network is absorbed by it even
  after the catalogues were read; what it asked for is published at the next
  refresh (`givenUp`);
- a tab met in a compaction keeps the model of a provider that is gone until the
  end of its next run, and a tab that is created keeps what it was given
  (`passedBy`);
- a tab created, or changing its session, while a source changes may end with the
  older tools or prompt (`late`);
- a restore of credentials at start-up may put back a key or a grant the user has
  removed meanwhile (`muddled`);
- the tag of a file written while a clean-up or a rename of its path is under way
  may be lost, and the file as well (`disturbed`);
- two Python calls in one worker share input, result and captured output, although
  `python/pyodide-worker.ts:202` means "to prevent data leakage"; the handler of an
  aborted call goes on and meets the next one (`mixed`);
- a Python call that times out ends the worker there is, which may be a newer one
  with other calls at work (`CallRunsLate`);
- a sheet that is deleted, restored, deleted and restored has a third id: the
  backup that would delete it again looks for the second one, finds nothing and
  reports success (`BeginRestore`);
- a backup knows its sheet by id: in a workbook that looks as its change has left it,
  but where two sheets have exchanged name and place since, its restore acts on the other
  sheet (`owed` in `BeginRestore`);
- what the user types between the check for data of a restore and its delete is
  deleted without a backup (`CheckData`, `DeleteNow`);
- the agent of a closed tab may be run once more by the retry after an overflow, and
  its tools may write (`CompactionOver`, `madeClosed`);
- a free tab whose model has another form in the catalogues is given that form and
  keeps a provider that is not listed until the next reconciliation (`passedBy`);
- an extension whose disabling cannot be stored runs on although its entry is off;
  a second disable returns early, since the entry is off already (`unsettled`).

## 7 What is not modelled

- **Tools and the other formats of backups**: conversions of parameters and of cell
  states against the host. What tools share (coordinator, backup, audit entry)
  is in the models.
- **Host adapters and storage**: external. The host's identity and dirty flag are inputs;
  stores are atomic maps, failing where the code handles it.
- **Authentication flows, streaming, helper servers**: protocols with outside
  services, or one request at a time. What is stored of a login is in
  `Credentials`.
- **User interface, slash commands, prompt, rules, skills, integrations, audit
  log, manual full backup**: rendering, texts and exports without a protocol. What
  the user does is an action of the module it reaches. This is most of the code
  by lines.
- **Python bridge**: the choice between a bridge on the user's machine and Python
  in the browser, and the HTTP request to the former.
- In parts that are modelled: the registry of providers inside
  `browser-model-runtime.ts` and the partial failure of its synchronisation (one
  read, one write or one throw of a pass); the tracker of changed cells; the
  audit trail and the stored handle of the files workspace; widgets of the
  sandbox; token estimates and cut points of compactions; failing saves of
  sessions, which tell nobody; the latest-session pointer.
- A second taskpane of the same origin, which shares every store, is modelled for
  `Credentials` only. In `RecoveryLog` and `SessionTabs` it would square the state.

## 8 Plan

Written, in the order of their importance: `WorkbookCoordinator` with `WriteLine`;
`RuntimeLocks`, which composes the tabs with it; `RecoveryLog`; `SessionTabs`;
`ActionQueue`; `ExtensionManager`; `RuntimeCapabilities`; `WorkbookContext`;
`Connections`; `ModelRefresh` and `ModelChoice`; `ExtensionSandbox`;
`FilesWorkspace`; `Credentials`; `StructureBackups`; `PythonWorker`; and the proofs of all of them.

Next:

1. Failing saves and the latest-session pointer in `SessionTabs`.
2. A second taskpane in `RecoveryLog`, with a smaller set of operations in each.
3. An abstract specification for `RecoveryLog`, a set of backups with the reasons
   for which one may leave, and for `SessionTabs`, a durable set of messages per
   session.

Runs are kept to one per question; components that share no state share a run.

## 9 Running it

```
tlc -workers 2 -config Overlap.cfg MCOverlap
tlapm WritersProofs.tla
```

`PROJECT.json` names the module and the configuration of every run, the
properties it checks, and for each property the wrong definition it rejects.
Every run ends within five minutes on two cores.
