# Formal model of archsight-solver

TLA+ specifications of the concurrent and stateful parts of this repository, the TLC
configurations that check them on small instances, and TLAPS proofs of the properties that
matter most for every value of the constants.

Check a configuration with `tlc -config X.cfg M` and the proofs with `tlapm M.tla`.

| Modules | Model | Section |
| --- | --- | --- |
| `JobLifecycle`, `AsyncJobs`, `MCAsyncJobs`, `AsyncJobsProofs` | asynchronous jobs of the back end | 2 |
| `HostProtocolMachine`, `HostProtocolAnyHost`, `MCHostProtocol`, `HostProtocolProofs` | protocol machine of the embedded workbench | 3 |
| `HostSession`, `MCHostSession`, `HostSessionProofs` | host page, bridge and document together | 4 |
| `ProjectDocument`, `MCProjectDocument`, `ProjectDocumentProofs` | document of the standalone workbench | 5 |
| `BrowserStorage`, `MCBrowserStorage`, `BrowserStorageProofs` | drafts and templates of several tabs on one storage | 5 |
| `WorkbenchResults`, `MCWorkbenchResults`, `WorkbenchResultsProofs` | calculations, scans and exports against edits | 6 |
| `MemberRefinement`, `LoadPath`, `MCLoadPath`, `LoadPathProofs` | nonlinear load path of a frame | 7 |
| `FrameModel`, `FrameWorkspace`, `TextLine`, `FrameText`, `FrameNormalizer`, `FrameEditing`, `TrussModel`, `TrussEditing`, `BeamModel`, `BeamService`, `BeamEditing`, `ModelEditing`, `MCModelEditing`, `ModelEditingProofs` | editing of models, their texts, and what the service accepts of them | 8 |

Where the model shows what a document or a comment of the repository denies, PROJECT.json has a
finding; what the code does and a user might not expect, without such a promise, is listed in
section 9.

## 1. The system and its parts

| Part | Source | State it keeps | Operations | Hard behaviour |
| --- | --- | --- | --- | --- |
| Asynchronous job service | `backend/api/jobs.py`, `backend/services/job_store.py`, `backend/services/job_runtime.py` | one SQLite table shared by all worker processes; per process a thread pool, a dictionary of futures and a heartbeat thread | submit, poll, cancel, prune, run, reconcile, start, shut down | four gunicorn processes on one table, stale reads, crashes, late heartbeats, failing store calls |
| Host protocol machine | `frontend/src/lib/host-protocol-machine.ts` | phase, binding, pending save | announce ready, launch, request save, save result, project changed, close | messages in any order, repeated, or from another session |
| Solver host bridge | `frontend/src/lib/host-bridge.ts`, `frontend/src/hooks/useSolverHostBridge.ts` | machine state, pending save revisions, references to the project | message handlers, effects | a message between a state change and the render that publishes it |
| Host client | `frontend/src/lib/solver-host-client.ts` (packaged in `packages/solver-host-client`) | phase, pending launch and save, timers, bounded sets of consumed ids | launch, save, save result, timeouts, dispose | a timeout racing a late answer, reloads of the frame |
| Project document | `frontend/src/hooks/useSolverProjectDocument.ts`, `lib/project-document-lifecycle.ts`, `lib/workspace-history.ts`, `lib/project-autosave.ts`, `hooks/useProjectFileActions.ts` | generation, revision, saved revision, history, draft | edit, undo, redo, replace, save, autosave, objects, templates | a save that completes after further edits or another project |
| Template library | `frontend/src/lib/template-library.ts`, `hooks/useTemplateLibrary.ts` | templates and baseline, in each tab and in the browser's storage | save, copy, delete, restore, set as baseline | tabs that share the storage and do not hear of each other, refused writes, what older versions left |
| Workbench results | `frontend/src/hooks/useWorkbenchActions.ts`, `hooks/useWorkbenchRuntime.ts`, `lib/result-provenance.ts`, `lib/solver-project.ts` | results, sensitivity, provenance per object | solve, sensitivity, export | answers of the server after the model changed |
| Nonlinear load path | `backend/solver/frame/nonlinear_path.py`, `backend/application/frame_stability.py` | load factor, step, cutbacks | load steps of an adaptive path | steps at the bounds, cutbacks that never end |
| Model editing | `frontend/src/lib/*-editor-model.ts`, `*-model-edits.ts`, `components/*Editor.tsx`, `BeamForm.tsx` | the active object's workspace | add, remove, copy, rename, connect, move, generate | references between nodes, members, loads, cases and combinations |
| Workspace normalizers | `frontend/src/lib/frame-workspace-normalizer.ts`, `truss-…`, `beam-…` | none | applied to every edit, file and draft | repairs that redirect what they should keep |
| Text models | `frontend/src/lib/frame-text-model.ts`, `truss-…`, `beam-text-model.ts` | none | write, read, apply | names that do not survive the text |
| Request normalizers | `backend/normalizers/` | none | accept or refuse a request, derive segments and nodal loads | a request the editor calls ready and the service refuses |
| Everything else | solvers, presenters, exporters, contracts, CLI/MCP, packages, UI | none between calls, or one sequential actor | | pure or sequential: see section 10 |

Clients talk to the job service over HTTP. A portal page embeds the workbench in a frame and talks
to it with `postMessage` (host client on the portal's side; bridge and machine on the solver's
side). The bridge replaces and reads the project document; results hang on the document's
revision; the editors and the text panel produce the workspaces the document keeps, and every one
of them passes the workspace normalizer before it is kept, sent or saved.

## 2. The asynchronous job service

* `JobLifecycle` is what the service promises of a job's record, with atomic steps: accepted,
  picked up, settled once, forgotten.  Only where the store may fail to confirm a write
  (`StoreMayFail`) can an outcome be taken back: by the worker that wrote it, once, for `failed`.
* `AsyncJobs` is the code.  `table` is `solver_jobs`; `proc`, `futures` and `task` are
  `LocalJobRuntime` and its pool in each process; `handler` is the Flask request threads, each at
  one program counter between two database statements or critical sections.
* `MCAsyncJobs` gives the constants values for TLC; `AsyncJobsProofs` holds the theorems, those that
  need `Timely` at its end.

### Actions and code

| Actions | Code |
| --- | --- |
| `SubmitBegin`, `SelectPruned`, `DeletePruned`, `InsertRow`, `Enqueue` | `submit_job`, `prune_completed_jobs`, `store_job`, `LocalJobRuntime.submit` |
| `CalculateBegin` and the same `SelectPruned`, `DeletePruned`, `InsertRow` | the cached record of `/api/calculate` |
| `LoadBegin`, `CheckHandle`, `MarkOrphan` | `get_job`, `get_job_result`, `cancel_job` and `_reconcile_local_job_handle` |
| `RereadRow`, `FlagCancel`, `CancelFuture`, `WriteCancelled` | the rest of `cancel_job`, `LocalJobRuntime.cancel` |
| `Take`, `RunLoad`, `RunCancelEarly`, `RunStart`, `RunCompute`, `RunFinish`, `RunDiscard` | the pool's thread and `_run_job` |
| `Heartbeat`, `Tick` | `_heartbeat_loop`, the clock |
| `StartRuntime`, `Shutdown`, `FinishShutdown`, `Crash` | `register_request_hooks` with `reconcile_all_orphans`, `LocalJobRuntime.shutdown`, the end of a process |
| `RequestStoreError`, `RunnerStoreError` | a SQLite call that raises before it wrote anything |
| `RunnerRereadError` | `update_job` raises in the re-read that follows its commit |

One step is one database statement another thread can observe, or one critical section of the
runtime's lock.  `update_job` is unconditional, and so is `UpdateJob`.  The two `SELECT`s of
pruning are separate from its `DELETE`, because SQLite opens no write transaction before it.
`/api/export` only reads job records and is left out.

When an interpreter exits on its own, the pool's own exit hook waits for all queued work before
the hook of this code runs; `Shutdown` stands for the explicit call of `shutdown_job_runtime`.

### Abstractions and bounds

* A job identifier draws its client key from `KeyOf`; identifiers are reused once no trace of them
  is left, which keeps the pool of ids small (`Fresh`).
* `Operations` are those the clients of a run use: all four in the passing runs.
* Ages stand for timestamps, capped at `Timeout + 1` (`MaxAge`), the first age the code cannot
  tell from an older one.  `Timeout = 2` ticks lets a heartbeat be fresh, at the limit, and over it.
* `MaxFaults` bounds crashes, shutdowns and store errors together: 1 or 2 faults suffice for
  every branch.  `MaxJobs` of 0 or 1 puts the table at its limit with the second record; 0 prunes
  harder than the code's minimum of 16 can.
* `Handler` has two threads at most: every race here is between two requests, or one request and
  the runner of the job.
* `Timely` says that heartbeats and requests keep up with the clock: a tick finds no request half
  way, and no job a live process holds goes without heartbeat for the timeout.  The code assumes
  this (heartbeats every 5 s, a timeout of 30 s) but does not enforce it.  `jobs_lifecycle` rests
  on it; with `Timely = FALSE` its `OrphanedHasNoWorker` is violated, because a late heartbeat lets
  another process report a job as lost that its owner is computing.  `jobs_settle` does without it.
* `StoreErrors` lets a database call raise, before its write or, in `update_job`, after the commit
  and before the record is read back; `_run_job` then writes `failed` over what it committed.  It is on in `jobs_lifecycle`; with it
  `HandleMeansWork` and `EveryJobSettles` fail for one reason (`jobs_leaked_handle`), so
  `jobs_settle` has it off.

### Runs

| Run | Shows |
| --- | --- |
| `jobs_lifecycle` | two processes, two request threads, two submissions with one key (335,879 states): records follow `JobLifecycle`, a key has one record and one computation, only lost jobs are reported orphaned, a cancelled job never runs |
| `jobs_settle` | without `Timely` (54,849 states): handles mean work, and a polled job settles |
| `jobs_leaked_handle` (violation) | a store error ahead of `_run_job`'s `try`, before or after the write, leaks the handle, and the record stays active for ever |

### Fairness

Threads that can run do run (weak fairness of every step of a request or runner).  `Take` has
strong fairness because the pool's queue is first in, first out: a thread becomes free again and
again and a future cannot be passed over for ever.  Time passes (`Tick` is only held back by
`Timely`), and the heartbeat loop runs.  A client that keeps polling is strong fairness of
`LoadBegin` with "get": the repository's own quickstart polls until the job settles, and orphan
detection is specified to happen on a query.  Nothing is assumed of crashes, shutdowns and errors.

### Proofs

`AsyncJobsProofs` proves for every number of processes, request threads, jobs and keys, with or
without `Timely`, the orphan check and store errors (the last one only without store errors):

* `TypeCorrect`: type correctness; one lemma per group of actions.
* `OneRecordPerClientKey`: `OneJobPerKey` is inductive by itself given the types, since only an
  INSERT brings a record in (`OnlyInsertStores`) and it fails when the key is taken.
* `CancelledJobNeverRuns`: `CancelledNeverRuns` is not inductive.  `CancelInv` adds what
  `cancel_job` relies on: between withdrawing the future and closing the record the job has no
  thread (`ClosingIsOver`), and an identifier a submission has not handed to the pool yet is
  unknown to every runtime and to every other submission (`SubmissionIsNew`), so nobody can bring
  a closed job back.
* `CancelledRecordStays`: the action property `CancelledStays`, from the same invariant.  It names
  the two writes that can still follow a cancellation: a late orphan report, and the failure branch
  of the thread whose own write of `cancelled` was not confirmed.  No run checks it by itself:
  `FollowsLifecycle` implies it.
* `HandlesVouchForJobs`: `HandleMeansWork`, when the store answers (`~StoreErrors`; with errors it is
  false, see `jobs_leaked_handle`).  `HandleInv` follows a handle through `proc`, `futures` and
  `task`: its process is not down, its task, if any, runs there, and an active record behind it has
  one.

The end of the module proves, under `Timely`, `OneComputation` (`OneComputationPerKey`),
`OrphansAreLost` (`OrphanedHasNoWorker`) and `RecordsFollowLifecycle` (the refinement
`FollowsLifecycle`).  The code guards none of them where it writes: `update_job` overwrites any
status.  They hold because a stale write always finds a record nobody works on, and `TimelyInv`
says so thread by thread: the status agrees with what the pool thread has done
(`StatusFollowsTask`, which lets an unconfirmed outcome stand before the failure branch), work keeps its heartbeat young (`WorkIsBeating`), one request closes a
withdrawn job (`ClosingIsActive`), a pruner's victims stay over (`VictimIsOver`), and what a request
found or will find too old is lost (`StaleIsOver`).  `SubmittedIsQueued` and `DroppedIsStopping` cover
a job that has a record and no future yet, and a future its process has dropped while it stops.

Only model-checked: `EveryJobSettles` (liveness is out of the prover's reach).

## 3. The host protocol machine

`HostProtocolMachine` is `transitionHostProtocol` as a function from a state and an event to a
state, an answer (accepted, idempotent, issue code) and nothing else: an operator per event type,
in the order of the code's early returns.  A binding stands for the pair of session id and nonce.
`HostProtocolAnyHost` puts the machine in front of a host that sends any event at any time, blank
request identifiers included, and keeps the answered state as the bridge does whether the event was
accepted or not.  `asked` records which saves were accepted and not answered.

`protocol_any_host` checks it with three bindings and three request ids: one of each is current,
one was current before, one is new, and the machine compares them for equality only.

`HostProtocolProofs` proves for any sets of bindings and ids `SessionAlwaysShaped`,
`OneSaveAtATime`, `RejectedMessagesKeepSession` and `ClosedStaysClosed`; the last two are action
properties that only the proofs state.
`SessionInv` is the inductive invariant: the state's shape, `SessionShape`, and that the machine's
pending save is the one `asked` holds (`asked` has at most that element).  `DeliveryCases` names
what a delivery can do to the state, event by event; the invariant, the action property that a
rejected message keeps the session, and the finality of "closed" all follow from it.

## 4. A session between host and frame

`HostSession` composes the client of the host page, the bridge and the document in the frame (with
the machine of section 3) and a queue of posted messages in each direction.

| State | Code |
| --- | --- |
| `client` | `SolverHostClient`: `state.phase`, binding and mode, `pendingLaunch`, its retry interval, `pendingSave` |
| `solver.machine`, `solver.revs` | `protocolStateRef`, `pendingSaveRevisionsRef` of the bridge |
| `solver.content`, `ref` | the project in React's state; `projectRef`, which most edits start from and a launch moves only in its render |
| `solver.revision`, `saved`, `readOnly` | the document's lifecycle (refs) |
| `solver.shown` | what the last render left in closures and effects: session, project, dirty flag |
| `stored`, `seen` | what the host persisted, and what `project.changed` last told it |

| Actions | Code |
| --- | --- |
| `Launch`, `LaunchRetry`, `LaunchTimeout` | `launch`, `sendPendingLaunch`, the launch timer |
| `RequestSave`, `SaveTimeout`, `SendSaveResult`, `Dispose` | `requestSave`, the save timer, `sendSaveResult`, `dispose` |
| `HandleBootstrapReady`, `HandleSessionReady`, `HandleProjectChanged`, `HandleSaveSnapshot`, `HandleSolverError`, `HostIgnores` | the branches and early returns of the client's `handleMessage` |
| `Mount`, `Reload`, `LoseMessage` | the bridge's first effects; the frame's page going away; messages nobody listens to |
| `Edit`, `Render` | a mutation of the document; a render with the bridge's effects in order |
| `SaveInFrame` | Ctrl+S in the frame |
| `HandleLaunch`, `HandleRequestSave`, `HandleSaveResult`, `FrameIgnores` | the bridge's message handler, run in the closure of the last render |

An action is one task of an event loop.  The two loops interleave freely; each queue keeps its
order, as `postMessage` does.

`circumstances`, chosen at the start and kept, say what the environment may do and how often:
`DeferredRender` (a message may be handled between a change and the render that publishes it, and the
user may edit between a launch and its render),
`SolverSaves` (the user may save inside the frame), `SaveTimeouts` (a snapshot may be later than the
client's timer) and `MaxEdits`.  Each property names those it cannot do without.

| Run | Shows |
| --- | --- |
| `host_session` | with all three off, or all three on (517,315 states, 1:07): client, machine and document agree; what is stored in time is what was saved; the host sees edits; edits survive retried launches; launches and saves end |
| `host_stale_snapshot` (violation) | with deferred renders, a change the host never got counts as saved |

`StoredInTime` assumes that no message is handled ahead of a render and no edit made between a launch
and its render; `ActiveNeverFails` and `EverySaveEnds` that no snapshot is later than the timer and
nobody saves in the frame.  `EditsSurviveRetries` names the one thing that takes a launched project
away, an edit on the page of the project before it.  `HostNeverHangs`
promises the end of a launch always, and of a save where its timer runs.  Section 9 says what happens
otherwise.

Bounds: two bindings and two save ids give every crossing of an old and a new session and of two
saves; one reload, because after one the frame is in the state of a first mount; two edits tell
"older", "present" and "newer" apart (one with everything on); the constraint `NamesInOrder` takes
bindings and save ids in one order, since they are interchangeable; a launch is not retried behind two
unhandled messages, since a third copy meets the same state as the second.

Fairness: both event loops take their messages, a mounted page renders, an unmounted one mounts,
timers fire, and the host answers each snapshot it received with a result (its side of the
protocol document).  Nothing is assumed of users, of the host's launches or of edits.

### Proofs

`HostSessionProofs` proves the safety properties of the run, for any sets of sessions and save ids,
any circumstances, and any number of edits, reloads and messages under way.  What client and frame
believe of each other only holds together with the messages between them, so the invariant is mostly
about the two queues:

| Part | Says | For |
| --- | --- | --- |
| `Shapes` (`TypeInv`, `ClientShape`, `FrameShape`) | types; on each side phase, binding, mode and what is pending fit; without deferred renders page, ref and project are the session's own (`OwnDocument`) | `TypeCorrect`, `PendingAlwaysAgrees` (`PendingAgrees`), `EditsAlwaysSurvive` (`EditsSurviveRetries`) |
| `Session` (`Names`, `OneMode`, `InSession`) | every name under way was given by the host; a session has one mode; once a launch took effect only messages of that session go to the frame, and before a message of a session there is no other launch | `ActiveIsBound` (`ActiveMeansBound`) |
| `SavesInOrder` | a session's launches come before its requests, nothing follows the request the client waits for, a snapshot travels with nothing on the way back, and a result is the first message and of the save the frame waits for | the next two |
| `NothingRefused`, under `Calm` | a frame that is saving has its answer under way when the client may ask again; one request at a time; no error under way | `ActiveStaysUp` (`ActiveNeverFails`) |
| `AsLaunched`, and `InTime` without deferred renders | a launch carries what is stored; every snapshot and result under way is of the session's own project, and of its present content if the frame would call that saved | `SavedIsStored` (`StoredInTime`) |
| `Announced` (`ReadyAhead`, `EditsAhead`) | the last change under way is what was rendered, behind the ready that makes the client listen; or none is under way and the client has seen it | `EditsAreSeen` (`HostSeesEdits`) |

The attempt to prove `ActiveNeverFails` without the second half of `Calm` failed for a reason: a host
save that meets one of the frame's own is refused, and the client ends the session (section 9).  The
run misses it, because its circumstances have saves in the frame only together with save timeouts; the
property now names the assumption.  `EverySaveEnds` and `HostNeverHangs` are liveness, and only
model-checked.

## 5. The project document

`ProjectDocument` is the document of the standalone workbench.  A project is its identity, its
objects with the last edits of each workspace, its active object, and the last change outside them
(`doc`, `objects`, `active`, `other`); that is what the properties tell apart.  `project` is React's
state, `ref` the hook's `projectRef`; `lifecycle`, `history`, `handle`, `activeRef` carry the names of
its other state and refs; `shown` is the last render and with it every closure, `disk` the files,
`draft` the browser's storage, `saves` and `opens` the asynchronous functions that wait for a picker or
a file.  `crossed` and `late` record what the properties have to except; no action reads them.

| Actions | Code |
| --- | --- |
| `UpdateWorkspace`, `Undo`, `Redo`, `CommitMutation` | the hook's functions of these names; they start from `projectRef` |
| `ChangeSettings` | the setters of project information, materials and options: a functional update |
| `SelectObject` | `handleSelectAnalysisObject`, from the closure of the last render |
| `CreateObject`, `RemoveObject`, `RestoreTemplate` | objects added and removed, a template of the library restored as the workspace |
| `Render` | a render with the effects for the active object's history and the draft |
| `SaveStart`, `SaveWrite`, `SaveFail`, `SaveComplete` | `handleSaveProjectFile`, `saveArchSightSolverProjectFile`, `completeProjectFileSave` |
| `OpenStart`, `OpenFinish`, `OpenFail`, `NewProject` | `handleOpenProjectFile`, a new project; both end in `replaceProject` |
| `Reload` | the page ends and `createInitialProjectDocumentState` restores the draft |

`NewProject` also stands for opening a public example or a file of an `<input>`, which replace the
project without a file handle.

What an event of the user changes is rendered before anything else happens (`event`), as React flushes
the updates of one browser event before the next.  What a promise changes, a result, a completed save,
an opened file, is rendered some time later, and until then the user acts on the page and the closures
of the last render: a save takes its project from there and its revision from the ref
(`useProjectFileActions.ts:86`, `:87`), a selection or a new object takes all of the project from there.
A functional update moves `projectRef` at once if React has nothing else to render, and in the render
otherwise; both are allowed.  Nothing keeps a file from being saved or opened twice at once.  A render
and its effects are one step.

With all that the properties hold but for the cases they name, each of which the run showed to be
needed.  `crossed` has the files that were saved or read while a save of them was under way, whose
writes nothing orders.  `late` has what was taken from a page that did not show the present project:
`"project"`, the page was another project's; `"content"`, the page's content was older than its
revision; `"clean"`, so it was although the document had no unsaved changes.

| Property | Says | Except after |
| --- | --- | --- |
| `SavedMeansWritten` | without unsaved changes the project is in a file, not always the one `handle` names (section 9) | `crossed`, `"clean"` |
| `HandleIsOfProject` | the handle's file holds this project | that file `crossed`, `"project"` |
| `TimelineInOrder` | past, workspace and future are one line of time of the active object | `"project"` |
| `ReloadKeepsWork` | a reload brings back what no file has; only a new revision changes the content | `crossed`, `"clean"`; `"content"` |

The run `document` has 5,764,084 states (1:39).  Bounds: `Limit = 1` makes every second edit overflow
the history; two edits, new projects and reloads together, and revisions up to 3, are enough for an
edit, its undo and a save of each; two saves or opens are under way at once; two files and two objects,
one of them in a new project, give one that is active or current and one that was, and an object that is
removed and created again.  The constraint `InBudget` takes either many revisions or many files under
way: a save needs a revision of its own to cross only if another step made it.

`ProjectDocumentProofs` proves, for any sets of files and objects and any number of saves and opens:

* `HandleKeepsItsProject`: the file the document calls its own holds this project;
* `SavedIsWritten`: without unsaved changes the project is in a file;
* `ReloadLosesNothing`: what a reload does not bring back is in a file or was a new project without
  an edit, and no step changes the content of a revision (assumes that `None` is no project);
* `TimelineStaysInOrder`: `TimelineInOrder`, for any limit;

each with the exceptions of the table, and no assumption on how saves and opens meet.  None is
inductive.  For the first three, `IInv` joins the shapes of the variables with what page and ref have to
do with the project (`PageFits`), that a file not in `crossed` has one save or opening under way
(`OnePerFile`), what a save wrote and that it carries the content of its revision (`SavesFit`), that the handle's file belongs to the project (`HandleFits`), that a
clean document was written (`CleanFits`), and that the draft is what the last render showed unsaved
(`DraftFits`), as far as `crossed` and `late` let them.

For the history, `AllMade` says that every project that can become the present one (page, ref, files,
draft, saves and opens under way) was made by the edits so far and has one workspace per object;
`HistoryFits` that the history is in order as long as its object is the active one, also between an
edit and its render, and that page, ref and saves of this project have its objects.  A save that
completes late may bring back another active object; it keeps the workspaces, and the next render
empties the history.  A workspace has no number of its edit in the code: `edit` stands for the moment
it was made.

### Several tabs

`BrowserStorage` puts any number of tabs on one browser storage: the draft, the library of templates
and the library of older versions.  A tab, standalone or embedded in a host page, reads them when its
page is loaded and writes them in effects; none hears of another's writes.  The document is cut down
to its last edit and whether it has review points or snapshots of results, which templates leave out;
what happens while a save is under way is `ProjectDocument`'s.

| Actions | Code |
| --- | --- |
| `Load` | `createInitialProjectDocumentState`, `readTemplateState`, `createTemplateLibraryStateFromStorage` |
| `Effects` | the effects that write the draft and the library after a render, or fail to |
| `Edit`, `Navigate`, `Save`, `Replace`, `RestoreTemplate` | what sets the project of a tab and so triggers its effect |
| `SaveTemplate`, `DuplicateTemplate`, `DeleteTemplate`, `ToggleBaseline` | the functions of `useTemplateLibrary` |

`written` names the tab whose last write of draft and library stands; `owned` the templates a tab's
user has.  The run `browser_storage` (4,776,503 states, 1:52) checks that a page that is loaded again
comes back with its project and its library unless another tab wrote since or its last write was
refused (`ReloadBringsBack`), and that what a tab stores is what its user has (`LibraryFollowsUser`).
Bounds: two tabs, since a third only writes what the second can; two edits or templates and a limit
of two, so that a library is full and is made to overflow; one refused write; under the old key
nothing, garbage, or a library whose baseline is gone.

`BrowserStorageProofs` proves both (`ReloadLosesNothing`, `StorageFollowsUser`) and `TypeCorrect` for
any number of tabs, limits, refusals and old libraries.  `IInv` adds to the types that a page's
library is its user's with a baseline of its own (`LibraryFits`), that a clean page shows what is in
a file (`CleanFits`), and that the storage holds what the tab shows that wrote it last and has
nothing left to write (`StorageFits`).

## 6. Results of the workbench

`WorkbenchResults` is the part of the workbench that asks the back end: `useWorkbenchActions.ts`,
`useWorkbenchRuntime.ts`, `result-provenance.ts` and the mutations of results in
`solver-project.ts`.  A model stands for the payload a workspace builds and its signature; results
are known by the model they were computed from and the number of the request.

| Actions | Code |
| --- | --- |
| `Edit`, `RestoreTemplate`, `SelectObject`, `RemoveObject`, `SaveStart`, `SaveEnd`, `SaveFail`, `OpenProject` | what changes the document, its active object or its mode while a request is under way |
| `Render` | a render with its effects, after a promise or the host changed the document |
| `Run`, `RunGenerated`, `SolveAnswer`, `SolveError` | `beginCalculationRequest`, `handleSolve`, its answers and their terminal events |
| `Scan`, `ScanAnswer`, `ScanError` | `handleSensitivity` |
| `ExportStart`, `ExportSend`, `ExportAnswer`, `ExportEnd`, `ExportError` | the export: results, provenance and revision read, figures prepared, request, download |

The project has three copies: `project`, the state of React; `ref`, `projectRef.current`, which
commits start from; and `drawn`, the render that the user and the closures act on.  What an event of
the user changes is rendered before the next event; an answer, the end of a save and an opened
project are rendered later, by `Render`, and until then the page is `lagging`: a selection or a removal takes
the project of the page, a save takes the project of the page and the revision of the ref, and so
does an export (`useWorkbenchActions.ts:369`, `:389`, `:418`).

The run `results` checks:

| Property | Meaning | Excepted, since the code does it |
| --- | --- | --- |
| `CurrentMeansComputed` | what is current, on the page or in the project, was computed from the model that stands there | |
| `RequestsAccounted` | busy flags and terminal events agree with the requests under way | |
| `ResultsNotOlder` | within one document the results of an object never become older | by a selection or a save begun on a lagging page (`late`), by a removal on one, and by what starts from a ref that is behind |
| `DeliveredIsPresent` | what is delivered is of the object on the screen, and is what the object has | the page was lagging when the export was asked for (`fresh` is false), or when an object was selected or a save begun in this revision |
| `ReviewChangesNothing` | a review changes no model and no results | by a selection or a save begun on a page that does not show the review yet |
| `EveryRequestEnds` | every calculation ends; fairness: `fetch` settles, with an answer or an error | |

Each exception is needed: without it TLC finds the case, for the removal with revisions up to 3 and
for the ref with two opened projects, both beyond the bounds of the run.

`WorkbenchResultsProofs` proves the safety properties for any sets of objects and models; the
inductive invariant `IInv` says of every copy of the project, of the file and of what is being saved that
provenance and results of an object fit and carry a number that was given (`Copies`), that requests
under way carry such numbers too (`NumbersFit`), and that a save and an export hold what stands in the
revision they remember, unless a page was lagging (`SavingFits`, `ExportFits`).

Bounds: two objects, two payloads of which one is blocked, calculations and scans two in all
(`MaxAsked`), two requests, saves or exports at a time (`MaxCrossing`), changes by the user up to revision 2,
one opened project, five of these events in all (`MaxEvents`): one request of each kind is late against one
of another, before and after a render, and the revision it compares with is older, the same or of
another project.

## 7. The nonlinear load path

`LoadPath` is the adaptive load path (`nonlinear_path.py`) and the second-order result that
`frame_stability.py` makes of it, from the options a client sends to what is reported.  What a
Newton iteration computes is any of its outcomes; load factors are whole numbers, `Unit` for 1.0.
`MemberRefinement` is the division of members and of their loads, exactly, on a grid.

| Actions | Code |
| --- | --- |
| `Init`, `Begin` | `normalize_frame_analysis_options`, `_normalize_options`, the phases, the choice of a method |
| `Attempt`, `Iterate`, `BreakOff`, `Accept`, `CutBack`, `Finish` | a target of the loop, its iterations, what follows success and failure, the reasons to stop |
| `PDeltaIterate`, `Buckle` | the initial-stress method, alone or in comparison, and the buckling result made last |

`imposed` is what converged and trial state have of the prescribed support displacements: each
attempt adds what its target has more of them than `converged_particular`, by the variable factor
alone (`nonlinear_path.py:173`).

The run `load_path` (296,422 states) checks that steps stay within the normalized bounds and
attempts within what the limits allow, that "converged" means that every load is applied in full and
every support displacement once and in full, whatever was cut back, with one exception: a path of
fixed loads only has none of them (`ConvergedMeansAllLoads`),
that the keyframes are spread over the whole path, that dividing a member keeps force and moment of
its loads, and that each analysis ends.  Fairness: the loop runs (one thread, `WF(Next)`).

`LoadPathProofs` proves all of it but the end, for any request, limits and number of segments, and
that the coordinate never falls back (`CoordinateRises`).  `IInv` is the shapes, what numbers the coordinate, the step and the
counters may be, that the step is in bounds, what an attempt under way and an ended analysis look
like; `ImposedInv` says that the support displacements belong to the coordinate. `EndIsFullyLoaded`
rests on `RefinedKeepsRole`: the path takes its phases from the loads left after the division, so
dividing must not lose a role.

`KeyframesSpreadOverPath` (`KeyframesTellPath`) needs in addition that a target is at most a step
away and not beyond the fixed phase (`KeyInv`).  Its core is `Removed`: at the limit of M frames at
least M - 2 may go, the spans between their neighbours cover the path at most twice, so the smallest is
at most a share of 2 / (M - 2) of it.  M is at least 3 (`KeyframesAssumption`; the code has 48), since
with fewer nothing may be left to remove.  `DivisionKeepsEveryLoad` (`DivisionKeepsLoads`) adds up the
pieces segment by segment (`SumAlong`); that the sums of `MapThenSumSet` exist and do not depend on the
order is proved with them.  Both are inductions, made without an induction theorem: the set of
counterexamples would have a least element (`LeastNumber`, `LeastSubset`).

Bounds: paths of 16 units, or 32 in two phases, steps from 1 to 16, at most 40 accepted steps,
2 cutbacks and 3 iterations, 5 keyframes, members of 3 segments of 2 grid units.

## 8. Editing models

A workspace is edited by the panels and the drawing, read back from its text, opened from a file or
replaced by a template; whatever comes out passes the workspace normalizer of its kind, and is sent
to a normalizer of the service if the diagnostics allow it.

| Module | Code |
| --- | --- |
| `FrameModel`, `FrameWorkspace` | names, lookups, diagnostics; `frame-workspace-normalizer.ts` |
| `TextLine` | `text-model-utils.ts`: how a line of a text is split into words, and which word is a number |
| `FrameText` | `frame-text-model.ts` and `frame-text-load-cases.ts`: what its serializer writes, parsed and applied |
| `FrameNormalizer` | `build_structural_model` and what it calls: hinges, segments, nodal and member loads, what is refused |
| `FrameEditing` | every edit of `FrameCustomModelEditor.tsx`, its sections, `frame-model-edits.ts`, `frame-editor-model.ts` |
| `TrussModel`, `TrussEditing` | the same of the truss |
| `BeamModel`, `BeamService`, `BeamEditing` | the same of the beam, with `normalize_beam_request` and the mesh of `backend/solver/beam.py` |
| `ReviewPoints` | the review points of `WorkbenchCalculationArtifactPanels.tsx`, and `_resolve_requested_point` of `calculation_evidence.py`, which looks them up |
| `ModelEditing` | the three kinds with their review points and the properties, each stated for all of them |
| `ModelTemplates` | the 24 models of `workbench-model-templates.ts` |

An identifier is a stem, a number and the texts that were appended to it, each with its number, which
is what copying, renaming, drafting and reading numbers from a text tell apart.  An appended text may
also be a separator or a comment mark, and `TextLine` says what a parser reads of such a name: its
words, up to the mark.  Every line that gives a name is read through it (`readNames`, `factorLine`,
`readTrussLines`, `readSpan`), so the words of a name move what follows them on the line.  Values of loads, sections, and the
coordinates of frame and truss nodes are left out; lengths and positions of a beam are in
millimetres, since its supports, loads and mesh depend on them.  `redirected` and `renamed` say of
the last step whether the normalizer gave a reference another target, and whether it was a renaming
to a free name.

A node of a frame has its support, the angle of an inclined roller, the directions of its springs
and of its prescribed displacements; what these hold decides whether a frame is called stable and
which displacements remain when the support changes.  Copies of a selection may be mirrored.
Releases of member ends are left out.

The run `model_editing` (657,905 states, 3:10) starts from five frames, three trusses and four
beams that were chosen to have each kind of load, hinges, an inclined roller with a spring, a
displaced pin, moved supports, a support more than the spans ask for, load cases, combinations and names that were copied; three edits of
the smallest frame, two of every other model: two suffice for "change one thing, then something that
refers to it", and every state they reach is also normalized, written as text and read, sent, divided
and asked for its review points.  `MaxNodes` to `MaxLoads` are small enough that a third object meets
the limit, `MaxOnNode = 2` springs or displacements the second, `MaxReviews = 1` the second review
point; `Angles` are 0 and 45, since only 0 may be mistaken for none; `TypedLengths` has a length below zero,
none, one below the 10 cm that dragging a joint leaves, and an ordinary one.  Typed names are in use or
new, are two words whose first is in use ("LC1 2", "M1 N2") or are cut by a mark ("X#1"); `BeamNames` has
also a number, a name whose second word is a number, and names that are taken for the number of a
support or node.  Three frame, one truss and
three beam templates are applied as edits.

`MCModelEditing` also evaluates assumptions: starting models are normal and sendable; every regular
frame (1–5 bays, 1–4 stories), truss (2–8 panels) and beam the panels generate is whole and held;
*every* template, under the limits of the code (`Code`), is kept by the normalizer, accepted by the
service, survives its text and keeps its loads, and each truss has enough bars; which templates do
not stay what they are called; when a review point is no longer found.

`SentIsAccepted`, `TextKeepsModel`, `NothingRedirected` and `RenameKeepsShape` name their
exceptions; each is a limit of the code listed in section 9.  `frame_roles` (violation) shows that a
fixed load on a member with hinges becomes a variable one.

`ModelEditingProofs` proves `ReopenKeepsModel` (`SavedModelsReopen`), for every limit, start, template
and input.  The property is about what a normalizer does to what a normalizer has made, and it is not
inductive: that reopening changes nothing does not say what an edit will be handed.  `ModelFits` does:
the model is of its kind, with numbers and identifiers where the types have them, and *fit*, which
spells out what the normalizer would put right.  For a frame (`FrameFits`) these are
the limits of each collection and of what a node carries, distinct names, ends and targets that exist
where anything does, hinges inside the member, factors of cases that exist.  A beam (`BeamFits`) has
spans of positive length, and its supports, ranges and loads, also those of its cases, lie on it.
The proof has three parts:

* What the normalizer makes of *any* model of its kind is fit, and a fit model is what it makes of
  itself (`FrameBecomesFit`, `TrussBecomesFit`, `BeamBecomesFit`).  Names are made distinct one after
  the other, so `normalizeTextId` is followed along the sequence (`NamedSoFar`, by `LeastNumber`); that
  a free number is always found is counted (a pigeonhole, `firstUnused`).
* Each of the hundred edits hands the normalizer a model of its kind (`FrameSteps`, `TrussSteps`,
  `BeamSteps`): drafts, copies and arrays, what a text says line by line, generated models.
* So every commit is fit (`EditKeepsFits`), and the models a session starts from are, as they are what
  the normalizer makes of them (`StartsAssumption`, which the code grants: a workspace is made or opened
  by the normalizer).

The other assumptions are on templates (`TemplatesAssumption`: of their kind and whole;
`BeamTemplatesAssumption`: supports on the beam) and on inputs (`InputsAssumption`: names are names and
numbers are numbers).  `model_editing` evaluates them.

Only model-checked: `NothingRedirected` and `RenameKeepsShape`, which compare the model before and after
each edit and would need what each of the hundred edits does to every reference (analysing them for a
proof showed exceptions of beams that no input of the run had met: lengths below zero or 10 cm, names
like `S9`, more supports than asked for; the properties now name them and the run meets them);
`TextKeepsModel`, `SentIsAccepted` and `LoadsSurvive`, whose texts, segments and meshes are
computed from the model by sorting, by splitting lines and by chains of names, for which the provers would need inductions
of their own.

## 9. Observed limits

What the models show and no document denies.

Jobs and sessions:
* A heartbeat that is late by the timeout lets another process report a job as lost that is running.
* When `update_job` cannot read back what it committed, `_run_job` takes it for a failure of the job
  and writes `failed` over `succeeded` or `cancelled` (`job_store.py:259`, `jobs.py:156`).
* A snapshot later than the client's timer makes the frame refuse the next save, and the client
  then gives the session up.
* A launch updates `projectRef` only in its render: an edit on the page of the project before, or a
  result committed to it, starts from that project, which then replaces the launched one in the new
  session (`useSolverProjectDocument.ts:161`, `:219`, `:298`).
* A save started inside the frame has no request the host could answer, so it never ends; a save of
  the host that meets it is refused, and the client gives the session up.

Documents:
* A save writes the project of the last render under the revision of the ref
  (`useProjectFileActions.ts:86`, `:87`).  Started between the commit of a result and its render, it
  marks as saved what it did not write; when it completes, it puts the project without the result back.
* Nothing orders two saves of one file, or a save and an opening of it: what is shown as saved may be
  in no file.
* Until an opened project is rendered, an edit may start from the one before (`projectRef`), and a save
  started then writes that one, and puts it back in the place of the opened one when it completes.
* Of two saves of one document to two files, the one that completes last sets the handle
  (`useSolverProjectDocument.ts:276`), even if it saved the older revision; a save that completes
  after a template was restored attaches the old file again, and the next save overwrites it.
* A template of another analysis type replaces the active model by the default one
  (`restoreWorkspaceSnapshot`); undo brings it back.
* Writes to the browser's storage that fail are swallowed.  Of several tabs, one that becomes clean,
  or only looks at another object while it is, clears the draft of the others; one that writes its
  library drops the templates the others stored since it was loaded.
* A deleted template stays under the key of older versions (`beam-deflection.template-library`), and
  in the library too if the browser refuses the write, although the dialog of
  `TemplateLibraryPanel.tsx` says that the stored data goes with it; a library that cannot be read
  brings the old templates back.
* Built-in templates written by `project_workflow.py` are stored in a form the workbench does not
  read, and `solve_project_document` drops the loads array, load cases and enabled flags of a beam
  saved by the workbench.

Results and load path:
* An export asked for before the render of a new result is made of the results and the payload of
  the render before, under the present revision, so both later checks pass
  (`useWorkbenchActions.ts:369`, `:389`, `:395`, `:445`, `:480`); the export buttons are not disabled
  while a calculation runs (`WorkbenchResultToolbar.tsx:121`).
* An object selected or removed before that render, or a save begun before it that completes, takes
  the new result out of the project again.
* A scan makes the results of an older model current again
  (`commitAnalysisObjectSensitivity`, `solver-project.ts:435`).
* After a cutback of a step that was clamped to the end, the next attempt may have the same target
  (`nonlinear_path.py:423` halves `step_size`, not the clamped step).
* In `fixed_only` mode the compared load factor is 0, and since support displacements are scaled by
  the variable factor alone (`nonlinear_path.py:173`, `:712`) and do not count for the mode (`:117`), they
  are never imposed: the path converges without them and is compared with methods that have them
  (`frame_stability.py:306`), although `docs/v1.8.1-plan.md:92` lists them among the loads to be
  verified or refused one by one.

Frames and trusses:
* Renaming a node to a name in use moves its members and loads to the other node; renaming a load
  case to a name in use, which each keystroke commits, overwrites that case's factor.
* What exceeds a limit is cut without a word and references to it go elsewhere; the message about
  limits in `solver-payload.ts` cannot appear for these models.
* Nodes that share a number, as a node and its copy do, are one in the text; hinges and load roles
  are not in it; the truss text drops loads on members.
* The text writes the angle 0 for a support that has none, and a roller with an angle holds the
  direction across it: read back, a level roller holds x instead of y
  (`frame-text-model.ts:453`, also in the template `inclined-member-local-load`), and a fixed or
  pinned node keeps the 0 for a later change to a roller.  Two springs or displacements of one node
  in one direction become one.
* Opening a file redirects dangling references, so a model that was blocked can become sendable.
* A load case with a distributed load on a hinged member makes the service fail
  (`structural_model_loads.py:58` uses `interpolate` without importing it); hinges can lead to
  segment names that are taken, or to more nodes than allowed, after the diagnostics passed.

Review points:
* No edit updates them: one that names what was renamed or removed makes the service refuse the whole
  calculation, and the panel that could delete it is shown with results only
  (`WorkbenchResultContent.tsx:70`), so in a project that was reopened only undoing or resetting helps.
* One of a member is lost when the member gets a hinge, since results speak of its segments; one of a
  node of a beam means another place when a span is inserted before it; one of a node that was drafted
  after a section keeps the position typed for the section, and is computed there.
* Resetting a beam (`BeamForm.tsx:481`) drops its review points and snapshots; templates keep them.

Beams:
* The templates `fixed-fixed-uniform` and `propped-cantilever-point` do not state what their
  supports hold, and the normalizer takes `["v"]` from the default layout whatever their type
  (`beam-workspace-normalizer.ts:93`), so in the project the ends are simply supported; applied
  and run at once, the template is sent as it is.
* Supports are cut at 32 although 300 spans are allowed; an edit of a span puts moved supports back.
* A length that is cleared becomes 4 m, with supports laid out for 0; one below zero can be typed
  (`BeamSpanEditor.tsx` sets no minimum) and becomes 4 m too, with supports laid out off the beam.
* On a beam that is shorter than 10 cm a support can be dragged off it
  (`model-workflow-actions-beam.ts:11`), and moving the joint of two spans that are shorter together
  leaves a length below zero (`:34`); the normalizer moves what is off the beam to its ends.
* When a span is named, supports called `S9` or the like get back the number of their place unless
  one of the supports has a name of another form, and supports more than the spans ask for go.
* A load case with other than one load, or with a uniform load of no length, is refused by the
  service although the diagnostics are ready.
* Loads of load cases are in metres and the others in ratios, so shortening a beam clamps only the
  former; a uniform case load without a range is shown over the whole beam and computed over the
  main range.
* Switching linear loads off and on keeps only the first; one vertical restraint passes the diagnostics; a range given from its end is turned round
  without its intensities.

Names in texts (no editor refuses such a name, no serializer escapes it; `text-model-utils.ts:13-33`):
* A beam span named by a number loses its name, the number becomes its length and its length its
  stiffness (`beam-text-model.ts:181`); of a span named "X 3" the 3 becomes the length.
* A truss node whose name has a blank gets the first word as its name, and is free, as a coordinate
  stands where its support should (`truss-text-model.ts:42`); loads of load cases, which the text leaves
  alone, then refer to a node that is gone, and the normalizer moves them to another.  A member named
  "M1 N2" begins at N2 and ends where it began (`:50`).
* Load cases and combinations of a frame keep the first word of their names; behind a name with a blank
  or a mark a factor is read from another word, or is 0 (`frame-text-load-cases.ts:102`).
* A name with a comment mark cuts its line, and what is left is filled up.

Such a text is applied without a diagnostic, unless a word stands where a number must, a line of a beam
is too short, a support of a beam has such a name, or a load case that has loads (`Misread`).

`TextKeepsModel` asks for names that are words, and for spans' that are no numbers; `NothingRedirected`
excepts the step in which the text of another model is applied.  The run meets each of these cases.

## 10. Not modelled

* Solvers, recovery, buckling and benchmarks: floating-point numerics on one thread without state
  between calls; the repository's own benchmarks compare them with references.  Of the beam solver
  the mesh is modelled.
* Presenters, contracts (but for the lookup of review points), exporters, reports, figures:
  conversions of one value into another, whose content is wording, units and layout.
* Validation of requests and messages appears as the outcome it has (accepted or refused).
* Capability negotiation, portal actions and themes of the host protocol: they change nothing of
  the session.
* Portal frames (the workbench no longer offers them), sections and materials, releases of member ends
  and the condensed directions they give, coordinates of frame and truss nodes, magnitudes of springs
  and displacements, and the drawing itself.
* Documents: downloads without a file handle, read-only mode in `ProjectDocument`; names and time
  stamps of templates, and the conversion of snapshots of old versions.
* UI, analytics, CLI, MCP tools, packages, build scripts: rendering, one-way reporting, or one
  sequential command each.

The models cover a small share of the repository's lines by count.  Most of what is left is React
markup, user-visible text, type declarations, and numbers; it keeps no state of its own and has no
behaviour that another step could disturb.

PROJECT.json lists all components and their sources.

## 11. What is left

* What no theorem can state here and TLC alone checks: the liveness properties `EveryJobSettles`,
  `EverySaveEnds`, `HostNeverHangs`, `EveryRequestEnds` and `AnalysisEnds`.  Not proved: the
  properties of `ModelEditing` but `ReopenKeepsModel`, for the reason section 8 gives.
* Portal actions in `HostSession`; releases of member ends and the selection on the canvas in
  `FrameEditing`; the comparison of snapshots of results.
