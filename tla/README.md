# PalWakf Workspace Manager in TLA+

A formal model of the orchestrator behind the PalWakf Workspace Manager
(`orchestrator/src/palwakf_orchestrator`): what it does when several processes,
workers, callers and failures meet, checked with TLC and, where it matters most,
proved with TLAPS for every value of the constants.

Paths below are relative to the repository root; Python files without a
directory are in `orchestrator/src/palwakf_orchestrator/`.

## 1. The system

A Python service (FastAPI plus an MCP mount) keeps projects, tasks and evidence
for engineering work done by agents; a Flutter application (`lib/`) shows and
drives it; a few command line programs (`orchestrator/scripts/`) use the same
services from other processes.

How things run, which decides what can interleave:

- most HTTP and MCP handlers are coroutines of one event loop; a service call
  without an `await` is atomic for the other coroutines, and each `await` is a
  point where anything else may run;
- the four-system L4 endpoints are plain functions (`four_system_l4.py:431-519`),
  which FastAPI calls in a pool of threads: they interleave with each other and
  with the event loop, also between a `load` and a `save`;
- a CLI or a second service process interleaves anywhere between a `load` and a
  `save` of the state store, which is one JSON document saved whole
  (`persistence.py:175-197`), and is kept out only where it takes a row of
  `repository_writers` (`persistence.py:198-231`);
- the file apply engine and the external workspace change files and run git;
  nothing ties those effects to the state document but the order of the code.

| Component | State | Operations | What makes it correct |
|---|---|---|---|
| File apply (`transactional_file_apply.py`, `governed_file_apply.py`) | worktree, writer row, journal, captured preimages | plan, apply (stage, write, read back, roll back) | all or nothing; one writer; no foreign bytes overwritten; the journal tells the truth; resumable |
| Connected service and operator tasks (`connected_service.py`, `operator_service.py`, `service.py`) | task records, queue, workers, repository locks, writer rows, running executions | dispatch, continue, cancel, verify, manual relay, start, stop, recover | no lost dispatch; no duplicate execution; one execution per repository; rows released |
| Outbox (`transactional_outbox.py`) | rows with status, lock, attempts | enqueue, claim, mark, retry | exclusive claims; at least once; nothing after DISPATCHED |
| State store (`persistence.py`) | one document, writer rows, backups | load, save, acquire, release, backup, restore | a writer row has one owner; no lost section |
| Four-system L4 (`four_system_l4.py`) | runs with their stages and checkpoint chain | open, record agentic, record mind, acknowledge, decide | stages in order; nothing accepted unearned; replays change nothing |
| RDC session (`rdc_session_resume.py`) | sessions in memory and in the document | start, record, interrupt, resume, relay, complete, restore | every action is vouched for by a preflight on just it; what is saved is never ahead of what was done |
| External workspace (`external_execution_workspace.py`) | worktree, record, remote branch | prepare, apply, validate, checkpoint | one commit per checkpoint; the published head is the recorded one |
| Retry guard (`failure_retry_guard.py`) | registries of known failures, observations, decisions | import, observe, decide | no blind repetition of a failed action |
| Parallel coordinator (`parallel_development_coordinator.py`) | scope leases, merge queue | acquire, release, enqueue, require, mark integrated | no two leases of one file; entries are integrated in order and once |
| Registries and inboxes (`decision_registry.py`, `project_change_inbox.py`, ...) | histories of validated snapshots, items of changes | import, bind, register, synchronise, transition | one record in force; histories only grow; nothing is approved that was not decided |
| Incidents and learning (`incident_learning_engine.py`, `learning_closeout_gate.py`) | incidents, candidates | open, classify, bind, verify, close | a closed incident has its lesson, verified on the evidence of its time |
| Execution runs, direct execution, skills | runs, sessions, skills in stages | create, verify, roll up, execute, admit | accepted on evidence for the head at hand; a skill is loaded after its whole course |
| Decision functions (`capability_router.py`, `policy_decision_engine.py`, `risk_adaptive_execution.py`, ...) | none | pure | fail closed; what is chosen is allowed, there and certified |
| Local session and auth (`local_session.py`, `auth.py`) | links, sessions, request times | issue, redeem, authenticate | a link opens once and in time; the rate is bounded |
| Projects (`project_service.py`, `project_health.py`) | records, reports, health | intake, probe, prepare, transition | a repository has one project; a record says what its report says |
| Portfolio, graphs, dashboards | read models | rank, trace | closures and paths over the dependency graph are right |
| Flutter application (`lib/src`) | controllers | load, submit, authorize | late answers do not overwrite newer ones |

`PROJECT.json` lists every part with its files under `components`, and under
`hazards` the places where this code is hard to test, with the properties that
would notice.

## 2. Plan

The order is that of importance: what can destroy work comes first.

1. `FileApply` with the abstract `AtomicApply` (done; its safety and the refinement
   proved).
2. `OperatorDispatch` (done; its safety proved).
3. `Outbox` with the abstract `Delivery` (done; refinement proved).
4. `ExternalWorkspace`: runs, clones and checkpoints of other repositories
   (done; its safety theorems proved).
5. `StateDocument`: the document that everybody saves whole, under the event
   loop and the L4 threads (done; its safety proved).
6. The services that keep a section of the document each, one module per
   group, run together by `Sections` (done; its types and what it does one at a
   time, keeps, grants and answers are proved): sessions, leases and the merge queue, the retry guard and
   incidents, the registries and inboxes, execution gates, skills, direct
   execution, external projects.
7. The decision functions as operators checked against a definition that does
   not compute them (done, in `Policies`, `Instructions`, `CriticalPath`).

Left: the GitHub client, backup and restore, and the request generations of the
Flutter controllers.

## 3. Modules

### FileApply, AtomicApply

`FileApply` is one repository with several processes, each calling the engine
with its own manifest. A file's bytes are reduced to what `_classify` tells
apart: absent, the committed preimage, a request's postimage, the same text
with other line ends (`Partial`), anything else (`Foreign`). `pc` is the
position in `apply`; the sub-steps that another process can see are separate:
the temporary file and `os.replace`, the replacement and its read-back, the
load and the save of the journal. `Leave` is the `finally` block. `planOnly` is
the CLI's `--plan-only`. `Crash` loses what is in memory and leaves the row and
a temporary file; `Edit` and `MoveHead` are the user.

Abstracted: the order of paths within a manifest (any order is a behaviour), the
two loads of one journal update (one load here), failures of the journal's own
save, path normalisation and symlinks.

`AtomicApply` is what the engine promises: a manifest changes all its targets in
one step or none, and each torn apply costs a failure. The refinement maps the
worktree to itself except that a path replaced by a run still under way shows
its captured bytes (`Overlay`); the abstract step is the last read-back.

### OperatorDispatch

One asyncio process. A worker's `wpc` is the suspension point it is at (waiting
for the queue, for the repository lock, for the execution, for CI), `exec` the
asyncio task that runs `dispatch_task`, `inner` the one that
`OrchestratorService.dispatch` keeps per idempotency key: `_execute` waits for the
planner (`planning`) and then for the gateway (`running`), and what a client does
to the record in between is not read again (`PlannerAnswers`). A `wait_for` that runs
out of time is `Expire`; what it does once the execution is unwound is
`Complete`. `stop()` is three steps: cancel the executions, gather them, cancel
the workers and wait for them; `Runnable` says what the gather lets the workers
do first. `Start` is recovery. Client calls are guarded by the code's
conditions on the record and choose everything else (authorization, heads,
evidence) freely. Left out: host binding, audit log, capability routing,
`record_external_execution_result`.

### Outbox, Delivery

Dispatchers claim a batch of the oldest due rows, call the transport for each
and settle it. A transport that raises may or may not have delivered
(`Transport`). A dispatcher that dies leaves its rows IN_FLIGHT for good, as the
code does. `Delivery` is at-least-once delivery that ends with DISPATCHED.

### ExternalWorkspace

Execution runs of one engineering task. A run has an operator task, a link, a
clone with a HEAD and files, and a stored workspace status; the task branch on
origin and the writer row are shared. The handlers do not await, so `call` is the
one call under way and where it stands. `Checkpoint` is `checkpoint` up to the
writer row; then one action per effect: `NewCommit` or `OldCommit` (a commit left
by an interrupted call), `Push`, `Readback`, `RecordResult` (the operator
service), `CheckpointParent` (engineering OS), `SaveCheckpoint`. `StepFails`,
`BranchDrift` and the failing disjuncts are the `except` and `finally` blocks
(`Blocked`). `Fault` is a failing git command or load, `Crash` the death of the
process, `Edit` somebody in the clone, `OtherPush` somebody on the branch,
`AdoptHead` the engineering task's own checkpoint, which believes the caller.

Abstracted: file contents are versions and a commit is the run's name and a
number; the file apply engine is taken as atomic, or cut short by a crash
anywhere; the checks pass, fail or rewrite a file. An operator task of a run is
here either in its run or already recorded: its dispatch through the queue is
`OperatorDispatch`'s.

### StateDocument

The row of `application_state`, reduced to two sections: the operator's tasks,
which the event loop keeps in memory (`tasks`) and writes back whole, and the L4
runs, which are read from the document each time. `loop` and `copy[t]` are what
the event loop and a thread have loaded and are about to save. `Get` is the read
of a run and every check of its handler; an acknowledgement reads the run a
second time (`AcknowledgeSovereign`) for the envelope it compares, and adds the
acknowledgement to the first; `LoadDocument` and `SaveDocument` are `_save`. A
request that is refused, or a replay, changes nothing and is no step. On the
loop, `Transition` is a change of a task and the load of `_persist`, `Persist`
its save, and `LoadOther` the load of any other section's writer (the audit
trail, the engineering tasks). `Restart` is `_restore` and
`recover_interrupted_tasks`. `raced` remembers that two accesses overlapped.

Abstracted: an operator task is the status of its key (`done` is any state with
an execution receipt, `failed` any other end); the saves of one dispatch
(create, bind, plan, queue) are one, and its audit entry is a `LoadOther`; a run
is its correlation, results and stages, and its chain is the list of stages; an
acknowledgement names the envelope it found, as a client that read it just
before would, so the comparison fails only as `Abandon`. The loop's own saves do
not fail.

### The sections: StateSections, Sections and the modules between

Most services are plain methods of an object that loads the document, decides on
its own section, replaces it and saves. On the event loop such a method is one
step; a method that raises has saved nothing and is no step. `StateSections` has
the three variables all of them share: `state`, the document by section;
`memory`, what a service of the running process keeps besides (and forgets or
restores); `outside`, what is read from elsewhere (heads, clocks, GitHub) and what
a caller was last told. `Save` replaces a section; `Keep` is for sections that are
written from memory.

| Module | Models | Steps worth noting |
|---|---|---|
| `ParallelDevelopment` | `parallel_development_coordinator.py` | leases compared by prefixes; the queue under heads that move; the same task enqueued again |
| `RdcSessions` | `rdc_session_resume.py`, the preflight of `rdc_execution_channel.py` | memory changes before the save, which may raise; `RestoreSessions` |
| `LocalAccess` | `local_session.py`, `auth.py`, the middleware of `api.py` | `Tick`, purges, a restart that forgets links and sessions |
| `FailureLearning` | `failure_retry_guard.py`, `incident_learning_engine.py`, the guard in `operator_service.py`, the route in `github_execution_channel.py` | every way a task leaves `failed`, of which only `continue_task` asks the guard; recovery of tasks; an incident closed in two saves with a death in between |
| `DecisionRegistries` | decisions, lifecycle decisions, knowledge | a snapshot is validated whole; imports of a known revision |
| `ChangePropagation` | graph, contracts, material changes, project inboxes, impact | each registry checked against the others of its time |
| `DecisionInbox` | `portfolio_decision_inbox.py` | a view, compared with what the gates would refuse |
| `RuntimeRegistries` | agent census, environments, database catalogue | receipts, repeated and changed snapshots |
| `EvidenceGates` | acceptance, closeout, five-part success, review, rollup, verification in `operator_service.py` | an accepted decision that stays in memory; another task's save; restart; a run that goes on after it failed or was verified (dispatched again, failed, continued, cancelled, packaged, relayed, imported) |
| `Policies` | policy, capability router, pilot | answers only |
| `Admissions` | skills, direct execution, readiness | a session is recorded only at its end |
| `ProjectRegistry` | `project_service.py`, `project_health.py`, the identity rules of `project_reality.py` | a probe saves, after its wait, the copy of all projects it loaded before |
| `Instructions` | `pre_l5_instruction_resolver.py` | which instructions govern, with or without a registry |
| `CriticalPath` | the critical path of `portfolio_intelligence.py` | the queue of projects and the relaxation turn by turn, as recursive functions |

`Sections` composes them. A method of one group touches its own sections only, so
the product of all groups would only multiply states: `part` picks, in the
initial state, the group whose calls a behaviour has. The exception is the record
of an operator task, which three modules look at from three sides and none has
whole: `tasks` of `FailureLearning` is its status with the failure it ended in
(everything past a result is `over`), `run` of `EvidenceGates` its result with the
evidence for it, and `OperatorDispatch` its way through the queue, the locks and the
executions. Each has every call that changes the side it looks at, under the
conditions it can see, and takes what the others decide as free. Where services do meet
(decisions and knowledge; failures, retries and the operator's tasks; graph,
contracts, changes and inbox; intake, probes and tasks of projects), they are in
one part. A pure question is asked in an initial or reached state, and its answer,
which changes nothing, ends the behaviour.

`History` is the abstract specification: logs that only grow and a set of what is
settled, that only grows too. `Histories` and `Settled` map the sections to it:
all registries, observations, decisions, leases and queue entries; completed
sessions, resolved changes, closed incidents, rejected and revoked skills, direct
sessions, merged entries, transitions of health, and each project
with its adapter and its repository. The last is where the code is weakest: a
project counts as settled only when every probe in flight has loaded it so. A
verified operator task is not settled: `fail_task`, a manual package, the relay and
an imported result move it on, as the violation `VerifiedIsFinal` shows.

Abstracted: hashes are the contents they hash, times are small numbers, a glob is
its prefix and whether it was cut within a name, evidence is what it is bound to.

## 4. Runs

| Run | Instance | What it shows |
|---|---|---|
| `apply_edits` | 2 processes, 2 files, 2 manifests that overlap on one file; 1 edit or move of HEAD, 1 fault | mutual exclusion, no stolen postimage, complete rollbacks |
| `apply_retry` | the same, no edits, 1 fault, 1 crash, repeated calls | refinement of `AtomicApply`, truth of VERIFIED, release of the row, progress after a crash |
| `apply_crash` (violation) | 1 process, 1 fault, 1 crash | ROLLED_BACK with postimages in place |
| `dispatch_safety` | 2 tasks of one repository (a reader with a relay that waits for CI, and a writer), 2 workers, a queue of 1, 1 crash | exclusion, the writer row, no duplicate and no lost dispatch; the gateway is started only for a task that is still wanted |
| `dispatch_live` | a writer that waits for CI, a reader; queue of 2 | a queued task is served, rows are released, `stop()` returns when it can |
| `dispatch_cancelled`, `dispatch_reverify` (violations) | the same | a task cancelled in the lock queue starts; a verified task is failed |
| `outbox_deliver` | 3 distinct messages and one that repeats a key and an id, 2 dispatchers, batches of 2, 2 errors, 1 crash | all outbox properties |
| `workspace_run` | 1 run, a path in scope and one outside, 2 versions, 2 commits, any 2 of a fault, a crash, an edit, a foreign push | published heads, one result, the validated files are committed, an interrupted checkpoint is completed |
| `document_overlap` | 1 run, 1 key, 2 results of which one passes, 2 threads, 5 L4 requests, 5 saves of the loop, 1 restart | whole runs, earned acceptances; stages in order and no rollback or repetition without overlap |
| `document_repeat` (violation) | the same | a finished key is executed again after a restart |
| `sections_run` | see below | one lease per file, one session per link, one record in force, one project per repository; grants rest on evidence for just that; answers agree with independent definitions; histories are kept |

Why the bounds are enough: the file apply hazards need two processes, one file
both change and one file only one creates; a second crash or fault adds no new
pair of steps. Two tasks and two workers on one repository make one wait while
the other runs; a second command for one task is the retry; a full queue needs
one slot. In the outbox two dispatchers and three messages make batches
overlap, and two errors let a message fail twice. One run of an engineering task
meets the others as a branch that moves (`OtherPush`), a head that moves
(`AdoptHead`) and a row that is taken (`OtherWriter`); the theorems hold for any
number of runs. Two mishaps are what a second, conflicting commit takes: a crash
after the result is recorded, and a branch deleted before the run is cloned anew. An L4 run has five stages,
so five requests take it to its end, and two threads at once are what an overlap
takes; two runs add nothing, since each save carries the whole document. Five
saves of the loop take a task to its end, or through one failure and half way
again, and leave the repetition after the restart. The two threads are
interchangeable and no property is about fairness, so their symmetry is used.

In `sections_run` each part has two or three of everything that can be confused:
two repositories and four tasks whose scopes nest, touch or differ; two sessions
with two actions; two links, principals and a window of two requests; two
registries of failures by different authorities; decisions of which one
supersedes another, in two snapshots; three graphs and contract registries that
do and do not fit together, with two changes; censuses, environments and
catalogues that are in order and one step out of order; evidence for two heads, and a relay that brings another result for either;
up to three policy rules in two layers; 127 sets of instructions against every
valid registry of the pool; all 512 graphs of three projects and all 64 forward
graphs of four. Two project names, two repositories that GitHub renames and
replaces, and two probes at a time, three in a behaviour, are what it takes for a
stale copy to undo an intake and for the next probe to bring back the old record.
Histories are cut at two or three entries: one to be there, one that repeats or
contradicts it, one after. Every action fires, and each named property was broken
by a changed definition of its own module (the operators marked `mutant`), also
where PROJECT.json, which has one per property of the run, does not list it.

Deadlock is checked except where the system stops: `stop()` can hang (see
below), the outbox ends when everything is dispatched or abandoned, and an
execution run is done when it is verified, and a document's requests and saves
are bounded; in `sections_run` answers and bounded histories end a behaviour.

Fairness: a call that was made keeps running unless its process dies (WF of each
process's steps); in `apply_retry` callers repeat a call that returned (SF of
`Begin`, since a refused call returns in between). The event loop runs what is
ready and timers fire (WF of workers, tasks, `Expire`); the gateway and the
clients owe nothing. Dispatchers poll and time passes. The transport succeeds
eventually only because `MaxErrors` bounds its failures. In `workspace_run` a call
that was made goes on (WF of `Continue`), and the caller repeats a checkpoint
while it is answered (SF of `Checkpoint`, since other calls come in between).

## 5. What the violations show

- `RolledBackIsUndone`: after a crash half way, the next run of the same
  manifest classifies what was written as ALREADY_POSTIMAGE, does not capture it
  and does not roll it back, so ROLLED_BACK is journalled over a torn apply.
- `CancelledNeverRuns`: `_worker` looks at the status before it waits for the
  repository lock and not after.
- `VerifiedIsFinal`: a client verifies while the worker polls CI; the worker's
  `verify_task` then raises and the handler fails the verified task.
- `RepeatReturnsPersistedTask` (`orchestrator/README.md:50`): an L4 thread loads
  the document, the event loop saves a task's result, the thread saves its copy.
  Memory still has the result, and the next save of the operator section would
  repair the row, but the process ends first: at the start the task is missing
  or recovered as failed, and its key is executed again.

Met while modelling and kept out of the runs: two runs of one task id share the
re-entrant writer row (the theorem assumes distinct tasks); a continued task
that already has a receipt stays "running"; `stop()` waits forever for a worker
whose cancellation is swallowed by `_execute`; a cancelled execution stays under
its idempotency key so that retries end cancelled; an IN_FLIGHT outbox row of a
dead dispatcher is never claimed again; a row a dead process left stays when its
task's target was changed meanwhile; a validation or a reuse of the clone after
an interrupted checkpoint drops the validation that the local commit needs, and
the commit can then never be recorded; `checkpoint` compares validated paths, not
contents, so a failed or interrupted apply or an edit of a validated file is
committed unvalidated (`CommitIsValidated` holds without them); a task verified
between the recording of its result and the engineering task's checkpoint leaves
the engineering task's head behind; of two L4 requests at once one is lost, an
acknowledgement can be saved on a run without the review it acknowledges, and a
save of the event loop can roll back a stage that was answered (`RunsInCourse`
and `NothingRolledBack` hold without overlap); a result that is imported by the relay
while the planner works does not stop the gateway, which runs after it and replaces
the result (`GatewayIsWanted` excepts it; in the model); `_git_scalar` strips the
output of `git status --porcelain` as a whole, so a first line ` M path` loses its
blank and is refused as malformed (`external_execution_workspace.py:914`).

Met in the services of the sections, and how the model treats it:

- Probes (`project_service.py:84-149`): an intake or a probe that ends while
  another waits is undone; a project taken in may vanish and come back with
  another adapter. In the model; `KeepsWhatIsRecorded` speaks of what no probe in
  flight can undo. A blocked project still yields tasks from its old report.
- Leases: patterns are compared by the text before the wildcard, so a wildcard
  inside a name (`src/a*`) does not meet what it matches (`src/ab`).
  `LeasesAreDisjoint` says so for other patterns.
- Merge queue: enqueued again after INTEGRATED, a task gets the id of its old
  entry, the new entry is never found and blocks the ones behind it;
  `mark_integrated` accepts a head that did not move.
- RDC: the flag of a manual relay is never reset. An authority reference is
  believed, here and in the retry guard, skill reviews and rollups.
- Ways out of `failed`: `docs/contracts/SELF_HOSTING_OPERATIONAL_LOOP_V1.md:18` says
  "failed -> pending only through an explicit Continue action". `generate_manual_package`
  makes any task pending at its first package, without a look at its status; dispatch of
  the existing task and what the relay marks take a failed one to queued and running;
  `authorize_task` clears its blocker, after which `continue_task` has nothing to ask the
  guard about. All of them are actions of `FailureLearning`, so no property claims that
  the guard is always asked; what holds is that it decides rightly where it is
  (`RetriesAreInformed`).
- Retry guard: only the latest observation counts, so a failure in one state, one
  in another and a retry in the first is allowed; failures of a restart are not
  observed.
- `close_incident` saves twice; a death in between loses the candidate and a
  repetition is refused.
- Impact: a project that depends on the owner of a change, and on none that the
  change names, is answered NO_IMPACT; a DEFERRED item clears a blocking change.
- A snapshot of events, census or environment that is sent again is refused, since
  its hash has the time; `replace_schema_snapshot` leaves the catalogue behind.
- Acceptance: TESTS is passed when tests are named; an accepted decision without
  its closeout stays in memory; a rollup does not check that the run is of the
  parent; `lstrip("./")` in `_scope_violations` lets `.env` pass as `env`.
- Instructions: two that supersede each other are both dropped, and their key has
  no governing instruction.
- A direct session that is cut short by the end of the process leaves no record.

## 6. Proofs

Each theorem holds for every value of the constants that the named assumptions
of the modules admit; TLC evaluates those assumptions for the runs.

`FileApply_proofs`: `TypeCorrect` for any constants; the others under
`DistinctTasks`, two processes do not apply for one task, because the writer row
is re-entrant for a task and excludes nobody of the same one.
- `OneWriterHolds`, `NoStolenPostimageHolds`: a process inside the `try` block
  owns the row (`RowInv`: `locked[p] => writer = TaskFor(p)`, with the steps at
  which `locked` holds); exclusion follows because tasks are distinct. For the
  stolen postimage it adds that a path being written is not at another request's
  postimage, which survives only because no other process is mutating.
- `RollbackLeavesNoPostimageHolds`: from the preparation to the end of the rollback,
  a file that is not yet replaced, or restored again, is at the postimage only if it
  was so when its bytes were captured (`UndoInv`).
- `VerifiedIsAppliedHolds` and `ImplementsAtomicApplyHolds` also assume
  `MaxEdits = 0`, no editor, as the run that checks them does: an edit falsifies a
  journal that says VERIFIED, and no engine can help it. The refinement is proved
  step by step: the last read-back is the abstract apply, a step at which a
  capture is lost or a crash tears an apply is the abstract failure, and every
  other step leaves the overlaid tree as it is, because a file that a run under
  way changed shows the bytes that it captured.

`OperatorDispatch_proofs`: `TypeCorrect` and, for any tasks, workers, repositories
and capacity of the queue, `OneExecutionHolds`, `WriteHoldsRowHolds`,
`QueuedIsWaitingHolds`, `RunningIsAttendedHolds`, `NoAutomaticDuplicateHolds`,
`GatewayIsWantedHolds`. One invariant carries them: a worker with a task stands
in the queue of its repository's lock, once, and at the head of it from the moment
the execution starts (`LockInv`); an execution has such a worker, and a writer's
worker has the row (`ExecInv`); nothing of the process outlives it (`LifeInv`); and
what an accepted call may still lead to (entries of the queue, waiting workers, an
execution not yet begun) plus what was run is at most what was commanded
(`CallInv`). The last is a sum, so each step is a lemma about the cardinality of
one of its sets. `GatewayIsWanted` is about a step whose reasons lie before the wait
for the planner: a task that is cancelled or runs out of time has its execution
cancelled in the same step (`Started`, `Unexpired`), and a receipt that is there while
the planner works came by the relay (`Unanswered`); together they are `WantedInv`.

`Outbox_proofs`: `TypeCorrect`, `ClaimsAreExclusiveHolds`,
`LockOnlyInFlightHolds`, `AttemptsCoverReceiptsHolds`, and
`DeliveryImplemented`, the refinement. Exclusive claims are inductive with the
lock invariant; receipts are bounded by attempts counted minus those still in
hand, which is the strengthening.

`ExternalWorkspace_proofs`: `TypeCorrect`, `HeadsArePublishedHolds`,
`OneResultHolds` and `CommitIsValidatedHolds`, for any set of runs and any number
of mishaps. A recorded head is published because of where the call stands
(`HeadOfCall`): on a commit when there is something to push, on a published one
after the readback, which is published because the branch only ever carries
published commits or others' heads (`BranchIsPublished`). Type correctness needs
it too: what is pushed is a commit. `CommitIsValidated` speaks of behaviours
without a mishap, and so does its invariant (`FilesInv`): dirty files whose paths
are the validated ones are the validated files.

`StateDocument_proofs`: `TypeCorrect`, `FinishedOnceHolds`, `ChainCoversRunHolds`,
`AcceptedPassedHolds`, `RunsInCourseHolds` and `NothingRolledBackHolds`.
`ChainCoversRun` and `AcceptedPassed` hold however many threads overlap, because
every copy that may be saved is itself good: the invariant (`GoodInv`) says so of
the row, of the loop's document and of every thread's run and copy, and each stage
keeps a run good. `FinishedOnceHolds` needs that, without overlap, the operator
section of the row and of every copy agrees with memory or is about to be saved
(`SectionInv`): a finished key stays `done` in memory and in the row, and a restart
keeps it. The last two need that a run in somebody's hands is the saved one, or one
stage ahead of it (`CourseInv`).

`Sections_proofs`: `OneAtATimeHolds`, over all twenty-one groups at once.
- First, frames: each group changes only its own keys of `state`, `memory` and
  `outside` (a lemma per group), so a key that a step changes names the groups the
  step may be of (`Owners`, `OwnersOfMemory`, `OwnersOfOutside`).
- `OneAtATime` is nine claims and its invariant nine parts (`OneAtATimeInv`).
  Leases: those of different owners share no path (`LeasesApart`), because a path
  two patterns cover makes one a prefix of the other. Queue: before an entry that is
  ready or integrated there are only integrated ones of its repository. Access: a link that is pending was never redeemed;
  every request of the last window is still in its client's bucket
  (`BucketsHaveAll`), so a full window means a full bucket. Registries: every
  snapshot was valid when it came in, and valid means one in force. Contracts: each
  snapshot fits the graph it names. Inbox: its items are of the events. Projects:
  two with a repository have different ones, in the document and in the copy of
  every probe in flight (`ProjectsApart`), since a probe saves its copy.
- The assumptions are `ScopesArePaths`, `FilesArePaths` (paths and prefixes are
  sequences), `NoHeadIsNothing`, `RateIsANumber`, `DatesAreNumbers`,
  `GraphsAreFinite`, all of them types.

`KeepsWhatIsRecordedHolds`, the refinement of `History`, is in the same module, on top
of the same lemmas. The histories are appended to or left alone
by every group (a lemma per kind of history). What is settled stays for a reason of
its own in each section, and `KeepsInv` is those reasons with the parts of
`OneAtATimeInv`: a session that is saved as ended is the same in memory
(`EndedIsInMemory`), so a repeated call sees that it ended and a restart brings the
same back, as does one of a run that is saved as verified (`VerifiedIsInMemory`, for
what was earned, below); the section of incidents keeps its two parts
(`LearningShape`); the identifiers of direct sessions are fresh (`SessionsAreNew`); a
project's folder or repository is the same in the copy of every probe in flight
(`ProjectsStay`), since a probe saves its copy; a project's log of health is a
sequence (`HealthIsLogged`).

`SectionsEvidence_proofs`: `EarnedByEvidenceHolds`, on top of these. Sixteen
claims that something was earned, under one invariant (`EvidenceInv`: `KeepsInv` and a
part per section). Three arguments recur.
- What a grant rests on is a position of a history, and a history only grows, so it is
  enough that the grant was right when it was made (`BoundInv`, `RuntimeInv`,
  `DecisionsInformed`, `KnowledgeWasDecided`, `RouteIsAuthorized`). A retry needs more:
  observations that come later must not change what was then the latest, and a
  registry that replaces another must not change what was then the current one
  (`InformedStays`).
- What passes through a course of stages is described stage by stage: an incident
  (`IncidentsInCourse`) and what a death between its two saves loses
  (`CandidatesOfClosed`); a run and the evidence it was shown (`RunInv`), which it needs
  again after every call that moves it on: none leaves it verified that was not
  (`MovesOfARun`), and nothing is verified by what is on record of an earlier result; a skill
  (`SkillsInReview`: how many reviews, one after the other since it was last
  discovered, its stage stands for, lemma `ReviewGoesOn`); the health of a project
  (`HealthInCourse`).
- What exists twice agrees: a session's saved record is an earlier one of the record
  in memory, and both are vouched for action by action (`RdcInv`, since a save that
  raises leaves only the memory changed); an open browser session is of a redeemed
  link and expires with it (`SessionsAreOfLinks`); the reports agree with the projects
  they were saved with in the document and in the copy of every probe in flight
  (`ReportsAgree`, which is also `RecordsAgree`), without which a task could be
  prepared at a head that an overlapping probe undid.
- The assumptions added are `RunsAreUnverified`, `ResultsNameFiles`,
  `CandidatesHaveAStage`, `CausesAreGiven`, `LifeIsANumber`: the types of what is handed
  in, that an executor leaves a run unverified, and that a root cause is not empty.

`SectionsTypeOKHolds` is in the same module, because the types of a section rest on the
invariants of the others: a session's record has its fields (`RdcInv`), so an update of
one of them leaves the rest typed; a failed task that is restored is one of the
document's (`TasksShape`); a run in memory is one that an executor left, or was given
another result, and evidence was added to (`RunInv`). The types alone are not inductive in three sections, and
`TypesInv` strengthens them: an event is stamped with the clock (`ChangesTyped`), the
database keeps its four fields (`RuntimesTyped`), and a probe saves the copy of the
projects it loaded, with a name that GitHub led it to (`ProjectsTyped`: the copies in
flight are typed as well, and what a name leads to has a name). Its assumptions are
the bounds (`LeasesAreBounded`, `SessionsAreBounded`, `TimeIsBounded`,
`ClockIsBounded`) and the types of what is handed in or there at the start
(`TasksAreOfRepositories`, `ContextsAreOfTasks`, `EventsAreTyped`,
`RunsRequireEvidence`, `AssessmentsAreOfSixLevels`, `IntakesAreNamed`,
`HeadsAtTheStart`, `GithubAtTheStart`), which the code's request models enforce.

`SectionsAnswers_proofs`: `AnswersAreRightHolds`, on top of `TypesInv`. An answer is kept
with its question and the records it was given from, so six of them are right for good once they are right when
given (`AnswersOnRecord`, `ClearedForGoodReason`); the others are read from the sections
at any time and rest on invariants of theirs (`AnswersInv`).
- Policy: without a duplicate and with none missing, a layer has one rule, and the
  decision is allowed just when all of them let it (`DecideFailsClosed`). Tools: the
  adapter that is selected is at the least usable place of the preferred, the fallback
  and the remaining ones one after the other (`SelectedIsUsable`).
- Impact: the worklist is a function defined by recursion, so first that there is such a
  function (what walks of at most n edges lead to, `WalkedOnward`), then that it has the
  end of every path (`PathIsFound`), by the least step at which it would not.
- Instructions: outranking is transitive, and of two records one outranks the other
  unless they are one; so among those of a key, finitely many, one is outranked by none
  (`UnoutrankedIs`), and the decision that binds it is the only one in force for the key
  (`BindingIsOne`).
- Inbox: a gate shows a task just until the decision on its head approves it, and there is
  one such decision, as every snapshot is valid (`GateIsApproved`); an item names its
  change and project, so a resolved one is not there under another's name
  (`KeysArePairs`). Catalogue: only a catalog brings the hash that says that the objects
  are its own (`ObjectsAreCatalogued`). Readiness: the levels passed in a row are the
  first ones, so five of them are L0 to L4 (`ContiguousIsReady`).
- Critical path (`LongestIsRight`), for every graph. At any edge of any turn of the queue
  the indegree of a project counts the edges to it that were not taken away, and it is
  queued when there is none (`Queueing`): so its producers are queued before it, and who
  is never queued waits for others that are not, which is the loop that is reported
  (`OrderIsRight`). At any edge of any turn of the relaxation a distance other than 0 is
  one more than that of the parent, which had its turn and changes no more, and no edge of
  whom had its turn makes a way longer (`Reaching`): so no chain that follows the edges
  has more projects than the greatest distance and one (`WaysAreRight`,
  `WayIsBounded`), and the way back from there has just as many (`BackIsRight`). Both are
  inductions along the edges of a turn inside one along the turns (`UpTo`).
- The assumptions added are `GraphsAreOfProjects` (the projects of a graph are there, each
  once, and its edges are between them: `typed_dependency_graph.py:72` and `:86-93`
  refuse any other), types of what is handed in (`PoliciesAreListed`,
  `RulesAreListed`, `TasksHaveProjects`: tasks have different ids and a project,
  `NoCertificationIsNoRevocation`) and `InstructionsAreRanked`: the precedence of a record
  is a tuple of as many numbers for each, and ends with the id.

Only model-checked:
- what needs fairness or ENABLED, which TLAPS does not reach: `WriterIsReleased`,
  `ResumableWithoutOrphan`, `QueuedIsServed`, `RowIsReleased`, `StopReturns`,
  `EveryMessageIsDispatched`, `CommitIsRecorded`.

## 7. Not modelled

See the components with status `not_modelled` or `partly` and their notes.
Permanently outside: pages and models of the Flutter application, route wiring,
settings, logging, the dashboards' projections (read-only), what an adapter
detects in a tree, and what git, the gateways and GitHub do beyond their answers.
`create_backup` and `restore_backup` have no caller outside the tests; the hazard
they would have (a restore brings back writer rows, and running services keep
their memory) belongs to whoever calls them.
