----------------------------- MODULE FileApply -----------------------------
(***************************************************************************)
(* The governed transactional file apply engine.  Several operating system *)
(* processes (the API process and runs of the governed_file_apply CLI)     *)
(* apply manifests to one repository.  They share the worktree, one row of *)
(* repository_writers and the journal, which lives inside one JSON state   *)
(* document that is always loaded and saved whole.  A process can die at   *)
(* any step; an editor can change a file at any step.                      *)
(*                                                                         *)
(* A file's bytes are abstracted to what classification can tell apart.    *)
(* The order in which the paths of one manifest are written is not kept:   *)
(* any order is a behaviour here.                                          *)
(***************************************************************************)
EXTENDS Naturals, FiniteSets

CONSTANTS
  Proc,        \* processes that call the engine
  Path,        \* paths of the repository
  Request,     \* manifests: one run_id each
  Task,        \* task ids, the owners of the writer row
  ReqOf,       \* the request a process applies
  TaskOf,      \* the task id of a request
  Targets,     \* the target paths of a request
  Creates,     \* the targets whose preimage_mode is "absent"
  NoTask,      \* no row in repository_writers
  NoRequest,   \* content that belongs to no request
  NotLoaded,   \* no copy of the state document in memory
  MaxEdits, MaxFaults, MaxCrashes   \* budgets of the environment

ASSUME BudgetAssumption == MaxEdits \in Nat /\ MaxFaults \in Nat /\ MaxCrashes \in Nat

VARIABLES
  content,   \* worktree: the bytes of each path
  orphan,    \* worktree: a temporary file beside a target whose writer died
  head,      \* branch and HEAD: "bound" or "moved"
  writer,    \* the repository_writers row
  journal,   \* governed_file_apply_journal of the stored document: each run's status
  pc,        \* the step a process is at
  locked,    \* it is inside the try block whose finally releases the row
  planOnly,  \* the CLI's --plan-only
  loaded,    \* its copy of the journal between a load and the save
  class,     \* its plan: the classification of each path
  preimage,  \* bytes captured for rollback (in a temporary directory: lost with it)
  mutated,   \* paths it replaced
  undo,      \* mutated paths it still has to restore
  target,    \* the path being written (at most one)
  edits, faults, crashes

worktree == <<content, orphan, head>>
stored   == <<writer, journal>>
budget   == <<edits, faults, crashes>>
work     == <<class, preimage, mutated, undo, target>>
vars     == <<worktree, stored, pc, locked, planOnly, loaded, work, budget>>

(***************************************************************************)
(* Contents and classification.                                            *)
(***************************************************************************)
Absent     == [kind |-> "absent",  by |-> NoRequest]
Foreign    == [kind |-> "foreign", by |-> NoRequest]
Preimage   == [kind |-> "pre",     by |-> NoRequest]
Post(r)    == [kind |-> "post",    by |-> r]
Partial(r) == [kind |-> "partial", by |-> r]   \* canonically Post(r): BOM, CRLF or EOF differs

Content == [kind : {"absent", "foreign", "pre"}, by : {NoRequest}]
             \cup [kind : {"post", "partial"}, by : Request]

Class == {"none", "clean", "already", "partial", "drift"}

\* The committed bytes: a path some request creates is not in HEAD.
Committed(f) == IF \E r \in Request : f \in Creates[r] THEN Absent ELSE Preimage

\* Mutant: bytes nobody recognises count as the preimage.
ClassifyTrusting(r, f) ==
  CASE f \notin Targets[r] -> "none"
    [] f \in Targets[r] /\ content[f] = Post(r) -> "already"
    [] f \in Targets[r] /\ content[f] = Partial(r) -> "partial"
    [] OTHER -> "clean"

Classify(r, f) ==
  CASE f \notin Targets[r] -> "none"
    [] f \in Targets[r] /\ content[f] = Post(r) -> "already"
    [] f \in Targets[r] /\ content[f] = Partial(r) -> "partial"
    [] f \in Targets[r] /\ content[f] = (IF f \in Creates[r] THEN Absent ELSE Preimage) -> "clean"
    [] OTHER -> "drift"

\* git status: changed tracked files and untracked ones, temporary files included.
UnrelatedDirty(r) ==
  \/ orphan
  \/ \E q \in Proc : pc[q] \in {"replace", "restore"}
  \/ \E f \in Path \ Targets[r] : content[f] # Committed(f)
GitBindingHolds(r) == head = "bound" /\ ~UnrelatedDirty(r)

Req(p)     == ReqOf[p]
RunFor(p)  == ReqOf[p]   \* mutant: the run id in place of the task id
TaskFor(p) == TaskOf[ReqOf[p]]
Changed(p) == {f \in Path : class[p][f] \in {"clean", "partial"}}
Blocked(p) == \E f \in Path : class[p][f] = "drift"

Status == {"none", "PLANNED", "PREPARED", "STARTED", "APPLIED", "VERIFIED",
           "BLOCKED", "ROLLED_BACK", "FAILED"}

ASSUME RequestAssumption ==
  /\ ReqOf \in [Proc -> Request]
  /\ TaskOf \in [Request -> Task]
  /\ Targets \in [Request -> SUBSET Path]
  /\ Creates \in [Request -> SUBSET Path]
  /\ NoTask \notin Task
  /\ NoRequest \notin Request
  /\ NotLoaded \notin [Request -> Status]

NoClass   == [f \in Path |-> "none"]
NoCapture == [f \in Path |-> Absent]

Init ==
  /\ content = [f \in Path |-> Committed(f)]
  /\ orphan = FALSE /\ head = "bound"
  /\ writer = NoTask
  /\ journal = [r \in Request |-> "none"]
  /\ pc = [p \in Proc |-> "idle"]
  /\ locked = [p \in Proc |-> FALSE]
  /\ planOnly = [p \in Proc |-> FALSE]
  /\ loaded = [p \in Proc |-> NotLoaded]
  /\ class = [p \in Proc |-> NoClass]
  /\ preimage = [p \in Proc |-> NoCapture]
  /\ mutated = [p \in Proc |-> {}]
  /\ undo = [p \in Proc |-> {}]
  /\ target = [p \in Proc |-> {}]
  /\ edits = 0 /\ faults = 0 /\ crashes = 0

-----------------------------------------------------------------------------
(***************************************************************************)
(* Journal writes.  Every journal update loads the whole state document,   *)
(* changes one run's record and saves the document back, with nothing held *)
(* in between.  The two loads of one update are a single step here.        *)
(***************************************************************************)
JournalStep == {"persist_plan", "block", "noop", "prepare", "start", "applied",
                "verify", "journal_failed"}
JournalPoint(p) == pc[p] \in JournalStep \/ (pc[p] = "rollback" /\ undo[p] = {})

LoadState(p) ==
  /\ JournalPoint(p) /\ loaded[p] = NotLoaded
  /\ loaded' = [loaded EXCEPT ![p] = journal]
  /\ UNCHANGED <<worktree, stored, pc, locked, planOnly, work, budget>>

SaveJournal(p, status) ==
  /\ loaded[p] # NotLoaded
  /\ journal' = [loaded[p] EXCEPT ![Req(p)] = status]
  /\ loaded' = [loaded EXCEPT ![p] = NotLoaded]

Goto(p, step) == pc' = [pc EXCEPT ![p] = step]

\* Return from the call or raise: through the finally block once the row is held.
LeaveAtOnce(p) == Goto(p, "idle")   \* mutant: no finally block
Leave(p) == Goto(p, IF locked[p] THEN "release" ELSE "idle")

ForgetWork(p) ==
  /\ class' = [class EXCEPT ![p] = NoClass]
  /\ preimage' = [preimage EXCEPT ![p] = NoCapture]
  /\ mutated' = [mutated EXCEPT ![p] = {}]
  /\ undo' = [undo EXCEPT ![p] = {}]
  /\ target' = [target EXCEPT ![p] = {}]

-----------------------------------------------------------------------------
(***************************************************************************)
(* Planning, before and again under the writer row.                        *)
(***************************************************************************)
Begin(p, mode) ==
  /\ pc[p] = "idle"
  /\ Goto(p, "plan")
  /\ planOnly' = [planOnly EXCEPT ![p] = mode]
  /\ UNCHANGED <<worktree, stored, locked, loaded, work, budget>>

Plan(p) ==
  /\ pc[p] = "plan"
  /\ \/ /\ GitBindingHolds(Req(p))
        /\ class' = [class EXCEPT ![p] = [f \in Path |-> Classify(Req(p), f)]]
        /\ Goto(p, "persist_plan")
     \/ /\ ~GitBindingHolds(Req(p))
        /\ Leave(p)
        /\ UNCHANGED class
  /\ planOnly' = [planOnly EXCEPT ![p] = @ /\ GitBindingHolds(Req(p))]
  /\ UNCHANGED <<worktree, stored, locked, loaded, preimage, mutated, undo, target, budget>>

PersistPlan(p) ==
  /\ pc[p] = "persist_plan"
  /\ SaveJournal(p, "PLANNED")
  /\ IF planOnly[p]
     THEN Leave(p) /\ class' = [class EXCEPT ![p] = NoClass]
     ELSE /\ Goto(p, IF Blocked(p) THEN "block" ELSE IF locked[p] THEN "decide" ELSE "acquire")
          /\ UNCHANGED class
  /\ planOnly' = [planOnly EXCEPT ![p] = FALSE]
  /\ UNCHANGED <<worktree, writer, locked, preimage, mutated, undo, target, budget>>

Block(p) ==
  /\ pc[p] = "block"
  /\ SaveJournal(p, "BLOCKED")
  /\ Leave(p)
  /\ class' = [class EXCEPT ![p] = NoClass]
  /\ UNCHANGED <<worktree, writer, locked, planOnly, preimage, mutated, undo, target, budget>>

\* The row is taken when it is free, or already this task's.
RowIgnored(p)      == TRUE                  \* mutant: whoever holds it
RowNotReentrant(p) == writer = NoTask       \* mutant: not even this task's
RowFree(p) == writer \in {NoTask, TaskFor(p)}

Acquire(p) ==
  /\ pc[p] = "acquire"
  /\ class' = [class EXCEPT ![p] = NoClass]
  /\ \/ /\ RowFree(p)
        /\ writer' = TaskFor(p)
        /\ locked' = [locked EXCEPT ![p] = TRUE]
        /\ Goto(p, "plan")
     \/ /\ ~RowFree(p)
        /\ Leave(p)
        /\ UNCHANGED <<writer, locked>>
  /\ UNCHANGED <<worktree, journal, planOnly, loaded, preimage, mutated, undo, target, budget>>

-----------------------------------------------------------------------------
(***************************************************************************)
(* The transaction, under the row.                                         *)
(***************************************************************************)
SomePost(p) == \E f \in Targets[Req(p)] : class[p][f] = "already"   \* mutant: one is enough
AllPost(p) == \A f \in Targets[Req(p)] : class[p][f] = "already"

Noop(p) ==
  /\ pc[p] = "noop"
  /\ SaveJournal(p, "VERIFIED")
  /\ Leave(p)
  /\ UNCHANGED <<worktree, writer, locked, planOnly, work, budget>>

\* Stage the postimages and capture the bytes of every file that will change.
Decide(p) ==
  /\ pc[p] = "decide"
  /\ \/ AllPost(p) /\ Goto(p, "noop") /\ UNCHANGED preimage
     \/ /\ ~AllPost(p)
        /\ preimage' = [preimage EXCEPT ![p] =
             [f \in Path |-> IF f \in Changed(p) THEN content[f] ELSE Absent]]
        /\ Goto(p, "prepare")
  /\ UNCHANGED <<worktree, stored, locked, planOnly, loaded, class, mutated, undo, target, budget>>

\* Staging or capture raises: nothing is mutated, the journal stays PLANNED.
StageFails(p) ==
  /\ pc[p] = "decide" /\ ~AllPost(p) /\ faults < MaxFaults
  /\ faults' = faults + 1
  /\ Leave(p)
  /\ UNCHANGED <<worktree, stored, locked, planOnly, loaded, work, edits, crashes>>

Prepare(p) ==
  /\ pc[p] = "prepare"
  /\ SaveJournal(p, "PREPARED")
  /\ Goto(p, "start")
  /\ UNCHANGED <<worktree, writer, locked, planOnly, work, budget>>

Start(p) ==
  /\ pc[p] = "start"
  /\ SaveJournal(p, "STARTED")
  /\ Goto(p, "write")
  /\ UNCHANGED <<worktree, writer, locked, planOnly, work, budget>>

\* _atomic_write: a temporary file beside the target, then os.replace.
WriteTemp(p) ==
  /\ pc[p] = "write"
  /\ \E f \in Changed(p) \ mutated[p] : target' = [target EXCEPT ![p] = {f}]
  /\ Goto(p, "replace")
  /\ UNCHANGED <<worktree, stored, locked, planOnly, loaded, class, preimage, mutated, undo, budget>>

Replace(p) ==
  /\ pc[p] = "replace"
  /\ content' = [f \in Path |-> IF f \in target[p] THEN Post(Req(p)) ELSE content[f]]
  /\ mutated' = [mutated EXCEPT ![p] = @ \cup target[p]]
  /\ Goto(p, "check")
  /\ UNCHANGED <<orphan, head, stored, locked, planOnly, loaded, class, preimage, undo, target, budget>>

\* The write raises; its finally block removes the temporary file.
WriteFails(p) ==
  /\ pc[p] = "replace" /\ faults < MaxFaults
  /\ faults' = faults + 1
  /\ target' = [target EXCEPT ![p] = {}]
  /\ undo' = [undo EXCEPT ![p] = mutated[p]]
  /\ Goto(p, "rollback")
  /\ UNCHANGED <<worktree, stored, locked, planOnly, loaded, class, preimage, mutated, edits, crashes>>

\* Mutant: files that were created are not undone.
RollbackFromExisting(p) ==
  /\ Goto(p, "rollback")
  /\ undo' = [undo EXCEPT ![p] = {f \in mutated[p] : preimage[p][f] # Absent}]

RollbackFrom(p) ==
  /\ Goto(p, "rollback")
  /\ undo' = [undo EXCEPT ![p] = mutated[p]]

\* Read back the file just replaced; the next one, or the end of the loop.
Check(p) ==
  /\ pc[p] = "check"
  /\ \/ /\ \A f \in target[p] : content[f] = Post(Req(p))
        /\ Goto(p, IF Changed(p) \subseteq mutated[p] THEN "applied" ELSE "write")
        /\ UNCHANGED undo
     \/ /\ \E f \in target[p] : content[f] # Post(Req(p))
        /\ RollbackFrom(p)
  /\ target' = [target EXCEPT ![p] = {}]
  /\ UNCHANGED <<worktree, stored, locked, planOnly, loaded, class, preimage, mutated, budget>>

Applied(p) ==
  /\ pc[p] = "applied"
  /\ SaveJournal(p, "APPLIED")
  /\ Goto(p, "recheck")
  /\ UNCHANGED <<worktree, writer, locked, planOnly, work, budget>>

\* Read back every target of the manifest, those already at the postimage too.
Recheck(p) ==
  /\ pc[p] = "recheck"
  /\ \/ /\ \A f \in Targets[Req(p)] : content[f] = Post(Req(p))
        /\ Goto(p, "verify")
        /\ UNCHANGED undo
     \/ /\ \E f \in Targets[Req(p)] : content[f] # Post(Req(p))
        /\ RollbackFrom(p)
  /\ UNCHANGED <<worktree, stored, locked, planOnly, loaded, class, preimage, mutated, target, budget>>

Verify(p) ==
  /\ pc[p] = "verify"
  /\ SaveJournal(p, "VERIFIED")
  /\ Leave(p)
  /\ UNCHANGED <<worktree, writer, locked, planOnly, work, budget>>

-----------------------------------------------------------------------------
(***************************************************************************)
(* Rollback: restore what was replaced, delete what was created.           *)
(***************************************************************************)
RestoreTemp(p) ==
  /\ pc[p] = "rollback"
  /\ \E f \in undo[p] : preimage[p][f] # Absent /\ target' = [target EXCEPT ![p] = {f}]
  /\ Goto(p, "restore")
  /\ UNCHANGED <<worktree, stored, locked, planOnly, loaded, class, preimage, mutated, undo, budget>>

\* Mutant: a restore that writes nothing.
RestoredNothing(p, f) ==
  /\ UNCHANGED content
  /\ undo' = [undo EXCEPT ![p] = @ \ {f}]
  /\ Goto(p, "rollback")

Restored(p, f) ==
  /\ content' = [content EXCEPT ![f] = preimage[p][f]]
  /\ undo' = [undo EXCEPT ![p] = @ \ {f}]
  /\ Goto(p, "rollback")

Restore(p) ==
  /\ pc[p] = "restore"
  /\ \E f \in target[p] : Restored(p, f)
  /\ target' = [target EXCEPT ![p] = {}]
  /\ UNCHANGED <<orphan, head, stored, locked, planOnly, loaded, class, preimage, mutated, budget>>

\* No temporary file is needed to unlink a file that did not exist before.
Unlink(p) ==
  /\ pc[p] = "rollback"
  /\ \E f \in undo[p] : preimage[p][f] = Absent /\ Restored(p, f)
  /\ UNCHANGED <<orphan, head, stored, locked, planOnly, loaded, class, preimage, mutated, target, budget>>

RestoreFails(p) ==
  /\ pc[p] = "restore" \/ (pc[p] = "rollback" /\ undo[p] # {})
  /\ faults < MaxFaults
  /\ faults' = faults + 1
  /\ target' = [target EXCEPT ![p] = {}]
  /\ Goto(p, "journal_failed")
  /\ UNCHANGED <<worktree, stored, locked, planOnly, loaded, class, preimage, mutated, undo, edits, crashes>>

JournalRolledBack(p) ==
  /\ pc[p] = "rollback" /\ undo[p] = {}
  /\ SaveJournal(p, "ROLLED_BACK")
  /\ Leave(p)
  /\ UNCHANGED <<worktree, writer, locked, planOnly, work, budget>>

JournalFailed(p) ==
  /\ pc[p] = "journal_failed"
  /\ SaveJournal(p, "FAILED")
  /\ Leave(p)
  /\ UNCHANGED <<worktree, writer, locked, planOnly, work, budget>>

\* The finally block deletes the row whenever it names this task.
Release(p) ==
  /\ pc[p] = "release"
  /\ writer' = IF writer = TaskFor(p) THEN NoTask ELSE writer
  /\ locked' = [locked EXCEPT ![p] = FALSE]
  /\ ForgetWork(p)
  /\ Goto(p, "idle")
  /\ UNCHANGED <<worktree, journal, planOnly, loaded, budget>>

-----------------------------------------------------------------------------
(***************************************************************************)
(* The environment.                                                        *)
(***************************************************************************)
\* The process dies: no finally block runs, the row stays, and a temporary
\* file it had open stays beside the target.
Crash(p) ==
  /\ pc[p] # "idle" /\ crashes < MaxCrashes
  /\ crashes' = crashes + 1
  /\ orphan' = (orphan \/ pc[p] \in {"replace", "restore"})
  /\ Goto(p, "idle")
  /\ locked' = [locked EXCEPT ![p] = FALSE]
  /\ loaded' = [loaded EXCEPT ![p] = NotLoaded]
  /\ planOnly' = [planOnly EXCEPT ![p] = FALSE]
  /\ ForgetWork(p)
  /\ UNCHANGED <<content, head, stored, edits, faults>>

\* An editor changes a file, or saves a postimage with other line ends.
Edit(f) ==
  /\ edits < MaxEdits
  /\ edits' = edits + 1
  /\ \E c \in {Foreign, Committed(f)} \cup {Partial(r) : r \in {q \in Request : content[f] = Post(q)}} :
       c # content[f] /\ content' = [content EXCEPT ![f] = c]
  /\ UNCHANGED <<orphan, head, stored, pc, locked, planOnly, loaded, work, faults, crashes>>

MoveHead ==
  /\ edits < MaxEdits /\ head = "bound"
  /\ edits' = edits + 1 /\ head' = "moved"
  /\ UNCHANGED <<content, orphan, stored, pc, locked, planOnly, loaded, work, faults, crashes>>

-----------------------------------------------------------------------------
Step(p) ==
  \/ LoadState(p) \/ Plan(p) \/ PersistPlan(p) \/ Block(p) \/ Acquire(p)
  \/ Noop(p) \/ Decide(p) \/ StageFails(p) \/ Prepare(p) \/ Start(p)
  \/ WriteTemp(p) \/ Replace(p) \/ WriteFails(p) \/ Check(p)
  \/ Applied(p) \/ Recheck(p) \/ Verify(p)
  \/ RestoreTemp(p) \/ Restore(p) \/ Unlink(p) \/ RestoreFails(p)
  \/ JournalRolledBack(p) \/ JournalFailed(p) \/ Release(p)

Environment == (\E p \in Proc : Crash(p)) \/ (\E f \in Path : Edit(f)) \/ MoveHead

Next ==
  \/ \E p \in Proc : (\E mode \in BOOLEAN : Begin(p, mode)) \/ Step(p)
  \/ Environment

Spec == Init /\ [][Next]_vars

\* A call that was made keeps running unless its process dies.
FairSpec == Spec /\ \A p \in Proc : WF_vars(Step(p))

\* The caller, besides, makes the same call again for as long as it returns.
RetrySpec == FairSpec /\ \A p \in Proc : SF_vars(Begin(p, FALSE))

-----------------------------------------------------------------------------
Steps == JournalStep \cup {"idle", "plan", "acquire", "decide", "write", "replace",
                           "check", "recheck", "rollback", "restore", "release"}
TypeOK ==
  /\ content \in [Path -> Content]
  /\ orphan \in BOOLEAN /\ head \in {"bound", "moved"}
  /\ writer \in Task \cup {NoTask}
  /\ journal \in [Request -> Status]
  /\ pc \in [Proc -> Steps]
  /\ locked \in [Proc -> BOOLEAN] /\ planOnly \in [Proc -> BOOLEAN]
  /\ loaded \in [Proc -> [Request -> Status] \cup {NotLoaded}]
  /\ class \in [Proc -> [Path -> Class]]
  /\ preimage \in [Proc -> [Path -> Content]]
  /\ mutated \in [Proc -> SUBSET Path] /\ undo \in [Proc -> SUBSET Path]
  /\ target \in [Proc -> SUBSET Path]
  /\ edits \in Nat /\ faults \in Nat /\ crashes \in Nat

\* The steps at which a process of this manifest may have files half changed.
Mutating(p) == pc[p] \in {"write", "replace", "check", "applied", "recheck",
                          "rollback", "restore"}

(***************************************************************************)
(* One active repository writer at a time: two processes are never between *)
(* the first replacement and the end of the rollback together.             *)
(***************************************************************************)
OneWriter == \A p, q \in Proc : Mutating(p) /\ Mutating(q) => p = q

(***************************************************************************)
(* A postimage that one run applied is never overwritten or removed by     *)
(* another run: planning again under the writer row and the classification *)
(* as foreign drift are what prevents it.  Only an edit, or the rollback   *)
(* of the same request, takes a postimage away.                            *)
(***************************************************************************)
NoStolenPostimage ==
  [][\A f \in Path, r \in Request :
       content[f] = Post(r) /\ content'[f] # Post(r)
         => \/ edits' # edits
            \/ \E p \in Proc : Req(p) = r /\ undo'[p] # undo[p]]_vars

(***************************************************************************)
(* A rollback that reports success leaves no postimage of the run behind:  *)
(* whatever was not at the postimage when the bytes were captured is not   *)
(* at it afterwards.                                                       *)
(***************************************************************************)
RollbackLeavesNoPostimage ==
  \A p \in Proc : pc[p] = "rollback" /\ undo[p] = {} =>
    \A f \in Changed(p) : content[f] = Post(Req(p)) => preimage[p][f] = Post(Req(p))

(***************************************************************************)
(* A journal that says VERIFIED speaks the truth about every target, when  *)
(* no editor interferes (MaxEdits = 0): a stale copy of the journal saved  *)
(* over a newer one may bring back VERIFIED, but never wrongly.            *)
(***************************************************************************)
FullyApplied(r) == \A f \in Targets[r] : content[f] = Post(r)

VerifiedIsApplied == \A r \in Request : journal[r] = "VERIFIED" => FullyApplied(r)

(***************************************************************************)
(* The engine implements the atomic apply (MaxEdits = 0).  Seen from       *)
(* outside, a path that a running transaction has replaced still holds its *)
(* captured bytes: the whole manifest changes at the final read-back.      *)
(***************************************************************************)
Overlay ==
  [f \in Path |->
     IF \E p \in Proc : Mutating(p) /\ f \in mutated[p]
     THEN preimage[CHOOSE p \in Proc : Mutating(p) /\ f \in mutated[p]][f]
     ELSE content[f]]

Before(r, f) == {Partial(r), IF f \in Creates[r] THEN Absent ELSE Preimage}

Atomic == INSTANCE AtomicApply
            WITH tree <- Overlay, failures <- crashes + faults,
                 InitialTree <- [f \in Path |-> Committed(f)]

ImplementsAtomicApply == Atomic!Spec

(***************************************************************************)
(* Once processes have stopped dying the writer row is always given back,  *)
(* the row that a dead process left included, if callers repeat their      *)
(* calls: every way out of a call that took it, refusals, blocked plans,   *)
(* failed staging and failed rollbacks included, leads to the release.     *)
(* Two things refuse the repeated call before it retakes its row, and the  *)
(* row then stays: a temporary file in the worktree, and a target that     *)
(* another task has changed in the meantime.                               *)
(***************************************************************************)
Recoverable == crashes = MaxCrashes /\ ~orphan
Refused(p)  == \E f \in Path : Classify(Req(p), f) = "drift"

WriterIsReleased ==
  (Recoverable /\ writer # NoTask)
    ~> (writer = NoTask \/ \E p \in Proc : TaskFor(p) = writer /\ Refused(p))

(***************************************************************************)
(* Resumable: repeated calls bring a manifest to its postimages, whatever  *)
(* a dead process left half done and in spite of its writer row.  (Where   *)
(* manifests compete for a file, one of them wins.)                        *)
(***************************************************************************)
ResumableWithoutOrphan == Recoverable ~> \E p \in Proc : FullyApplied(Req(p))


(***************************************************************************)
(* On any failure every file already changed is restored: a run whose      *)
(* journal says ROLLED_BACK has no postimage in the worktree.              *)
(***************************************************************************)
RolledBackIsUndone ==
  \A r \in Request : journal[r] = "ROLLED_BACK" => \A f \in Targets[r] : content[f] # Post(r)
=============================================================================
