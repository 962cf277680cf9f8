-------------------------- MODULE ExternalWorkspace --------------------------
(***************************************************************************)
(* Execution runs on a repository outside the workspace manager.  Each run *)
(* has a clone of its own, in which manifests are applied and validated,   *)
(* and a checkpoint that commits, pushes to the task branch they share,    *)
(* and records the published head with the operator task and with the      *)
(* engineering task.  The handlers are synchronous: one call at a time,    *)
(* but the process may die inside one, the network may fail it, and the    *)
(* remote branch and the clone belong to others too.                       *)
(*                                                                         *)
(* A file is a version, 0 the committed one.  A commit is the run's name   *)
(* and a number.  The file apply engine is taken at its word: all of a     *)
(* manifest or nothing, or any part of it when the process dies.           *)
(***************************************************************************)
EXTENDS Naturals, FiniteSets

CONSTANTS
  Run,           \* execution_run_id, which is the operator task's id too
  Path, Scope,   \* the paths of the repository, and scope_patterns
  Version,       \* postimages of a file
  NoTask, Other, \* no writer row; the row of a task that is not a run
  Base, Foreign, \* heads: the engineering task's base, and a commit of others
  NoHead,
  MaxCommits, MaxFaults, MaxCrashes, MaxEdits, MaxPushes,
  MaxMishaps     \* all of the last four together

Commit == Run \X (1 .. MaxCommits)
Head   == Commit \cup {Base, Foreign}

ASSUME WorkspaceAssumption ==
  /\ Scope \subseteq Path
  /\ Version \subseteq Nat \ {0}
  /\ NoTask \notin Run /\ Other \notin Run /\ NoTask # Other
  /\ Base \notin Commit /\ Foreign \notin Commit /\ Base # Foreign /\ NoHead \notin Head
  /\ MaxCommits \in Nat /\ MaxFaults \in Nat /\ MaxCrashes \in Nat
  /\ MaxEdits \in Nat /\ MaxPushes \in Nat /\ MaxMishaps \in Nat

VARIABLES
  parent,      \* latest_remote_task_sha or base_sha of the engineering task
  open,        \* the engineering task is not integrated, cancelled or superseded
  op, linked,  \* the operator task's status; runs that have their link record
  expected,    \* expected_head of the operator task
  result,      \* its after_head, with the receipt
  clone, at,   \* the workspace directory, and its HEAD
  file,        \* its files: the version of each path
  lifecycle, validated, checkpoint,   \* the stored workspace status
  remote,      \* the task branch on origin
  tree,        \* what each commit changed
  writer,      \* the repository_writers row
  call,        \* the call under way: its run, its step, its snapshot of the files
  published,   \* history: commits that were on the task branch
  checked,     \* history: the files the stored validation ran on
  commits, faults, crashes, edits, pushes

records == <<parent, open, op, linked, expected, result>>
disk    == <<clone, at, file>>
stored  == <<lifecycle, validated, checkpoint, checked>>
origin  == <<remote, published, tree>>
budget  == <<commits, faults, crashes, edits, pushes>>
vars    == <<records, disk, stored, origin, writer, call, budget>>

\* No validation, or one that failed: it lets no path be committed.
NoValidation == {}

Clean   == [p \in Path |-> 0]
NoCall  == [run |-> NoTask, step |-> "idle", files |-> Clean]
At(r, s) == call.run = r /\ call.step = s
Idle    == call = NoCall
Goto(r, s) == call' = [call EXCEPT !.run = r, !.step = s]
Done       == call' = NoCall

Changed(f)  == {p \in Path : f[p] # 0}
Dirty(r)    == Changed(file[r])

Init ==
  /\ parent = Base /\ open = TRUE
  /\ op = [r \in Run |-> "none"] /\ linked = {}
  /\ expected = [r \in Run |-> NoHead] /\ result = [r \in Run |-> NoHead]
  /\ clone = [r \in Run |-> "absent"] /\ at = [r \in Run |-> NoHead]
  /\ file = [r \in Run |-> Clean]
  /\ lifecycle = [r \in Run |-> "none"] /\ validated = [r \in Run |-> NoValidation]
  /\ checkpoint = [r \in Run |-> NoHead] /\ checked = [r \in Run |-> Clean]
  /\ remote = NoHead /\ published = {} /\ tree = [c \in Commit |-> Clean]
  /\ writer = NoTask /\ call = NoCall
  /\ commits = [r \in Run |-> 0]
  /\ faults = 0 /\ crashes = 0 /\ edits = 0 /\ pushes = 0

Mishap == faults + crashes + edits + pushes < MaxMishaps

\* A git command or a load of the state store that fails.
Fault ==
  /\ Mishap /\ faults < MaxFaults
  /\ faults' = faults + 1
  /\ UNCHANGED <<commits, crashes, edits, pushes>>

-----------------------------------------------------------------------------
(***************************************************************************)
(* The run's records.                                                      *)
(***************************************************************************)
\* The operator task and then the link; an operator task that is there
\* already refuses the run.
CreateOperator(r) ==
  /\ Idle /\ op[r] = "none"
  /\ op' = [op EXCEPT ![r] = "pending"]
  /\ expected' = [expected EXCEPT ![r] = parent]
  /\ Goto(r, "link")
  /\ UNCHANGED <<parent, open, linked, result, disk, stored, origin, writer, budget>>

SaveLink(r) ==
  /\ At(r, "link")
  /\ linked' = linked \cup {r}
  /\ Done
  /\ UNCHANGED <<parent, open, op, expected, result, disk, stored, origin, writer, budget>>

VerifyTask(r) ==
  /\ Idle /\ op[r] = "pending_verification"
  /\ op' = [op EXCEPT ![r] = "verified"]
  /\ UNCHANGED <<parent, open, linked, expected, result, disk, stored, origin, writer, call, budget>>

CancelTask(r) ==
  /\ Idle /\ op[r] \in {"pending", "pending_verification"}
  /\ op' = [op EXCEPT ![r] = "cancelled"]
  /\ UNCHANGED <<parent, open, linked, expected, result, disk, stored, origin, writer, call, budget>>

\* The engineering task's own checkpoint takes the head it finds on origin,
\* or the one the caller names, whatever that is.
AdoptHead ==
  /\ Idle /\ open
  /\ parent' \in Head
  /\ UNCHANGED <<open, op, linked, expected, result, disk, stored, origin, writer, call, budget>>

CloseTask ==
  /\ Idle /\ open
  /\ open' = FALSE
  /\ UNCHANGED <<parent, op, linked, expected, result, disk, stored, origin, writer, call, budget>>

\* The run is current, or, for a repeated checkpoint, it is the one whose
\* result the engineering task took over.
Current(r)   == r \in linked /\ parent = expected[r]
Completed(r) == r \in linked /\ result[r] = parent /\ op[r] \in {"pending_verification", "verified"}

-----------------------------------------------------------------------------
(***************************************************************************)
(* The stored status.                                                      *)
(***************************************************************************)
SaveStatus(r, life, paths, sha) ==
  /\ lifecycle' = [lifecycle EXCEPT ![r] = life]
  /\ validated' = [validated EXCEPT ![r] = paths]
  /\ checkpoint' = [checkpoint EXCEPT ![r] = sha]

SaveBlocked(r) == SaveStatus(r, "BLOCKED", validated[r], checkpoint[r])

-----------------------------------------------------------------------------
(***************************************************************************)
(* Prepare.                                                                *)
(***************************************************************************)
\* A clean workspace that is there is used again.
Reuse(r) ==
  /\ Idle /\ Current(r)
  /\ clone[r] = "ready" /\ Dirty(r) = {}
  /\ SaveStatus(r, "READY", NoValidation, NoHead)
  /\ UNCHANGED <<records, disk, checked, origin, writer, call, budget>>

\* There is none, or the caller wants a new one: it is removed and cloned.
Clone(r) ==
  /\ Idle /\ Current(r)
  /\ clone' = [clone EXCEPT ![r] = "half"]
  /\ at' = [at EXCEPT ![r] = NoHead]
  /\ file' = [file EXCEPT ![r] = Clean]
  /\ Goto(r, "clone")
  /\ UNCHANGED <<records, stored, origin, writer, budget>>

\* The expected head must be in the clone, and be the branch's if there is one.
Cloned(r) == remote = expected[r] \/ (remote = NoHead /\ expected[r] = Base)

Checkout(r) ==
  /\ At(r, "clone")
  /\ \/ /\ Cloned(r)
        /\ clone' = [clone EXCEPT ![r] = "ready"]
        /\ at' = [at EXCEPT ![r] = expected[r]]
        /\ SaveStatus(r, "READY", NoValidation, NoHead)
        /\ UNCHANGED budget
     \/ /\ (~Cloned(r) /\ UNCHANGED budget) \/ Fault
        /\ clone' = [clone EXCEPT ![r] = "absent"]
        /\ SaveBlocked(r)
        /\ UNCHANGED at
  /\ Done
  /\ UNCHANGED <<records, file, checked, origin, writer>>

-----------------------------------------------------------------------------
(***************************************************************************)
(* Apply: the engine, under the writer row, and then the status.           *)
(***************************************************************************)
Applicable(r, S) ==
  /\ Idle /\ Current(r) /\ clone[r] = "ready" /\ at[r] = expected[r]
  /\ S # {} /\ Dirty(r) \subseteq S /\ S \subseteq Scope
  /\ writer \in {NoTask, r}

\* Mutant: the manifest is taken for the whole tree.
WrittenAlone(r, S, v) == file' = [file EXCEPT ![r] = [p \in S |-> v]]
Written(r, S, v) == file' = [file EXCEPT ![r] = [p \in Path |-> IF p \in S THEN v ELSE @[p]]]

Apply(r, S) ==
  /\ Applicable(r, S)
  /\ \E v \in Version : Written(r, S, v)
  /\ writer' = NoTask
  /\ Goto(r, "applied")
  /\ UNCHANGED <<records, clone, at, stored, origin, budget>>

\* Mutant: what was validated before is still believed.
ApplySavedTrusting(r) ==
  SaveStatus(r, "DIRTY", validated[r], NoHead)
ApplySaved(r) ==
  SaveStatus(r, "DIRTY", NoValidation, NoHead)

\* The remote head is read for the status: when that fails nothing is saved.
SaveApplied(r) ==
  /\ At(r, "applied")
  /\ Done
  /\ \/ Dirty(r) \subseteq Scope /\ ApplySaved(r) /\ UNCHANGED budget
     \/ ~(Dirty(r) \subseteq Scope) /\ UNCHANGED <<lifecycle, validated, checkpoint, budget>>
     \/ Fault /\ UNCHANGED <<lifecycle, validated, checkpoint>>
  /\ UNCHANGED <<records, disk, checked, origin, writer>>

-----------------------------------------------------------------------------
(***************************************************************************)
(* Validate: the checks may change files; the files are put back.          *)
(***************************************************************************)
Validate(r) ==
  /\ Idle /\ Current(r) /\ clone[r] = "ready" /\ Dirty(r) \subseteq Scope
  /\ call' = [run |-> r, step |-> "checks", files |-> file[r]]
  /\ \/ UNCHANGED file
     \/ \E p \in Path, v \in Version : file' = [file EXCEPT ![r][p] = v]
  /\ UNCHANGED <<records, clone, at, stored, origin, writer, budget>>

SaveValidated(r) ==
  /\ At(r, "checks")
  /\ file' = [file EXCEPT ![r] = call.files]
  /\ \/ /\ SaveStatus(r, "VALIDATED", Changed(call.files), NoHead)
        /\ checked' = [checked EXCEPT ![r] = call.files]
        /\ UNCHANGED budget
     \/ SaveStatus(r, "BLOCKED", NoValidation, NoHead) /\ UNCHANGED <<checked, budget>>
     \/ Fault /\ UNCHANGED stored
  /\ Done
  /\ UNCHANGED <<records, clone, at, origin, writer>>

-----------------------------------------------------------------------------
(***************************************************************************)
(* Checkpoint.                                                             *)
(***************************************************************************)
IsPublished(r) ==
  lifecycle[r] = "CHECKPOINTED" /\ checkpoint[r] # NoHead
    /\ at[r] = checkpoint[r] /\ remote = checkpoint[r]

\* Either nothing is committed and the dirty paths are those validated, or a
\* checkpoint that was cut short left a commit of exactly those paths.
Committable(r) ==
  \/ at[r] = expected[r] /\ Dirty(r) = validated[r] /\ Dirty(r) # {} /\ Dirty(r) \subseteq Scope
  \/ at[r] \in Commit /\ at[r] # expected[r] /\ Dirty(r) = {} /\ Changed(tree[at[r]]) = validated[r]

Checkpoint(r) ==
  /\ Idle /\ (Current(r) \/ Completed(r))
  /\ clone[r] = "ready" /\ validated[r] # NoValidation
  /\ ~IsPublished(r) /\ Committable(r)
  /\ at[r] = expected[r] => commits[r] < MaxCommits
  /\ writer \in {NoTask, r}
  /\ writer' = r
  /\ call' = [run |-> r, step |-> "commit", files |-> file[r]]
  /\ UNCHANGED <<records, disk, stored, origin, budget>>

\* The except block and the finally block.
Blocked(r) ==
  /\ SaveBlocked(r)
  /\ writer' = NoTask
  /\ Done
  /\ UNCHANGED checked

\* Mutant: the result is recorded before the push.
RecordAtOnce == "record"
AfterCommit == "push"

NewCommit(r) ==
  /\ At(r, "commit") /\ at[r] = expected[r]
  /\ remote \in {NoHead, expected[r]} /\ commits[r] < MaxCommits
  /\ LET c == <<r, commits[r] + 1>> IN
     /\ tree' = [tree EXCEPT ![c] = [p \in Path |-> IF call.files[p] # 0 THEN file[r][p] ELSE 0]]
     /\ at' = [at EXCEPT ![r] = c]
  /\ commits' = [commits EXCEPT ![r] = @ + 1]
  /\ file' = [file EXCEPT ![r] = [p \in Path |-> IF call.files[p] # 0 THEN 0 ELSE @[p]]]
  /\ Goto(r, AfterCommit)
  /\ UNCHANGED <<records, clone, stored, remote, published, writer, faults, crashes, edits, pushes>>

OldCommit(r) ==
  /\ At(r, "commit") /\ at[r] # expected[r]
  /\ remote \in {NoHead, expected[r], at[r]}
  /\ Goto(r, IF remote = at[r] THEN "readback" ELSE "push")
  /\ UNCHANGED <<records, disk, stored, origin, writer, budget>>

BranchDrift(r) ==
  /\ At(r, "commit")
  /\ remote \notin {NoHead, expected[r]} \cup {h \in {at[r]} : h # expected[r]}
  /\ Blocked(r)
  /\ UNCHANGED <<records, disk, origin, budget>>

\* Git or the store fails at a step other than the push.
StepFails(r) ==
  /\ call.run = r /\ call.step \in {"commit", "readback", "record", "parent", "save"}
  /\ Fault
  /\ Blocked(r)
  /\ UNCHANGED <<records, disk, origin>>

\* Not forced: origin refuses what is not a fast forward.  A push that fails
\* may have got through.
Pushed(r) == remote' = at[r] /\ published' = published \cup {at[r]}
FastForward(r) == remote \in {NoHead, expected[r], at[r]}

Push(r) ==
  /\ At(r, "push")
  /\ \/ FastForward(r) /\ Pushed(r) /\ Goto(r, "readback")
        /\ UNCHANGED <<stored, writer, budget>>
     \/ FastForward(r) /\ Fault /\ (Pushed(r) \/ UNCHANGED <<remote, published>>) /\ Blocked(r)
     \/ ~FastForward(r) /\ UNCHANGED <<remote, published, budget>> /\ Blocked(r)
  /\ UNCHANGED <<records, disk, tree>>

Readback(r) ==
  /\ At(r, "readback")
  /\ \/ remote = at[r] /\ Goto(r, "record") /\ UNCHANGED <<stored, writer>>
     \/ remote # at[r] /\ Blocked(r)
  /\ UNCHANGED <<records, disk, origin, budget>>

\* A result is recorded once; the same one again changes nothing.
\* Mutants: no conflict is seen, or the same result again is one.
RecordAnyway(r) == op[r] \notin {"cancelled", "verified"}
RecordFresh(r) == RecordAnyway(r) /\ result[r] = NoHead
Recordable(r) ==
  op[r] \notin {"cancelled", "verified"} /\ result[r] \in {NoHead, at[r]}

RecordResult(r) ==
  /\ At(r, "record")
  /\ \/ /\ Recordable(r)
        /\ result' = [result EXCEPT ![r] = at[r]]
        /\ op' = [op EXCEPT ![r] = IF result[r] = NoHead THEN "pending_verification" ELSE @]
        /\ Goto(r, "parent")
        /\ UNCHANGED <<stored, writer>>
     \/ ~Recordable(r) /\ Blocked(r) /\ UNCHANGED <<result, op>>
  /\ UNCHANGED <<parent, open, linked, expected, disk, origin, budget>>

CheckpointParent(r) ==
  /\ At(r, "parent")
  /\ \/ open /\ parent' = at[r] /\ Goto(r, "save") /\ UNCHANGED <<stored, writer>>
     \/ ~open /\ Blocked(r) /\ UNCHANGED parent
  /\ UNCHANGED <<open, op, linked, expected, result, disk, origin, budget>>

SaveCheckpoint(r) ==
  /\ At(r, "save")
  /\ \/ /\ Dirty(r) = {}
        /\ SaveStatus(r, "CHECKPOINTED", validated[r], at[r])
        /\ writer' = NoTask
        /\ Done
        /\ UNCHANGED checked
     \/ Dirty(r) # {} /\ Blocked(r)
  /\ UNCHANGED <<records, disk, origin, budget>>

-----------------------------------------------------------------------------
(***************************************************************************)
(* The environment.                                                        *)
(***************************************************************************)
\* The process dies; the row and the clone stay as they are.
Crash ==
  /\ ~Idle /\ Mishap /\ crashes < MaxCrashes
  /\ crashes' = crashes + 1
  /\ Done
  /\ UNCHANGED <<records, disk, stored, origin, writer, commits, faults, edits, pushes>>

\* It dies inside the engine: a part of the manifest is written.
CrashInApply(r, S) ==
  /\ Applicable(r, S) /\ Mishap /\ crashes < MaxCrashes
  /\ crashes' = crashes + 1
  /\ \E T \in SUBSET S, v \in Version : Written(r, T, v)
  /\ writer' = r
  /\ UNCHANGED <<records, clone, at, stored, origin, call, commits, faults, edits, pushes>>

\* Somebody works in the clone.
Edit(r) ==
  /\ clone[r] = "ready" /\ Mishap /\ edits < MaxEdits
  /\ edits' = edits + 1
  /\ \E p \in Path, v \in Version : file' = [file EXCEPT ![r][p] = v]
  /\ UNCHANGED <<records, clone, at, stored, origin, writer, call, commits, faults, crashes, pushes>>

\* Somebody pushes to the task branch, or deletes it.
OtherPush ==
  /\ Mishap /\ pushes < MaxPushes
  /\ pushes' = pushes + 1
  /\ remote' \in {Foreign, NoHead} \ {remote}
  /\ UNCHANGED <<records, disk, stored, published, tree, writer, call, commits, faults, crashes, edits>>

\* Another task of the repository takes the row and gives it back.
OtherWriter ==
  /\ Idle /\ writer \in {NoTask, Other}
  /\ writer' = IF writer = Other THEN NoTask ELSE Other
  /\ UNCHANGED <<records, disk, stored, origin, call, budget>>

-----------------------------------------------------------------------------
\* The steps of a call after its first: they follow by themselves.
Continue(r) ==
  \/ SaveLink(r) \/ Checkout(r) \/ SaveApplied(r) \/ SaveValidated(r)
  \/ NewCommit(r) \/ OldCommit(r) \/ BranchDrift(r) \/ StepFails(r) \/ Push(r) \/ Readback(r)
  \/ RecordResult(r) \/ CheckpointParent(r) \/ SaveCheckpoint(r)

Client(r) ==
  \/ CreateOperator(r) \/ VerifyTask(r) \/ CancelTask(r)
  \/ Reuse(r) \/ Clone(r) \/ Validate(r) \/ Checkpoint(r)
  \/ \E S \in SUBSET Scope : Apply(r, S)

Environment ==
  \/ AdoptHead \/ CloseTask \/ Crash \/ OtherPush \/ OtherWriter
  \/ \E r \in Run : Edit(r) \/ (\E S \in SUBSET Scope : CrashInApply(r, S))

Next == Environment \/ \E r \in Run : Client(r) \/ Continue(r)

Spec == Init /\ [][Next]_vars

\* A call goes on by itself, and the caller repeats a checkpoint for as long
\* as it is answered, between whatever other calls there are.
RetrySpec ==
  Spec /\ \A r \in Run : WF_vars(Continue(r)) /\ SF_vars(Checkpoint(r))

-----------------------------------------------------------------------------
Step == {"idle", "link", "clone", "applied", "checks", "commit", "push",
         "readback", "record", "parent", "save"}

TypeOK ==
  /\ parent \in Head /\ open \in BOOLEAN
  /\ op \in [Run -> {"none", "pending", "pending_verification", "verified", "cancelled"}]
  /\ linked \subseteq Run
  /\ expected \in [Run -> Head \cup {NoHead}] /\ result \in [Run -> Head \cup {NoHead}]
  /\ clone \in [Run -> {"absent", "half", "ready"}] /\ at \in [Run -> Head \cup {NoHead}]
  /\ file \in [Run -> [Path -> Version \cup {0}]]
  /\ lifecycle \in [Run -> {"none", "READY", "DIRTY", "VALIDATED", "BLOCKED", "CHECKPOINTED"}]
  /\ validated \in [Run -> SUBSET Path]
  /\ checkpoint \in [Run -> Head \cup {NoHead}]
  /\ checked \in [Run -> [Path -> Version \cup {0}]]
  /\ remote \in Head \cup {NoHead} /\ published \subseteq Head
  /\ tree \in [Commit -> [Path -> Version \cup {0}]]
  /\ writer \in Run \cup {NoTask, Other}
  /\ call \in [run : Run \cup {NoTask}, step : Step, files : [Path -> Version \cup {0}]]
  /\ commits \in [Run -> 0 .. MaxCommits]
  /\ faults \in Nat /\ crashes \in Nat /\ edits \in Nat /\ pushes \in Nat

\* A head that a run's record names, as its result or as its checkpoint, was
\* on the task branch (checkpoint records after the push and the readback),
\* whatever was lost, refused or cut short.
HeadsArePublished ==
  \A r \in Run : {result[r], checkpoint[r]} \subseteq published \cup {NoHead}

\* The head recorded for a run is never replaced by another
\* (record_external_execution_result), though the run may be cloned, committed
\* and pushed anew.
OneResult ==
  [][\A r \in Run : result[r] # NoHead => result'[r] = result[r]]_vars

\* As long as no call was cut short or failed and nobody else worked in the
\* clone, a checkpoint commits the very files that its validation passed on,
\* although it compares no more than their paths.
CommitIsValidated ==
  [][faults + crashes + edits = 0
     => \A r \in Run : commits'[r] # commits[r] => tree'[at'[r]] = checked[r]]_vars

\* The run's commit can still be published and recorded.
Finishable(r) ==
  /\ Current(r) \/ Completed(r)
  /\ open /\ op[r] \notin {"cancelled", "verified"} /\ result[r] \in {NoHead, at[r]}
  /\ clone[r] = "ready" /\ at[r] \in Commit /\ FastForward(r)
  /\ validated[r] = Changed(tree[at[r]]) /\ Dirty(r) = {}
  /\ writer \in {NoTask, r}

\* A checkpoint cut short after its commit is completed by repeating it,
\* wherever it stopped: a run that can be finished does not stay unfinished.
CommitIsRecorded ==
  \A r \in Run :
    []<>(Finishable(r) => lifecycle[r] = "CHECKPOINTED" /\ checkpoint[r] = at[r])
=============================================================================
