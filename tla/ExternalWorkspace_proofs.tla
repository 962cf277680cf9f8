----------------------- MODULE ExternalWorkspace_proofs -----------------------
(***************************************************************************)
(* Proofs about the external execution workspaces, for any set of runs,    *)
(* paths and versions and any number of failures.                          *)
(***************************************************************************)
EXTENDS ExternalWorkspace, TLAPS

(***************************************************************************)
(* How far a checkpoint has got says where its workspace stands: on a      *)
(* commit once there is something to push, on a published one once the     *)
(* readback has succeeded.                                                 *)
(***************************************************************************)
HeadOfCall ==
  /\ call.step # "idle" => call.run \in Run
  /\ call.step = "commit" => at[call.run] = expected[call.run] \/ at[call.run] \in Commit
  /\ call.step \in {"push", "readback"} => at[call.run] \in Commit
  /\ call.step \in {"record", "parent", "save"} => at[call.run] \in published

BranchIsPublished == remote \in Commit => remote \in published

IInv == TypeOK /\ HeadsArePublished /\ HeadOfCall /\ BranchIsPublished

-----------------------------------------------------------------------------
(***************************************************************************)
(* Type correctness.                                                       *)
(***************************************************************************)
LEMMA HeadTypes ==
  /\ Base \in Head /\ Foreign \in Head /\ Commit \subseteq Head
  /\ NoHead \notin Head
  /\ \A r \in Run, n \in 1 .. MaxCommits : <<r, n>> \in Commit
  BY WorkspaceAssumption DEF Head, Commit


(***************************************************************************)
(* What the shared pieces of the actions do to the types.                  *)
(***************************************************************************)
StoredType ==
  /\ lifecycle \in [Run -> {"none", "READY", "DIRTY", "VALIDATED", "BLOCKED", "CHECKPOINTED"}]
  /\ validated \in [Run -> SUBSET Path]
  /\ checkpoint \in [Run -> Head \cup {NoHead}]

BudgetType ==
  /\ commits \in [Run -> 0 .. MaxCommits]
  /\ faults \in Nat /\ crashes \in Nat /\ edits \in Nat /\ pushes \in Nat

LEMMA SaveStatusType ==
  ASSUME TypeOK, NEW r \in Run, NEW paths \in SUBSET Path, NEW sha \in Head \cup {NoHead},
         NEW life \in {"none", "READY", "DIRTY", "VALIDATED", "BLOCKED", "CHECKPOINTED"},
         SaveStatus(r, life, paths, sha)
  PROVE  StoredType'
  BY DEF TypeOK, StoredType, SaveStatus

LEMMA SaveBlockedType ==
  ASSUME TypeOK, NEW r \in Run, SaveBlocked(r)
  PROVE  StoredType'
  BY SaveStatusType DEF SaveBlocked, TypeOK

LEMMA FaultType == TypeOK /\ Fault => BudgetType'
  BY DEF TypeOK, Fault, BudgetType

LEMMA WrittenType ==
  ASSUME TypeOK, NEW r \in Run, NEW S, NEW v \in Version, Written(r, S, v)
  PROVE  file' \in [Run -> [Path -> Version \cup {0}]]
  BY DEF TypeOK, Written

CallTypeOK ==
  call \in [run : Run \cup {NoTask}, step : Step, files : [Path -> Version \cup {0}]]

LEMMA GotoType ==
  ASSUME TypeOK, NEW r \in Run, NEW s \in Step, Goto(r, s)
  PROVE  CallTypeOK'
  BY DEF TypeOK, Goto, CallTypeOK

LEMMA DoneType == Done => CallTypeOK'
  BY DEF Done, NoCall, Clean, Step, CallTypeOK

LEMMA BlockedType ==
  ASSUME TypeOK, NEW r \in Run, Blocked(r)
  PROVE  StoredType' /\ CallTypeOK' /\ checked' = checked /\ writer' = NoTask
  BY SaveBlockedType, DoneType DEF Blocked

LEMMA ExceptType ==
  ASSUME NEW S, NEW T, NEW f \in [S -> T], NEW x \in S, NEW y \in T
  PROVE  [f EXCEPT ![x] = y] \in [S -> T]
  OBVIOUS

LEMMA TypeStep == IInv /\ [Next]_vars => TypeOK'
<1> SUFFICES ASSUME IInv, [Next]_vars PROVE TypeOK'
  OBVIOUS
<1> USE WorkspaceAssumption, HeadTypes DEF IInv, TypeOK, Step, records, disk, stored, origin, budget,
        Goto, Done, NoCall, Clean
<1>1. CASE UNCHANGED vars
  BY <1>1 DEF vars
<1>2. ASSUME NEW r \in Run, CreateOperator(r) PROVE TypeOK'
  BY <1>2 DEF CreateOperator, Idle
<1>3. ASSUME NEW r \in Run, SaveLink(r) PROVE TypeOK'
  BY <1>3 DEF SaveLink
<1>4. ASSUME NEW r \in Run, VerifyTask(r) PROVE TypeOK'
  BY <1>4 DEF VerifyTask
<1>5. ASSUME NEW r \in Run, CancelTask(r) PROVE TypeOK'
  BY <1>5 DEF CancelTask
<1>6. ASSUME NEW r \in Run, Reuse(r) PROVE TypeOK'
  BY <1>6 DEF Reuse, SaveStatus, NoValidation
<1>7. ASSUME NEW r \in Run, Clone(r) PROVE TypeOK'
  BY <1>7 DEF Clone
<1>8. ASSUME NEW r \in Run, Checkout(r) PROVE TypeOK'
  <2>1. \/ clone' = [clone EXCEPT ![r] = "ready"] /\ at' = [at EXCEPT ![r] = expected[r]]
        \/ clone' = [clone EXCEPT ![r] = "absent"] /\ at' = at
    BY <1>8 DEF Checkout
  <2>2. /\ clone' \in [Run -> {"absent", "half", "ready"}]
        /\ at' \in [Run -> Head \cup {NoHead}]
    <3>1. /\ clone \in [Run -> {"absent", "half", "ready"}]
          /\ at \in [Run -> Head \cup {NoHead}]
          /\ expected[r] \in Head \cup {NoHead}
      OBVIOUS
    <3>2. QED BY ONLY <2>1, <3>1, ExceptType, r \in Run
  <2>3. StoredType'
    BY <1>8, SaveStatusType, SaveBlockedType DEF Checkout, NoValidation
  <2>4. BudgetType'
    BY <1>8, FaultType DEF Checkout, BudgetType
  <2>5. QED BY <1>8, <2>1, <2>2, <2>3, <2>4, DoneType DEF Checkout, StoredType, BudgetType, CallTypeOK
<1>9. ASSUME NEW r \in Run, NEW S \in SUBSET Scope, Apply(r, S) PROVE TypeOK'
  <2>1. file' \in [Run -> [Path -> Version \cup {0}]]
    BY <1>9, WrittenType DEF Apply
  <2>2. QED BY <1>9, <2>1 DEF Apply
<1>10. ASSUME NEW r \in Run, SaveApplied(r) PROVE TypeOK'
  <2>1. StoredType'
    BY <1>10, SaveStatusType DEF SaveApplied, ApplySaved, NoValidation, StoredType
  <2>2. BudgetType'
    BY <1>10, FaultType DEF SaveApplied, BudgetType
  <2>3. QED BY <1>10, <2>1, <2>2, DoneType DEF SaveApplied, StoredType, BudgetType, CallTypeOK
<1>11. ASSUME NEW r \in Run, Validate(r) PROVE TypeOK'
  <2>1. CallTypeOK'
    BY <1>11 DEF Validate, CallTypeOK
  <2>2. file' \in [Run -> [Path -> Version \cup {0}]]
    <3>1. CASE UNCHANGED file
      BY <3>1
    <3>2. ASSUME NEW p \in Path, NEW v \in Version, file' = [file EXCEPT ![r][p] = v]
          PROVE  file' \in [Run -> [Path -> Version \cup {0}]]
      BY <3>2
    <3>3. QED BY <1>11, <3>1, <3>2 DEF Validate
  <2>3. QED BY <1>11, <2>1, <2>2 DEF Validate, CallTypeOK
<1>12. ASSUME NEW r \in Run, SaveValidated(r) PROVE TypeOK'
  <2>1. call.files \in [Path -> Version \cup {0}] /\ Changed(call.files) \in SUBSET Path
    BY DEF Changed
  <2>2. StoredType'
    BY <1>12, <2>1, SaveStatusType DEF SaveValidated, NoValidation, StoredType
  <2>3. BudgetType'
    BY <1>12, FaultType DEF SaveValidated, BudgetType
  <2>4. /\ file' \in [Run -> [Path -> Version \cup {0}]]
        /\ checked' \in [Run -> [Path -> Version \cup {0}]]
    BY <1>12, <2>1 DEF SaveValidated
  <2>5. QED BY <1>12, <2>2, <2>3, <2>4, DoneType DEF SaveValidated, StoredType, BudgetType, CallTypeOK
<1>13. ASSUME NEW r \in Run, Checkpoint(r) PROVE TypeOK'
  BY <1>13 DEF Checkpoint
<1>14. ASSUME NEW r \in Run, NewCommit(r) PROVE TypeOK'
  <2> DEFINE n == commits[r] + 1
  <2>0. n \in 1 .. MaxCommits
    BY <1>14 DEF NewCommit
  <2>1. n \in 1 .. MaxCommits /\ <<r, n>> \in Commit
    BY <2>0, HeadTypes
  <2>2. [p \in Path |-> IF call.files[p] # 0 THEN file[r][p] ELSE 0] \in [Path -> Version \cup {0}]
    OBVIOUS
  <2>3. [p \in Path |-> IF call.files[p] # 0 THEN 0 ELSE file[r][p]] \in [Path -> Version \cup {0}]
    OBVIOUS
  <2>4. tree' \in [Commit -> [Path -> Version \cup {0}]]
    BY <1>14, <2>1, <2>2 DEF NewCommit
  <2>5. at' \in [Run -> Head \cup {NoHead}]
    BY <1>14, <2>1 DEF NewCommit
  <2>6. file' \in [Run -> [Path -> Version \cup {0}]]
    BY <1>14, <2>3 DEF NewCommit
  <2>7. commits' \in [Run -> 0 .. MaxCommits]
    BY <1>14, <2>1 DEF NewCommit
  <2>8. CallTypeOK'
    BY <1>14, GotoType DEF NewCommit, AfterCommit
  <2>9. QED BY <1>14, <2>4, <2>5, <2>6, <2>7, <2>8 DEF NewCommit, CallTypeOK
<1>15. ASSUME NEW r \in Run, OldCommit(r) PROVE TypeOK'
  BY <1>15 DEF OldCommit
<1>16. ASSUME NEW r \in Run, BranchDrift(r) PROVE TypeOK'
  BY <1>16, BlockedType DEF BranchDrift, StoredType, CallTypeOK
<1>17. ASSUME NEW r \in Run, Push(r) PROVE TypeOK'
  <2>1. at[r] \in Head
    BY <1>17 DEF Push, At, HeadOfCall
  <2>2. remote' \in Head \cup {NoHead} /\ published' \subseteq Head
    BY <1>17, <2>1 DEF Push, Pushed
  <2>3. StoredType' /\ CallTypeOK' /\ checked' = checked /\ writer' \in {writer, NoTask}
    BY <1>17, BlockedType, GotoType DEF Push, StoredType
  <2>4. BudgetType'
    BY <1>17, FaultType DEF Push, BudgetType
  <2>5. QED BY <1>17, <2>2, <2>3, <2>4 DEF Push, StoredType, BudgetType, CallTypeOK
<1>18. ASSUME NEW r \in Run, Readback(r) PROVE TypeOK'
  <2>1. StoredType' /\ CallTypeOK' /\ checked' = checked /\ writer' \in {writer, NoTask}
    BY <1>18, BlockedType, GotoType DEF Readback, StoredType
  <2>2. QED BY <1>18, <2>1 DEF Readback, StoredType, CallTypeOK
<1>19. ASSUME NEW r \in Run, RecordResult(r) PROVE TypeOK'
  <2>1. StoredType' /\ CallTypeOK' /\ checked' = checked /\ writer' \in {writer, NoTask}
    BY <1>19, BlockedType, GotoType DEF RecordResult, StoredType
  <2>2. \/ /\ result' = [result EXCEPT ![r] = at[r]]
           /\ op' = [op EXCEPT ![r] = IF result[r] = NoHead THEN "pending_verification" ELSE @]
        \/ result' = result /\ op' = op
    BY <1>19 DEF RecordResult
  <2> DEFINE Statuses == {"none", "pending", "pending_verification", "verified", "cancelled"}
  <2>3. /\ result' \in [Run -> Head \cup {NoHead}]
        /\ op' \in [Run -> Statuses]
    <3>1. /\ result \in [Run -> Head \cup {NoHead}] /\ at[r] \in Head \cup {NoHead}
          /\ op \in [Run -> Statuses]
          /\ (IF result[r] = NoHead THEN "pending_verification" ELSE op[r]) \in Statuses
      OBVIOUS
    <3> HIDE DEF Statuses
    <3>2. QED BY ONLY <2>2, <3>1, ExceptType, r \in Run
  <2>4. QED BY <1>19, <2>1, <2>2, <2>3 DEF RecordResult, StoredType, CallTypeOK
<1>20. ASSUME NEW r \in Run, CheckpointParent(r) PROVE TypeOK'
  <2>1. StoredType' /\ CallTypeOK' /\ checked' = checked /\ writer' \in {writer, NoTask}
    BY <1>20, BlockedType, GotoType DEF CheckpointParent, StoredType
  <2>2. parent' \in Head
    BY <1>20 DEF CheckpointParent, At, HeadOfCall
  <2>3. QED BY <1>20, <2>1, <2>2 DEF CheckpointParent, StoredType, CallTypeOK
<1>21. ASSUME NEW r \in Run, SaveCheckpoint(r) PROVE TypeOK'
  <2>1. StoredType' /\ CallTypeOK' /\ checked' = checked /\ writer' \in {writer, NoTask}
    BY <1>21, BlockedType, DoneType, SaveStatusType DEF SaveCheckpoint, StoredType
  <2>2. QED BY <1>21, <2>1 DEF SaveCheckpoint, StoredType, CallTypeOK
<1>22. CASE AdoptHead
  BY <1>22 DEF AdoptHead
<1>23. CASE CloseTask
  BY <1>23 DEF CloseTask
<1>24. CASE Crash
  BY <1>24 DEF Crash
<1>25. ASSUME NEW r \in Run, NEW S \in SUBSET Scope, CrashInApply(r, S) PROVE TypeOK'
  <2>1. file' \in [Run -> [Path -> Version \cup {0}]]
    BY <1>25, WrittenType DEF CrashInApply
  <2>2. QED BY <1>25, <2>1 DEF CrashInApply
<1>26. ASSUME NEW r \in Run, Edit(r) PROVE TypeOK'
  BY <1>26 DEF Edit
<1>27. CASE OtherPush
  BY <1>27 DEF OtherPush
<1>28. CASE OtherWriter
  BY <1>28 DEF OtherWriter
<1>29. ASSUME NEW r \in Run, StepFails(r) PROVE TypeOK'
  <2>1. StoredType' /\ CallTypeOK' /\ checked' = checked /\ writer' = NoTask /\ BudgetType'
    BY <1>29, BlockedType, FaultType DEF StepFails
  <2>2. QED BY <1>29, <2>1 DEF StepFails, StoredType, BudgetType, CallTypeOK
<1>30. QED
  BY <1>1, <1>2, <1>3, <1>4, <1>5, <1>6, <1>7, <1>8, <1>9, <1>10, <1>11, <1>12, <1>13, <1>14,
     <1>15, <1>16, <1>17, <1>18, <1>19, <1>20, <1>21, <1>22, <1>23, <1>24, <1>25, <1>26, <1>27,
     <1>28, <1>29 DEF Next, Environment, Client, Continue

-----------------------------------------------------------------------------
(***************************************************************************)
(* What is recorded is published.                                          *)
(***************************************************************************)
\* The steps that touch neither the heads nor the branch, and leave at most
\* one of the calls under way.
LEMMA Untouched ==
  ASSUME IInv, UNCHANGED <<parent, result, checkpoint, expected, at, remote, published>>,
         \/ UNCHANGED call
         \/ Done
         \/ call'.step \in {"link", "clone", "applied", "checks"} /\ call'.run \in Run
  PROVE  (HeadsArePublished /\ HeadOfCall /\ BranchIsPublished)'
  BY DEF IInv, HeadsArePublished, HeadOfCall, BranchIsPublished, Done, NoCall

LEMMA BlockedKeeps ==
  ASSUME TypeOK, NEW r \in Run, Blocked(r)
  PROVE  checkpoint' = checkpoint /\ call' = NoCall
  BY DEF TypeOK, Blocked, SaveBlocked, SaveStatus, Done

LEMMA PublishedStep == IInv /\ TypeOK' /\ [Next]_vars => (HeadsArePublished /\ HeadOfCall /\ BranchIsPublished)'
<1> SUFFICES ASSUME IInv, TypeOK', [Next]_vars
             PROVE  (HeadsArePublished /\ HeadOfCall /\ BranchIsPublished)'
  OBVIOUS
<1> DEFINE Goal == (HeadsArePublished /\ HeadOfCall /\ BranchIsPublished)'
<1> USE DEF IInv, records, disk, stored, origin, budget
<1>1. CASE UNCHANGED vars
  BY <1>1, Untouched DEF vars
<1>2. ASSUME NEW r \in Run, CreateOperator(r) PROVE Goal
  <2>1. /\ call' = [call EXCEPT !.run = r, !.step = "link"]
        /\ UNCHANGED <<parent, result, checkpoint, at, remote, published>>
    BY <1>2 DEF CreateOperator, Goto
  <2>2. call'.step = "link" /\ call'.run = r
    BY <2>1 DEF TypeOK
  <2>3. QED BY <2>1, <2>2 DEF HeadsArePublished, HeadOfCall, BranchIsPublished
<1>3. ASSUME NEW r \in Run, SaveLink(r) PROVE Goal
  BY <1>3, Untouched DEF SaveLink
<1>4. ASSUME NEW r \in Run, VerifyTask(r) PROVE Goal
  BY <1>4, Untouched DEF VerifyTask
<1>5. ASSUME NEW r \in Run, CancelTask(r) PROVE Goal
  BY <1>5, Untouched DEF CancelTask
<1>6. ASSUME NEW r \in Run, Reuse(r) PROVE Goal
  <2>1. \A q \in Run : checkpoint'[q] \in {checkpoint[q], NoHead}
    BY <1>6 DEF Reuse, SaveStatus, TypeOK
  <2>2. QED BY <1>6, <2>1 DEF Reuse, HeadsArePublished, HeadOfCall, BranchIsPublished
<1>7. ASSUME NEW r \in Run, Clone(r) PROVE Goal
  <2>1. call' = [call EXCEPT !.run = r, !.step = "clone"] /\ UNCHANGED <<parent, result, checkpoint, remote, published>>
    BY <1>7 DEF Clone, Goto
  <2>2. call'.step = "clone" /\ call'.run = r
    BY <2>1 DEF TypeOK
  <2>3. QED BY <2>1, <2>2 DEF HeadsArePublished, HeadOfCall, BranchIsPublished
<1>8. ASSUME NEW r \in Run, Checkout(r) PROVE Goal
  <2>1. \A q \in Run : checkpoint'[q] \in {checkpoint[q], NoHead}
    BY <1>8 DEF Checkout, SaveStatus, SaveBlocked, TypeOK
  <2>2. UNCHANGED <<parent, result, remote, published>> /\ call' = NoCall
    BY <1>8 DEF Checkout, Done
  <2>3. QED BY <2>1, <2>2 DEF NoCall, HeadsArePublished, HeadOfCall, BranchIsPublished
<1>9. ASSUME NEW r \in Run, NEW S \in SUBSET Scope, Apply(r, S) PROVE Goal
  <2>1. /\ call' = [call EXCEPT !.run = r, !.step = "applied"]
        /\ UNCHANGED <<parent, result, checkpoint, expected, at, remote, published>>
    BY <1>9 DEF Apply, Goto
  <2>2. call'.step = "applied" /\ call'.run = r
    BY <2>1 DEF TypeOK
  <2>3. QED BY <2>1, <2>2, Untouched
<1>10. ASSUME NEW r \in Run, SaveApplied(r) PROVE Goal
  <2>1. \A q \in Run : checkpoint'[q] \in {checkpoint[q], NoHead}
    BY <1>10 DEF SaveApplied, ApplySaved, SaveStatus, TypeOK
  <2>2. UNCHANGED <<parent, result, expected, at, remote, published>> /\ call' = NoCall
    BY <1>10 DEF SaveApplied, Done
  <2>3. QED BY <2>1, <2>2 DEF NoCall, HeadsArePublished, HeadOfCall, BranchIsPublished
<1>11. ASSUME NEW r \in Run, Validate(r) PROVE Goal
  BY <1>11, Untouched DEF Validate
<1>12. ASSUME NEW r \in Run, SaveValidated(r) PROVE Goal
  <2>1. \A q \in Run : checkpoint'[q] \in {checkpoint[q], NoHead}
    BY <1>12 DEF SaveValidated, SaveStatus, TypeOK
  <2>2. UNCHANGED <<parent, result, expected, at, remote, published>> /\ call' = NoCall
    BY <1>12 DEF SaveValidated, Done
  <2>3. QED BY <2>1, <2>2 DEF NoCall, HeadsArePublished, HeadOfCall, BranchIsPublished
<1>13. ASSUME NEW r \in Run, Checkpoint(r) PROVE Goal
  <2>1. call'.step = "commit" /\ call'.run = r
    BY <1>13 DEF Checkpoint
  <2>2. at[r] = expected[r] \/ at[r] \in Commit
    BY <1>13 DEF Checkpoint, Committable
  <2>3. QED BY <1>13, <2>1, <2>2 DEF Checkpoint, HeadsArePublished, HeadOfCall, BranchIsPublished
<1>14. ASSUME NEW r \in Run, NewCommit(r) PROVE Goal
  <2>1. call'.step = "push" /\ call'.run = r
    BY <1>14 DEF NewCommit, Goto, AfterCommit, TypeOK
  <2>2. at'[r] \in Commit
    <3>1. commits[r] + 1 \in 1 .. MaxCommits
      BY <1>14, WorkspaceAssumption DEF NewCommit, TypeOK
    <3>2. at' = [at EXCEPT ![r] = <<r, commits[r] + 1>>]
      BY <1>14 DEF NewCommit
    <3>3. at'[r] = <<r, commits[r] + 1>>
      BY <3>2 DEF TypeOK
    <3>4. QED BY <3>1, <3>3, HeadTypes
  <2>3. UNCHANGED <<parent, result, checkpoint, remote, published>>
    BY <1>14 DEF NewCommit
  <2>4. QED BY <2>1, <2>2, <2>3 DEF HeadsArePublished, HeadOfCall, BranchIsPublished
<1>15. ASSUME NEW r \in Run, OldCommit(r) PROVE Goal
  <2>1. /\ call.step = "commit" /\ call.run = r /\ at[r] # expected[r]
        /\ UNCHANGED <<parent, result, checkpoint, at, remote, published>>
    BY <1>15 DEF OldCommit, At
  <2>2. at[r] \in Commit
    BY <2>1 DEF HeadOfCall
  <2>3. call'.step \in {"push", "readback"} /\ call'.run = r
    BY <1>15 DEF OldCommit, Goto, TypeOK
  <2>4. QED BY <2>1, <2>2, <2>3 DEF HeadsArePublished, HeadOfCall, BranchIsPublished
<1>16. ASSUME NEW r \in Run, BranchDrift(r) PROVE Goal
  <2>1. UNCHANGED <<parent, result, expected, at, remote, published, checkpoint>> /\ call' = NoCall
    BY <1>16, BlockedKeeps DEF BranchDrift
  <2>2. QED BY <2>1, Untouched DEF Done
<1>17. ASSUME NEW r \in Run, Push(r) PROVE Goal
  <2>1. /\ call.step = "push" /\ call.run = r /\ at[r] \in Commit
        /\ UNCHANGED <<parent, result, expected, at>>
    BY <1>17 DEF Push, At, HeadOfCall
  <2>2. (remote' = at[r] /\ published' = published \cup {at[r]}) \/ UNCHANGED <<remote, published>>
    BY <1>17 DEF Push, Pushed
  <2>3. checkpoint' = checkpoint /\ (call' = NoCall \/ (call'.step = "readback" /\ call'.run = r))
    <3>1. CASE Blocked(r)
      BY <3>1, BlockedKeeps
    <3>2. CASE Goto(r, "readback") /\ UNCHANGED stored
      BY <3>2 DEF Goto, TypeOK
    <3>3. QED BY <1>17, <3>1, <3>2 DEF Push
  <2>4. QED BY <2>1, <2>2, <2>3 DEF NoCall, HeadsArePublished, HeadOfCall, BranchIsPublished
<1>18. ASSUME NEW r \in Run, Readback(r) PROVE Goal
  <2>1. /\ call.step = "readback" /\ call.run = r /\ at[r] \in Commit
        /\ UNCHANGED <<parent, result, expected, at, remote, published>>
    BY <1>18 DEF Readback, At, HeadOfCall
  <2>2. CASE remote = at[r] /\ Goto(r, "record") /\ UNCHANGED stored
    <3>1. at[r] \in published /\ checkpoint' = checkpoint
      BY <2>1, <2>2 DEF BranchIsPublished
    <3>2. call'.step = "record" /\ call'.run = r
      BY <2>2 DEF Goto, TypeOK
    <3>3. QED BY <2>1, <3>1, <3>2 DEF HeadsArePublished, HeadOfCall, BranchIsPublished
  <2>3. CASE Blocked(r)
    BY <2>1, <2>3, BlockedKeeps, Untouched DEF Done
  <2>4. QED BY <1>18, <2>2, <2>3 DEF Readback
<1>19. ASSUME NEW r \in Run, RecordResult(r) PROVE Goal
  <2>1. /\ call.step = "record" /\ call.run = r /\ at[r] \in published
        /\ UNCHANGED <<parent, expected, at, remote, published>>
    BY <1>19 DEF RecordResult, At, HeadOfCall
  <2>2. CASE result' = [result EXCEPT ![r] = at[r]] /\ Goto(r, "parent") /\ UNCHANGED stored
    <3>1. \A q \in Run : result'[q] \in {result[q], at[r]}
      BY <2>2 DEF TypeOK
    <3>2. call'.step = "parent" /\ call'.run = r /\ checkpoint' = checkpoint
      BY <2>2 DEF Goto, TypeOK
    <3>3. QED BY <2>1, <3>1, <3>2 DEF HeadsArePublished, HeadOfCall, BranchIsPublished
  <2>3. CASE Blocked(r) /\ UNCHANGED result
    BY <2>1, <2>3, BlockedKeeps, Untouched DEF Done
  <2>4. QED BY <1>19, <2>2, <2>3 DEF RecordResult
<1>20. ASSUME NEW r \in Run, CheckpointParent(r) PROVE Goal
  <2>1. /\ call.step = "parent" /\ call.run = r /\ at[r] \in published
        /\ UNCHANGED <<result, expected, at, remote, published>>
    BY <1>20 DEF CheckpointParent, At, HeadOfCall
  <2>2. CASE parent' = at[r] /\ Goto(r, "save") /\ UNCHANGED stored
    <3>1. call'.step = "save" /\ call'.run = r /\ checkpoint' = checkpoint
      BY <2>2 DEF Goto, TypeOK
    <3>2. QED BY <2>1, <2>2, <3>1 DEF HeadsArePublished, HeadOfCall, BranchIsPublished
  <2>3. CASE Blocked(r) /\ UNCHANGED parent
    BY <2>1, <2>3, BlockedKeeps, Untouched DEF Done
  <2>4. QED BY <1>20, <2>2, <2>3 DEF CheckpointParent
<1>21. ASSUME NEW r \in Run, SaveCheckpoint(r) PROVE Goal
  <2>1. /\ call.step = "save" /\ call.run = r /\ at[r] \in published
        /\ UNCHANGED <<parent, result, expected, at, remote, published>>
    BY <1>21 DEF SaveCheckpoint, At, HeadOfCall
  <2>2. \A q \in Run : checkpoint'[q] \in {checkpoint[q], at[r]}
    BY <1>21, BlockedKeeps DEF SaveCheckpoint, SaveStatus, TypeOK
  <2>3. call' = NoCall
    BY <1>21, BlockedKeeps DEF SaveCheckpoint, Done
  <2>4. QED BY <2>1, <2>2, <2>3 DEF NoCall, HeadsArePublished, HeadOfCall, BranchIsPublished
<1>22. CASE AdoptHead
  BY <1>22 DEF AdoptHead, HeadsArePublished, HeadOfCall, BranchIsPublished
<1>23. CASE CloseTask
  BY <1>23, Untouched DEF CloseTask
<1>24. CASE Crash
  BY <1>24, Untouched DEF Crash
<1>25. ASSUME NEW r \in Run, NEW S \in SUBSET Scope, CrashInApply(r, S) PROVE Goal
  BY <1>25, Untouched DEF CrashInApply
<1>26. ASSUME NEW r \in Run, Edit(r) PROVE Goal
  BY <1>26, Untouched DEF Edit
<1>27. CASE OtherPush
  <2>1. remote' \notin Commit
    BY <1>27, WorkspaceAssumption, HeadTypes DEF OtherPush
  <2>2. QED BY <1>27, <2>1 DEF OtherPush, HeadsArePublished, HeadOfCall, BranchIsPublished
<1>28. CASE OtherWriter
  BY <1>28, Untouched DEF OtherWriter
<1>29. ASSUME NEW r \in Run, StepFails(r) PROVE Goal
  <2>1. UNCHANGED <<parent, result, expected, at, remote, published, checkpoint>> /\ call' = NoCall
    BY <1>29, BlockedKeeps DEF StepFails
  <2>2. QED BY <2>1, Untouched DEF Done
<1>30. QED
  BY <1>1, <1>2, <1>3, <1>4, <1>5, <1>6, <1>7, <1>8, <1>9, <1>10, <1>11, <1>12, <1>13, <1>14,
     <1>15, <1>16, <1>17, <1>18, <1>19, <1>20, <1>21, <1>22, <1>23, <1>24, <1>25, <1>26, <1>27,
     <1>28, <1>29 DEF Next, Environment, Client, Continue

LEMMA Initially == Init => IInv
  BY WorkspaceAssumption, HeadTypes
     DEF Init, IInv, TypeOK, HeadsArePublished, HeadOfCall, BranchIsPublished, NoCall, Clean,
         NoValidation, Step

LEMMA Inductive == Spec => []IInv
<1>1. IInv /\ [Next]_vars => IInv'
  BY TypeStep, PublishedStep DEF IInv
<1>2. QED BY Initially, <1>1, PTL DEF Spec

(***************************************************************************)
(* The records, the clones, the branch and the call keep their types.      *)
(***************************************************************************)
THEOREM TypeCorrect == Spec => []TypeOK
<1>1. IInv => TypeOK
  BY DEF IInv
<1>2. QED BY Inductive, <1>1, PTL

(***************************************************************************)
(* A head that a result or a checkpoint names was on the task branch,      *)
(* whatever call failed, died or was refused, and whoever else pushed      *)
(* (checkpoint, record_external_execution_result).                         *)
(***************************************************************************)
THEOREM HeadsArePublishedHolds == Spec => []HeadsArePublished
<1>1. IInv => HeadsArePublished
  BY DEF IInv
<1>2. QED BY Inductive, <1>1, PTL

(***************************************************************************)
(* A run's recorded head is never replaced, though the run may be cloned,  *)
(* committed and pushed anew (record_external_execution_result).           *)
(***************************************************************************)
THEOREM OneResultHolds == Spec => OneResult
<1>1. ASSUME TypeOK, [Next]_vars
      PROVE  \A r \in Run : result[r] # NoHead => result'[r] = result[r]
  <2>1. ASSUME NEW q \in Run, RecordResult(q)
        PROVE  \A r \in Run : result[r] # NoHead => result'[r] = result[r]
    BY <1>1, <2>1 DEF RecordResult, Recordable, TypeOK
  <2>2. CASE UNCHANGED vars
    BY <2>2 DEF vars, records
  <2>3. ASSUME NEW q \in Run, Client(q) PROVE UNCHANGED result
    BY <2>3 DEF Client, CreateOperator, VerifyTask, CancelTask, Reuse, Clone, Validate,
                Checkpoint, Apply, records
  <2>4. ASSUME NEW q \in Run, Continue(q), ~RecordResult(q) PROVE UNCHANGED result
    BY <2>4 DEF Continue, SaveLink, Checkout, SaveApplied, SaveValidated, NewCommit, OldCommit,
                BranchDrift, StepFails, Push, Readback, CheckpointParent, SaveCheckpoint, records
  <2>5. CASE Environment
    BY <2>5 DEF Environment, AdoptHead, CloseTask, Crash, OtherPush, OtherWriter, Edit,
                CrashInApply, records
  <2>6. QED BY <1>1, <2>1, <2>2, <2>3, <2>4, <2>5 DEF Next
<1>2. QED BY TypeCorrect, <1>1, PTL DEF Spec, OneResult

-----------------------------------------------------------------------------
(***************************************************************************)
(* What is committed was validated.  As long as nothing interfered, dirty  *)
(* files whose paths are those validated are the very files the validation *)
(* ran on: whatever changes a file afterwards (an apply, a new clone, a    *)
(* commit) forgets the validation or leaves the file clean.                *)
(***************************************************************************)
Quiet == faults + crashes + edits = 0

Trusted(r) == Dirty(r) = validated[r] /\ Dirty(r) # {} => file[r] = checked[r]

FilesInv ==
  /\ \A r \in Run : (call.run = r => call.step \notin {"applied", "checks"}) => Trusted(r)
  /\ call.step = "applied" => Dirty(call.run) \subseteq Scope
  /\ call.step = "commit" =>
       /\ file[call.run] = call.files
       /\ at[call.run] = expected[call.run] => file[call.run] = checked[call.run]

\* A step that changes neither files nor heads, and keeps or forgets validations.
LEMMA FilesKept ==
  ASSUME FilesInv, UNCHANGED <<file, checked, expected, at>>,
         \A r \in Run : validated'[r] \in {validated[r], NoValidation},
         \/ UNCHANGED call
         \/ /\ call.step \notin {"applied", "checks"}
            /\ call'.step \notin {"applied", "commit"}
  PROVE  FilesInv'
<1>1. \A r : Dirty(r)' = Dirty(r)
  BY DEF Dirty, Changed
<1>2. \A r \in Run : Trusted(r) => Trusted(r)'
  BY <1>1 DEF Trusted, NoValidation
<1>3. CASE UNCHANGED call
  <2>1. call'.step = "applied" => Dirty(call.run)' \subseteq Scope
    BY <1>1, <1>3 DEF FilesInv
  <2>2. call'.step = "commit" =>
          /\ file'[call'.run] = call'.files
          /\ at'[call'.run] = expected'[call'.run] => file'[call'.run] = checked'[call'.run]
    BY <1>3 DEF FilesInv
  <2>3. \A r \in Run : (call'.run = r => call'.step \notin {"applied", "checks"}) => Trusted(r)'
    BY <1>2, <1>3 DEF FilesInv
  <2> QED BY <2>1, <2>2, <2>3 DEF FilesInv
<1>4. CASE call.step \notin {"applied", "checks"} /\ call'.step \notin {"applied", "commit"}
  BY <1>2, <1>4 DEF FilesInv
<1> QED BY <1>3, <1>4

LEMMA FilesStep ==
  ASSUME IInv, FilesInv, Quiet', [Next]_vars
  PROVE  FilesInv'
<1> USE DEF IInv, records, disk, stored, origin, budget
<1>a. TypeOK /\ HeadOfCall
  OBVIOUS
<1>0. \A r \in Run : (Dirty(r)' = Dirty(r) \/ file'[r] # file[r])
  BY DEF Dirty, Changed
<1>nofault. ~Fault
  BY DEF Fault, Quiet, TypeOK
<1>blocked. ASSUME NEW r \in Run, Blocked(r) 
            PROVE  /\ validated' = validated /\ checked' = checked /\ call'.step = "idle"
  BY <1>a, <1>blocked DEF Blocked, SaveBlocked, SaveStatus, Done, NoCall, TypeOK
<1>1. CASE UNCHANGED vars
  BY <1>1, FilesKept DEF vars
<1>2. ASSUME NEW r \in Run, CreateOperator(r) PROVE FilesInv'
  <2>1. call'.step = "link" /\ call.step = "idle" /\ UNCHANGED <<file, checked, validated>>
    BY <1>2 DEF CreateOperator, Goto, TypeOK, Idle, NoCall
  <2> QED BY <1>0, <2>1 DEF FilesInv, Trusted
<1>3. ASSUME NEW r \in Run, SaveLink(r) \/ VerifyTask(r) \/ CancelTask(r) PROVE FilesInv'
  <2>1. UNCHANGED <<file, checked, validated, expected, at>>
    BY <1>3 DEF SaveLink, VerifyTask, CancelTask
  <2>2. UNCHANGED call \/ (call.step = "link" /\ call'.step = "idle")
    BY <1>3 DEF SaveLink, VerifyTask, CancelTask, At, Done, NoCall
  <2> QED BY <2>1, <2>2, FilesKept
<1>4. ASSUME NEW r \in Run, Reuse(r) PROVE FilesInv'
  <2>1. \A q \in Run : validated'[q] \in {validated[q], NoValidation}
    BY <1>4 DEF Reuse, SaveStatus, TypeOK
  <2> QED BY <1>4, <2>1, FilesKept DEF Reuse
<1>5. ASSUME NEW r \in Run, Clone(r) PROVE FilesInv'
  <2>1. /\ call'.step = "clone" /\ call.step = "idle" /\ UNCHANGED <<checked, validated>>
        /\ file' = [file EXCEPT ![r] = Clean]
    BY <1>5 DEF Clone, Goto, TypeOK, Idle, NoCall
  <2>2. Dirty(r)' = {}
    BY <2>1 DEF Dirty, Changed, Clean, TypeOK
  <2>3. \A q \in Run : Trusted(q)'
    <3>1. \A q \in Run \ {r} : file'[q] = file[q]
      BY <2>1 DEF TypeOK
    <3>2. \A q \in Run \ {r} : Trusted(q)'
      BY <1>0, <2>1, <3>1 DEF FilesInv, Trusted
    <3> QED BY <2>2, <3>2 DEF Trusted
  <2> QED BY <2>1, <2>3 DEF FilesInv
<1>6. ASSUME NEW r \in Run, Checkout(r) PROVE FilesInv'
  <2>1. \A q \in Run : validated'[q] \in {validated[q], NoValidation}
    BY <1>6 DEF Checkout, SaveStatus, SaveBlocked, TypeOK
  <2>2. call.step = "clone" /\ call'.step = "idle" /\ UNCHANGED <<file, checked, expected>>
    BY <1>6 DEF Checkout, At, Done, NoCall
  <2> QED BY <1>0, <2>1, <2>2 DEF FilesInv, Trusted, NoValidation
<1>7. ASSUME NEW r \in Run, NEW S \in SUBSET Scope, Apply(r, S) PROVE FilesInv'
  <2>1. /\ call'.step = "applied" /\ call'.run = r /\ call.step = "idle"
        /\ UNCHANGED <<checked, validated>> /\ Dirty(r) \subseteq S
    BY <1>7 DEF Apply, Applicable, Goto, TypeOK, Idle, NoCall
  <2>2. PICK v \in Version : file' = [file EXCEPT ![r] = [p \in Path |-> IF p \in S THEN v ELSE @[p]]]
    BY <1>7 DEF Apply, Written
  <2>3. Dirty(r)' \subseteq Scope
    BY <2>1, <2>2 DEF Dirty, Changed, TypeOK
  <2>4. \A q \in Run \ {r} : file'[q] = file[q]
    BY <2>2 DEF TypeOK
  <2>5. \A q \in Run \ {r} : Trusted(q)'
    BY <1>0, <2>1, <2>4 DEF FilesInv, Trusted
  <2> QED BY <2>1, <2>3, <2>5 DEF FilesInv
<1>8. ASSUME NEW r \in Run, SaveApplied(r) PROVE FilesInv'
  <2>1. /\ call.step = "applied" /\ call.run = r /\ call'.step = "idle"
        /\ UNCHANGED <<file, checked>> /\ Dirty(r) \subseteq Scope
    BY <1>8 DEF SaveApplied, At, Done, NoCall, FilesInv
  <2>2. validated' = [validated EXCEPT ![r] = NoValidation]
    BY <1>8, <1>nofault, <2>1 DEF SaveApplied, ApplySaved, SaveStatus
  <2>3. \A q \in Run \ {r} : Trusted(q)'
    BY <1>0, <2>1, <2>2 DEF FilesInv, Trusted, TypeOK
  <2>4. Trusted(r)'
    BY <2>2 DEF Trusted, NoValidation, TypeOK
  <2> QED BY <2>1, <2>3, <2>4 DEF FilesInv
<1>9. ASSUME NEW r \in Run, Validate(r) PROVE FilesInv'
  <2>1. /\ call'.step = "checks" /\ call'.run = r /\ call.step = "idle"
        /\ UNCHANGED <<checked, validated>>
    BY <1>9 DEF Validate, Idle, NoCall
  <2>2. \A q \in Run \ {r} : file'[q] = file[q]
    BY <1>9 DEF Validate, TypeOK
  <2>3. \A q \in Run \ {r} : Trusted(q)'
    BY <1>0, <2>1, <2>2 DEF FilesInv, Trusted
  <2> QED BY <2>1, <2>3 DEF FilesInv
<1>10. ASSUME NEW r \in Run, SaveValidated(r) PROVE FilesInv'
  <2>1. /\ call.step = "checks" /\ call.run = r /\ call'.step = "idle"
        /\ file' = [file EXCEPT ![r] = call.files]
    BY <1>10 DEF SaveValidated, At, Done, NoCall
  <2>2. \/ /\ validated' = [validated EXCEPT ![r] = Changed(call.files)]
           /\ checked' = [checked EXCEPT ![r] = call.files]
        \/ validated' = [validated EXCEPT ![r] = NoValidation] /\ checked' = checked
    BY <1>10, <1>nofault DEF SaveValidated, SaveStatus
  <2>3. \A q \in Run \ {r} : Trusted(q)'
    BY <1>0, <2>1, <2>2 DEF FilesInv, Trusted, TypeOK
  <2>4. Trusted(r)'
    BY <2>1, <2>2 DEF Trusted, NoValidation, TypeOK
  <2> QED BY <2>1, <2>3, <2>4 DEF FilesInv
<1>11. ASSUME NEW r \in Run, Checkpoint(r) PROVE FilesInv'
  <2>1. /\ call'.step = "commit" /\ call'.run = r /\ call'.files = file[r] /\ call.step = "idle"
        /\ UNCHANGED <<file, checked, validated, at, expected>>
    BY <1>11 DEF Checkpoint, Idle, NoCall
  <2>2. at[r] = expected[r] => Dirty(r) = validated[r] /\ Dirty(r) # {}
    BY <1>11 DEF Checkpoint, Committable
  <2>3. \A q \in Run : Trusted(q) /\ Trusted(q)'
    BY <1>0, <2>1 DEF FilesInv, Trusted
  <2> QED BY <2>1, <2>2, <2>3 DEF FilesInv, Trusted
<1>12. ASSUME NEW r \in Run, NewCommit(r) PROVE FilesInv'
  <2>1. /\ call.step = "commit" /\ call.run = r /\ call'.step = "push" /\ file[r] = call.files
        /\ UNCHANGED <<checked, validated>>
        /\ file' = [file EXCEPT ![r] = [p \in Path |-> IF call.files[p] # 0 THEN 0 ELSE @[p]]]
    BY <1>12 DEF NewCommit, At, Goto, AfterCommit, FilesInv, TypeOK
  <2>2. Dirty(r)' = {}
    BY <2>1 DEF Dirty, Changed, TypeOK
  <2>3. \A q \in Run \ {r} : file'[q] = file[q]
    BY <2>1 DEF TypeOK
  <2>4. \A q \in Run \ {r} : Trusted(q)'
    BY <1>0, <2>1, <2>3 DEF FilesInv, Trusted
  <2> QED BY <2>1, <2>2, <2>4 DEF FilesInv, Trusted
<1>13. ASSUME NEW r \in Run, OldCommit(r) PROVE FilesInv'
  <2>1. call.step = "commit" /\ call'.step \in {"push", "readback"}
    BY <1>13 DEF OldCommit, At, Goto, TypeOK
  <2> QED BY <1>13, <2>1, FilesKept DEF OldCommit
<1>14. ASSUME NEW r \in Run, \/ BranchDrift(r) \/ Push(r) \/ Readback(r) \/ RecordResult(r)
                             \/ CheckpointParent(r) \/ SaveCheckpoint(r)
       PROVE  FilesInv'
  <2>1. UNCHANGED <<file, expected, at>>
    BY <1>14 DEF BranchDrift, Push, Readback, RecordResult, CheckpointParent, SaveCheckpoint
  <2>2. call.step \in {"commit", "push", "readback", "record", "parent", "save"}
    BY <1>14 DEF BranchDrift, Push, Readback, RecordResult, CheckpointParent, SaveCheckpoint, At
  <2>3. CASE Blocked(r)
    BY <1>blocked, <2>1, <2>2, <2>3, FilesKept
  <2>4. CASE UNCHANGED stored /\ \E s \in {"readback", "record", "parent", "save"} : Goto(r, s)
    <3>1. call'.step \in {"readback", "record", "parent", "save"}
      BY <2>4 DEF Goto, TypeOK
    <3> QED BY <2>1, <2>2, <2>4, <3>1, FilesKept
  <2>5. CASE SaveStatus(r, "CHECKPOINTED", validated[r], at[r]) /\ UNCHANGED checked /\ Done
    BY <2>1, <2>2, <2>5, FilesKept DEF SaveStatus, Done, NoCall, TypeOK
  <2> QED BY <1>14, <2>3, <2>4, <2>5
          DEF BranchDrift, Push, Readback, RecordResult, CheckpointParent, SaveCheckpoint
<1>15. ASSUME AdoptHead \/ CloseTask \/ OtherPush \/ OtherWriter PROVE FilesInv'
  BY <1>15, FilesKept DEF AdoptHead, CloseTask, OtherPush, OtherWriter
<1>16. ASSUME NEW r \in Run, StepFails(r) PROVE FALSE
  BY <1>16, <1>nofault DEF StepFails
<1>17. ASSUME NEW r \in Run, Edit(r) PROVE FALSE
  BY <1>17 DEF Edit, Quiet, TypeOK
<1>18. ASSUME Crash \/ \E r \in Run, S \in SUBSET Scope : CrashInApply(r, S) PROVE FALSE
  BY <1>18 DEF Crash, CrashInApply, Quiet, TypeOK
<1> QED
  BY <1>1, <1>2, <1>3, <1>4, <1>5, <1>6, <1>7, <1>8, <1>9, <1>10, <1>11, <1>12, <1>13, <1>14,
     <1>15, <1>16, <1>17, <1>18 DEF Next, Environment, Client, Continue

\* What was not quiet never becomes quiet again.
LEMMA QuietBefore ==
  ASSUME TypeOK, TypeOK', [Next]_vars, Quiet'
  PROVE  Quiet
<1>1. UNCHANGED <<faults, crashes, edits>> \/ faults' = faults + 1 \/ crashes' = crashes + 1 \/ edits' = edits + 1
  <2> USE DEF budget, vars, Fault
  <2>1. ASSUME NEW r \in Run, Client(r) PROVE UNCHANGED budget
    BY <2>1 DEF Client, CreateOperator, VerifyTask, CancelTask, Reuse, Clone, Validate, Checkpoint, Apply
  <2>2. ASSUME NEW r \in Run, Continue(r) PROVE UNCHANGED <<faults, crashes, edits>> \/ faults' = faults + 1
    BY <2>2 DEF Continue, SaveLink, Checkout, SaveApplied, SaveValidated, NewCommit, OldCommit, BranchDrift,
                StepFails, Push, Readback, RecordResult, CheckpointParent, SaveCheckpoint
  <2>3. ASSUME Environment
        PROVE  UNCHANGED <<faults, crashes, edits>> \/ crashes' = crashes + 1 \/ edits' = edits + 1
    BY <2>3 DEF Environment, AdoptHead, CloseTask, Crash, OtherPush, OtherWriter, Edit, CrashInApply
  <2> QED BY <2>1, <2>2, <2>3 DEF Next
<1>2. CASE UNCHANGED <<faults, crashes, edits>>
  BY <1>2 DEF Quiet
<1>3. CASE \/ faults' = faults + 1 \/ crashes' = crashes + 1 \/ edits' = edits + 1
  <2>1. /\ faults \in Nat /\ crashes \in Nat /\ edits \in Nat
        /\ faults' \in Nat /\ crashes' \in Nat /\ edits' \in Nat
    BY DEF TypeOK
  <2>2. faults' + crashes' + edits' = 0
    BY DEF Quiet
  <2>3. \A i, j, k, n \in Nat : i + j + k = 0 => i # n + 1 /\ j # n + 1 /\ k # n + 1
    OBVIOUS
  <2> QED BY <1>3, <2>1, <2>2, <2>3
<1> QED BY <1>1, <1>2, <1>3

(***************************************************************************)
(* A checkpoint commits the very files that its validation passed on, as   *)
(* long as no call was cut short or failed and nobody else worked in the   *)
(* clone, although it compares no more than their paths.                   *)
(***************************************************************************)
THEOREM CommitIsValidatedHolds == Spec => CommitIsValidated
<1>1. Init => (Quiet => FilesInv)
  BY DEF Init, FilesInv, Trusted, Dirty, Changed, Clean, NoCall
<1>2. Spec => [](Quiet => FilesInv)
  <2>1. IInv /\ IInv' /\ (Quiet => FilesInv) /\ [Next]_vars => (Quiet => FilesInv)'
    BY FilesStep, QuietBefore DEF IInv
  <2> QED BY <1>1, <2>1, Inductive, PTL DEF Spec
<1>3. ASSUME IInv, Quiet => FilesInv, [Next]_vars
      PROVE  faults + crashes + edits = 0
               => \A r \in Run : commits'[r] # commits[r] => tree'[at'[r]] = checked[r]
  <2> SUFFICES ASSUME FilesInv, NEW r \in Run, commits'[r] # commits[r]
               PROVE  tree'[at'[r]] = checked[r]
    BY <1>3 DEF Quiet
  <2>1. NewCommit(r)
    <3>1. ASSUME NEW q \in Run, NewCommit(q) PROVE q = r
      BY <1>3, <3>1 DEF NewCommit, IInv, TypeOK
    <3>2. ASSUME NEW q \in Run, Client(q) PROVE FALSE
      BY <3>2 DEF Client, CreateOperator, VerifyTask, CancelTask, Reuse, Clone, Validate, Checkpoint, Apply, budget
    <3>3. ASSUME NEW q \in Run, Continue(q), ~NewCommit(q) PROVE FALSE
      BY <3>3 DEF Continue, SaveLink, Checkout, SaveApplied, SaveValidated, OldCommit, BranchDrift,
                  StepFails, Push, Readback, RecordResult, CheckpointParent, SaveCheckpoint, Fault, budget
    <3>4. ~Environment /\ ~UNCHANGED vars
      BY DEF Environment, AdoptHead, CloseTask, Crash, OtherPush, OtherWriter, Edit, CrashInApply, budget, vars
    <3> QED BY <1>3, <3>1, <3>2, <3>3, <3>4 DEF Next
  <2> DEFINE c == <<r, commits[r] + 1>>
             t == [p \in Path |-> IF call.files[p] # 0 THEN file[r][p] ELSE 0]
  <2>2. c \in Commit
    <3>1. commits[r] + 1 \in 1 .. MaxCommits
      BY <1>3, <2>1, WorkspaceAssumption DEF NewCommit, IInv, TypeOK
    <3> QED BY <3>1, HeadTypes
  <2>3. tree' = [tree EXCEPT ![c] = t] /\ at' = [at EXCEPT ![r] = c]
    BY <2>1 DEF NewCommit
  <2>4. file[r] = call.files /\ file[r] = checked[r]
    BY <2>1 DEF NewCommit, At, FilesInv
  <2>5. t = file[r]
    BY <1>3, <2>4 DEF IInv, TypeOK
  <2> HIDE DEF c, t
  <2> QED BY <1>3, <2>2, <2>3, <2>4, <2>5 DEF IInv, TypeOK
<1> QED BY <1>2, <1>3, Inductive, PTL DEF Spec, CommitIsValidated
=============================================================================
