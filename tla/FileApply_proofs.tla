-------------------------- MODULE FileApply_proofs --------------------------
(***************************************************************************)
(* Proofs about the governed file apply engine, for any number of          *)
(* processes, paths and requests and any budget of edits, faults and       *)
(* crashes.  Mutual exclusion needs one hypothesis: no two processes apply *)
(* under the same task id, because the writer row is re-entrant per task.  *)
(***************************************************************************)
EXTENDS FileApply, TLAPS

DistinctTasks == \A p, q \in Proc : TaskFor(p) = TaskFor(q) => p = q

\* Steps taken under the row only, and steps taken without it only.
UnderRow == {"noop", "decide", "prepare", "start", "write", "replace", "check", "applied",
             "recheck", "verify", "rollback", "restore", "journal_failed", "release"}
NoRow    == {"idle", "acquire"}

RowInv ==
  /\ \A p \in Proc : pc[p] \in UnderRow => locked[p]
  /\ \A p \in Proc : pc[p] \in NoRow => ~locked[p]
  /\ \A p \in Proc : locked[p] => writer = TaskFor(p)

LEMMA ContentFacts ==
  /\ Absent \in Content /\ Foreign \in Content /\ Preimage \in Content
  /\ \A r \in Request : Post(r) \in Content /\ Partial(r) \in Content
  /\ \A f : Committed(f) \in Content
  /\ NoClass \in [Path -> Class] /\ NoCapture \in [Path -> Content]
  BY DEF Content, Absent, Foreign, Preimage, Post, Partial, Committed, NoClass, NoCapture, Class

LEMMA ClassifyType ==
  ASSUME NEW r \in Request, NEW f \in Path
  PROVE  Classify(r, f) \in Class
  BY DEF Classify, Class

\* A journal save stores a function on the requests and forgets the copy.
LEMMA SaveType ==
  ASSUME TypeOK, NEW p \in Proc, NEW s \in Status, SaveJournal(p, s)
  PROVE  /\ journal' \in [Request -> Status]
         /\ loaded' \in [Proc -> [Request -> Status] \cup {NotLoaded}]
  BY RequestAssumption DEF TypeOK, SaveJournal, Req

\* The control state stays in its domain wherever Goto and Leave send it.
LEMMA GotoType ==
  ASSUME TypeOK, NEW p \in Proc, NEW s \in Steps, Goto(p, s)
  PROVE  pc' \in [Proc -> Steps]
  BY DEF TypeOK, Goto

LEMMA LeaveType ==
  ASSUME TypeOK, NEW p \in Proc, Leave(p)
  PROVE  pc' \in [Proc -> Steps]
  BY DEF TypeOK, Goto, Leave, Steps

LEMMA ForgetType ==
  ASSUME TypeOK, NEW p \in Proc, ForgetWork(p)
  PROVE  /\ class' \in [Proc -> [Path -> Class]]
         /\ preimage' \in [Proc -> [Path -> Content]]
         /\ mutated' \in [Proc -> SUBSET Path] /\ undo' \in [Proc -> SUBSET Path]
         /\ target' \in [Proc -> SUBSET Path]
  BY ContentFacts DEF TypeOK, ForgetWork

(***************************************************************************)
(* The engine's variables keep their types.                                *)
(***************************************************************************)
THEOREM TypeCorrect == Spec => []TypeOK
<1>1. Init => TypeOK
  <2> SUFFICES ASSUME Init PROVE TypeOK
    OBVIOUS
  <2>1. /\ content \in [Path -> Content]
        /\ class \in [Proc -> [Path -> Class]]
        /\ preimage \in [Proc -> [Path -> Content]]
    BY ContentFacts DEF Init
  <2>2. "none" \in Status /\ "idle" \in Steps
    BY DEF Status, Steps
  <2>3. QED
    BY <2>1, <2>2 DEF Init, TypeOK
<1>2. TypeOK /\ [Next]_vars => TypeOK'
  <2> SUFFICES ASSUME TypeOK, [Next]_vars PROVE TypeOK'
    OBVIOUS
  <2> USE DEF worktree, stored, work, budget
  <2>1. ASSUME NEW p \in Proc, NEW mode \in BOOLEAN, Begin(p, mode) PROVE TypeOK'
    BY <2>1 DEF Begin, TypeOK, Goto, Steps
  <2>2. ASSUME NEW p \in Proc, Step(p) PROVE TypeOK'
    <3> Req(p) \in Request /\ TaskFor(p) \in Task
      BY RequestAssumption DEF Req, TaskFor
    <3>1. CASE LoadState(p) BY <3>1 DEF LoadState, TypeOK
    <3>2. CASE Plan(p)
      <4>1. pc' \in [Proc -> Steps]
        BY <3>2, LeaveType, GotoType DEF Plan, Steps, JournalStep
      <4>2. class' \in [Proc -> [Path -> Class]]
        BY <3>2, ClassifyType DEF Plan, TypeOK
      <4>. QED BY <3>2, <4>1, <4>2 DEF Plan, TypeOK
    <3>3. CASE PersistPlan(p)
      <4>1. pc' \in [Proc -> Steps]
        BY <3>3, LeaveType DEF PersistPlan, Goto, TypeOK, Steps, JournalStep
      <4>. QED BY <3>3, <4>1, SaveType, ContentFacts DEF PersistPlan, TypeOK, Status
    <3>4. CASE Block(p)
      BY <3>4, LeaveType, SaveType, ContentFacts DEF Block, TypeOK, Status
    <3>5. CASE Acquire(p)
      <4>1. pc' \in [Proc -> Steps]
        BY <3>5, LeaveType, GotoType DEF Acquire, RowFree, Steps
      <4>. QED BY <3>5, <4>1, ContentFacts DEF Acquire, RowFree, TypeOK
    <3>6. CASE Noop(p)
      BY <3>6, LeaveType, SaveType DEF Noop, TypeOK, Status
    <3>7. CASE Decide(p)
      <4>1. pc' \in [Proc -> Steps]
        BY <3>7, GotoType DEF Decide, Steps, JournalStep
      <4>2. preimage' \in [Proc -> [Path -> Content]]
        <5> DEFINE captured == [f \in Path |-> IF f \in Changed(p) THEN content[f] ELSE Absent]
        <5>1. captured \in [Path -> Content]
          BY ContentFacts DEF TypeOK
        <5>2. preimage' = preimage \/ preimage' = [preimage EXCEPT ![p] = captured]
          BY <3>7 DEF Decide
        <5> HIDE DEF captured
        <5>. QED BY <5>1, <5>2 DEF TypeOK
      <4>. QED BY <3>7, <4>1, <4>2 DEF Decide, TypeOK
    <3>8. CASE StageFails(p)
      BY <3>8, LeaveType DEF StageFails, TypeOK
    <3>9. CASE Prepare(p) \/ Start(p)
      BY <3>9, SaveType DEF Prepare, Start, TypeOK, Status, Goto, Steps, JournalStep
    <3>10. CASE WriteTemp(p)
      BY <3>10 DEF WriteTemp, TypeOK, Goto, Steps, Changed
    <3>11. CASE Replace(p)
      BY <3>11, ContentFacts DEF Replace, TypeOK, Goto, Steps
    <3>12. CASE WriteFails(p)
      BY <3>12 DEF WriteFails, TypeOK, Goto, Steps
    <3>13. CASE Check(p)
      BY <3>13 DEF Check, RollbackFrom, TypeOK, Goto, Steps, JournalStep
    <3>14. CASE Applied(p)
      BY <3>14, SaveType DEF Applied, TypeOK, Status, Goto, Steps
    <3>15. CASE Recheck(p)
      BY <3>15 DEF Recheck, RollbackFrom, TypeOK, Goto, Steps, JournalStep
    <3>16. CASE Verify(p)
      BY <3>16, LeaveType, SaveType DEF Verify, TypeOK, Status
    <3>17. CASE RestoreTemp(p)
      BY <3>17 DEF RestoreTemp, TypeOK, Goto, Steps
    <3>18. CASE Restore(p)
      BY <3>18 DEF Restore, Restored, TypeOK, Goto, Steps
    <3>19. CASE Unlink(p)
      BY <3>19 DEF Unlink, Restored, TypeOK, Goto, Steps
    <3>20. CASE RestoreFails(p)
      BY <3>20 DEF RestoreFails, TypeOK, Goto, Steps, JournalStep
    <3>21. CASE JournalRolledBack(p) \/ JournalFailed(p)
      BY <3>21, LeaveType, SaveType DEF JournalRolledBack, JournalFailed, TypeOK, Status
    <3>22. CASE Release(p)
      BY <3>22, ForgetType, RequestAssumption DEF Release, TypeOK, Goto, Steps
    <3>23. QED
      BY <2>2, <3>1, <3>2, <3>3, <3>4, <3>5, <3>6, <3>7, <3>8, <3>9, <3>10, <3>11, <3>12,
         <3>13, <3>14, <3>15, <3>16, <3>17, <3>18, <3>19, <3>20, <3>21, <3>22 DEF Step
  <2>3. ASSUME NEW p \in Proc, Crash(p) PROVE TypeOK'
    BY <2>3, ForgetType DEF Crash, TypeOK, Goto, Steps
  <2>4. ASSUME NEW f \in Path, Edit(f) PROVE TypeOK'
    BY <2>4, ContentFacts DEF Edit, TypeOK
  <2>5. CASE MoveHead
    BY <2>5 DEF MoveHead, TypeOK
  <2>6. CASE UNCHANGED vars
    BY <2>6 DEF vars, TypeOK
  <2>7. QED
    BY <2>1, <2>2, <2>3, <2>4, <2>5, <2>6 DEF Next, Environment
<1>3. QED
  BY <1>1, <1>2, PTL DEF Spec

-----------------------------------------------------------------------------
(***************************************************************************)
(* Mutual exclusion.  RowInv is inductive: only a process whose task is    *)
(* the row's owner changes an owned row, and with distinct tasks that is   *)
(* the process holding it.                                                 *)
(***************************************************************************)
LEMMA RowInvHolds ==
  ASSUME DistinctTasks
  PROVE  Spec => []RowInv
<1>1. Init => RowInv
  BY DEF Init, RowInv, UnderRow, NoRow
<1>2. TypeOK /\ RowInv /\ [Next]_vars => RowInv'
  <2> SUFFICES ASSUME TypeOK, RowInv, [Next]_vars PROVE RowInv'
    OBVIOUS
  <2> USE DEF worktree, stored, work, budget, RowInv, UnderRow, NoRow, Goto, Leave
  <2>0. \A p \in Proc : TaskFor(p) \in Task /\ TaskFor(p) # NoTask
    BY RequestAssumption DEF TaskFor
  <2>1. ASSUME NEW p \in Proc, NEW mode \in BOOLEAN, Begin(p, mode) PROVE RowInv'
    BY <2>1 DEF Begin, TypeOK
  <2>2. ASSUME NEW p \in Proc, Step(p) PROVE RowInv'
    <3>1. CASE LoadState(p) BY <3>1 DEF LoadState, TypeOK
    <3>2. CASE Plan(p) BY <3>2 DEF Plan, TypeOK
    <3>3. CASE PersistPlan(p) BY <3>3 DEF PersistPlan, SaveJournal, TypeOK
    <3>4. CASE Block(p) BY <3>4 DEF Block, SaveJournal, TypeOK
    <3>5. CASE Acquire(p) BY <3>5, <2>0 DEF Acquire, RowFree, TypeOK, DistinctTasks
    <3>6. CASE Noop(p) BY <3>6 DEF Noop, SaveJournal, TypeOK
    <3>7. CASE Decide(p) BY <3>7 DEF Decide, TypeOK
    <3>8. CASE StageFails(p) BY <3>8 DEF StageFails, TypeOK
    <3>9. CASE Prepare(p) \/ Start(p) \/ Applied(p)
      BY <3>9 DEF Prepare, Start, Applied, SaveJournal, TypeOK
    <3>10. CASE WriteTemp(p) \/ Replace(p) \/ WriteFails(p)
      BY <3>10 DEF WriteTemp, Replace, WriteFails, TypeOK
    <3>11. CASE Check(p) \/ Recheck(p)
      BY <3>11 DEF Check, Recheck, RollbackFrom, TypeOK
    <3>12. CASE Verify(p) BY <3>12 DEF Verify, SaveJournal, TypeOK
    <3>13. CASE RestoreTemp(p) \/ Restore(p) \/ Unlink(p) \/ RestoreFails(p)
      BY <3>13 DEF RestoreTemp, Restore, Unlink, Restored, RestoreFails, TypeOK
    <3>14. CASE JournalRolledBack(p) \/ JournalFailed(p)
      BY <3>14 DEF JournalRolledBack, JournalFailed, SaveJournal, TypeOK
    <3>15. CASE Release(p) BY <3>15, <2>0 DEF Release, ForgetWork, TypeOK, DistinctTasks
    <3>16. QED
      BY <2>2, <3>1, <3>2, <3>3, <3>4, <3>5, <3>6, <3>7, <3>8, <3>9, <3>10, <3>11, <3>12,
         <3>13, <3>14, <3>15 DEF Step
  <2>3. ASSUME NEW p \in Proc, Crash(p) PROVE RowInv'
    BY <2>3 DEF Crash, ForgetWork, TypeOK
  <2>4. ASSUME NEW f \in Path, Edit(f) PROVE RowInv'
    BY <2>4 DEF Edit
  <2>5. CASE MoveHead
    BY <2>5 DEF MoveHead
  <2>6. CASE UNCHANGED vars
    BY <2>6 DEF vars
  <2>7. QED
    BY <2>1, <2>2, <2>3, <2>4, <2>5, <2>6 DEF Next, Environment
<1>3. QED
  BY <1>1, <1>2, TypeCorrect, PTL DEF Spec

(***************************************************************************)
(* One active repository writer at a time, when no two processes apply     *)
(* under one task id.                                                      *)
(***************************************************************************)
THEOREM OneWriterHolds ==
  ASSUME DistinctTasks
  PROVE  Spec => []OneWriter
<1>1. RowInv => OneWriter
  BY DEF RowInv, OneWriter, Mutating, UnderRow, DistinctTasks
<1>2. QED
  BY <1>1, RowInvHolds, PTL

-----------------------------------------------------------------------------
(***************************************************************************)
(* No postimage is stolen.  Under the row, the paths a process is about to *)
(* change, and the bytes it would restore, are never another request's     *)
(* postimage: its second plan saw none, and nobody else writes meanwhile.  *)
(***************************************************************************)
Planned(p) == \A f \in Changed(p), r \in Request :
  r # Req(p) => content[f] # Post(r) /\ preimage[p][f] # Post(r)

Within(p) == (target[p] \cup undo[p] \cup mutated[p]) \subseteq Changed(p)
Fresh(p)  == mutated[p] = {} /\ undo[p] = {} /\ target[p] = {} /\ preimage[p] = NoCapture

BeforeWork == {"idle", "plan", "persist_plan", "block", "acquire"}

WorkInv ==
  /\ \A p \in Proc : Within(p)
  /\ \A p \in Proc : locked[p] => Planned(p)
  /\ \A p \in Proc : pc[p] \in BeforeWork => Fresh(p)
  /\ \A p \in Proc : pc[p] = "restore" => target[p] \subseteq undo[p]

LEMMA KindsDiffer ==
  /\ \A r, q : Post(r) # Partial(q) /\ (Post(r) = Post(q) => r = q)
  /\ \A r : Post(r) # Absent /\ Post(r) # Foreign /\ Post(r) # Preimage
  /\ \A r, f : Committed(f) # Post(r)
  BY DEF Post, Partial, Absent, Foreign, Preimage, Committed

LEMMA ClassifyFacts ==
  ASSUME NEW q \in Request, NEW r \in Request, NEW f \in Path,
         Classify(q, f) \in {"clean", "partial"}
  PROVE  content[f] # Post(r)
  BY KindsDiffer DEF Classify

\* What a step that leaves the plan alone does not disturb.
LEMMA ChangedFrame ==
  ASSUME UNCHANGED class
  PROVE  \A p \in Proc : Changed(p)' = Changed(p)
  BY DEF Changed

LEMMA PlannedFrame ==
  ASSUME UNCHANGED <<content, class, preimage>>
  PROVE  \A p \in Proc : Planned(p)' <=> Planned(p)
  BY DEF Planned, Changed, Req

\* A step of p that leaves contents and captures alone and sets p's plan to NoClass.
LEMMA ForgottenPlan ==
  ASSUME TypeOK, NEW p \in Proc, UNCHANGED <<content, preimage>>,
         class' = [class EXCEPT ![p] = NoClass]
  PROVE  /\ \A q \in Proc \ {p} : Changed(q)' = Changed(q)
         /\ Changed(p)' = {} /\ Planned(p)'
         /\ \A q \in Proc : Planned(q) => Planned(q)'
  <1>1. /\ \A q \in Proc \ {p} : Changed(q)' = Changed(q)
        /\ Changed(p)' = {}
    BY DEF TypeOK, Changed, NoClass
  <1>2. QED
    BY <1>1 DEF Planned, Req

\* With distinct tasks, only one process is inside the locked section.
LEMMA LockedOnce ==
  ASSUME DistinctTasks, RowInv, NEW p \in Proc, NEW q \in Proc, locked[p], locked[q]
  PROVE  p = q
  BY DEF DistinctTasks, RowInv

\* A step of p that writes no file and leaves every plan and capture alone.
LEMMA QuietStep ==
  ASSUME WorkInv, NEW p \in Proc,
         UNCHANGED <<content, class, preimage, mutated, locked>>,
         \A q \in Proc \ {p} : pc'[q] = pc[q] /\ undo'[q] = undo[q] /\ target'[q] = target[q],
         target'[p] \cup undo'[p] \subseteq Changed(p),
         pc'[p] = "restore" => target'[p] \subseteq undo'[p],
         pc'[p] \in BeforeWork =>
           pc[p] \in BeforeWork /\ target'[p] = target[p] /\ undo'[p] = undo[p]
  PROVE  WorkInv'
  <1>1. \A q \in Proc : Within(q)'
    BY ChangedFrame DEF WorkInv, Within
  <1>2. \A q \in Proc : locked'[q] => Planned(q)'
    BY PlannedFrame DEF WorkInv
  <1>3. \A q \in Proc : pc'[q] \in BeforeWork => Fresh(q)'
    BY DEF WorkInv, Fresh
  <1>4. \A q \in Proc : pc'[q] = "restore" => target'[q] \subseteq undo'[q]
    BY DEF WorkInv
  <1>5. QED
    BY <1>1, <1>2, <1>3, <1>4 DEF WorkInv

\* A step of p, fresh before and after it, that changes at most its plan and its lock.
LEMMA PlanningStep ==
  ASSUME WorkInv, NEW p \in Proc,
         UNCHANGED <<content, preimage, mutated, undo, target>>,
         \A q \in Proc \ {p} : pc'[q] = pc[q] /\ locked'[q] = locked[q],
         \A q \in Proc \ {p} : Changed(q)' = Changed(q) /\ (Planned(q) => Planned(q)'),
         pc[p] \in BeforeWork, pc'[p] # "restore",
         locked'[p] => Planned(p)'
  PROVE  WorkInv'
  <1>1. \A q \in Proc : Within(q)'
    BY DEF WorkInv, Within, Fresh
  <1>2. \A q \in Proc : locked'[q] => Planned(q)'
    BY DEF WorkInv
  <1>3. \A q \in Proc : pc'[q] \in BeforeWork => Fresh(q)'
    BY DEF WorkInv, Fresh
  <1>4. \A q \in Proc : pc'[q] = "restore" => target'[q] \subseteq undo'[q]
    BY DEF WorkInv
  <1>5. QED
    BY <1>1, <1>2, <1>3, <1>4 DEF WorkInv

LEMMA WorkInvHolds ==
  ASSUME DistinctTasks
  PROVE  Spec => []WorkInv
<1>1. Init => WorkInv
  BY DEF Init, WorkInv, NoClass, Changed, Planned, Within, Fresh
<1>2. TypeOK /\ RowInv /\ WorkInv /\ [Next]_vars => WorkInv'
  <2> SUFFICES ASSUME TypeOK, RowInv, WorkInv, [Next]_vars PROVE WorkInv'
    OBVIOUS
  <2> USE DEF worktree, stored, work, budget, Goto, Leave
  <2>0. \A p \in Proc : Req(p) \in Request
    BY RequestAssumption DEF Req
  <2>1. ASSUME NEW p \in Proc, NEW mode \in BOOLEAN, Begin(p, mode) PROVE WorkInv'
    <3>1. /\ UNCHANGED <<content, class, preimage, mutated, locked, undo, target>>
          /\ \A q \in Proc \ {p} : pc'[q] = pc[q]
          /\ pc[p] = "idle" /\ pc'[p] = "plan"
      BY <2>1 DEF Begin, TypeOK
    <3>2. QED
      BY <3>1, QuietStep DEF WorkInv, Within, BeforeWork
  <2>2. ASSUME NEW p \in Proc, Step(p) PROVE WorkInv'
    <3>1. CASE LoadState(p)
      <4>1. UNCHANGED <<content, class, preimage, mutated, locked, undo, target, pc>>
        BY <3>1 DEF LoadState
      <4>2. QED
        BY <4>1, QuietStep DEF WorkInv, Within
    <3>2. CASE Plan(p)
      <4>1. \A q \in Proc \ {p} : Changed(q)' = Changed(q) /\ (Planned(q) => Planned(q)')
        BY <3>2 DEF Plan, TypeOK, Changed, Planned, Req
      <4>2. Planned(p) => Planned(p)'
        <5>1. ASSUME NEW f \in Changed(p)', NEW r \in Request, GitBindingHolds(Req(p))
              PROVE  content'[f] # Post(r) /\ preimage'[p][f] # Post(r)
          <6>1. f \in Path /\ Classify(Req(p), f) \in {"clean", "partial"}
            BY <3>2, <5>1 DEF Plan, TypeOK, Changed
          <6>2. preimage'[p][f] = Absent
            BY <3>2, <6>1 DEF Plan, NoCapture, WorkInv, Fresh, BeforeWork
          <6>3. QED
            BY <3>2, <6>1, <6>2, <2>0, ClassifyFacts, KindsDiffer DEF Plan
        <5>2. QED
          BY <3>2, <5>1 DEF Plan, Planned, Changed, Req
      <4>3. UNCHANGED <<content, preimage, locked, mutated, undo, target>>
        BY <3>2 DEF Plan
      <4>4. /\ \A q \in Proc \ {p} : pc'[q] = pc[q]
            /\ pc[p] = "plan" /\ pc'[p] \in {"persist_plan", "release", "idle"}
        BY <3>2 DEF Plan, TypeOK
      <4>5. locked'[p] => Planned(p)'
        BY <4>2, <4>3 DEF WorkInv
      <4>6. QED
        BY <4>1, <4>3, <4>4, <4>5, PlanningStep DEF BeforeWork
    <3>3. CASE (PersistPlan(p) /\ planOnly[p]) \/ Block(p)
      <4>1. /\ UNCHANGED <<content, locked, mutated, undo, target, preimage>>
            /\ class' = [class EXCEPT ![p] = NoClass]
        BY <3>3 DEF PersistPlan, Block
      <4>2. /\ \A q \in Proc \ {p} : pc'[q] = pc[q]
            /\ pc[p] \in {"persist_plan", "block"} /\ pc'[p] \in {"release", "idle"}
        BY <3>3 DEF PersistPlan, Block, TypeOK
      <4>3. QED
        BY <4>1, <4>2, ForgottenPlan, PlanningStep DEF BeforeWork
    <3>4. CASE PersistPlan(p) /\ ~planOnly[p]
      <4>1. /\ UNCHANGED <<content, class, locked, mutated, undo, target, preimage>>
            /\ \A q \in Proc \ {p} : pc'[q] = pc[q]
            /\ pc[p] = "persist_plan" /\ pc'[p] \in {"block", "decide", "acquire"}
        BY <3>4 DEF PersistPlan, TypeOK
      <4>2. QED
        BY <4>1, QuietStep DEF WorkInv, Within, BeforeWork
    <3>5. CASE Acquire(p)
      <4>1. /\ UNCHANGED <<content, mutated, undo, target, preimage>>
            /\ class' = [class EXCEPT ![p] = NoClass]
        BY <3>5 DEF Acquire, RowFree
      <4>2. /\ \A q \in Proc \ {p} : pc'[q] = pc[q] /\ locked'[q] = locked[q]
            /\ pc[p] = "acquire" /\ pc'[p] \in {"plan", "release", "idle"}
        BY <3>5 DEF Acquire, RowFree, TypeOK
      <4>3. QED
        BY <4>1, <4>2, ForgottenPlan, PlanningStep DEF BeforeWork
    <3>6. CASE Noop(p) \/ StageFails(p) \/ Verify(p) \/ JournalRolledBack(p) \/ JournalFailed(p)
      <4>1. UNCHANGED <<content, class, preimage, mutated, locked, undo, target>>
        BY <3>6 DEF Noop, StageFails, Verify, JournalRolledBack, JournalFailed
      <4>2. locked[p]
        BY <3>6 DEF Noop, StageFails, Verify, JournalRolledBack, JournalFailed, RowInv, UnderRow
      <4>3. pc' = [pc EXCEPT ![p] = "release"]
        BY <3>6, <4>2 DEF Noop, StageFails, Verify, JournalRolledBack, JournalFailed
      <4>4. /\ \A q \in Proc \ {p} : pc'[q] = pc[q]
            /\ pc'[p] = "release"
        BY <4>3 DEF TypeOK
      <4>5. QED
        BY <4>1, <4>4, QuietStep DEF WorkInv, Within, BeforeWork
    <3>7. CASE Decide(p)
      <4>1. \A q \in Proc : Changed(q)' = Changed(q)
        BY <3>7, ChangedFrame DEF Decide
      <4>2. \A q \in Proc : locked[q] => Planned(q)'
        <5>1. \A q \in Proc \ {p} : preimage'[q] = preimage[q]
          BY <3>7 DEF Decide, TypeOK
        <5>2. \A f \in Changed(p) : preimage'[p][f] \in {preimage[p][f], content[f]}
          BY <3>7 DEF Decide, TypeOK, Changed
        <5>3. content' = content
          BY <3>7 DEF Decide
        <5>4. QED
          BY <4>1, <5>1, <5>2, <5>3 DEF Planned, Req, WorkInv
      <4>3. UNCHANGED <<locked, mutated, undo, target>>
        BY <3>7 DEF Decide
      <4>4. /\ \A q \in Proc \ {p} : preimage'[q] = preimage[q] /\ pc'[q] = pc[q]
            /\ pc'[p] \in {"noop", "prepare"}
        BY <3>7 DEF Decide, TypeOK
      <4>5. QED
        BY <4>1, <4>2, <4>3, <4>4 DEF WorkInv, Within, Fresh, BeforeWork
    <3>8. CASE Prepare(p) \/ Start(p) \/ Applied(p) \/ WriteTemp(p)
      <4>1. /\ UNCHANGED <<content, class, preimage, mutated, locked, undo>>
            /\ target' = target \/ \E f \in Changed(p) : target' = [target EXCEPT ![p] = {f}]
        BY <3>8 DEF Prepare, Start, Applied, WriteTemp
      <4>2. /\ \A q \in Proc \ {p} : pc'[q] = pc[q]
            /\ pc'[p] \in {"start", "write", "recheck", "replace"}
        BY <3>8 DEF Prepare, Start, Applied, WriteTemp, TypeOK
      <4>3. /\ \A q \in Proc \ {p} : target'[q] = target[q]
            /\ target'[p] \subseteq Changed(p)
        BY <4>1 DEF TypeOK, WorkInv, Within
      <4>4. QED
        BY <4>1, <4>2, <4>3, QuietStep DEF WorkInv, Within, BeforeWork
    <3>9. CASE WriteFails(p) \/ Check(p) \/ Recheck(p)
      <4>1. /\ UNCHANGED <<content, class, preimage, mutated, locked>>
            /\ target' = target \/ target' = [target EXCEPT ![p] = {}]
            /\ undo' = undo \/ undo' = [undo EXCEPT ![p] = mutated[p]]
        BY <3>9 DEF WriteFails, Check, Recheck, RollbackFrom
      <4>2. /\ \A q \in Proc \ {p} : pc'[q] = pc[q]
            /\ pc'[p] \in {"rollback", "applied", "write", "verify"}
        BY <3>9 DEF WriteFails, Check, Recheck, RollbackFrom, TypeOK
      <4>3. /\ \A q \in Proc \ {p} : target'[q] = target[q] /\ undo'[q] = undo[q]
            /\ target'[p] \subseteq target[p] /\ undo'[p] \in {undo[p], mutated[p]}
        BY <4>1 DEF TypeOK
      <4>4. QED
        BY <4>1, <4>2, <4>3, QuietStep DEF WorkInv, Within, BeforeWork
    <3>10. CASE RestoreTemp(p) \/ RestoreFails(p)
      <4>1. /\ UNCHANGED <<content, class, preimage, mutated, locked, undo>>
            /\ \/ target' = [target EXCEPT ![p] = {}]
               \/ \E f \in undo[p] : target' = [target EXCEPT ![p] = {f}]
        BY <3>10 DEF RestoreTemp, RestoreFails
      <4>2. /\ \A q \in Proc \ {p} : pc'[q] = pc[q]
            /\ pc'[p] \in {"restore", "journal_failed"}
        BY <3>10 DEF RestoreTemp, RestoreFails, TypeOK
      <4>3. /\ \A q \in Proc \ {p} : target'[q] = target[q]
            /\ target'[p] \subseteq undo[p]
        BY <4>1 DEF TypeOK
      <4>4. QED
        BY <4>1, <4>2, <4>3, QuietStep DEF WorkInv, Within, BeforeWork
    <3>11. CASE Replace(p)
      <4>1. \A q \in Proc : Changed(q)' = Changed(q)
        BY <3>11, ChangedFrame DEF Replace
      <4>2. locked[p]
        BY <3>11 DEF Replace, RowInv, UnderRow
      <4>3. \A q \in Proc : locked[q] => q = p
        BY <4>2, LockedOnce
      <4>4. UNCHANGED <<locked, preimage, undo, target>>
        BY <3>11 DEF Replace
      <4>5. Planned(p)'
        <5>1. \A f \in Changed(p) : content'[f] \in {content[f], Post(Req(p))}
          BY <3>11 DEF Replace, Changed
        <5>2. Planned(p)
          BY <4>2 DEF WorkInv
        <5>3. \A f \in Changed(p), r \in Request :
                r # Req(p) => content'[f] # Post(r) /\ preimage'[p][f] # Post(r)
          BY <4>4, <5>1, <5>2, KindsDiffer DEF Planned
        <5>4. QED
          BY <4>1, <5>3 DEF Planned, Req
      <4>6. /\ \A q \in Proc \ {p} : pc'[q] = pc[q] /\ mutated'[q] = mutated[q]
            /\ pc'[p] = "check" /\ mutated'[p] = mutated[p] \cup target[p]
        BY <3>11 DEF Replace, TypeOK
      <4>7. QED
        BY <4>1, <4>3, <4>4, <4>5, <4>6 DEF WorkInv, Within, Fresh, BeforeWork
    <3>12. CASE Restore(p) \/ Unlink(p)
      <4>1. \A q \in Proc : Changed(q)' = Changed(q)
        BY <3>12, ChangedFrame DEF Restore, Unlink
      <4>2. locked[p]
        BY <3>12 DEF Restore, Unlink, RowInv, UnderRow
      <4>3. \A q \in Proc : locked[q] => q = p
        BY <4>2, LockedOnce
      <4>4. PICK f \in Changed(p) : Restored(p, f)
        BY <3>12 DEF Restore, Unlink, WorkInv, Within
      <4>5. UNCHANGED <<locked, preimage, mutated>>
        BY <3>12 DEF Restore, Unlink
      <4>6. Planned(p)'
        <5>1. \A g \in Changed(p) : content'[g] \in {content[g], preimage[p][g]}
          BY <4>4 DEF Restored, TypeOK, Changed
        <5>2. Planned(p)
          BY <4>2 DEF WorkInv
        <5>3. QED
          BY <4>1, <4>5, <5>1, <5>2 DEF Planned, Req
      <4>7. \A q \in Proc : target'[q] \subseteq target[q]
        BY <3>12 DEF Restore, Unlink, TypeOK
      <4>8. /\ \A q \in Proc : undo'[q] \subseteq undo[q]
            /\ \A q \in Proc \ {p} : undo'[q] = undo[q] /\ pc'[q] = pc[q]
            /\ pc'[p] = "rollback"
        BY <4>4 DEF Restored, TypeOK
      <4>9. QED
        BY <4>1, <4>3, <4>5, <4>6, <4>7, <4>8 DEF WorkInv, Within, Fresh, BeforeWork
    <3>13. CASE Release(p)
      BY <3>13 DEF Release, ForgetWork, TypeOK, Changed, Planned, Req, NoClass,
                   WorkInv, Within, Fresh
    <3>14. QED
      BY <2>2, <3>1, <3>2, <3>3, <3>4, <3>5, <3>6, <3>7, <3>8, <3>9, <3>10, <3>11, <3>12,
         <3>13 DEF Step
  <2>3. ASSUME NEW p \in Proc, Crash(p) PROVE WorkInv'
    BY <2>3 DEF Crash, ForgetWork, TypeOK, Changed, Planned, Req, NoClass, WorkInv, Within, Fresh
  <2>4. ASSUME NEW f \in Path, Edit(f) PROVE WorkInv'
    <3>1. \A q \in Proc : Changed(q)' = Changed(q)
      BY <2>4, ChangedFrame DEF Edit
    <3>2. \A g \in Path, r \in Request : content'[g] = Post(r) => content[g] = Post(r)
      BY <2>4, KindsDiffer DEF Edit, TypeOK
    <3>3. \A q \in Proc : Planned(q) => Planned(q)'
      BY <2>4, <3>1, <3>2 DEF Edit, Planned, Req, Changed
    <3>4. QED
      BY <2>4, <3>1, <3>3 DEF Edit, WorkInv, Within, Fresh
  <2>5. CASE MoveHead
    BY <2>5, ChangedFrame, PlannedFrame DEF MoveHead, WorkInv, Within, Fresh
  <2>6. CASE UNCHANGED vars
    BY <2>6, ChangedFrame, PlannedFrame DEF vars, WorkInv, Within, Fresh
  <2>7. QED
    BY <2>1, <2>2, <2>3, <2>4, <2>5, <2>6 DEF Next, Environment
<1>3. QED
  BY <1>1, <1>2, TypeCorrect, RowInvHolds, PTL DEF Spec

(***************************************************************************)
(* No step takes away a postimage of another request, whatever editors,    *)
(* faults and crashes do, when no two processes apply under one task id.   *)
(***************************************************************************)
THEOREM NoStolenPostimageHolds ==
  ASSUME DistinctTasks
  PROVE  Spec => NoStolenPostimage
<1> DEFINE Kept == \A f \in Path, r \in Request :
       content[f] = Post(r) /\ content'[f] # Post(r)
         => \/ edits' # edits
            \/ \E p \in Proc : Req(p) = r /\ undo'[p] # undo[p]
<1>1. TypeOK /\ RowInv /\ WorkInv /\ [Next]_vars => [Kept]_vars
  <2> SUFFICES ASSUME TypeOK, RowInv, WorkInv, Next, content' # content PROVE Kept
    BY DEF vars, worktree
  <2>1. ASSUME NEW p \in Proc, Replace(p) PROVE Kept
    <3>1. locked[p] /\ target[p] \subseteq Changed(p)
      BY <2>1 DEF Replace, RowInv, UnderRow, WorkInv, Within
    <3>2. QED
      BY <2>1, <3>1 DEF Replace, WorkInv, Planned
  <2>2. ASSUME NEW p \in Proc, Restore(p) \/ Unlink(p) PROVE Kept
    <3>1. PICK f \in undo[p] : Restored(p, f)
      BY <2>2 DEF Restore, Unlink, WorkInv
    <3>2. f \in Changed(p) /\ Planned(p)
      BY <2>2, <3>1 DEF Restore, Unlink, RowInv, UnderRow, WorkInv, Within
    <3>3. \A g \in Path : content'[g] # content[g] => g = f
      BY <3>1 DEF Restored, TypeOK
    <3>4. undo'[p] # undo[p]
      BY <3>1 DEF Restored, TypeOK
    <3>5. QED
      BY <3>2, <3>3, <3>4 DEF Planned
  <2>3. ASSUME NEW f \in Path, Edit(f) PROVE Kept
    BY <2>3 DEF Edit, TypeOK
  <2>4. \/ \E p \in Proc : Replace(p) \/ Restore(p) \/ Unlink(p)
        \/ \E f \in Path : Edit(f)
    BY DEF Next, Step, Environment, Begin, LoadState, Plan, PersistPlan, Block, Acquire, RowFree, Noop,
           Decide, StageFails, Prepare, Start, WriteTemp, WriteFails, Check, Applied, Recheck,
           Verify, RestoreTemp, RestoreFails, JournalRolledBack, JournalFailed, Release, Crash,
           MoveHead, worktree
  <2>5. QED
    BY <2>1, <2>2, <2>3, <2>4
<1>2. QED
  BY <1>1, TypeCorrect, RowInvHolds, WorkInvHolds, PTL DEF Spec, NoStolenPostimage

-----------------------------------------------------------------------------
(***************************************************************************)
(* A step of one process: what it leaves alone of the others, and when it  *)
(* writes to the worktree.                                                 *)
(***************************************************************************)
LEMMA StepFrame ==
  ASSUME TypeOK, NEW p \in Proc, Step(p) \/ Crash(p) \/ \E mode \in BOOLEAN : Begin(p, mode),
         NEW q \in Proc \ {p}
  PROVE  /\ pc'[q] = pc[q] /\ locked'[q] = locked[q] /\ loaded'[q] = loaded[q]
         /\ class'[q] = class[q] /\ preimage'[q] = preimage[q]
         /\ mutated'[q] = mutated[q] /\ undo'[q] = undo[q] /\ target'[q] = target[q]
<1> USE DEF worktree, stored, work, budget, Goto, Leave, TypeOK
<1> DEFINE Same == /\ pc'[q] = pc[q] /\ locked'[q] = locked[q] /\ loaded'[q] = loaded[q]
                   /\ class'[q] = class[q] /\ preimage'[q] = preimage[q]
                   /\ mutated'[q] = mutated[q] /\ undo'[q] = undo[q] /\ target'[q] = target[q]
<1>1. CASE \/ Crash(p) \/ Release(p) \/ LoadState(p) \/ \E mode \in BOOLEAN : Begin(p, mode)
  BY <1>1 DEF Crash, Release, ForgetWork, LoadState, Begin
<1>2. CASE Plan(p) \/ Acquire(p) \/ Decide(p) \/ StageFails(p)
  BY <1>2 DEF Plan, Acquire, RowFree, Decide, StageFails
<1>3. CASE PersistPlan(p) \/ Block(p) \/ Noop(p) \/ Prepare(p) \/ Start(p) \/ Applied(p) \/ Verify(p)
           \/ JournalRolledBack(p) \/ JournalFailed(p)
  BY <1>3 DEF PersistPlan, Block, Noop, Prepare, Start, Applied, Verify, JournalRolledBack,
              JournalFailed, SaveJournal
<1>4. CASE WriteTemp(p) \/ Replace(p) \/ WriteFails(p) \/ Check(p) \/ Recheck(p)
  BY <1>4 DEF WriteTemp, Replace, WriteFails, Check, Recheck, RollbackFrom
<1>5. CASE RestoreTemp(p) \/ Restore(p) \/ Unlink(p) \/ RestoreFails(p)
  BY <1>5 DEF RestoreTemp, Restore, Unlink, Restored, RestoreFails
<1> QED BY <1>1, <1>2, <1>3, <1>4, <1>5 DEF Step

LEMMA Writes ==
  ASSUME NEW p \in Proc, Step(p) \/ Crash(p) \/ \E mode \in BOOLEAN : Begin(p, mode)
  PROVE  content' = content \/ Replace(p) \/ Restore(p) \/ Unlink(p)
  BY DEF Step, Begin, LoadState, Plan, PersistPlan, Block, Acquire, RowFree, Noop,
         Decide, StageFails, Prepare, Start, WriteTemp, WriteFails, Check, Applied, Recheck,
         Verify, RestoreTemp, RestoreFails, JournalRolledBack, JournalFailed, Release, Crash, worktree

\* Whoever writes holds the lock, so for everyone else inside the transaction
\* the worktree stands still.
LEMMA OthersStandStill ==
  ASSUME DistinctTasks, RowInv, NEW p \in Proc, NEW q \in Proc \ {p},
         pc[q] \in UnderRow \/ locked[q],
         Step(p) \/ Crash(p) \/ \E mode \in BOOLEAN : Begin(p, mode)
  PROVE  content' = content
<1>1. ASSUME Replace(p) \/ Restore(p) \/ Unlink(p) PROVE FALSE
  <2>1. locked[p] /\ locked[q]
    BY <1>1 DEF Replace, Restore, Unlink, RowInv, UnderRow
  <2> QED BY <2>1, LockedOnce
<1> QED BY <1>1, Writes

LEMMA NextCases ==
  ASSUME Next
  PROVE  \/ \E p \in Proc : Step(p) \/ Crash(p) \/ \E mode \in BOOLEAN : Begin(p, mode)
         \/ \E f \in Path : Edit(f)
         \/ MoveHead
  BY DEF Next, Environment

-----------------------------------------------------------------------------
(***************************************************************************)
(* What a rollback leaves behind.  Before a file is replaced, and once it  *)
(* is restored, it has the postimage only if it had it when its bytes were *)
(* captured: no editor makes a postimage, and nobody else replaces a file. *)
(***************************************************************************)
Forward  == {"prepare", "start", "write", "replace", "check", "applied", "recheck", "verify"}
Backward == {"rollback", "restore"}

Rest(p) == IF pc[p] \in Backward THEN undo[p] ELSE mutated[p]

Undone(p) ==
  pc[p] \in Forward \cup Backward =>
    \A f \in Changed(p) \ Rest(p) : content[f] = Post(Req(p)) => preimage[p][f] = Post(Req(p))

UndoInv == \A p \in Proc : Undone(p)

\* A step that keeps the plan and the captures of p, and lets no postimage appear
\* among the files that are as captured.
LEMMA UndoneKept ==
  ASSUME NEW p \in Proc, Undone(p), class'[p] = class[p], preimage'[p] = preimage[p],
         pc'[p] \in Forward \cup Backward => pc[p] \in Forward \cup Backward /\ Rest(p) \subseteq Rest(p)',
         \A f \in Changed(p) : content'[f] = Post(Req(p)) => content[f] = Post(Req(p)) \/ f \in Rest(p)'
  PROVE  Undone(p)'
<1>1. Changed(p)' = Changed(p) /\ Req(p)' = Req(p)
  BY DEF Changed, Req
<1> QED BY <1>1 DEF Undone, Post

LEMMA UndoStep ==
  ASSUME DistinctTasks, TypeOK, RowInv, WorkInv, UndoInv, [Next]_vars
  PROVE  UndoInv'
<1> USE DEF worktree, stored, work, budget, Goto, Leave
<1> SUFFICES ASSUME NEW q \in Proc PROVE Undone(q)'
  BY DEF UndoInv
<1>q. Undone(q)
  BY DEF UndoInv
<1>under. Forward \cup Backward \subseteq UnderRow
  BY DEF Forward, Backward, UnderRow
<1>1. ASSUME NEW p \in Proc, q # p, Step(p) \/ Crash(p) \/ \E mode \in BOOLEAN : Begin(p, mode)
      PROVE  Undone(q)'
  <2>1. /\ pc'[q] = pc[q] /\ class'[q] = class[q] /\ preimage'[q] = preimage[q]
        /\ mutated'[q] = mutated[q] /\ undo'[q] = undo[q]
    BY <1>1, StepFrame
  <2>2. pc[q] \in Forward \cup Backward => content' = content
    BY <1>1, <1>under, OthersStandStill
  <2>3. Changed(q)' = Changed(q) /\ Rest(q)' = Rest(q) /\ Req(q)' = Req(q)
    BY <2>1 DEF Changed, Rest, Req
  <2> QED BY <1>q, <2>1, <2>2, <2>3 DEF Undone, Post
<1>2. ASSUME pc'[q] \notin Forward \cup Backward PROVE Undone(q)'
  BY <1>2 DEF Undone
<1>3. ASSUME \/ LoadState(q) \/ Prepare(q) \/ Start(q) \/ Applied(q) \/ WriteTemp(q) \/ RestoreTemp(q)
      PROVE Undone(q)'
  <2>1. UNCHANGED <<content, class, preimage, mutated, undo>>
    BY <1>3 DEF LoadState, Prepare, Start, Applied, WriteTemp, RestoreTemp
  <2>2. /\ pc'[q] \in Forward => pc[q] \in Forward
        /\ pc'[q] \in Backward => pc[q] \in Backward
    BY <1>3 DEF LoadState, Prepare, Start, Applied, WriteTemp, RestoreTemp, TypeOK, Forward, Backward
  <2>3. Rest(q)' = Rest(q) \/ pc'[q] \notin Forward \cup Backward
    BY <2>1, <2>2 DEF Rest, Forward, Backward
  <2> QED BY <1>q, <2>1, <2>2, <2>3, UndoneKept
<1>4. ASSUME WriteFails(q) \/ Check(q) \/ Recheck(q) PROVE Undone(q)'
  <2>1. UNCHANGED <<content, class, preimage, mutated>> /\ pc[q] \in Forward
    BY <1>4 DEF WriteFails, Check, Recheck, RollbackFrom, Forward
  <2>2. \/ pc'[q] \in Forward
        \/ pc'[q] \in Backward /\ undo'[q] = mutated[q]
    BY <1>4 DEF WriteFails, Check, Recheck, RollbackFrom, TypeOK, Forward, Backward
  <2>3. Rest(q)' = Rest(q)
    BY <2>1, <2>2 DEF Rest, Forward, Backward
  <2> QED BY <1>q, <2>1, <2>3, UndoneKept
<1>5. ASSUME Decide(q) PROVE Undone(q)'
  <2>1. content' = content /\ class' = class
    BY <1>5 DEF Decide
  <2>2. pc'[q] \in {"noop", "prepare"}
    BY <1>5 DEF Decide, TypeOK
  <2>3. ASSUME pc'[q] = "prepare", NEW f \in Changed(q) PROVE preimage'[q][f] = content[f]
    BY <1>5, <2>3 DEF Decide, TypeOK, Changed
  <2>4. Changed(q)' = Changed(q) /\ Req(q)' = Req(q)
    BY <2>1 DEF Changed, Req
  <2> QED BY <2>1, <2>2, <2>3, <2>4 DEF Undone, Forward, Backward, Post
<1>6. ASSUME Replace(q) PROVE Undone(q)'
  <2>1. /\ class' = class /\ preimage' = preimage /\ pc[q] = "replace" /\ pc'[q] = "check"
        /\ mutated'[q] = mutated[q] \cup target[q]
        /\ \A f \in Path : f \notin target[q] => content'[f] = content[f]
    BY <1>6 DEF Replace, TypeOK
  <2>2. Rest(q) \subseteq Rest(q)' /\ Rest(q)' = mutated[q] \cup target[q]
    BY <2>1 DEF Rest, Backward
  <2>3. Changed(q) \subseteq Path
    BY DEF Changed
  <2> QED BY <1>q, <2>1, <2>2, <2>3, UndoneKept DEF Forward
<1>7. ASSUME Restore(q) \/ Unlink(q) PROVE Undone(q)'
  <2>1. PICK f \in Changed(q) : Restored(q, f)
    BY <1>7 DEF Restore, Unlink, WorkInv, Within
  <2>2. /\ content'[f] = preimage[q][f]
        /\ \A g \in Path : g # f => content'[g] = content[g]
        /\ undo'[q] = undo[q] \ {f} /\ pc'[q] = "rollback" /\ pc[q] \in Backward
    BY <1>7, <2>1 DEF Restored, Restore, Unlink, TypeOK, Changed, Backward
  <2>3. class' = class /\ preimage' = preimage
    BY <1>7 DEF Restore, Unlink
  <2>4. Rest(q) = undo[q] /\ Rest(q)' = undo[q] \ {f}
    BY <2>2 DEF Rest, Backward
  <2>5. Changed(q)' = Changed(q) /\ Req(q)' = Req(q) /\ Changed(q) \subseteq Path
    BY <2>3 DEF Changed, Req
  <2> QED BY <1>q, <2>2, <2>3, <2>4, <2>5 DEF Undone, Post
<1>8. ASSUME Step(q) PROVE Undone(q)'
  <2>1. CASE \/ Plan(q) \/ PersistPlan(q) \/ Block(q) \/ Acquire(q) \/ Noop(q) \/ StageFails(q)
             \/ Verify(q) \/ RestoreFails(q) \/ JournalRolledBack(q) \/ JournalFailed(q) \/ Release(q)
    <3>1. pc'[q] \notin Forward \cup Backward
      BY <2>1 DEF Plan, PersistPlan, Block, Acquire, Noop, StageFails, Verify, RestoreFails,
                  JournalRolledBack, JournalFailed, Release, TypeOK, Forward, Backward
    <3> QED BY <1>2, <3>1
  <2> QED BY <1>3, <1>4, <1>5, <1>6, <1>7, <1>8, <2>1 DEF Step
<1>9. ASSUME Crash(q) \/ \E mode \in BOOLEAN : Begin(q, mode) PROVE Undone(q)'
  <2>1. pc'[q] \notin Forward \cup Backward
    BY <1>9 DEF Crash, Begin, TypeOK, Forward, Backward
  <2> QED BY <1>2, <2>1
<1>10. ASSUME NEW f \in Path, Edit(f) PROVE Undone(q)'
  <2>1. UNCHANGED <<pc, class, preimage, mutated, undo>>
    BY <1>10 DEF Edit
  <2>2. \A g \in Path, r \in Request : content'[g] = Post(r) => content[g] = Post(r)
    BY <1>10, KindsDiffer DEF Edit, TypeOK
  <2>3. Req(q) \in Request /\ Changed(q) \subseteq Path /\ Rest(q)' = Rest(q)
    BY <2>1, RequestAssumption DEF Req, Changed, Rest
  <2> QED BY <1>q, <2>1, <2>2, <2>3, UndoneKept
<1>11. ASSUME MoveHead \/ UNCHANGED vars PROVE Undone(q)'
  <2>1. UNCHANGED <<content, pc, class, preimage, mutated, undo>>
    BY <1>11 DEF MoveHead, vars
  <2>2. Rest(q)' = Rest(q)
    BY <2>1 DEF Rest
  <2> QED BY <1>q, <2>1, <2>2, UndoneKept
<1> QED
  BY <1>1, <1>8, <1>9, <1>10, <1>11, NextCases

(***************************************************************************)
(* A rollback that reports success leaves no postimage of the run behind,  *)
(* when no two processes apply under one task id.                          *)
(***************************************************************************)
THEOREM RollbackLeavesNoPostimageHolds ==
  ASSUME DistinctTasks
  PROVE  Spec => []RollbackLeavesNoPostimage
<1>1. Init => UndoInv
  BY DEF Init, UndoInv, Undone, Forward, Backward
<1>2. UndoInv => RollbackLeavesNoPostimage
  BY DEF UndoInv, Undone, Rest, Backward, RollbackLeavesNoPostimage
<1>3. Spec => []UndoInv
  BY <1>1, UndoStep, TypeCorrect, RowInvHolds, WorkInvHolds, PTL DEF Spec
<1> QED BY <1>2, <1>3, PTL

-----------------------------------------------------------------------------
(***************************************************************************)
(* VERIFIED is true, without editors.  What a plan found at the postimage  *)
(* stays there, and a request that any copy of the journal calls VERIFIED  *)
(* has no transaction left that could take it back: the next plan finds    *)
(* nothing to change.                                                      *)
(***************************************************************************)
Mentioned(r) ==
  \/ journal[r] = "VERIFIED"
  \/ \E p \in Proc : loaded[p] # NotLoaded /\ loaded[p][r] = "VERIFIED"

AtRest(p) == Changed(p) = {} \/ pc[p] = "release"

VerifiedInv ==
  /\ \A p \in Proc, f \in Path : class[p][f] = "already" => content[f] = Post(Req(p))
  /\ \A p \in Proc : pc[p] = "noop" => AllPost(p)
  /\ \A p \in Proc : pc[p] = "verify" => FullyApplied(Req(p))
  /\ \A r \in Request : Mentioned(r) =>
       FullyApplied(r) /\ \A p \in Proc : Req(p) = r => AtRest(p)

\* Without editors, a postimage goes away only in a rollback of its own request,
\* of a file that the rollback's plan found otherwise.
LEMMA PostimageStays ==
  ASSUME DistinctTasks, MaxEdits = 0, TypeOK, RowInv, WorkInv, [Next]_vars,
         NEW r \in Request, NEW f \in Path, content[f] = Post(r), content'[f] # Post(r)
  PROVE  \E p \in Proc : Req(p) = r /\ f \in Changed(p) /\ pc[p] \in {"rollback", "restore"}
<1>1. ASSUME NEW p \in Proc, Replace(p) PROVE FALSE
  <2>1. locked[p] /\ target[p] \subseteq Changed(p)
    BY <1>1 DEF Replace, RowInv, UnderRow, WorkInv, Within
  <2>2. f \in target[p] /\ r # Req(p)
    BY <1>1 DEF Replace
  <2> QED BY <2>1, <2>2 DEF WorkInv, Planned
<1>2. ASSUME NEW p \in Proc, Restore(p) \/ Unlink(p)
      PROVE  Req(p) = r /\ f \in Changed(p) /\ pc[p] \in {"rollback", "restore"}
  <2>1. PICK g \in undo[p] : Restored(p, g)
    BY <1>2 DEF Restore, Unlink, WorkInv
  <2>2. g \in Changed(p) /\ Planned(p) /\ pc[p] \in {"rollback", "restore"}
    BY <1>2, <2>1 DEF Restore, Unlink, RowInv, UnderRow, WorkInv, Within
  <2>3. f = g
    BY <2>1 DEF Restored, TypeOK
  <2> QED BY <2>2, <2>3 DEF Planned
<1>3. ASSUME NEW g \in Path, Edit(g) PROVE FALSE
  BY <1>3 DEF Edit, TypeOK
<1>4. ASSUME UNCHANGED vars \/ MoveHead PROVE FALSE
  BY <1>4 DEF vars, worktree, MoveHead
<1> QED BY <1>1, <1>2, <1>3, <1>4, NextCases, Writes

\* What a step of p makes of the journal and of p's copy of it.
LEMMA JournalMoves ==
  ASSUME TypeOK, NEW p \in Proc, Step(p) \/ Crash(p) \/ \E mode \in BOOLEAN : Begin(p, mode)
  PROVE  \/ /\ journal' = journal
            /\ loaded' = loaded \/ loaded'[p] \in {journal, NotLoaded}
         \/ /\ \E s \in Status \ {"VERIFIED"} : SaveJournal(p, s)
         \/ /\ SaveJournal(p, "VERIFIED") /\ pc[p] \in {"noop", "verify"}
            /\ UNCHANGED <<content, class>>
            /\ locked[p] => pc'[p] = "release"
<1> USE DEF worktree, stored, work, budget
<1>1. CASE \/ Crash(p) \/ Release(p) \/ LoadState(p) \/ \E mode \in BOOLEAN : Begin(p, mode)
  BY <1>1 DEF Crash, Release, LoadState, Begin, TypeOK
<1>2. CASE Plan(p) \/ Acquire(p) \/ Decide(p) \/ StageFails(p)
  BY <1>2 DEF Plan, Acquire, Decide, StageFails
<1>3. CASE PersistPlan(p) \/ Block(p) \/ Prepare(p) \/ Start(p) \/ Applied(p)
           \/ JournalRolledBack(p) \/ JournalFailed(p)
  BY <1>3 DEF PersistPlan, Block, Prepare, Start, Applied, JournalRolledBack, JournalFailed, Status
<1>4. CASE Noop(p) \/ Verify(p)
  BY <1>4 DEF Noop, Verify, Leave, Goto, TypeOK
<1>5. CASE WriteTemp(p) \/ Replace(p) \/ WriteFails(p) \/ Check(p) \/ Recheck(p)
  BY <1>5 DEF WriteTemp, Replace, WriteFails, Check, Recheck
<1>6. CASE RestoreTemp(p) \/ Restore(p) \/ Unlink(p) \/ RestoreFails(p)
  BY <1>6 DEF RestoreTemp, Restore, Unlink, RestoreFails
<1> QED BY <1>1, <1>2, <1>3, <1>4, <1>5, <1>6 DEF Step

\* A plan is made by Plan, and thrown away on every other way.
LEMMA PlanMoves ==
  ASSUME TypeOK, NEW p \in Proc, Step(p) \/ Crash(p) \/ \E mode \in BOOLEAN : Begin(p, mode)
  PROVE  \/ class'[p] = class[p] /\ (pc[p] = "release" => pc'[p] = "release")
         \/ class'[p] = NoClass /\ pc'[p] \notin {"noop", "verify"}
         \/ Plan(p) /\ class'[p] = [f \in Path |-> Classify(Req(p), f)]
<1> USE DEF worktree, stored, work, budget, Goto, Leave, TypeOK
<1>1. CASE \/ Crash(p) \/ Release(p) \/ LoadState(p) \/ \E mode \in BOOLEAN : Begin(p, mode)
  BY <1>1 DEF Crash, Release, ForgetWork, LoadState, Begin, JournalPoint, JournalStep
<1>2. CASE Plan(p) \/ Acquire(p) \/ Decide(p) \/ StageFails(p)
  BY <1>2 DEF Plan, Acquire, Decide, StageFails
<1>3. CASE PersistPlan(p) \/ Block(p) \/ Noop(p) \/ Prepare(p) \/ Start(p) \/ Applied(p) \/ Verify(p)
           \/ JournalRolledBack(p) \/ JournalFailed(p)
  BY <1>3 DEF PersistPlan, Block, Noop, Prepare, Start, Applied, Verify, JournalRolledBack, JournalFailed
<1>4. CASE WriteTemp(p) \/ Replace(p) \/ WriteFails(p) \/ Check(p) \/ Recheck(p)
  BY <1>4 DEF WriteTemp, Replace, WriteFails, Check, Recheck
<1>5. CASE RestoreTemp(p) \/ Restore(p) \/ Unlink(p) \/ RestoreFails(p)
  BY <1>5 DEF RestoreTemp, Restore, Unlink, RestoreFails
<1> QED BY <1>1, <1>2, <1>3, <1>4, <1>5 DEF Step

LEMMA NoopAndVerify ==
  ASSUME TypeOK, NEW p \in Proc, Step(p) \/ Crash(p) \/ \E mode \in BOOLEAN : Begin(p, mode)
  PROVE  /\ pc'[p] = "noop" => class'[p] = class[p] /\ (pc[p] = "noop" \/ AllPost(p))
         /\ pc'[p] = "verify" =>
              content' = content /\ (pc[p] = "verify" \/ FullyApplied(Req(p)))
<1> USE DEF worktree, stored, work, budget, Goto, Leave, TypeOK
<1>1. CASE \/ Crash(p) \/ Release(p) \/ LoadState(p) \/ \E mode \in BOOLEAN : Begin(p, mode)
  BY <1>1 DEF Crash, Release, LoadState, Begin
<1>2. CASE Plan(p) \/ Acquire(p) \/ Decide(p) \/ StageFails(p)
  BY <1>2 DEF Plan, Acquire, Decide, StageFails
<1>3. CASE PersistPlan(p) \/ Block(p) \/ Noop(p) \/ Prepare(p) \/ Start(p) \/ Applied(p) \/ Verify(p)
           \/ JournalRolledBack(p) \/ JournalFailed(p)
  BY <1>3 DEF PersistPlan, Block, Noop, Prepare, Start, Applied, Verify, JournalRolledBack, JournalFailed
<1>4. CASE WriteTemp(p) \/ Replace(p) \/ WriteFails(p) \/ Check(p) \/ Recheck(p)
  BY <1>4 DEF WriteTemp, Replace, WriteFails, Check, Recheck, RollbackFrom, FullyApplied
<1>5. CASE RestoreTemp(p) \/ Restore(p) \/ Unlink(p) \/ RestoreFails(p)
  BY <1>5 DEF RestoreTemp, Restore, Unlink, Restored, RestoreFails
<1> QED BY <1>1, <1>2, <1>3, <1>4, <1>5 DEF Step

\* A request comes to be mentioned as VERIFIED by its own process only.
LEMMA MentionedMoves ==
  ASSUME TypeOK, NEW p \in Proc, Step(p) \/ Crash(p) \/ \E mode \in BOOLEAN : Begin(p, mode),
         NEW r \in Request, Mentioned(r)', ~Mentioned(r)
  PROVE  /\ r = Req(p) /\ pc[p] \in {"noop", "verify"} /\ UNCHANGED <<content, class>>
         /\ locked[p] => pc'[p] = "release"
<1>1. \A q \in Proc \ {p} : loaded'[q] = loaded[q]
  BY StepFrame
<1>2. CASE journal' = journal /\ (loaded' = loaded \/ loaded'[p] \in {journal, NotLoaded})
  BY <1>1, <1>2 DEF Mentioned
<1>3. ASSUME NEW s \in Status, SaveJournal(p, s) PROVE s = "VERIFIED" /\ r = Req(p)
  <2>1. /\ journal' = [loaded[p] EXCEPT ![Req(p)] = s] /\ loaded[p] \in [Request -> Status]
        /\ loaded[p] # NotLoaded /\ loaded'[p] = NotLoaded
    BY <1>3 DEF SaveJournal, TypeOK
  <2>2. journal'[r] = "VERIFIED" /\ loaded[p][r] # "VERIFIED"
    BY <1>1, <2>1 DEF Mentioned
  <2> QED BY <2>1, <2>2
<1> QED BY <1>2, <1>3, JournalMoves DEF Status

LEMMA SameTask ==
  ASSUME DistinctTasks, NEW p \in Proc, NEW q \in Proc, Req(p) = Req(q)
  PROVE  p = q
  BY DEF DistinctTasks, TaskFor, Req

\* A plan that finds a request at its postimages has nothing to change.
LEMMA NothingToChange ==
  ASSUME NEW p \in Proc, FullyApplied(Req(p)), class'[p] = [f \in Path |-> Classify(Req(p), f)]
  PROVE  Changed(p)' = {}
<1>1. \A f \in Path : Classify(Req(p), f) \in {"none", "already"}
  BY KindsDiffer DEF Classify, FullyApplied
<1> QED BY <1>1 DEF Changed

LEMMA VerifiedStep ==
  ASSUME DistinctTasks, MaxEdits = 0, TypeOK, RowInv, WorkInv, VerifiedInv, [Next]_vars
  PROVE  VerifiedInv'
<1> DEFINE Acts(p) == Step(p) \/ Crash(p) \/ \E mode \in BOOLEAN : Begin(p, mode)
<1>req. \A p \in Proc : Req(p) \in Request /\ Req(p)' = Req(p)
  BY RequestAssumption DEF Req
<1>targets. \A r \in Request : Targets[r] \subseteq Path
  BY RequestAssumption
<1>acts. \/ \E p \in Proc : Acts(p)
         \/ UNCHANGED <<content, journal, loaded, pc, class>>
  <2>1. ASSUME NEW f \in Path, Edit(f) PROVE FALSE
    BY <2>1 DEF Edit, TypeOK
  <2>2. MoveHead \/ UNCHANGED vars => UNCHANGED <<content, journal, loaded, pc, class>>
    BY DEF MoveHead, vars, worktree, stored, work
  <2> QED BY <2>1, <2>2, NextCases
<1>1. ASSUME NEW p \in Proc, NEW f \in Path, class'[p][f] = "already"
      PROVE  content'[f] = Post(Req(p))
  <2>1. CASE class'[p] = class[p]
    <3>1. content[f] = Post(Req(p)) /\ f \notin Changed(p)
      BY <1>1, <2>1 DEF VerifiedInv, Changed
    <3> QED BY <1>req, <3>1, PostimageStays, SameTask
  <2>2. CASE class'[p] = NoClass
    BY <1>1, <2>2 DEF NoClass
  <2>3. CASE Plan(p) /\ class'[p] = [g \in Path |-> Classify(Req(p), g)]
    BY <1>1, <2>3 DEF Classify, Plan, worktree
  <2> QED BY <1>acts, <2>1, <2>2, <2>3, PlanMoves, StepFrame
<1>2. ASSUME NEW p \in Proc, pc'[p] = "noop" PROVE AllPost(p)'
  <2>1. class'[p] = class[p] /\ AllPost(p)
    BY <1>2, <1>acts, NoopAndVerify, StepFrame DEF VerifiedInv
  <2> QED BY <2>1 DEF AllPost, Req
<1>3. ASSUME NEW p \in Proc, pc'[p] = "verify" PROVE FullyApplied(Req(p))'
  <2>1. CASE Acts(p)
    BY <1>3, <2>1, NoopAndVerify, <1>req DEF VerifiedInv, FullyApplied, Post
  <2>2. ASSUME NEW q \in Proc, q # p, Acts(q) PROVE FullyApplied(Req(p))'
    <3>1. pc[p] = "verify" /\ content' = content
      BY <1>3, <2>2, StepFrame, OthersStandStill DEF UnderRow
    <3> QED BY <1>req, <3>1 DEF VerifiedInv, FullyApplied, Post
  <2> QED BY <1>3, <1>acts, <1>req, <2>1, <2>2 DEF VerifiedInv, FullyApplied, Post
<1>4. ASSUME NEW r \in Request, Mentioned(r)
      PROVE  FullyApplied(r)' /\ \A p \in Proc : Req(p) = r => AtRest(p)'
  <2>1. FullyApplied(r) /\ \A p \in Proc : Req(p) = r => AtRest(p)
    BY <1>4 DEF VerifiedInv
  <2>2. FullyApplied(r)'
    <3> SUFFICES ASSUME NEW f \in Targets[r], content'[f] # Post(r) PROVE FALSE
      BY DEF FullyApplied, Post
    <3>1. PICK p \in Proc : Req(p) = r /\ f \in Changed(p) /\ pc[p] \in {"rollback", "restore"}
      BY <1>targets, <2>1, PostimageStays DEF FullyApplied
    <3> QED BY <2>1, <3>1 DEF AtRest
  <2>3. ASSUME NEW p \in Proc, Req(p) = r PROVE AtRest(p)'
    <3>1. CASE class'[p] = class[p] /\ (pc[p] = "release" => pc'[p] = "release")
      BY <2>1, <2>3, <3>1 DEF AtRest, Changed
    <3>2. CASE class'[p] = NoClass
      BY <3>2 DEF AtRest, Changed, NoClass
    <3>3. CASE class'[p] = [f \in Path |-> Classify(Req(p), f)]
      BY <2>1, <2>3, <3>3, NothingToChange DEF AtRest
    <3> QED BY <1>acts, <3>1, <3>2, <3>3, PlanMoves, StepFrame
  <2> QED BY <2>2, <2>3
<1>5. ASSUME NEW r \in Request, Mentioned(r)', ~Mentioned(r)
      PROVE  FullyApplied(r)' /\ \A p \in Proc : Req(p) = r => AtRest(p)'
  <2>1. PICK p \in Proc : Acts(p)
    BY <1>5, <1>acts DEF Mentioned
  <2>2. /\ r = Req(p) /\ pc[p] \in {"noop", "verify"} /\ UNCHANGED <<content, class>>
        /\ locked[p] => pc'[p] = "release"
    BY <1>5, <2>1, MentionedMoves
  <2>3. locked[p]
    BY <2>2 DEF RowInv, UnderRow
  <2>4. FullyApplied(r)
    BY <1>targets, <2>2 DEF VerifiedInv, AllPost, FullyApplied
  <2>5. \A q \in Proc : Req(q) = r => q = p
    BY <2>2, SameTask
  <2> QED BY <2>2, <2>3, <2>4, <2>5 DEF FullyApplied, AtRest, Post
<1>6. \A r \in Request : Mentioned(r)' =>
        FullyApplied(r)' /\ \A p \in Proc : Req(p) = r => AtRest(p)'
  BY <1>4, <1>5
<1> QED BY <1>req, <1>1, <1>2, <1>3, <1>6 DEF VerifiedInv, Post

(***************************************************************************)
(* A journal that says VERIFIED speaks the truth about every target, when  *)
(* no editor interferes and no two processes apply under one task id.      *)
(***************************************************************************)
THEOREM VerifiedIsAppliedHolds ==
  ASSUME DistinctTasks, MaxEdits = 0
  PROVE  Spec => []VerifiedIsApplied
<1>1. Init => VerifiedInv
  <2> SUFFICES ASSUME Init PROVE VerifiedInv
    OBVIOUS
  <2>1. \A p \in Proc : Changed(p) = {}
    BY DEF Init, Changed, NoClass
  <2>2. \A r \in Request : ~Mentioned(r)
    BY DEF Init, Mentioned
  <2> QED BY <2>1, <2>2 DEF Init, VerifiedInv, NoClass
<1>2. VerifiedInv => VerifiedIsApplied
  BY DEF VerifiedInv, VerifiedIsApplied, Mentioned
<1>3. Spec => []VerifiedInv
  BY <1>1, VerifiedStep, TypeCorrect, RowInvHolds, WorkInvHolds, PTL DEF Spec
<1> QED BY <1>2, <1>3, PTL

-----------------------------------------------------------------------------
(***************************************************************************)
(* The engine implements the atomic apply.  Inside a transaction, and      *)
(* without editors, a file of the plan holds its postimage from its        *)
(* replacement to its restoration, and its captured bytes at any other     *)
(* time; and what was captured is what the plan may replace.               *)
(***************************************************************************)
Unstarted == {"decide", "noop", "prepare", "start"}
InTx      == {"prepare", "start", "write", "replace", "check", "applied", "recheck",
              "rollback", "restore"}

Replaced(p, f) == f \in mutated[p] /\ (pc[p] \in Backward => f \in undo[p])

Transaction(p) ==
  /\ undo[p] \subseteq mutated[p]
  /\ pc[p] \in Unstarted => mutated[p] = {}
  /\ pc[p] = "replace" => target[p] \cap mutated[p] = {}
  /\ pc[p] \in {"persist_plan", "decide"} /\ locked[p] =>
       \A f \in Changed(p) : content[f] \in Before(Req(p), f)
  /\ pc[p] \in InTx =>
       \A f \in Changed(p) :
         /\ preimage[p][f] \in Before(Req(p), f)
         /\ content[f] = IF Replaced(p, f) THEN Post(Req(p)) ELSE preimage[p][f]

TxInv == \A p \in Proc : Transaction(p)

\* A step of the transaction that writes no file.
LEMMA TransactionKept ==
  ASSUME NEW p \in Proc, Transaction(p),
         UNCHANGED <<content, class, preimage, mutated>>,
         pc[p] \in InTx, pc'[p] \in InTx, pc'[p] \in Unstarted => pc[p] \in Unstarted,
         undo'[p] \subseteq mutated[p],
         pc'[p] = "replace" => target'[p] \cap mutated[p] = {},
         \A f \in Changed(p) : Replaced(p, f)' <=> Replaced(p, f)
  PROVE  Transaction(p)'
<1>1. Changed(p)' = Changed(p) /\ Req(p)' = Req(p)
  BY DEF Changed, Req
<1>2. pc'[p] # "persist_plan" /\ pc'[p] # "decide"
  BY DEF InTx
<1>3. \A f \in Changed(p) :
         /\ preimage'[p][f] \in Before(Req(p), f)
         /\ content'[f] = IF Replaced(p, f)' THEN Post(Req(p)) ELSE preimage'[p][f]
  BY DEF Transaction
<1> QED BY <1>1, <1>2, <1>3 DEF Transaction, Before, Post, Partial, Absent, Preimage

\* A step after which p is not in a transaction, nor about to start one.
LEMMA TransactionOver ==
  ASSUME NEW p \in Proc, undo'[p] \subseteq mutated'[p],
         pc'[p] \notin InTx \cup Unstarted \cup {"persist_plan"}
  PROVE  Transaction(p)'
  BY DEF Transaction, InTx, Unstarted

LEMMA TxStep ==
  ASSUME DistinctTasks, MaxEdits = 0, TypeOK, RowInv, WorkInv, TxInv, [Next]_vars
  PROVE  TxInv'
<1> USE DEF worktree, stored, work, budget, Goto, Leave
<1> SUFFICES ASSUME NEW q \in Proc PROVE Transaction(q)'
  BY DEF TxInv
<1>q. Transaction(q)
  BY DEF TxInv
<1>under. InTx \cup Unstarted \subseteq UnderRow
  BY DEF InTx, Unstarted, UnderRow
<1>same. ASSUME UNCHANGED content,
                pc'[q] = pc[q] /\ class'[q] = class[q] /\ preimage'[q] = preimage[q],
                mutated'[q] = mutated[q] /\ undo'[q] = undo[q] /\ target'[q] = target[q],
                locked'[q] = locked[q]
         PROVE  Transaction(q)'
  <2>1. Changed(q)' = Changed(q) /\ Req(q)' = Req(q) /\ \A f : Replaced(q, f)' <=> Replaced(q, f)
    BY <1>same DEF Changed, Req, Replaced
  <2> QED BY <1>q, <1>same, <2>1 DEF Transaction, Before, Post, Partial, Absent, Preimage
<1>1. ASSUME NEW p \in Proc, q # p, Step(p) \/ Crash(p) \/ \E mode \in BOOLEAN : Begin(p, mode)
      PROVE  Transaction(q)'
  <2>1. /\ pc'[q] = pc[q] /\ class'[q] = class[q] /\ preimage'[q] = preimage[q]
        /\ mutated'[q] = mutated[q] /\ undo'[q] = undo[q] /\ target'[q] = target[q]
        /\ locked'[q] = locked[q]
    BY <1>1, StepFrame
  <2>2. CASE content' = content
    BY <1>same, <2>1, <2>2
  <2>3. CASE content' # content
    <3>1. pc[q] \notin UnderRow /\ ~locked[q]
      BY <1>1, <2>3, OthersStandStill
    <3> QED BY <1>q, <1>under, <2>1, <3>1 DEF Transaction
  <2> QED BY <2>2, <2>3
<1>2. ASSUME Plan(q) PROVE Transaction(q)'
  <2>1. /\ undo[q] = {} /\ mutated[q] = {} /\ UNCHANGED <<content, undo, mutated, target, locked>>
    BY <1>2 DEF Plan, WorkInv, Fresh, BeforeWork
  <2>2. pc'[q] \in {"persist_plan", "release", "idle"}
    BY <1>2 DEF Plan, TypeOK
  <2>3. ASSUME pc'[q] = "persist_plan", NEW f \in Changed(q)'
        PROVE  content[f] \in Before(Req(q), f)
    <3>1. f \in Path /\ Classify(Req(q), f) \in {"clean", "partial"}
      BY <1>2, <2>3 DEF Plan, TypeOK, Changed
    <3> QED BY <3>1 DEF Classify, Before
  <2>4. \A f \in Changed(q)' : pc'[q] = "persist_plan" => content'[f] \in Before(Req(q), f)'
    BY <2>1, <2>3 DEF Before, Partial, Absent, Preimage, Req
  <2> QED BY <2>1, <2>2, <2>4 DEF Transaction, InTx, Unstarted
<1>3. ASSUME PersistPlan(q) PROVE Transaction(q)'
  <2>1. /\ undo[q] = {} /\ mutated[q] = {} /\ UNCHANGED <<content, undo, mutated, target, locked>>
    BY <1>3 DEF PersistPlan, WorkInv, Fresh, BeforeWork
  <2>2. \/ pc'[q] \notin InTx \cup Unstarted \cup {"persist_plan"}
        \/ pc'[q] = "decide" /\ locked[q] /\ class' = class /\ pc[q] = "persist_plan"
    BY <1>3 DEF PersistPlan, TypeOK, InTx, Unstarted
  <2>3. CASE pc'[q] = "decide" /\ locked[q] /\ class' = class /\ pc[q] = "persist_plan"
    <3>1. Changed(q)' = Changed(q) /\ Req(q)' = Req(q)
      BY <2>3 DEF Changed, Req
    <3> QED BY <1>q, <2>1, <2>3, <3>1 DEF Transaction, InTx, Unstarted, Before, Partial, Absent, Preimage
  <2> QED BY <2>1, <2>2, <2>3, TransactionOver
<1>4. ASSUME Decide(q) PROVE Transaction(q)'
  <2>1. /\ UNCHANGED <<content, class, undo, mutated, target, locked>>
        /\ pc[q] = "decide" /\ locked[q]
    BY <1>4 DEF Decide, RowInv, UnderRow
  <2>2. pc'[q] \in {"noop", "prepare"}
    BY <1>4 DEF Decide, TypeOK
  <2>3. undo[q] \subseteq mutated[q] /\ mutated[q] = {} /\ \A f \in Changed(q) : content[f] \in Before(Req(q), f)
    BY <1>q, <2>1 DEF Transaction, Unstarted
  <2>4. ASSUME pc'[q] = "prepare", NEW f \in Changed(q) PROVE preimage'[q][f] = content[f]
    BY <1>4, <2>4 DEF Decide, TypeOK, Changed
  <2>5. Changed(q)' = Changed(q) /\ Req(q)' = Req(q)
    BY <2>1 DEF Changed, Req
  <2>6. \A f : ~Replaced(q, f)'
    BY <2>1, <2>3 DEF Replaced
  <2> QED BY <2>1, <2>2, <2>3, <2>4, <2>5, <2>6
          DEF Transaction, InTx, Before, Post, Partial, Absent, Preimage
<1>5. ASSUME Prepare(q) \/ Start(q) \/ Applied(q) \/ WriteTemp(q) \/ RestoreTemp(q) PROVE Transaction(q)'
  <2>1. UNCHANGED <<content, class, preimage, mutated, undo>>
    BY <1>5 DEF Prepare, Start, Applied, WriteTemp, RestoreTemp
  <2>2. /\ pc[q] \in InTx /\ pc'[q] \in InTx
        /\ pc'[q] \in Unstarted => pc[q] \in Unstarted
        /\ pc[q] \in Backward <=> pc'[q] \in Backward
    BY <1>5 DEF Prepare, Start, Applied, WriteTemp, RestoreTemp, TypeOK, InTx, Unstarted, Backward
  <2>3. pc'[q] = "replace" => target'[q] \cap mutated[q] = {}
    BY <1>5 DEF Prepare, Start, Applied, WriteTemp, RestoreTemp, TypeOK
  <2>4. \A f : Replaced(q, f)' <=> Replaced(q, f)
    BY <2>1, <2>2 DEF Replaced
  <2>5. undo'[q] \subseteq mutated[q]
    BY <1>q, <2>1 DEF Transaction
  <2> QED BY <1>q, <2>1, <2>2, <2>3, <2>4, <2>5, TransactionKept
<1>6. ASSUME WriteFails(q) \/ Check(q) \/ Recheck(q) PROVE Transaction(q)'
  <2>1. UNCHANGED <<content, class, preimage, mutated>> /\ pc[q] \in {"replace", "check", "recheck"}
    BY <1>6 DEF WriteFails, Check, Recheck, RollbackFrom
  <2>2. \/ pc'[q] \in {"write", "applied", "verify"} /\ undo'[q] = undo[q]
        \/ pc'[q] = "rollback" /\ undo'[q] = mutated[q]
    BY <1>6 DEF WriteFails, Check, Recheck, RollbackFrom, TypeOK
  <2>3. \A f : Replaced(q, f)' <=> Replaced(q, f)
    BY <2>1, <2>2 DEF Replaced, Backward
  <2>4. undo'[q] \subseteq mutated[q]
    BY <1>q, <2>2 DEF Transaction
  <2>5. CASE pc'[q] = "verify"
    BY <2>1, <2>4, <2>5, TransactionOver DEF InTx, Unstarted
  <2>6. CASE pc'[q] # "verify"
    <3>1. pc[q] \in InTx /\ pc'[q] \in InTx /\ pc'[q] \notin Unstarted /\ pc'[q] # "replace"
      BY <2>1, <2>2, <2>6 DEF InTx, Unstarted
    <3> QED BY <1>q, <2>1, <2>3, <2>4, <3>1, TransactionKept
  <2> QED BY <2>5, <2>6
<1>7. ASSUME Replace(q) PROVE Transaction(q)'
  <2>1. /\ UNCHANGED <<class, preimage, undo>> /\ pc[q] = "replace" /\ pc'[q] = "check"
        /\ mutated'[q] = mutated[q] \cup target[q]
        /\ \A f \in Path : content'[f] = IF f \in target[q] THEN Post(Req(q)) ELSE content[f]
    BY <1>7 DEF Replace, TypeOK
  <2>2. Changed(q)' = Changed(q) /\ Req(q)' = Req(q) /\ Changed(q) \subseteq Path
    BY <2>1 DEF Changed, Req
  <2>3. \A f : Replaced(q, f)' <=> Replaced(q, f) \/ f \in target[q]
    BY <2>1 DEF Replaced, Backward
  <2>4. \A f \in Changed(q) :
          /\ preimage'[q][f] \in Before(Req(q), f)
          /\ content'[f] = IF Replaced(q, f)' THEN Post(Req(q)) ELSE preimage'[q][f]
    BY <1>q, <2>1, <2>2, <2>3 DEF Transaction, InTx
  <2> QED BY <1>q, <2>1, <2>2, <2>4 DEF Transaction, Unstarted, Before, Post, Partial, Absent, Preimage
<1>8. ASSUME Restore(q) \/ Unlink(q) PROVE Transaction(q)'
  <2>1. PICK f \in Changed(q) \cap undo[q] : Restored(q, f)
    BY <1>8 DEF Restore, Unlink, WorkInv, Within
  <2>2. /\ content'[f] = preimage[q][f]
        /\ \A g \in Path : g # f => content'[g] = content[g]
        /\ undo'[q] = undo[q] \ {f} /\ pc'[q] = "rollback" /\ pc[q] \in Backward
    BY <1>8, <2>1 DEF Restored, Restore, Unlink, TypeOK, Changed, Backward
  <2>3. UNCHANGED <<class, preimage, mutated>>
    BY <1>8 DEF Restore, Unlink
  <2>4. Changed(q)' = Changed(q) /\ Req(q)' = Req(q) /\ Changed(q) \subseteq Path
    BY <2>3 DEF Changed, Req
  <2>5. \A g : Replaced(q, g)' <=> Replaced(q, g) /\ g # f
    BY <2>2, <2>3 DEF Replaced, Backward
  <2>6. \A g \in Changed(q) :
          /\ preimage'[q][g] \in Before(Req(q), g)
          /\ content'[g] = IF Replaced(q, g)' THEN Post(Req(q)) ELSE preimage'[q][g]
    BY <1>q, <2>2, <2>3, <2>4, <2>5 DEF Transaction, InTx, Backward
  <2> QED BY <1>q, <2>2, <2>3, <2>4, <2>6
          DEF Transaction, Unstarted, Before, Post, Partial, Absent, Preimage
<1>9. ASSUME Step(q) PROVE Transaction(q)'
  <2>1. CASE \/ Block(q) \/ Acquire(q) \/ Noop(q) \/ StageFails(q) \/ Verify(q) \/ RestoreFails(q)
             \/ JournalRolledBack(q) \/ JournalFailed(q)
    <3>1. pc'[q] \notin InTx \cup Unstarted \cup {"persist_plan"} /\ UNCHANGED <<undo, mutated>>
      BY <2>1 DEF Block, Acquire, Noop, StageFails, Verify, RestoreFails,
                  JournalRolledBack, JournalFailed, TypeOK, InTx, Unstarted
    <3> QED BY <1>q, <3>1, TransactionOver DEF Transaction
  <2>2. CASE Release(q)
    <3>1. pc'[q] = "idle" /\ undo'[q] = {}
      BY <2>2 DEF Release, ForgetWork, TypeOK
    <3> QED BY <3>1, TransactionOver DEF InTx, Unstarted
  <2>3. CASE LoadState(q)
    BY <1>same, <2>3 DEF LoadState
  <2> QED BY <1>2, <1>3, <1>4, <1>5, <1>6, <1>7, <1>8, <1>9, <2>1, <2>2, <2>3 DEF Step
<1>10. ASSUME Crash(q) \/ \E mode \in BOOLEAN : Begin(q, mode) PROVE Transaction(q)'
  <2>1. pc'[q] \in {"idle", "plan"} /\ (undo'[q] = {} \/ UNCHANGED <<undo, mutated>>)
    BY <1>10 DEF Crash, Begin, ForgetWork, TypeOK
  <2> QED BY <1>q, <2>1, TransactionOver DEF Transaction, InTx, Unstarted
<1>11. ASSUME NEW f \in Path, Edit(f) PROVE Transaction(q)'
  BY <1>11 DEF Edit, TypeOK
<1>12. ASSUME MoveHead \/ UNCHANGED vars PROVE Transaction(q)'
  BY <1>same, <1>12 DEF MoveHead, vars
<1> QED
  BY <1>1, <1>9, <1>10, <1>11, <1>12, NextCases

\* What the files of p look like from outside, and from there the overlay: a
\* file in somebody's transaction is that process's, any other is the worktree's.
Seen(p, f) == IF Mutating(p) /\ f \in mutated[p] THEN preimage[p][f] ELSE content[f]

SeenAt(f) ==
  /\ \A p \in Proc : Mutating(p) /\ f \in mutated[p] => Overlay[f] = preimage[p][f]
  /\ (\A p \in Proc : ~(Mutating(p) /\ f \in mutated[p])) => Overlay[f] = content[f]

LEMMA OverlayAt == OneWriter => \A f \in Path : SeenAt(f)
<1> SUFFICES ASSUME OneWriter, NEW f \in Path PROVE SeenAt(f)
  OBVIOUS
<1>1. ASSUME NEW p \in Proc, Mutating(p), f \in mutated[p] PROVE Overlay[f] = preimage[p][f]
  <2> DEFINE q == CHOOSE q \in Proc : Mutating(q) /\ f \in mutated[q]
  <2>1. q \in Proc /\ Mutating(q)
    BY <1>1
  <2>2. q = p
    BY <1>1, <2>1 DEF OneWriter
  <2> QED BY <1>1, <2>2 DEF Overlay
<1> QED BY <1>1 DEF Overlay, SeenAt

LEMMA OverlayNext == OneWriter' => (\A f \in Path : SeenAt(f))'
  BY OverlayAt, PTL

LEMMA OverlayFunction == Overlay = [f \in Path |-> Overlay[f]]
  BY DEF Overlay

LEMMA OverlayFunctionNext == Overlay' = [f \in Path |-> Overlay'[f]]
<1>1. (Overlay = [f \in Path |-> Overlay[f]])'
  BY OverlayFunction, PTL
<1> QED BY <1>1

LEMMA OverlayKept ==
  ASSUME OneWriter, OneWriter', NEW p \in Proc,
         \A q \in Proc \ {p} : /\ pc'[q] = pc[q] /\ preimage'[q] = preimage[q]
                               /\ mutated'[q] = mutated[q],
         \A q \in Proc \ {p} : Mutating(q) => content' = content,
         \A f \in Path : Seen(p, f)' = Seen(p, f)
  PROVE  Overlay' = Overlay
<1>1. \A q \in Proc \ {p} : Mutating(q)' <=> Mutating(q)
  BY DEF Mutating
<1>2. ASSUME NEW f \in Path PROVE Overlay'[f] = Overlay[f]
  <2>0. SeenAt(f) /\ SeenAt(f)'
    BY OverlayAt, OverlayNext
  <2>1. CASE \E q \in Proc \ {p} : Mutating(q) /\ f \in mutated[q]
    BY <1>1, <2>0, <2>1 DEF SeenAt
  <2>2. CASE \A q \in Proc \ {p} : ~(Mutating(q) /\ f \in mutated[q])
    <3>1. Overlay[f] = Seen(p, f)
      BY <2>0, <2>2 DEF Seen, SeenAt
    <3>2. Overlay'[f] = Seen(p, f)'
      BY <1>1, <2>0, <2>2 DEF Seen, SeenAt
    <3> QED BY <3>1, <3>2
  <2> QED BY <2>1, <2>2
<1> QED BY <1>2, OverlayFunction, OverlayFunctionNext

\* A step of p that leaves contents, captures and replacements alone, between two
\* points of the transaction or between two points outside of it.
LEMMA SeenFrame ==
  ASSUME NEW p \in Proc, UNCHANGED content,
         \/ ~Mutating(p) /\ ~Mutating(p)'
         \/ /\ Mutating(p) <=> Mutating(p)'
            /\ mutated'[p] = mutated[p] /\ preimage'[p] = preimage[p]
  PROVE  \A f \in Path : Seen(p, f)' = Seen(p, f)
  BY DEF Seen

\* The two kinds of steps that show: the final read-back, and a failure in the
\* middle of the transaction.  Every other step leaves the files as they look.
Commits(p) == Recheck(p) /\ pc'[p] = "verify"
Tears(p)   == RestoreFails(p) \/ (Crash(p) /\ Mutating(p))

LEMMA SeenKept ==
  ASSUME TypeOK, WorkInv, NEW p \in Proc, Transaction(p),
         Step(p) \/ Crash(p) \/ \E mode \in BOOLEAN : Begin(p, mode),
         ~Commits(p), ~Tears(p)
  PROVE  \A f \in Path : Seen(p, f)' = Seen(p, f)
<1> USE DEF worktree, stored, work, budget, Goto, Leave, TypeOK
<1>1. CASE \/ Crash(p) \/ Release(p) \/ Plan(p) \/ Acquire(p) \/ Decide(p) \/ StageFails(p)
           \/ \E mode \in BOOLEAN : Begin(p, mode)
  <2>1. content' = content /\ ~Mutating(p) /\ ~Mutating(p)'
    BY <1>1 DEF Crash, Release, Plan, Acquire, Decide, StageFails, Begin, Mutating, Tears
  <2> QED BY <2>1, SeenFrame
<1>2. CASE PersistPlan(p) \/ Block(p) \/ Noop(p) \/ Prepare(p) \/ Verify(p) \/ JournalFailed(p)
  <2>1. content' = content /\ ~Mutating(p) /\ ~Mutating(p)'
    BY <1>2 DEF PersistPlan, Block, Noop, Prepare, Verify, JournalFailed, Mutating
  <2> QED BY <2>1, SeenFrame
<1>3. CASE LoadState(p)
  BY <1>3, SeenFrame DEF LoadState, Mutating
<1>4. CASE Start(p)
  <2>1. content' = content /\ mutated' = mutated /\ mutated[p] = {}
    BY <1>4 DEF Start, Transaction, Unstarted
  <2> QED BY <2>1 DEF Seen
<1>5. CASE WriteTemp(p) \/ WriteFails(p) \/ Check(p) \/ Applied(p) \/ Recheck(p) \/ RestoreTemp(p)
  <2>1. UNCHANGED <<content, mutated, preimage>> /\ Mutating(p) /\ Mutating(p)'
    BY <1>5 DEF WriteTemp, WriteFails, Check, Applied, Recheck, RestoreTemp, RollbackFrom, Mutating,
                Commits
  <2> QED BY <2>1, SeenFrame
<1>6. CASE Replace(p)
  <2>1. /\ Mutating(p) /\ Mutating(p)' /\ preimage' = preimage
        /\ mutated'[p] = mutated[p] \cup target[p]
        /\ \A f \in Path : f \notin target[p] => content'[f] = content[f]
    BY <1>6 DEF Replace, Mutating
  <2>2. ASSUME NEW f \in target[p] PROVE f \notin mutated[p] /\ content[f] = preimage[p][f]
    <3>1. f \in Changed(p)
      BY DEF WorkInv, Within
    <3>2. pc[p] = "replace" /\ f \notin mutated[p]
      BY <1>6 DEF Replace, Transaction
    <3> QED BY <3>1, <3>2 DEF Transaction, InTx, Replaced
  <2> QED BY <2>1, <2>2 DEF Seen
<1>7. CASE Restore(p) \/ Unlink(p)
  <2>1. PICK f \in undo[p] : Restored(p, f)
    BY <1>7 DEF Restore, Unlink, WorkInv
  <2>2. /\ Mutating(p) /\ Mutating(p)' /\ preimage' = preimage /\ mutated' = mutated
        /\ \A g \in Path : g # f => content'[g] = content[g]
        /\ f \in mutated[p]
    BY <1>7, <2>1 DEF Restore, Unlink, Restored, Mutating, Transaction
  <2> QED BY <2>2 DEF Seen
<1>8. CASE JournalRolledBack(p)
  <2>1. /\ UNCHANGED content /\ Mutating(p) /\ ~Mutating(p)'
        /\ pc[p] = "rollback" /\ undo[p] = {}
    BY <1>8 DEF JournalRolledBack, Mutating
  <2>2. ASSUME NEW f \in mutated[p] PROVE content[f] = preimage[p][f]
    <3>1. f \in Changed(p)
      BY DEF WorkInv, Within
    <3> QED BY <2>1, <3>1 DEF Transaction, InTx, Replaced, Backward
  <2> QED BY <2>1, <2>2 DEF Seen
<1>9. CASE RestoreFails(p)
  BY <1>9 DEF Tears
<1> QED BY <1>1, <1>2, <1>3, <1>4, <1>5, <1>6, <1>7, <1>8, <1>9 DEF Step

\* A plan speaks about the targets of its request only.
PlanInv == \A p \in Proc : Changed(p) \subseteq Targets[Req(p)]

LEMMA PlanStep ==
  ASSUME TypeOK, PlanInv, [Next]_vars
  PROVE  PlanInv'
<1> SUFFICES ASSUME NEW q \in Proc PROVE (Changed(q) \subseteq Targets[Req(q)])'
  BY DEF PlanInv
<1>1. CASE class'[q] = class[q]
  BY <1>1 DEF PlanInv, Changed, Req
<1>2. CASE class'[q] # class[q]
  <2>1. \/ class'[q] = NoClass
        \/ class'[q] = [f \in Path |-> Classify(Req(q), f)]
    <3>1. ASSUME NEW p \in Proc, Step(p) \/ Crash(p) \/ \E mode \in BOOLEAN : Begin(p, mode)
          PROVE  p = q
      BY <1>2, <3>1, StepFrame
    <3>2. ~UNCHANGED vars /\ ~MoveHead /\ \A f \in Path : ~Edit(f)
      BY <1>2 DEF vars, work, MoveHead, Edit
    <3> QED BY <1>2, <3>1, <3>2, NextCases, PlanMoves
  <2>2. CASE class'[q] = NoClass
    BY <2>2 DEF Changed, NoClass
  <2>3. CASE class'[q] = [f \in Path |-> Classify(Req(q), f)]
    <3>1. \A f \in Path : Classify(Req(q), f) # "none" => f \in Targets[Req(q)]
      BY DEF Classify
    <3> QED BY <2>3, <3>1 DEF Changed, Req
  <2> QED BY <2>1, <2>2, <2>3
<1> QED BY <1>1, <1>2

-----------------------------------------------------------------------------
(***************************************************************************)
(* The steps of the refinement.                                            *)
(***************************************************************************)
Failures == crashes + faults

\* What a step of p counts as a failure.
LEMMA FailureMoves ==
  ASSUME TypeOK, NEW p \in Proc, Step(p) \/ Crash(p) \/ \E mode \in BOOLEAN : Begin(p, mode)
  PROVE  /\ Failures' \in {Failures, Failures + 1}
         /\ Commits(p) => Failures' = Failures
         /\ Tears(p) => Failures' = Failures + 1
<1> USE DEF worktree, stored, work, budget, TypeOK, Failures, Commits, Tears
<1>1. CASE Crash(p)
  BY <1>1 DEF Crash, Recheck, RestoreFails
<1>2. CASE Release(p) \/ LoadState(p) \/ \E mode \in BOOLEAN : Begin(p, mode)
  BY <1>2 DEF Release, LoadState, Begin, Recheck, RestoreFails, Crash
<1>3. CASE Plan(p) \/ Acquire(p) \/ Decide(p) \/ StageFails(p)
  BY <1>3 DEF Plan, Acquire, Decide, StageFails, Recheck, RestoreFails, Crash
<1>4. CASE PersistPlan(p) \/ Block(p) \/ Noop(p) \/ Prepare(p) \/ Start(p) \/ Applied(p) \/ Verify(p)
           \/ JournalRolledBack(p) \/ JournalFailed(p)
  BY <1>4 DEF PersistPlan, Block, Noop, Prepare, Start, Applied, Verify, JournalRolledBack, JournalFailed,
              Recheck, RestoreFails, Crash
<1>5. CASE WriteTemp(p) \/ Replace(p) \/ WriteFails(p) \/ Check(p) \/ Recheck(p)
  BY <1>5 DEF WriteTemp, Replace, WriteFails, Check, Recheck, RestoreFails, Crash
<1>6. CASE RestoreTemp(p) \/ Restore(p) \/ Unlink(p) \/ RestoreFails(p)
  BY <1>6 DEF RestoreTemp, Restore, Unlink, RestoreFails, Recheck, Crash
<1> QED BY <1>1, <1>2, <1>3, <1>4, <1>5, <1>6 DEF Step

\* At a commit or a tear of p nobody else is in a transaction, p leaves its own,
\* and no file is written: from outside the worktree is what it is.
LEMMA OverlayEnds ==
  ASSUME OneWriter, OneWriter', TypeOK, NEW p \in Proc, Mutating(p),
         Commits(p) \/ Tears(p)
  PROVE  /\ content' = content
         /\ \A f \in Path : /\ Overlay'[f] = content[f]
                            /\ Overlay[f] = IF f \in mutated[p] THEN preimage[p][f] ELSE content[f]
<1>1. content' = content /\ ~Mutating(p)'
  BY DEF Commits, Tears, Recheck, RestoreFails, Crash, Goto, TypeOK, Mutating, worktree
<1>2. \A q \in Proc \ {p} : ~Mutating(q) /\ ~Mutating(q)'
  <2> SUFFICES ASSUME NEW q \in Proc \ {p} PROVE ~Mutating(q) /\ ~Mutating(q)'
    OBVIOUS
  <2>1. pc'[q] = pc[q]
    BY StepFrame DEF Commits, Tears, Step
  <2> QED BY <2>1 DEF OneWriter, Mutating
<1>3. \A f \in Path : SeenAt(f) /\ SeenAt(f)'
  BY OverlayAt, OverlayNext
<1>4. ASSUME NEW f \in Path PROVE Overlay'[f] = content[f]
  BY <1>1, <1>2, <1>3 DEF SeenAt
<1>5. ASSUME NEW f \in Path
      PROVE  Overlay[f] = IF f \in mutated[p] THEN preimage[p][f] ELSE content[f]
  BY <1>2, <1>3 DEF SeenAt
<1> QED BY <1>1, <1>4, <1>5

LEMMA CommitApplies ==
  ASSUME OneWriter, OneWriter', TypeOK, WorkInv, PlanInv, NEW p \in Proc, Transaction(p), Commits(p)
  PROVE  Atomic!Apply(Req(p))
<1> DEFINE T == Targets[Req(p)]
<1>1. Mutating(p) /\ pc[p] \in InTx
  BY DEF Commits, Recheck, Mutating, InTx
<1>2. \A f \in T : content[f] = Post(Req(p))
  BY DEF Commits, Recheck, RollbackFrom, Goto, TypeOK
<1>3. /\ mutated[p] \subseteq T
      /\ \A f \in mutated[p] : preimage[p][f] \in Before(Req(p), f)
  BY <1>1 DEF WorkInv, Within, PlanInv, Transaction
<1>4. T \subseteq Path
  BY RequestAssumption DEF Req
<1>5. \A f \in Path : /\ Overlay'[f] = content[f]
                      /\ Overlay[f] = IF f \in mutated[p] THEN preimage[p][f] ELSE content[f]
  BY <1>1, OverlayEnds
<1>6. \A f \in T : Overlay[f] \in Before(Req(p), f) \cup {Post(Req(p))}
  BY <1>2, <1>3, <1>4, <1>5
<1>7. \A f \in Path : Overlay'[f] = IF f \in T THEN Post(Req(p)) ELSE Overlay[f]
  BY <1>2, <1>3, <1>5
<1>8. Overlay' = [f \in Path |-> IF f \in T THEN Post(Req(p)) ELSE Overlay[f]]
  BY <1>7, OverlayFunctionNext
<1>9. Failures' = Failures
  BY FailureMoves DEF Commits, Step
<1> QED BY <1>6, <1>8, <1>9 DEF Atomic!Apply, Atomic!Admissible, Atomic!With, Failures

LEMMA TearFails ==
  ASSUME OneWriter, OneWriter', TypeOK, WorkInv, PlanInv, NEW p \in Proc, Transaction(p), Tears(p)
  PROVE  Atomic!Fail(Req(p))
<1> DEFINE S == {f \in mutated[p] : Replaced(p, f)}
<1>1. Mutating(p) /\ pc[p] \in InTx
  BY DEF Tears, RestoreFails, Mutating, InTx
<1>2. mutated[p] \subseteq Changed(p) /\ Changed(p) \subseteq Path /\ S \subseteq Targets[Req(p)]
  BY DEF WorkInv, Within, PlanInv, Changed
<1>3. \A f \in mutated[p] : /\ preimage[p][f] \in Before(Req(p), f)
                            /\ content[f] = IF Replaced(p, f) THEN Post(Req(p)) ELSE preimage[p][f]
  BY <1>1, <1>2 DEF Transaction
<1>4. \A f \in Path : /\ Overlay'[f] = content[f]
                      /\ Overlay[f] = IF f \in mutated[p] THEN preimage[p][f] ELSE content[f]
  BY <1>1, OverlayEnds
<1>5. \A f \in S : Overlay[f] \in Before(Req(p), f) \cup {Post(Req(p))}
  BY <1>2, <1>3, <1>4
<1>6. \A f \in Path : Overlay'[f] = IF f \in S THEN Post(Req(p)) ELSE Overlay[f]
  BY <1>3, <1>4
<1>7. Overlay' = [f \in Path |-> IF f \in S THEN Post(Req(p)) ELSE Overlay[f]]
  BY <1>6, OverlayFunctionNext
<1>8. Failures' = Failures + 1
  BY FailureMoves DEF Tears, Step
<1> HIDE DEF S
<1> QED BY <1>2, <1>5, <1>7, <1>8 DEF Atomic!Fail, Atomic!Admissible, Atomic!With, Failures

LEMMA RefinesStep ==
  ASSUME DistinctTasks, MaxEdits = 0, TypeOK, RowInv, WorkInv, TxInv, PlanInv,
         OneWriter, OneWriter', [Next]_vars
  PROVE  [Atomic!Next]_Atomic!vars
<1>1. ASSUME NEW p \in Proc, Step(p) \/ Crash(p) \/ \E mode \in BOOLEAN : Begin(p, mode)
      PROVE  [Atomic!Next]_Atomic!vars
  <2>1. Transaction(p) /\ Req(p) \in Request
    BY RequestAssumption DEF TxInv, Req
  <2>2. CASE Commits(p)
    BY <2>1, <2>2, CommitApplies DEF Atomic!Next
  <2>3. CASE Tears(p)
    BY <2>1, <2>3, TearFails DEF Atomic!Next
  <2>4. CASE ~Commits(p) /\ ~Tears(p)
    <3>1. \A q \in Proc \ {p} : /\ pc'[q] = pc[q] /\ preimage'[q] = preimage[q]
                                /\ mutated'[q] = mutated[q]
      BY <1>1, StepFrame
    <3>2. \A q \in Proc \ {p} : Mutating(q) => content' = content
      BY <1>1, OthersStandStill DEF Mutating, UnderRow
    <3>3. \A f \in Path : Seen(p, f)' = Seen(p, f)
      BY <1>1, <2>1, <2>4, SeenKept
    <3>4. Overlay' = Overlay
      BY <3>1, <3>2, <3>3, OverlayKept
    <3>5. CASE Failures' = Failures
      BY <3>4, <3>5 DEF Atomic!vars, Failures
    <3>6. CASE Failures' = Failures + 1
      <4>1. Overlay' = [f \in Path |-> IF f \in {} THEN Post(Req(p)) ELSE Overlay[f]]
        BY <3>4, OverlayFunction
      <4>2. Atomic!Admissible(Req(p), {}) /\ Overlay' = Atomic!With(Req(p), {})
        BY <4>1 DEF Atomic!Admissible, Atomic!With
      <4>3. {} \in SUBSET Targets[Req(p)]
        OBVIOUS
      <4>4. Atomic!Fail(Req(p))
        BY <3>6, <4>2, <4>3 DEF Atomic!Fail, Failures
      <4> QED BY <2>1, <4>4 DEF Atomic!Next
    <3> QED BY <1>1, <3>5, <3>6, FailureMoves
  <2> QED BY <2>2, <2>3, <2>4
<1>2. ASSUME UNCHANGED vars PROVE UNCHANGED Atomic!vars
  <2>1. UNCHANGED <<content, pc, mutated, preimage, crashes, faults>>
    BY <1>2 DEF vars, worktree, work, budget
  <2>2. Overlay' = Overlay
    BY <2>1 DEF Overlay, Mutating
  <2> QED BY <2>1, <2>2 DEF Atomic!vars
<1>3. ASSUME MoveHead \/ \E f \in Path : Edit(f) PROVE FALSE
  BY <1>3 DEF MoveHead, Edit, TypeOK
<1> QED BY <1>1, <1>2, <1>3, NextCases

(***************************************************************************)
(* The engine implements the atomic apply, when no editor interferes and   *)
(* no two processes apply under one task id: seen from outside, every step *)
(* changes all of a manifest's targets, or none, or is a failure's.        *)
(***************************************************************************)
THEOREM ImplementsAtomicApplyHolds ==
  ASSUME DistinctTasks, MaxEdits = 0
  PROVE  Spec => ImplementsAtomicApply
<1>1. Init => Atomic!Init
  <2> SUFFICES ASSUME Init PROVE Atomic!Init
    OBVIOUS
  <2>1. \A p \in Proc : ~Mutating(p)
    BY DEF Init, Mutating
  <2>2. \A f \in Path : Overlay[f] = Committed(f)
    BY <2>1 DEF Overlay, Init
  <2> QED BY <2>2, OverlayFunction DEF Init, Atomic!Init
<1>2. Init => TxInv /\ PlanInv
  BY DEF Init, TxInv, Transaction, PlanInv, Unstarted, InTx, Changed, NoClass
<1>3. Spec => []PlanInv
  BY <1>2, PlanStep, TypeCorrect, PTL DEF Spec
<1>4. Spec => []TxInv
  BY <1>2, TxStep, TypeCorrect, RowInvHolds, WorkInvHolds, PTL DEF Spec
<1>5. Spec => Atomic!Init /\ [][Atomic!Next]_Atomic!vars
  BY <1>1, <1>3, <1>4, RefinesStep, TypeCorrect, RowInvHolds, WorkInvHolds, OneWriterHolds, PTL DEF Spec
<1> QED BY <1>5 DEF ImplementsAtomicApply, Atomic!Spec
=============================================================================
