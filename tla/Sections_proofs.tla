--------------------------- MODULE Sections_proofs ---------------------------
(***************************************************************************)
(* Proofs about the sections, for any pools of what the calls are given.   *)
(* A call changes the sections of its own service only (the frames); so an *)
(* invariant of a section is proved from the calls of its service.         *)
(***************************************************************************)
EXTENDS Sections, FiniteSetTheorems, SequenceTheorems, WellFoundedInduction, TLAPS

-----------------------------------------------------------------------------
(***************************************************************************)
(* Frames.  Only(S, M, O): nothing changes but the sections S, the parts M *)
(* of the memory and the parts O of what is outside.                       *)
(***************************************************************************)
Only(S, M, O) ==
  /\ DOMAIN state' = DOMAIN state /\ \A x \in DOMAIN state \ S : state'[x] = state[x]
  /\ DOMAIN memory' = DOMAIN memory /\ \A x \in DOMAIN memory \ M : memory'[x] = memory[x]
  /\ DOMAIN outside' = DOMAIN outside /\ \A x \in DOMAIN outside \ O : outside'[x] = outside[x]

LEMMA SaveFrame ==
  ASSUME NEW section, NEW value, Save(section, value)
  PROVE  Only({section}, {}, {})
  BY DEF Save, Only

LEMMA KeepFrame ==
  ASSUME NEW section, NEW value, Keep(section, value)
  PROVE  Only({section}, {section}, {})
  BY DEF Keep, Only

LEMMA LeasesFrame == LeasesNext => Only({"leases"}, {}, {})
  BY SaveFrame DEF LeasesNext, AcquireScopeLease, ReleaseScopeLease

LEMMA QueueFrame == QueueNext => Only({"queue"}, {}, {"head"})
<1>1. ASSUME NEW r, NEW sha, HeadMoves(r, sha) PROVE Only({"queue"}, {}, {"head"})
  BY <1>1 DEF HeadMoves, Only
<1>2. ASSUME NEW value, Save("queue", value) PROVE Only({"queue"}, {}, {"head"})
  BY <1>2 DEF Save, Only
<1> QED BY <1>1, <1>2 DEF QueueNext, Enqueue, RequireReadyForMerge, MarkIntegrated

LEMMA RdcFrame == RdcNext => Only({"rdc"}, {"rdc"}, {"faults"})
<1>1. ASSUME NEW records, Persisted(records) PROVE Only({"rdc"}, {"rdc"}, {"faults"})
  BY <1>1 DEF Persisted, Keep, Only
<1>2. RestoreSessions => Only({"rdc"}, {"rdc"}, {"faults"})
  BY DEF RestoreSessions, Only
<1> QED BY <1>1, <1>2 DEF RdcNext, StartSession, RecordAction, InterruptSession, ResumeSession,
                         RecordManualRelayException, CompleteSession, Update

LEMMA AccessFrame == AccessNext => Only({}, {"access"}, {"access"})
<1>1. ASSUME NEW access, NEW seen, Serve(access, seen) PROVE Only({}, {"access"}, {"access"})
  BY <1>1 DEF Serve, Only
<1> QED BY <1>1 DEF AccessNext, IssueLaunch, RedeemLaunch, Authenticate, Tick, ForgetAccess

LEMMA ObservationsFrame == ObservationsNext => Only({"failures"}, {}, {})
  BY SaveFrame DEF ObservationsNext, ImportFailureRegistry, RecordFailure

LEMMA RetriesFrame == RetriesNext => Only({"failures", "tasks"}, {"tasks"}, {})
<1>1. ASSUME NEW t, NEW r, NEW f, SaveTask(t, r, f) PROVE Only({"failures", "tasks"}, {"tasks"}, {})
  BY <1>1 DEF SaveTask, Only
<1>2. ASSUME NEW f, Recover(f) PROVE Only({"failures", "tasks"}, {"tasks"}, {})
  BY <1>2 DEF Recover, Only
<1>3. ASSUME NEW value, Save("failures", value) PROVE Only({"failures", "tasks"}, {"tasks"}, {})
  BY <1>3 DEF Save, Only
<1> QED BY <1>1, <1>2, <1>3 DEF RetriesNext, EvaluateRetry, FailWith, ContinueTask, QueueTask,
                         LeaveTask, AuthorizeTask, GenerateManualPackage, RecoverTasks

LEMMA RouteFrame == RouteNext => Only({"failures"}, {}, {"route"})
  BY DEF RouteNext, RouteAfterConnector403, Only

LEMMA IncidentsFrame == IncidentsNext => Only({"learning"}, {}, {"cut"})
<1>1. ASSUME NEW value, Save("learning", value) PROVE Only({"learning"}, {}, {"cut"})
  BY <1>1 DEF Save, Only
<1>2. ASSUME NEW i, CloseIncident(i) PROVE Only({"learning"}, {}, {"cut"})
  BY <1>1, <1>2 DEF CloseIncident, Only
<1> QED BY <1>1, <1>2 DEF IncidentsNext, OpenIncident, ClassifyRootCause, BindLearning,
                         VerifyPrevention, Replace

LEMMA DecisionsFrame == DecisionsNext => Only({"decisions"}, {}, {})
  BY SaveFrame DEF DecisionsNext, ImportDecisions, ImportSnapshot

LEMMA BindingsFrame == BindingsNext => Only({}, {}, {"bound"})
  BY DEF BindingsNext, BindInstruction, Only

LEMMA LifecycleFrame == LifecycleNext => Only({"lifecycle"}, {}, {"approved"})
<1>1. ASSUME NEW value, Save("lifecycle", value) PROVE Only({"lifecycle"}, {}, {"approved"})
  BY <1>1 DEF Save, Only
<1>2. ASSUME NEW key, RequireApproved(key) PROVE Only({"lifecycle"}, {}, {"approved"})
  BY <1>2 DEF RequireApproved, Only
<1> QED BY <1>1, <1>2 DEF LifecycleNext, ImportLifecycle, ImportSnapshot

LEMMA KnowledgeFrame == KnowledgeNext => Only({"knowledge"}, {}, {})
  BY SaveFrame DEF KnowledgeNext, ImportKnowledge, ImportSnapshot

LEMMA ChangesFrame ==
  ChangesNext => \/ Only({"graphs"}, {}, {}) \/ Only({"contracts"}, {}, {})
                 \/ Only({"events"}, {}, {}) \/ Only({"inbox"}, {}, {})
                 \/ Only({}, {}, {"clock", "cleared"})
<1>1. ClockTicks => Only({}, {}, {"clock", "cleared"})
  BY DEF ClockTicks, Only
<1>2. ASSUME NEW v, NEW g, NEW c, NEW p, NEW r, RequireProjectClear(v, g, c, p, r)
      PROVE  Only({}, {}, {"clock", "cleared"})
  BY <1>2 DEF RequireProjectClear, Only
<1> QED BY <1>1, <1>2, SaveFrame DEF ChangesNext, ImportGraph, ImportContracts,
                                     RegisterAcceptedChange, SyncRegistry, Transition

LEMMA CensusFrame == CensusNext => Only({"census"}, {}, {"admitted"})
<1>1. ASSUME NEW value, Save("census", value) PROVE Only({"census"}, {}, {"admitted"})
  BY <1>1 DEF Save, Only
<1>2. ASSUME NEW id, RequireAdmitted(id) PROVE Only({"census"}, {}, {"admitted"})
  BY <1>2 DEF RequireAdmitted, Only
<1> QED BY <1>1, <1>2 DEF CensusNext, ImportCensus

LEMMA EnvironmentFrame == EnvironmentNext => Only({"environment"}, {}, {"certified"})
<1>1. ASSUME NEW value, Save("environment", value)
      PROVE  Only({"environment"}, {}, {"certified"})
  BY <1>1 DEF Save, Only
<1>2. RequireCertified => Only({"environment"}, {}, {"certified"})
  BY DEF RequireCertified, Only
<1> QED BY <1>1, <1>2 DEF EnvironmentNext, ImportEnvironment

LEMMA DatabaseFrame == DatabaseNext => Only({"database"}, {}, {})
  BY SaveFrame DEF DatabaseNext, EnsureSeed, ReplaceCatalogSnapshot, ReplaceSchemaSnapshot

\* The calls that go on with the run.
RunMoves ==
  \/ \E s \in {"failed", "timed_out"} : FailRun(s)
  \/ QueueRun \/ \E r \in GateResults : ReturnResult(r)
  \/ \E s \in {"pending", "running"} : ContinueRun(s)
  \/ CancelRun \/ AuthorizeRun
  \/ PackageRun \/ \E thread \in BOOLEAN : RelayRun(thread)
  \/ \E r \in GateResults : ImportResult(r)

LEMMA EvidenceFrame == EvidenceNext => Only({"run"}, {"run"}, {"verified", "shown", "rollup"})
<1> DEFINE Mine == Only({"run"}, {"run"}, {"verified", "shown", "rollup"})
<1>1. ASSUME NEW r, ExecutorEnds(r) PROVE Mine
  BY <1>1 DEF ExecutorEnds, Keep, Only
<1>2. ASSUME NEW q, VerifyRun(q) PROVE Mine
  BY <1>2 DEF VerifyRun, Only
<1>3. ASSUME NEW r, Keep("run", r) PROVE Mine
  BY <1>3 DEF Keep, Only
<1>4. ASSUME RunMoves PROVE Mine
  BY <1>3, <1>4 DEF RunMoves, FailRun, QueueRun, ReturnResult, ContinueRun, CancelRun, AuthorizeRun, PackageRun, RelayRun,
                    ImportResult, Moved
<1>5. OtherTaskSaves => Mine
  BY DEF OtherTaskSaves, Only
<1>6. ASSUME RestoreRun PROVE Mine
  <2>1. (\E r : Keep("run", r)) \/ (memory' = [memory EXCEPT !.run = state.run] /\ UNCHANGED <<state, outside>>)
    BY <1>6 DEF RestoreRun
  <2> QED BY <1>3, <2>1 DEF Only
<1>7. ASSUME NEW p, NEW t, NEW m, NEW v, AuthorizeRollup(p, t, m, v) PROVE Mine
  BY <1>7 DEF AuthorizeRollup, Only
<1> QED BY <1>1, <1>2, <1>4, <1>5, <1>6, <1>7 DEF EvidenceNext, RunMoves

LEMMA AnswersFrame == AnswersNext => Only({}, {}, {"answer"})
<1>1. ASSUME NEW c, NEW r, DecidePolicy(c, r) PROVE Only({}, {}, {"answer"})
  BY <1>1 DEF DecidePolicy, Only
<1>2. ASSUME NEW p, NEW q, PlanTools(p, q) PROVE Only({}, {}, {"answer"})
  BY <1>2 DEF PlanTools, Only
<1>3. ASSUME NEW p, NEW q, DecidePilot(p, q) PROVE Only({}, {}, {"answer"})
  BY <1>3 DEF DecidePilot, Only
<1>4. ASSUME NEW s, NEW p, NEW d, ResolveInstructions(s, p, d) PROVE Only({}, {}, {"answer"})
  BY <1>4 DEF ResolveInstructions, Only
<1>5. ASSUME NEW g, FindCriticalPath(g) PROVE Only({}, {}, {"answer"})
  BY <1>5 DEF FindCriticalPath, Only
<1> QED BY <1>1, <1>2, <1>3, <1>4, <1>5 DEF AnswersNext

LEMMA SkillsFrame == SkillsNext => Only({"skills"}, {}, {"stages", "loaded"})
<1>1. ASSUME NEW s, RegisterSkill(s) PROVE Only({"skills"}, {}, {"stages", "loaded"})
  BY <1>1 DEF RegisterSkill, Only
<1>2. ASSUME NEW s, NEW x, TransitionSkill(s, x) PROVE Only({"skills"}, {}, {"stages", "loaded"})
  BY <1>2 DEF TransitionSkill, Only
<1>3. ASSUME NEW s, NEW l, LoadSkill(s, l) PROVE Only({"skills"}, {}, {"stages", "loaded"})
  BY <1>3 DEF LoadSkill, Only
<1> QED BY <1>1, <1>2, <1>3 DEF SkillsNext

LEMMA DirectFrame == DirectNext => Only({"direct"}, {"direct"}, {"sessions"})
<1>1. ASSUME NEW s, NEW c, StartDirect(s, c) PROVE Only({"direct"}, {"direct"}, {"sessions"})
  BY <1>1 DEF StartDirect, Only
<1>2. ASSUME NEW s, NEW x, AnswerDirect(s, x) PROVE Only({"direct"}, {"direct"}, {"sessions"})
  BY <1>2 DEF AnswerDirect, Only
<1>3. DirectEnds => Only({"direct"}, {"direct"}, {"sessions"})
  BY DEF DirectEnds, Only
<1> QED BY <1>1, <1>2, <1>3 DEF DirectNext

LEMMA ReadinessFrame == ReadinessNext => Only({"assessments"}, {}, {})
  BY SaveFrame DEF ReadinessNext, Assess

LEMMA IntakesFrame == IntakesNext => Only({"projects"}, {}, {})
  BY DEF IntakesNext, Intake, Only

LEMMA ProjectsFrame == ProjectsNext => Only({"projects"}, {"probes"}, {"probed", "github", "prepared"})
<1> DEFINE Mine == Only({"projects"}, {"probes"}, {"probed", "github", "prepared"})
<1>1. ASSUME NEW i, NEW p, ProbeStarts(i, p) PROVE Mine
  BY <1>1 DEF ProbeStarts, Only
<1>2. ASSUME NEW i, NEW f, ProbeAnswers(i, f) PROVE Mine
  BY <1>2 DEF ProbeAnswers, Forgotten, Only
<1>3. ASSUME NEW i, ProbeFails(i) PROVE Mine
  BY <1>3 DEF ProbeFails, Forgotten, Only
<1>4. ASSUME NEW s, ProbesBreak(s) PROVE Mine
  BY <1>4 DEF ProbesBreak, Forgotten, Only
<1>5. ASSUME NEW g, NEW n, RenameRepository(g, n) PROVE Mine
  BY <1>5 DEF RenameRepository, Only
<1>6. ASSUME NEW p, NEW c, PrepareTask(p, c) PROVE Mine
  BY <1>6 DEF PrepareTask, Only
<1> QED BY <1>1, <1>2, <1>3, <1>4, <1>5, <1>6 DEF ProjectsNext

LEMMA HealthFrame == HealthNext => Only({"health"}, {}, {})
  BY SaveFrame DEF HealthNext, TransitionHealth

-----------------------------------------------------------------------------
(***************************************************************************)
(* The document, the memory and the outside have their parts, and each     *)
(* part changes by the calls of its service only.                          *)
(***************************************************************************)
Shape ==
  /\ DOMAIN state = {"leases", "queue", "rdc", "failures", "tasks", "learning", "decisions",
                     "lifecycle", "knowledge", "graphs", "contracts", "events", "inbox", "census",
                     "environment", "database", "run", "skills", "direct", "assessments",
                     "projects", "health"}
  /\ DOMAIN memory = {"rdc", "access", "tasks", "run", "direct", "probes"}
  /\ DOMAIN outside = {"head", "faults", "access", "route", "cut", "bound", "approved", "clock",
                       "cleared", "admitted", "certified", "verified", "shown", "rollup", "answer",
                       "stages", "loaded", "sessions", "github", "prepared", "probed"}

LEMMA InitShape == Init => Shape
  BY DEF Init, Shape

LEMMA StepShape ==
  ASSUME Shape, [Next]_vars
  PROVE  Shape'
<1>1. ASSUME NEW S, NEW M, NEW O, Only(S, M, O) PROVE Shape'
  BY <1>1 DEF Shape, Only
<1>2. CASE UNCHANGED vars
  BY <1>2 DEF Shape, vars
<1>3. CASE Next
  BY <1>1, <1>3, LeasesFrame, QueueFrame, RdcFrame, AccessFrame, ObservationsFrame, RetriesFrame,
     RouteFrame, IncidentsFrame, DecisionsFrame, BindingsFrame, LifecycleFrame, KnowledgeFrame,
     ChangesFrame, CensusFrame, EnvironmentFrame, DatabaseFrame, EvidenceFrame, AnswersFrame,
     SkillsFrame, DirectFrame, ReadinessFrame, IntakesFrame, ProjectsFrame, HealthFrame
  DEF Next
<1> QED BY <1>2, <1>3

LEMMA ShapeHolds == Spec => []Shape
  BY InitShape, StepShape, PTL DEF Spec

\* Who changes a section.
LEMMA Owners ==
  ASSUME [Next]_vars, NEW x \in DOMAIN state, state'[x] # state[x]
  PROVE  \/ x = "leases" /\ LeasesNext
         \/ x = "queue" /\ QueueNext
         \/ x = "rdc" /\ RdcNext
         \/ x = "failures" /\ (ObservationsNext \/ RetriesNext \/ RouteNext)
         \/ x = "tasks" /\ RetriesNext
         \/ x = "learning" /\ IncidentsNext
         \/ x = "decisions" /\ DecisionsNext
         \/ x = "lifecycle" /\ LifecycleNext
         \/ x = "knowledge" /\ KnowledgeNext
         \/ x \in {"graphs", "contracts", "events", "inbox"} /\ ChangesNext
         \/ x = "census" /\ CensusNext
         \/ x = "environment" /\ EnvironmentNext
         \/ x = "database" /\ DatabaseNext
         \/ x = "run" /\ EvidenceNext
         \/ x = "skills" /\ SkillsNext
         \/ x = "direct" /\ DirectNext
         \/ x = "assessments" /\ ReadinessNext
         \/ x = "projects" /\ (IntakesNext \/ ProjectsNext)
         \/ x = "health" /\ HealthNext
<1>0. ASSUME NEW S, \A y \in DOMAIN state \ S : state'[y] = state[y] PROVE x \in S
  BY <1>0
<1>1. ~ UNCHANGED vars
  BY DEF vars
<1>2. /\ LeasesNext => x \in {"leases"}
      /\ QueueNext => x \in {"queue"}
      /\ RdcNext => x \in {"rdc"}
      /\ ~ AccessNext
      /\ ObservationsNext => x \in {"failures"}
      /\ RetriesNext => x \in {"failures", "tasks"}
      /\ RouteNext => x \in {"failures"}
      /\ IncidentsNext => x \in {"learning"}
  BY <1>0, LeasesFrame, QueueFrame, RdcFrame, AccessFrame, ObservationsFrame, RetriesFrame,
     RouteFrame, IncidentsFrame DEF Only
<1>3. /\ DecisionsNext => x \in {"decisions"}
      /\ ~ BindingsNext
      /\ LifecycleNext => x \in {"lifecycle"}
      /\ KnowledgeNext => x \in {"knowledge"}
      /\ ChangesNext => x \in {"graphs", "contracts", "events", "inbox"}
      /\ CensusNext => x \in {"census"}
      /\ EnvironmentNext => x \in {"environment"}
      /\ DatabaseNext => x \in {"database"}
  BY <1>0, DecisionsFrame, BindingsFrame, LifecycleFrame, KnowledgeFrame,
     ChangesFrame, CensusFrame, EnvironmentFrame, DatabaseFrame DEF Only
<1>4. /\ EvidenceNext => x \in {"run"}
      /\ ~ AnswersNext
      /\ SkillsNext => x \in {"skills"}
      /\ DirectNext => x \in {"direct"}
      /\ ReadinessNext => x \in {"assessments"}
      /\ IntakesNext => x \in {"projects"}
      /\ ProjectsNext => x \in {"projects"}
      /\ HealthNext => x \in {"health"}
  BY <1>0, EvidenceFrame, AnswersFrame, SkillsFrame, DirectFrame, ReadinessFrame, IntakesFrame,
     ProjectsFrame, HealthFrame DEF Only
<1> QED BY <1>1, <1>2, <1>3, <1>4 DEF Next

\* Who changes what a service keeps in memory.
LEMMA OwnersOfMemory ==
  ASSUME [Next]_vars, NEW x \in DOMAIN memory, memory'[x] # memory[x]
  PROVE  \/ x = "rdc" /\ RdcNext
         \/ x = "access" /\ AccessNext
         \/ x = "tasks" /\ RetriesNext
         \/ x = "run" /\ EvidenceNext
         \/ x = "direct" /\ DirectNext
         \/ x = "probes" /\ ProjectsNext
<1>0. ASSUME NEW S, \A y \in DOMAIN memory \ S : memory'[y] = memory[y] PROVE x \in S
  BY <1>0
<1>1. ~ UNCHANGED vars
  BY DEF vars
<1>2. /\ ~ LeasesNext
      /\ ~ QueueNext
      /\ RdcNext => x \in {"rdc"}
      /\ AccessNext => x \in {"access"}
      /\ ~ ObservationsNext
      /\ RetriesNext => x \in {"tasks"}
      /\ ~ RouteNext
      /\ ~ IncidentsNext
  BY <1>0, LeasesFrame, QueueFrame, RdcFrame, AccessFrame, ObservationsFrame, RetriesFrame,
     RouteFrame, IncidentsFrame DEF Only
<1>3. /\ ~ DecisionsNext
      /\ ~ BindingsNext
      /\ ~ LifecycleNext
      /\ ~ KnowledgeNext
      /\ ~ ChangesNext
      /\ ~ CensusNext
      /\ ~ EnvironmentNext
      /\ ~ DatabaseNext
  BY <1>0, DecisionsFrame, BindingsFrame, LifecycleFrame, KnowledgeFrame,
     ChangesFrame, CensusFrame, EnvironmentFrame, DatabaseFrame DEF Only
<1>4. /\ EvidenceNext => x \in {"run"}
      /\ ~ AnswersNext
      /\ ~ SkillsNext
      /\ DirectNext => x \in {"direct"}
      /\ ~ ReadinessNext
      /\ ~ IntakesNext
      /\ ProjectsNext => x \in {"probes"}
      /\ ~ HealthNext
  BY <1>0, EvidenceFrame, AnswersFrame, SkillsFrame, DirectFrame, ReadinessFrame, IntakesFrame,
     ProjectsFrame, HealthFrame DEF Only
<1> QED BY <1>1, <1>2, <1>3, <1>4 DEF Next

\* Who changes what is outside.
LEMMA OwnersOfOutside ==
  ASSUME [Next]_vars, NEW x \in DOMAIN outside, outside'[x] # outside[x]
  PROVE  \/ x = "head" /\ QueueNext
         \/ x = "faults" /\ RdcNext
         \/ x = "access" /\ AccessNext
         \/ x = "route" /\ RouteNext
         \/ x = "cut" /\ IncidentsNext
         \/ x = "bound" /\ BindingsNext
         \/ x = "approved" /\ LifecycleNext
         \/ x \in {"clock", "cleared"} /\ ChangesNext
         \/ x = "admitted" /\ CensusNext
         \/ x = "certified" /\ EnvironmentNext
         \/ x \in {"verified", "shown", "rollup"} /\ EvidenceNext
         \/ x = "answer" /\ AnswersNext
         \/ x \in {"stages", "loaded"} /\ SkillsNext
         \/ x = "sessions" /\ DirectNext
         \/ x \in {"probed", "github", "prepared"} /\ ProjectsNext
<1>0. ASSUME NEW S, \A y \in DOMAIN outside \ S : outside'[y] = outside[y] PROVE x \in S
  BY <1>0
<1>1. ~ UNCHANGED vars
  BY DEF vars
<1>2. /\ ~ LeasesNext
      /\ QueueNext => x \in {"head"}
      /\ RdcNext => x \in {"faults"}
      /\ AccessNext => x \in {"access"}
      /\ ~ ObservationsNext
      /\ ~ RetriesNext
      /\ RouteNext => x \in {"route"}
      /\ IncidentsNext => x \in {"cut"}
  BY <1>0, LeasesFrame, QueueFrame, RdcFrame, AccessFrame,
     ObservationsFrame, RetriesFrame, RouteFrame, IncidentsFrame DEF Only
<1>3. /\ ~ DecisionsNext
      /\ BindingsNext => x \in {"bound"}
      /\ LifecycleNext => x \in {"approved"}
      /\ ~ KnowledgeNext
      /\ ChangesNext => x \in {"clock", "cleared"}
      /\ CensusNext => x \in {"admitted"}
      /\ EnvironmentNext => x \in {"certified"}
      /\ ~ DatabaseNext
  BY <1>0, DecisionsFrame, BindingsFrame, LifecycleFrame, KnowledgeFrame,
     ChangesFrame, CensusFrame, EnvironmentFrame, DatabaseFrame DEF Only
<1>4. /\ EvidenceNext => x \in {"verified", "shown", "rollup"}
      /\ AnswersNext => x \in {"answer"}
      /\ SkillsNext => x \in {"stages", "loaded"}
      /\ DirectNext => x \in {"sessions"}
      /\ ~ ReadinessNext
      /\ ~ IntakesNext
      /\ ProjectsNext => x \in {"probed", "github", "prepared"}
      /\ ~ HealthNext
  BY <1>0, EvidenceFrame, AnswersFrame, SkillsFrame, DirectFrame,
     ReadinessFrame, IntakesFrame, ProjectsFrame, HealthFrame DEF Only
<1> QED BY <1>1, <1>2, <1>3, <1>4 DEF Next

-----------------------------------------------------------------------------
(***************************************************************************)
(* The failure and retry guard.  What was observed and decided only grows, *)
(* and the tasks are saved as they are in memory.                          *)
(***************************************************************************)
IsSeq(s) == \E S : s \in Seq(S)

LEMMA AppendIsSeq ==
  ASSUME NEW s, NEW e, IsSeq(s)
  PROVE  /\ IsSeq(Append(s, e)) /\ Len(s) \in Nat /\ DOMAIN s = 1..Len(s)
         /\ Len(Append(s, e)) = Len(s) + 1
         /\ DOMAIN Append(s, e) = 1..(Len(s) + 1)
         /\ \A i \in 1..Len(s) : Append(s, e)[i] = s[i]
         /\ Append(s, e)[Len(s) + 1] = e
         /\ Last(Append(s, e)) = e
<1>1. PICK S : s \in Seq(S)
  BY DEF IsSeq
<1>2. s \in Seq(S \cup {e}) /\ Append(s, e) \in Seq(S \cup {e})
  BY <1>1
<1>3. IsSeq(Append(s, e))
  BY <1>2 DEF IsSeq
<1> QED BY <1>2, <1>3 DEF Last

FailuresShape ==
  /\ DOMAIN Failures = {"history", "observations", "decisions"}
  /\ IsSeq(Failures.history) /\ IsSeq(Failures.observations) /\ IsSeq(Failures.decisions)

TaskFields == {"status", "blocker", "env", "authorized", "packaged"}

TasksShape ==
  /\ memory.tasks = state.tasks
  /\ DOMAIN memory.tasks = FailureTask
  /\ \A t \in FailureTask : DOMAIN memory.tasks[t] = TaskFields

LEMMA RecordedShape ==
  ASSUME FailuresShape, NEW o
  PROVE  /\ DOMAIN Recorded(Failures, o) = DOMAIN Failures
         /\ Recorded(Failures, o).history = Failures.history
         /\ Recorded(Failures, o).decisions = Failures.decisions
         /\ \/ Recorded(Failures, o).observations = Failures.observations
            \/ Recorded(Failures, o).observations = Append(Failures.observations, o)
  BY DEF Recorded, FailuresShape

LEMMA EvaluatedShape ==
  ASSUME NEW f, DOMAIN f = {"history", "observations", "decisions"},
         NEW fp, NEW t, NEW env, NEW o
  PROVE  /\ DOMAIN Evaluated(f, fp, t, env, o) = DOMAIN f
         /\ Evaluated(f, fp, t, env, o).history = f.history
         /\ Evaluated(f, fp, t, env, o).observations = f.observations
         /\ \/ Evaluated(f, fp, t, env, o).decisions = f.decisions
            \/ \E d : Evaluated(f, fp, t, env, o).decisions = Append(f.decisions, d)
  BY DEF Evaluated

\* How a call may change what was observed and decided.
FailuresGrow ==
  /\ DOMAIN state'.failures = DOMAIN Failures
  /\ \/ state'.failures.history = Failures.history
     \/ \E h : ~Known(Failures.history, h) /\ state'.failures.history = Append(Failures.history, h)
  /\ \/ state'.failures.observations = Failures.observations
     \/ \E o : state'.failures.observations = Append(Failures.observations, o)
  /\ \/ state'.failures.decisions = Failures.decisions
     \/ \E d : state'.failures.decisions = Append(Failures.decisions, d)

LEMMA FailureMoves ==
  ASSUME Shape, FailuresShape, [Next]_vars
  PROVE  FailuresGrow
<1>1. ASSUME state'.failures = Failures PROVE FailuresGrow
  BY <1>1 DEF FailuresGrow
<1>2. ASSUME NEW o, state'.failures = Recorded(Failures, o) PROVE FailuresGrow
  BY <1>2, RecordedShape DEF FailuresGrow
<1>3. ASSUME NEW f, NEW fp, NEW t, NEW env, NEW o, state'.failures = Evaluated(f, fp, t, env, o),
             f = Failures \/ \E x : f = Recorded(Failures, x)
      PROVE  FailuresGrow
  <2>1. /\ DOMAIN f = DOMAIN Failures /\ f.history = Failures.history
        /\ f.decisions = Failures.decisions
        /\ \/ f.observations = Failures.observations
           \/ \E x : f.observations = Append(Failures.observations, x)
    BY <1>3, RecordedShape
  <2>2. DOMAIN f = {"history", "observations", "decisions"}
    BY <2>1 DEF FailuresShape
  <2>3. /\ DOMAIN state'.failures = DOMAIN f
        /\ state'.failures.history = f.history
        /\ state'.failures.observations = f.observations
        /\ \/ state'.failures.decisions = f.decisions
           \/ \E d : state'.failures.decisions = Append(f.decisions, d)
    BY <1>3, <2>2, EvaluatedShape
  <2> QED BY <2>1, <2>3 DEF FailuresGrow
<1>4. /\ \A t, r, f : SaveTask(t, r, f) => state'.failures = f
      /\ \A f : Recover(f) => state'.failures = f
      /\ \A f : Save("failures", f) => state'.failures = f
  BY DEF SaveTask, Recover, Save, Shape
<1>5. CASE ObservationsNext
  <2>1. ASSUME NEW s, ImportFailureRegistry(s) PROVE FailuresGrow
    <3>1. /\ ~Known(Failures.history, s)
          /\ state'.failures = [Failures EXCEPT !.history = Append(@, s)]
      BY <2>1, <1>4 DEF ImportFailureRegistry
    <3> QED BY <3>1 DEF FailuresGrow, FailuresShape
  <2>2. ASSUME NEW o, RecordFailure(o) PROVE FailuresGrow
    BY <2>2, <1>2, <1>4 DEF RecordFailure
  <2> QED BY <1>5, <2>1, <2>2 DEF ObservationsNext
<1>6. CASE RetriesNext
  <2>1. ASSUME NEW fp, NEW t, NEW e, NEW o, EvaluateRetry(fp, t, e, o) PROVE FailuresGrow
    BY <2>1, <1>3, <1>4 DEF EvaluateRetry
  <2>2. ASSUME NEW t, NEW x, NEW fp, NEW e, NEW id, FailWith(t, x, fp, e, id) PROVE FailuresGrow
    <3> DEFINE o == Observation(id, fp, t, e)
    <3>1. state'.failures \in {Failures, Recorded(Failures, o)}
      BY <2>2, <1>4 DEF FailWith
    <3> QED BY <3>1, <1>1, <1>2
  <2>3. ASSUME NEW t, NEW o, ContinueTask(t, o) PROVE FailuresGrow
    <3>1. state'.failures \in
            {Failures, Evaluated(Failures, Tasks[t].blocker, t, Tasks[t].env, o)}
      BY <2>3, <1>4 DEF ContinueTask
    <3> QED BY <3>1, <1>1, <1>3
  <2>4. ASSUME NEW t, QueueTask(t) \/ LeaveTask(t) \/ AuthorizeTask(t) \/ GenerateManualPackage(t)
        PROVE  FailuresGrow
    <3>1. \E r : SaveTask(t, r, Failures)
      BY <2>4 DEF QueueTask, LeaveTask, AuthorizeTask, GenerateManualPackage
    <3> QED BY <3>1, <1>1, <1>4
  <2>5. CASE RecoverTasks
    BY <2>5, <1>1, <1>4 DEF RecoverTasks
  <2> QED BY <1>6, <2>1, <2>2, <2>3, <2>4, <2>5 DEF RetriesNext
<1>7. CASE RouteNext
  <2>1. PICK id, failure, a, q, l : RouteAfterConnector403(id, failure, a, q, l)
    BY <1>7 DEF RouteNext
  <2> DEFINE o == Observation(id, Connector403, failure.task, failure.permission)
  <2>2. state'.failures = Evaluated(Recorded(Failures, o), Connector403, failure.task, o.env, Nothing)
    BY <2>1 DEF RouteAfterConnector403, Shape
  <2> QED BY <2>2, <1>3
<1>8. state'["failures"] # state["failures"] => ObservationsNext \/ RetriesNext \/ RouteNext
  BY Owners DEF Shape
<1> QED BY <1>1, <1>5, <1>6, <1>7, <1>8 DEF Failures

LEMMA InitFailures == Init => FailuresShape /\ TasksShape
<1> SUFFICES ASSUME Init PROVE FailuresShape /\ TasksShape
  OBVIOUS
<1>1. IsSeq(<<>>)
  BY DEF IsSeq
<1> QED BY <1>1 DEF Init, FailuresShape, TasksShape, TaskFields, Failures, NoFailures, NewTasks

LEMMA StepFailures ==
  ASSUME Shape, FailuresShape, [Next]_vars
  PROVE  FailuresShape'
<1>1. FailuresGrow
  BY FailureMoves
<1>2. \A s, e : IsSeq(s) => IsSeq(Append(s, e))
  BY AppendIsSeq
<1>3. /\ DOMAIN Failures = {"history", "observations", "decisions"}
      /\ IsSeq(Failures.history) /\ IsSeq(Failures.observations) /\ IsSeq(Failures.decisions)
  BY DEF FailuresShape
<1>4. /\ DOMAIN state'.failures = {"history", "observations", "decisions"}
      /\ IsSeq(state'.failures.history) /\ IsSeq(state'.failures.observations)
      /\ IsSeq(state'.failures.decisions)
  BY <1>1, <1>2, <1>3 DEF FailuresGrow
<1> QED BY <1>4 DEF FailuresShape, Failures

LEMMA TaskMoves ==
  ASSUME NEW t, NEW r, NEW f, Shape, TasksShape, SaveTask(t, r, f)
  PROVE  /\ memory'.tasks = [Tasks EXCEPT ![t] = r]
         /\ state'.tasks = memory'.tasks
         /\ state'.failures = f
  BY DEF SaveTask, Shape

LEMMA RecoverMoves ==
  ASSUME NEW f, Shape, TasksShape, Recover(f)
  PROVE  /\ state'.tasks = memory'.tasks
         /\ DOMAIN memory'.tasks = FailureTask
         /\ \A t \in FailureTask : DOMAIN memory'.tasks[t] = TaskFields
<1>1. memory'.tasks = RecoveredTasks /\ state'.tasks = RecoveredTasks
  BY DEF Recover, Shape
<1>2. \A t \in FailureTask : /\ state.tasks[t] = Tasks[t]
                              /\ DOMAIN state.tasks[t] = TaskFields
  BY DEF TasksShape, Tasks
<1>3. DOMAIN RecoveredTasks = FailureTask
  BY DEF RecoveredTasks
<1>4. ASSUME NEW t \in FailureTask
      PROVE  DOMAIN RecoveredTasks[t] = TaskFields
  <2>1. CASE state.tasks[t].status = "running"
    <3>1. RecoveredTasks[t] = [state.tasks[t] EXCEPT !.status = "failed", !.blocker = Restarted]
      BY <2>1 DEF RecoveredTasks
    <3> QED BY <1>2, <3>1
  <2>2. CASE state.tasks[t].status # "running"
    BY <1>2, <2>2 DEF RecoveredTasks
  <2> QED BY <2>1, <2>2
<1> QED BY <1>1, <1>3, <1>4

LEMMA StepTasks ==
  ASSUME Shape, TasksShape, [Next]_vars
  PROVE  TasksShape'
<1>1. CASE memory'["tasks"] = memory["tasks"] /\ state'["tasks"] = state["tasks"]
  BY <1>1 DEF TasksShape
<1>2. CASE RetriesNext
  <2>1. ASSUME NEW t \in FailureTask, NEW r, NEW f, SaveTask(t, r, f),
               DOMAIN r = TaskFields
        PROVE  TasksShape'
    <3>1. memory'.tasks = [Tasks EXCEPT ![t] = r] /\ state'.tasks = memory'.tasks
      BY <2>1, TaskMoves
    <3> QED BY <2>1, <3>1 DEF TasksShape, Tasks
  <2>2. ASSUME NEW f, Recover(f) PROVE TasksShape'
    BY <2>2, RecoverMoves DEF TasksShape
  <2>3. ASSUME NEW v, Save("failures", v) PROVE TasksShape'
    BY <2>3, <1>1 DEF Save, Shape
  <2>4. \A t \in FailureTask : DOMAIN Tasks[t] = TaskFields
    BY DEF TasksShape, Tasks
  <2>5. ASSUME NEW fp, NEW t, NEW e, NEW o, EvaluateRetry(fp, t, e, o) PROVE TasksShape'
    BY <2>3, <2>5 DEF EvaluateRetry
  <2>6. ASSUME NEW t \in FailureTask, NEW x
        PROVE  DOMAIN Left(t, x) = TaskFields
    BY <2>4 DEF Left
  <2>7. ASSUME NEW t \in FailureTask, NEW x, NEW fp, NEW e, NEW id, FailWith(t, x, fp, e, id)
        PROVE  TasksShape'
    <3> DEFINE failed == [Tasks[t] EXCEPT !.status = x, !.blocker = fp, !.env = e]
               r == IF x = "failed" THEN failed ELSE Left(t, x)
    <3>1. DOMAIN failed = TaskFields
      BY <2>4
    <3>2. (\E f : SaveTask(t, r, f)) \/ (\E f : Recover(f))
      BY <2>7 DEF FailWith
    <3> HIDE DEF failed
    <3>3. DOMAIN r = TaskFields
      BY <2>6, <3>1
    <3> HIDE DEF r
    <3> QED BY <2>1, <2>2, <3>2, <3>3
  <2>8. ASSUME NEW t \in FailureTask, NEW o, ContinueTask(t, o) PROVE TasksShape'
    <3>1. (\E f : SaveTask(t, Left(t, "pending"), f)) \/ (\E v : Save("failures", v))
      BY <2>8 DEF ContinueTask
    <3> QED BY <2>1, <2>3, <2>6, <3>1
  <2>9. ASSUME NEW t \in FailureTask, QueueTask(t) \/ LeaveTask(t) PROVE TasksShape'
    <3>1. SaveTask(t, Left(t, "running"), Failures) \/ SaveTask(t, Left(t, "over"), Failures)
      BY <2>9 DEF QueueTask, LeaveTask
    <3> QED BY <2>1, <2>6, <3>1
  <2>10. ASSUME NEW t \in FailureTask, AuthorizeTask(t) PROVE TasksShape'
    <3> DEFINE r == [Tasks[t] EXCEPT !.authorized = TRUE, !.blocker = Nothing]
    <3>1. DOMAIN r = TaskFields
      BY <2>4
    <3>2. SaveTask(t, r, Failures)
      BY <2>10 DEF AuthorizeTask
    <3> HIDE DEF r
    <3> QED BY <2>1, <3>1, <3>2
  <2>11. ASSUME NEW t \in FailureTask, GenerateManualPackage(t) PROVE TasksShape'
    <3> DEFINE r == [Left(t, "pending") EXCEPT !.packaged = TRUE]
    <3>1. DOMAIN r = TaskFields
      BY <2>6
    <3>2. SaveTask(t, r, Failures)
      BY <2>11 DEF GenerateManualPackage
    <3> HIDE DEF r
    <3> QED BY <2>1, <3>1, <3>2
  <2> QED BY <1>2, <2>2, <2>5, <2>7, <2>8, <2>9, <2>10, <2>11 DEF RetriesNext, RecoverTasks
<1>3. /\ memory'["tasks"] # memory["tasks"] => RetriesNext
      /\ state'["tasks"] # state["tasks"] => RetriesNext
  BY Owners, OwnersOfMemory DEF Shape
<1> QED BY <1>1, <1>2, <1>3

-----------------------------------------------------------------------------
(***************************************************************************)
(* Leases.  Two patterns without a wildcard within a name that cover one   *)
(* file are prefixes of it, so the shorter is one of the longer: what the  *)
(* comparison of the prefixes lets in shares no file.                      *)
(***************************************************************************)
LEMMA PrefixElements ==
  ASSUME NEW s, NEW t, IsSeq(s), IsSeq(t)
  PROVE  IsPrefix(s, t) <=> Len(s) <= Len(t) /\ \A i \in 1..Len(s) : s[i] = t[i]
<1>1. PICK S : s \in Seq(S)
  BY DEF IsSeq
<1>2. PICK T : t \in Seq(T)
  BY DEF IsSeq
<1>3. /\ s \in Seq(S \cup T) /\ t \in Seq(S \cup T)
      /\ Len(s) \in Nat /\ Len(t) \in Nat
  BY <1>1, <1>2
<1>4. /\ Len(SubSeq(s, 1, Len(s))) = Len(s)
      /\ \A i \in 1..Len(s) : SubSeq(s, 1, Len(s))[i] = s[i]
  BY <1>3
<1>5. ASSUME Len(s) <= Len(t)
      PROVE  /\ Len(SubSeq(t, 1, Len(s))) = Len(s)
             /\ \A i \in 1..Len(s) : SubSeq(t, 1, Len(s))[i] = t[i]
             /\ SubSeq(s, 1, Len(s)) \in Seq(S \cup T)
             /\ SubSeq(t, 1, Len(s)) \in Seq(S \cup T)
  <2>1. Len(s) \in 0..Len(t) /\ Len(s) \in 0..Len(s)
    BY <1>3, <1>5
  <2> QED BY <1>3, <1>5, <2>1, SubSeqProperties
<1>6. IsPrefix(s, t) => Len(s) <= Len(t) /\ \A i \in 1..Len(s) : s[i] = t[i]
  BY <1>4, <1>5 DEF IsPrefix
<1>7. ASSUME Len(s) <= Len(t), \A i \in 1..Len(s) : s[i] = t[i]
      PROVE  SubSeq(s, 1, Len(s)) = SubSeq(t, 1, Len(s))
  <2>1. Len(SubSeq(s, 1, Len(s))) = Len(SubSeq(t, 1, Len(s)))
    BY <1>4, <1>5, <1>7
  <2>2. \A i \in 1..Len(SubSeq(s, 1, Len(s))) :
          SubSeq(s, 1, Len(s))[i] = SubSeq(t, 1, Len(s))[i]
    BY <1>4, <1>5, <1>7
  <2> QED BY <1>5, <1>7, <2>1, <2>2, SeqEqual
<1> QED BY <1>6, <1>7 DEF IsPrefix

LEMMA PrefixesOfOne ==
  ASSUME NEW s, NEW t, NEW f, IsSeq(s), IsSeq(t), IsSeq(f), IsPrefix(s, f), IsPrefix(t, f)
  PROVE  IsPrefix(s, t) \/ IsPrefix(t, s)
<1>1. Len(s) \in Nat /\ Len(t) \in Nat /\ Len(f) \in Nat
  BY AppendIsSeq
<1>2. CASE Len(s) <= Len(t)
  BY <1>1, <1>2, PrefixElements
<1>3. CASE Len(t) <= Len(s)
  BY <1>1, <1>3, PrefixElements
<1> QED BY <1>1, <1>2, <1>3

IsScope(scope) == \A p \in scope : IsSeq(p.prefix) /\ p.cut \in BOOLEAN

LEMMA SharedOverlaps ==
  ASSUME NEW s, NEW t, NEW file, IsScope(s), IsScope(t), Whole(s), Whole(t), IsSeq(file),
         Shared(s, t, file)
  PROVE  ScopesOverlap(s, t)
<1>1. PICK p \in s : Covers(p, file)
  BY DEF Shared
<1>2. PICK q \in t : Covers(q, file)
  BY DEF Shared
<1>3. IsPrefix(p.prefix, file) /\ IsPrefix(q.prefix, file)
  BY <1>1, <1>2 DEF Covers, Whole
<1>4. PrefixOverlaps(p, q)
  BY <1>3, PrefixesOfOne DEF PrefixOverlaps, IsScope
<1> QED BY <1>4 DEF ScopesOverlap

LeasesApart ==
  /\ IsSeq(state.leases)
  /\ \A i \in DOMAIN state.leases :
       LET l == state.leases[i] IN
       /\ DOMAIN l = {"task", "repository", "scope", "host", "status", "generation"}
       /\ IsScope(l.scope)
  /\ \A i, j \in DOMAIN state.leases :
       LET l == state.leases[i] m == state.leases[j] IN
       (i # j /\ ActiveLease(l) /\ ActiveLease(m)) =>
         /\ l.task # m.task
         /\ l.repository = m.repository => ~ScopesOverlap(l.scope, m.scope)

LEMMA EmptyIsSeq == IsSeq(<<>>) /\ DOMAIN <<>> = {}
  BY DEF IsSeq

\* A sequence with one element replaced.
LEMMA ReplacedIsSeq ==
  ASSUME NEW s, IsSeq(s), NEW k \in DOMAIN s, NEW e
  PROVE  /\ IsSeq([s EXCEPT ![k] = e])
         /\ Len([s EXCEPT ![k] = e]) = Len(s)
         /\ DOMAIN [s EXCEPT ![k] = e] = DOMAIN s
         /\ \A i \in DOMAIN s : [s EXCEPT ![k] = e][i] = IF i = k THEN e ELSE s[i]
<1>1. PICK S : s \in Seq(S)
  BY DEF IsSeq
<1>2. s \in Seq(S \cup {e})
  BY <1>1
<1>3. k \in 1..Len(s)
  BY <1>1
<1>4. [s EXCEPT ![k] = e] \in Seq(S \cup {e}) /\ Len([s EXCEPT ![k] = e]) = Len(s)
  BY <1>2, <1>3, ExceptSeq
<1> QED BY <1>4 DEF IsSeq

LEMMA OverlapIsMutual ==
  ASSUME NEW s, NEW t PROVE ScopesOverlap(s, t) <=> ScopesOverlap(t, s)
  BY DEF ScopesOverlap, PrefixOverlaps

LEMMA StepLeases ==
  ASSUME Shape, LeasesApart, [Next]_vars
  PROVE  LeasesApart'
<1>1. CASE state'["leases"] = state["leases"]
  BY <1>1 DEF LeasesApart
<1>2. ASSUME NEW t \in EngineeringTasks, NEW h, AcquireScopeLease(t, h) PROVE LeasesApart'
  <2> DEFINE n == Len(state.leases) + 1
             new == state'.leases[n]
  <2>1. PICK g : state'.leases = Append(state.leases,
          [task |-> t.id, repository |-> t.repository, scope |-> t.scope,
           host |-> h, status |-> "ACTIVE", generation |-> g])
    BY <1>2 DEF AcquireScopeLease, Save, Shape
  <2>2. /\ IsSeq(state'.leases) /\ DOMAIN state'.leases = DOMAIN state.leases \cup {n}
        /\ n \notin DOMAIN state.leases
        /\ \A i \in DOMAIN state.leases : state'.leases[i] = state.leases[i]
        /\ new = [task |-> t.id, repository |-> t.repository, scope |-> t.scope,
                  host |-> h, status |-> "ACTIVE", generation |-> g]
    <3>1. IsSeq(state.leases) /\ DOMAIN state.leases = 1..Len(state.leases) /\ Len(state.leases) \in Nat
      BY AppendIsSeq DEF LeasesApart
    <3> QED BY <3>1, <2>1, AppendIsSeq
  <2>3. IsScope(t.scope)
    BY ScopesArePaths DEF IsScope, IsSeq
  <2>4. \A i \in DOMAIN state.leases : ActiveLease(state.leases[i]) =>
          /\ state.leases[i].task # t.id
          /\ state.leases[i].repository = t.repository
               => ~ScopesOverlap(state.leases[i].scope, t.scope)
    BY <1>2 DEF AcquireScopeLease, LeaseFree, ActiveLeases, ToSet
  <2> HIDE DEF n
  <2> QED BY <2>2, <2>3, <2>4, OverlapIsMutual DEF LeasesApart
<1>3. ASSUME NEW id, ReleaseScopeLease(id) PROVE LeasesApart'
  <2>1. PICK k \in DOMAIN state.leases :
          /\ ActiveLease(state.leases[k])
          /\ state'.leases = [state.leases EXCEPT ![k].status = "RELEASED"]
    BY <1>3 DEF ReleaseScopeLease, Save, Shape
  <2> DEFINE e == [state.leases[k] EXCEPT !.status = "RELEASED"]
  <2>2. state'.leases = [state.leases EXCEPT ![k] = e]
    BY <2>1
  <2>3. /\ DOMAIN e = DOMAIN state.leases[k] /\ e.scope = state.leases[k].scope
        /\ ~ActiveLease(e)
    BY DEF LeasesApart, ActiveLease
  <2> HIDE DEF e
  <2>4. /\ IsSeq(state'.leases) /\ DOMAIN state'.leases = DOMAIN state.leases
        /\ \A i \in DOMAIN state.leases : state'.leases[i] = IF i = k THEN e ELSE state.leases[i]
    BY <2>2, ReplacedIsSeq DEF LeasesApart
  <2> QED BY <2>3, <2>4 DEF LeasesApart
<1> QED BY <1>1, <1>2, <1>3, Owners DEF Shape, LeasesNext

LEMMA ApartIsDisjoint == LeasesApart => LeasesAreDisjoint(Files)
  BY FilesArePaths, SharedOverlaps DEF LeasesApart, LeasesAreDisjoint, IsSeq

-----------------------------------------------------------------------------
(***************************************************************************)
(* The queue.  An entry becomes ready at the front only, and what is in    *)
(* front of it is then integrated and stays so.                            *)
(***************************************************************************)
QueueInOrder ==
  /\ IsSeq(state.queue)
  /\ \A i \in DOMAIN state.queue :
       DOMAIN state.queue[i] = {"task", "repository", "expected", "integrated", "status"}
  /\ MergesInOrder

LEMMA StepQueue ==
  ASSUME Shape, QueueInOrder, [Next]_vars
  PROVE  QueueInOrder'
<1>1. CASE state'["queue"] = state["queue"]
  BY <1>1 DEF QueueInOrder, MergesInOrder
<1>2. /\ DOMAIN state.queue = 1..Len(state.queue) /\ Len(state.queue) \in Nat
  BY AppendIsSeq DEF QueueInOrder
<1>3. ASSUME NEW t, NEW pushed, Enqueue(t, pushed) PROVE QueueInOrder'
  <2> DEFINE n == Len(state.queue) + 1
             new == state'.queue[n]
  <2>1. PICK e : /\ state'.queue = Append(state.queue, e)
                 /\ DOMAIN e = {"task", "repository", "expected", "integrated", "status"}
                 /\ e.integrated = Nothing /\ e.status \in {"QUEUED", "RECONCILIATION_REQUIRED"}
    BY <1>3 DEF Enqueue, Save, Shape
  <2>2. /\ IsSeq(state'.queue) /\ DOMAIN state'.queue = 1..n
        /\ \A i \in 1..Len(state.queue) : state'.queue[i] = state.queue[i]
        /\ state'.queue[n] = e
    BY <2>1, AppendIsSeq DEF QueueInOrder
  <2>3. \A j \in 1..n : (j = n \/ j \in 1..Len(state.queue)) /\ 1..(j - 1) \subseteq 1..Len(state.queue)
    BY <1>2
  <2> HIDE DEF n
  <2> QED BY <1>2, <2>1, <2>2, <2>3 DEF QueueInOrder, MergesInOrder
<1>4. ASSUME NEW k \in DOMAIN state.queue, NEW e, state'.queue = [state.queue EXCEPT ![k] = e],
             DOMAIN e = DOMAIN state.queue[k], e.repository = state.queue[k].repository,
             \/ Waiting(state.queue[k]) /\ e.status = "RECONCILIATION_REQUIRED"
             \/ Waiting(state.queue[k]) /\ AtFront(k) /\ e.status = "READY"
             \/ state.queue[k].status = "READY" /\ e.status = "INTEGRATED",
             (e.integrated # Nothing) <=> (e.status = "INTEGRATED")
      PROVE  QueueInOrder'
  <2>1. /\ IsSeq(state'.queue) /\ DOMAIN state'.queue = DOMAIN state.queue
        /\ \A i \in DOMAIN state.queue : state'.queue[i] = IF i = k THEN e ELSE state.queue[i]
    BY <1>4, ReplacedIsSeq DEF QueueInOrder
  <2>2. \A j \in DOMAIN state.queue : 1..(j - 1) \subseteq DOMAIN state.queue /\ j \notin 1..(j - 1)
    BY <1>2
  <2>3. \A j \in DOMAIN state'.queue : \A i \in 1..(j - 1) :
          (/\ state'.queue[j].status \in {"READY", "INTEGRATED"}
           /\ state'.queue[i].repository = state'.queue[j].repository)
             => state'.queue[i].status = "INTEGRATED"
    BY <1>4, <2>1, <2>2 DEF QueueInOrder, MergesInOrder, Waiting, AtFront
  <2>4. /\ \A i \in DOMAIN state'.queue :
             DOMAIN state'.queue[i] = {"task", "repository", "expected", "integrated", "status"}
        /\ \A j \in DOMAIN state'.queue :
             (state'.queue[j].integrated # Nothing) <=> (state'.queue[j].status = "INTEGRATED")
    BY <1>4, <2>1 DEF QueueInOrder, MergesInOrder
  <2> QED BY <2>1, <2>3, <2>4 DEF QueueInOrder, MergesInOrder
<1>5. ASSUME NEW id, RequireReadyForMerge(id) PROVE QueueInOrder'
  <2>1. PICK k \in DOMAIN state.queue :
          /\ Waiting(state.queue[k])
          /\ \/ Save("queue", [state.queue EXCEPT ![k].status = "RECONCILIATION_REQUIRED"])
             \/ AtFront(k) /\ Save("queue", [state.queue EXCEPT ![k].status = "READY"])
    BY <1>5 DEF RequireReadyForMerge
  <2>2. DOMAIN state.queue[k] = {"task", "repository", "expected", "integrated", "status"}
        /\ state.queue[k].integrated = Nothing
    BY <2>1 DEF QueueInOrder, MergesInOrder, Waiting
  <2>3. CASE Save("queue", [state.queue EXCEPT ![k].status = "RECONCILIATION_REQUIRED"])
    <3> DEFINE e == [state.queue[k] EXCEPT !.status = "RECONCILIATION_REQUIRED"]
    <3>1. state'.queue = [state.queue EXCEPT ![k] = e]
      BY <2>3 DEF Save, Shape
    <3>2. /\ DOMAIN e = DOMAIN state.queue[k] /\ e.repository = state.queue[k].repository
          /\ e.status = "RECONCILIATION_REQUIRED" /\ e.integrated = Nothing
      BY <2>2
    <3> HIDE DEF e
    <3> QED BY <1>4, <2>1, <3>1, <3>2
  <2>4. CASE AtFront(k) /\ Save("queue", [state.queue EXCEPT ![k].status = "READY"])
    <3> DEFINE e == [state.queue[k] EXCEPT !.status = "READY"]
    <3>1. state'.queue = [state.queue EXCEPT ![k] = e]
      BY <2>4 DEF Save, Shape
    <3>2. /\ DOMAIN e = DOMAIN state.queue[k] /\ e.repository = state.queue[k].repository
          /\ e.status = "READY" /\ e.integrated = Nothing
      BY <2>2
    <3> HIDE DEF e
    <3> QED BY <1>4, <2>1, <2>4, <3>1, <3>2
  <2> QED BY <2>1, <2>3, <2>4
<1>6. ASSUME NEW id, NEW sha \in Sha, NEW a, MarkIntegrated(id, sha, a) PROVE QueueInOrder'
  <2>1. PICK k \in DOMAIN state.queue :
          /\ state.queue[k].status = "READY"
          /\ Save("queue", [state.queue EXCEPT ![k].status = "INTEGRATED", ![k].integrated = sha])
    BY <1>6 DEF MarkIntegrated
  <2> DEFINE e == [state.queue[k] EXCEPT !.status = "INTEGRATED", !.integrated = sha]
  <2>2. state'.queue = [state.queue EXCEPT ![k] = e]
    BY <2>1 DEF Save, Shape
  <2>3. /\ DOMAIN e = DOMAIN state.queue[k] /\ e.repository = state.queue[k].repository
        /\ e.status = "INTEGRATED" /\ e.integrated = sha /\ sha # Nothing
    BY NoHeadIsNothing DEF QueueInOrder
  <2> HIDE DEF e
  <2> QED BY <1>4, <2>1, <2>2, <2>3
<1>7. ASSUME NEW r, NEW sha, HeadMoves(r, sha) PROVE state' = state
  BY <1>7 DEF HeadMoves
<1> QED BY <1>1, <1>3, <1>5, <1>6, <1>7, Owners DEF Shape, QueueNext

-----------------------------------------------------------------------------
(***************************************************************************)
(* Access.  A link that was redeemed is not pending again: its nonce stays *)
(* issued.  The bucket of a client has all its requests that a window may  *)
(* still hold, so a client within its rate has few enough of them.         *)
(***************************************************************************)
LEMMA NatMin ==
  ASSUME NEW S, S \subseteq Nat, S # {}
  PROVE  \E n \in S : \A m \in S : n <= m
<1>1. PICK n \in S : \A m \in S : ~ (<<m, n>> \in OpToRel(<, Nat))
  BY WFMin, NatLessThanWellFounded
<1>2. \A m \in S : m < n => <<m, n>> \in OpToRel(<, Nat)
  BY DEF OpToRel
<1>3. \A m \in S : m \in Nat /\ n \in Nat /\ (m < n \/ n <= m)
  OBVIOUS
<1> QED BY <1>1, <1>2, <1>3

LEMMA RecentBucket ==
  ASSUME NEW b \in Seq(Nat), Now \in Nat
  PROVE  \E n \in 0..Len(b) :
           /\ Recent(b) = SubSeq(b, n + 1, Len(b))
           /\ \A i \in 1..n : b[i] <= Now - Window
<1> DEFINE P(n) == /\ \A i \in 1..n : b[i] <= Now - Window
                   /\ n < Len(b) => b[n + 1] > Now - Window
           S == {n \in 0..Len(b) : n < Len(b) => b[n + 1] > Now - Window}
<1>1. Len(b) \in Nat /\ Now - Window \in Int /\ \A i \in 1..Len(b) : b[i] \in Nat
  BY RateIsANumber
<1>2. S \subseteq Nat /\ Len(b) \in S
  BY <1>1
<1>3. PICK n \in S : \A m \in S : n <= m
  BY <1>2, NatMin
<1>4. \A i \in 1..n : b[i] <= Now - Window
  <2> SUFFICES ASSUME NEW i \in 1..n PROVE b[i] <= Now - Window
    OBVIOUS
  <2>1. i - 1 \notin S
    <3>1. n \in 0..Len(b) /\ i \in Int /\ ~ (n <= i - 1)
      BY <1>1, <1>3
    <3> HIDE DEF S
    <3> QED BY <1>3, <3>1
  <2>2. i - 1 \in 0..Len(b) /\ i - 1 < Len(b) /\ (i - 1) + 1 = i
    BY <1>1, <1>3
  <2>3. ~ (b[i] > Now - Window)
    BY <2>1, <2>2
  <2> QED BY <1>1, <2>2, <2>3
<1>5. \E k \in 0..Len(b) : P(k)
  BY <1>1, <1>3, <1>4
<1>6. P(CHOOSE k \in 0..Len(b) : P(k)) /\ (CHOOSE k \in 0..Len(b) : P(k)) \in 0..Len(b)
  BY <1>5
<1> QED BY <1>6 DEF Recent

Later(b, m) == {k \in DOMAIN b : b[k] > m}

LEMMA LaterFinite ==
  ASSUME NEW b \in Seq(Nat), NEW m \in Int
  PROVE  /\ IsFiniteSet(Later(b, m)) /\ Cardinality(Later(b, m)) \in Nat
         /\ Cardinality(Later(b, m)) <= Len(b)
<1>1. IsFiniteSet(1..Len(b)) /\ Cardinality(1..Len(b)) = Len(b)
  <2>1. Len(b) \in Nat
    OBVIOUS
  <2>2. /\ IsFiniteSet(1..Len(b))
        /\ Cardinality(1..Len(b)) = IF 1 > Len(b) THEN 0 ELSE Len(b) - 1 + 1
    BY <2>1, FS_Interval
  <2> QED BY <2>1, <2>2
<1>2. Later(b, m) \in SUBSET (1..Len(b))
  BY DEF Later
<1> QED BY <1>1, <1>2, FS_Subset, FS_CardinalityType

\* What is popped is not later than any time that a window which ends now begins with.
LEMMA RecentKeepsLater ==
  ASSUME NEW b \in Seq(Nat), Now \in Nat, NEW m \in Int, m >= Now - Window
  PROVE  /\ Recent(b) \in Seq(Nat)
         /\ Cardinality(Later(b, m)) <= Cardinality(Later(Recent(b), m))
<1>1. PICK n \in 0..Len(b) : /\ Recent(b) = SubSeq(b, n + 1, Len(b))
                            /\ \A i \in 1..n : b[i] <= Now - Window
  BY RecentBucket
<1> DEFINE r == Recent(b)
           f == [k \in Later(b, m) |-> k - n]
<1>2. /\ Len(b) \in Nat /\ n \in Nat /\ n <= Len(b) /\ DOMAIN b = 1..Len(b)
      /\ \A i \in 1..Len(b) : b[i] \in Nat
  BY <1>1
<1>3. /\ r \in Seq(Nat) /\ Len(r) = Len(b) - n
      /\ \A i \in 1..(Len(b) - n) : r[i] = b[n + i]
  <2>1. \A i \in (n + 1)..Len(b) : b[i] \in Nat
    BY <1>2
  <2>2. /\ SubSeq(b, n + 1, Len(b)) \in Seq(Nat)
        /\ Len(SubSeq(b, n + 1, Len(b))) =
             IF n + 1 <= Len(b) THEN Len(b) - (n + 1) + 1 ELSE 0
        /\ \A i \in 1..(Len(b) - (n + 1) + 1) : SubSeq(b, n + 1, Len(b))[i] = b[n + 1 + i - 1]
    BY <1>2, <2>1, SubSeqProperties
  <2>3. Len(b) - (n + 1) + 1 = Len(b) - n /\ (~(n + 1 <= Len(b)) => Len(b) - n = 0)
    <3>1. \A l, k \in Nat : k <= l =>
            l - (k + 1) + 1 = l - k /\ (~(k + 1 <= l) => l - k = 0)
      OBVIOUS
    <3> QED BY <1>2, <3>1
  <2>4. \A i \in 1..(Len(b) - n) : n + 1 + i - 1 = n + i
    BY <1>2
  <2> QED BY <1>1, <2>2, <2>3, <2>4
<1>4. \A k \in Later(b, m) : k \in (n + 1)..Len(b)
  <2> SUFFICES ASSUME NEW k \in Later(b, m) PROVE k \in (n + 1)..Len(b)
    OBVIOUS
  <2>1. k \in 1..Len(b) /\ b[k] > m /\ b[k] \in Nat
    BY <1>2 DEF Later
  <2>2. ~ (b[k] <= Now - Window)
    BY <2>1, RateIsANumber
  <2>3. k \notin 1..n
    BY <1>1, <2>2
  <2> QED BY <1>2, <2>1, <2>3
<1>5. f \in [Later(b, m) -> Later(r, m)]
  <2> SUFFICES ASSUME NEW k \in Later(b, m) PROVE k - n \in Later(r, m)
    OBVIOUS
  <2>1. k \in (n + 1)..Len(b) /\ b[k] > m
    BY <1>4 DEF Later
  <2>2. k - n \in 1..(Len(b) - n) /\ n + (k - n) = k
    BY <1>2, <2>1
  <2> HIDE DEF r
  <2>3. r[k - n] > m /\ DOMAIN r = 1..(Len(b) - n)
    <3>1. r[k - n] = b[k]
      BY <1>3, <2>2
    <3> QED BY <1>3, <2>1, <3>1
  <2> QED BY <2>2, <2>3 DEF Later
<1>6. \A k, l \in Later(b, m) : k - n = l - n => k = l
  BY <1>2, <1>4
<1>7. f \in Injection(Later(b, m), Later(r, m))
  BY <1>5, <1>6 DEF Injection, IsInjective
<1> HIDE DEF f, r
<1>8. IsFiniteSet(Later(r, m))
  BY <1>3, LaterFinite
<1>9. Cardinality(Later(b, m)) <= Cardinality(Later(r, m))
  BY <1>7, <1>8, FS_Injection
<1> QED BY <1>3, <1>9 DEF r

LEMMA LaterAppended ==
  ASSUME NEW b \in Seq(Nat), NEW e \in Nat, NEW m \in Int
  PROVE  /\ Cardinality(Later(b, m)) <= Cardinality(Later(Append(b, e), m))
         /\ e > m => Cardinality(Later(Append(b, e), m)) = Cardinality(Later(b, m)) + 1
<1> DEFINE n == Len(b) + 1
           c == Append(b, e)
<1>1. /\ Len(b) \in Nat /\ DOMAIN b = 1..Len(b) /\ c \in Seq(Nat) /\ DOMAIN c = 1..n
      /\ \A k \in 1..Len(b) : c[k] = b[k]
      /\ c[n] = e /\ n \notin 1..Len(b) /\ 1..n = 1..Len(b) \cup {n}
  OBVIOUS
<1> HIDE DEF n, c
<1>2. Later(b, m) \subseteq Later(c, m)
  BY <1>1 DEF Later
<1>3. e > m => Later(c, m) = Later(b, m) \cup {n}
  BY <1>1 DEF Later
<1>4. IsFiniteSet(Later(b, m)) /\ IsFiniteSet(Later(c, m)) /\ n \notin Later(b, m)
  BY <1>1, LaterFinite DEF Later
<1>5. Cardinality(Later(b, m)) <= Cardinality(Later(c, m))
  BY <1>2, <1>4, FS_Subset
<1>6. e > m => Cardinality(Later(c, m)) = Cardinality(Later(b, m)) + 1
  BY <1>3, <1>4, FS_AddElement
<1> QED BY <1>5, <1>6 DEF c

\* The requests of a client that passed after m, and those in the window that ends at t.
Passed(c, m) ==
  {i \in DOMAIN outside.access.accepted :
     outside.access.accepted[i].client = c /\ outside.access.accepted[i].at > m}
InWindow(c, t) ==
  {i \in DOMAIN outside.access.accepted :
     LET a == outside.access.accepted[i] IN a.client = c /\ a.at <= t /\ t - Window < a.at}

AccessShape ==
  /\ DOMAIN memory.access = {"pending", "sessions", "bucket"}
  /\ DOMAIN outside.access = {"now", "issued", "redeemed", "accepted"}
  /\ memory.access.bucket \in [Principal -> Seq(Nat)]
  /\ Now \in Nat
  /\ IsSeq(outside.access.accepted)
  /\ \A i \in DOMAIN outside.access.accepted :
       outside.access.accepted[i].at \in Nat /\ outside.access.accepted[i].at <= Now
  /\ IsSeq(outside.access.redeemed)

LinksAreSpent ==
  /\ DOMAIN memory.access.pending \subseteq outside.access.issued
  /\ \A i \in DOMAIN outside.access.redeemed :
       LET n == outside.access.redeemed[i].nonce IN
       n \in outside.access.issued /\ n \notin DOMAIN memory.access.pending
  /\ LinksOpenOnce

BucketsHaveAll ==
  \A c \in Principal : \A m \in Int :
    m >= Now - Window => Cardinality(Passed(c, m)) <= Cardinality(Later(memory.access.bucket[c], m))

AccessInv ==
  /\ AccessShape /\ LinksAreSpent /\ BucketsHaveAll
  /\ \A c \in Principal, t \in Nat : Cardinality(InWindow(c, t)) <= RateLimit

\* The steps of the access, by what they change.
AccessSame ==
  /\ memory'.access = memory.access /\ outside'.access = outside.access

IssueMoves ==
  /\ DOMAIN memory'.access = DOMAIN memory.access /\ DOMAIN outside'.access = DOMAIN outside.access
  /\ memory'.access.bucket = memory.access.bucket
  /\ outside'.access.now = Now /\ outside'.access.accepted = outside.access.accepted
  /\ outside'.access.redeemed = outside.access.redeemed
  /\ \E n : /\ n \notin outside.access.issued
            /\ outside'.access.issued = outside.access.issued \cup {n}
            /\ DOMAIN memory'.access.pending \subseteq DOMAIN memory.access.pending \cup {n}

RedeemMoves ==
  /\ DOMAIN memory'.access = DOMAIN memory.access /\ DOMAIN outside'.access = DOMAIN outside.access
  /\ memory'.access.bucket = memory.access.bucket
  /\ outside'.access.now = Now /\ outside'.access.accepted = outside.access.accepted
  /\ outside'.access.issued = outside.access.issued
  /\ DOMAIN memory'.access.pending \subseteq DOMAIN memory.access.pending
  /\ \/ outside'.access.redeemed = outside.access.redeemed
     \/ \E r : /\ outside'.access.redeemed = Append(outside.access.redeemed, r)
               /\ r.nonce \in DOMAIN memory.access.pending
               /\ r.nonce \notin DOMAIN memory'.access.pending

RequestMoves ==
  /\ DOMAIN memory'.access = DOMAIN memory.access /\ DOMAIN outside'.access = DOMAIN outside.access
  /\ outside'.access.now = Now /\ outside'.access.issued = outside.access.issued
  /\ outside'.access.redeemed = outside.access.redeemed
  /\ DOMAIN memory'.access.pending \subseteq DOMAIN memory.access.pending
  /\ \E c \in Principal :
       LET recent == Recent(memory.access.bucket[c]) IN
       \/ /\ WithinRate(recent)
          /\ memory'.access.bucket = [memory.access.bucket EXCEPT ![c] = Append(recent, Now)]
          /\ \E a : /\ outside'.access.accepted = Append(outside.access.accepted, a)
                    /\ a.client = c /\ a.at = Now
       \/ /\ memory'.access.bucket = [memory.access.bucket EXCEPT ![c] = recent]
          /\ outside'.access.accepted = outside.access.accepted

TickMoves ==
  /\ memory'.access = memory.access /\ DOMAIN outside'.access = DOMAIN outside.access
  /\ outside'.access.now = Now + 1 /\ outside'.access.issued = outside.access.issued
  /\ outside'.access.redeemed = outside.access.redeemed
  /\ outside'.access.accepted = outside.access.accepted

ForgetMoves ==
  /\ memory'.access = NoAccess /\ DOMAIN outside'.access = DOMAIN outside.access
  /\ outside'.access.now = Now /\ outside'.access.issued = outside.access.issued
  /\ outside'.access.redeemed = outside.access.redeemed
  /\ outside'.access.accepted = <<>>

LEMMA PurgedKeeps ==
  ASSUME AccessShape
  PROVE  LET p == Purged(memory.access) IN
         /\ DOMAIN p = {"pending", "sessions", "bucket"} /\ p.bucket = memory.access.bucket
         /\ DOMAIN p.pending \subseteq DOMAIN memory.access.pending
  BY DEF AccessShape, Purged, Alive

LEMMA AccessMoves ==
  ASSUME Shape, AccessShape, [Next]_vars
  PROVE  AccessSame \/ IssueMoves \/ RedeemMoves \/ RequestMoves \/ TickMoves \/ ForgetMoves
<1> DEFINE p == Purged(memory.access)
<1>1. /\ DOMAIN p = {"pending", "sessions", "bucket"} /\ p.bucket = memory.access.bucket
      /\ DOMAIN p.pending \subseteq DOMAIN memory.access.pending
      /\ DOMAIN outside.access = {"now", "issued", "redeemed", "accepted"}
      /\ Now = outside.access.now
  BY PurgedKeeps DEF AccessShape, Now
<1>2. ASSUME NEW access, NEW seen, Serve(access, seen)
      PROVE  memory'.access = access /\ outside'.access = seen
  BY <1>2 DEF Serve, Shape
<1>3. ASSUME NEW q, NEW n, IssueLaunch(q, n) PROVE IssueMoves
  <2> DEFINE access == [p EXCEPT !.pending = With(@, n, Lease(q, LaunchTtl))]
             seen == [outside.access EXCEPT !.issued = @ \cup {n}]
  <2>1. n \notin outside.access.issued /\ Serve(access, seen)
    BY <1>3 DEF IssueLaunch
  <2>2. /\ DOMAIN access = DOMAIN p /\ access.bucket = p.bucket
        /\ DOMAIN access.pending = DOMAIN p.pending \cup {n}
    BY <1>1 DEF With
  <2>3. /\ DOMAIN seen = DOMAIN outside.access /\ seen.issued = outside.access.issued \cup {n}
        /\ seen.now = outside.access.now /\ seen.accepted = outside.access.accepted
        /\ seen.redeemed = outside.access.redeemed
    BY <1>1
  <2>4. memory'.access = access /\ outside'.access = seen
    BY <1>2, <2>1
  <2> HIDE DEF access, seen, p
  <2> QED BY <1>1, <2>1, <2>2, <2>3, <2>4 DEF IssueMoves, AccessShape
<1>4. ASSUME NEW n, NEW l, RedeemLaunch(n, l) PROVE RedeemMoves
  <2>1. CASE n \notin DOMAIN p.pending
    <3>1. memory'.access = p /\ outside'.access = outside.access
      BY <1>2, <1>4, <2>1 DEF RedeemLaunch
    <3> HIDE DEF p
    <3> QED BY <1>1, <3>1 DEF RedeemMoves, AccessShape
  <2>2. CASE n \in DOMAIN p.pending
    <3> DEFINE who == p.pending[n].principal
               access == [p EXCEPT !.pending = Without(@, n),
                                   !.sessions = With(@, n, Lease(who, SessionTtl))]
               r == [nonce |-> n, principal |-> who, at |-> Now]
               seen == [outside.access EXCEPT !.redeemed = Append(@, r)]
    <3>1. memory'.access = access /\ outside'.access = seen
      <4>1. Serve(access, seen)
        BY <1>4, <2>2 DEF RedeemLaunch
      <4> QED BY <1>2, <4>1
    <3>2. /\ DOMAIN access = DOMAIN p /\ access.bucket = p.bucket
          /\ DOMAIN access.pending = DOMAIN p.pending \ {n}
      BY <1>1 DEF Without
    <3>3. /\ DOMAIN seen = DOMAIN outside.access
          /\ seen.redeemed = Append(outside.access.redeemed, r)
          /\ seen.now = outside.access.now /\ seen.accepted = outside.access.accepted
          /\ seen.issued = outside.access.issued
      BY <1>1
    <3>4. r.nonce = n
      OBVIOUS
    <3> HIDE DEF p, access, seen, r
    <3> QED BY <1>1, <2>2, <3>1, <3>2, <3>3, <3>4 DEF RedeemMoves, AccessShape
  <2> QED BY <2>1, <2>2
<1>5. ASSUME NEW k, NEW q, NEW s, Authenticate(k, q, s) PROVE RequestMoves
  <2> DEFINE c == IF k \in DOMAIN p.sessions THEN p.sessions[k].principal ELSE q
             recent == Recent(p.bucket[c])
             a == [client |-> c, at |-> Now, scope |-> s,
                   session |-> IF k \in DOMAIN p.sessions THEN k ELSE Nothing]
             more == [p EXCEPT !.bucket[c] = Append(recent, Now)]
             less == [p EXCEPT !.bucket[c] = recent]
             seen == [outside.access EXCEPT !.accepted = Append(@, a)]
  <2>1. /\ c \in Principal
        /\ \/ WithinRate(recent) /\ Serve(more, seen)
           \/ Serve(less, outside.access)
    BY <1>5 DEF Authenticate
  <2>2. /\ DOMAIN more = DOMAIN p /\ DOMAIN less = DOMAIN p
        /\ more.pending = p.pending /\ less.pending = p.pending
        /\ more.bucket = [p.bucket EXCEPT ![c] = Append(recent, Now)]
        /\ less.bucket = [p.bucket EXCEPT ![c] = recent]
    <3> HIDE DEF p, c, recent
    <3> QED BY <1>1
  <2>3. /\ DOMAIN seen = DOMAIN outside.access
        /\ seen.accepted = Append(outside.access.accepted, a)
        /\ seen.redeemed = outside.access.redeemed
        /\ seen.now = outside.access.now /\ seen.issued = outside.access.issued
    <3> HIDE DEF a
    <3> QED BY <1>1
  <2>4. a.client = c /\ a.at = Now
    <3> HIDE DEF c
    <3> QED OBVIOUS
  <2>5. \/ WithinRate(recent) /\ memory'.access = more /\ outside'.access = seen
        \/ memory'.access = less /\ outside'.access = outside.access
    <3> HIDE DEF p, c, recent, a, more, less, seen
    <3> QED BY <1>2, <2>1
  <2>6. recent = Recent(memory.access.bucket[c])
    <3> HIDE DEF c, p
    <3> QED BY <1>1
  <2> HIDE DEF p, c, recent, a, more, less, seen
  <2>7. CASE WithinRate(recent) /\ memory'.access = more /\ outside'.access = seen
    BY <1>1, <2>1, <2>2, <2>3, <2>4, <2>6, <2>7 DEF RequestMoves, AccessShape
  <2>8. CASE memory'.access = less /\ outside'.access = outside.access
    BY <1>1, <2>1, <2>2, <2>6, <2>8 DEF RequestMoves, AccessShape
  <2> QED BY <2>5, <2>7, <2>8
<1>6. Tick => TickMoves
  BY <1>1, <1>2 DEF Tick, TickMoves
<1>7. ForgetAccess => ForgetMoves
  BY <1>1, <1>2 DEF ForgetAccess, ForgetMoves
<1>8. AccessNext \/ AccessSame
  <2>1. memory'["access"] # memory["access"] => AccessNext
    BY OwnersOfMemory DEF Shape
  <2>2. outside'["access"] # outside["access"] => AccessNext
    BY OwnersOfOutside DEF Shape
  <2> QED BY <2>1, <2>2 DEF AccessSame
<1> QED BY <1>3, <1>4, <1>5, <1>6, <1>7, <1>8 DEF AccessNext

LEMMA StepAccessShape ==
  ASSUME AccessShape,
         AccessSame \/ IssueMoves \/ RedeemMoves \/ RequestMoves \/ TickMoves \/ ForgetMoves
  PROVE  AccessShape'
<1> USE DEF AccessShape, Now
<1>1. CASE AccessSame
  BY <1>1 DEF AccessSame
<1>2. CASE IssueMoves
  BY <1>2 DEF IssueMoves
<1>3. CASE RedeemMoves
  <2>1. \A s, e : IsSeq(s) => IsSeq(Append(s, e))
    BY AppendIsSeq
  <2>2. IsSeq(outside'.access.redeemed)
    <3>1. IsSeq(outside.access.redeemed)
      OBVIOUS
    <3> HIDE DEF AccessShape
    <3>2. \/ outside'.access.redeemed = outside.access.redeemed
          \/ \E r : outside'.access.redeemed = Append(outside.access.redeemed, r)
      BY <1>3 DEF RedeemMoves
    <3>3. CASE outside'.access.redeemed = outside.access.redeemed
      BY <3>1, <3>3
    <3>4. CASE \E r : outside'.access.redeemed = Append(outside.access.redeemed, r)
      <4> DEFINE h == outside.access.redeemed
      <4>1. PICK r : outside'.access.redeemed = Append(h, r)
        BY <3>4
      <4>2. IsSeq(Append(h, r))
        BY <2>1, <3>1
      <4> QED BY <4>1, <4>2
    <3> QED BY <3>2, <3>3, <3>4
  <2>3. /\ DOMAIN memory'.access = DOMAIN memory.access /\ DOMAIN outside'.access = DOMAIN outside.access
        /\ memory'.access.bucket = memory.access.bucket
        /\ outside'.access.now = outside.access.now /\ outside'.access.accepted = outside.access.accepted
    BY <1>3 DEF RedeemMoves
  <2> QED BY <2>2, <2>3
<1>4. CASE RequestMoves
  <2>1. PICK c \in Principal :
          LET recent == Recent(memory.access.bucket[c]) IN
          \/ /\ memory'.access.bucket = [memory.access.bucket EXCEPT ![c] = Append(recent, Now)]
             /\ \E a : /\ outside'.access.accepted = Append(outside.access.accepted, a)
                       /\ a.client = c /\ a.at = Now
          \/ /\ memory'.access.bucket = [memory.access.bucket EXCEPT ![c] = recent]
             /\ outside'.access.accepted = outside.access.accepted
    BY <1>4 DEF RequestMoves
  <2>2. Recent(memory.access.bucket[c]) \in Seq(Nat)
    <3>1. memory.access.bucket[c] \in Seq(Nat) /\ Now \in Nat /\ Now - Window \in Int
      BY RateIsANumber
    <3> QED BY <3>1, RecentKeepsLater
  <2>3. memory'.access.bucket \in [Principal -> Seq(Nat)]
    <3> DEFINE r == Recent(memory.access.bucket[c])
    <3>1. r \in Seq(Nat) /\ Append(r, Now) \in Seq(Nat)
      BY <2>2
    <3>2. \/ memory'.access.bucket = [memory.access.bucket EXCEPT ![c] = Append(r, Now)]
          \/ memory'.access.bucket = [memory.access.bucket EXCEPT ![c] = r]
      BY <2>1
    <3> HIDE DEF r
    <3> QED BY <3>1, <3>2
  <2>4. /\ IsSeq(outside'.access.accepted)
        /\ \A i \in DOMAIN outside'.access.accepted :
             outside'.access.accepted[i].at \in Nat /\ outside'.access.accepted[i].at <= Now
    <3>1. CASE outside'.access.accepted = outside.access.accepted
      BY <3>1
    <3>2. ASSUME NEW a, outside'.access.accepted = Append(outside.access.accepted, a), a.at = Now
          PROVE  /\ IsSeq(outside'.access.accepted)
                 /\ \A i \in DOMAIN outside'.access.accepted :
                      outside'.access.accepted[i].at \in Nat /\ outside'.access.accepted[i].at <= Now
      <4> DEFINE n == Len(outside.access.accepted)
      <4>1. /\ IsSeq(outside'.access.accepted) /\ n \in Nat /\ DOMAIN outside.access.accepted = 1..n
            /\ DOMAIN outside'.access.accepted = 1..(n + 1)
            /\ \A i \in 1..n : outside'.access.accepted[i] = outside.access.accepted[i]
            /\ outside'.access.accepted[n + 1] = a
        BY <3>2, AppendIsSeq
      <4>2. \A i \in 1..(n + 1) : i = n + 1 \/ i \in 1..n
        BY <4>1
      <4> HIDE DEF n
      <4> QED BY <3>2, <4>1, <4>2
    <3> QED BY <2>1, <3>1, <3>2
  <2> QED BY <1>4, <2>3, <2>4 DEF RequestMoves
<1>5. CASE TickMoves
  BY <1>5 DEF TickMoves
<1>6. CASE ForgetMoves
  BY <1>6, EmptyIsSeq DEF ForgetMoves, NoAccess
<1> QED BY <1>1, <1>2, <1>3, <1>4, <1>5, <1>6

LEMMA StepLinks ==
  ASSUME AccessShape, LinksAreSpent,
         AccessSame \/ IssueMoves \/ RedeemMoves \/ RequestMoves \/ TickMoves \/ ForgetMoves
  PROVE  LinksAreSpent'
<1> USE DEF LinksAreSpent, LinksOpenOnce
<1>1. CASE AccessSame
  BY <1>1 DEF AccessSame
<1>2. CASE IssueMoves
  BY <1>2 DEF IssueMoves
<1>3. CASE RedeemMoves
  <2>1. CASE outside'.access.redeemed = outside.access.redeemed
    BY <1>3, <2>1 DEF RedeemMoves
  <2>2. CASE outside'.access.redeemed # outside.access.redeemed
    <3>1. PICK r : /\ outside'.access.redeemed = Append(outside.access.redeemed, r)
                   /\ r.nonce \in DOMAIN memory.access.pending
                   /\ r.nonce \notin DOMAIN memory'.access.pending
      BY <1>3, <2>2 DEF RedeemMoves
    <3> DEFINE n == Len(outside.access.redeemed)
    <3>2. /\ n \in Nat /\ DOMAIN outside.access.redeemed = 1..n
          /\ DOMAIN outside'.access.redeemed = 1..(n + 1)
          /\ \A i \in 1..n : outside'.access.redeemed[i] = outside.access.redeemed[i]
          /\ outside'.access.redeemed[n + 1] = r
          /\ \A i \in 1..(n + 1) : i = n + 1 \/ i \in 1..n
      BY <3>1, AppendIsSeq DEF AccessShape
    <3> HIDE DEF n
    <3> QED BY <1>3, <3>1, <3>2 DEF RedeemMoves
  <2> QED BY <2>1, <2>2
<1>4. CASE RequestMoves
  BY <1>4 DEF RequestMoves
<1>5. CASE TickMoves
  BY <1>5 DEF TickMoves
<1>6. CASE ForgetMoves
  BY <1>6 DEF ForgetMoves, NoAccess
<1> QED BY <1>1, <1>2, <1>3, <1>4, <1>5, <1>6

LEMMA AcceptedFinite ==
  ASSUME AccessShape, NEW T \in SUBSET (DOMAIN outside.access.accepted)
  PROVE  IsFiniteSet(T) /\ Cardinality(T) \in Nat
<1>1. /\ Len(outside.access.accepted) \in Nat
      /\ DOMAIN outside.access.accepted = 1..Len(outside.access.accepted)
  BY AppendIsSeq DEF AccessShape
<1>2. IsFiniteSet(DOMAIN outside.access.accepted)
  BY <1>1, FS_Interval
<1> QED BY <1>2, FS_Subset, FS_CardinalityType

\* A request that passes: its bucket grew by it, and popped nothing that counts.
LEMMA PassedGrows ==
  ASSUME AccessShape, NEW a, outside'.access.accepted = Append(outside.access.accepted, a),
         a.at = Now, NEW m \in Int, NEW c
  PROVE  /\ a.client # c \/ Now <= m => Passed(c, m)' = Passed(c, m)
         /\ a.client = c /\ Now > m =>
              Cardinality(Passed(c, m)') = Cardinality(Passed(c, m)) + 1
<1> DEFINE n == Len(outside.access.accepted)
<1>1. /\ n \in Nat /\ DOMAIN outside.access.accepted = 1..n
      /\ DOMAIN outside'.access.accepted = 1..n \cup {n + 1} /\ n + 1 \notin 1..n
      /\ \A i \in 1..n : outside'.access.accepted[i] = outside.access.accepted[i]
      /\ outside'.access.accepted[n + 1] = a
  BY AppendIsSeq DEF AccessShape
<1> HIDE DEF n
<1>2. a.client # c \/ Now <= m => Passed(c, m)' = Passed(c, m)
  BY <1>1 DEF Passed, AccessShape
<1>3. ASSUME a.client = c, Now > m
      PROVE  Passed(c, m)' = Passed(c, m) \cup {n + 1} /\ n + 1 \notin Passed(c, m)
  BY <1>1, <1>3 DEF Passed
<1>4. IsFiniteSet(Passed(c, m))
  BY AcceptedFinite DEF Passed
<1> QED BY <1>2, <1>3, <1>4, FS_AddElement

LEMMA StepBuckets ==
  ASSUME AccessShape, BucketsHaveAll,
         AccessSame \/ IssueMoves \/ RedeemMoves \/ RequestMoves \/ TickMoves \/ ForgetMoves
  PROVE  BucketsHaveAll'
<1> USE DEF BucketsHaveAll
<1>1. CASE \/ AccessSame \/ IssueMoves \/ RedeemMoves
  BY <1>1 DEF AccessSame, IssueMoves, RedeemMoves, Passed, Now
<1>2. CASE RequestMoves
  <2>1. Now \in Nat /\ Now' = Now /\ Now - Window \in Int
    BY <1>2, RateIsANumber DEF RequestMoves, AccessShape, Now
  <2>2. ASSUME NEW c \in Principal, NEW m \in Int, m >= Now - Window
        PROVE  Cardinality(Passed(c, m)') <= Cardinality(Later(memory'.access.bucket[c], m))
    <3>3. PICK d \in Principal :
            LET recent == Recent(memory.access.bucket[d]) IN
            \/ /\ memory'.access.bucket = [memory.access.bucket EXCEPT ![d] = Append(recent, Now)]
               /\ \E a : /\ outside'.access.accepted = Append(outside.access.accepted, a)
                         /\ a.client = d /\ a.at = Now
            \/ /\ memory'.access.bucket = [memory.access.bucket EXCEPT ![d] = recent]
               /\ outside'.access.accepted = outside.access.accepted
      BY <1>2 DEF RequestMoves
    <3> DEFINE b == memory.access.bucket[c]
               r == Recent(b)
    <3>4. /\ b \in Seq(Nat) /\ r \in Seq(Nat)
          /\ Cardinality(Later(b, m)) <= Cardinality(Later(r, m))
          /\ Cardinality(Passed(c, m)) <= Cardinality(Later(b, m))
      BY <2>1, <2>2, RecentKeepsLater DEF AccessShape
    <3>5. /\ Cardinality(Later(b, m)) \in Nat /\ Cardinality(Later(r, m)) \in Nat
          /\ Cardinality(Passed(c, m)) \in Nat
      BY <3>4, LaterFinite, AcceptedFinite DEF Passed
    <3>6. CASE /\ memory'.access.bucket = [memory.access.bucket EXCEPT ![d] = Append(Recent(memory.access.bucket[d]), Now)]
               /\ \E a : /\ outside'.access.accepted = Append(outside.access.accepted, a)
                         /\ a.client = d /\ a.at = Now
      <4>1. PICK a : /\ outside'.access.accepted = Append(outside.access.accepted, a)
                     /\ a.client = d /\ a.at = Now
        BY <3>6
      <4>2. /\ d # c \/ Now <= m => Passed(c, m)' = Passed(c, m)
            /\ d = c /\ Now > m => Cardinality(Passed(c, m)') = Cardinality(Passed(c, m)) + 1
        BY <4>1, PassedGrows
      <4>3. d # c => memory'.access.bucket[c] = b
        BY <3>6 DEF AccessShape
      <4>4. d = c => memory'.access.bucket[c] = Append(r, Now)
        BY <3>6 DEF AccessShape
      <4>5. /\ Cardinality(Later(r, m)) <= Cardinality(Later(Append(r, Now), m))
            /\ Now > m => Cardinality(Later(Append(r, Now), m)) = Cardinality(Later(r, m)) + 1
            /\ Cardinality(Later(Append(r, Now), m)) \in Nat
        <5>1. Append(r, Now) \in Seq(Nat)
          BY <2>1, <3>4
        <5> QED BY <2>1, <3>4, <5>1, LaterAppended, LaterFinite
      <4> HIDE DEF b, r, BucketsHaveAll
      <4>6. Cardinality(Passed(c, m)) <= Cardinality(Later(Append(r, Now), m))
        BY <3>4, <3>5, <4>5
      <4>7. CASE d # c
        BY <3>4, <4>2, <4>3, <4>7
      <4>8. CASE d = c /\ Now <= m
        <5>1. Cardinality(Passed(c, m)') = Cardinality(Passed(c, m))
          BY <4>2, <4>8
        <5> QED BY <4>4, <4>8, <4>6, <5>1
      <4>9. CASE d = c /\ Now > m
        <5>1. Cardinality(Passed(c, m)') = Cardinality(Passed(c, m)) + 1
          BY <4>2, <4>9
        <5>2. Cardinality(Later(Append(r, Now), m)) = Cardinality(Later(r, m)) + 1
          BY <4>5, <4>9
        <5>3. Cardinality(Passed(c, m)) + 1 <= Cardinality(Later(r, m)) + 1
          BY <3>4, <3>5
        <5> QED BY <4>4, <4>9, <5>1, <5>2, <5>3
      <4> QED BY <2>1, <4>7, <4>8, <4>9
    <3>7. CASE /\ memory'.access.bucket = [memory.access.bucket EXCEPT ![d] = Recent(memory.access.bucket[d])]
               /\ outside'.access.accepted = outside.access.accepted
      <4>1. Passed(c, m)' = Passed(c, m)
        BY <3>7 DEF Passed
      <4>2. memory'.access.bucket[c] = b \/ memory'.access.bucket[c] = r
        BY <3>7 DEF AccessShape
      <4> HIDE DEF b, r, BucketsHaveAll
      <4>3. Cardinality(Passed(c, m)') <= Cardinality(Later(b, m))
        BY <3>4, <4>1
      <4>4. CASE memory'.access.bucket[c] = b
        BY <4>3, <4>4
      <4>5. CASE memory'.access.bucket[c] = r
        <5>1. Cardinality(Passed(c, m)) <= Cardinality(Later(r, m))
          BY <3>4, <3>5
        <5> QED BY <4>1, <4>5, <5>1
      <4> QED BY <4>2, <4>4, <4>5
    <3> HIDE DEF b, r, BucketsHaveAll
    <3> QED BY <3>3, <3>6, <3>7
  <2>3. \A c \in Principal : \A m \in Int :
          m >= Now' - Window => Cardinality(Passed(c, m)') <= Cardinality(Later(memory'.access.bucket[c], m))
    BY <2>1, <2>2
  <2> QED BY <2>3
<1>3. CASE TickMoves
  <2>1. /\ \A c, m : Passed(c, m)' = Passed(c, m)
        /\ memory'.access.bucket = memory.access.bucket
    BY <1>3 DEF TickMoves, Passed
  <2>2. Now \in Nat /\ Now' = Now + 1 /\ Window \in Nat
    BY <1>3, RateIsANumber DEF TickMoves, AccessShape, Now
  <2>3. \A m \in Int : m >= Now' - Window => m >= Now - Window
    BY <2>2
  <2> QED BY <2>1, <2>3
<1>4. CASE ForgetMoves
  <2>1. Now' = Now /\ Now - Window \in Int
    BY <1>4, RateIsANumber DEF ForgetMoves, AccessShape, Now
  <2>2. \A c, m : Passed(c, m)' = {}
    BY <1>4, EmptyIsSeq DEF ForgetMoves, Passed
  <2>3. \A c \in Principal : \A m \in Int : Cardinality(Later(memory'.access.bucket[c], m)) \in Nat
    <3>1. AccessShape'
      BY <1>4, StepAccessShape
    <3> QED BY <3>1, LaterFinite DEF AccessShape
  <2>4. Cardinality({}) = 0
    BY FS_EmptySet
  <2>5. \A c \in Principal : \A m \in Int :
          Cardinality(Passed(c, m)') <= Cardinality(Later(memory'.access.bucket[c], m))
    BY <2>2, <2>3, <2>4
  <2> QED BY <2>5
<1> QED BY <1>1, <1>2, <1>3, <1>4

LEMMA StepRate ==
  ASSUME AccessInv, AccessShape',
         AccessSame \/ IssueMoves \/ RedeemMoves \/ RequestMoves \/ TickMoves \/ ForgetMoves
  PROVE  \A c \in Principal, t \in Nat : Cardinality(InWindow(c, t)') <= RateLimit
<1> USE DEF AccessInv
<1>1. CASE AccessSame \/ IssueMoves \/ RedeemMoves \/ TickMoves
  <2>1. \A c, t : InWindow(c, t)' = InWindow(c, t)
    BY <1>1 DEF AccessSame, IssueMoves, RedeemMoves, TickMoves, InWindow
  <2> QED BY <2>1
<1>2. CASE ForgetMoves
  <2>1. \A c, t : InWindow(c, t)' = {}
    BY <1>2, EmptyIsSeq DEF ForgetMoves, InWindow
  <2> QED BY <2>1, FS_EmptySet, RateIsANumber
<1>3. CASE RequestMoves
  <2> SUFFICES ASSUME NEW c \in Principal, NEW t \in Nat
               PROVE  Cardinality(InWindow(c, t)') <= RateLimit
    OBVIOUS
  <2>1. CASE outside'.access.accepted = outside.access.accepted
    <3>1. InWindow(c, t)' = InWindow(c, t)
      BY <2>1 DEF InWindow
    <3> QED BY <3>1
  <2>2. CASE outside'.access.accepted # outside.access.accepted
    <3>1. PICK d \in Principal :
            /\ WithinRate(Recent(memory.access.bucket[d]))
            /\ \E a : /\ outside'.access.accepted = Append(outside.access.accepted, a)
                      /\ a.client = d /\ a.at = Now
      BY <1>3, <2>2 DEF RequestMoves
    <3>2. PICK a : /\ outside'.access.accepted = Append(outside.access.accepted, a)
                   /\ a.client = d /\ a.at = Now
      BY <3>1
    <3> DEFINE n == Len(outside.access.accepted)
    <3>3. /\ n \in Nat /\ DOMAIN outside.access.accepted = 1..n
          /\ DOMAIN outside'.access.accepted = 1..n \cup {n + 1} /\ n + 1 \notin 1..n
          /\ \A i \in 1..n : outside'.access.accepted[i] = outside.access.accepted[i]
          /\ outside'.access.accepted[n + 1] = a
      BY <3>2, AppendIsSeq DEF AccessShape
    <3> HIDE DEF n
    <3>4. CASE d # c \/ t < Now
      <4>1. ~ (a.client = c /\ a.at <= t)
        BY <3>2, <3>4 DEF AccessShape
      <4>2. InWindow(c, t)' = InWindow(c, t)
        BY <3>3, <4>1 DEF InWindow
      <4> QED BY <4>2
    <3>5. CASE d = c /\ Now <= t
      <4> DEFINE m == t - Window
                 b == memory.access.bucket[c]
      <4>1. m \in Int /\ m >= Now - Window /\ Now \in Nat
        BY <3>5, RateIsANumber DEF AccessShape
      <4>2. /\ b \in Seq(Nat) /\ Recent(b) \in Seq(Nat)
            /\ Cardinality(Passed(c, m)) <= Cardinality(Later(b, m))
            /\ Cardinality(Later(b, m)) <= Cardinality(Later(Recent(b), m))
        BY <4>1, RecentKeepsLater DEF AccessShape, BucketsHaveAll
      <4>3. Cardinality(Later(Recent(b), m)) <= Len(Recent(b)) /\ Len(Recent(b)) < RateLimit
        BY <3>1, <3>5, <4>1, <4>2, LaterFinite DEF WithinRate
      <4>4. /\ Cardinality(Later(b, m)) \in Nat /\ Cardinality(Later(Recent(b), m)) \in Nat
            /\ IsFiniteSet(Passed(c, m)) /\ Cardinality(Passed(c, m)) \in Nat
            /\ Len(Recent(b)) \in Nat
        <5>1. Passed(c, m) \subseteq DOMAIN outside.access.accepted
          BY DEF Passed
        <5>2. IsFiniteSet(Passed(c, m)) /\ Cardinality(Passed(c, m)) \in Nat
          <6> HIDE DEF m
          <6> QED BY <5>1, AcceptedFinite
        <5> HIDE DEF m, b
        <5>3. /\ Cardinality(Later(b, m)) \in Nat /\ Cardinality(Later(Recent(b), m)) \in Nat
              /\ Len(Recent(b)) \in Nat
          BY <4>1, <4>2, LaterFinite
        <5> QED BY <5>2, <5>3
      <4>5. InWindow(c, t)' \subseteq Passed(c, m) \cup {n + 1}
        <5> SUFFICES ASSUME NEW i \in InWindow(c, t)', i # n + 1
                     PROVE  i \in Passed(c, m)
          OBVIOUS
        <5>1. /\ i \in DOMAIN outside'.access.accepted /\ outside'.access.accepted[i].client = c
              /\ m < outside'.access.accepted[i].at
          BY DEF InWindow
        <5> HIDE DEF m
        <5>2. i \in 1..n /\ outside'.access.accepted[i] = outside.access.accepted[i]
          BY <3>3, <5>1
        <5>3. outside.access.accepted[i].at \in Nat
          BY <3>3, <5>2 DEF AccessShape
        <5>4. outside.access.accepted[i].at > m
          BY <4>1, <5>1, <5>2, <5>3
        <5> QED BY <3>3, <5>1, <5>2, <5>4 DEF Passed
      <4> HIDE DEF m, b
      <4>6. /\ IsFiniteSet(Passed(c, m) \cup {n + 1})
            /\ Cardinality(Passed(c, m) \cup {n + 1}) \in Nat
            /\ Cardinality(Passed(c, m) \cup {n + 1}) <= Cardinality(Passed(c, m)) + 1
        <5>1. /\ IsFiniteSet(Passed(c, m) \cup {n + 1})
              /\ Cardinality(Passed(c, m) \cup {n + 1}) =
                   IF n + 1 \in Passed(c, m) THEN Cardinality(Passed(c, m)) ELSE Cardinality(Passed(c, m)) + 1
          BY <4>4, FS_AddElement
        <5> QED BY <4>4, <5>1
      <4>7. /\ Cardinality(InWindow(c, t)') <= Cardinality(Passed(c, m) \cup {n + 1})
            /\ Cardinality(InWindow(c, t)') \in Nat
        BY <4>5, <4>6, FS_Subset, FS_CardinalityType
      <4> QED BY <4>2, <4>3, <4>4, <4>6, <4>7, RateIsANumber
    <3>6. Now \in Nat
      BY DEF AccessShape
    <3> QED BY <3>4, <3>5, <3>6
  <2> QED BY <2>1, <2>2
<1> QED BY <1>1, <1>2, <1>3

LEMMA InitAccess == Init => AccessInv
<1> SUFFICES ASSUME Init PROVE AccessInv
  OBVIOUS
<1>1. memory.access = NoAccess /\ outside.access = NothingSeen
  BY DEF Init
<1>2. AccessShape
  BY <1>1, EmptyIsSeq DEF AccessShape, NoAccess, NothingSeen, Now
<1>3. LinksAreSpent
  BY <1>1, EmptyIsSeq DEF LinksAreSpent, LinksOpenOnce, NoAccess, NothingSeen
<1>4. \A c, m : Passed(c, m) = {} /\ InWindow(c, m) = {}
  BY <1>1, EmptyIsSeq DEF Passed, InWindow, NothingSeen
<1>5. BucketsHaveAll
  <2>1. \A c \in Principal : \A m \in Int : Cardinality(Later(memory.access.bucket[c], m)) \in Nat
    BY <1>2, LaterFinite DEF AccessShape
  <2>2. Cardinality({}) = 0
    BY FS_EmptySet
  <2>3. \A c \in Principal : \A m \in Int :
          Cardinality(Passed(c, m)) <= Cardinality(Later(memory.access.bucket[c], m))
    BY <1>4, <2>1, <2>2
  <2> QED BY <2>3 DEF BucketsHaveAll
<1> QED BY <1>2, <1>3, <1>4, <1>5, FS_EmptySet, RateIsANumber DEF AccessInv

LEMMA StepAccess ==
  ASSUME Shape, AccessInv, [Next]_vars
  PROVE  AccessInv'
<1>1. AccessSame \/ IssueMoves \/ RedeemMoves \/ RequestMoves \/ TickMoves \/ ForgetMoves
  BY AccessMoves DEF AccessInv
<1>2. AccessShape' /\ LinksAreSpent' /\ BucketsHaveAll'
  BY <1>1, StepAccessShape, StepLinks, StepBuckets DEF AccessInv
<1>3. \A c \in Principal, t \in Nat : Cardinality(InWindow(c, t)') <= RateLimit
  BY <1>1, <1>2, StepRate
<1> QED BY <1>2, <1>3 DEF AccessInv

LEMMA AccessIsBounded == AccessInv => LinksOpenOnce /\ RateIsBounded
<1> SUFFICES ASSUME AccessInv, NEW c \in Principal, NEW t \in 0..MaxTime
             PROVE  Cardinality(InWindow(c, t)) <= RateLimit
  BY DEF AccessInv, LinksAreSpent, RateIsBounded, InWindow
<1>1. t \in Nat
  OBVIOUS
<1> QED BY <1>1 DEF AccessInv

-----------------------------------------------------------------------------
(***************************************************************************)
(* Histories.  What each import may add to the history of its section.     *)
(***************************************************************************)
LEMMA ImportAdds ==
  ASSUME Shape, NEW x \in DOMAIN state, NEW revision, NEW records, ImportSnapshot(x, revision, records)
  PROVE  /\ state'[x] = Append(state[x], [revision |-> revision, records |-> records])
         /\ ~Known(state[x], [revision |-> revision, records |-> records])
  BY DEF ImportSnapshot, Save, Known

LEMMA DecisionsGrow ==
  ASSUME Shape, [Next]_vars, state'.decisions # state.decisions
  PROVE  \E r, s : /\ s \subseteq DecisionPool /\ ValidDecisionRegistry(s)
                   /\ ~Known(state.decisions, [revision |-> r, records |-> s])
                   /\ state'.decisions = Append(state.decisions, [revision |-> r, records |-> s])
<1>1. PICK r, s : s \subseteq DecisionPool /\ ImportDecisions(r, s)
  BY Owners DEF Shape, DecisionsNext
<1> QED BY <1>1, ImportAdds DEF ImportDecisions, Shape

LEMMA LifecycleGrows ==
  ASSUME Shape, [Next]_vars, state'.lifecycle # state.lifecycle
  PROVE  \E r, s : /\ s \subseteq StagePool /\ ValidLifecycleRegistry(s)
                   /\ ~Known(state.lifecycle, [revision |-> r, records |-> s])
                   /\ state'.lifecycle = Append(state.lifecycle, [revision |-> r, records |-> s])
<1>1. LifecycleNext
  BY Owners DEF Shape
<1>2. ASSUME NEW k PROVE ~ RequireApproved(k)
  BY DEF RequireApproved
<1>3. PICK r, s : s \subseteq StagePool /\ ImportLifecycle(r, s)
  BY <1>1, <1>2 DEF LifecycleNext
<1> QED BY <1>3, ImportAdds DEF ImportLifecycle, Shape

LEMMA KnowledgeGrows ==
  ASSUME Shape, [Next]_vars, state'.knowledge # state.knowledge
  PROVE  \E r, s : /\ s \subseteq ClaimPool /\ ValidKnowledgeRegistry(s)
                   /\ \E d \in {{}, Records(state.decisions)} : \A c \in s : PromotionDecided(c, d)
                   /\ ~Known(state.knowledge, [revision |-> r, records |-> s])
                   /\ state'.knowledge = Append(state.knowledge, [revision |-> r, records |-> s])
<1>1. \E r, s : \E d \in {{}, Records(state.decisions)} :
        s \subseteq ClaimPool /\ ImportKnowledge(r, s, d)
  BY Owners DEF Shape, KnowledgeNext
<1>2. PICK r, s : \E d \in {{}, Records(state.decisions)} : s \subseteq ClaimPool /\ ImportKnowledge(r, s, d)
  BY <1>1
<1>3. PICK d \in {{}, Records(state.decisions)} : s \subseteq ClaimPool /\ ImportKnowledge(r, s, d)
  BY <1>2
<1>4. /\ ValidKnowledgeRegistry(s) /\ \A c \in s : PromotionDecided(c, d)
      /\ ImportSnapshot("knowledge", r, s)
  BY <1>3 DEF ImportKnowledge
<1>5. /\ state'.knowledge = Append(state.knowledge, [revision |-> r, records |-> s])
      /\ ~Known(state.knowledge, [revision |-> r, records |-> s])
  BY <1>4, ImportAdds DEF Shape
<1> QED BY <1>3, <1>4, <1>5

LEMMA SaveIs ==
  ASSUME Shape, NEW x \in DOMAIN state, NEW value, Save(x, value)
  PROVE  state'[x] = value /\ \A y \in DOMAIN state : y # x => state'[y] = state[y]
  BY DEF Save

\* Each call of the change services changes one of its sections.
LEMMA ChangesGrow ==
  ASSUME Shape, [Next]_vars
  PROVE  /\ state'.graphs # state.graphs =>
              \E g \in GraphPool : ImportGraph(g) /\ state'.graphs = Append(state.graphs, g)
         /\ state'.contracts # state.contracts =>
              \E c \in ContractPool, g \in GraphPool : ImportContracts(c, g)
         /\ state'.events # state.events =>
              \E v \in EventPool, g \in GraphPool, c \in Contracts : RegisterAcceptedChange(v, g, c)
         /\ state'.inbox # state.inbox =>
              \/ SyncRegistry
              \/ \E k \in InboxKeys, expected, new \in InboxStatus, e \in InboxEvidence,
                    r \in References : Transition(k, k[2], expected, new, e, r)
<1> DEFINE Only1(x) == \A y \in {"graphs", "contracts", "events", "inbox"} : y # x => state'[y] = state[y]
<1>1. ASSUME NEW g, ImportGraph(g) PROVE Only1("graphs") /\ state'.graphs = Append(state.graphs, g)
  BY <1>1 DEF ImportGraph, Save, Shape
<1>2. ASSUME NEW c, NEW g, ImportContracts(c, g) PROVE Only1("contracts")
  BY <1>2 DEF ImportContracts, Save, Shape
<1>3. ASSUME NEW v, NEW g, NEW c, RegisterAcceptedChange(v, g, c) PROVE Only1("events")
  BY <1>3 DEF RegisterAcceptedChange, Save, Shape
<1>4. SyncRegistry => Only1("inbox")
  BY DEF SyncRegistry, Save, Shape
<1>5. ASSUME NEW k, NEW p, NEW expected, NEW new, NEW e, NEW r, Transition(k, p, expected, new, e, r)
      PROVE  Only1("inbox")
  BY <1>5 DEF Transition, Save, Shape
<1>6. ClockTicks => Only1("none")
  BY DEF ClockTicks
<1>7. ASSUME NEW v, NEW g, NEW c, NEW p, NEW r, RequireProjectClear(v, g, c, p, r) PROVE Only1("none")
  BY <1>7 DEF RequireProjectClear
<1>8. /\ state'.graphs # state.graphs => ChangesNext
      /\ state'.contracts # state.contracts => ChangesNext
      /\ state'.events # state.events => ChangesNext
      /\ state'.inbox # state.inbox => ChangesNext
  <2>1. ASSUME NEW y \in {"graphs", "contracts", "events", "inbox"}, state'[y] # state[y] PROVE ChangesNext
    BY <2>1, Owners DEF Shape
  <2> QED BY <2>1
<1>9. /\ "graphs" # "none" /\ "contracts" # "none" /\ "events" # "none" /\ "inbox" # "none"
      /\ "graphs" # "contracts" /\ "graphs" # "events" /\ "graphs" # "inbox"
      /\ "contracts" # "events" /\ "contracts" # "inbox" /\ "events" # "inbox"
  OBVIOUS
<1>10. CASE state'.graphs # state.graphs
  BY <1>1, <1>2, <1>3, <1>4, <1>5, <1>6, <1>7, <1>8, <1>9, <1>10 DEF ChangesNext
<1>11. CASE state'.contracts # state.contracts
  BY <1>1, <1>2, <1>3, <1>4, <1>5, <1>6, <1>7, <1>8, <1>9, <1>11 DEF ChangesNext
<1>12. CASE state'.events # state.events
  BY <1>1, <1>2, <1>3, <1>4, <1>5, <1>6, <1>7, <1>8, <1>9, <1>12 DEF ChangesNext
<1>13. CASE state'.inbox # state.inbox
  BY <1>1, <1>2, <1>3, <1>4, <1>5, <1>6, <1>7, <1>8, <1>9, <1>13 DEF ChangesNext
<1> QED BY <1>10, <1>11, <1>12, <1>13

LEMMA CensusGrows ==
  ASSUME Shape, [Next]_vars, state'.census # state.census
  PROVE  \E c \in CensusPool : /\ ValidCensus(c) /\ ~Known(state.census, c)
                               /\ state'.census = Append(state.census, c)
<1>1. CensusNext
  BY Owners DEF Shape
<1>2. ASSUME NEW k PROVE ~ RequireAdmitted(k)
  BY DEF RequireAdmitted
<1> QED BY <1>1, <1>2, SaveIs DEF CensusNext, ImportCensus, Shape

LEMMA EnvironmentGrows ==
  ASSUME Shape, [Next]_vars, state'.environment # state.environment
  PROVE  \E r \in RuntimeRevision, b \in Baselines, f \in Fingerprints, x \in Optional(RuntimeReceipts) :
           LET snapshot == [revision |-> r, baseline |-> b, current |-> f,
                            status |-> Reconciled(b, f, x), receipt |-> x] IN
           /\ Reconciled(b, f, x) # "refused" /\ ~Known(state.environment, snapshot)
           /\ state'.environment = Append(state.environment, snapshot)
<1>1. EnvironmentNext
  BY Owners DEF Shape
<1>2. ~ RequireCertified
  BY DEF RequireCertified
<1>3. PICK r \in RuntimeRevision, b \in Baselines, f \in Fingerprints, x \in Optional(RuntimeReceipts) :
        ImportEnvironment(r, b, f, x)
  BY <1>1, <1>2 DEF EnvironmentNext
<1> DEFINE snapshot == [revision |-> r, baseline |-> b, current |-> f,
                        status |-> Reconciled(b, f, x), receipt |-> x]
<1>4. /\ Reconciled(b, f, x) # "refused" /\ ~Known(state.environment, [revision |-> r])
      /\ Save("environment", Append(state.environment, snapshot))
  BY <1>3 DEF ImportEnvironment
<1>5. ~Known(state.environment, snapshot)
  BY <1>4 DEF Known
<1>6. state'.environment = Append(state.environment, snapshot)
  <2> HIDE DEF snapshot
  <2> QED BY <1>4, SaveIs DEF Shape
<1> QED BY <1>4, <1>5, <1>6

LEMMA AppendOfARevision ==
  ASSUME NEW h, IsSeq(h), OneOfARevision(h), NEW s, ~Known(h, s)
  PROVE  OneOfARevision(Append(h, s))
<1> DEFINE n == Len(h)
<1>1. /\ n \in Nat /\ DOMAIN h = 1..n /\ DOMAIN Append(h, s) = 1..(n + 1)
      /\ \A i \in 1..n : Append(h, s)[i] = h[i] /\ h[i].revision # s.revision
      /\ Append(h, s)[n + 1] = s
      /\ \A i \in 1..(n + 1) : i = n + 1 \/ i \in 1..n
  BY AppendIsSeq DEF Known, ToSet
<1> HIDE DEF n
<1> QED BY <1>1 DEF OneOfARevision

Registries == {"decisions", "lifecycle", "knowledge", "graphs", "contracts", "census", "environment"}

HistoriesApart ==
  /\ \A x \in Registries : IsSeq(state[x]) /\ OneOfARevision(state[x])
  /\ FailuresShape /\ OneOfARevision(Failures.history)

LEMMA StepHistories ==
  ASSUME Shape, HistoriesApart, [Next]_vars
  PROVE  HistoriesApart'
<1>1. ASSUME NEW x \in Registries PROVE IsSeq(state'[x]) /\ OneOfARevision(state'[x])
  <2> DEFINE Grows == \E s : ~Known(state[x], s) /\ state'[x] = Append(state[x], s)
  <2>1. IsSeq(state[x]) /\ OneOfARevision(state[x])
    BY DEF HistoriesApart
  <2>2. Grows => IsSeq(state'[x]) /\ OneOfARevision(state'[x])
    BY <2>1, AppendIsSeq, AppendOfARevision
  <2>3. CASE x = "decisions"
    BY <2>1, <2>2, <2>3, DecisionsGrow
  <2>4. CASE x = "lifecycle"
    BY <2>1, <2>2, <2>4, LifecycleGrows
  <2>5. CASE x = "knowledge"
    BY <2>1, <2>2, <2>5, KnowledgeGrows
  <2>6. CASE x = "graphs"
    BY <2>1, <2>2, <2>6, ChangesGrow DEF ImportGraph
  <2>7. CASE x = "contracts"
    <3>1. CASE state'.contracts = state.contracts
      BY <2>1, <2>7, <3>1
    <3>2. CASE state'.contracts # state.contracts
      <4>1. PICK c, g : ImportContracts(c, g)
        BY <3>2, ChangesGrow
      <4> DEFINE s == [graph |-> g, revision |-> c.revision, records |-> c.records, bindings |-> c.bindings]
      <4>2. state'.contracts = Append(state.contracts, s) /\ ~Known(state.contracts, s)
        BY <4>1, SaveIs DEF ImportContracts, Shape, Known
      <4> QED BY <2>2, <2>7, <4>2
    <3> QED BY <3>1, <3>2
  <2>8. CASE x = "census"
    BY <2>1, <2>2, <2>8, CensusGrows
  <2>9. CASE x = "environment"
    <3>1. CASE state'.environment = state.environment
      BY <2>1, <2>9, <3>1
    <3>2. CASE state'.environment # state.environment
      <4>1. Grows
        BY <2>9, <3>2, EnvironmentGrows
      <4> QED BY <2>2, <4>1
    <3> QED BY <3>1, <3>2
  <2> QED BY <2>3, <2>4, <2>5, <2>6, <2>7, <2>8, <2>9 DEF Registries
<1>2. FailuresShape' /\ OneOfARevision(Failures'.history)
  <2>1. FailuresShape'
    BY StepFailures DEF HistoriesApart
  <2>2. OneOfARevision(Failures'.history)
    <3>1. FailuresGrow
      BY FailureMoves DEF HistoriesApart
    <3> QED BY <3>1, AppendOfARevision DEF FailuresGrow, HistoriesApart, FailuresShape, Failures
  <2> QED BY <2>1, <2>2
<1> QED BY <1>1, <1>2 DEF HistoriesApart

-----------------------------------------------------------------------------
(***************************************************************************)
(* The registries of decisions: every snapshot in the history was valid    *)
(* when it came in, and what it says of one in force follows from that.    *)
(***************************************************************************)
SnapshotsAreValid ==
  /\ IsSeq(state.decisions) /\ IsSeq(state.lifecycle) /\ IsSeq(state.knowledge)
  /\ \A h \in ToSet(state.decisions) :
       h.records \subseteq DecisionPool /\ ValidDecisionRegistry(h.records)
  /\ \A h \in ToSet(state.lifecycle) : ValidLifecycleRegistry(h.records)
  /\ \A h \in ToSet(state.knowledge) : ValidKnowledgeRegistry(h.records)

LEMMA AppendToSet ==
  ASSUME NEW s, NEW e, IsSeq(s)
  PROVE  ToSet(Append(s, e)) = ToSet(s) \cup {e}
<1> DEFINE n == Len(s)
<1>1. /\ n \in Nat /\ DOMAIN s = 1..n /\ DOMAIN Append(s, e) = 1..n \cup {n + 1}
      /\ \A i \in 1..n : Append(s, e)[i] = s[i]
      /\ Append(s, e)[n + 1] = e /\ n + 1 \notin 1..n
  BY AppendIsSeq
<1> HIDE DEF n
<1> QED BY <1>1 DEF ToSet

LEMMA StepSnapshots ==
  ASSUME Shape, SnapshotsAreValid, [Next]_vars
  PROVE  SnapshotsAreValid'
<1>1. \A s, e : IsSeq(s) => IsSeq(Append(s, e)) /\ ToSet(Append(s, e)) = ToSet(s) \cup {e}
  BY AppendIsSeq, AppendToSet
<1>2. /\ IsSeq(state'.decisions)
      /\ \A h \in ToSet(state'.decisions) :
           h.records \subseteq DecisionPool /\ ValidDecisionRegistry(h.records)
  <2>1. CASE state'.decisions = state.decisions
    BY <2>1 DEF SnapshotsAreValid
  <2>2. CASE state'.decisions # state.decisions
    <3>1. PICK r, s : /\ s \subseteq DecisionPool /\ ValidDecisionRegistry(s)
                      /\ state'.decisions = Append(state.decisions, [revision |-> r, records |-> s])
      BY <2>2, DecisionsGrow
    <3> QED BY <1>1, <3>1 DEF SnapshotsAreValid
  <2> QED BY <2>1, <2>2
<1>3. /\ IsSeq(state'.lifecycle)
      /\ \A h \in ToSet(state'.lifecycle) : ValidLifecycleRegistry(h.records)
  <2>1. CASE state'.lifecycle = state.lifecycle
    BY <2>1 DEF SnapshotsAreValid
  <2>2. CASE state'.lifecycle # state.lifecycle
    <3>1. PICK r, s : /\ ValidLifecycleRegistry(s)
                      /\ state'.lifecycle = Append(state.lifecycle, [revision |-> r, records |-> s])
      BY <2>2, LifecycleGrows
    <3> QED BY <1>1, <3>1 DEF SnapshotsAreValid
  <2> QED BY <2>1, <2>2
<1>4. /\ IsSeq(state'.knowledge)
      /\ \A h \in ToSet(state'.knowledge) : ValidKnowledgeRegistry(h.records)
  <2>1. CASE state'.knowledge = state.knowledge
    BY <2>1 DEF SnapshotsAreValid
  <2>2. CASE state'.knowledge # state.knowledge
    <3>1. PICK r, s : /\ ValidKnowledgeRegistry(s)
                      /\ state'.knowledge = Append(state.knowledge, [revision |-> r, records |-> s])
      BY <2>2, KnowledgeGrows
    <3> QED BY <1>1, <3>1 DEF SnapshotsAreValid
  <2> QED BY <2>1, <2>2
<1> QED BY <1>2, <1>3, <1>4 DEF SnapshotsAreValid

LEMMA AtMostOne ==
  ASSUME NEW S, \A x, y \in S : x = y
  PROVE  Cardinality(S) <= 1 /\ (S # {} => Cardinality(S) = 1)
<1>1. CASE S = {}
  BY <1>1, FS_EmptySet
<1>2. CASE S # {}
  <2>1. PICK x : S = {x}
    BY <1>2
  <2> QED BY <2>1, FS_Singleton
<1> QED BY <1>1, <1>2

LEMMA DecisionInForce ==
  ASSUME NEW s, s \subseteq DecisionPool, ValidDecisionRegistry(s)
  PROVE  /\ \A r \in s : \A p \in r.projects :
              Cardinality({t \in CurrentForProject(s, p) : t.key = r.key}) <= 1
         /\ \A r \in s : r.status = "SUPERSEDED" =>
              \E t \in s : r.id \in t.supersedes /\ t.effective > r.effective
<1>1. ASSUME NEW r \in s, NEW p \in r.projects
      PROVE  Cardinality({t \in CurrentForProject(s, p) : t.key = r.key}) <= 1
  <2>1. \A t, u \in {t \in CurrentForProject(s, p) : t.key = r.key} : t = u
    BY DEF CurrentForProject, ValidDecisionRegistry, CurrentUnique, Overlap
  <2> QED BY <2>1, AtMostOne
<1>2. ASSUME NEW r \in s, r.status = "SUPERSEDED"
      PROVE  \E t \in s : r.id \in t.supersedes /\ t.effective > r.effective
  <2>1. PICK t \in s : r.id \in t.supersedes
    BY <1>2 DEF ValidDecisionRegistry, SupersededCovered, Referenced
  <2>2. PICK u \in Named(s, r.id) : u.effective < t.effective
    BY <2>1 DEF ValidDecisionRegistry, SupersessionEdges
  <2>3. u = r
    BY <2>2 DEF ValidDecisionRegistry, UniqueIds, Named
  <2>4. r.effective \in Nat /\ t.effective \in Nat
    BY DatesAreNumbers
  <2> QED BY <2>1, <2>2, <2>3, <2>4
<1> QED BY <1>1, <1>2

LEMMA ClaimInForce ==
  ASSUME NEW s, ValidKnowledgeRegistry(s), NEW c \in s, c.status = "SUPERSEDED"
  PROVE  \E d \in s : c.id \in d.supersedes /\ d.id \notin c.supersedes
<1>1. PICK d \in s : c.id \in d.supersedes
  BY DEF ValidKnowledgeRegistry, Referenced
<1>2. d.id \notin c.supersedes
  <2> SUFFICES ASSUME d.id \in c.supersedes PROVE FALSE
    OBVIOUS
  <2>1. {c, d} \in (SUBSET s) \ {{}}
    OBVIOUS
  <2>2. \A r \in {c, d} : \E t \in {c, d} : t.id \in r.supersedes
    BY <1>1
  <2> QED BY <2>1, <2>2 DEF ValidKnowledgeRegistry, Acyclic
<1> QED BY <1>1, <1>2

LEMMA ValidIsOneInForce == SnapshotsAreValid => OneInForce
<1> SUFFICES ASSUME SnapshotsAreValid PROVE OneInForce
  OBVIOUS
<1>1. ASSUME NEW h \in ToSet(state.lifecycle), NEW r \in h.records
      PROVE  Cardinality(StageDecision(h.records, StageKey(r))) <= 1
  <2>1. \A t, u \in StageDecision(h.records, StageKey(r)) : t = u
    BY DEF StageDecision, SnapshotsAreValid, ValidLifecycleRegistry, StageUnique
  <2> QED BY <2>1, AtMostOne
<1>2. ASSUME NEW h \in ToSet(state.decisions)
      PROVE  /\ \A r \in h.records : \A p \in r.projects :
                  Cardinality({s \in CurrentForProject(h.records, p) : s.key = r.key}) <= 1
             /\ \A r \in h.records : r.status = "SUPERSEDED" =>
                  \E s \in h.records : r.id \in s.supersedes /\ s.effective > r.effective
  BY DecisionInForce DEF SnapshotsAreValid
<1>3. ASSUME NEW h \in ToSet(state.knowledge), NEW c \in h.records, c.status = "SUPERSEDED"
      PROVE  \E d \in h.records : c.id \in d.supersedes /\ d.id \notin c.supersedes
  BY <1>3, ClaimInForce DEF SnapshotsAreValid
<1> QED BY <1>1, <1>2, <1>3 DEF OneInForce

-----------------------------------------------------------------------------
(***************************************************************************)
(* Changes.  A snapshot of contracts fits the graph it is bound to, and    *)
(* edges of a graph have different ids: so the binding of an active edge   *)
(* is of just what the edge consumes.                                      *)
(***************************************************************************)
ContractsAreBound ==
  /\ IsSeq(state.graphs) /\ IsSeq(state.contracts)
  /\ \A g \in Graphs : g \in GraphPool /\ ValidGraph(g)
  /\ \A c \in Contracts : c.graph \in Graphs /\ ValidContracts(c) /\ ContractsFit(c, c.graph)

LEMMA StepContracts ==
  ASSUME Shape, ContractsAreBound, [Next]_vars
  PROVE  ContractsAreBound'
<1>1. \/ state'.graphs = state.graphs
      \/ \E g \in GraphPool : ValidGraph(g) /\ state'.graphs = Append(state.graphs, g)
  BY ChangesGrow DEF ImportGraph
<1>2. /\ IsSeq(state'.graphs) /\ Graphs \subseteq Graphs'
      /\ \A g \in Graphs' : g \in GraphPool /\ ValidGraph(g)
  <2>1. \A s, e : IsSeq(s) => IsSeq(Append(s, e)) /\ ToSet(Append(s, e)) = ToSet(s) \cup {e}
    BY AppendIsSeq, AppendToSet
  <2>2. CASE state'.graphs = state.graphs
    BY <2>2 DEF ContractsAreBound, Graphs
  <2>3. ASSUME NEW g \in GraphPool, ValidGraph(g), state'.graphs = Append(state.graphs, g)
        PROVE  /\ IsSeq(state'.graphs) /\ Graphs \subseteq Graphs'
               /\ \A h \in Graphs' : h \in GraphPool /\ ValidGraph(h)
    BY <2>1, <2>3 DEF ContractsAreBound, Graphs
  <2> QED BY <1>1, <2>2, <2>3
<1>3. CASE state'.contracts = state.contracts
  BY <1>2, <1>3 DEF ContractsAreBound, Contracts
<1>4. CASE state'.contracts # state.contracts
  <2>1. PICK c, g : ImportContracts(c, g)
    BY <1>4, ChangesGrow
  <2> DEFINE s == [graph |-> g, revision |-> c.revision, records |-> c.records, bindings |-> c.bindings]
  <2>2. g \in Graphs /\ ValidContracts(c) /\ ContractsFit(c, g) /\ state'.contracts = Append(state.contracts, s)
    BY <2>1, SaveIs DEF ImportContracts, Shape
  <2>3. s.graph = g /\ s.records = c.records /\ s.bindings = c.bindings
    OBVIOUS
  <2> HIDE DEF s
  <2>4. ValidContracts(s)
    BY <2>2, <2>3 DEF ValidContracts, CurrentVersionUnique, VersionLineage, GetRecord
  <2>5. ContractsFit(s, g)
    BY <2>2, <2>3 DEF ContractsFit, ActiveEdgesServed, GetRecord
  <2> QED BY <1>2, <2>2, <2>3, <2>4, <2>5, AppendIsSeq, AppendToSet DEF ContractsAreBound, Contracts
<1> QED BY <1>3, <1>4

LEMMA EdgeIdsDiffer ==
  ASSUME NEW g \in GraphPool, ValidGraph(g), NEW e \in g.edges, NEW f \in g.edges, e.id = f.id
  PROVE  e = f
<1> DEFINE ids == {x.id : x \in g.edges}
           name == [x \in g.edges |-> x.id]
<1>1. IsFiniteSet(g.edges) /\ Cardinality(ids) = Cardinality(g.edges)
  BY GraphsAreFinite DEF ValidGraph
<1>2. name \in Surjection(g.edges, ids)
  BY DEF Surjection
<1>3. name \in Injection(g.edges, ids)
  <2> HIDE DEF name, ids
  <2> QED BY <1>1, <1>2, FS_SurjSameCardinalityImpliesInj
<1> QED BY <1>3 DEF Injection, IsInjective

LEMMA BoundIsServed == ContractsAreBound => ActiveEdgesAreServed
<1> SUFFICES ASSUME ContractsAreBound, NEW c \in Contracts
             PROVE  /\ \A e \in ActiveEdges(c.graph) : Cardinality(Consumable(c, e.id)) = 1
                    /\ \A r \in c.records :
                         Cardinality({s \in c.records : SameContract(r, s) /\ s.lifecycle = "CURRENT"}) <= 1
  BY DEF ActiveEdgesAreServed
<1>1. /\ c.graph \in GraphPool /\ ValidGraph(c.graph)
      /\ ValidContracts(c) /\ ContractsFit(c, c.graph)
  BY DEF ContractsAreBound
<1>2. ASSUME NEW e \in ActiveEdges(c.graph) PROVE Cardinality(Consumable(c, e.id)) = 1
  <2>1. e \in c.graph.edges
    BY DEF ActiveEdges
  <2>2. /\ \E b \in c.bindings : b.edge = e.id
        /\ \E r \in GetRecord(c, e.producer, e.contract, e.version) : r.lifecycle # "RETIRED"
    BY <1>1 DEF ContractsFit, ActiveEdgesServed
  <2>3. PICK b \in c.bindings : b.edge = e.id
    BY <2>2
  <2>4. PICK f \in c.graph.edges : Matches(b, f)
    BY <1>1 DEF ContractsFit
  <2>5. f = e
    BY <1>1, <2>1, <2>3, <2>4, EdgeIdsDiffer DEF Matches
  <2>6. \A a \in c.bindings : a.edge = e.id => a = b
    BY <1>1, <2>3 DEF ValidContracts
  <2>7. Consumable(c, e.id) =
          {r \in GetRecord(c, e.producer, e.contract, e.version) : r.lifecycle # "RETIRED"}
    BY <2>3, <2>4, <2>5, <2>6 DEF Consumable, Matches
  <2>8. \A r, s \in GetRecord(c, e.producer, e.contract, e.version) : r = s
    BY <1>1 DEF GetRecord, ValidContracts, SameContract
  <2> QED BY <2>2, <2>7, <2>8, AtMostOne
<1>3. ASSUME NEW r \in c.records
      PROVE  Cardinality({s \in c.records : SameContract(r, s) /\ s.lifecycle = "CURRENT"}) <= 1
  <2>1. \A s, t \in {s \in c.records : SameContract(r, s) /\ s.lifecycle = "CURRENT"} : s = t
    BY <1>1 DEF ValidContracts, CurrentVersionUnique, SameContract
  <2> QED BY <2>1, AtMostOne
<1> QED BY <1>2, <1>3

\* Every item of an inbox is of an event that stays registered.
ItemsAreOfEvents ==
  /\ IsSeq(state.events)
  /\ \A k \in DOMAIN state.inbox : state.inbox[k].status \in InboxStatus
  /\ ItemsAnswerChanges

LEMMA StepEvents ==
  ASSUME Shape, ItemsAreOfEvents, [Next]_vars
  PROVE  /\ IsSeq(state'.events) /\ Events \subseteq Events'
         /\ \A i, j \in DOMAIN state'.events :
              (\/ state'.events[i].id = state'.events[j].id
               \/ state'.events[i].change = state'.events[j].change) => i = j
<1>1. CASE state'.events = state.events
  BY <1>1 DEF ItemsAreOfEvents, ItemsAnswerChanges, Events
<1>2. CASE state'.events # state.events
  <2>1. PICK v, g, c : RegisterAcceptedChange(v, g, c)
    BY <1>2, ChangesGrow
  <2> DEFINE new == [at |-> outside.clock, graph |-> g, contracts |-> c,
                     id |-> v.id, change |-> v.change, type |-> v.type, project |-> v.project,
                     affected |-> v.affected, edge |-> v.edge, contract |-> v.contract,
                     accepted |-> v.accepted, authority |-> v.authority]
             n == Len(state.events)
  <2>2. state'.events = Append(state.events, new) /\ NewChange(v)
    BY <2>1, SaveIs DEF RegisterAcceptedChange, Shape
  <2>3. new.id = v.id /\ new.change = v.change
    OBVIOUS
  <2> HIDE DEF new
  <2>4. /\ n \in Nat /\ DOMAIN state.events = 1..n /\ DOMAIN state'.events = 1..(n + 1)
        /\ \A i \in 1..n : state'.events[i] = state.events[i] /\ state.events[i] \in Events
        /\ state'.events[n + 1] = new
        /\ \A i \in 1..(n + 1) : i = n + 1 \/ i \in 1..n
    BY <2>2, AppendIsSeq DEF ItemsAreOfEvents, Events, ToSet
  <2>5. \A i \in 1..n : state.events[i].id # v.id /\ state.events[i].change # v.change
    BY <2>2, <2>4 DEF NewChange
  <2>6. IsSeq(state'.events) /\ Events \subseteq Events'
    BY <2>2, AppendIsSeq, AppendToSet DEF ItemsAreOfEvents, Events
  <2> HIDE DEF n
  <2> QED BY <2>3, <2>4, <2>5, <2>6 DEF ItemsAreOfEvents, ItemsAnswerChanges
<1> QED BY <1>1, <1>2

\* An item that answers one of the events given, as it must be.
Answers(k, item, events) ==
  /\ \E v \in events : v.id = k[1] /\ k[2] \in Receivers(v)
  /\ item.status \in InboxStatus
  /\ (item.status = "OPEN") <=> (item.evidence = {})
  /\ item.status = "RESOLVED" => item.reference # Nothing

LEMMA StepItems ==
  ASSUME Shape, ItemsAreOfEvents, [Next]_vars
  PROVE  \A k \in DOMAIN state'.inbox : Answers(k, state'.inbox[k], Events')
<1>1. \A k \in DOMAIN state.inbox : Answers(k, state.inbox[k], Events)
  BY DEF ItemsAreOfEvents, ItemsAnswerChanges, Answers
<1>2. Events \subseteq Events'
  BY StepEvents
<1>3. \A k, item : Answers(k, item, Events) => Answers(k, item, Events')
  BY <1>2 DEF Answers
<1>4. CASE state'.inbox = state.inbox
  BY <1>1, <1>3, <1>4
<1>5. CASE SyncRegistry
  <2>1. PICK n \in DOMAIN state.events :
          state'.inbox = Ingested(state.inbox, {state.events[i] : i \in 1..n})
    BY <1>5, SaveIs DEF SyncRegistry, Shape
  <2> DEFINE some == {state.events[i] : i \in 1..n}
  <2>2. some \subseteq Events
    <3>1. DOMAIN state.events = 1..Len(state.events) /\ Len(state.events) \in Nat
      BY AppendIsSeq DEF ItemsAreOfEvents
    <3> QED BY <3>1 DEF Events, ToSet
  <2> HIDE DEF some
  <2>3. ASSUME NEW k \in DOMAIN state'.inbox, k \notin DOMAIN state.inbox
        PROVE  Answers(k, state'.inbox[k], Events)
    <3>1. PICK v \in some : k \in {v.id} \X Receivers(v)
      BY <2>1, <2>3 DEF Ingested, some
    <3>2. state'.inbox[k] = [status |-> "OPEN", evidence |-> {}, reference |-> Nothing]
      BY <2>1, <2>3 DEF Ingested
    <3> QED BY <2>2, <3>1, <3>2 DEF Answers, InboxStatus
  <2>4. \A k \in DOMAIN state.inbox : state'.inbox[k] = state.inbox[k]
    BY <2>1 DEF Ingested
  <2> QED BY <1>1, <1>3, <2>3, <2>4
<1>6. ASSUME NEW k, NEW expected, NEW new \in InboxStatus, NEW e, NEW r,
             Transition(k, k[2], expected, new, e, r)
      PROVE  \A x \in DOMAIN state'.inbox : Answers(x, state'.inbox[x], Events')
  <2> DEFINE item == [status |-> new, evidence |-> state.inbox[k].evidence \cup {e}, reference |-> r]
  <2>1. /\ k \in DOMAIN state.inbox /\ new \in AllowedTransitions[state.inbox[k].status]
        /\ new = "RESOLVED" => r # Nothing
        /\ state'.inbox = [state.inbox EXCEPT ![k] = item]
    BY <1>6, SaveIs DEF Transition, Shape
  <2>2. state.inbox[k].status \in InboxStatus
    BY <2>1 DEF ItemsAreOfEvents
  <2>3. new # "OPEN"
    BY <2>1, <2>2 DEF AllowedTransitions, InboxStatus
  <2>4. item.status = new /\ item.evidence # {} /\ item.reference = r
    OBVIOUS
  <2> HIDE DEF item
  <2>5. Answers(k, item, Events)
    BY <1>1, <2>1, <2>3, <2>4 DEF Answers
  <2> QED BY <1>1, <1>3, <2>1, <2>5
<1> QED BY <1>4, <1>5, <1>6, ChangesGrow

LEMMA StepItemsAreOfEvents ==
  ASSUME Shape, ItemsAreOfEvents, [Next]_vars
  PROVE  ItemsAreOfEvents'
  BY StepEvents, StepItems DEF ItemsAreOfEvents, ItemsAnswerChanges, Answers

-----------------------------------------------------------------------------
(***************************************************************************)
(* Projects.  A probe saves all the projects as it loaded them, so what is *)
(* said of the projects must hold of every snapshot in flight as well: a   *)
(* probe compares its repository with those of its own snapshot, and the   *)
(* snapshot replaces whatever came in between.                             *)
(***************************************************************************)
ProjectFields == {"name", "stable", "adapter", "head", "status", "blocked"}

Distinguished(known) ==
  /\ \A p \in DOMAIN known : DOMAIN known[p] = ProjectFields
  /\ \A p, q \in {p \in DOMAIN known : known[p].stable # Nothing} :
       p # q => known[p].stable # known[q].stable /\ known[p].name # known[q].name

ProjectsApart ==
  /\ DOMAIN state.projects = {"known", "reports"}
  /\ Distinguished(state.projects.known)
  /\ \A i \in DOMAIN memory.probes : /\ memory.probes[i].project \in DOMAIN memory.probes[i].known
                                     /\ Distinguished(memory.probes[i].known)

\* One project of a snapshot replaced by one that shares no repository with the others.
LEMMA ReplacedIsDistinguished ==
  ASSUME NEW known, Distinguished(known), NEW p \in DOMAIN known,
         NEW all, DOMAIN all = DOMAIN known,
         \A q \in DOMAIN known \ {p} : all[q] = known[q],
         DOMAIN all[p] = ProjectFields,
         \/ all[p].stable = Nothing
         \/ \A q \in DOMAIN known \ {p} :
              known[q].stable = Nothing \/ (known[q].stable # all[p].stable /\ known[q].name # all[p].name)
  PROVE  Distinguished(all)
<1>1. ASSUME NEW q \in DOMAIN all PROVE DOMAIN all[q] = ProjectFields
  BY DEF Distinguished
<1>2. ASSUME NEW q \in DOMAIN all, NEW r \in DOMAIN all, q # r,
             all[q].stable # Nothing, all[r].stable # Nothing
      PROVE  all[q].stable # all[r].stable /\ all[q].name # all[r].name
  <2>1. CASE q = p
    BY <1>2, <2>1
  <2>2. CASE r = p
    BY <1>2, <2>2
  <2>3. CASE q # p /\ r # p
    BY <1>2, <2>3 DEF Distinguished
  <2> QED BY <2>1, <2>2, <2>3
<1> QED BY <1>1, <1>2 DEF Distinguished

LEMMA UpdatedIsDistinguished ==
  ASSUME NEW probe, Distinguished(probe.known), probe.project \in DOMAIN probe.known,
         NEW found \in Found(probe.known[probe.project]), Free(probe, found),
         NEW report, report.name = found.name, report.stable = found.stable
  PROVE  Distinguished([probe.known EXCEPT ![probe.project] = Updated(@, report)])
<1> DEFINE p == probe.project
           old == probe.known[p]
           new == Updated(old, report)
           known == [probe.known EXCEPT ![p] = new]
<1>1. DOMAIN old = ProjectFields
  BY DEF Distinguished
<1>2. DOMAIN new = ProjectFields /\ new.stable = found.stable /\ new.name = found.name
  <2> HIDE DEF old
  <2> QED BY <1>1 DEF Updated, ProjectFields
<1>3. /\ DOMAIN known = DOMAIN probe.known /\ known[p] = new
      /\ \A q \in DOMAIN probe.known \ {p} : known[q] = probe.known[q]
  <2> HIDE DEF new
  <2> QED OBVIOUS
<1>4. \/ found.stable = Nothing
      \/ \A q \in DOMAIN probe.known \ {p} :
           probe.known[q].stable = Nothing \/ (probe.known[q].stable # found.stable /\ probe.known[q].name # found.name)
  BY DEF Found, Free
<1>5. Distinguished(known)
  <2> HIDE DEF known, new, old
  <2> QED BY <1>2, <1>3, <1>4, ReplacedIsDistinguished
<1> QED BY <1>5

LEMMA StepProjects ==
  ASSUME Shape, ProjectsApart, [Next]_vars
  PROVE  ProjectsApart'
<1>1. CASE state'["projects"] = state["projects"] /\ memory'["probes"] = memory["probes"]
  BY <1>1 DEF ProjectsApart
<1>2. ASSUME NEW n, NEW a, NEW h, Intake(n, a, h) PROVE ProjectsApart'
  <2> DEFINE new == [name |-> n, stable |-> Nothing, adapter |-> a, head |-> h,
                     status |-> "registered", blocked |-> FALSE]
             known == With(state.projects.known, n, new)
  <2>1. /\ DOMAIN state'.projects = {"known", "reports"} /\ state'.projects.known = known
        /\ memory' = memory
    BY <1>2 DEF Intake, Shape, ProjectsApart
  <2>2. DOMAIN new = ProjectFields /\ new.stable = Nothing
    BY DEF ProjectFields
  <2> HIDE DEF new
  <2>3. Distinguished(known)
    BY <2>2 DEF Distinguished, With, ProjectsApart
  <2> HIDE DEF known
  <2> QED BY <2>1, <2>3 DEF ProjectsApart
<1>3. ASSUME NEW i, NEW p, ProbeStarts(i, p) PROVE ProjectsApart'
  <2> DEFINE probe == [project |-> p, known |-> state.projects.known, reports |-> state.projects.reports]
  <2>1. /\ state' = state /\ p \in DOMAIN state.projects.known
        /\ memory'.probes = With(memory.probes, i, probe)
    BY <1>3 DEF ProbeStarts, Shape, Registered
  <2>2. probe.project = p /\ probe.known = state.projects.known
    OBVIOUS
  <2> HIDE DEF probe
  <2> QED BY <2>1, <2>2 DEF ProjectsApart, With
<1>4. ASSUME NEW S, memory' = Forgotten(S)
      PROVE  \A i \in DOMAIN memory'.probes : i \in DOMAIN memory.probes /\ memory'.probes[i] = memory.probes[i]
  BY <1>4 DEF Forgotten, Shape
<1>5. ASSUME NEW i, NEW f, ProbeAnswers(i, f) PROVE ProjectsApart'
  <2> DEFINE probe == memory.probes[i]
  <2>1. /\ i \in DOMAIN memory.probes
        /\ probe.project \in DOMAIN probe.known /\ Distinguished(probe.known)
    BY <1>5 DEF ProbeAnswers, ProjectsApart
  <2>2. PICK found \in Found(probe.known[probe.project]) :
          /\ Free(probe, found)
          /\ state' = [state EXCEPT !.projects =
               [known   |-> [probe.known EXCEPT ![probe.project] = Updated(@, ReportOf(probe, found, f))],
                reports |-> With(probe.reports, probe.project, ReportOf(probe, found, f))]]
    BY <1>5 DEF ProbeAnswers
  <2> DEFINE report == ReportOf(probe, found, f)
             known == [probe.known EXCEPT ![probe.project] = Updated(@, report)]
  <2>3. report.name = found.name /\ report.stable = found.stable
    BY DEF ReportOf
  <2>4. DOMAIN state'.projects = {"known", "reports"} /\ state'.projects.known = known
    BY <2>2 DEF Shape
  <2> HIDE DEF report
  <2>5. Distinguished(known)
    BY <2>1, <2>2, <2>3, UpdatedIsDistinguished
  <2> HIDE DEF known, probe
  <2>6. memory' = Forgotten({i})
    BY <1>5 DEF ProbeAnswers
  <2> QED BY <1>4, <2>4, <2>5, <2>6 DEF ProjectsApart
<1>6. ASSUME NEW i, ProbeFails(i) PROVE ProjectsApart'
  <2> DEFINE probe == memory.probes[i]
             p == probe.project
             known == [probe.known EXCEPT ![p].status = "blocked", ![p].blocked = TRUE]
  <2>1. p \in DOMAIN probe.known /\ Distinguished(probe.known)
    BY <1>6 DEF ProbeFails, ProjectsApart
  <2>2. state'.projects = [known |-> known, reports |-> probe.reports]
    <3> DEFINE all == [known |-> known, reports |-> probe.reports]
    <3>1. state' = [state EXCEPT !.projects = all]
      BY <1>6 DEF ProbeFails
    <3> HIDE DEF all
    <3>2. state'.projects = all
      BY <3>1 DEF Shape
    <3> QED BY <3>2 DEF all
  <2>3. /\ DOMAIN known = DOMAIN probe.known
        /\ \A q \in DOMAIN probe.known \ {p} : known[q] = probe.known[q]
    OBVIOUS
  <2>4. known[p] = [probe.known[p] EXCEPT !.status = "blocked", !.blocked = TRUE]
    BY <2>1
  <2>5. DOMAIN known[p] = ProjectFields /\ known[p].stable = probe.known[p].stable
        /\ known[p].name = probe.known[p].name
    BY <2>1, <2>4 DEF Distinguished, ProjectFields
  <2>6. \/ probe.known[p].stable = Nothing
        \/ \A q \in DOMAIN probe.known \ {p} :
             \/ probe.known[q].stable = Nothing
             \/ probe.known[q].stable # probe.known[p].stable /\ probe.known[q].name # probe.known[p].name
    BY <2>1 DEF Distinguished
  <2> HIDE DEF known, p
  <2>7. Distinguished(known)
    BY <2>1, <2>3, <2>5, <2>6, ReplacedIsDistinguished
  <2>8. DOMAIN state'.projects = {"known", "reports"} /\ state'.projects.known = known
    BY <2>2
  <2>9. memory' = Forgotten({i})
    BY <1>6 DEF ProbeFails
  <2> QED BY <1>4, <2>7, <2>8, <2>9 DEF ProjectsApart
<1>7. ASSUME NEW S, ProbesBreak(S) PROVE ProjectsApart'
  BY <1>4, <1>7 DEF ProbesBreak, ProjectsApart
<1>8. ASSUME NEW g, NEW n, RenameRepository(g, n) PROVE state' = state /\ memory' = memory
  BY <1>8 DEF RenameRepository
<1>9. ASSUME NEW p, NEW c, PrepareTask(p, c) PROVE state' = state /\ memory' = memory
  BY <1>9 DEF PrepareTask
<1>10. CASE IntakesNext
  BY <1>2, <1>10 DEF IntakesNext
<1>11. CASE ProjectsNext
  BY <1>1, <1>3, <1>5, <1>6, <1>7, <1>8, <1>9, <1>11 DEF ProjectsNext
<1>12. /\ state'["projects"] # state["projects"] => IntakesNext \/ ProjectsNext
       /\ memory'["probes"] # memory["probes"] => ProjectsNext
  BY Owners, OwnersOfMemory DEF Shape
<1> QED BY <1>1, <1>10, <1>11, <1>12

LEMMA ApartIsOneProject == ProjectsApart => RepositoryHasOneProject
  BY DEF ProjectsApart, Distinguished, RepositoryHasOneProject, Registered

-----------------------------------------------------------------------------
OneAtATimeInv ==
  /\ Shape /\ LeasesApart /\ QueueInOrder /\ AccessInv /\ HistoriesApart
  /\ SnapshotsAreValid /\ ContractsAreBound /\ ItemsAreOfEvents /\ ProjectsApart

LEMMA InitOneAtATime == Init => OneAtATimeInv
<1> SUFFICES ASSUME Init PROVE OneAtATimeInv
  OBVIOUS
<1>1. Shape /\ AccessInv /\ FailuresShape
  BY InitShape, InitAccess, InitFailures
<1>2. LeasesApart /\ QueueInOrder
  BY EmptyIsSeq DEF Init, LeasesApart, QueueInOrder, MergesInOrder, NoLeases, NoQueue
<1>3. /\ \A x \in Registries : state[x] = <<>>
      /\ Failures.history = <<>> /\ state.events = <<>>
  BY DEF Init, Registries, Failures, NoFailures
<1>4. OneOfARevision(<<>>) /\ ToSet(<<>>) = {}
  BY EmptyIsSeq DEF OneOfARevision, ToSet
<1>5. HistoriesApart
  BY <1>1, <1>3, <1>4, EmptyIsSeq DEF HistoriesApart
<1>6. SnapshotsAreValid /\ ContractsAreBound
  BY <1>3, <1>4, EmptyIsSeq DEF SnapshotsAreValid, ContractsAreBound, Registries, Graphs, Contracts
<1>7. ItemsAreOfEvents
  BY <1>3, EmptyIsSeq DEF Init, ItemsAreOfEvents, ItemsAnswerChanges, NoInbox
<1>8. ProjectsApart
  BY DEF Init, ProjectsApart, Distinguished, NoProjects, NoProbes
<1> QED BY <1>1, <1>2, <1>5, <1>6, <1>7, <1>8 DEF OneAtATimeInv

LEMMA StepOneAtATime ==
  ASSUME OneAtATimeInv, [Next]_vars
  PROVE  OneAtATimeInv'
  BY StepShape, StepLeases, StepQueue, StepAccess, StepHistories, StepSnapshots, StepContracts,
     StepItemsAreOfEvents, StepProjects
  DEF OneAtATimeInv

\* What must be one is one, for any pools of tasks, links, registries, graphs, changes and
\* projects: the lease of a file, the front of the queue, the session of a link, the
\* requests of a window, the decision in force, the version an edge consumes, the item for
\* a change, the project of a repository, the snapshot of a revision.
THEOREM OneAtATimeHolds == Spec => []OneAtATime
<1>1. OneAtATimeInv => OneAtATime
  <2>1. OneAtATimeInv => /\ OneOfARevision(Failures.history)
                         /\ \A r \in {"decisions", "lifecycle", "knowledge", "graphs",
                                      "contracts", "census", "environment"} : OneOfARevision(state[r])
    BY DEF OneAtATimeInv, HistoriesApart, Registries
  <2>2. OneAtATimeInv => /\ LeasesAreDisjoint(Files) /\ MergesInOrder /\ LinksOpenOnce
                         /\ RateIsBounded /\ OneInForce /\ ActiveEdgesAreServed
                         /\ ItemsAnswerChanges /\ RepositoryHasOneProject
    BY ApartIsDisjoint, AccessIsBounded, ValidIsOneInForce, BoundIsServed, ApartIsOneProject
    DEF OneAtATimeInv, QueueInOrder, ItemsAreOfEvents
  <2> QED BY <2>1, <2>2 DEF OneAtATime
<1> QED BY <1>1, InitOneAtATime, StepOneAtATime, PTL DEF Spec

-----------------------------------------------------------------------------
(***************************************************************************)
(* The sections keep what they recorded and what is settled: Sections      *)
(* implements History.  What a history holds is not changed because every  *)
(* call leaves it alone or appends to it; what is settled stays because no *)
(* call moves it on, and because what is kept in memory beside it agrees.  *)
(***************************************************************************)

-----------------------------------------------------------------------------
(***************************************************************************)
(* What extends a sequence.                                                *)
(***************************************************************************)
LEMMA KeptIsExtended ==
  ASSUME NEW s, NEW t, IsSeq(s), IsSeq(t), Len(s) <= Len(t), \A i \in 1..Len(s) : t[i] = s[i]
  PROVE  Promise!Extends(s, t)
<1>1. PICK S : s \in Seq(S)
  BY DEF IsSeq
<1> DEFINE n == Len(s)
           u == SubSeq(t, 1, n)
<1>2. n \in Nat /\ \A i \in 1..n : s[i] \in S /\ t[i] \in S
  BY <1>1
<1>3. u \in Seq(S) /\ Len(u) = n /\ \A i \in 1..n : u[i] = t[i]
  <2> HIDE DEF n
  <2>1. /\ u \in Seq(S) /\ Len(u) = IF 1 <= n THEN n - 1 + 1 ELSE 0
        /\ \A i \in 1..(n - 1 + 1) : u[i] = t[1 + i - 1]
    BY <1>2, SubSeqProperties
  <2>2. n - 1 + 1 = n /\ (IF 1 <= n THEN n - 1 + 1 ELSE 0) = n /\ \A i \in 1..n : 1 + i - 1 = i
    BY <1>2
  <2> QED BY <2>1, <2>2
<1>4. u = s
  <2> HIDE DEF u
  <2> QED BY <1>1, <1>3, SeqEqual
<1> QED BY <1>4 DEF Promise!Extends

LEMMA FunctionIsSeq ==
  ASSUME NEW n \in Nat, NEW f, DOMAIN f = 1..n, f = [i \in 1..n |-> f[i]]
  PROVE  IsSeq(f) /\ Len(f) = n
<1> DEFINE S == {f[i] : i \in 1..n}
<1>1. f \in [1..n -> S]
  OBVIOUS
<1>2. f \in Seq(S)
  BY <1>1, SeqDef
<1> QED BY <1>2, LenProperties DEF IsSeq

LEMMA AppendExtends ==
  ASSUME NEW s, IsSeq(s)
  PROVE  Promise!Extends(s, s) /\ \A e : Promise!Extends(s, Append(s, e))
<1>1. Len(s) \in Nat
  BY AppendIsSeq
<1>2. Promise!Extends(s, s)
  BY <1>1, KeptIsExtended
<1>3. ASSUME NEW e PROVE Promise!Extends(s, Append(s, e))
  <2>1. /\ IsSeq(Append(s, e)) /\ Len(s) <= Len(Append(s, e))
        /\ \A i \in 1..Len(s) : Append(s, e)[i] = s[i]
    BY <1>1, AppendIsSeq
  <2> QED BY <2>1, KeptIsExtended
<1> QED BY <1>2, <1>3

\* A history that records a part of each element of a sequence.
PartsOf(f, s) == f = [i \in DOMAIN s |-> f[i]]

LEMMA PartsExtend ==
  ASSUME NEW s, NEW t, IsSeq(s), IsSeq(t), Len(s) <= Len(t),
         NEW f, PartsOf(f, s), NEW g, PartsOf(g, t),
         \A i \in DOMAIN s : g[i] = f[i]
  PROVE  Promise!Extends(f, g)
<1>1. /\ Len(s) \in Nat /\ DOMAIN s = 1..Len(s)
      /\ Len(t) \in Nat /\ DOMAIN t = 1..Len(t)
  BY AppendIsSeq
<1>2. /\ DOMAIN f = DOMAIN s /\ f = [i \in DOMAIN s |-> f[i]]
      /\ DOMAIN g = DOMAIN t /\ g = [i \in DOMAIN t |-> g[i]]
  BY DEF PartsOf
<1>3. IsSeq(f) /\ Len(f) = Len(s)
  BY <1>1, <1>2, FunctionIsSeq
<1>4. IsSeq(g) /\ Len(g) = Len(t)
  BY <1>1, <1>2, FunctionIsSeq
<1> QED BY <1>1, <1>3, <1>4, KeptIsExtended

-----------------------------------------------------------------------------
(***************************************************************************)
(* The histories, one after the other.                                     *)
(***************************************************************************)
LEMMA LeasesExtend ==
  ASSUME Shape, LeasesApart, [Next]_vars
  PROVE  Promise!Extends(Histories.leases, Histories'.leases)
<1> DEFINE Of(l) == <<l.task, l.host, l.generation>>
           f == [i \in DOMAIN state.leases |-> Of(state.leases[i])]
           g == [i \in DOMAIN state'.leases |-> Of(state'.leases[i])]
           Kept == \A i \in DOMAIN state.leases :
                     i \in DOMAIN state'.leases /\ Of(state'.leases[i]) = Of(state.leases[i])
<1>1. Histories.leases = f /\ Histories'.leases = g
  BY DEF Histories
<1>2. IsSeq(state.leases) /\ IsSeq(state'.leases)
  BY StepLeases DEF LeasesApart
<1>3. /\ Len(state.leases) \in Nat /\ DOMAIN state.leases = 1..Len(state.leases)
  BY <1>2, AppendIsSeq
<1>4. ASSUME NEW t, NEW h, AcquireScopeLease(t, h)
      PROVE  Len(state.leases) <= Len(state'.leases) /\ Kept
  <2>1. \E e : state'.leases = Append(state.leases, e)
    BY <1>4 DEF AcquireScopeLease, Save, Shape
  <2>2. /\ Len(state'.leases) = Len(state.leases) + 1
        /\ \A i \in DOMAIN state.leases : i \in DOMAIN state'.leases /\ state'.leases[i] = state.leases[i]
    BY <1>2, <1>3, <2>1, AppendIsSeq
  <2> HIDE DEF Of
  <2> QED BY <1>3, <2>2
<1>5. ASSUME NEW id, ReleaseScopeLease(id)
      PROVE  Len(state.leases) <= Len(state'.leases) /\ Kept
  <2>1. PICK k \in DOMAIN state.leases : state'.leases = [state.leases EXCEPT ![k].status = "RELEASED"]
    BY <1>5 DEF ReleaseScopeLease, Save, Shape
  <2> DEFINE e == [state.leases[k] EXCEPT !.status = "RELEASED"]
  <2>2. state'.leases = [state.leases EXCEPT ![k] = e]
    BY <2>1
  <2>3. DOMAIN state.leases[k] = {"task", "repository", "scope", "host", "status", "generation"}
    BY DEF LeasesApart
  <2>4. Of(e) = Of(state.leases[k])
    BY <2>3
  <2> HIDE DEF e
  <2>5. /\ Len(state'.leases) = Len(state.leases) /\ DOMAIN state'.leases = DOMAIN state.leases
        /\ \A i \in DOMAIN state.leases : state'.leases[i] = IF i = k THEN e ELSE state.leases[i]
    BY <1>2, <2>2, ReplacedIsSeq
  <2> HIDE DEF Of
  <2>6. ASSUME NEW i \in DOMAIN state.leases PROVE Of(state'.leases[i]) = Of(state.leases[i])
    BY <2>4, <2>5
  <2> QED BY <1>3, <2>5, <2>6
<1>6. ASSUME state'.leases = state.leases
      PROVE  Len(state.leases) <= Len(state'.leases) /\ Kept
  BY <1>3, <1>6
<1>7. Len(state.leases) <= Len(state'.leases) /\ Kept
  <2>1. state'["leases"] # state["leases"] => LeasesNext
    BY Owners DEF Shape
  <2>2. state'.leases # state.leases => \/ \E t, h : AcquireScopeLease(t, h)
                                       \/ \E id : ReleaseScopeLease(id)
    BY <2>1 DEF LeasesNext
  <2> HIDE DEF Kept
  <2> QED BY <1>4, <1>5, <1>6, <2>2
<1>8. PartsOf(f, state.leases) /\ PartsOf(g, state'.leases) /\ \A i \in DOMAIN state.leases : g[i] = f[i]
  <2> HIDE DEF Of
  <2> QED BY <1>7 DEF PartsOf
<1> HIDE DEF f, g, Kept
<1>9. Promise!Extends(f, g)
  BY <1>2, <1>7, <1>8, PartsExtend
<1> QED BY <1>1, <1>9

\* An entry of the queue keeps its task and the head it expects, and one that is
\* integrated stays as it is.
EntriesKept ==
  \A i \in DOMAIN state.queue :
    /\ i \in DOMAIN state'.queue
    /\ state'.queue[i].task = state.queue[i].task
    /\ state'.queue[i].expected = state.queue[i].expected
    /\ ~Waiting(state.queue[i]) => state'.queue[i] = state.queue[i]

LEMMA QueueMoves ==
  ASSUME Shape, QueueInOrder, [Next]_vars
  PROVE  Len(state.queue) <= Len(state'.queue) /\ EntriesKept
<1>1. IsSeq(state.queue)
  BY DEF QueueInOrder
<1>2. Len(state.queue) \in Nat /\ DOMAIN state.queue = 1..Len(state.queue)
  BY <1>1, AppendIsSeq
<1>3. ASSUME NEW e, state'.queue = Append(state.queue, e)
      PROVE  Len(state.queue) <= Len(state'.queue) /\ EntriesKept
  <2>1. /\ Len(state'.queue) = Len(state.queue) + 1
        /\ \A i \in DOMAIN state.queue : i \in DOMAIN state'.queue /\ state'.queue[i] = state.queue[i]
    BY <1>1, <1>2, <1>3, AppendIsSeq
  <2> QED BY <1>2, <2>1 DEF EntriesKept
<1>4. ASSUME NEW k \in DOMAIN state.queue, Waiting(state.queue[k]),
             NEW e, state'.queue = [state.queue EXCEPT ![k] = e],
             e.task = state.queue[k].task, e.expected = state.queue[k].expected
      PROVE  Len(state.queue) <= Len(state'.queue) /\ EntriesKept
  <2>1. /\ Len(state'.queue) = Len(state.queue) /\ DOMAIN state'.queue = DOMAIN state.queue
        /\ \A i \in DOMAIN state.queue : state'.queue[i] = IF i = k THEN e ELSE state.queue[i]
    BY <1>1, <1>4, ReplacedIsSeq
  <2> QED BY <1>2, <1>4, <2>1 DEF EntriesKept
<1>5. \A k \in DOMAIN state.queue :
        DOMAIN state.queue[k] = {"task", "repository", "expected", "integrated", "status"}
  BY DEF QueueInOrder
<1>6. ASSUME NEW t, NEW pushed, Enqueue(t, pushed) PROVE \E e : state'.queue = Append(state.queue, e)
  BY <1>6 DEF Enqueue, Save, Shape
<1>7. ASSUME NEW id, RequireReadyForMerge(id)
      PROVE  Len(state.queue) <= Len(state'.queue) /\ EntriesKept
  <2>1. PICK k \in DOMAIN state.queue :
          /\ Waiting(state.queue[k])
          /\ \E s : Save("queue", [state.queue EXCEPT ![k].status = s])
    BY <1>7 DEF RequireReadyForMerge
  <2>2. PICK s : Save("queue", [state.queue EXCEPT ![k].status = s])
    BY <2>1
  <2> DEFINE e == [state.queue[k] EXCEPT !.status = s]
  <2>3. state'.queue = [state.queue EXCEPT ![k] = e]
    BY <2>2 DEF Save, Shape
  <2>4. e.task = state.queue[k].task /\ e.expected = state.queue[k].expected
    BY <1>5
  <2> HIDE DEF e
  <2> QED BY <1>4, <2>1, <2>3, <2>4
<1>8. ASSUME NEW id, NEW sha, NEW a, MarkIntegrated(id, sha, a)
      PROVE  Len(state.queue) <= Len(state'.queue) /\ EntriesKept
  <2>1. PICK k \in DOMAIN state.queue :
          /\ state.queue[k].status = "READY"
          /\ Save("queue", [state.queue EXCEPT ![k].status = "INTEGRATED", ![k].integrated = sha])
    BY <1>8 DEF MarkIntegrated
  <2> DEFINE e == [state.queue[k] EXCEPT !.status = "INTEGRATED", !.integrated = sha]
  <2>2. state'.queue = [state.queue EXCEPT ![k] = e]
    BY <2>1 DEF Save, Shape
  <2>3. e.task = state.queue[k].task /\ e.expected = state.queue[k].expected
    BY <1>5
  <2> HIDE DEF e
  <2>4. Waiting(state.queue[k])
    BY <2>1 DEF Waiting
  <2> QED BY <1>4, <2>2, <2>3, <2>4
<1>9. ASSUME state'.queue = state.queue
      PROVE  Len(state.queue) <= Len(state'.queue) /\ EntriesKept
  BY <1>2, <1>9 DEF EntriesKept
<1>10. ASSUME NEW r, NEW sha, HeadMoves(r, sha) PROVE state'.queue = state.queue
  BY <1>10 DEF HeadMoves
<1>11. state'["queue"] # state["queue"] => QueueNext
  BY Owners DEF Shape
<1>12. CASE QueueNext
  BY <1>3, <1>6, <1>7, <1>8, <1>9, <1>10, <1>12 DEF QueueNext
<1> QED BY <1>9, <1>11, <1>12

LEMMA QueueExtends ==
  ASSUME Shape, QueueInOrder, [Next]_vars
  PROVE  Promise!Extends(Histories.queue, Histories'.queue)
<1> DEFINE Of(e) == <<e.task, e.expected>>
           f == [i \in DOMAIN state.queue |-> Of(state.queue[i])]
           g == [i \in DOMAIN state'.queue |-> Of(state'.queue[i])]
<1>1. Histories.queue = f /\ Histories'.queue = g
  BY DEF Histories
<1>2. IsSeq(state.queue) /\ IsSeq(state'.queue)
  BY StepQueue DEF QueueInOrder
<1>3. Len(state.queue) <= Len(state'.queue) /\ EntriesKept
  BY QueueMoves
<1>4. \A i \in DOMAIN state.queue : i \in DOMAIN state'.queue /\ Of(state'.queue[i]) = Of(state.queue[i])
  BY <1>3 DEF EntriesKept
<1>5. PartsOf(f, state.queue) /\ PartsOf(g, state'.queue) /\ \A i \in DOMAIN state.queue : g[i] = f[i]
  <2> HIDE DEF Of
  <2> QED BY <1>4 DEF PartsOf
<1> HIDE DEF f, g
<1>6. Promise!Extends(f, g)
  BY <1>2, <1>3, <1>5, PartsExtend
<1> QED BY <1>1, <1>6

\* A section that keeps snapshots is left alone or appended to.
LEMMA RegistriesExtend ==
  ASSUME Shape, HistoriesApart, [Next]_vars, NEW x \in Registries
  PROVE  Promise!Extends(state[x], state'[x])
<1>1. IsSeq(state[x])
  BY DEF HistoriesApart
<1>2. (\E e : state'[x] = Append(state[x], e)) => Promise!Extends(state[x], state'[x])
  BY <1>1, AppendExtends
<1>3. state'[x] = state[x] => Promise!Extends(state[x], state'[x])
  BY <1>1, AppendExtends
<1>4. CASE x \in {"decisions", "lifecycle", "knowledge"}
  BY <1>2, <1>3, <1>4, DecisionsGrow, LifecycleGrows, KnowledgeGrows
<1>5. CASE x = "graphs"
  BY <1>2, <1>3, <1>5, ChangesGrow
<1>6. CASE x = "contracts"
  <2>1. ASSUME NEW c, NEW g, ImportContracts(c, g) PROVE \E e : state'.contracts = Append(state.contracts, e)
    BY <2>1 DEF ImportContracts, Save, Shape
  <2> QED BY <1>2, <1>3, <1>6, <2>1, ChangesGrow
<1>7. CASE x = "census"
  BY <1>2, <1>3, <1>7, CensusGrows
<1>8. CASE x = "environment"
  <2>1. state'.environment # state.environment =>
          \E e : state'.environment = Append(state.environment, e)
    BY EnvironmentGrows
  <2> QED BY <1>2, <1>3, <1>8, <2>1
<1> QED BY <1>4, <1>5, <1>6, <1>7, <1>8 DEF Registries

LEMMA EventsExtend ==
  ASSUME Shape, ItemsAreOfEvents, [Next]_vars
  PROVE  Promise!Extends(state.events, state'.events)
<1>1. IsSeq(state.events)
  BY DEF ItemsAreOfEvents
<1>2. ASSUME NEW v, NEW g, NEW c, RegisterAcceptedChange(v, g, c)
      PROVE  \E e : state'.events = Append(state.events, e)
  BY <1>2 DEF RegisterAcceptedChange, Save, Shape
<1> QED BY <1>1, <1>2, ChangesGrow, AppendExtends

LEMMA FailuresExtend ==
  ASSUME Shape, FailuresShape, [Next]_vars
  PROVE  /\ Promise!Extends(Failures.history, state'.failures.history)
         /\ Promise!Extends(Failures.observations, state'.failures.observations)
         /\ Promise!Extends(Failures.decisions, state'.failures.decisions)
<1>1. FailuresGrow
  BY FailureMoves
<1>2. \A s : IsSeq(s) => Promise!Extends(s, s) /\ \A e : Promise!Extends(s, Append(s, e))
  BY AppendExtends
<1> QED BY <1>1, <1>2 DEF FailuresGrow, FailuresShape

LEMMA StepRecords ==
  ASSUME Shape, LeasesApart, QueueInOrder, HistoriesApart, ItemsAreOfEvents, [Next]_vars
  PROVE  Promise!Record
<1> DEFINE Names == {"leases", "queue", "registries", "observations", "retries", "decisions",
                     "lifecycle", "knowledge", "graphs", "contracts", "events", "census", "environment"}
<1>1. DOMAIN Histories = Names /\ DOMAIN Histories' = Names
  BY DEF Histories
<1>2. /\ \A x \in Registries : Histories[x] = state[x] /\ Histories'[x] = state'[x]
      /\ Histories["events"] = state.events /\ Histories'["events"] = state'.events
  BY DEF Histories, Registries
<1>3. /\ Histories["registries"] = Failures.history
      /\ Histories'["registries"] = state'.failures.history
      /\ Histories["observations"] = Failures.observations
      /\ Histories'["observations"] = state'.failures.observations
      /\ Histories["retries"] = Failures.decisions
      /\ Histories'["retries"] = state'.failures.decisions
  BY DEF Histories, Failures
<1>4. \A x \in Registries : Promise!Extends(Histories[x], Histories'[x])
  BY <1>2, RegistriesExtend
<1>5. Promise!Extends(Histories["events"], Histories'["events"])
  BY <1>2, EventsExtend
<1>6. \A x \in {"registries", "observations", "retries"} : Promise!Extends(Histories[x], Histories'[x])
  BY <1>3, FailuresExtend DEF HistoriesApart
<1>7. \A x \in {"leases", "queue"} : Promise!Extends(Histories[x], Histories'[x])
  BY LeasesExtend, QueueExtends
<1>8. \A x \in Names : Promise!Extends(Histories[x], Histories'[x])
  BY <1>4, <1>5, <1>6, <1>7 DEF Registries
<1> QED BY <1>1, <1>8 DEF Promise!Record

-----------------------------------------------------------------------------
(***************************************************************************)
(* Sessions of the remote channel.  A session that was saved as completed  *)
(* is completed in memory as well, so no later save changes it: without    *)
(* that, a change that was not saved could be saved over it.               *)
(***************************************************************************)
Ended(t) == t \in DOMAIN state.rdc /\ state.rdc[t].lifecycle = "COMPLETED"

HoldsEnded(records) == \A t : Ended(t) => t \in DOMAIN records /\ records[t] = state.rdc[t]

EndedIsInMemory == HoldsEnded(memory.rdc)

LEMMA StepSessions ==
  ASSUME Shape, EndedIsInMemory, [Next]_vars
  PROVE  EndedIsInMemory' /\ HoldsEnded(state'.rdc)
<1> DEFINE Goal == EndedIsInMemory' /\ HoldsEnded(state'.rdc)
<1>1. ASSUME NEW records, Persisted(records), HoldsEnded(records) PROVE Goal
  <2>1. memory'.rdc = records /\ state'.rdc \in {records, state.rdc}
    BY <1>1 DEF Persisted, Keep, Shape
  <2>2. CASE state'.rdc = records
    BY <1>1, <2>1, <2>2 DEF EndedIsInMemory, HoldsEnded, Ended
  <2>3. CASE state'.rdc = state.rdc
    BY <1>1, <2>1, <2>3 DEF EndedIsInMemory, HoldsEnded, Ended
  <2> QED BY <2>1, <2>2, <2>3
<1>2. ASSUME NEW t, NEW r, Update(t, r), Sessions[t].lifecycle # "COMPLETED" PROVE Goal
  <2> DEFINE records == [Sessions EXCEPT ![t] = Advanced(r)]
  <2>1. Persisted(records)
    BY <1>2 DEF Update
  <2>2. HoldsEnded(records)
    BY <1>2 DEF EndedIsInMemory, HoldsEnded, Ended, Sessions
  <2> HIDE DEF records
  <2> QED BY <1>1, <2>1, <2>2
<1>3. ASSUME NEW c, NEW q, StartSession(c, q) PROVE Goal
  <2>1. PICK e : c.task \notin DOMAIN Sessions /\ Persisted(With(Sessions, c.task, e))
    BY <1>3 DEF StartSession
  <2>2. HoldsEnded(With(Sessions, c.task, e))
    BY <2>1 DEF EndedIsInMemory, HoldsEnded, Sessions, With
  <2> QED BY <1>1, <2>1, <2>2
<1>4. \A t : Sessions[t].lifecycle \in OpenLifecycle \/ Sessions[t].lifecycle = "INTERRUPTED"
               => Sessions[t].lifecycle # "COMPLETED"
  BY DEF OpenLifecycle
<1>5. ASSUME NEW t, NEW a, NEW q, RecordAction(t, a, q) PROVE Goal
  BY <1>2, <1>4, <1>5 DEF RecordAction
<1>6. ASSUME NEW t, InterruptSession(t) PROVE Goal
  BY <1>2, <1>4, <1>6 DEF InterruptSession
<1>7. ASSUME NEW c, NEW q, ResumeSession(c, q) PROVE Goal
  BY <1>2, <1>4, <1>7 DEF ResumeSession
<1>8. ASSUME NEW t, NEW b, RecordManualRelayException(t, b) PROVE Goal
  BY <1>2, <1>4, <1>8 DEF RecordManualRelayException
<1>9. ASSUME NEW t, CompleteSession(t) PROVE Goal
  BY <1>2, <1>4, <1>9 DEF CompleteSession
<1>10. ASSUME RestoreSessions PROVE Goal
  <2>1. memory'.rdc = state.rdc /\ state' = state
    BY <1>10 DEF RestoreSessions, Shape
  <2> QED BY <2>1 DEF EndedIsInMemory, HoldsEnded, Ended
<1>11. ASSUME state'.rdc = state.rdc, memory'.rdc = memory.rdc PROVE Goal
  BY <1>11 DEF EndedIsInMemory, HoldsEnded, Ended
<1>12. /\ state'["rdc"] # state["rdc"] => RdcNext
       /\ memory'["rdc"] # memory["rdc"] => RdcNext
  BY Owners, OwnersOfMemory DEF Shape
<1> HIDE DEF Goal
<1>13. ASSUME RdcNext PROVE Goal
  BY <1>3, <1>5, <1>6, <1>7, <1>8, <1>9, <1>10, <1>13 DEF RdcNext
<1> QED BY <1>11, <1>12, <1>13 DEF Goal

-----------------------------------------------------------------------------
(***************************************************************************)
(* The items of the inbox, incidents and skills: an end is an end.         *)
(***************************************************************************)
LEMMA StepResolved ==
  ASSUME Shape, [Next]_vars, NEW k \in DOMAIN state.inbox, state.inbox[k].status = "RESOLVED"
  PROVE  k \in DOMAIN state'.inbox /\ state'.inbox[k] = state.inbox[k]
<1>1. CASE SyncRegistry
  <2>1. PICK n \in DOMAIN state.events :
          state'.inbox = Ingested(state.inbox, {state.events[i] : i \in 1..n})
    BY <1>1, SaveIs DEF SyncRegistry, Shape
  <2> QED BY <2>1 DEF Ingested
<1>2. ASSUME NEW x, NEW p, NEW expected, NEW new, NEW e, NEW r, Transition(x, p, expected, new, e, r)
      PROVE  k \in DOMAIN state'.inbox /\ state'.inbox[k] = state.inbox[k]
  <2>1. /\ x \in DOMAIN state.inbox /\ new \in AllowedTransitions[state.inbox[x].status]
        /\ \E item : state'.inbox = [state.inbox EXCEPT ![x] = item]
    BY <1>2, SaveIs DEF Transition, Shape
  <2>2. AllowedTransitions["RESOLVED"] = {}
    BY DEF AllowedTransitions
  <2>3. x # k
    BY <2>1, <2>2
  <2> QED BY <2>1, <2>3
<1> QED BY <1>1, <1>2, ChangesGrow

LearningShape == DOMAIN Learning = {"incidents", "candidates"}

Closed(i) == i \in DOMAIN Learning.incidents /\ Learning.incidents[i].status = "CLOSED"

LEMMA StepIncidents ==
  ASSUME Shape, LearningShape, [Next]_vars
  PROVE  /\ LearningShape'
         /\ \A i : Closed(i) => /\ i \in DOMAIN state'.learning.incidents
                                /\ state'.learning.incidents[i] = Learning.incidents[i]
<1> DEFINE Kept == /\ DOMAIN state'.learning = {"incidents", "candidates"}
                   /\ \A i : Closed(i) => /\ i \in DOMAIN state'.learning.incidents
                                          /\ state'.learning.incidents[i] = Learning.incidents[i]
<1>1. DOMAIN Learning = {"incidents", "candidates"}
  BY DEF LearningShape
<1>2. ASSUME NEW v, Save("learning", v) PROVE state'.learning = v
  BY <1>2 DEF Save, Shape
<1>3. ASSUME NEW i, NEW n, state'.learning = [Learning EXCEPT !.incidents[i] = n], ~Closed(i) PROVE Kept
  BY <1>1, <1>3 DEF Closed
<1>4. ASSUME NEW i, NEW n, Replace(i, n), StatusOf(i) # "CLOSED" PROVE Kept
  <2>1. state'.learning = [Learning EXCEPT !.incidents[i] = n]
    BY <1>2, <1>4 DEF Replace
  <2>2. ~Closed(i)
    BY <1>4 DEF Closed, StatusOf
  <2> QED BY <1>3, <2>1, <2>2
<1>5. ASSUME NEW i, NEW id, OpenIncident(i, id) PROVE Kept
  <2>1. PICK n : /\ i \notin DOMAIN Learning.incidents
                 /\ state'.learning = [Learning EXCEPT !.incidents = With(@, i, n)]
    BY <1>2, <1>5 DEF OpenIncident
  <2>2. /\ DOMAIN state'.learning = {"incidents", "candidates"}
        /\ state'.learning.incidents = With(Learning.incidents, i, n)
    BY <1>1, <2>1
  <2> QED BY <2>1, <2>2 DEF With, Closed
<1>6. ASSUME NEW i, NEW c, ClassifyRootCause(i, c) PROVE Kept
  BY <1>4, <1>6 DEF ClassifyRootCause
<1>7. ASSUME NEW i, BindLearning(i) PROVE Kept
  BY <1>4, <1>7 DEF BindLearning
<1>8. ASSUME NEW i, NEW d, VerifyPrevention(i, d) PROVE Kept
  BY <1>4, <1>8 DEF VerifyPrevention
<1>9. ASSUME NEW i, CloseIncident(i) PROVE Kept
  <2> DEFINE closed == [Learning EXCEPT !.incidents[i].status = "CLOSED"]
  <2>1. /\ StatusOf(i) = "PREVENTION_VERIFIED"
        /\ state'.learning = closed \/ \E c : state'.learning = [closed EXCEPT !.candidates = c]
    BY <1>2, <1>9 DEF CloseIncident, Shape
  <2>2. /\ DOMAIN closed = {"incidents", "candidates"}
        /\ \E n : closed.incidents = [Learning.incidents EXCEPT ![i] = n]
    BY <1>1
  <2> HIDE DEF closed
  <2>3. /\ DOMAIN state'.learning = {"incidents", "candidates"}
        /\ \E n : state'.learning.incidents = [Learning.incidents EXCEPT ![i] = n]
    BY <2>1, <2>2
  <2>4. ~Closed(i)
    BY <2>1 DEF Closed, StatusOf
  <2> QED BY <2>3, <2>4 DEF Closed
<1>10. ASSUME state'.learning = state.learning PROVE Kept
  BY <1>1, <1>10 DEF Closed, Learning
<1>11. state'["learning"] # state["learning"] => IncidentsNext
  BY Owners DEF Shape
<1>12. Kept
  <2> HIDE DEF Kept
  <2>1. ASSUME IncidentsNext PROVE Kept
    BY <1>5, <1>6, <1>7, <1>8, <1>9, <2>1 DEF IncidentsNext
  <2> QED BY <1>10, <1>11, <2>1
<1> QED BY <1>12 DEF LearningShape, Learning

LEMMA StepSkills ==
  ASSUME Shape, [Next]_vars, NEW k \in DOMAIN state.skills, state.skills[k].stage \in {"REJECTED", "REVOKED"}
  PROVE  k \in DOMAIN state'.skills /\ state'.skills[k] = state.skills[k]
<1> DEFINE Kept == k \in DOMAIN state'.skills /\ state'.skills[k] = state.skills[k]
<1>1. ASSUME NEW s, RegisterSkill(s) PROVE Kept
  <2>1. s.id \notin DOMAIN state.skills /\ state'.skills = With(state.skills, s.id, s)
    BY <1>1 DEF RegisterSkill, Shape
  <2> QED BY <2>1 DEF With
<1>2. ASSUME NEW id, NEW stage, TransitionSkill(id, stage) PROVE Kept
  <2>1. /\ stage \in NextStages(state.skills[id].stage)
        /\ \E e : state'.skills = [state.skills EXCEPT ![id] = e]
    BY <1>2 DEF TransitionSkill, Shape
  <2>2. NextStages("REJECTED") = {} /\ NextStages("REVOKED") = {}
    BY DEF NextStages
  <2>3. id # k
    BY <2>1, <2>2
  <2> QED BY <2>1, <2>3
<1>3. ASSUME NEW id, NEW l, LoadSkill(id, l) PROVE Kept
  BY <1>3 DEF LoadSkill
<1>4. state'["skills"] # state["skills"] => SkillsNext
  BY Owners DEF Shape
<1>5. ASSUME SkillsNext PROVE Kept
  <2> HIDE DEF Kept
  <2> QED BY <1>1, <1>2, <1>3, <1>5 DEF SkillsNext
<1> QED BY <1>4, <1>5

-----------------------------------------------------------------------------
(***************************************************************************)
(* Direct sessions and the run.                                            *)
(***************************************************************************)
SessionsAreNew ==
  /\ DOMAIN state.direct \subseteq outside.sessions /\ DOMAIN memory.direct \subseteq outside.sessions
  /\ DOMAIN state.direct \cap DOMAIN memory.direct = {}

LEMMA StepDirect ==
  ASSUME Shape, SessionsAreNew, [Next]_vars
  PROVE  /\ SessionsAreNew'
         /\ \A s \in DOMAIN state.direct : s \in DOMAIN state'.direct /\ state'.direct[s] = state.direct[s]
<1> DEFINE Goal == /\ SessionsAreNew'
                   /\ \A s \in DOMAIN state.direct :
                        s \in DOMAIN state'.direct /\ state'.direct[s] = state.direct[s]
<1>1. ASSUME NEW s, NEW c, StartDirect(s, c) PROVE Goal
  <2>1. /\ s \notin outside.sessions /\ state' = state
        /\ memory'.direct = With(memory.direct, s, c)
        /\ outside'.sessions = outside.sessions \cup {s}
    BY <1>1 DEF StartDirect, Shape
  <2> QED BY <2>1 DEF SessionsAreNew, With
<1>2. ASSUME NEW s, NEW x, AnswerDirect(s, x) PROVE Goal
  <2>1. PICK e : /\ s \in DOMAIN memory.direct /\ outside' = outside
                 /\ memory'.direct = [y \in DOMAIN memory.direct \ {s} |-> memory.direct[y]]
                 /\ state'.direct = With(state.direct, s, e)
    BY <1>2 DEF AnswerDirect, Shape
  <2> QED BY <2>1 DEF SessionsAreNew, With
<1>3. ASSUME DirectEnds PROVE Goal
  <2>1. memory'.direct = NoDirect /\ state' = state /\ outside' = outside
    BY <1>3 DEF DirectEnds, Shape
  <2> QED BY <2>1 DEF SessionsAreNew, NoDirect
<1>4. ASSUME state'.direct = state.direct, memory'.direct = memory.direct,
             outside'.sessions = outside.sessions
      PROVE  Goal
  BY <1>4 DEF SessionsAreNew
<1>5. /\ state'["direct"] # state["direct"] => DirectNext
      /\ memory'["direct"] # memory["direct"] => DirectNext
      /\ outside'["sessions"] # outside["sessions"] => DirectNext
  BY Owners, OwnersOfMemory, OwnersOfOutside DEF Shape
<1> HIDE DEF Goal
<1>6. ASSUME DirectNext PROVE Goal
  BY <1>1, <1>2, <1>3, <1>6 DEF DirectNext
<1> QED BY <1>4, <1>5, <1>6 DEF Goal

\* What is saved as verified is as it is in memory, so no restart takes back what came
\* after the verification.
VerifiedIsInMemory == state.run.status = "verified" => memory.run = state.run

LEMMA StepRun ==
  ASSUME Shape, VerifiedIsInMemory, [Next]_vars
  PROVE  VerifiedIsInMemory'
<1> DEFINE Goal == VerifiedIsInMemory'
<1>1. ASSUME state'.run = memory'.run PROVE Goal
  BY <1>1 DEF VerifiedIsInMemory
<1>2. ASSUME NEW r, Keep("run", r) PROVE Goal
  BY <1>1, <1>2 DEF Keep, Shape
<1>3. ASSUME NEW q, VerifyRun(q) PROVE Goal
  <2>1. memory.run.status = "pending_verification"
    BY <1>3 DEF VerifyRun, Run
  <2>2. state.run.status # "verified"
    BY <2>1 DEF VerifiedIsInMemory
  <2>3. \/ \E r : memory' = [memory EXCEPT !.run = r] /\ state' = [state EXCEPT !.run = r]
        \/ state' = state
    BY <1>3 DEF VerifyRun
  <2>4. state'.run = memory'.run \/ state'.run = state.run
    BY <2>3 DEF Shape
  <2> QED BY <1>1, <2>2, <2>4 DEF VerifiedIsInMemory
<1>4. ASSUME OtherTaskSaves PROVE Goal
  <2>1. state'.run = memory.run /\ memory' = memory
    BY <1>4 DEF OtherTaskSaves, Shape
  <2> QED BY <1>1, <2>1 DEF VerifiedIsInMemory
<1>5. ASSUME RestoreRun PROVE Goal
  <2>1. (\E r : Keep("run", r)) \/ (memory'.run = state.run /\ state' = state)
    BY <1>5 DEF RestoreRun, Shape
  <2> QED BY <1>1, <1>2, <2>1
<1>6. ASSUME NEW p, NEW t, NEW m, NEW v, AuthorizeRollup(p, t, m, v) PROVE Goal
  <2>1. state' = state /\ memory' = memory
    BY <1>6 DEF AuthorizeRollup
  <2> QED BY <2>1 DEF VerifiedIsInMemory
<1>7. ASSUME state'.run = state.run, memory'.run = memory.run PROVE Goal
  BY <1>7 DEF VerifiedIsInMemory
<1>8. /\ state'["run"] # state["run"] => EvidenceNext
      /\ memory'["run"] # memory["run"] => EvidenceNext
  BY Owners, OwnersOfMemory DEF Shape
<1> HIDE DEF Goal
<1>9. ASSUME EvidenceNext PROVE Goal
  <2>1. RunMoves => \E r : Keep("run", r)
    BY DEF RunMoves, FailRun, QueueRun, ReturnResult, ContinueRun, CancelRun, AuthorizeRun, PackageRun, RelayRun,
           ImportResult, Moved
  <2> QED BY <1>2, <1>3, <1>4, <1>5, <1>6, <1>9, <2>1 DEF EvidenceNext, ExecutorEnds, RunMoves
<1> QED BY <1>7, <1>8, <1>9 DEF Goal

-----------------------------------------------------------------------------
(***************************************************************************)
(* Projects.  What is saved comes from a snapshot that was loaded, of any  *)
(* age, and keeps its adapters and repositories; so what every snapshot    *)
(* agrees on stays.                                                        *)
(***************************************************************************)
LocalIsNowhere(known) ==
  \A p \in DOMAIN known : known[p].adapter = "local_git" => known[p].stable = Nothing

Snapshots == Loaded \cup {state.projects.known}

ProjectsStay == \A known \in Snapshots : LocalIsNowhere(known)

\* all was made from the snapshot known.
Saves(known, all) ==
  \A p \in DOMAIN known :
    /\ p \in DOMAIN all /\ all[p].adapter = known[p].adapter
    /\ known[p].stable # Nothing => all[p].stable = known[p].stable

LEMMA UpdatedSaves ==
  ASSUME NEW probe, Distinguished(probe.known), LocalIsNowhere(probe.known),
         probe.project \in DOMAIN probe.known,
         NEW found \in Found(probe.known[probe.project]),
         NEW report, report.stable = found.stable,
         NEW all, all = [probe.known EXCEPT ![probe.project] = Updated(@, report)]
  PROVE  Saves(probe.known, all) /\ LocalIsNowhere(all)
<1> DEFINE p == probe.project
           old == probe.known[p]
           new == Updated(old, report)
<1>1. DOMAIN old = ProjectFields
  BY DEF Distinguished
<1>2. new.stable = found.stable /\ new.adapter = old.adapter
  <2> HIDE DEF old
  <2> QED BY <1>1 DEF Updated, ProjectFields
<1>3. /\ DOMAIN all = DOMAIN probe.known /\ all[p] = new
      /\ \A q \in DOMAIN probe.known \ {p} : all[q] = probe.known[q]
  <2>1. all = [probe.known EXCEPT ![p] = new]
    OBVIOUS
  <2> HIDE DEF new
  <2> QED BY <2>1
<1>4. /\ old.stable # Nothing => old.adapter # "local_git"
      /\ old.adapter = "local_git" => found.stable = Nothing
      /\ old.stable # Nothing => found.stable = old.stable
  BY DEF Found, LocalIsNowhere
<1> HIDE DEF new, old, p
<1>5. Saves(probe.known, all)
  BY <1>2, <1>3, <1>4 DEF Saves, old
<1>6. LocalIsNowhere(all)
  BY <1>2, <1>3, <1>4 DEF LocalIsNowhere
<1> QED BY <1>5, <1>6

ProjectsMove ==
  /\ \E known \in Snapshots : Saves(known, state'.projects.known)
  /\ \A i \in DOMAIN memory'.probes : memory'.probes[i].known \in Snapshots
  /\ LocalIsNowhere(state'.projects.known)

LEMMA StepProjectsMove ==
  ASSUME Shape, ProjectsApart, ProjectsStay, [Next]_vars
  PROVE  ProjectsMove
<1>1. \A known : Saves(known, known)
  BY DEF Saves
<1>2. \A i \in DOMAIN memory.probes : /\ memory.probes[i].known \in Snapshots
                                      /\ LocalIsNowhere(memory.probes[i].known)
  BY DEF Snapshots, Loaded, ProjectsStay
<1>3. state.projects.known \in Snapshots /\ LocalIsNowhere(state.projects.known)
  BY DEF Snapshots, ProjectsStay
<1>4. ASSUME state'.projects = state.projects,
             \A i \in DOMAIN memory'.probes : i \in DOMAIN memory.probes /\ memory'.probes[i] = memory.probes[i]
      PROVE  ProjectsMove
  BY <1>1, <1>2, <1>3, <1>4 DEF ProjectsMove
<1>5. ASSUME NEW n, NEW a, NEW h, Intake(n, a, h) PROVE ProjectsMove
  <2> DEFINE new == [name |-> n, stable |-> Nothing, adapter |-> a, head |-> h,
                     status |-> "registered", blocked |-> FALSE]
             known == With(state.projects.known, n, new)
  <2>1. state'.projects.known = known /\ n \notin DOMAIN state.projects.known /\ memory' = memory
    BY <1>5 DEF Intake, Shape, ProjectsApart, Registered
  <2>2. new.stable = Nothing
    OBVIOUS
  <2> HIDE DEF new
  <2>3. Saves(state.projects.known, known)
    BY <2>1 DEF With, Saves
  <2>4. LocalIsNowhere(known)
    BY <1>3, <2>2 DEF With, LocalIsNowhere
  <2> HIDE DEF known
  <2> QED BY <1>2, <1>3, <2>1, <2>3, <2>4 DEF ProjectsMove
<1>6. ASSUME NEW i, NEW p, ProbeStarts(i, p) PROVE ProjectsMove
  <2> DEFINE probe == [project |-> p, known |-> state.projects.known, reports |-> state.projects.reports]
  <2>1. state' = state /\ memory'.probes = With(memory.probes, i, probe)
    BY <1>6 DEF ProbeStarts, Shape
  <2>2. probe.known = state.projects.known
    OBVIOUS
  <2> HIDE DEF probe
  <2>3. \A j \in DOMAIN memory'.probes : memory'.probes[j].known \in Snapshots
    BY <1>2, <1>3, <2>1, <2>2 DEF With
  <2> QED BY <1>1, <1>3, <2>1, <2>3 DEF ProjectsMove
<1>7. ASSUME NEW S, memory' = Forgotten(S)
      PROVE  \A i \in DOMAIN memory'.probes : i \in DOMAIN memory.probes /\ memory'.probes[i] = memory.probes[i]
  BY <1>7 DEF Forgotten, Shape
<1>8. ASSUME NEW i \in DOMAIN memory.probes, memory' = Forgotten({i}),
             Saves(memory.probes[i].known, state'.projects.known), LocalIsNowhere(state'.projects.known)
      PROVE  ProjectsMove
  BY <1>2, <1>7, <1>8 DEF ProjectsMove
<1>9. ASSUME NEW i, NEW f, ProbeAnswers(i, f) PROVE ProjectsMove
  <2> DEFINE probe == memory.probes[i]
  <2>1. /\ i \in DOMAIN memory.probes /\ memory' = Forgotten({i})
        /\ probe.project \in DOMAIN probe.known /\ Distinguished(probe.known)
        /\ LocalIsNowhere(probe.known)
    BY <1>2, <1>9 DEF ProbeAnswers, ProjectsApart
  <2>2. PICK found \in Found(probe.known[probe.project]) :
          state' = [state EXCEPT !.projects =
            [known   |-> [probe.known EXCEPT ![probe.project] = Updated(@, ReportOf(probe, found, f))],
             reports |-> With(probe.reports, probe.project, ReportOf(probe, found, f))]]
    BY <1>9 DEF ProbeAnswers
  <2> DEFINE report == ReportOf(probe, found, f)
             known == [probe.known EXCEPT ![probe.project] = Updated(@, report)]
  <2>3. report.stable = found.stable
    BY DEF ReportOf
  <2>4. state'.projects.known = known
    BY <2>2 DEF Shape
  <2> HIDE DEF report, known
  <2>5. Saves(probe.known, known) /\ LocalIsNowhere(known)
    BY <2>1, <2>3, UpdatedSaves DEF known
  <2> QED BY <1>8, <2>1, <2>4, <2>5
<1>10. ASSUME NEW i, ProbeFails(i) PROVE ProjectsMove
  <2> DEFINE probe == memory.probes[i]
             p == probe.project
             known == [probe.known EXCEPT ![p].status = "blocked", ![p].blocked = TRUE]
  <2>1. /\ i \in DOMAIN memory.probes /\ memory' = Forgotten({i})
        /\ p \in DOMAIN probe.known /\ Distinguished(probe.known) /\ LocalIsNowhere(probe.known)
    BY <1>2, <1>10 DEF ProbeFails, ProjectsApart
  <2>2. state'.projects.known = known
    <3> DEFINE all == [known |-> known, reports |-> probe.reports]
    <3>1. state' = [state EXCEPT !.projects = all]
      BY <1>10 DEF ProbeFails
    <3>2. all.known = known
      OBVIOUS
    <3> HIDE DEF all
    <3>3. state'.projects = all
      BY <3>1 DEF Shape
    <3> QED BY <3>2, <3>3
  <2>3. /\ DOMAIN known = DOMAIN probe.known
        /\ \A q \in DOMAIN probe.known \ {p} : known[q] = probe.known[q]
    OBVIOUS
  <2>4. known[p] = [probe.known[p] EXCEPT !.status = "blocked", !.blocked = TRUE]
    BY <2>1
  <2>5. known[p].stable = probe.known[p].stable /\ known[p].adapter = probe.known[p].adapter
    BY <2>1, <2>4 DEF Distinguished, ProjectFields
  <2> HIDE DEF known, p
  <2>6. Saves(probe.known, known)
    BY <2>3, <2>5 DEF Saves
  <2>7. LocalIsNowhere(known)
    BY <2>1, <2>3, <2>5 DEF LocalIsNowhere
  <2> QED BY <1>8, <2>1, <2>2, <2>6, <2>7
<1>11. ASSUME NEW S, ProbesBreak(S) PROVE ProjectsMove
  BY <1>4, <1>7, <1>11 DEF ProbesBreak
<1>12. ASSUME NEW g, NEW n, RenameRepository(g, n) PROVE ProjectsMove
  BY <1>4, <1>12 DEF RenameRepository
<1>13. ASSUME NEW p, NEW c, PrepareTask(p, c) PROVE ProjectsMove
  BY <1>4, <1>13 DEF PrepareTask
<1>14. /\ state'["projects"] # state["projects"] => IntakesNext \/ ProjectsNext
       /\ memory'["probes"] # memory["probes"] => ProjectsNext
  BY Owners, OwnersOfMemory DEF Shape
<1>15. ASSUME IntakesNext PROVE ProjectsMove
  BY <1>5, <1>15 DEF IntakesNext
<1>16. ASSUME ProjectsNext PROVE ProjectsMove
  BY <1>6, <1>9, <1>10, <1>11, <1>12, <1>13, <1>16 DEF ProjectsNext
<1> QED BY <1>4, <1>14, <1>15, <1>16

LEMMA SnapshotsGrow ==
  ASSUME ProjectsMove
  PROVE  Loaded' \subseteq Snapshots
  BY DEF ProjectsMove, Loaded

LEMMA MoveKeepsProjects ==
  ASSUME ProjectsStay, ProjectsMove
  PROVE  ProjectsStay' /\ KeptProjects \subseteq KeptProjects'
<1>1. Loaded' \subseteq Snapshots
  BY SnapshotsGrow
<1> DEFINE new == state'.projects.known
           old == state.projects.known
<1>2. PICK known \in Snapshots : Saves(known, new)
  BY DEF ProjectsMove
<1>3. ProjectsStay'
  <2>1. LocalIsNowhere(new) /\ \A k \in Loaded' : LocalIsNowhere(k)
    BY <1>1 DEF ProjectsMove, ProjectsStay
  <2> QED BY <2>1 DEF ProjectsStay, Snapshots, LocalIsNowhere
<1>4. ASSUME NEW p \in Registered, NEW field \in {"adapter", "stable"}, Agreed(p, field),
             field = "stable" => old[p].stable # Nothing
      PROVE  p \in Registered' /\ new[p][field] = old[p][field] /\ Agreed(p, field)'
  <2>1. \A k \in Snapshots : p \in DOMAIN k /\ k[p][field] = old[p][field]
    BY <1>4 DEF Snapshots, Agreed, Registered
  <2>2. p \in DOMAIN new /\ new[p][field] = known[p][field]
    BY <1>2, <1>4, <2>1 DEF Saves
  <2>3. p \in DOMAIN new /\ new[p][field] = old[p][field]
    BY <1>2, <2>1, <2>2
  <2>4. \A k \in Loaded' : p \in DOMAIN k /\ k[p][field] = new[p][field]
    BY <1>1, <2>1, <2>3
  <2>5. Agreed(p, field)'
    BY <2>4 DEF Agreed
  <2> QED BY <2>3, <2>5 DEF Registered
<1>5. ASSUME NEW e, e \in KeptProjects PROVE e \in KeptProjects'
  <2>1. CASE \E p \in Registered : Agreed(p, "adapter") /\ e = <<"project", p, old[p].adapter>>
    <3>1. PICK p \in Registered : Agreed(p, "adapter") /\ e = <<"project", p, old[p].adapter>>
      BY <2>1
    <3>2. p \in Registered' /\ new[p].adapter = old[p].adapter /\ Agreed(p, "adapter")'
      BY <1>4, <3>1
    <3> QED BY <3>1, <3>2 DEF KeptProjects
  <2>2. CASE \E p \in Registered : /\ old[p].stable # Nothing /\ Agreed(p, "stable")
                                   /\ e = <<"repository", p, old[p].stable>>
    <3>1. PICK p \in Registered : /\ old[p].stable # Nothing /\ Agreed(p, "stable")
                                  /\ e = <<"repository", p, old[p].stable>>
      BY <2>2
    <3>2. p \in Registered' /\ new[p].stable = old[p].stable /\ Agreed(p, "stable")'
      BY <1>4, <3>1
    <3> QED BY <3>1, <3>2 DEF KeptProjects
  <2> QED BY <1>5, <2>1, <2>2 DEF KeptProjects
<1> QED BY <1>3, <1>5

-----------------------------------------------------------------------------
(***************************************************************************)
(* The health of a project, transition by transition.                      *)
(***************************************************************************)
HealthIsLogged == \A p \in DOMAIN state.health : IsSeq(state.health[p])

LEMMA StepHealth ==
  ASSUME Shape, HealthIsLogged, [Next]_vars
  PROVE  /\ HealthIsLogged'
         /\ \A p \in DOMAIN state.health : \A i \in DOMAIN state.health[p] :
              /\ p \in DOMAIN state'.health /\ i \in DOMAIN state'.health[p]
              /\ state'.health[p][i] = state.health[p][i]
<1>1. CASE state'.health = state.health
  BY <1>1 DEF HealthIsLogged
<1>2. ASSUME NEW p, NEW expected, NEW target, NEW a, TransitionHealth(p, expected, target, a)
      PROVE  \E e : state'.health = With(state.health, p, Append(HealthLog(p), e))
  BY <1>2 DEF TransitionHealth, Save, Shape
<1>3. CASE \E p, e : state'.health = With(state.health, p, Append(HealthLog(p), e))
  <2>1. PICK p, e : state'.health = With(state.health, p, Append(HealthLog(p), e))
    BY <1>3
  <2> DEFINE log == HealthLog(p)
             longer == Append(log, e)
  <2>2. IsSeq(log)
    BY EmptyIsSeq DEF HealthLog, HealthIsLogged
  <2>3. /\ p \in DOMAIN state.health => log = state.health[p]
    BY DEF HealthLog
  <2> HIDE DEF log
  <2>4. IsSeq(longer) /\ \A i \in DOMAIN log : i \in DOMAIN longer /\ longer[i] = log[i]
    <3>1. Len(log) \in Nat /\ 1..Len(log) \subseteq 1..(Len(log) + 1)
      BY <2>2, AppendIsSeq
    <3> QED BY <2>2, <3>1, AppendIsSeq
  <2>5. /\ DOMAIN state'.health = {p} \cup DOMAIN state.health /\ state'.health[p] = longer
        /\ \A q \in DOMAIN state.health \ {p} : state'.health[q] = state.health[q]
    BY <2>1 DEF With, log
  <2> HIDE DEF longer
  <2> QED BY <2>3, <2>4, <2>5 DEF HealthIsLogged
<1>4. state'["health"] # state["health"] => HealthNext
  BY Owners DEF Shape
<1>5. HealthNext => \E p, e : state'.health = With(state.health, p, Append(HealthLog(p), e))
  BY <1>2 DEF HealthNext
<1> QED BY <1>1, <1>3, <1>4, <1>5

-----------------------------------------------------------------------------
(***************************************************************************)
(* The whole of it.                                                        *)
(***************************************************************************)
KeepsInv ==
  /\ OneAtATimeInv /\ EndedIsInMemory /\ LearningShape /\ SessionsAreNew
  /\ VerifiedIsInMemory /\ ProjectsStay /\ HealthIsLogged

LEMMA InitKeeps == Init => KeepsInv
<1> SUFFICES ASSUME Init PROVE KeepsInv
  OBVIOUS
<1>1. OneAtATimeInv
  BY InitOneAtATime
<1>2. EndedIsInMemory /\ LearningShape
  BY DEF Init, EndedIsInMemory, HoldsEnded, Ended, NoSessions, LearningShape, Learning, NoLearning
<1>3. SessionsAreNew /\ VerifiedIsInMemory
  BY DEF Init, SessionsAreNew, NoDirect, VerifiedIsInMemory, NoRun
<1>4. ProjectsStay /\ HealthIsLogged
  BY DEF Init, ProjectsStay, Snapshots, Loaded, LocalIsNowhere, NoProjects, NoProbes,
         HealthIsLogged, NoHealth
<1> QED BY <1>1, <1>2, <1>3, <1>4 DEF KeepsInv

LEMMA StepKeeps ==
  ASSUME KeepsInv, [Next]_vars
  PROVE  KeepsInv'
<1>1. OneAtATimeInv'
  BY StepOneAtATime DEF KeepsInv
<1>2. Shape /\ ProjectsApart
  BY DEF KeepsInv, OneAtATimeInv
<1>3. EndedIsInMemory' /\ LearningShape' /\ SessionsAreNew' /\ VerifiedIsInMemory' /\ HealthIsLogged'
  BY <1>2, StepSessions, StepIncidents, StepDirect, StepRun, StepHealth DEF KeepsInv
<1>4. ProjectsStay'
  BY <1>2, StepProjectsMove, MoveKeepsProjects DEF KeepsInv
<1> QED BY <1>1, <1>3, <1>4 DEF KeepsInv

LEMMA StepSettles ==
  ASSUME KeepsInv, [Next]_vars
  PROVE  Promise!Settle
<1>0. Shape /\ QueueInOrder /\ ProjectsApart
  BY DEF KeepsInv, OneAtATimeInv
<1>1. ASSUME NEW t \in DOMAIN state.rdc, state.rdc[t].lifecycle = "COMPLETED"
      PROVE  <<"session", t, state.rdc[t]>> \in Settled'
  <2>1. t \in DOMAIN state'.rdc /\ state'.rdc[t] = state.rdc[t]
    BY <1>0, <1>1, StepSessions DEF KeepsInv, HoldsEnded, Ended
  <2> QED BY <1>1, <2>1 DEF Settled
<1>2. ASSUME NEW k \in DOMAIN state.inbox, state.inbox[k].status = "RESOLVED"
      PROVE  <<"change", k, state.inbox[k]>> \in Settled'
  <2>1. k \in DOMAIN state'.inbox /\ state'.inbox[k] = state.inbox[k]
    BY <1>0, <1>2, StepResolved
  <2> QED BY <1>2, <2>1 DEF Settled
<1>3. ASSUME NEW i \in DOMAIN Learning.incidents, StatusOf(i) = "CLOSED"
      PROVE  <<"incident", i, Learning.incidents[i]>> \in Settled'
  <2>1. Closed(i)
    BY <1>3 DEF Closed, StatusOf
  <2>2. /\ i \in DOMAIN state'.learning.incidents
        /\ state'.learning.incidents[i] = Learning.incidents[i]
    BY <1>0, <2>1, StepIncidents DEF KeepsInv
  <2>3. Learning' = state'.learning
    BY DEF Learning
  <2>4. i \in DOMAIN Learning'.incidents /\ StatusOf(i)' = "CLOSED"
    BY <2>1, <2>2, <2>3 DEF Closed, StatusOf
  <2> QED BY <2>2, <2>3, <2>4 DEF Settled
<1>4. ASSUME NEW k \in DOMAIN state.skills, state.skills[k].stage \in {"REJECTED", "REVOKED"}
      PROVE  <<"skill", k, state.skills[k].stage>> \in Settled'
  <2>1. k \in DOMAIN state'.skills /\ state'.skills[k] = state.skills[k]
    BY <1>0, <1>4, StepSkills
  <2> QED BY <1>4, <2>1 DEF Settled
<1>5. ASSUME NEW s \in DOMAIN state.direct PROVE <<"direct", s, state.direct[s]>> \in Settled'
  <2>1. s \in DOMAIN state'.direct /\ state'.direct[s] = state.direct[s]
    BY <1>0, StepDirect DEF KeepsInv
  <2> QED BY <2>1 DEF Settled
<1>6. ASSUME NEW i \in DOMAIN state.queue, ~Waiting(state.queue[i])
      PROVE  <<"merge", i, state.queue[i]>> \in Settled'
  <2>1. i \in DOMAIN state'.queue /\ state'.queue[i] = state.queue[i]
    BY <1>0, <1>6, QueueMoves DEF EntriesKept
  <2> QED BY <1>6, <2>1 DEF Settled, Waiting
<1>7. KeptProjects \subseteq Settled'
  <2>1. KeptProjects \subseteq KeptProjects'
    BY <1>0, StepProjectsMove, MoveKeepsProjects DEF KeepsInv
  <2> QED BY <2>1 DEF Settled
<1>8. KeptHealth \subseteq Settled'
  <2>1. ASSUME NEW p \in DOMAIN state.health, NEW i \in DOMAIN state.health[p]
        PROVE  <<"health", p, <<i, state.health[p][i]>>>> \in KeptHealth'
    <3>1. /\ p \in DOMAIN state'.health /\ i \in DOMAIN state'.health[p]
          /\ state'.health[p][i] = state.health[p][i]
      BY <1>0, <2>1, StepHealth DEF KeepsInv
    <3>2. <<p, i>> \in UNION {{q} \X DOMAIN state'.health[q] : q \in DOMAIN state'.health}
      BY <3>1
    <3> QED BY <3>1, <3>2 DEF KeptHealth
  <2>2. ASSUME NEW e \in KeptHealth PROVE e \in KeptHealth'
    <3>1. PICK x \in UNION {{p} \X DOMAIN state.health[p] : p \in DOMAIN state.health} :
            e = <<"health", x[1], <<x[2], state.health[x[1]][x[2]]>>>>
      BY DEF KeptHealth
    <3>2. x[1] \in DOMAIN state.health /\ x[2] \in DOMAIN state.health[x[1]]
      BY <3>1
    <3> QED BY <2>1, <3>1, <3>2
  <2> QED BY <2>2 DEF Settled
<1>9. ASSUME NEW e \in Settled PROVE e \in Settled'
  <2>1. \/ \E t \in DOMAIN state.rdc : state.rdc[t].lifecycle = "COMPLETED" /\ e = <<"session", t, state.rdc[t]>>
        \/ \E k \in DOMAIN state.inbox : state.inbox[k].status = "RESOLVED" /\ e = <<"change", k, state.inbox[k]>>
        \/ \E i \in DOMAIN Learning.incidents :
             StatusOf(i) = "CLOSED" /\ e = <<"incident", i, Learning.incidents[i]>>
        \/ \E k \in DOMAIN state.skills : /\ state.skills[k].stage \in {"REJECTED", "REVOKED"}
                                          /\ e = <<"skill", k, state.skills[k].stage>>
        \/ \E s \in DOMAIN state.direct : e = <<"direct", s, state.direct[s]>>
        \/ \E i \in DOMAIN state.queue : ~Waiting(state.queue[i]) /\ e = <<"merge", i, state.queue[i]>>
        \/ e \in KeptProjects \/ e \in KeptHealth
    BY <1>9 DEF Settled
  <2> QED BY <2>1, <1>1, <1>2, <1>3, <1>4, <1>5, <1>6, <1>7, <1>8
<1> QED BY <1>9 DEF Promise!Settle

\* The sections implement History, for any pools of what the calls are given: no call,
\* failed save, repetition, overlapping probe or restart changes, reorders or takes back
\* what a history holds, or moves on what is settled.
THEOREM KeepsWhatIsRecordedHolds == Spec => KeepsWhatIsRecorded
<1>1. Init => Promise!Init
  <2> SUFFICES ASSUME Init PROVE Promise!Init
    OBVIOUS
  <2>1. \A r \in DOMAIN Histories : Histories[r] = <<>>
    BY DEF Init, Histories, NoLeases, NoQueue, NoFailures
  <2>2. Settled = {}
    BY DEF Init, Settled, NoSessions, NoInbox, Learning, NoLearning, StatusOf, NoSkills, NoDirect,
           NoQueue, Waiting, KeptProjects, KeptHealth, NoProjects, NoHealth, Registered
  <2> QED BY <2>1, <2>2 DEF Promise!Init
<1>2. KeepsInv /\ [Next]_vars => [Promise!Next]_<<Histories, Settled>>
  <2> SUFFICES ASSUME KeepsInv, [Next]_vars PROVE Promise!Next
    OBVIOUS
  <2>1. Promise!Record
    BY StepRecords DEF KeepsInv, OneAtATimeInv
  <2> QED BY <2>1, StepSettles DEF Promise!Next
<1>3. Spec => []KeepsInv
  BY InitKeeps, StepKeeps, PTL DEF Spec
<1> QED BY <1>1, <1>2, <1>3, PTL DEF Spec, KeepsWhatIsRecorded, Promise!Spec
=============================================================================
