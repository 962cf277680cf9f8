-------------------------------- MODULE Sections --------------------------------
(***************************************************************************)
(* The services of the sections together.  A method of one changes its own *)
(* sections only, so TLC explores each part of them on its own: part names *)
(* the services that are called in a behavior.                             *)
(***************************************************************************)
EXTENDS ParallelDevelopment, LocalAccess, FailureLearning, DecisionInbox, RuntimeRegistries,
        EvidenceGates, Policies, Admissions, ProjectRegistry, Instructions,
        CriticalPath

CONSTANTS
  FirstHead,          \* the integration heads at the start
  Decision,           \* acceptance decisions on a prevention
  Overrides,          \* authorities that an override names, Nothing among them
  ConnectorFailures, RouteRequests, RouteAuthorities, LocalObservations,
  Instructions, DecisionProject, ReadinessProject, InboxKeys, References,
  AgentIds, SchemaObjects,
  RuleSequences, SkillGrants, SkillId, DirectStatus,
  FirstGithub,        \* what GitHub leads names to at the start
  Intakes, HealthProject,
  Files               \* the files that the leases are compared on

ASSUME FilesArePaths == \A file \in Files : file \in Seq(ToSet(file))
ASSUME RulesAreListed == \A rules \in RuleSequences : rules \in Seq(ToSet(rules))
ASSUME HeadsAtTheStart == FirstHead \in [Repository -> Sha]
ASSUME IntakesAreNamed == \A c \in Intakes : c.name \in ProjectName
\* GitHub leads a name to a repository that has a name.
ASSUME GithubAtTheStart ==
  /\ DOMAIN FirstGithub = {"owner", "name"}
  /\ FirstGithub.owner \in [ProjectName -> Optional(StableId)]
  /\ DOMAIN FirstGithub.name = StableId
  /\ \A n \in ProjectName :
       FirstGithub.owner[n] # Nothing => FirstGithub.name[FirstGithub.owner[n]] \in ProjectName

VARIABLE part

vars == <<state, memory, outside, part>>

Part == {"leases", "queue", "rdc", "access", "retries", "route", "incidents", "decisions", "lifecycle",
         "knowledge", "changes", "census", "environment", "database", "evidence", "answers",
         "skills", "direct", "readiness", "projects", "health"}

\* A behavior ends with the answer to a question that changes nothing: the answer is
\* compared with the state it was given in.
OnAny(parts) ==
  /\ part \in parts /\ UNCHANGED part
  /\ outside.answer = Nothing /\ outside.cleared = Nothing /\ outside.prepared = Nothing
  /\ outside.rollup = Nothing

On(p) == OnAny({p})

Init ==
  /\ part \in Part
  /\ state = [leases |-> NoLeases, queue |-> NoQueue, rdc |-> NoSessions,
              failures |-> NoFailures, tasks |-> NewTasks, learning |-> NoLearning,
              decisions |-> <<>>, lifecycle |-> <<>>, knowledge |-> <<>>,
              graphs |-> <<>>, contracts |-> <<>>, events |-> <<>>, inbox |-> NoInbox,
              census |-> <<>>, environment |-> <<>>, database |-> NoDatabase,
              run |-> NoRun, skills |-> NoSkills, direct |-> NoDirect,
              assessments |-> NoAssessments, projects |-> NoProjects, health |-> NoHealth]
  /\ memory = [rdc |-> NoSessions, access |-> NoAccess, tasks |-> NewTasks, run |-> NoRun,
               direct |-> NoDirect, probes |-> NoProbes]
  /\ outside = [head |-> FirstHead, faults |-> 0, access |-> NothingSeen, route |-> [channel |-> "none"],
                cut |-> {}, bound |-> Nothing, approved |-> Nothing, clock |-> 0,
                cleared |-> Nothing, admitted |-> Nothing, certified |-> Nothing, verified |-> 0,
                shown |-> {},
                rollup |-> Nothing, answer |-> Nothing, stages |-> NoSkills, loaded |-> Nothing,
                sessions |-> {}, github |-> FirstGithub, prepared |-> Nothing, probed |-> 0]

TaskIds == {t.id : t \in EngineeringTasks}

LeasesNext ==
  /\ On("leases")
  /\ \/ \E t \in EngineeringTasks, h \in Host : AcquireScopeLease(t, h)
     \/ \E id \in TaskIds : ReleaseScopeLease(id)

QueueNext ==
  /\ On("queue")
  /\ \/ \E t \in EngineeringTasks, pushed \in BOOLEAN : Enqueue(t, pushed)
     \/ \E id \in TaskIds : RequireReadyForMerge(id)
     \/ \E id \in TaskIds, sha \in Sha, a \in Optional(Authority) : MarkIntegrated(id, sha, a)
     \/ \E r \in Repository, sha \in Sha : HeadMoves(r, sha)

RdcNext ==
  /\ On("rdc")
  /\ \/ \E c \in RdcContexts, q \in RdcRequests : StartSession(c, q)
     \/ \E t \in RdcTask, a \in ActionId, q \in RdcRequests : RecordAction(t, a, q)
     \/ \E t \in RdcTask : InterruptSession(t)
     \/ \E c \in RdcContexts, q \in RdcRequests : ResumeSession(c, q)
     \/ \E t \in RdcTask, b \in SUBSET {"blocker"} : RecordManualRelayException(t, b)
     \/ \E t \in RdcTask : CompleteSession(t)
     \/ RestoreSessions

AccessNext ==
  /\ On("access")
  /\ \/ \E p \in Principal, n \in Nonce : IssueLaunch(p, n)
     \/ \E n \in Nonce, loopback \in BOOLEAN : RedeemLaunch(n, loopback)
     \/ \E cookie \in Optional(Nonce), token \in Optional(Principal), scope \in ServiceScope :
          Authenticate(cookie, token, scope)
     \/ Tick
     \/ ForgetAccess

ObservationsNext ==
  /\ OnAny({"retries", "route", "incidents"})
  /\ \/ \E f \in FailureRegistries : ImportFailureRegistry(f)
     \/ \E id \in ObservationId, fp \in Fingerprint, t \in FailureTask, e \in Env :
          RecordFailure(Observation(id, fp, t, e))

RetriesNext ==
  /\ On("retries")
  /\ \/ \E fp \in Fingerprint, t \in FailureTask, e \in Env, o \in Overrides :
          EvaluateRetry(fp, t, e, o)
     \/ \E t \in FailureTask, s \in {"failed", "over"}, fp \in Fingerprint, e \in Env,
           id \in ObservationId : FailWith(t, s, fp, e, id)
     \/ \E t \in FailureTask, o \in Overrides : ContinueTask(t, o)
     \/ \E t \in FailureTask : \/ QueueTask(t) \/ LeaveTask(t) \/ AuthorizeTask(t)
                              \/ GenerateManualPackage(t)
     \/ RecoverTasks

RouteNext ==
  /\ On("route")
  /\ \E id \in ObservationId, f \in ConnectorFailures, a \in RouteAuthorities,
        q \in RouteRequests, l \in LocalObservations :
       RouteAfterConnector403(id, f, a, q, l)

IncidentsNext ==
  /\ On("incidents")
  /\ \/ \E i \in IncidentId, id \in ObservationId : OpenIncident(i, id)
     \/ \E i \in IncidentId, c \in RootCause : ClassifyRootCause(i, c)
     \/ \E i \in IncidentId : BindLearning(i)
     \/ \E i \in IncidentId, d \in Decision : VerifyPrevention(i, d)
     \/ \E i \in IncidentId : CloseIncident(i)

DecisionsNext ==
  /\ OnAny({"decisions", "knowledge"})
  /\ \E r \in Revision, s \in SUBSET DecisionPool  : ImportDecisions(r, s)

BindingsNext ==
  /\ On("decisions")
  /\ \E d \in DecisionPool, p \in DecisionProject, i \in Instructions  : BindInstruction(d.id, p, i)

LifecycleNext ==
  /\ On("lifecycle")
  /\ \/ \E r \in Revision, s \in SUBSET StagePool : ImportLifecycle(r, s)
     \/ \E r \in StagePool : RequireApproved(StageKey(r))

KnowledgeNext ==
  /\ On("knowledge")
  /\ \E r \in Revision, s \in SUBSET ClaimPool, decisions \in {{}, Records(state.decisions)} :
       ImportKnowledge(r, s, decisions)

ChangesNext ==
  /\ On("changes")
  /\ \/ \E g \in GraphPool : ImportGraph(g)
     \/ \E c \in ContractPool, g \in GraphPool : ImportContracts(c, g)
     \/ \E v \in EventPool, g \in GraphPool, c \in Contracts  : RegisterAcceptedChange(v, g, c)
     \/ ClockTicks
     \/ SyncRegistry
     \/ \E k \in InboxKeys, expected, new \in InboxStatus, e \in InboxEvidence,
          r \in References :
          Transition(k, k[2], expected, new, e, r)
     \/ \E v \in Events, g \in GraphPool, c \in Contracts, k \in InboxKeys,
          r \in Optional(ImpactReceipts) :
          RequireProjectClear(v, g, c, k[2], r)

CensusNext ==
  /\ On("census")
  /\ \/ \E c \in CensusPool : ImportCensus(c)
     \/ \E a \in AgentIds : RequireAdmitted(a)

EnvironmentNext ==
  /\ On("environment")
  /\ \/ \E r \in RuntimeRevision, b \in Baselines, f \in Fingerprints,
          x \in Optional(RuntimeReceipts) :
          ImportEnvironment(r, b, f, x)
     \/ RequireCertified

DatabaseNext ==
  /\ On("database")
  /\ \/ EnsureSeed
     \/ \E c \in Catalogs : ReplaceCatalogSnapshot(c)
     \/ \E o \in SchemaObjects, c \in Catalogs  : ReplaceSchemaSnapshot(o, Nothing)

EvidenceNext ==
  /\ On("evidence")
  /\ \/ \E r \in GateRuns : ExecutorEnds(r)
     \/ \E q \in Verifications : VerifyRun(q)
     \/ \E s \in {"failed", "timed_out"} : FailRun(s)
     \/ QueueRun \/ \E r \in GateResults : ReturnResult(r)
     \/ \E s \in {"pending", "running"} : ContinueRun(s)
     \/ CancelRun \/ AuthorizeRun
     \/ PackageRun \/ \E thread \in BOOLEAN : RelayRun(thread)
     \/ \E r \in GateResults : ImportResult(r)
     \/ OtherTaskSaves
     \/ RestoreRun
     \/ \E p \in GateParents, t \in {"READY_FOR_REVIEW", "RECONCILIATION_REQUIRED", "INTEGRATED"},
           m \in Optional(Semantics), v \in Optional(Reviews) :
          AuthorizeRollup(p, t, m, v)

AnswersNext ==
  /\ On("answers")
  /\ \/ \E c \in PolicyContexts, rules \in RuleSequences :
       DecidePolicy(c, rules)
     \/ \E p \in ToolProfiles, q \in ToolRequests : PlanTools(p, q)
     \/ \E p \in PilotPackages, q \in PilotRequests : DecidePilot(p, q)
     \/ \E s \in (SUBSET InstructionPool) \ {{}}, p \in DecisionProject, decisions \in
          Optional({d \in SUBSET DecisionPool : ValidDecisionRegistry(d)}) :
       ResolveInstructions(s, p, decisions)
     \/ \E g \in PathGraphs : FindCriticalPath(g)

SkillsNext ==
  /\ On("skills")
  /\ \/ \E s \in SkillPool : RegisterSkill(s)
     \/ \E s \in SkillId, stage \in SkillStage : TransitionSkill(s, stage)
     \/ \E s \in SkillId, l \in SkillGrants : LoadSkill(s, l)

DirectNext ==
  /\ On("direct")
  /\ \/ \E s \in DirectSession, c \in Prompts : StartDirect(s, c)
     \/ \E s \in DirectSession, x \in DirectStatus : AnswerDirect(s, x)
     \/ DirectEnds

ReadinessNext ==
  /\ On("readiness")
  /\ \E p \in ReadinessProject, d \in Assessments : Assess(p, d)

IntakesNext ==
  /\ OnAny({"projects", "health"})
  /\ \E c \in Intakes : Intake(c.name, c.adapter, c.head)

ProjectsNext ==
  /\ On("projects")
  /\ \/ \E i \in ProbeId, p \in ProjectName : ProbeStarts(i, p)
     \/ \E i \in ProbeId, f \in Findings : ProbeAnswers(i, f)
     \/ \E i \in ProbeId : ProbeFails(i)
     \/ \E probes \in SUBSET ProbeId : ProbesBreak(probes)
     \/ \E g \in StableId, n \in ProjectName : RenameRepository(g, n)
     \/ \E p \in ProjectName, f \in Findings : \E c \in f.candidates : PrepareTask(p, c)

HealthNext ==
  /\ On("health")
  /\ \E p \in HealthProject, expected, target \in HealthState,
          a \in Optional(Authority) :
       TransitionHealth(p, expected, target, a)

\* One call, clock tick, push or restart.
Next ==
  \/ LeasesNext \/ QueueNext \/ RdcNext \/ AccessNext \/ ObservationsNext \/ RetriesNext
  \/ RouteNext \/ IncidentsNext \/ DecisionsNext \/ BindingsNext \/ LifecycleNext
  \/ KnowledgeNext \/ ChangesNext \/ CensusNext \/ EnvironmentNext \/ DatabaseNext
  \/ EvidenceNext \/ AnswersNext \/ SkillsNext \/ DirectNext \/ ReadinessNext
  \/ IntakesNext \/ ProjectsNext \/ HealthNext

Spec == Init /\ [][Next]_vars

-----------------------------------------------------------------------------
SectionsTypeOK ==
  /\ ParallelTypeOK /\ RdcTypeOK /\ AccessTypeOK /\ FailuresTypeOK /\ ChangesTypeOK
  /\ RuntimesTypeOK /\ GatesTypeOK /\ AdmissionsTypeOK /\ ProjectsTypeOK

\* What must be one is one, whatever calls, expiries, repetitions and restarts follow one
\* another: the lease of a file, the entry at the front of the queue, the session of a
\* link, the requests in a window, the decision in force, the version an edge consumes,
\* the item for a change, the project of a repository.
OneAtATime ==
  /\ LeasesAreDisjoint(Files) /\ MergesInOrder
  /\ LinksOpenOnce /\ RateIsBounded
  /\ OneInForce /\ ActiveEdgesAreServed /\ ItemsAnswerChanges /\ RepositoryHasOneProject
  /\ OneOfARevision(Failures.history)
  /\ \A r \in {"decisions", "lifecycle", "knowledge", "graphs", "contracts", "census", "environment"} :
       OneOfARevision(state[r])

\* What was granted was earned by evidence that is still the evidence for just that: an
\* action, a request, a retry, the local channel, a lesson, a binding, an admission, a
\* certified runtime, a verified run, a review, a skill, a prepared task, a healthy project.
EarnedByEvidence ==
  /\ ActionsAreVouched /\ SavedIsEarlier /\ PassedByRight
  /\ RetriesAreInformed /\ RouteIsAuthorized /\ ClosedIsLearned
  /\ KnowledgeWasDecided /\ BoundWasInForce
  /\ AdmittedByDecision /\ CertifiedIsEquivalent
  /\ VerifiedOnEvidence /\ ReviewIsEarned
  /\ LoadedWasReviewed /\ DirectStaysOutside
  /\ PreparedIsOnRecord /\ HealthIsEarned

\* What is answered is what the records say, each by a definition that does not compute
\* it: policy, tools, pilot, impact of a change, the inbox, the catalogue, readiness, the reality of a project,
\* the instructions that govern, the critical path.
AnswersAreRight ==
  /\ PolicyFailsClosed /\ PlanIsUsable /\ PilotIsBound
  /\ ClearedForGoodReason /\ NothingWaitsUnseen
  /\ FoundIsCatalogued /\ ReadinessIsContiguous /\ RecordsAgree
  /\ GoverningIsInForce /\ PathIsLongest

-----------------------------------------------------------------------------
(***************************************************************************)
(* The histories, and what is over.  A lease and an entry of the queue are *)
(* recorded without their status, which moves.                             *)
(***************************************************************************)
Histories ==
  [leases       |-> [i \in DOMAIN state.leases |->
                       <<state.leases[i].task, state.leases[i].host, state.leases[i].generation>>],
   queue        |-> [i \in DOMAIN state.queue |->
                       <<state.queue[i].task, state.queue[i].expected>>],
   registries   |-> state.failures.history,
   observations |-> state.failures.observations,
   retries      |-> state.failures.decisions,
   decisions    |-> state.decisions,
   lifecycle    |-> state.lifecycle,
   knowledge    |-> state.knowledge,
   graphs       |-> state.graphs,
   contracts    |-> state.contracts,
   events       |-> state.events,
   census       |-> state.census,
   environment  |-> state.environment]

Settled ==
  {<<"session", t, state.rdc[t]>> : t \in {t \in DOMAIN state.rdc : state.rdc[t].lifecycle = "COMPLETED"}}
    \cup {<<"change", k, state.inbox[k]>> : k \in {k \in DOMAIN state.inbox : state.inbox[k].status = "RESOLVED"}}
    \cup {<<"incident", i, Learning.incidents[i]>> : i \in {i \in DOMAIN Learning.incidents : StatusOf(i) = "CLOSED"}}
    \cup {<<"skill", k, state.skills[k].stage>> : k \in {k \in DOMAIN state.skills : state.skills[k].stage \in {"REJECTED", "REVOKED"}}}
    \cup {<<"direct", s, state.direct[s]>> : s \in DOMAIN state.direct}
    \cup {<<"merge", i, state.queue[i]>> : i \in {i \in DOMAIN state.queue : ~Waiting(state.queue[i])}}
    \cup KeptProjects \cup KeptHealth

\* The sections keep what they recorded and what is settled, however failed saves,
\* restarts and repeated calls come in between.
Promise == INSTANCE History WITH log <- Histories, settled <- Settled

KeepsWhatIsRecorded == Promise!Spec
=============================================================================
