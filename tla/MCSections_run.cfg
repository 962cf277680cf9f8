SPECIFICATION Spec
CONSTANTS
  Nothing = Nothing
  Repository = {"r1", "r2"}
  Host = {"host"}
  Sha = {"h1", "h2"}
  MaxLeases = 3
  MaxQueue = 3
  Principal = {"p1", "p2"}
  ServiceScope = {"read", "write"}
  Nonce = {"n1", "n2"}
  LaunchTtl = 1
  SessionTtl = 2
  Window = 2
  RateLimit = 2
  MaxTime = 2
  MaxRequests = 3
  RdcTask = {"t1", "t2"}
  Identity = {"i1", "i2"}
  ActionId = {"a1", "a2"}
  MaxActions = 2
  MaxSequence = 3
  MaxFaults = 1
  Fingerprint = {"connector-403", "restarted"}
  FailureTask = {"f1"}
  Env = {"e1", "DENIED_403"}
  ObservationId = {"o1", "o2"}
  Authority = {"owner"}
  IncidentId = {"i1"}
  RootCause = {"cause"}
  MaxDecisions = 2
  Revision = {1, 2}
  MaxSnapshots = 2
  InboxEvidence = {Nothing, "e"}
  MaxClock = 1
  MaxEvents = 2
  RuntimeRevision = {1, 2}
  MaxRuntime = 2
  GateHead = {"h1", "h2"}
  MaxVerify = 2
  PolicyKinds <- MCPolicyKinds
  PolicyFields = {"project"}
  DirectSession = {"d1", "d2"}
  MaxStages = 9
  Overrides = {Nothing, "owner"}
  DecisionProject = {"p1", "p2"}
  ReadinessProject = {"p1"}
  References = {Nothing, "ref"}
  AgentIds = {"a1", "a2"}
  SkillId = {"s1", "s2"}
  DirectStatus = {"completed", "failed"}
  EngineeringTasks <- MCEngineeringTasks
  Begins <- MCBegins
  Files <- MCFiles
  FirstHead <- MCFirstHead
  RdcRequests <- MCRdcRequests
  RdcContexts <- MCRdcContexts
  ScopesOf <- MCScopesOf
  FailureRegistries <- MCFailureRegistries
  ProjectOf <- MCProjectOf
  NeedsAuthorization = {"f1"}
  Relayable = {"f1"}
  ConnectorFailures <- MCConnectorFailures
  RouteRequests <- MCRouteRequests
  RouteAuthorities <- MCRouteAuthorities
  LocalObservations <- MCLocalObservations
  Decision <- MCDecision
  DecisionPool <- MCDecisionPool
  Instructions <- MCInstructions
  InstructionPool <- MCInstructionPool
  PathGraphs <- MCPathGraphs
  StagePool <- MCStagePool
  ClaimPool <- MCClaimPool
  OperatorViews <- MCOperatorViews
  EngineeringViews <- MCEngineeringViews
  ProjectViews <- MCProjectViews
  GraphPool <- MCGraphPool
  ContractPool <- MCContractPool
  EventPool <- MCEventPool
  InboxKeys <- MCInboxKeys
  ImpactReceipts <- MCImpactReceipts
  CensusPool <- MCCensusPool
  Baselines <- MCBaselines
  Fingerprints <- MCFingerprints
  RuntimeReceipts <- MCRuntimeReceipts
  Catalogs <- MCCatalogs
  SchemaObjects <- MCSchemaObjects
  GateRuns <- MCGateRuns
  GateResults <- MCGateResults
  GateParents <- MCGateParents
  Verifications <- MCVerifications
  Semantics <- MCSemantics
  Reviews <- MCReviews
  RuleSequences <- MCRuleSequences
  PolicyContexts <- MCPolicyContexts
  Adapters <- MCAdapters
  Candidates <- MCCandidates
  ToolProfiles <- MCToolProfiles
  ToolRequests <- MCToolRequests
  PilotPackages <- MCPilotPackages
  PilotRequests <- MCPilotRequests
  SkillPool <- MCSkillPool
  SkillGrants <- MCSkillGrants
  Prompts <- MCPrompts
  Assessments <- MCAssessments
  ProjectName = {"n1", "n2"}
  StableId = {"g1", "g2"}
  ProbeId = {"p1", "p2"}
  MaxHealth = 4
  MaxProbes = 3
  Intakes <- MCIntakes
  HealthProject = {"n1"}
  Findings <- MCFindings
  FirstGithub <- MCFirstGithub
CHECK_DEADLOCK FALSE
INVARIANTS
  SectionsTypeOK
  OneAtATime
  EarnedByEvidence
  AnswersAreRight
PROPERTIES
  KeepsWhatIsRecorded
