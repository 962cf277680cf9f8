---------------------------- MODULE FailureLearning ----------------------------
(***************************************************************************)
(* Failures that are known: what a task or the connector failed with is    *)
(* observed, a retry is decided on from what was observed last, and an     *)
(* incident turns an observation into a lesson.                            *)
(***************************************************************************)
EXTENDS RdcSessions

CONSTANTS
  FailureRegistries,   \* snapshots: revision, authority, records
  Fingerprint,         \* known failures; "connector-403" and the restart among them
  FailureTask,
  ProjectOf,           \* the project of a task
  Env,                 \* what a state fingerprint hashes beside project and blocker
  NeedsAuthorization,  \* tasks that require explicit authorization
  Relayable,           \* tasks with an automatic failure code, or whose operator chose the relay
  ObservationId, Authority, IncidentId, RootCause,
  MaxDecisions

\* classify_root_cause refuses an empty code.
ASSUME CausesAreGiven == Nothing \notin RootCause

Connector403 == "connector-403"
Restarted    == "restarted"

NoFailures == [history |-> <<>>, observations |-> <<>>, decisions |-> <<>>]
NoLearning == [incidents |-> <<>>, candidates |-> <<>>]
NewTasks   == [t \in FailureTask |-> [status |-> "pending", blocker |-> Nothing, env |-> Nothing,
                                      authorized |-> FALSE, packaged |-> FALSE]]

Failures == state.failures
Observed(failures) == ToSet(failures.observations)

\* import_registry
ImportFailureRegistry(snapshot) ==
  /\ ~Known(Failures.history, snapshot)
  /\ Save("failures", [Failures EXCEPT !.history = Append(@, snapshot)])

HasFingerprint(failures, fp, project) ==
  /\ failures.history # <<>>
  /\ \E r \in Last(failures.history).records : r.fingerprint = fp /\ project \in r.projects

RegistryRecord(failures, fp) ==
  CHOOSE r \in Last(failures.history).records : r.fingerprint = fp

Relevant(failures, fp, project) ==
  {i \in DOMAIN failures.observations :
     LET o == failures.observations[i] IN o.fingerprint = fp /\ o.project = project}

\* An id that is known is a replay or a conflict, and nothing changes.
Recorded(failures, o) ==
  IF \E old \in Observed(failures) : old.id = o.id
  THEN failures
  ELSE [failures EXCEPT !.observations = Append(@, o)]

Observation(id, fp, task, env) ==
  [id |-> id, fingerprint |-> fp, project |-> ProjectOf[task], task |-> task, env |-> env]

Conflicting(failures, o) == \E old \in Observed(failures) : old.id = o.id /\ old # o

RecordFailure(o) ==
  /\ HasFingerprint(Failures, o.fingerprint, o.project)
  /\ ~Conflicting(Failures, o)
  /\ Save("failures", Recorded(Failures, o))

-----------------------------------------------------------------------------
EarliestRelevant(relevant) == CHOOSE i \in relevant : \A j \in relevant : i <= j  \* mutant
LatestRelevant(relevant)   == CHOOSE i \in relevant : \A j \in relevant : j <= i

\* A retry in the state of the last failure needs an override by the authority of the
\* registry; with another authority it is refused and nothing is recorded.
Disposition(failures, fp, project, env, override) ==
  LET relevant == Relevant(failures, fp, project) IN
  IF relevant = {} THEN "ALLOW_NO_PRIOR_FAILURE"
  ELSE IF failures.observations[LatestRelevant(relevant)].env # env THEN "ALLOW_STATE_CHANGED"
  ELSE IF override = Nothing THEN "BLOCK_SAME_FAILURE_SAME_STATE"
  ELSE IF override = Last(failures.history).authority THEN "ALLOW_GOVERNED_OVERRIDE"
  ELSE "REFUSED"

Blocked(disposition) == disposition \in {"BLOCK_SAME_FAILURE_SAME_STATE", "REFUSED"}

\* The decision is recorded whether it allows or blocks.
Evaluated(failures, fp, task, env, override) ==
  LET d == Disposition(failures, fp, ProjectOf[task], env, override) IN
  IF d = "REFUSED" THEN failures
  ELSE [failures EXCEPT !.decisions =
          Append(@, [fingerprint |-> fp, project |-> ProjectOf[task], task |-> task, env |-> env,
                     disposition |-> d, override |-> override,
                     seen |-> Len(failures.observations), registry |-> Len(failures.history)])]

MayDecide == Len(Failures.decisions) < MaxDecisions

EvaluateRetry(fp, task, env, override) ==
  /\ MayDecide
  /\ HasFingerprint(Failures, fp, ProjectOf[task])
  /\ Save("failures", Evaluated(Failures, fp, task, env, override))

-----------------------------------------------------------------------------
(***************************************************************************)
(* The operator: a known failure of a task is observed when the task fails,*)
(* and asked about when it is continued, and then only.  A failure at a    *)
(* restart is not observed.  Queued is taken for running, and completed,   *)
(* verified, cancelled and timed out for over: OperatorDispatch has the    *)
(* course of a task, here is what becomes of why it failed.  Blocker and   *)
(* state are those of a failed task; of another none reads them.           *)
(***************************************************************************)
Tasks == memory.tasks

SaveTask(t, record, failures) ==
  LET tasks == [Tasks EXCEPT ![t] = record] IN
  /\ memory' = [memory EXCEPT !.tasks = tasks]
  /\ state' = [state EXCEPT !.tasks = tasks, !.failures = failures]
  /\ UNCHANGED outside

\* _restore, recover_interrupted_tasks
RecoveredTasks ==
  [t \in FailureTask |->
     IF state.tasks[t].status = "running"
     THEN [state.tasks[t] EXCEPT !.status = "failed", !.blocker = Restarted]
     ELSE state.tasks[t]]

Recover(failures) ==
  /\ memory' = [memory EXCEPT !.tasks = RecoveredTasks]
  /\ state' = [state EXCEPT !.tasks = RecoveredTasks, !.failures = failures]
  /\ UNCHANGED outside

RecoverTasks == Recover(Failures)

\* _transition to any status but FAILED.
Left(t, status) == [Tasks[t] EXCEPT !.status = status, !.blocker = Nothing, !.env = Nothing]

\* _transition to FAILED or TIMED_OUT, whatever the status was: both are observed.  The
\* process may end between the two saves.
FailWith(t, status, fp, env, id) ==
  LET known == HasFingerprint(Failures, fp, ProjectOf[t])
      failures == IF known THEN Recorded(Failures, Observation(id, fp, t, env)) ELSE Failures
      failed == IF status = "failed"
                THEN [Tasks[t] EXCEPT !.status = status, !.blocker = fp, !.env = env]
                ELSE Left(t, status)
  IN /\ \A o \in Observed(Failures) : o.id # id   \* the id hashes the time
     /\ \/ SaveTask(t, failed, failures)
        \/ known /\ Recover(failures)

GuardBlocks(failures, t, d) ==
  /\ Tasks[t].blocker # Nothing
  /\ HasFingerprint(failures, Tasks[t].blocker, ProjectOf[t])
  /\ Blocked(d)

\* continue_task: a blocked retry has its decision saved and is refused.
ContinueTask(t, override) ==
  LET task == Tasks[t]
      known == task.blocker # Nothing /\ HasFingerprint(Failures, task.blocker, ProjectOf[t])
      d == Disposition(Failures, task.blocker, ProjectOf[t], task.env, override)
      failures == IF known THEN Evaluated(Failures, task.blocker, t, task.env, override)
                           ELSE Failures
  IN /\ task.status = "failed" /\ MayDecide
     /\ IF GuardBlocks(Failures, t, d)
        THEN Save("failures", failures)
        ELSE SaveTask(t, Left(t, "pending"), failures)

\* dispatch, dispatch_existing and the worker's start, or what the relay marks and has
\* acknowledged: of a failed task too, and no guard is asked.
QueueTask(t) ==
  /\ Tasks[t].status # "running"
  /\ SaveTask(t, Left(t, "running"), Failures)

\* A result, a verification or a cancellation.
LeaveTask(t) == SaveTask(t, Left(t, "over"), Failures)

\* The blocker goes, the status stays: a failed task is then one that failed of nothing.
AuthorizeTask(t) ==
  /\ t \in NeedsAuthorization /\ ~Tasks[t].authorized
  /\ SaveTask(t, [Tasks[t] EXCEPT !.authorized = TRUE, !.blocker = Nothing], Failures)

\* The first package makes the task pending, whatever it was.
GenerateManualPackage(t) ==
  /\ t \in NeedsAuthorization => Tasks[t].authorized
  /\ t \in Relayable
  /\ ~Tasks[t].packaged
  /\ SaveTask(t, [Left(t, "pending") EXCEPT !.packaged = TRUE], Failures)

-----------------------------------------------------------------------------
(***************************************************************************)
(* The GitHub connector: a denied write is observed under the state of the *)
(* permission, and the work goes to the local channel if all of it is in   *)
(* order there.                                                            *)
(***************************************************************************)
ClassifyConnectorFailure(failure) == failure.canonical403 /\ failure.permission = "DENIED_403"

LocalAlways(authority, q, local) == TRUE   \* mutant: the local channel is not examined
LocalRoute(authority, q, local) ==
  /\ EvaluateRdcPreflight(q)
  /\ q.task = authority.task /\ q.identity = authority.identity
  /\ q.class = "source-write" /\ q.action \in {"git.write", "gh.write"}
  /\ authority.mutationAllowed
  /\ local.login = authority.login /\ local.permitted
  /\ local.identity = authority.identity /\ local.clean

\* route_after_connector_403: refused if the guard would still allow the connector.
RouteAfterConnector403(id, failure, authority, q, local) ==
  LET o == Observation(id, Connector403, failure.task, failure.permission)
      recorded == Recorded(Failures, o)
      d == Disposition(recorded, Connector403, o.project, o.env, Nothing)
  IN /\ MayDecide
     /\ ClassifyConnectorFailure(failure)
     /\ HasFingerprint(Failures, Connector403, o.project)
     /\ ~Conflicting(Failures, o)
     /\ state' = [state EXCEPT !.failures =
                    Evaluated(recorded, Connector403, failure.task, o.env, Nothing)]
     /\ outside' = IF Blocked(d)
                   THEN [outside EXCEPT !.route =
                          [channel |-> IF LocalRoute(authority, q, local) THEN "local" ELSE "none",
                           request |-> q, authority |-> authority, local |-> local]]
                   ELSE outside
     /\ UNCHANGED memory

-----------------------------------------------------------------------------
(***************************************************************************)
(* Incidents.                                                              *)
(***************************************************************************)
Learning == state.learning

Replace(i, incident) ==
  Save("learning", [Learning EXCEPT !.incidents[i] = incident])

\* The same id with the same observation returns the incident.
OpenIncident(i, id) ==
  \E o \in Observed(Failures) :
    /\ o.id = id /\ i \notin DOMAIN Learning.incidents
    /\ Save("learning", [Learning EXCEPT !.incidents = With(@, i,
         [observation |-> o, status |-> "OPEN", cause |-> Nothing,
          lesson |-> Nothing, acceptance |-> Nothing])])

StatusOf(i) == IF i \in DOMAIN Learning.incidents THEN Learning.incidents[i].status ELSE "none"

\* At any time before the incident is closed, and whatever was bound before.
ClassifyRootCause(i, cause) ==
  /\ StatusOf(i) \notin {"none", "CLOSED"}
  /\ Replace(i, [Learning.incidents[i] EXCEPT !.status = "ROOT_CAUSE_CLASSIFIED", !.cause = cause])

\* From the registry as it is now.
BindLearning(i) ==
  /\ StatusOf(i) = "ROOT_CAUSE_CLASSIFIED"
  /\ LET o == Learning.incidents[i].observation IN
     /\ HasFingerprint(Failures, o.fingerprint, o.project)
     /\ Replace(i, [Learning.incidents[i] EXCEPT
                      !.status = "LEARNING_BOUND",
                      !.lesson = RegistryRecord(Failures, o.fingerprint).lesson])

AcceptedAlways(decision) == TRUE   \* mutant: a rejected acceptance verifies
CompletelyAccepted(decision) == decision.accepted /\ decision.missing = {} /\ decision.failed = {}

VerifyPrevention(i, decision) ==
  /\ StatusOf(i) = "LEARNING_BOUND"
  /\ CompletelyAccepted(decision)
  /\ Replace(i, [Learning.incidents[i] EXCEPT !.status = "PREVENTION_VERIFIED", !.acceptance = decision])

\* The incident is saved as closed, then its candidate: between them the process may
\* end, and no later call makes up for it.
CloseIncident(i) ==
  /\ StatusOf(i) = "PREVENTION_VERIFIED"
  /\ LET closed == [Learning EXCEPT !.incidents[i].status = "CLOSED"] IN
     \/ Save("learning",
          [closed EXCEPT !.candidates = With(@, i,
             [lesson |-> Learning.incidents[i].lesson,
              fingerprint |-> Learning.incidents[i].observation.fingerprint,
              project |-> Learning.incidents[i].observation.project])])
     \/ /\ state' = [state EXCEPT !.learning = closed]
        /\ outside' = [outside EXCEPT !.cut = @ \cup {i}]
        /\ UNCHANGED memory
-----------------------------------------------------------------------------
FailuresTypeOK ==
  /\ \A t \in FailureTask :
       /\ Tasks[t].status \in {"pending", "running", "failed", "over"}
       /\ Tasks[t].env \in Optional(Env)
  /\ \A i \in DOMAIN Learning.incidents : i \in IncidentId

\* Every recorded decision that allows a retry was right when it was made, by the
\* observations and the registry of that time: there was no failure of that kind, or
\* the last one was in another state, or the authority of the registry overrode.
RetriesAreInformed ==
  \A n \in DOMAIN Failures.decisions :
    LET d == Failures.decisions[n]
        relevant == Relevant(Failures, d.fingerprint, d.project) \cap (1..d.seen)
    IN (\E i \in relevant : /\ Failures.observations[i].env = d.env
                            /\ \A j \in relevant : j <= i)
         => \/ Blocked(d.disposition)
            \/ d.override = Failures.history[d.registry].authority

\* The local channel is chosen only for what is authorized and bound to it.
RouteIsAuthorized ==
  outside.route.channel = "local" =>
    LET r == outside.route IN
    /\ r.authority.mutationAllowed
    /\ r.request.identity = r.authority.identity /\ r.local.identity = r.authority.identity
    /\ r.request.remote = r.authority.identity /\ r.local.login = r.authority.login
    /\ r.request.paths \subseteq r.request.scope

\* A closed incident has a cause, a lesson of the registry for its failure, an
\* acceptance, and, unless the process ended within close_incident, its candidate.
ClosedIsLearned ==
  \A i \in DOMAIN Learning.incidents :
    LET n == Learning.incidents[i] IN
    n.status = "CLOSED" =>
      /\ n.cause # Nothing
      /\ n.acceptance.accepted /\ n.acceptance.missing = {} /\ n.acceptance.failed = {}
      /\ \E h \in ToSet(Failures.history) : \E r \in h.records :
           r.fingerprint = n.observation.fingerprint /\ r.lesson = n.lesson
      /\ \/ i \in outside.cut
         \/ i \in DOMAIN Learning.candidates /\ Learning.candidates[i].lesson = n.lesson
=============================================================================
