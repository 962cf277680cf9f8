------------------------------ MODULE RdcSessions ------------------------------
(***************************************************************************)
(* Sessions of the remote execution channel.  A session of a task is kept  *)
(* in memory and saved with every change; a restart reads it back.  If the *)
(* save raises the change stays in memory.                                 *)
(***************************************************************************)
EXTENDS StateSections

CONSTANTS
  RdcTask,        \* task ids
  Identity,       \* project, repository, branch, expected head and authority of a task
  RdcRequests,    \* the preflight requests that are sent
  RdcContexts,    \* what a start or a resume shows beside the request
  ActionId,
  MaxActions, MaxSequence, MaxFaults

ASSUME SessionsAreBounded == MaxActions \in Nat /\ MaxSequence \in Nat
ASSUME ContextsAreOfTasks ==
  \A c \in RdcContexts : c.task \in RdcTask /\ c.identity \in Identity

RdcLifecycle == {"ACTIVE", "INTERRUPTED", "RESUMED", "COMPLETED"}
OpenLifecycle == {"ACTIVE", "RESUMED"}
Mutating == {"filesystem.write", "terminal.mutating", "git.write", "gh.write"}

NoSessions == [t \in {} |-> Nothing]

-----------------------------------------------------------------------------
(***************************************************************************)
(* The preflight: the runtime is the one the contract names, the worktree  *)
(* is at the bound head here and on the remote, and the action is within   *)
(* the contract, the mutation class and the scope.                         *)
(***************************************************************************)
PreflightAlways(q) == TRUE   \* mutant: every preflight allows
EvaluateRdcPreflight(q) ==
  /\ q.runtime = "expected"   \* online, device, user, fingerprint and roots of the tool
  /\ q.local = q.identity /\ q.remote = q.identity
  /\ q.requireClean => q.clean
  /\ q.action \in q.allowed
  /\ q.action \in Mutating => q.class = "source-write"
  /\ q.paths \subseteq q.scope   \* relative, within the repository, of the scope

\* _validate_context: task, bootstrap proof, tool plan and binding name one task;
\* a write needs the authorization of the task and exactly its scope.
ValidContext(c, q) ==
  /\ c.bootstrap = c.identity
  /\ c.planned = c.task /\ c.selected
  /\ c.approvalRequired => c.authorized
  /\ q.task = c.task /\ q.identity = c.identity
  /\ q.class = "source-write" => /\ c.writable /\ c.authorized
                                 /\ c.scope # {} /\ c.scope = q.scope
  /\ EvaluateRdcPreflight(q)

-----------------------------------------------------------------------------
Sessions == memory.rdc

Receipt(action, q) == [id |-> action, class |-> q.action, paths |-> q.paths, request |-> q]

\* _persist: the records of the memory are saved, or the store raises.
Persisted(records) ==
  \/ Keep("rdc", records)
  \/ /\ outside.faults < MaxFaults
     /\ memory' = [memory EXCEPT !.rdc = records]
     /\ outside' = [outside EXCEPT !.faults = @ + 1]
     /\ UNCHANGED state

\* mutant: the sequence counts the change and its save
AdvancedTwice(record) == [record EXCEPT !.sequence = @ + 2]
Advanced(record) == [record EXCEPT !.sequence = @ + 1]

Update(task, record) ==
  /\ Sessions[task].sequence < MaxSequence
  /\ Persisted([Sessions EXCEPT ![task] = Advanced(record)])

\* An existing session of the same identity is returned; of another, refused.
StartSession(c, q) ==
  /\ ValidContext(c, q)
  /\ c.task \notin DOMAIN Sessions
  /\ Persisted(With(Sessions, c.task,
       [identity |-> c.identity, lifecycle |-> "ACTIVE", sequence |-> 0,
        actions |-> <<>>, last |-> q, relay |-> FALSE]))

RecordedActions(record) == {a.id : a \in ToSet(record.actions)}

NeverRecorded(record, action) == TRUE   \* mutant: an action may be recorded again
NotRecorded(record, action) == action \notin RecordedActions(record)

\* A repetition of the same action returns the record, a different one is refused.
RecordAction(task, action, q) ==
  /\ task \in DOMAIN Sessions
  /\ LET record == Sessions[task] IN
       /\ record.lifecycle \in OpenLifecycle
       /\ q.task = task /\ q.identity = record.identity
       /\ EvaluateRdcPreflight(q)
       /\ NotRecorded(record, action)
       /\ Len(record.actions) < MaxActions
       /\ Update(task, [record EXCEPT !.actions = Append(@, Receipt(action, q)), !.last = q])

InterruptSession(task) ==
  /\ task \in DOMAIN Sessions /\ Sessions[task].lifecycle \in OpenLifecycle
  /\ Update(task, [Sessions[task] EXCEPT !.lifecycle = "INTERRUPTED"])

ResumeSession(c, q) ==
  /\ c.task \in DOMAIN Sessions /\ Sessions[c.task].lifecycle = "INTERRUPTED"
  /\ Sessions[c.task].identity = c.identity
  /\ ValidContext(c, q)
  /\ Update(c.task, [Sessions[c.task] EXCEPT !.lifecycle = "RESUMED", !.last = q])

\* With a reference and the blockers.  No later resume takes the flag back.
RecordManualRelayException(task, blockers) ==
  /\ task \in DOMAIN Sessions /\ Sessions[task].lifecycle = "INTERRUPTED"
  /\ blockers # {}
  /\ Update(task, [Sessions[task] EXCEPT !.relay = TRUE])

CompleteSession(task) ==
  /\ task \in DOMAIN Sessions /\ Sessions[task].lifecycle \in OpenLifecycle
  /\ Update(task, [Sessions[task] EXCEPT !.lifecycle = "COMPLETED"])

\* A new process: _restore.
RestoreSessions ==
  /\ memory' = [memory EXCEPT !.rdc = state.rdc]
  /\ UNCHANGED <<state, outside>>

-----------------------------------------------------------------------------
RdcTypeOK ==
  \A records \in {state.rdc, memory.rdc} :
    /\ DOMAIN records \subseteq RdcTask
    /\ \A t \in DOMAIN records :
         /\ records[t].identity \in Identity /\ records[t].lifecycle \in RdcLifecycle
         /\ records[t].sequence \in 0..MaxSequence /\ records[t].relay \in BOOLEAN
         /\ Len(records[t].actions) <= MaxActions

\* A session holds each action once, each with an allowed preflight of the session's
\* own task and identity; the sequence counts at least its actions.  It holds in
\* memory and in the document, after failed saves and restarts.
ActionsAreVouched ==
  \A records \in {state.rdc, memory.rdc} : \A t \in DOMAIN records :
    LET r == records[t] IN
    /\ \A i, j \in DOMAIN r.actions : r.actions[i].id = r.actions[j].id => i = j
    /\ \A a \in ToSet(r.actions) :
         /\ a.request.task = t /\ a.request.identity = r.identity
         /\ a.request.runtime = "expected"
         /\ {a.request.local, a.request.remote} = {r.identity}
         /\ a.class \in Mutating => a.request.class = "source-write"
         /\ a.paths \subseteq a.request.scope
    /\ r.sequence >= Len(r.actions)

\* The document never has more than the memory: what is saved is a session at an
\* earlier sequence, with a prefix of its actions.
SavedIsEarlier ==
  /\ DOMAIN state.rdc \subseteq DOMAIN memory.rdc
  /\ \A t \in DOMAIN state.rdc :
       /\ state.rdc[t].sequence <= memory.rdc[t].sequence
       /\ IsPrefix(state.rdc[t].actions, memory.rdc[t].actions)
       /\ state.rdc[t].identity = memory.rdc[t].identity
=============================================================================
