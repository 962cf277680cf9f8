-------------------------- MODULE OperatorDispatch --------------------------
(***************************************************************************)
(* The connected service: one asyncio process that queues operator tasks,  *)
(* runs them through the orchestrator on a few workers, and takes client   *)
(* calls (HTTP and MCP) between any two steps of its coroutines.  An       *)
(* action is the code from one suspension point to the next, so what is    *)
(* atomic here is atomic on the event loop.  Records and writer rows are   *)
(* persisted by every transition; everything else is lost with the         *)
(* process.                                                                *)
(*                                                                         *)
(* A task's record is reduced to its status and to whether it has an       *)
(* execution receipt, a relay package and a thread.  HEADs, tool plans,    *)
(* authorization and evidence are choices of the calls that check them.    *)
(***************************************************************************)
EXTENDS Naturals, SequencesExt

CONSTANTS
  Task, Worker, Repo,
  RepoOf,       \* the repository of a task
  Writes,       \* the tasks with sandbox "workspace-write"
  Relay,        \* tasks whose user relay was selected, or whose automatic channel failed
  Proof,        \* SELF_HOSTED_PROOF_TASK_ID: its worker waits for CI
  Capacity,     \* queue_capacity
  NoTask,
  Other,        \* a task id of another process, in repository_writers
  MaxCommands,  \* accepted dispatch and continue calls of a task
  MaxCrashes

ASSUME DispatchAssumption ==
  /\ RepoOf \in [Task -> Repo]
  /\ Writes \subseteq Task /\ Relay \subseteq Task /\ Proof \subseteq Task
  /\ Capacity \in Nat \ {0}
  /\ MaxCommands \in [Task -> Nat] /\ MaxCrashes \in Nat
  /\ NoTask \notin Task /\ Other \notin Task /\ Other # NoTask

VARIABLES
  status, receipt, package, thread,   \* the task records
  writer,                             \* repository_writers
  queue,                              \* _queue
  wpc, wtask,                         \* a worker's suspension point and its task
  expired,                            \* workers whose wait_for ran out of time
  lockq,                              \* _repository_locks: the holder, then the waiters
  exec,                               \* _active: the asyncio task running dispatch_task
  inner,                              \* _executions: the asyncio task per idempotency key
  svc,                                \* the life of the service
  interrupted,                        \* workers that stop() cancelled
  commands, runs, crashes             \* accepted calls, gateway runs, crashes

record   == <<status, receipt, package, thread>>
workers  == <<wpc, wtask, expired, lockq, interrupted>>
tasks    == <<exec, inner>>
counters == <<commands, runs, crashes>>
vars     == <<record, writer, queue, workers, tasks, svc, counters>>

Alive   == {"created", "awaiting", "cancelling"}
Settled == {"returned", "error", "cancelled"}

NoRepoLock(t) == <<>>   \* mutant: nobody is ever seen to hold the lock
RepoLock(t) == lockq[RepoOf[t]]
SetStatus(t, s) == status' = [status EXCEPT ![t] = s]

Init ==
  /\ status = [t \in Task |-> "pending"]
  /\ receipt = {} /\ package = {} /\ thread = {}
  /\ writer = [r \in Repo |-> NoTask]
  /\ queue = <<>>
  /\ wpc = [w \in Worker |-> "idle"] /\ wtask = [w \in Worker |-> NoTask]
  /\ expired = {} /\ interrupted = {}
  /\ lockq = [r \in Repo |-> <<>>]
  /\ exec = [t \in Task |-> "none"] /\ inner = [t \in Task |-> "none"]
  /\ svc = "up"
  /\ commands = [t \in Task |-> 0] /\ runs = [t \in Task |-> 0] /\ crashes = 0

-----------------------------------------------------------------------------
(***************************************************************************)
(* Client calls.                                                           *)
(***************************************************************************)
NoReceipt(t)  == FALSE   \* mutant: results are not looked for
HasReceipt(t) == t \in receipt

RoomAlways == TRUE   \* mutant: an unbounded queue
Room == Len(queue) < Capacity

\* Mutant: two entries for one call.
EnqueueTwice(t) ==
  /\ SetStatus(t, "queued")
  /\ queue' = queue \o <<t, t>>
  /\ commands' = [commands EXCEPT ![t] = @ + 1]

Enqueue(t) ==
  /\ SetStatus(t, "queued")
  /\ queue' = Append(queue, t)
  /\ commands' = [commands EXCEPT ![t] = @ + 1]

\* A completed, queued or running task is answered from its record; a full
\* queue refuses the call.
Dispatch(t) ==
  /\ svc = "up" /\ commands[t] < MaxCommands[t]
  /\ ~HasReceipt(t) /\ status[t] \notin {"queued", "running"}
  /\ Room
  /\ Enqueue(t)
  /\ UNCHANGED <<receipt, package, thread, writer, workers, tasks, svc, runs, crashes>>

\* The task is pending again before the queue is found to be full.
Continue(t) ==
  /\ svc = "up" /\ commands[t] < MaxCommands[t]
  /\ status[t] = "failed"
  /\ IF Room THEN Enqueue(t) ELSE SetStatus(t, "pending") /\ UNCHANGED <<queue, commands>>
  /\ UNCHANGED <<receipt, package, thread, writer, workers, tasks, svc, runs, crashes>>

\* Mutant: what waits for the planner is not cancelled.
CancelGateway(S) ==
  exec' = [t \in Task |-> IF t \in S /\ exec[t] \in {"created", "awaiting"} /\ inner[t] # "planning"
                          THEN "cancelling" ELSE exec[t]]

CancelExecution(S) ==
  exec' = [t \in Task |-> IF t \in S /\ exec[t] \in {"created", "awaiting"}
                          THEN "cancelling" ELSE exec[t]]

\* The execution is cancelled even when the record then refuses to be.
Cancel(t) ==
  /\ svc = "up"
  /\ CancelExecution({t})
  /\ SetStatus(t, IF status[t] = "verified" THEN "verified" ELSE "cancelled")
  /\ UNCHANGED <<receipt, package, thread, writer, queue, workers, inner, svc, counters>>

VerifyTask(t) ==
  /\ svc = "up" /\ status[t] = "pending_verification"
  /\ SetStatus(t, "verified")
  /\ UNCHANGED <<receipt, package, thread, writer, queue, workers, tasks, svc, counters>>

GenerateManualPackage(t) ==
  /\ svc = "up" /\ t \in Relay \ package
  /\ package' = package \cup {t}
  /\ SetStatus(t, "pending")
  /\ UNCHANGED <<receipt, thread, writer, queue, workers, tasks, svc, counters>>

MarkManualDispatched(t) ==
  /\ svc = "up" /\ t \in package
  /\ SetStatus(t, "running")
  /\ UNCHANGED <<receipt, package, thread, writer, queue, workers, tasks, svc, counters>>

RecordManualAck(t) ==
  /\ svc = "up" /\ t \in package
  /\ thread' = thread \cup {t}
  /\ SetStatus(t, "running")
  /\ UNCHANGED <<receipt, package, writer, queue, workers, tasks, svc, counters>>

ImportManualResult(t) ==
  /\ svc = "up" /\ t \in package \cap thread
  /\ receipt' = receipt \cup {t}
  /\ SetStatus(t, "pending_verification")
  /\ UNCHANGED <<package, thread, writer, queue, workers, tasks, svc, counters>>

-----------------------------------------------------------------------------
(***************************************************************************)
(* A worker, up to the start of the execution.                             *)
(***************************************************************************)
Admitted(t) == t \notin Writes \/ writer[RepoOf[t]] \in {NoTask, t}

TakeRowToRead(t) ==   \* mutant: the condition the wrong way round
  writer' = IF t \in Writes THEN writer ELSE [writer EXCEPT ![RepoOf[t]] = t]
TakeRow(t) ==
  writer' = IF t \in Writes THEN [writer EXCEPT ![RepoOf[t]] = t] ELSE writer

KeepRow(t) == UNCHANGED writer   \* mutant: no release
GiveRow(t) ==
  writer' = IF t \in Writes /\ writer[RepoOf[t]] = t
            THEN [writer EXCEPT ![RepoOf[t]] = NoTask] ELSE writer

Kept(held)     == held   \* mutant: the lock is not released
Released(held) == Tail(held)

\* held: the lock with this worker at its head.
Execute(w, t, held) ==
  \/ /\ Admitted(t)
     /\ TakeRow(t)
     /\ SetStatus(t, "running")
     /\ exec' = [exec EXCEPT ![t] = "created"]
     /\ wpc' = [wpc EXCEPT ![w] = "await"] /\ wtask' = [wtask EXCEPT ![w] = t]
     /\ lockq' = [lockq EXCEPT ![RepoOf[t]] = held]
  \/ /\ ~Admitted(t)
     /\ SetStatus(t, "failed")
     /\ wpc' = [wpc EXCEPT ![w] = "idle"] /\ wtask' = [wtask EXCEPT ![w] = NoTask]
     /\ lockq' = [lockq EXCEPT ![RepoOf[t]] = Released(held)]
     /\ UNCHANGED <<writer, exec>>

\* A cancelled task is skipped; the lock is taken at once when it is free.
Take(w) ==
  /\ wpc[w] = "idle" /\ w \notin interrupted /\ queue # <<>>
  /\ queue' = Tail(queue)
  /\ LET t == Head(queue) IN
     \/ /\ status[t] = "cancelled"
        /\ UNCHANGED <<status, writer, exec, wpc, wtask, lockq>>
     \/ /\ status[t] # "cancelled" /\ RepoLock(t) = <<>>
        /\ Execute(w, t, <<w>>)
     \/ /\ status[t] # "cancelled" /\ RepoLock(t) # <<>>
        /\ wpc' = [wpc EXCEPT ![w] = "lock"] /\ wtask' = [wtask EXCEPT ![w] = t]
        /\ lockq' = [lockq EXCEPT ![RepoOf[t]] = Append(@, w)]
        /\ UNCHANGED <<status, writer, exec>>
  /\ UNCHANGED <<receipt, package, thread, expired, interrupted, inner, svc, counters>>

\* Woken with the lock: the status read before the wait is not read again.
Enter(w) ==
  /\ wpc[w] = "lock" /\ w \notin interrupted
  /\ Head(RepoLock(wtask[w])) = w
  /\ Execute(w, wtask[w], RepoLock(wtask[w]))
  /\ UNCHANGED <<receipt, package, thread, queue, expired, interrupted, inner, svc, counters>>

-----------------------------------------------------------------------------
(***************************************************************************)
(* The execution: dispatch_task and the orchestrator below it.             *)
(***************************************************************************)
Return(t, how) == exec' = [exec EXCEPT ![t] = how]

\* What dispatch_task does with a response: a wrong executor, an unreadable
\* diff, a mutation that was not allowed, or a result to verify.  The status
\* the record has by now is not looked at.
ProcessResponse(t) ==
  \/ Return(t, "returned") /\ SetStatus(t, "failed") /\ UNCHANGED <<receipt, thread>>
  \/ /\ receipt' = receipt \cup {t} /\ thread' = thread \cup {t}
     /\ \/ Return(t, "error") /\ UNCHANGED status
        \/ Return(t, "returned") /\ \E s \in {"failed", "pending_verification"} : SetStatus(t, s)

\* The execution of the idempotency key is over: its exception is forgotten,
\* its result and its cancellation stay.
AwaitInner(t) ==
  \/ inner[t] = "done" /\ ProcessResponse(t) /\ UNCHANGED inner
  \/ /\ inner[t] = "failed" /\ inner' = [inner EXCEPT ![t] = "none"]
     /\ Return(t, "error") /\ UNCHANGED <<status, receipt, thread>>
  \/ /\ inner[t] = "cancelled" /\ Return(t, "cancelled")
     /\ UNCHANGED <<status, receipt, thread, inner>>

DispatchTask(t) ==
  /\ exec[t] = "created"
  /\ \/ Return(t, "error") /\ UNCHANGED <<status, receipt, thread, inner, runs>>
     \/ HasReceipt(t) /\ Return(t, "returned") /\ UNCHANGED <<status, receipt, thread, inner, runs>>
     \/ /\ ~HasReceipt(t) /\ Return(t, "returned") /\ SetStatus(t, "failed")
        /\ UNCHANGED <<receipt, thread, inner, runs>>
     \/ /\ ~HasReceipt(t) /\ inner[t] = "none"
        /\ inner' = [inner EXCEPT ![t] = "planning"] /\ Return(t, "awaiting")
        /\ UNCHANGED <<status, receipt, thread, runs>>
     \/ ~HasReceipt(t) /\ AwaitInner(t) /\ UNCHANGED runs
  /\ UNCHANGED <<package, writer, queue, workers, svc, commands, crashes>>

\* The planner answers, and the gateway is started with its plan; or it raises, or there is
\* no gateway, or the plan is refused.  The record is not read again.
PlannerAnswers(t) ==
  /\ exec[t] = "awaiting" /\ inner[t] = "planning"
  /\ \/ inner' = [inner EXCEPT ![t] = "running"] /\ runs' = [runs EXCEPT ![t] = @ + 1]
     \/ inner' = [inner EXCEPT ![t] = "failed"] /\ UNCHANGED runs
  /\ UNCHANGED <<record, writer, queue, workers, exec, svc, commands, crashes>>

\* The gateway answers or raises.
GatewayEnds(t) ==
  /\ exec[t] = "awaiting" /\ inner[t] = "running"
  /\ \E end \in {"done", "failed"} : inner' = [inner EXCEPT ![t] = end]
  /\ UNCHANGED <<record, writer, queue, workers, exec, svc, counters>>

ResumeDispatch(t) ==
  /\ exec[t] = "awaiting" /\ AwaitInner(t)
  /\ UNCHANGED <<package, writer, queue, workers, svc, counters>>

\* Cancellation reaches whatever the execution was waiting for.
Unwind(t) ==
  /\ exec[t] = "cancelling"
  /\ Return(t, "cancelled")
  /\ inner' = [inner EXCEPT ![t] = IF @ \in {"planning", "running"} THEN "cancelled" ELSE @]
  /\ UNCHANGED <<record, writer, queue, workers, svc, counters>>

-----------------------------------------------------------------------------
(***************************************************************************)
(* A worker, from the end of the execution.                                *)
(***************************************************************************)
Finish(w) ==
  LET t == wtask[w] IN
  /\ exec' = [exec EXCEPT ![t] = "none"]
  /\ GiveRow(t)
  /\ lockq' = [lockq EXCEPT ![RepoOf[t]] = Released(@)]
  /\ wpc' = [wpc EXCEPT ![w] = "idle"] /\ wtask' = [wtask EXCEPT ![w] = NoTask]
  /\ expired' = expired \ {w}

Expire(w) ==
  /\ wpc[w] = "await" /\ w \notin expired
  /\ expired' = expired \cup {w}
  /\ CancelExecution({wtask[w]})
  /\ UNCHANGED <<record, writer, queue, wpc, wtask, lockq, interrupted, inner, svc, counters>>

\* Cancelled while it waits: the record follows, unless it is verified and
\* cancel_task raises into the handler that fails the task.
SwallowCancel(t) == UNCHANGED status   \* mutant: the cancellation leaves no trace
CancelRecord(t) ==
  SetStatus(t, IF status[t] = "verified" THEN "failed" ELSE "cancelled")

AwaitsCi(w) == exec[wtask[w]] = "returned" /\ wtask[w] \in Proof
               /\ status[wtask[w]] = "pending_verification"

Complete(w) ==
  LET t == wtask[w] IN
  /\ wpc[w] = "await" /\ exec[t] \in Settled
  /\ \/ w \in expired /\ SetStatus(t, "timed_out") /\ Finish(w)
     \/ w \notin expired /\ exec[t] = "error" /\ SetStatus(t, "failed") /\ Finish(w)
     \/ w \notin expired /\ exec[t] = "cancelled" /\ CancelRecord(t) /\ Finish(w)
     \/ w \notin expired /\ exec[t] = "returned" /\ ~AwaitsCi(w) /\ UNCHANGED status /\ Finish(w)
     \/ /\ w \notin expired /\ AwaitsCi(w)
        /\ wpc' = [wpc EXCEPT ![w] = "ci"]
        /\ UNCHANGED <<status, exec, writer, lockq, wtask, expired>>
  /\ UNCHANGED <<receipt, package, thread, queue, interrupted, inner, svc, counters>>

\* CI passed and the evidence was accepted or not, or CI failed or timed out.
\* By then a client may have verified or cancelled the task; verify_task and
\* record_verification_blocker raise, and the worker fails the task.
CiAnswer(w) ==
  LET t == wtask[w] IN
  /\ wpc[w] = "ci" /\ w \notin interrupted
  /\ \/ /\ status[t] = "pending_verification"
        /\ \E s \in {"verified", "pending_verification", "failed"} : SetStatus(t, s)
     \/ status[t] # "pending_verification" /\ SetStatus(t, "failed")
  /\ Finish(w)
  /\ UNCHANGED <<receipt, package, thread, queue, interrupted, inner, svc, counters>>

-----------------------------------------------------------------------------
(***************************************************************************)
(* Stop, crash and start.                                                  *)
(***************************************************************************)
Stop ==
  /\ svc = "up"
  /\ svc' = "stopping"
  /\ CancelExecution(Task)
  /\ UNCHANGED <<record, writer, queue, workers, inner, counters>>

\* A worker with something to do does it before the gather of stop() returns.
Runnable(w) ==
  \/ wpc[w] = "idle" /\ queue # <<>>
  \/ wpc[w] = "lock" /\ Head(RepoLock(wtask[w])) = w
  \/ wpc[w] = "await" /\ exec[wtask[w]] \in Settled

\* Mutant: only the busy workers are cancelled.
CancelBusyWorkers ==
  /\ svc = "stopping"
  /\ \A t \in Task : exec[t] # "cancelling"
  /\ \A w \in Worker : ~Runnable(w)
  /\ svc' = "joining"
  /\ interrupted' = {w \in Worker : wpc[w] # "idle"}
  /\ UNCHANGED <<record, writer, queue, wpc, wtask, expired, lockq, tasks, counters>>

CancelWorkers ==
  /\ svc = "stopping"
  /\ \A t \in Task : exec[t] # "cancelling"
  /\ \A w \in Worker : ~Runnable(w)
  /\ svc' = "joining"
  /\ interrupted' = Worker
  /\ UNCHANGED <<record, writer, queue, wpc, wtask, expired, lockq, tasks, counters>>

\* CancelledError ends a worker that waits for the queue or the lock, and the
\* lock drops the waiter.  One that waits for an execution or for CI catches
\* it, and goes on.
Interrupt(w) ==
  /\ w \in interrupted
  /\ interrupted' = interrupted \ {w}
  /\ \/ /\ wpc[w] \in {"idle", "lock"}
        /\ wpc' = [wpc EXCEPT ![w] = "ended"] /\ wtask' = [wtask EXCEPT ![w] = NoTask]
        /\ \/ wpc[w] = "idle" /\ UNCHANGED lockq
           \/ wpc[w] = "lock" /\ \E i \in DOMAIN RepoLock(wtask[w]) :
                RepoLock(wtask[w])[i] = w /\ lockq' = [lockq EXCEPT ![RepoOf[wtask[w]]] = RemoveAt(@, i)]
        /\ UNCHANGED <<status, writer, exec, expired>>
     \/ /\ wpc[w] = "await" /\ CancelExecution({wtask[w]})
        /\ UNCHANGED <<status, writer, wpc, wtask, expired, lockq>>
     \/ wpc[w] = "ci" /\ CancelRecord(wtask[w]) /\ Finish(w)
  /\ UNCHANGED <<receipt, package, thread, queue, inner, svc, counters>>

ProcessGone ==
  /\ svc' = "down"
  /\ queue' = <<>>
  /\ wpc' = [w \in Worker |-> "idle"] /\ wtask' = [w \in Worker |-> NoTask]
  /\ expired' = {} /\ interrupted' = {}
  /\ lockq' = [r \in Repo |-> <<>>]
  /\ exec' = [t \in Task |-> "none"] /\ inner' = [t \in Task |-> "none"]
  /\ UNCHANGED <<record, writer, commands, runs>>

Stopped ==
  /\ svc = "joining" /\ \A w \in Worker : wpc[w] = "ended"
  /\ ProcessGone
  /\ UNCHANGED crashes

Crash ==
  /\ svc # "down" /\ crashes < MaxCrashes
  /\ crashes' = crashes + 1
  /\ ProcessGone

RecoveredRunning == {t \in Task : status[t] = "running"}   \* mutant: queued ones forgotten
Recovered        == {t \in Task : status[t] \in {"queued", "running"}}

\* Only the rows of the tasks that are recovered here are released.
Start ==
  /\ svc = "down"
  /\ svc' = "up"
  /\ status' = [t \in Task |-> IF t \in Recovered THEN "failed" ELSE status[t]]
  /\ writer' = [r \in Repo |-> IF writer[r] \in Recovered THEN NoTask ELSE writer[r]]
  /\ UNCHANGED <<receipt, package, thread, queue, workers, tasks, counters>>

\* Another process (the file apply engine) takes the row and gives it back.
OtherWriter(r) ==
  /\ writer[r] \in {NoTask, Other}
  /\ writer' = [writer EXCEPT ![r] = IF @ = Other THEN NoTask ELSE Other]
  /\ UNCHANGED <<record, queue, workers, tasks, svc, counters>>

-----------------------------------------------------------------------------
Client(t) ==
  \/ Dispatch(t) \/ Continue(t) \/ Cancel(t) \/ VerifyTask(t)
  \/ GenerateManualPackage(t) \/ MarkManualDispatched(t)
  \/ RecordManualAck(t) \/ ImportManualResult(t)

WorkerStep(w) == Take(w) \/ Enter(w) \/ Complete(w) \/ CiAnswer(w) \/ Interrupt(w)
TaskStep(t)   == DispatchTask(t) \/ ResumeDispatch(t) \/ Unwind(t)

Next ==
  \/ \E t \in Task : Client(t) \/ TaskStep(t) \/ PlannerAnswers(t) \/ GatewayEnds(t)
  \/ \E w \in Worker : WorkerStep(w) \/ Expire(w)
  \/ Stop \/ CancelWorkers \/ Stopped \/ Crash \/ Start
  \/ \E r \in Repo : OtherWriter(r)

Spec == Init /\ [][Next]_vars

\* The event loop runs what is ready, timers fire, and the host restarts the
\* service.  The planner and the gateway owe no answer, clients owe no call.
FairSpec ==
  /\ Spec
  /\ \A w \in Worker : WF_vars(WorkerStep(w)) /\ WF_vars(Expire(w))
  /\ \A t \in Task : WF_vars(TaskStep(t))
  /\ WF_vars(CancelWorkers) /\ WF_vars(Stopped) /\ WF_vars(Start)

-----------------------------------------------------------------------------
TypeOK ==
  /\ status \in [Task -> {"pending", "queued", "running", "pending_verification",
                          "verified", "failed", "timed_out", "cancelled"}]
  /\ receipt \subseteq Task /\ package \subseteq Relay /\ thread \subseteq Task
  /\ writer \in [Repo -> Task \cup {NoTask, Other}]
  /\ queue \in Seq(Task) /\ Len(queue) <= Capacity
  /\ wpc \in [Worker -> {"idle", "lock", "await", "ci", "ended"}]
  /\ wtask \in [Worker -> Task \cup {NoTask}]
  /\ expired \subseteq Worker /\ interrupted \subseteq Worker
  /\ lockq \in [Repo -> Seq(Worker)]
  /\ exec \in [Task -> Alive \cup Settled \cup {"none"}]
  /\ inner \in [Task -> {"none", "planning", "running", "done", "failed", "cancelled"}]
  /\ svc \in {"up", "stopping", "joining", "down"}
  /\ commands \in [Task -> Nat] /\ runs \in [Task -> Nat]
  /\ \A t \in Task : commands[t] <= MaxCommands[t]
  /\ crashes \in 0 .. MaxCrashes

(***************************************************************************)
(* One execution at a time on a repository, and one that may write only    *)
(* while the repository_writers row names its task: the lock, its FIFO     *)
(* hand-over, timeouts, cancellation and stop() keep them so together.     *)
(***************************************************************************)
OneExecution ==
  \A t, u \in Task : exec[t] \in Alive /\ exec[u] \in Alive /\ RepoOf[t] = RepoOf[u] => t = u

WriteHoldsRow ==
  \A t \in Writes : exec[t] \in Alive => writer[RepoOf[t]] = t

(***************************************************************************)
(* No dispatch is lost: a task that says "queued" is in the queue, or with *)
(* a worker that waits for the repository, whatever was cancelled,         *)
(* dispatched again or continued in the meantime.                          *)
(***************************************************************************)
QueuedIsWaiting ==
  svc = "up" => \A t \in Task : status[t] = "queued" =>
    \/ \E i \in 1 .. Len(queue) : queue[i] = t
    \/ \E w \in Worker : wpc[w] = "lock" /\ wtask[w] = t

(***************************************************************************)
(* A task that says "running" has a worker, unless the relay set it so or  *)
(* its receipt was there before it started.                                *)
(***************************************************************************)
RunningIsAttended ==
  svc = "up" => \A t \in Task : status[t] = "running" /\ t \notin receipt \cup package =>
    \E w \in Worker : wpc[w] = "await" /\ wtask[w] = t

(***************************************************************************)
(* No automatic duplicate execution: the gateway runs at most once for     *)
(* each dispatch or continue that was accepted, restarts included.         *)
(***************************************************************************)
NoAutomaticDuplicate == \A t \in Task : runs[t] <= commands[t]

(***************************************************************************)
(* The gateway is started only for who still wants it, though planning     *)
(* takes time and nothing is asked after it: the task was not cancelled, a *)
(* worker waits for it and has not timed out, and no result is on record,  *)
(* unless a person imported one by the relay since the planning began.     *)
(***************************************************************************)
GatewayIsWanted ==
  [][\A t \in Task : runs'[t] # runs[t] =>
       /\ status[t] # "cancelled"
       /\ \E w \in Worker : wpc[w] = "await" /\ wtask[w] = t /\ w \notin expired
       /\ t \in receipt => t \in package \cap thread]_vars

(***************************************************************************)
(* While the service is up, a queued task is taken up: bounded executions  *)
(* and the FIFO lock let every entry of the queue through.                 *)
(***************************************************************************)
QueuedIsServed ==
  \A t \in Task : (svc = "up" /\ status[t] = "queued") ~> (svc # "up" \/ status[t] # "queued")

(***************************************************************************)
(* Without crashes (MaxCrashes = 0) a task's writer row is given back.     *)
(***************************************************************************)
RowIsReleased == \A r \in Repo : writer[r] \in Task ~> writer[r] \notin Task

(***************************************************************************)
(* stop() returns if nothing waits behind the executions it cancels, none  *)
(* has started since, and no worker may be waiting for CI: the workers are *)
(* then all at the queue when they are cancelled.  (A worker caught        *)
(* elsewhere swallows the cancellation, and stop() waits for it forever.)  *)
(***************************************************************************)
NothingBehind ==
  /\ queue = <<>>
  /\ \A t \in Task : exec[t] \notin {"created", "awaiting"}
  /\ \A w \in Worker : wpc[w] \notin {"lock", "ci"} /\ wtask[w] \notin Proof
StopReturns == (svc = "stopping" /\ NothingBehind) ~> svc = "down"

(***************************************************************************)
(* The documented state machine has no way out of "verified".              *)
(***************************************************************************)
VerifiedIsFinal ==
  [][\A t \in Task : status[t] = "verified" => status'[t] = "verified"]_vars

(***************************************************************************)
(* "cancelled task cannot be dispatched": dispatch_task refuses it.        *)
(***************************************************************************)
CancelledNeverRuns ==
  [][\A t \in Task : status[t] = "cancelled" => status'[t] # "running"]_vars
=============================================================================
