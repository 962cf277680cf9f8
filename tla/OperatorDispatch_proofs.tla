----------------------- MODULE OperatorDispatch_proofs -----------------------
(***************************************************************************)
(* Proofs about the connected service, for any tasks, workers,             *)
(* repositories, queue capacity, number of calls and crashes.              *)
(***************************************************************************)
EXTENDS OperatorDispatch, FiniteSetTheorems, FunctionTheorems, SequenceTheorems, TLAPS

(***************************************************************************)
(* The lock and the workers agree: a worker with a task is in the lock of  *)
(* the task's repository and nowhere else, once, and at its head from the  *)
(* moment the execution is started.                                        *)
(***************************************************************************)
Holding == {"await", "ci"}

Occurs(w, s) == \E i \in 1 .. Len(s) : s[i] = w
Distinct(s)  == \A i, j \in 1 .. Len(s) : s[i] = s[j] => i = j

LockInv ==
  /\ \A w \in Worker : wpc[w] \in {"idle", "ended"} <=> wtask[w] = NoTask
  /\ \A w \in Worker : wtask[w] \in Task => Occurs(w, RepoLock(wtask[w]))
  /\ \A r \in Repo : \A w \in Worker :
       Occurs(w, lockq[r]) => wtask[w] \in Task /\ RepoOf[wtask[w]] = r
  /\ \A r \in Repo : Distinct(lockq[r])
  /\ \A w \in Worker : wpc[w] \in Holding => RepoLock(wtask[w])[1] = w

(***************************************************************************)
(* An execution has a worker, and the row follows the worker: from the     *)
(* start of the execution to its end.                                      *)
(***************************************************************************)
ExecInv ==
  /\ \A t \in Task : exec[t] # "none" => \E w \in Worker : wtask[w] = t /\ wpc[w] \in Holding
  /\ \A w \in Worker : wpc[w] = "ci" => exec[wtask[w]] \in Settled
  /\ \A w \in Worker : wpc[w] \in Holding /\ wtask[w] \in Writes =>
       writer[RepoOf[wtask[w]]] = wtask[w]

(***************************************************************************)
(* Workers are only interrupted by stop(), and nothing of the process      *)
(* outlives it.                                                            *)
(***************************************************************************)
LifeInv ==
  /\ svc # "joining" => interrupted = {}
  /\ svc = "down" => queue = <<>> /\ \A w \in Worker : wpc[w] = "idle"

\* An execution that returned has left the record as something else.
ReturnInv ==
  \A t \in Task : exec[t] = "returned" => status[t] # "running" \/ t \in receipt \cup package

(***************************************************************************)
(* What an accepted call still may lead to: an entry of the queue, a       *)
(* worker that waits with the task, an execution before its gateway run.   *)
(***************************************************************************)
Places(q, t) == {i \in 1 .. Len(q) : q[i] = t}
Waiters(t)   == {w \in Worker : wpc[w] = "lock" /\ wtask[w] = t}
Planning(t)  == exec[t] = "awaiting" /\ inner[t] = "planning"
Due(t) == Cardinality(Places(queue, t)) + Cardinality(Waiters(t))
          + (IF exec[t] = "created" \/ Planning(t) THEN 1 ELSE 0)

CallInv ==
  \A t \in Task : IsFiniteSet(Waiters(t)) /\ runs[t] + Due(t) <= commands[t]

(***************************************************************************)
(* Who still wants the execution that is to run the gateway: its task is   *)
(* not cancelled, its worker has not timed out, and a result that came     *)
(* while it plans came by the relay.                                       *)
(***************************************************************************)
Started(t)   == exec[t] \in {"created", "awaiting"} => status[t] # "cancelled"
Unexpired(w) ==
  /\ wpc[w] = "await" => exec[wtask[w]] # "none"
  /\ w \in expired => wpc[w] = "await" /\ exec[wtask[w]] \in {"cancelling"} \cup Settled
Unanswered(t) == Planning(t) /\ t \in receipt => t \in package \cap thread

WantedInv ==
  /\ \A t \in Task : Started(t) /\ Unanswered(t)
  /\ \A w \in Worker : Unexpired(w)

IInv == /\ LockInv /\ ExecInv /\ LifeInv /\ ReturnInv /\ QueuedIsWaiting /\ RunningIsAttended
        /\ CallInv /\ WantedInv

-----------------------------------------------------------------------------
(***************************************************************************)
(* Sequences: what Append, Tail and RemoveAt do to the members of a lock   *)
(* and of the queue.                                                       *)
(***************************************************************************)
\* s2 is s without its i-th element.
Without(s, s2, i) ==
  /\ Len(s2) = Len(s) - 1
  /\ \A j \in 1 .. Len(s2) : s2[j] = s[IF j < i THEN j ELSE j + 1]

LEMMA TailIsWithout ==
  ASSUME NEW S, NEW s \in Seq(S), s # <<>>
  PROVE  Tail(s) \in Seq(S) /\ Without(s, Tail(s), 1) /\ Len(s) \in Nat \ {0}
BY HeadTailProperties, EmptySeq, LenProperties DEF Without

LEMMA RemoveAtIsWithout ==
  ASSUME NEW S, NEW s \in Seq(S), NEW i \in 1 .. Len(s)
  PROVE  RemoveAt(s, i) \in Seq(S) /\ Without(s, RemoveAt(s, i), i)
<1> DEFINE a == SubSeq(s, 1, i - 1)
           b == SubSeq(s, i + 1, Len(s))
<1>0. Len(s) \in Nat
  OBVIOUS
<1>1. a \in Seq(S) /\ Len(a) = i - 1 /\ \A j \in 1 .. i - 1 : a[j] = s[j]
  BY <1>0
<1>2. b \in Seq(S) /\ Len(b) = Len(s) - i /\ \A j \in 1 .. Len(s) - i : b[j] = s[j + i]
  BY <1>0
<1> HIDE DEF a, b
<1>3. /\ a \o b \in Seq(S) /\ Len(a \o b) = Len(s) - 1
      /\ \A j \in 1 .. Len(a) + Len(b) : (a \o b)[j] = IF j <= Len(a) THEN a[j] ELSE b[j - Len(a)]
  <2>1. /\ a \o b \in Seq(S) /\ Len(a \o b) = Len(a) + Len(b)
        /\ \A j \in 1 .. Len(a) + Len(b) : (a \o b)[j] = IF j <= Len(a) THEN a[j] ELSE b[j - Len(a)]
    BY <1>1, <1>2, ConcatProperties
  <2>2. QED BY <1>0, <1>1, <1>2, <2>1
<1>4. \A j \in 1 .. Len(s) - 1 : (a \o b)[j] = s[IF j < i THEN j ELSE j + 1]
  <2> SUFFICES ASSUME NEW j \in 1 .. Len(s) - 1
               PROVE  (a \o b)[j] = s[IF j < i THEN j ELSE j + 1]
    OBVIOUS
  <2>1. CASE j < i
    BY <1>0, <1>1, <1>2, <1>3, <2>1
  <2>2. CASE ~(j < i)
    <3>1. j - (i - 1) \in 1 .. Len(s) - i /\ (j - (i - 1)) + i = j + 1
      BY <1>0, <2>2
    <3>2. (a \o b)[j] = b[j - (i - 1)]
      BY <1>0, <1>1, <1>2, <1>3, <2>2
    <3>3. QED BY <1>2, <2>2, <3>1, <3>2
  <2>3. QED BY <2>1, <2>2
<1>5. RemoveAt(s, i) = a \o b
  BY DEF RemoveAt, a, b
<1>6. QED BY <1>3, <1>4, <1>5 DEF Without

LEMMA WithoutMembers ==
  ASSUME NEW S, NEW s \in Seq(S), NEW s2 \in Seq(S), NEW i \in 1 .. Len(s),
         Distinct(s), Without(s, s2, i)
  PROVE  /\ Distinct(s2)
         /\ \A v : Occurs(v, s2) <=> Occurs(v, s) /\ v # s[i]
         /\ i # 1 /\ s2 # <<>> => s2[1] = s[1]
<1>0. Len(s) \in Nat /\ Len(s2) = Len(s) - 1
  BY DEF Without
<1>1. \A j \in 1 .. Len(s2) : s2[j] = s[IF j < i THEN j ELSE j + 1]
  BY DEF Without
<1>2. Distinct(s2)
  <2> SUFFICES ASSUME NEW j \in 1 .. Len(s2), NEW k \in 1 .. Len(s2), s2[j] = s2[k]
               PROVE  j = k
    BY DEF Distinct
  <2> DEFINE at(n) == IF n < i THEN n ELSE n + 1
  <2>1. at(j) \in 1 .. Len(s) /\ at(k) \in 1 .. Len(s)
    BY <1>0
  <2>2. s[at(j)] = s[at(k)]
    BY <1>1
  <2>3. at(j) = at(k)
    <3> HIDE DEF at
    <3> QED BY <2>1, <2>2 DEF Distinct
  <2>4. QED BY <1>0, <2>3
<1>3. ASSUME NEW v, Occurs(v, s2) PROVE Occurs(v, s) /\ v # s[i]
  <2>1. PICK j \in 1 .. Len(s2) : s2[j] = v
    BY <1>3 DEF Occurs
  <2>2. (IF j < i THEN j ELSE j + 1) \in 1 .. Len(s) /\ (IF j < i THEN j ELSE j + 1) # i
    BY <1>0
  <2>3. QED BY <1>1, <2>1, <2>2 DEF Occurs, Distinct
<1>4. ASSUME NEW v, Occurs(v, s), v # s[i] PROVE Occurs(v, s2)
  <2>1. PICK j \in 1 .. Len(s) : s[j] = v
    BY <1>4 DEF Occurs
  <2>2. CASE j < i
    BY <1>0, <1>1, <2>1, <2>2 DEF Occurs
  <2>3. CASE j > i
    <3>1. j - 1 \in 1 .. Len(s2) /\ ~(j - 1 < i) /\ (j - 1) + 1 = j
      BY <1>0, <2>3
    <3>2. s2[j - 1] = v
      BY <1>1, <2>1, <3>1
    <3>3. QED BY <3>1, <3>2 DEF Occurs
  <2>4. QED BY <1>4, <2>1, <2>2, <2>3
<1>5. i # 1 /\ s2 # <<>> => s2[1] = s[1]
  BY <1>0, <1>1
<1>6. QED BY <1>2, <1>3, <1>4, <1>5

LEMMA AppendMembers ==
  ASSUME NEW S, NEW s \in Seq(S), NEW w \in S
  PROVE  /\ Append(s, w) \in Seq(S) /\ Len(Append(s, w)) = Len(s) + 1
         /\ \A v : Occurs(v, Append(s, w)) <=> Occurs(v, s) \/ v = w
         /\ Distinct(s) /\ ~Occurs(w, s) => Distinct(Append(s, w))
         /\ s # <<>> => Append(s, w)[1] = s[1]
<1>1. /\ Append(s, w) \in Seq(S) /\ Len(Append(s, w)) = Len(s) + 1 /\ Len(s) \in Nat
      /\ \A i \in 1 .. Len(s) : Append(s, w)[i] = s[i]
      /\ Append(s, w)[Len(s) + 1] = w
  BY AppendProperties
<1>2. \A v : Occurs(v, Append(s, w)) <=> Occurs(v, s) \/ v = w
  <2>1. ASSUME NEW v, Occurs(v, Append(s, w)) PROVE Occurs(v, s) \/ v = w
    <3>1. PICK i \in 1 .. Len(s) + 1 : Append(s, w)[i] = v
      BY <1>1, <2>1 DEF Occurs
    <3>2. QED BY <1>1, <3>1 DEF Occurs
  <2>2. ASSUME NEW v, Occurs(v, s) PROVE Occurs(v, Append(s, w))
    BY <1>1, <2>2 DEF Occurs
  <2>3. Occurs(w, Append(s, w))
    BY <1>1 DEF Occurs
  <2>4. QED BY <2>1, <2>2, <2>3
<1>3. Distinct(s) /\ ~Occurs(w, s) => Distinct(Append(s, w))
  BY <1>1 DEF Distinct, Occurs
<1>4. s # <<>> => Append(s, w)[1] = s[1]
  BY <1>1, EmptySeq
<1>5. QED BY <1>1, <1>2, <1>3, <1>4

-----------------------------------------------------------------------------
(***************************************************************************)
(* Type correctness.                                                       *)
(***************************************************************************)
Statuses == {"pending", "queued", "running", "pending_verification",
             "verified", "failed", "timed_out", "cancelled"}

RecordType ==
  /\ status \in [Task -> Statuses]
  /\ receipt \subseteq Task /\ package \subseteq Relay /\ thread \subseteq Task
  /\ writer \in [Repo -> Task \cup {NoTask, Other}]

QueueType ==
  /\ queue \in Seq(Task) /\ Len(queue) <= Capacity
  /\ svc \in {"up", "stopping", "joining", "down"}
  /\ commands \in [Task -> Nat] /\ \A t \in Task : commands[t] <= MaxCommands[t]
  /\ crashes \in 0 .. MaxCrashes

WorkerType ==
  /\ wpc \in [Worker -> {"idle", "lock", "await", "ci", "ended"}]
  /\ wtask \in [Worker -> Task \cup {NoTask}]
  /\ expired \subseteq Worker /\ interrupted \subseteq Worker
  /\ lockq \in [Repo -> Seq(Worker)]

ExecType ==
  /\ exec \in [Task -> Alive \cup Settled \cup {"none"}]
  /\ inner \in [Task -> {"none", "planning", "running", "done", "failed", "cancelled"}]
  /\ runs \in [Task -> Nat]

LEMMA TypeParts ==
  /\ TypeOK <=> RecordType /\ QueueType /\ WorkerType /\ ExecType
  /\ TypeOK' <=> RecordType' /\ QueueType' /\ WorkerType' /\ ExecType'
BY DEF TypeOK, RecordType, QueueType, WorkerType, ExecType, Statuses

\* A worker with a task waits for, or has, the lock of its repository.
LEMMA BusyWorker ==
  ASSUME TypeOK, LockInv, NEW w \in Worker, wpc[w] \in {"lock"} \cup Holding
  PROVE  /\ wtask[w] \in Task /\ RepoOf[wtask[w]] \in Repo
         /\ RepoLock(wtask[w]) = lockq[RepoOf[wtask[w]]]
         /\ RepoLock(wtask[w]) \in Seq(Worker) /\ RepoLock(wtask[w]) # <<>>
         /\ Occurs(w, RepoLock(wtask[w]))
<1>1. wtask[w] \in Task
  <2>1. wpc[w] \notin {"idle", "ended"} /\ wtask[w] \in Task \cup {NoTask}
    BY DEF TypeOK, Holding
  <2>2. wpc[w] \in {"idle", "ended"} <=> wtask[w] = NoTask
    BY DEF LockInv
  <2>3. QED BY <2>1, <2>2
<1>2. Occurs(w, RepoLock(wtask[w])) /\ RepoOf[wtask[w]] \in Repo /\ RepoLock(wtask[w]) \in Seq(Worker)
  BY <1>1, DispatchAssumption DEF TypeOK, LockInv, RepoLock
<1>3. RepoLock(wtask[w]) # <<>>
  BY <1>2 DEF Occurs
<1>4. QED BY <1>1, <1>2, <1>3 DEF RepoLock

LEMMA ClientType ==
  ASSUME TypeOK, NEW t \in Task, Client(t)
  PROVE  TypeOK'
<1>0. RecordType /\ QueueType /\ WorkerType /\ ExecType
  BY TypeParts
<1>1. UNCHANGED <<writer, workers, inner, svc, runs, crashes>>
  BY DEF Client, Dispatch, Continue, Cancel, VerifyTask, GenerateManualPackage,
     MarkManualDispatched, RecordManualAck, ImportManualResult, tasks, counters
<1>2. RecordType'
  BY <1>0, <1>1, DispatchAssumption DEF RecordType, Statuses, SetStatus, Enqueue, Client, Dispatch,
     Continue, Cancel, VerifyTask, GenerateManualPackage, MarkManualDispatched, RecordManualAck,
     ImportManualResult
<1>3. QueueType'
  <2>1. CASE UNCHANGED <<queue, commands>>
    BY <1>0, <1>1, <2>1 DEF QueueType
  <2>2. CASE Enqueue(t) /\ Room /\ commands[t] < MaxCommands[t]
    <3>1. queue' \in Seq(Task) /\ Len(queue') <= Capacity
      BY <1>0, <2>2, AppendProperties, DispatchAssumption DEF QueueType, Enqueue, Room
    <3>2. commands' \in [Task -> Nat] /\ \A u \in Task : commands'[u] <= MaxCommands[u]
      <4>1. /\ commands' = [commands EXCEPT ![t] = @ + 1] /\ commands \in [Task -> Nat]
            /\ \A u \in Task : commands[u] <= MaxCommands[u] /\ MaxCommands[u] \in Nat
        BY <1>0, <2>2, DispatchAssumption DEF QueueType, Enqueue
      <4>2. QED BY <2>2, <4>1
    <3>3. QED BY <1>0, <1>1, <3>1, <3>2 DEF QueueType
  <2>3. QED BY <2>1, <2>2 DEF Client, Dispatch, Continue, Cancel, VerifyTask, GenerateManualPackage,
          MarkManualDispatched, RecordManualAck, ImportManualResult, counters
<1>4. WorkerType'
  BY <1>0, <1>1 DEF WorkerType, workers
<1>5. ExecType'
  BY <1>0, <1>1 DEF ExecType, tasks, Alive, Settled, CancelExecution, Client, Dispatch, Continue,
     Cancel, VerifyTask, GenerateManualPackage, MarkManualDispatched, RecordManualAck, ImportManualResult
<1>6. QED BY <1>2, <1>3, <1>4, <1>5, TypeParts

(***************************************************************************)
(* What a step of the execution of t may do: to its own record, its own    *)
(* entry of _active and of _executions, and to nothing else.               *)
(***************************************************************************)
Plans(t) == /\ exec[t] = "created" /\ t \notin receipt
            /\ Return(t, "awaiting") /\ inner' = [inner EXCEPT ![t] = "planning"]
            /\ UNCHANGED <<status, receipt, thread>>

LEMMA TaskSteps ==
  ASSUME TypeOK, NEW t \in Task, DispatchTask(t) \/ ResumeDispatch(t) \/ Unwind(t)
  PROVE  /\ UNCHANGED <<package, writer, queue, workers, svc, counters>>
         /\ exec[t] \in Alive
         /\ \/ Plans(t)
            \/ \E how \in {"error", "cancelled"} : Return(t, how)
            \/ /\ Return(t, "returned")
               /\ SetStatus(t, "failed") \/ SetStatus(t, "pending_verification") \/ t \in receipt'
         /\ status' = status \/ \E s \in {"failed", "pending_verification"} : SetStatus(t, s)
         /\ UNCHANGED <<receipt, thread>> \/ (receipt' = receipt \cup {t} /\ thread' = thread \cup {t})
         /\ inner' \in [Task -> {"none", "planning", "running", "done", "failed", "cancelled"}]
         /\ \A u \in Task \ {t} : inner'[u] = inner[u]
<1>0. inner \in [Task -> {"none", "planning", "running", "done", "failed", "cancelled"}]
  BY DEF TypeOK
<1>a. ASSUME AwaitInner(t)
      PROVE  /\ \/ \E how \in {"error", "cancelled"} : Return(t, how)
                \/ /\ Return(t, "returned")
                   /\ SetStatus(t, "failed") \/ SetStatus(t, "pending_verification") \/ t \in receipt'
             /\ status' = status \/ \E s \in {"failed", "pending_verification"} : SetStatus(t, s)
             /\ UNCHANGED <<receipt, thread>> \/ (receipt' = receipt \cup {t} /\ thread' = thread \cup {t})
             /\ inner' \in [Task -> {"none", "planning", "running", "done", "failed", "cancelled"}]
             /\ \A u \in Task \ {t} : inner'[u] = inner[u]
  <2>1. CASE ProcessResponse(t) /\ UNCHANGED inner
    BY <1>0, <2>1 DEF ProcessResponse
  <2>2. CASE inner[t] = "failed" \/ inner[t] = "cancelled"
    BY <1>0, <1>a, <2>2 DEF AwaitInner
  <2>3. QED BY <1>a, <2>1, <2>2 DEF AwaitInner
<1>1. CASE DispatchTask(t)
  <2>1. UNCHANGED <<package, writer, queue, workers, svc, commands, crashes>> /\ exec[t] \in Alive
    BY <1>1 DEF DispatchTask, Alive
  <2>2. CASE UNCHANGED <<status, receipt, thread, inner, runs>> /\ Return(t, "error")
    BY <1>0, <2>1, <2>2 DEF counters
  <2>3. CASE t \in receipt /\ Return(t, "returned") /\ UNCHANGED <<status, receipt, thread, inner, runs>>
    BY <1>0, <2>1, <2>3 DEF counters
  <2>4. CASE Return(t, "returned") /\ SetStatus(t, "failed") /\ UNCHANGED <<receipt, thread, inner, runs>>
    BY <1>0, <2>1, <2>4 DEF counters
  <2>5. CASE Plans(t) /\ UNCHANGED runs
    BY <1>0, <2>1, <2>5 DEF Plans, counters
  <2>6. CASE AwaitInner(t) /\ UNCHANGED runs
    BY <1>a, <2>1, <2>6 DEF counters
  <2>7. QED BY <1>1, <2>2, <2>3, <2>4, <2>5, <2>6 DEF DispatchTask, HasReceipt, Plans
<1>2. CASE ResumeDispatch(t)
  <2>1. /\ UNCHANGED <<package, writer, queue, workers, svc, counters>>
        /\ exec[t] \in Alive /\ AwaitInner(t)
    BY <1>2 DEF ResumeDispatch, Alive
  <2>2. QED BY <1>a, <2>1
<1>3. CASE Unwind(t)
  BY <1>0, <1>3 DEF Unwind, record, Alive
<1>4. QED BY <1>1, <1>2, <1>3

LEMMA TaskType ==
  ASSUME TypeOK, NEW t \in Task, DispatchTask(t) \/ ResumeDispatch(t) \/ Unwind(t)
  PROVE  TypeOK'
<1>0. RecordType /\ QueueType /\ WorkerType /\ ExecType
  BY TypeParts
<1>1. RecordType'
  BY <1>0, TaskSteps DEF RecordType, Statuses, SetStatus
<1>2. QueueType' /\ WorkerType'
  BY <1>0, TaskSteps DEF QueueType, WorkerType, workers, counters
<1>3. ExecType'
  BY <1>0, TaskSteps DEF ExecType, Return, Plans, Alive, Settled, counters
<1>4. QED BY <1>1, <1>2, <1>3, TypeParts

\* Execute starts the execution or gives the lock back.
LEMMA ExecuteType ==
  ASSUME TypeOK, NEW w \in Worker, NEW t \in Task,
         NEW held \in Seq(Worker), held # <<>>, Execute(w, t, held),
         UNCHANGED <<receipt, package, thread, expired, interrupted, inner, svc, counters>>,
         queue' = queue \/ (queue # <<>> /\ queue' = Tail(queue))
  PROVE  TypeOK'
<1>0. RecordType /\ QueueType /\ WorkerType /\ ExecType
  BY TypeParts
<1>1. Tail(held) \in Seq(Worker) /\ RepoOf[t] \in Repo
  BY HeadTailProperties, DispatchAssumption
<1>2. RecordType'
  BY <1>0, <1>1 DEF Execute, RecordType, Statuses, TakeRow, SetStatus
<1>3. QueueType'
  <2>1. queue' \in Seq(Task) /\ Len(queue') <= Len(queue) /\ Len(queue) \in Nat /\ Len(queue') \in Nat
    <3>1. queue \in Seq(Task) /\ Len(queue) \in Nat
      BY <1>0 DEF QueueType
    <3>2. queue # <<>> => Tail(queue) \in Seq(Task) /\ Len(Tail(queue)) = Len(queue) - 1
      BY <3>1, HeadTailProperties
    <3>3. QED BY <3>1, <3>2, LenProperties
  <2>2. QED BY <1>0, <2>1, DispatchAssumption DEF QueueType, counters
<1>4. WorkerType'
  BY <1>0, <1>1 DEF Execute, WorkerType, Released
<1>5. ExecType'
  BY <1>0 DEF Execute, ExecType, Alive, Settled, counters
<1>6. QED BY <1>2, <1>3, <1>4, <1>5, TypeParts

\* Finish, with what its callers leave alone.
LEMMA FinishType ==
  ASSUME TypeOK, LockInv, NEW w \in Worker, wpc[w] \in Holding, Finish(w), status' \in [Task -> Statuses],
         UNCHANGED <<receipt, package, thread, queue, inner, svc, counters>>, interrupted' \subseteq interrupted
  PROVE  TypeOK'
<1>0. RecordType /\ QueueType /\ WorkerType /\ ExecType
  BY TypeParts
<1>1. wtask[w] \in Task /\ RepoOf[wtask[w]] \in Repo /\ Tail(lockq[RepoOf[wtask[w]]]) \in Seq(Worker)
  BY BusyWorker, HeadTailProperties
<1>2. RecordType'
  BY <1>0, <1>1 DEF Finish, RecordType, GiveRow
<1>3. QueueType'
  BY <1>0 DEF QueueType, counters
<1>4. WorkerType'
  BY <1>0, <1>1 DEF Finish, WorkerType, Released
<1>5. ExecType'
  BY <1>0, <1>1 DEF Finish, ExecType, counters
<1>6. QED BY <1>2, <1>3, <1>4, <1>5, TypeParts

LEMMA WorkerStepType ==
  ASSUME TypeOK, LockInv, NEW w \in Worker, WorkerStep(w) \/ Expire(w)
  PROVE  TypeOK'
<1>0. RecordType /\ QueueType /\ WorkerType /\ ExecType
  BY TypeParts
<1>1. CASE Take(w)
  <2>1. /\ queue # <<>> /\ queue' = Tail(queue) /\ Head(queue) \in Task /\ RepoOf[Head(queue)] \in Repo
        /\ UNCHANGED <<receipt, package, thread, expired, interrupted, inner, svc, counters>>
    BY <1>0, <1>1, DispatchAssumption, HeadTailProperties DEF Take, QueueType
  <2>2. QueueType'
    <3>1. queue' \in Seq(Task) /\ Len(queue') = Len(queue) - 1 /\ Len(queue) \in Nat
      BY <1>0, <2>1, HeadTailProperties DEF QueueType
    <3>2. QED BY <1>0, <2>1, <3>1, DispatchAssumption DEF QueueType, counters
  <2>3. CASE UNCHANGED <<status, writer, exec, wpc, wtask, lockq>>
    <3>1. RecordType' /\ WorkerType' /\ ExecType'
      BY <1>0, <2>1, <2>3 DEF RecordType, WorkerType, ExecType, counters
    <3>2. QED BY <2>2, <3>1, TypeParts
  <2>4. CASE Execute(w, Head(queue), <<w>>)
    <3>1. <<w>> \in Seq(Worker) /\ <<w>> # <<>>
      OBVIOUS
    <3>2. QED BY <2>1, <2>4, <3>1, ExecuteType
  <2>5. CASE /\ wpc' = [wpc EXCEPT ![w] = "lock"] /\ wtask' = [wtask EXCEPT ![w] = Head(queue)]
             /\ lockq' = [lockq EXCEPT ![RepoOf[Head(queue)]] = Append(@, w)]
             /\ UNCHANGED <<status, writer, exec>>
    <3>1. RecordType' /\ ExecType'
      BY <1>0, <2>1, <2>5 DEF RecordType, ExecType, counters
    <3>2. Append(lockq[RepoOf[Head(queue)]], w) \in Seq(Worker)
      BY <1>0, <2>1, AppendProperties DEF WorkerType
    <3>3. WorkerType'
      BY <1>0, <2>1, <2>5, <3>2 DEF WorkerType
    <3>4. QED BY <2>2, <3>1, <3>3, TypeParts
  <2>6. QED BY <1>1, <2>3, <2>4, <2>5 DEF Take
<1>2. CASE Enter(w)
  <2>1. wtask[w] \in Task /\ RepoLock(wtask[w]) \in Seq(Worker) /\ RepoLock(wtask[w]) # <<>>
    BY <1>2, BusyWorker DEF Enter
  <2>2. /\ Execute(w, wtask[w], RepoLock(wtask[w]))
        /\ UNCHANGED <<receipt, package, thread, expired, interrupted, inner, svc, counters>>
        /\ queue' = queue
    BY <1>2 DEF Enter
  <2>3. QED BY <2>1, <2>2, ExecuteType
<1>3. CASE Complete(w) /\ Finish(w)
  <2>1. wpc[w] \in Holding /\ UNCHANGED <<receipt, package, thread, queue, interrupted, inner, svc, counters>>
    BY <1>3 DEF Complete, Holding
  <2>2. status' \in [Task -> Statuses]
    BY <1>0, <1>3 DEF Complete, CancelRecord, RecordType, Statuses, SetStatus
  <2>3. QED BY <1>3, <2>1, <2>2, FinishType
<1>4. CASE Complete(w) /\ ~Finish(w)
  <2>1. /\ wpc' = [wpc EXCEPT ![w] = "ci"]
        /\ UNCHANGED <<status, exec, writer, lockq, wtask, expired>>
        /\ UNCHANGED <<receipt, package, thread, queue, interrupted, inner, svc, counters>>
    BY <1>4 DEF Complete
  <2>2. RecordType' /\ QueueType' /\ WorkerType' /\ ExecType'
    BY <1>0, <2>1 DEF RecordType, QueueType, WorkerType, ExecType, counters
  <2>3. QED BY <2>2, TypeParts
<1>5. CASE CiAnswer(w)
  <2>1. /\ wpc[w] \in Holding /\ Finish(w)
        /\ UNCHANGED <<receipt, package, thread, queue, interrupted, inner, svc, counters>>
    BY <1>5 DEF CiAnswer, Holding
  <2>2. status' \in [Task -> Statuses]
    BY <1>0, <1>5 DEF CiAnswer, RecordType, Statuses, SetStatus
  <2>3. QED BY <2>1, <2>2, FinishType
<1>6. CASE Interrupt(w)
  <2>0. UNCHANGED <<receipt, package, thread, queue, inner, svc, counters>> /\ interrupted' = interrupted \ {w}
    BY <1>6 DEF Interrupt
  <2>1. CASE wpc[w] \in {"idle", "lock"}
    <3>1. /\ wpc' = [wpc EXCEPT ![w] = "ended"] /\ wtask' = [wtask EXCEPT ![w] = NoTask]
          /\ UNCHANGED <<status, writer, exec, expired>>
      BY <1>6, <2>1 DEF Interrupt
    <3>2. lockq' \in [Repo -> Seq(Worker)]
      <4>1. CASE wpc[w] = "idle"
        BY <1>0, <1>6, <4>1 DEF Interrupt, WorkerType
      <4>2. CASE wpc[w] = "lock"
        <5>1. PICK i \in DOMAIN RepoLock(wtask[w]) :
                lockq' = [lockq EXCEPT ![RepoOf[wtask[w]]] = RemoveAt(@, i)]
          BY <1>6, <4>2 DEF Interrupt
        <5>2. /\ RepoLock(wtask[w]) = lockq[RepoOf[wtask[w]]] /\ RepoLock(wtask[w]) \in Seq(Worker)
              /\ i \in 1 .. Len(RepoLock(wtask[w]))
          BY <4>2, BusyWorker
        <5>3. RemoveAt(lockq[RepoOf[wtask[w]]], i) \in Seq(Worker)
          BY <5>2, RemoveAtIsWithout
        <5>4. QED BY <1>0, <5>1, <5>3 DEF WorkerType
      <4>3. QED BY <2>1, <4>1, <4>2
    <3>3. RecordType' /\ QueueType' /\ WorkerType' /\ ExecType'
      BY <1>0, <2>0, <3>1, <3>2 DEF RecordType, QueueType, WorkerType, ExecType, counters
    <3>4. QED BY <3>3, TypeParts
  <2>2. CASE wpc[w] = "await"
    <3>1. CancelExecution({wtask[w]}) /\ UNCHANGED <<status, writer, wpc, wtask, expired, lockq>>
      BY <1>6, <2>2 DEF Interrupt
    <3>2. RecordType' /\ QueueType' /\ WorkerType'
      BY <1>0, <2>0, <3>1 DEF RecordType, QueueType, WorkerType, counters
    <3>3. ExecType'
      BY <1>0, <2>0, <3>1 DEF ExecType, CancelExecution, Alive, Settled, counters
    <3>4. QED BY <3>2, <3>3, TypeParts
  <2>3. CASE wpc[w] = "ci"
    <3>1. CancelRecord(wtask[w]) /\ Finish(w) /\ wpc[w] \in Holding
      BY <1>6, <2>3 DEF Interrupt, Holding
    <3>2. status' \in [Task -> Statuses]
      BY <1>0, <3>1 DEF CancelRecord, RecordType, Statuses, SetStatus
    <3>3. QED BY <2>0, <3>1, <3>2, FinishType
  <2>4. QED BY <1>6, <2>1, <2>2, <2>3 DEF Interrupt
<1>7. CASE Expire(w)
  <2>1. RecordType' /\ QueueType' /\ WorkerType'
    BY <1>0, <1>7 DEF Expire, RecordType, QueueType, WorkerType, record, counters
  <2>2. ExecType'
    BY <1>0, <1>7 DEF Expire, ExecType, CancelExecution, Alive, Settled, counters
  <2>3. QED BY <2>1, <2>2, TypeParts
<1>8. QED BY <1>1, <1>2, <1>3, <1>4, <1>5, <1>6, <1>7 DEF WorkerStep

LEMMA TypeStep == TypeOK /\ LockInv /\ [Next]_vars => TypeOK'
<1> SUFFICES ASSUME TypeOK, LockInv, [Next]_vars PROVE TypeOK'
  OBVIOUS
<1>0. RecordType /\ QueueType /\ WorkerType /\ ExecType
  BY TypeParts
<1>1. CASE UNCHANGED vars
  BY <1>1 DEF vars, record, workers, tasks, counters, TypeOK
<1>2. ASSUME NEW t \in Task, Client(t) \/ TaskStep(t) PROVE TypeOK'
  BY <1>2, ClientType, TaskType DEF TaskStep
<1>3. ASSUME NEW t \in Task, PlannerAnswers(t) \/ GatewayEnds(t) PROVE TypeOK'
  <2>1. UNCHANGED <<record, writer, queue, workers, exec, svc, commands, crashes>>
    BY <1>3 DEF PlannerAnswers, GatewayEnds, counters
  <2>2. RecordType' /\ QueueType' /\ WorkerType'
    BY <1>0, <2>1 DEF RecordType, QueueType, WorkerType, record, workers
  <2>3. ExecType'
    BY <1>0, <1>3, <2>1 DEF PlannerAnswers, GatewayEnds, ExecType, counters
  <2>4. QED BY <2>2, <2>3, TypeParts
<1>4. ASSUME NEW w \in Worker, WorkerStep(w) \/ Expire(w) PROVE TypeOK'
  BY <1>4, WorkerStepType
<1>5. CASE Stop \/ CancelWorkers
  <2>1. RecordType' /\ QueueType' /\ WorkerType'
    BY <1>0, <1>5 DEF Stop, CancelWorkers, RecordType, QueueType, WorkerType, record, workers, counters
  <2>2. ExecType'
    BY <1>0, <1>5 DEF Stop, CancelWorkers, CancelExecution, ExecType, Alive, Settled, tasks, counters
  <2>3. QED BY <2>1, <2>2, TypeParts
<1>6. CASE Stopped \/ Crash
  <2>0. /\ ProcessGone /\ RecordType'
    BY <1>0, <1>6 DEF Stopped, Crash, ProcessGone, RecordType, record
  <2>1. WorkerType' /\ ExecType'
    BY <1>0, <2>0 DEF ProcessGone, WorkerType, ExecType
  <2>2. QueueType'
    <3>1. /\ queue' = <<>> /\ svc' = "down" /\ UNCHANGED commands
          /\ crashes' = crashes \/ (crashes' = crashes + 1 /\ crashes < MaxCrashes)
      BY <1>6 DEF Stopped, Crash, ProcessGone
    <3>2. crashes' \in 0 .. MaxCrashes
      BY <1>0, <3>1, DispatchAssumption DEF QueueType
    <3>3. <<>> \in Seq(Task) /\ Len(<<>>) = 0 /\ 0 <= Capacity
      BY DispatchAssumption
    <3>4. QED BY <1>0, <3>1, <3>2, <3>3 DEF QueueType
  <2>3. QED BY <2>0, <2>1, <2>2, TypeParts
<1>7. CASE Start
  <2>1. RecordType' /\ QueueType' /\ WorkerType' /\ ExecType'
    BY <1>0, <1>7 DEF Start, RecordType, QueueType, WorkerType, ExecType, Statuses, workers, tasks, counters
  <2>2. QED BY <2>1, TypeParts
<1>8. ASSUME NEW r \in Repo, OtherWriter(r) PROVE TypeOK'
  <2>1. RecordType' /\ QueueType' /\ WorkerType' /\ ExecType'
    BY <1>0, <1>8 DEF OtherWriter, RecordType, QueueType, WorkerType, ExecType, record, workers, tasks, counters
  <2>2. QED BY <2>1, TypeParts
<1>9. QED BY <1>1, <1>2, <1>3, <1>4, <1>5, <1>6, <1>7, <1>8 DEF Next

-----------------------------------------------------------------------------
(***************************************************************************)
(* The lock.  What a step does to the workers and to the locks: nothing,   *)
(* or one worker joins a lock, is let in, waits for CI or leaves, or the   *)
(* process is gone.                                                        *)
(***************************************************************************)
Joins(w, t) ==
  /\ wpc[w] = "idle" /\ RepoOf[t] \in Repo
  /\ wpc' = [wpc EXCEPT ![w] = IF RepoLock(t) = <<>> THEN "await" ELSE "lock"]
  /\ wtask' = [wtask EXCEPT ![w] = t]
  /\ lockq' = [lockq EXCEPT ![RepoOf[t]] = Append(@, w)]

LetIn(w) ==
  /\ wpc[w] = "lock" /\ RepoLock(wtask[w])[1] = w
  /\ wpc' = [wpc EXCEPT ![w] = "await"] /\ UNCHANGED <<wtask, lockq>>

ToCi(w) ==
  /\ wpc[w] = "await" /\ wpc' = [wpc EXCEPT ![w] = "ci"] /\ UNCHANGED <<wtask, lockq>>

Leaves(w) ==
  /\ wpc[w] \in {"lock", "await", "ci"}
  /\ \E pc \in {"idle", "ended"} : wpc' = [wpc EXCEPT ![w] = pc]
  /\ wtask' = [wtask EXCEPT ![w] = NoTask]
  /\ \E i \in 1 .. Len(RepoLock(wtask[w])), s \in Seq(Worker) :
       /\ RepoLock(wtask[w])[i] = w /\ Without(RepoLock(wtask[w]), s, i)
       /\ lockq' = [lockq EXCEPT ![RepoOf[wtask[w]]] = s]

Ends(w) ==
  /\ wpc[w] = "idle" /\ wpc' = [wpc EXCEPT ![w] = "ended"] /\ UNCHANGED <<wtask, lockq>>

Gone ==
  /\ wpc' = [w \in Worker |-> "idle"] /\ wtask' = [w \in Worker |-> NoTask]
  /\ lockq' = [r \in Repo |-> <<>>]

LEMMA FirstOf ==
  ASSUME TypeOK, LockInv, NEW w \in Worker, wpc[w] \in Holding
  PROVE  RepoLock(wtask[w])[1] = w
BY DEF LockInv

\* Giving the lock back: its head leaves.
LEMMA TailLeaves ==
  ASSUME TypeOK, LockInv, NEW w \in Worker, wpc[w] \in {"lock"} \cup Holding, RepoLock(wtask[w])[1] = w,
         wpc' = [wpc EXCEPT ![w] = "idle"], wtask' = [wtask EXCEPT ![w] = NoTask],
         lockq' = [lockq EXCEPT ![RepoOf[wtask[w]]] = Tail(RepoLock(wtask[w]))]
  PROVE  Leaves(w)
<1>1. RepoLock(wtask[w]) \in Seq(Worker) /\ RepoLock(wtask[w]) # <<>>
  BY BusyWorker
<1>2. /\ Tail(RepoLock(wtask[w])) \in Seq(Worker) /\ Without(RepoLock(wtask[w]), Tail(RepoLock(wtask[w])), 1)
      /\ 1 \in 1 .. Len(RepoLock(wtask[w]))
  BY <1>1, TailIsWithout
<1>3. QED BY <1>2 DEF Leaves, Holding

LEMMA FinishLeaves ==
  ASSUME TypeOK, LockInv, NEW w \in Worker, wpc[w] \in Holding, Finish(w)
  PROVE  Leaves(w)
<1>1. RepoLock(wtask[w]) = lockq[RepoOf[wtask[w]]] /\ RepoOf[wtask[w]] \in Repo
  BY BusyWorker
<1>2. lockq' = [lockq EXCEPT ![RepoOf[wtask[w]]] = Tail(RepoLock(wtask[w]))]
  BY <1>1 DEF Finish, Released
<1>3. QED BY <1>2, FirstOf, TailLeaves DEF Finish

LEMMA TakeMoves ==
  ASSUME TypeOK, LockInv, NEW w \in Worker, Take(w)
  PROVE  UNCHANGED <<wpc, wtask, lockq>> \/ Joins(w, Head(queue))
<1> DEFINE t == Head(queue)
<1>1. /\ wpc[w] = "idle" /\ queue # <<>> /\ t \in Task /\ RepoOf[t] \in Repo
      /\ RepoLock(t) = lockq[RepoOf[t]] /\ lockq[RepoOf[t]] \in Seq(Worker)
  BY HeadTailProperties, DispatchAssumption DEF Take, TypeOK, RepoLock
<1> HIDE DEF t
<1>2. wpc \in [Worker -> {"idle", "lock", "await", "ci", "ended"}] /\ wtask[w] = NoTask
      /\ wtask \in [Worker -> Task \cup {NoTask}] /\ lockq \in [Repo -> Seq(Worker)]
  BY <1>1 DEF TypeOK, LockInv
<1>3. CASE RepoLock(t) = <<>> /\ Execute(w, t, <<w>>)
  <2>1. CASE /\ wpc' = [wpc EXCEPT ![w] = "await"] /\ wtask' = [wtask EXCEPT ![w] = t]
             /\ lockq' = [lockq EXCEPT ![RepoOf[t]] = <<w>>]
    <3>1. Append(lockq[RepoOf[t]], w) = <<w>>
      BY <1>1, <1>3
    <3>2. lockq' = [lockq EXCEPT ![RepoOf[t]] = Append(@, w)]
      BY <2>1, <3>1
    <3>3. Joins(w, t)
      BY <1>1, <1>3, <2>1, <3>2 DEF Joins
    <3>4. QED BY <3>3 DEF t
  <2>2. CASE /\ wpc' = [wpc EXCEPT ![w] = "idle"] /\ wtask' = [wtask EXCEPT ![w] = NoTask]
             /\ lockq' = [lockq EXCEPT ![RepoOf[t]] = Tail(<<w>>)]
    <3>1. Tail(<<w>>) = <<>>
      OBVIOUS
    <3>2. QED BY <1>1, <1>2, <1>3, <2>2, <3>1
  <2>3. QED BY <1>3, <2>1, <2>2 DEF Execute, Released
<1>4. CASE /\ RepoLock(t) # <<>> /\ wpc' = [wpc EXCEPT ![w] = "lock"] /\ wtask' = [wtask EXCEPT ![w] = t]
           /\ lockq' = [lockq EXCEPT ![RepoOf[t]] = Append(@, w)]
  <2>1. Joins(w, t)
    BY <1>1, <1>4 DEF Joins
  <2>2. QED BY <2>1 DEF t
<1>5. QED BY <1>3, <1>4 DEF Take, t

LEMMA EnterMoves ==
  ASSUME TypeOK, LockInv, NEW w \in Worker, Enter(w)
  PROVE  LetIn(w) \/ Leaves(w)
<1>1. /\ wpc[w] = "lock" /\ wtask[w] \in Task /\ RepoOf[wtask[w]] \in Repo
      /\ RepoLock(wtask[w]) = lockq[RepoOf[wtask[w]]] /\ RepoLock(wtask[w])[1] = w
  BY BusyWorker, HeadTailProperties DEF Enter
<1>2. CASE /\ wpc' = [wpc EXCEPT ![w] = "await"] /\ wtask' = [wtask EXCEPT ![w] = wtask[w]]
           /\ lockq' = [lockq EXCEPT ![RepoOf[wtask[w]]] = RepoLock(wtask[w])]
  BY <1>1, <1>2 DEF LetIn, TypeOK
<1>3. CASE /\ wpc' = [wpc EXCEPT ![w] = "idle"] /\ wtask' = [wtask EXCEPT ![w] = NoTask]
           /\ lockq' = [lockq EXCEPT ![RepoOf[wtask[w]]] = Tail(RepoLock(wtask[w]))]
  BY <1>1, <1>3, TailLeaves
<1>4. QED BY <1>2, <1>3 DEF Enter, Execute, Released

LEMMA InterruptMoves ==
  ASSUME TypeOK, LockInv, NEW w \in Worker, Interrupt(w)
  PROVE  UNCHANGED <<wpc, wtask, lockq>> \/ Ends(w) \/ Leaves(w)
<1>1. CASE wpc[w] = "idle"
  <2>1. /\ wpc' = [wpc EXCEPT ![w] = "ended"] /\ wtask' = [wtask EXCEPT ![w] = NoTask] /\ UNCHANGED lockq
    BY <1>1 DEF Interrupt
  <2>2. wtask[w] = NoTask /\ wtask \in [Worker -> Task \cup {NoTask}]
    BY <1>1 DEF LockInv, TypeOK
  <2>3. QED BY <1>1, <2>1, <2>2 DEF Ends
<1>2. CASE wpc[w] = "lock"
  <2>1. /\ wpc' = [wpc EXCEPT ![w] = "ended"] /\ wtask' = [wtask EXCEPT ![w] = NoTask]
    BY <1>2 DEF Interrupt
  <2>2. PICK i \in DOMAIN RepoLock(wtask[w]) :
          RepoLock(wtask[w])[i] = w /\ lockq' = [lockq EXCEPT ![RepoOf[wtask[w]]] = RemoveAt(@, i)]
    BY <1>2 DEF Interrupt
  <2>3. /\ RepoLock(wtask[w]) = lockq[RepoOf[wtask[w]]] /\ RepoLock(wtask[w]) \in Seq(Worker)
        /\ i \in 1 .. Len(RepoLock(wtask[w]))
    BY <1>2, BusyWorker
  <2>4. RemoveAt(RepoLock(wtask[w]), i) \in Seq(Worker) /\ Without(RepoLock(wtask[w]), RemoveAt(RepoLock(wtask[w]), i), i)
    BY <2>3, RemoveAtIsWithout
  <2>5. lockq' = [lockq EXCEPT ![RepoOf[wtask[w]]] = RemoveAt(RepoLock(wtask[w]), i)]
    BY <2>2, <2>3
  <2>6. QED BY <1>2, <2>1, <2>2, <2>3, <2>4, <2>5 DEF Leaves
<1>3. CASE wpc[w] = "await"
  BY <1>3 DEF Interrupt
<1>4. CASE wpc[w] = "ci"
  BY <1>4, FinishLeaves DEF Interrupt, Holding
<1>5. QED BY <1>1, <1>2, <1>3, <1>4 DEF Interrupt

LEMMA Moves ==
  ASSUME TypeOK, LockInv, [Next]_vars
  PROVE  \/ UNCHANGED <<wpc, wtask, lockq>> \/ Gone
         \/ \E w \in Worker : LetIn(w) \/ ToCi(w) \/ Leaves(w) \/ Ends(w) \/ \E t \in Task : Joins(w, t)
<1>1. CASE UNCHANGED vars
  BY <1>1 DEF vars, workers
<1>2. ASSUME NEW t \in Task, Client(t) \/ TaskStep(t) \/ PlannerAnswers(t) \/ GatewayEnds(t)
      PROVE  UNCHANGED <<wpc, wtask, lockq>>
  <2>1. UNCHANGED workers
    BY <1>2, TaskSteps DEF Client, Dispatch, Continue, Cancel, VerifyTask, GenerateManualPackage,
       MarkManualDispatched, RecordManualAck, ImportManualResult, TaskStep, PlannerAnswers, GatewayEnds
  <2>2. QED BY <2>1 DEF workers
<1>3. ASSUME NEW w \in Worker, WorkerStep(w) \/ Expire(w)
      PROVE  UNCHANGED <<wpc, wtask, lockq>> \/ LetIn(w) \/ ToCi(w) \/ Leaves(w) \/ Ends(w)
             \/ \E t \in Task : Joins(w, t)
  <2>1. CASE Take(w)
    <3>1. Head(queue) \in Task
      BY <2>1, HeadTailProperties DEF Take, TypeOK
    <3>2. QED BY <2>1, <3>1, TakeMoves
  <2>2. CASE Complete(w) /\ Finish(w)
    BY <2>2, FinishLeaves DEF Complete, Holding
  <2>3. CASE Complete(w) /\ ~Finish(w)
    BY <2>3 DEF Complete, ToCi
  <2>4. CASE CiAnswer(w)
    BY <2>4, FinishLeaves DEF CiAnswer, Holding
  <2>5. CASE Expire(w)
    BY <2>5 DEF Expire
  <2>6. QED BY <1>3, <2>1, <2>2, <2>3, <2>4, <2>5, EnterMoves, InterruptMoves DEF WorkerStep
<1>4. CASE Stop \/ CancelWorkers \/ Start \/ \E r \in Repo : OtherWriter(r)
  BY <1>4 DEF Stop, CancelWorkers, Start, OtherWriter, workers
<1>5. CASE Stopped \/ Crash
  BY <1>5 DEF Stopped, Crash, ProcessGone, Gone
<1>6. QED BY <1>1, <1>2, <1>3, <1>4, <1>5 DEF Next

LEMMA JoinKeepsLock ==
  ASSUME TypeOK, TypeOK', LockInv, NEW w \in Worker, NEW t \in Task, Joins(w, t)
  PROVE  LockInv'
<1> DEFINE r == RepoOf[t]
<1>1. /\ r \in Repo /\ lockq[r] \in Seq(Worker) /\ wpc[w] = "idle" /\ RepoLock(t) = lockq[r]
      /\ t # NoTask /\ wtask[w] = NoTask
  BY DispatchAssumption DEF Joins, TypeOK, LockInv, RepoLock
<1>2. \A v \in Worker : /\ v # w => wpc'[v] = wpc[v] /\ wtask'[v] = wtask[v]
                        /\ v = w => wpc'[v] \in {"await", "lock"} /\ wtask'[v] = t
  BY DEF Joins, TypeOK
<1>3. \A p \in Repo : lockq'[p] = IF p = r THEN Append(lockq[r], w) ELSE lockq[p]
  BY DEF Joins, TypeOK
<1>4. \A p \in Repo : ~Occurs(w, lockq[p])
  BY <1>1, DispatchAssumption DEF LockInv
<1>5. /\ Distinct(lockq'[r]) /\ \A v \in Worker : Occurs(v, lockq'[r]) <=> Occurs(v, lockq[r]) \/ v = w
      /\ lockq[r] # <<>> => lockq'[r][1] = lockq[r][1]
      /\ lockq[r] = <<>> => lockq'[r][1] = w
  <2>1. Distinct(lockq[r])
    BY <1>1 DEF LockInv
  <2>2. lockq[r] = <<>> => Append(lockq[r], w)[1] = w
    BY <1>1
  <2>3. lockq'[r] = Append(lockq[r], w) /\ ~Occurs(w, lockq[r])
    BY <1>1, <1>3, <1>4
  <2> HIDE DEF r
  <2>4. /\ \A v : Occurs(v, Append(lockq[r], w)) <=> Occurs(v, lockq[r]) \/ v = w
        /\ Distinct(Append(lockq[r], w))
        /\ lockq[r] # <<>> => Append(lockq[r], w)[1] = lockq[r][1]
    BY <1>1, <2>1, <2>3, AppendMembers
  <2>5. QED BY <2>2, <2>3, <2>4
<1>6. \A v \in Worker : wpc'[v] \in {"idle", "ended"} <=> wtask'[v] = NoTask
  BY <1>1, <1>2 DEF LockInv
<1>7. \A v \in Worker : wtask'[v] \in Task => RepoOf[wtask'[v]] \in Repo /\ Occurs(v, lockq'[RepoOf[wtask'[v]]])
  <2> SUFFICES ASSUME NEW v \in Worker, wtask'[v] \in Task
               PROVE  RepoOf[wtask'[v]] \in Repo /\ Occurs(v, lockq'[RepoOf[wtask'[v]]])
    OBVIOUS
  <2>1. RepoOf[wtask'[v]] \in Repo
    BY DispatchAssumption
  <2>2. v # w => Occurs(v, lockq[RepoOf[wtask'[v]]])
    BY <1>2 DEF LockInv, RepoLock
  <2>3. QED BY <1>2, <1>3, <1>5, <2>1, <2>2
<1>8. \A p \in Repo : \A v \in Worker :
        Occurs(v, lockq'[p]) => wtask'[v] \in Task /\ RepoOf[wtask'[v]] = p
  BY <1>2, <1>3, <1>4, <1>5 DEF LockInv
<1>9. \A p \in Repo : Distinct(lockq'[p])
  BY <1>3, <1>5 DEF LockInv
<1>10. \A v \in Worker : wpc'[v] \in Holding => lockq'[RepoOf[wtask'[v]]][1] = v
  <2> SUFFICES ASSUME NEW v \in Worker, wpc'[v] \in Holding PROVE lockq'[RepoOf[wtask'[v]]][1] = v
    OBVIOUS
  <2>1. CASE v = w
    <3>1. lockq[r] = <<>>
      BY <1>1, <2>1 DEF Joins, Holding, TypeOK
    <3>2. QED BY <1>2, <1>5, <2>1, <3>1
  <2>2. CASE v # w
    <3>1. wpc[v] \in Holding /\ wtask[v] = wtask'[v]
      BY <1>2, <2>2
    <3>2. /\ lockq[RepoOf[wtask[v]]][1] = v /\ RepoOf[wtask[v]] \in Repo
          /\ lockq[RepoOf[wtask[v]]] # <<>>
      BY <3>1, FirstOf, BusyWorker DEF RepoLock
    <3>3. QED BY <1>3, <1>5, <3>1, <3>2
  <2>3. QED BY <2>1, <2>2
<1>11. QED BY <1>6, <1>7, <1>8, <1>9, <1>10 DEF LockInv, RepoLock

LEMMA LeaveKeepsLock ==
  ASSUME TypeOK, TypeOK', LockInv, NEW w \in Worker, Leaves(w)
  PROVE  LockInv'
<1> DEFINE r == RepoOf[wtask[w]]
<1>0. wpc[w] \in {"lock"} \cup Holding
  BY DEF Leaves, Holding
<1>1. /\ r \in Repo /\ lockq[r] \in Seq(Worker) /\ RepoLock(wtask[w]) = lockq[r] /\ wtask[w] \in Task
  BY <1>0, BusyWorker
<1>2. PICK i \in 1 .. Len(lockq[r]), s \in Seq(Worker) :
        lockq[r][i] = w /\ Without(lockq[r], s, i) /\ lockq' = [lockq EXCEPT ![r] = s]
  <2>1. PICK i \in 1 .. Len(RepoLock(wtask[w])), s \in Seq(Worker) :
          /\ RepoLock(wtask[w])[i] = w /\ Without(RepoLock(wtask[w]), s, i)
          /\ lockq' = [lockq EXCEPT ![r] = s]
    BY DEF Leaves
  <2>2. QED BY <1>1, <2>1
<1>3. \A v \in Worker : /\ v # w => wpc'[v] = wpc[v] /\ wtask'[v] = wtask[v]
                        /\ v = w => wpc'[v] \in {"idle", "ended"} /\ wtask'[v] = NoTask
  BY DEF Leaves, TypeOK
<1>4. \A p \in Repo : lockq'[p] = IF p = r THEN s ELSE lockq[p]
  BY <1>2 DEF TypeOK
<1>5. /\ Distinct(s) /\ \A v \in Worker : Occurs(v, s) <=> Occurs(v, lockq[r]) /\ v # w
      /\ i # 1 /\ s # <<>> => s[1] = lockq[r][1]
  <2>1. Distinct(lockq[r])
    BY <1>1 DEF LockInv
  <2>2. QED BY <1>1, <1>2, <2>1, WithoutMembers
<1>6. \A v \in Worker : wpc'[v] \in {"idle", "ended"} <=> wtask'[v] = NoTask
  BY <1>3 DEF LockInv
<1>7. \A v \in Worker : wtask'[v] \in Task => RepoOf[wtask'[v]] \in Repo /\ Occurs(v, lockq'[RepoOf[wtask'[v]]])
  <2> SUFFICES ASSUME NEW v \in Worker, wtask'[v] \in Task
               PROVE  RepoOf[wtask'[v]] \in Repo /\ Occurs(v, lockq'[RepoOf[wtask'[v]]])
    OBVIOUS
  <2>1. RepoOf[wtask'[v]] \in Repo /\ v # w
    BY <1>3, DispatchAssumption
  <2>2. Occurs(v, lockq[RepoOf[wtask'[v]]])
    BY <1>3, <2>1 DEF LockInv, RepoLock
  <2>3. QED BY <1>4, <1>5, <2>1, <2>2
<1>8. \A p \in Repo : \A v \in Worker :
        Occurs(v, lockq'[p]) => wtask'[v] \in Task /\ RepoOf[wtask'[v]] = p
  <2> SUFFICES ASSUME NEW p \in Repo, NEW v \in Worker, Occurs(v, lockq'[p])
               PROVE  wtask'[v] \in Task /\ RepoOf[wtask'[v]] = p
    OBVIOUS
  <2>1. Occurs(v, lockq[p])
    BY <1>4, <1>5
  <2>2. wtask[v] \in Task /\ RepoOf[wtask[v]] = p
    BY <2>1 DEF LockInv
  <2>3. v # w
    BY <1>4, <1>5, <2>2
  <2>4. QED BY <1>3, <2>2, <2>3
<1>9. \A p \in Repo : Distinct(lockq'[p])
  BY <1>4, <1>5 DEF LockInv
<1>10. \A v \in Worker : wpc'[v] \in Holding => lockq'[RepoOf[wtask'[v]]][1] = v
  <2> SUFFICES ASSUME NEW v \in Worker, wpc'[v] \in Holding PROVE lockq'[RepoOf[wtask'[v]]][1] = v
    OBVIOUS
  <2>1. v # w /\ wpc[v] \in Holding /\ wtask'[v] = wtask[v]
    BY <1>3 DEF Holding
  <2>2. /\ lockq[RepoOf[wtask[v]]][1] = v /\ RepoOf[wtask[v]] \in Repo /\ Occurs(v, lockq[RepoOf[wtask[v]]])
    BY <2>1, FirstOf, BusyWorker DEF RepoLock
  <2>3. CASE RepoOf[wtask[v]] = r
    <3>1. i # 1 /\ Occurs(v, s)
      BY <1>2, <1>5, <2>1, <2>2, <2>3
    <3>2. s # <<>>
      BY <3>1 DEF Occurs
    <3>3. QED BY <1>4, <1>5, <2>1, <2>2, <2>3, <3>1, <3>2
  <2>4. QED BY <1>4, <2>1, <2>2, <2>3
<1>11. QED BY <1>6, <1>7, <1>8, <1>9, <1>10 DEF LockInv, RepoLock

LEMMA LockStep ==
  ASSUME TypeOK, TypeOK', LockInv, [Next]_vars
  PROVE  LockInv'
<1>1. CASE UNCHANGED <<wpc, wtask, lockq>>
  BY <1>1 DEF LockInv, RepoLock
<1>2. CASE Gone
  <2>1. /\ \A w \in Worker : wpc'[w] = "idle" /\ wtask'[w] = NoTask
        /\ \A r \in Repo : lockq'[r] = <<>>
    BY <1>2 DEF Gone
  <2>2. \A w \in Worker : ~Occurs(w, <<>>)
    BY DEF Occurs
  <2>3. Distinct(<<>>)
    BY DEF Distinct
  <2>4. QED BY <2>1, <2>2, <2>3, DispatchAssumption DEF LockInv, Holding
<1>3. ASSUME NEW w \in Worker, LetIn(w) \/ ToCi(w) \/ Ends(w) PROVE LockInv'
  <2>1. UNCHANGED <<wtask, lockq>>
    BY <1>3 DEF LetIn, ToCi, Ends
  <2>2. \A v \in Worker : lockq'[RepoOf[wtask'[v]]] = RepoLock(wtask[v])
    BY <2>1 DEF RepoLock
  <2>3. \A v \in Worker : v # w => wpc'[v] = wpc[v]
    BY <1>3 DEF LetIn, ToCi, Ends, TypeOK
  <2>4. \/ wpc[w] \in {"lock", "await"} /\ wpc'[w] \in Holding /\ RepoLock(wtask[w])[1] = w
        \/ wpc[w] = "idle" /\ wpc'[w] = "ended"
    BY <1>3, FirstOf DEF LetIn, ToCi, Ends, TypeOK, Holding
  <2>5. \A v \in Worker : wpc'[v] \in {"idle", "ended"} <=> wtask'[v] = NoTask
    BY <2>1, <2>3, <2>4 DEF LockInv, Holding
  <2>6. \A v \in Worker : wpc'[v] \in Holding => lockq'[RepoOf[wtask'[v]]][1] = v
    BY <2>2, <2>3, <2>4 DEF LockInv, Holding
  <2>7. QED BY <2>1, <2>2, <2>5, <2>6 DEF LockInv, RepoLock
<1>4. QED BY <1>1, <1>2, <1>3, Moves, JoinKeepsLock, LeaveKeepsLock

-----------------------------------------------------------------------------
(***************************************************************************)
(* The executions and the rows.                                            *)
(***************************************************************************)
LEMMA OneHolder ==
  ASSUME TypeOK, LockInv, NEW v \in Worker, NEW w \in Worker,
         wpc[v] \in Holding, wpc[w] \in Holding, RepoOf[wtask[v]] = RepoOf[wtask[w]]
  PROVE  v = w
BY FirstOf DEF RepoLock

\* Nothing but the executions moves: none begins or is forgotten.
LEMMA ExecKept ==
  ASSUME TypeOK, TypeOK', LockInv, ExecInv, UNCHANGED <<wpc, wtask>>,
         \A t \in Task : exec'[t] # "none" => exec[t] # "none",
         \A t \in Task : exec[t] \in Settled => exec'[t] \in Settled,
         \A w \in Worker : wpc[w] \in Holding =>
           writer'[RepoOf[wtask[w]]] = writer[RepoOf[wtask[w]]] \/ writer[RepoOf[wtask[w]]] # wtask[w]
  PROVE  ExecInv'
<1>1. \A w \in Worker : wpc[w] \in Holding => wtask[w] \in Task
  BY BusyWorker
<1>2. \A t \in Task : exec'[t] # "none" => \E w \in Worker : wtask'[w] = t /\ wpc'[w] \in Holding
  BY DEF ExecInv
<1>3. \A w \in Worker : wpc'[w] = "ci" => exec'[wtask'[w]] \in Settled
  BY <1>1 DEF ExecInv, Holding
<1>4. \A w \in Worker : wpc'[w] \in Holding /\ wtask'[w] \in Writes =>
        writer'[RepoOf[wtask'[w]]] = wtask'[w]
  BY DEF ExecInv
<1>5. QED BY <1>2, <1>3, <1>4 DEF ExecInv

\* Workers that hold nothing come, wait and go.
LEMMA ExecUntouched ==
  ASSUME TypeOK, ExecInv, UNCHANGED <<exec, writer>>, NEW w \in Worker,
         wpc[w] \notin Holding, wpc'[w] \notin Holding,
         \A v \in Worker : v # w => wpc'[v] = wpc[v] /\ wtask'[v] = wtask[v]
  PROVE  ExecInv'
<1>1. \A t \in Task : exec'[t] # "none" => \E v \in Worker : wtask'[v] = t /\ wpc'[v] \in Holding
  BY DEF ExecInv
<1>2. \A v \in Worker : wpc'[v] = "ci" => exec'[wtask'[v]] \in Settled
  BY DEF ExecInv, Holding
<1>3. \A v \in Worker : wpc'[v] \in Holding /\ wtask'[v] \in Writes =>
        writer'[RepoOf[wtask'[v]]] = wtask'[v]
  BY DEF ExecInv
<1>4. QED BY <1>1, <1>2, <1>3 DEF ExecInv

\* An execution starts, at the head of the lock.
Starts(w, t) ==
  /\ Admitted(t) /\ TakeRow(t) /\ SetStatus(t, "running")
  /\ exec' = [exec EXCEPT ![t] = "created"]
  /\ wpc' = [wpc EXCEPT ![w] = "await"] /\ wtask' = [wtask EXCEPT ![w] = t]

LEMMA StartKeepsExec ==
  ASSUME TypeOK, TypeOK', LockInv', ExecInv, NEW w \in Worker, NEW t \in Task,
         wpc[w] \in {"idle", "lock"}, Starts(w, t)
  PROVE  ExecInv'
<1>0. RecordType /\ WorkerType /\ ExecType
  BY TypeParts
<1>1. wpc'[w] = "await" /\ wtask'[w] = t /\ RepoOf[t] \in Repo
  BY <1>0, DispatchAssumption DEF Starts, WorkerType
<1>2. \A v \in Worker : v # w => wpc'[v] = wpc[v] /\ wtask'[v] = wtask[v]
  BY DEF Starts, TypeOK
<1>3. \A v \in Worker : wpc'[v] \in Holding => lockq'[RepoOf[wtask'[v]]][1] = v
  BY DEF LockInv, RepoLock
<1>4. \A v \in Worker : v # w /\ wpc'[v] \in Holding => RepoOf[wtask'[v]] # RepoOf[t]
  BY <1>1, <1>3 DEF Holding
<1>5. \A u \in Task : exec'[u] = IF u = t THEN "created" ELSE exec[u]
  BY DEF Starts, TypeOK
<1>6. \A u \in Task : exec'[u] # "none" => \E v \in Worker : wtask'[v] = u /\ wpc'[v] \in Holding
  <2> SUFFICES ASSUME NEW u \in Task, exec'[u] # "none"
               PROVE  \E v \in Worker : wtask'[v] = u /\ wpc'[v] \in Holding
    OBVIOUS
  <2>1. CASE u = t
    BY <1>1, <2>1 DEF Holding
  <2>2. CASE u # t
    <3>1. PICK v \in Worker : wtask[v] = u /\ wpc[v] \in Holding
      BY <1>5, <2>2 DEF ExecInv
    <3>2. v # w
      BY <3>1 DEF Holding
    <3>3. QED BY <1>2, <3>1, <3>2
  <2>3. QED BY <2>1, <2>2
<1>7. \A v \in Worker : wpc'[v] = "ci" => exec'[wtask'[v]] \in Settled
  <2> SUFFICES ASSUME NEW v \in Worker, wpc'[v] = "ci" PROVE exec'[wtask'[v]] \in Settled
    OBVIOUS
  <2>1. v # w /\ wtask'[v] # t
    BY <1>1, <1>4 DEF Holding
  <2>2. exec[wtask[v]] \in Settled /\ wtask[v] = wtask'[v]
    BY <1>2, <2>1 DEF ExecInv
  <2>3. wtask'[v] \in Task
    <3>1. wtask'[v] # NoTask
      BY DEF LockInv
    <3>2. QED BY <3>1 DEF TypeOK
  <2>4. QED BY <1>5, <2>1, <2>2, <2>3
<1>8. \A v \in Worker : wpc'[v] \in Holding /\ wtask'[v] \in Writes =>
        writer'[RepoOf[wtask'[v]]] = wtask'[v]
  <2> SUFFICES ASSUME NEW v \in Worker, wpc'[v] \in Holding, wtask'[v] \in Writes
               PROVE  writer'[RepoOf[wtask'[v]]] = wtask'[v]
    OBVIOUS
  <2>1. CASE v = w
    BY <1>1, <2>1 DEF Starts, TakeRow, TypeOK
  <2>2. CASE v # w
    <3>1. writer[RepoOf[wtask'[v]]] = wtask'[v] /\ RepoOf[wtask'[v]] # RepoOf[t]
      BY <1>2, <1>4, <2>2 DEF ExecInv
    <3>2. QED BY <3>1 DEF Starts, TakeRow, TypeOK
  <2>3. QED BY <2>1, <2>2
<1>9. QED BY <1>6, <1>7, <1>8 DEF ExecInv

LEMMA FinishKeepsExec ==
  ASSUME TypeOK, LockInv, ExecInv, NEW w \in Worker, wpc[w] \in Holding, Finish(w)
  PROVE  ExecInv'
<1> DEFINE t == wtask[w]
<1>1. t \in Task /\ RepoOf[t] \in Repo
  BY BusyWorker
<1>2. /\ wpc'[w] = "idle"
      /\ \A v \in Worker : v # w => wpc'[v] = wpc[v] /\ wtask'[v] = wtask[v]
  BY DEF Finish, TypeOK
<1>3. \A u \in Task : exec'[u] = IF u = t THEN "none" ELSE exec[u]
  BY DEF Finish, TypeOK
<1>4. \A v \in Worker : v # w /\ wpc[v] \in Holding => RepoOf[wtask[v]] # RepoOf[t] /\ wtask[v] \in Task
  BY OneHolder, BusyWorker
<1>5. \A u \in Task : exec'[u] # "none" => \E v \in Worker : wtask'[v] = u /\ wpc'[v] \in Holding
  BY <1>2, <1>3 DEF ExecInv
<1>6. \A v \in Worker : wpc'[v] = "ci" => exec'[wtask'[v]] \in Settled
  BY <1>2, <1>3, <1>4 DEF ExecInv, Holding
<1>7. \A v \in Worker : wpc'[v] \in Holding /\ wtask'[v] \in Writes =>
        writer'[RepoOf[wtask'[v]]] = wtask'[v]
  <2> SUFFICES ASSUME NEW v \in Worker, wpc'[v] \in Holding, wtask'[v] \in Writes
               PROVE  writer'[RepoOf[wtask'[v]]] = wtask'[v]
    OBVIOUS
  <2>1. v # w /\ wpc[v] \in Holding /\ wtask[v] = wtask'[v]
    BY <1>2 DEF Holding
  <2>2. writer[RepoOf[wtask[v]]] = wtask[v] /\ RepoOf[wtask[v]] # RepoOf[t]
    BY <1>4, <2>1 DEF ExecInv
  <2>3. QED BY <1>1, <2>1, <2>2 DEF Finish, GiveRow, TypeOK
<1>8. QED BY <1>5, <1>6, <1>7 DEF ExecInv

LEMMA CancelKeeps ==
  ASSUME TypeOK, NEW S, CancelExecution(S)
  PROVE  \A t \in Task : /\ exec'[t] # "none" => exec[t] # "none"
                         /\ exec[t] \in Settled => exec'[t] = exec[t]
                         /\ exec'[t] = exec[t] \/ exec'[t] = "cancelling"
BY DEF TypeOK, CancelExecution, Settled

\* What Take does, beside taking the head of the queue.
LEMMA TakeCases ==
  ASSUME TypeOK, LockInv, NEW w \in Worker, Take(w)
  PROVE  /\ wpc[w] = "idle" /\ queue # <<>> /\ Head(queue) \in Task /\ queue' = Tail(queue)
         /\ UNCHANGED <<receipt, package, thread, expired, interrupted, inner, svc, counters>>
         /\ \/ status[Head(queue)] = "cancelled" /\ UNCHANGED <<status, writer, exec, wpc, wtask, lockq>>
            \/ Starts(w, Head(queue))
            \/ SetStatus(Head(queue), "failed") /\ UNCHANGED <<writer, exec, wpc, wtask>>
            \/ /\ wpc' = [wpc EXCEPT ![w] = "lock"] /\ wtask' = [wtask EXCEPT ![w] = Head(queue)]
               /\ UNCHANGED <<status, writer, exec>>
<1>1. /\ wpc[w] = "idle" /\ queue # <<>> /\ Head(queue) \in Task /\ queue' = Tail(queue)
      /\ UNCHANGED <<receipt, package, thread, expired, interrupted, inner, svc, counters>>
  BY HeadTailProperties DEF Take, TypeOK
<1>2. CASE Execute(w, Head(queue), <<w>>)
  <2>1. CASE ~Starts(w, Head(queue))
    <3>1. /\ SetStatus(Head(queue), "failed") /\ UNCHANGED <<writer, exec>>
          /\ wpc' = [wpc EXCEPT ![w] = "idle"] /\ wtask' = [wtask EXCEPT ![w] = NoTask]
      BY <1>2, <2>1 DEF Execute, Starts
    <3>2. wtask[w] = NoTask
      BY <1>1 DEF LockInv
    <3>3. UNCHANGED <<wpc, wtask>>
      BY <1>1, <3>1, <3>2 DEF TypeOK
    <3>4. QED BY <1>1, <3>1, <3>3
  <2>2. QED BY <1>1, <2>1
<1>3. QED BY <1>1, <1>2 DEF Take

LEMMA EnterCases ==
  ASSUME NEW w \in Worker, Enter(w)
  PROVE  /\ wpc[w] = "lock"
         /\ UNCHANGED <<receipt, package, thread, queue, expired, interrupted, inner, svc, counters>>
         /\ \/ Starts(w, wtask[w])
            \/ /\ SetStatus(wtask[w], "failed") /\ UNCHANGED <<writer, exec>>
               /\ wpc' = [wpc EXCEPT ![w] = "idle"] /\ wtask' = [wtask EXCEPT ![w] = NoTask]
BY DEF Enter, Execute, Starts

\* From the end of the execution: to the CI, or the end.
LEMMA CompleteCases ==
  ASSUME NEW w \in Worker, Complete(w)
  PROVE  /\ wpc[w] = "await" /\ exec[wtask[w]] \in Settled
         /\ UNCHANGED <<receipt, package, thread, queue, interrupted, inner, svc, counters>>
         /\ \/ /\ Finish(w)
               /\ \/ \E s \in {"timed_out", "failed", "cancelled"} : SetStatus(wtask[w], s)
                  \/ exec[wtask[w]] = "returned" /\ UNCHANGED status
            \/ /\ wpc' = [wpc EXCEPT ![w] = "ci"] /\ status[wtask[w]] = "pending_verification"
               /\ UNCHANGED <<status, exec, writer, lockq, wtask, expired>>
BY DEF Complete, CancelRecord, AwaitsCi

LEMMA InterruptCases ==
  ASSUME NEW w \in Worker, Interrupt(w)
  PROVE  /\ w \in interrupted /\ interrupted' = interrupted \ {w}
         /\ UNCHANGED <<receipt, package, thread, queue, inner, svc, counters>>
         /\ \/ /\ wpc[w] \in {"idle", "lock"}
               /\ wpc' = [wpc EXCEPT ![w] = "ended"] /\ wtask' = [wtask EXCEPT ![w] = NoTask]
               /\ UNCHANGED <<status, writer, exec>>
            \/ CancelExecution({wtask[w]}) /\ UNCHANGED <<status, writer, wpc, wtask>>
            \/ /\ wpc[w] = "ci" /\ Finish(w)
               /\ \E s \in {"failed", "cancelled"} : SetStatus(wtask[w], s)
BY DEF Interrupt, CancelRecord

LEMMA ExecStep ==
  ASSUME TypeOK, TypeOK', LockInv, LockInv', ExecInv, LifeInv, [Next]_vars
  PROVE  ExecInv'
<1>1. CASE UNCHANGED <<exec, writer, wpc, wtask>>
  BY <1>1 DEF ExecInv
<1>2. ASSUME NEW t \in Task, Client(t) PROVE ExecInv'
  <2>1. UNCHANGED <<wpc, wtask, writer>> /\ (UNCHANGED exec \/ CancelExecution({t}))
    BY <1>2 DEF Client, Dispatch, Continue, Cancel, VerifyTask, GenerateManualPackage,
       MarkManualDispatched, RecordManualAck, ImportManualResult, workers, tasks
  <2>2. CASE CancelExecution({t})
    BY <2>1, <2>2, CancelKeeps, ExecKept
  <2>3. QED BY <1>1, <2>1, <2>2
<1>3. ASSUME NEW t \in Task, TaskStep(t) PROVE ExecInv'
  <2>1. /\ UNCHANGED <<writer, workers>> /\ exec[t] \in Alive
        /\ \E how \in {"awaiting", "error", "cancelled", "returned"} : Return(t, how)
    BY <1>3, TaskSteps DEF TaskStep, Plans
  <2>2. \A u \in Task : u # t => exec'[u] = exec[u]
    BY <2>1 DEF Return, TypeOK
  <2>3. exec[t] \notin Settled /\ exec[t] # "none"
    BY <2>1 DEF Alive, Settled
  <2>4. QED BY <2>1, <2>2, <2>3, ExecKept DEF workers
<1>4. ASSUME NEW w \in Worker, Take(w) PROVE ExecInv'
  <2>1. CASE Starts(w, Head(queue))
    BY <1>4, <2>1, TakeCases, StartKeepsExec
  <2>2. CASE /\ wpc' = [wpc EXCEPT ![w] = "lock"] /\ wtask' = [wtask EXCEPT ![w] = Head(queue)]
             /\ UNCHANGED <<status, writer, exec>>
    <3>1. wpc[w] = "idle" /\ wpc'[w] = "lock"
      BY <1>4, <2>2, TakeCases DEF TypeOK
    <3>2. \A v \in Worker : v # w => wpc'[v] = wpc[v] /\ wtask'[v] = wtask[v]
      BY <2>2 DEF TypeOK
    <3>3. QED BY <2>2, <3>1, <3>2, ExecUntouched DEF Holding
  <2>3. QED BY <1>1, <1>4, <2>1, <2>2, TakeCases
<1>5. ASSUME NEW w \in Worker, Enter(w) PROVE ExecInv'
  <2>1. CASE Starts(w, wtask[w])
    <3>1. wpc[w] = "lock" /\ wtask[w] \in Task
      BY <1>5, EnterCases, BusyWorker
    <3>2. QED BY <2>1, <3>1, StartKeepsExec
  <2>2. CASE /\ UNCHANGED <<writer, exec>>
             /\ wpc' = [wpc EXCEPT ![w] = "idle"] /\ wtask' = [wtask EXCEPT ![w] = NoTask]
    <3>1. wpc[w] = "lock" /\ wpc'[w] = "idle"
      BY <1>5, <2>2, EnterCases DEF TypeOK
    <3>2. \A v \in Worker : v # w => wpc'[v] = wpc[v] /\ wtask'[v] = wtask[v]
      BY <2>2 DEF TypeOK
    <3>3. QED BY <2>2, <3>1, <3>2, ExecUntouched DEF Holding
  <2>3. QED BY <1>5, <2>1, <2>2, EnterCases
<1>6. ASSUME NEW w \in Worker, Complete(w) PROVE ExecInv'
  <2>1. wpc[w] = "await" /\ exec[wtask[w]] \in Settled
    BY <1>6, CompleteCases
  <2>2. CASE Finish(w)
    BY <2>1, <2>2, FinishKeepsExec DEF Holding
  <2>3. CASE wpc' = [wpc EXCEPT ![w] = "ci"] /\ UNCHANGED <<exec, writer, wtask>>
    <3>1. wpc'[w] = "ci" /\ \A v \in Worker : v # w => wpc'[v] = wpc[v]
      BY <2>3 DEF TypeOK
    <3>2. \A v \in Worker : wpc'[v] \in Holding <=> wpc[v] \in Holding
      BY <2>1, <3>1 DEF Holding
    <3>3. \A v \in Worker : wpc'[v] = "ci" => exec'[wtask'[v]] \in Settled
      BY <2>1, <2>3, <3>1 DEF ExecInv
    <3>4. QED BY <2>3, <3>2, <3>3 DEF ExecInv
  <2>4. QED BY <1>6, <2>2, <2>3, CompleteCases
<1>7. ASSUME NEW w \in Worker, CiAnswer(w) PROVE ExecInv'
  BY <1>7, FinishKeepsExec DEF CiAnswer, Holding
<1>8. ASSUME NEW w \in Worker, Interrupt(w) PROVE ExecInv'
  <2>1. CASE /\ wpc[w] \in {"idle", "lock"} /\ UNCHANGED <<writer, exec>>
             /\ wpc' = [wpc EXCEPT ![w] = "ended"] /\ wtask' = [wtask EXCEPT ![w] = NoTask]
    <3>1. /\ wpc'[w] = "ended"
          /\ \A v \in Worker : v # w => wpc'[v] = wpc[v] /\ wtask'[v] = wtask[v]
      BY <2>1 DEF TypeOK
    <3>2. QED BY <2>1, <3>1, ExecUntouched DEF Holding
  <2>2. CASE CancelExecution({wtask[w]}) /\ UNCHANGED <<writer, wpc, wtask>>
    BY <2>2, CancelKeeps, ExecKept
  <2>3. CASE wpc[w] = "ci" /\ Finish(w)
    BY <2>3, FinishKeepsExec DEF Holding
  <2>4. QED BY <1>8, <2>1, <2>2, <2>3, InterruptCases
<1>9. ASSUME NEW w \in Worker, Expire(w) PROVE ExecInv'
  <2>1. CancelExecution({wtask[w]}) /\ UNCHANGED <<writer, wpc, wtask>>
    BY <1>9 DEF Expire
  <2>2. QED BY <2>1, CancelKeeps, ExecKept
<1>10. CASE Stop
  <2>1. CancelExecution(Task) /\ UNCHANGED <<writer, wpc, wtask>>
    BY <1>10 DEF Stop, workers
  <2>2. QED BY <2>1, CancelKeeps, ExecKept
<1>11. CASE Stopped \/ Crash
  <2>1. /\ \A w \in Worker : wpc'[w] = "idle"
        /\ \A t \in Task : exec'[t] = "none"
    BY <1>11 DEF Stopped, Crash, ProcessGone
  <2>2. QED BY <2>1 DEF ExecInv, Holding
<1>12. CASE Start
  <2>1. UNCHANGED <<exec, wpc, wtask>> /\ \A w \in Worker : wpc[w] = "idle"
    BY <1>12 DEF Start, LifeInv, workers, tasks
  <2>2. QED BY <2>1 DEF ExecInv, Holding
<1>13. ASSUME NEW r \in Repo, OtherWriter(r) PROVE ExecInv'
  <2>1. /\ UNCHANGED <<exec, wpc, wtask>> /\ writer[r] \in {NoTask, Other}
        /\ \A p \in Repo : p # r => writer'[p] = writer[p]
    BY <1>13 DEF OtherWriter, workers, tasks, TypeOK
  <2>2. \A w \in Worker : wpc[w] \in Holding => wtask[w] \in Task /\ RepoOf[wtask[w]] \in Repo
    BY BusyWorker
  <2>3. \A w \in Worker : wpc[w] \in Holding =>
           writer'[RepoOf[wtask[w]]] = writer[RepoOf[wtask[w]]] \/ writer[RepoOf[wtask[w]]] # wtask[w]
    BY <2>1, <2>2, DispatchAssumption
  <2>4. QED BY <2>1, <2>3, ExecKept
<1>14. CASE UNCHANGED vars \/ CancelWorkers \/ \E t \in Task : PlannerAnswers(t) \/ GatewayEnds(t)
  BY <1>1, <1>14 DEF vars, CancelWorkers, PlannerAnswers, GatewayEnds, workers, tasks
<1>15. QED BY <1>2, <1>3, <1>4, <1>5, <1>6, <1>7, <1>8, <1>9, <1>10, <1>11, <1>12, <1>13, <1>14
         DEF Next, WorkerStep

LEMMA LifeStep ==
  ASSUME TypeOK, LockInv, ExecInv, LifeInv, [Next]_vars
  PROVE  LifeInv'
<1>1. CASE UNCHANGED <<svc, interrupted, queue, wpc>>
  BY <1>1 DEF LifeInv
<1>2. ASSUME NEW t \in Task, Client(t) PROVE LifeInv'
  <2>1. svc' = svc /\ UNCHANGED interrupted /\ (svc = "up" \/ UNCHANGED <<queue, wpc>>)
    BY <1>2 DEF Client, Dispatch, Continue, Cancel, VerifyTask, GenerateManualPackage,
       MarkManualDispatched, RecordManualAck, ImportManualResult, workers, tasks
  <2>2. UNCHANGED wpc
    BY <1>2 DEF Client, Dispatch, Continue, Cancel, VerifyTask, GenerateManualPackage,
       MarkManualDispatched, RecordManualAck, ImportManualResult, workers, tasks
  <2>3. QED BY <2>1, <2>2 DEF LifeInv
<1>3. ASSUME NEW t \in Task, TaskStep(t) \/ PlannerAnswers(t) \/ GatewayEnds(t) PROVE LifeInv'
  <2>1. UNCHANGED <<svc, queue, workers>>
    BY <1>3, TaskSteps DEF TaskStep, PlannerAnswers, GatewayEnds
  <2>2. QED BY <1>1, <2>1 DEF workers
<1>4. ASSUME NEW w \in Worker, WorkerStep(w) \/ Expire(w) PROVE LifeInv'
  <2>1. svc' = svc /\ interrupted' \subseteq interrupted
    BY <1>4, InterruptCases DEF WorkerStep, Take, Enter, Complete, CiAnswer, Expire
  <2>2. svc # "down"
    <3>1. CASE Take(w)
      BY <3>1 DEF Take, LifeInv
    <3>2. CASE Interrupt(w)
      BY <3>2 DEF Interrupt, LifeInv
    <3>3. CASE Enter(w) \/ Complete(w) \/ CiAnswer(w) \/ Expire(w)
      BY <3>3 DEF Enter, Complete, CiAnswer, Expire, LifeInv
    <3>4. QED BY <1>4, <3>1, <3>2, <3>3 DEF WorkerStep
  <2>3. QED BY <2>1, <2>2 DEF LifeInv
<1>5. CASE Stop \/ CancelWorkers \/ Start \/ \E r \in Repo : OtherWriter(r)
  BY <1>5 DEF Stop, CancelWorkers, Start, OtherWriter, LifeInv, workers
<1>6. CASE Stopped \/ Crash
  BY <1>6 DEF Stopped, Crash, ProcessGone, LifeInv
<1>7. CASE UNCHANGED vars
  BY <1>1, <1>7 DEF vars, workers
<1>8. QED BY <1>2, <1>3, <1>4, <1>5, <1>6, <1>7 DEF Next

-----------------------------------------------------------------------------
(***************************************************************************)
(* The records.  First, what a client call does to a record: dispatch and  *)
(* continue make it wait in the queue, the manual calls need a package.    *)
(***************************************************************************)
LEMMA ClientCases ==
  ASSUME NEW t \in Task, Client(t)
  PROVE  /\ UNCHANGED <<writer, workers, inner, svc, runs, crashes>>
         /\ UNCHANGED exec \/ CancelExecution({t})
         /\ receipt \subseteq receipt' /\ package \subseteq package'
         /\ \/ Enqueue(t)
            \/ /\ UNCHANGED <<queue, commands>>
               /\ \/ \E s \in {"pending", "cancelled", "verified", "pending_verification"} : SetStatus(t, s)
                  \/ SetStatus(t, "running") /\ t \in package'
BY DEF Client, Dispatch, Continue, Cancel, VerifyTask, GenerateManualPackage,
   MarkManualDispatched, RecordManualAck, ImportManualResult, workers, tasks, counters

LEMMA ReturnStep ==
  ASSUME TypeOK, LockInv, ExecInv, ReturnInv, [Next]_vars
  PROVE  ReturnInv'
<1> DEFINE Attended(t) == exec'[t] = "returned" => status'[t] # "running" \/ t \in receipt' \cup package'
<1> SUFFICES ASSUME NEW t \in Task PROVE Attended(t)
  BY DEF ReturnInv
<1>0. status \in [Task -> Statuses] /\ exec \in [Task -> Alive \cup Settled \cup {"none"}]
      /\ (exec[t] = "returned" => status[t] # "running" \/ t \in receipt \cup package)
  BY DEF TypeOK, ReturnInv, Statuses
<1>1. CASE /\ exec'[t] # "returned" \/ exec'[t] = exec[t]
           /\ status'[t] # "running" \/ status'[t] = status[t]
           /\ receipt \subseteq receipt' /\ package \subseteq package'
  BY <1>0, <1>1
<1>2. ASSUME NEW u \in Task, Client(u) PROVE Attended(t)
  <2>1. exec'[t] # "returned" \/ exec'[t] = exec[t]
    BY <1>2, CancelKeeps, ClientCases
  <2>2. CASE SetStatus(u, "running") /\ u \in package'
    BY <1>0, <1>2, <2>1, <2>2, ClientCases DEF SetStatus
  <2>3. CASE Enqueue(u) \/ \E s \in {"pending", "cancelled", "verified", "pending_verification"} : SetStatus(u, s)
    <3>1. status'[t] # "running" \/ status'[t] = status[t]
      BY <1>0, <2>3 DEF Enqueue, SetStatus
    <3>2. QED BY <1>1, <1>2, <2>1, <3>1, ClientCases
  <2>4. QED BY <1>2, <2>2, <2>3, ClientCases
<1>3. ASSUME NEW u \in Task, TaskStep(u) PROVE Attended(t)
  <2>1. CASE u = t
    <3>1. CASE Return(t, "returned") /\ (SetStatus(t, "failed") \/ SetStatus(t, "pending_verification"))
      BY <1>0, <3>1 DEF SetStatus
    <3>2. CASE t \in receipt'
      BY <3>2
    <3>3. CASE Plans(t) \/ \E how \in {"error", "cancelled"} : Return(t, how)
      BY <1>0, <3>3 DEF Return, Plans
    <3>4. QED BY <1>3, <2>1, <3>1, <3>2, <3>3, TaskSteps DEF TaskStep
  <2>2. CASE u # t
    <3>1. exec'[t] = exec[t]
      BY <1>0, <1>3, <2>2, TaskSteps DEF TaskStep, Return, Plans
    <3>2. status'[t] = status[t]
      BY <1>0, <1>3, <2>2, TaskSteps DEF TaskStep, SetStatus
    <3>3. receipt \subseteq receipt' /\ package \subseteq package'
      BY <1>3, TaskSteps DEF TaskStep
    <3>4. QED BY <1>1, <3>1, <3>2, <3>3
  <2>3. QED BY <2>1, <2>2
<1>4. ASSUME NEW w \in Worker, NEW u \in Task, Starts(w, u), UNCHANGED <<receipt, package>> PROVE Attended(t)
  <2>1. u = t => exec'[t] = "created"
    BY <1>0, <1>4 DEF Starts
  <2>2. u # t => exec'[t] = exec[t] /\ status'[t] = status[t]
    BY <1>0, <1>4 DEF Starts, SetStatus
  <2>3. QED BY <1>1, <1>4, <2>1, <2>2
<1>5. ASSUME NEW w \in Worker, Take(w) \/ Enter(w) PROVE Attended(t)
  <2>1. UNCHANGED <<receipt, package>>
    BY <1>5 DEF Take, Enter
  <2>2. \/ \E u \in Task : Starts(w, u)
        \/ UNCHANGED exec /\ (UNCHANGED status \/ \E u \in Task : SetStatus(u, "failed"))
    BY <1>5, TakeCases, EnterCases, BusyWorker
  <2>3. CASE UNCHANGED exec /\ (UNCHANGED status \/ \E u \in Task : SetStatus(u, "failed"))
    BY <1>0, <1>1, <2>1, <2>3 DEF SetStatus
  <2>4. QED BY <1>4, <2>1, <2>2, <2>3
<1>6. ASSUME NEW w \in Worker, wpc[w] \in Holding, Finish(w), UNCHANGED <<receipt, package>>,
             UNCHANGED status \/ \E s \in Statuses \ {"running"} : SetStatus(wtask[w], s)
      PROVE  Attended(t)
  <2>1. exec'[t] = "none" \/ exec'[t] = exec[t]
    BY <1>0, <1>6 DEF Finish
  <2>2. status'[t] # "running" \/ status'[t] = status[t]
    BY <1>0, <1>6 DEF SetStatus
  <2>3. QED BY <1>1, <1>6, <2>1, <2>2
<1>7. ASSUME NEW w \in Worker, Complete(w) PROVE Attended(t)
  <2>1. UNCHANGED <<receipt, package>> /\ wpc[w] \in Holding
    BY <1>7, CompleteCases DEF Holding
  <2>2. CASE Finish(w)
    BY <1>6, <1>7, <2>1, <2>2, CompleteCases DEF Statuses
  <2>3. CASE UNCHANGED <<status, exec>>
    BY <1>1, <2>1, <2>3
  <2>4. QED BY <1>7, <2>2, <2>3, CompleteCases
<1>8. ASSUME NEW w \in Worker, CiAnswer(w) PROVE Attended(t)
  BY <1>6, <1>8 DEF CiAnswer, Holding, Statuses
<1>9. ASSUME NEW w \in Worker, Interrupt(w) PROVE Attended(t)
  <2>1. UNCHANGED <<receipt, package>>
    BY <1>9, InterruptCases
  <2>2. CASE UNCHANGED <<status, exec>>
    BY <1>1, <2>1, <2>2
  <2>3. CASE CancelExecution({wtask[w]}) /\ UNCHANGED status
    BY <1>1, <2>1, <2>3, CancelKeeps
  <2>4. CASE wpc[w] = "ci" /\ Finish(w) /\ \E s \in {"failed", "cancelled"} : SetStatus(wtask[w], s)
    BY <1>6, <2>1, <2>4 DEF Holding, Statuses
  <2>5. QED BY <1>9, <2>2, <2>3, <2>4, InterruptCases
<1>10. CASE Stop \/ \E w \in Worker : Expire(w)
  <2>1. UNCHANGED <<status, receipt, package>> /\ \E S : CancelExecution(S)
    BY <1>10 DEF Stop, Expire, record
  <2>2. QED BY <1>1, <2>1, CancelKeeps
<1>11. CASE Stopped \/ Crash
  BY <1>11 DEF Stopped, Crash, ProcessGone
<1>12. CASE Start
  <2>1. UNCHANGED <<receipt, package, exec>> /\ status' = [u \in Task |-> IF u \in Recovered THEN "failed" ELSE status[u]]
    BY <1>12 DEF Start, tasks
  <2>2. QED BY <1>1, <2>1
<1>13. CASE UNCHANGED vars \/ CancelWorkers \/ (\E r \in Repo : OtherWriter(r))
            \/ \E u \in Task : PlannerAnswers(u) \/ GatewayEnds(u)
  BY <1>1, <1>13 DEF vars, CancelWorkers, OtherWriter, PlannerAnswers, GatewayEnds, record, tasks
<1>14. QED BY <1>2, <1>3, <1>5, <1>7, <1>8, <1>9, <1>10, <1>11, <1>12, <1>13 DEF Next, WorkerStep

-----------------------------------------------------------------------------
(***************************************************************************)
(* A queued task waits, a running one is attended.                         *)
(***************************************************************************)
LEMMA TailOccurs ==
  ASSUME NEW S, NEW s \in Seq(S), s # <<>>, NEW v, Occurs(v, s), v # Head(s)
  PROVE  Occurs(v, Tail(s))
<1>1. PICK i \in 1 .. Len(s) : s[i] = v
  BY DEF Occurs
<1>2. i # 1 /\ Len(s) \in Nat
  BY <1>1
<1>3. Without(s, Tail(s), 1)
  BY TailIsWithout
<1>4. i - 1 \in 1 .. Len(Tail(s)) /\ ~(i - 1 < 1) /\ (i - 1) + 1 = i
  BY <1>2, <1>3 DEF Without
<1>5. Tail(s)[i - 1] = v
  BY <1>1, <1>3, <1>4 DEF Without
<1>6. QED BY <1>4, <1>5 DEF Occurs

QueuedWaits(t) == Occurs(t, queue) \/ \E w \in Worker : wpc[w] = "lock" /\ wtask[w] = t

\* Steps that make no task queued and take none out of the queue or the lock.
LEMMA QueuedKept ==
  ASSUME QueuedIsWaiting, svc' = "up" => svc = "up", NEW t \in Task, svc' = "up", status'[t] = "queued",
         status'[t] = status[t], queue' = queue,
         \A w \in Worker : wpc[w] = "lock" => wpc'[w] = "lock" /\ wtask'[w] = wtask[w]
  PROVE  QueuedWaits(t)'
BY DEF QueuedIsWaiting, QueuedWaits, Occurs

LEMMA QueuedStep ==
  ASSUME TypeOK, LockInv, LifeInv, QueuedIsWaiting, [Next]_vars
  PROVE  QueuedIsWaiting'
<1> SUFFICES ASSUME NEW t \in Task, svc' = "up", status'[t] = "queued" PROVE QueuedWaits(t)'
  BY DEF QueuedIsWaiting, QueuedWaits, Occurs
<1>0. status \in [Task -> Statuses] /\ wpc \in [Worker -> {"idle", "lock", "await", "ci", "ended"}]
      /\ wtask \in [Worker -> Task \cup {NoTask}] /\ queue \in Seq(Task)
  BY DEF TypeOK, Statuses
<1>1. CASE UNCHANGED <<svc, queue, workers>> /\ status'[t] = status[t]
  BY <1>1, QueuedKept DEF workers
<1>2. ASSUME NEW u \in Task, Client(u) PROVE QueuedWaits(t)'
  <2>1. UNCHANGED <<svc, workers>>
    BY <1>2, ClientCases
  <2>2. CASE Enqueue(u)
    <3>1. queue' = Append(queue, u) /\ \A v : Occurs(v, queue') <=> Occurs(v, queue) \/ v = u
      BY <1>0, <2>2, AppendMembers DEF Enqueue
    <3>2. t # u => status[t] = "queued"
      BY <1>0, <2>2 DEF Enqueue, SetStatus
    <3>3. t # u => QueuedWaits(t)
      BY <2>1, <3>2 DEF QueuedIsWaiting, QueuedWaits, Occurs
    <3>4. QED BY <2>1, <3>1, <3>3 DEF QueuedWaits, workers
  <2>3. CASE UNCHANGED queue /\ \E s \in Statuses \ {"queued"} : SetStatus(u, s)
    <3>1. status'[t] = status[t]
      BY <1>0, <2>3 DEF SetStatus
    <3>2. QED BY <1>1, <2>1, <2>3, <3>1
  <2>4. QED BY <1>2, <2>2, <2>3, ClientCases DEF Statuses
<1>3. ASSUME NEW u \in Task, TaskStep(u) PROVE QueuedWaits(t)'
  <2>1. status'[t] = status[t]
    BY <1>0, <1>3, TaskSteps DEF TaskStep, SetStatus
  <2>2. UNCHANGED <<svc, queue, workers>>
    BY <1>3, TaskSteps DEF TaskStep
  <2>3. QED BY <1>1, <2>1, <2>2
<1>4. ASSUME NEW w \in Worker, Take(w) PROVE QueuedWaits(t)'
  <2>1. /\ wpc[w] = "idle" /\ queue # <<>> /\ Head(queue) \in Task /\ queue' = Tail(queue) /\ svc' = svc
    BY <1>4, TakeCases
  <2>2. CASE t = Head(queue)
    <3>1. wpc' = [wpc EXCEPT ![w] = "lock"] /\ wtask' = [wtask EXCEPT ![w] = t]
      BY <1>0, <1>4, <2>2, TakeCases DEF Starts, SetStatus
    <3>2. QED BY <1>0, <3>1 DEF QueuedWaits
  <2>3. CASE t # Head(queue)
    <3>1. status'[t] = status[t]
      BY <1>0, <1>4, <2>3, TakeCases DEF Starts, SetStatus
    <3>2. QueuedWaits(t)
      BY <2>1, <3>1 DEF QueuedIsWaiting, QueuedWaits, Occurs
    <3>3. Occurs(t, queue) => Occurs(t, queue')
      BY <1>0, <2>1, <2>3, TailOccurs
    <3>4. \A v \in Worker : wpc[v] = "lock" => wpc'[v] = "lock" /\ wtask'[v] = wtask[v]
      BY <1>0, <1>4, <2>1, TakeCases DEF Starts
    <3>5. QED BY <3>2, <3>3, <3>4 DEF QueuedWaits
  <2>4. QED BY <2>2, <2>3
<1>5. ASSUME NEW w \in Worker, Enter(w) PROVE QueuedWaits(t)'
  <2>1. /\ svc' = svc /\ queue' = queue /\ wpc[w] = "lock" /\ wtask[w] \in Task
        /\ \E s \in {"running", "failed"} : SetStatus(wtask[w], s)
    BY <1>5, EnterCases, BusyWorker DEF Starts
  <2>2. t # wtask[w] /\ status'[t] = status[t]
    BY <1>0, <2>1 DEF SetStatus
  <2>3. \A v \in Worker : v # w => wpc'[v] = wpc[v] /\ wtask'[v] = wtask[v]
    BY <1>0, <1>5, EnterCases DEF Starts
  <2>4. QueuedWaits(t)
    BY <2>1, <2>2 DEF QueuedIsWaiting, QueuedWaits, Occurs
  <2>5. QED BY <2>1, <2>2, <2>3, <2>4 DEF QueuedWaits
<1>6. ASSUME NEW w \in Worker, wpc[w] \in Holding, UNCHANGED <<svc, queue>>,
             \A v \in Worker : v # w => wpc'[v] = wpc[v] /\ wtask'[v] = wtask[v],
             UNCHANGED status \/ \E s \in Statuses \ {"queued"} : SetStatus(wtask[w], s)
      PROVE  QueuedWaits(t)'
  <2>1. status'[t] = status[t]
    BY <1>0, <1>6 DEF SetStatus
  <2>2. QED BY <1>6, <2>1, QueuedKept DEF Holding
<1>7. ASSUME NEW w \in Worker, Complete(w) \/ CiAnswer(w) PROVE QueuedWaits(t)'
  <2>1. wpc[w] \in Holding /\ UNCHANGED <<svc, queue>>
    BY <1>7, CompleteCases DEF CiAnswer, Holding
  <2>2. \A v \in Worker : v # w => wpc'[v] = wpc[v] /\ wtask'[v] = wtask[v]
    BY <1>0, <1>7, CompleteCases DEF CiAnswer, Finish
  <2>3. UNCHANGED status \/ \E s \in Statuses \ {"queued"} : SetStatus(wtask[w], s)
    BY <1>7, CompleteCases DEF CiAnswer, Statuses
  <2>4. QED BY <1>6, <2>1, <2>2, <2>3
<1>8. CASE \E w \in Worker : Interrupt(w)
  BY <1>8, InterruptCases DEF LifeInv
<1>9. CASE Start
  BY <1>9 DEF Start, Recovered
<1>10. CASE Stop \/ CancelWorkers \/ Stopped \/ Crash
  BY <1>10 DEF Stop, CancelWorkers, Stopped, Crash, ProcessGone
<1>11. CASE UNCHANGED vars \/ \E u \in Task : PlannerAnswers(u) \/ GatewayEnds(u)
  BY <1>1, <1>11 DEF vars, PlannerAnswers, GatewayEnds, record
<1>12. ASSUME NEW w \in Worker, Expire(w) PROVE QueuedWaits(t)'
  BY <1>12, QueuedKept DEF Expire, record
<1>13. CASE \E r \in Repo : OtherWriter(r)
  BY <1>1, <1>13 DEF OtherWriter, record
<1>14. QED BY <1>2, <1>3, <1>4, <1>5, <1>7, <1>8, <1>9, <1>10, <1>11, <1>12, <1>13 DEF Next, WorkerStep

LEMMA RunningStep ==
  ASSUME TypeOK, LockInv, ExecInv, LifeInv, ReturnInv, RunningIsAttended, [Next]_vars
  PROVE  RunningIsAttended'
<1> SUFFICES ASSUME NEW t \in Task, svc' = "up", status'[t] = "running", t \notin receipt' \cup package'
             PROVE  \E w \in Worker : wpc'[w] = "await" /\ wtask'[w] = t
  BY DEF RunningIsAttended
<1> DEFINE Attended == \E w \in Worker : wpc'[w] = "await" /\ wtask'[w] = t
<1>0. status \in [Task -> Statuses] /\ wpc \in [Worker -> {"idle", "lock", "await", "ci", "ended"}]
      /\ wtask \in [Worker -> Task \cup {NoTask}]
  BY DEF TypeOK, Statuses
<1>1. ASSUME svc' = svc, status'[t] = status[t], receipt \subseteq receipt', package \subseteq package',
             \A v \in Worker : wpc[v] = "await" /\ wtask[v] = t => wpc'[v] = wpc[v] /\ wtask'[v] = wtask[v]
      PROVE  Attended
  BY <1>1 DEF RunningIsAttended
<1>2. ASSUME NEW u \in Task, Client(u) PROVE Attended
  <2>1. UNCHANGED <<svc, workers>> /\ receipt \subseteq receipt' /\ package \subseteq package'
    BY <1>2, ClientCases
  <2>2. status'[t] = status[t]
    BY <1>0, <1>2, ClientCases DEF Enqueue, SetStatus
  <2>3. QED BY <1>1, <2>1, <2>2 DEF workers
<1>3. ASSUME NEW u \in Task, TaskStep(u) PROVE Attended
  <2>1. status'[t] = status[t]
    BY <1>0, <1>3, TaskSteps DEF TaskStep, SetStatus
  <2>2. UNCHANGED <<svc, workers>> /\ receipt \subseteq receipt' /\ package \subseteq package'
    BY <1>3, TaskSteps DEF TaskStep
  <2>3. QED BY <1>1, <2>1, <2>2 DEF workers
<1>4. ASSUME NEW w \in Worker, Take(w) \/ Enter(w) PROVE Attended
  <2>1. UNCHANGED <<svc, receipt, package>> /\ wpc[w] \in {"idle", "lock"}
    BY <1>4, TakeCases, EnterCases
  <2>2. \A v \in Worker : v # w => wpc'[v] = wpc[v] /\ wtask'[v] = wtask[v]
    BY <1>0, <1>4, TakeCases, EnterCases DEF Starts
  <2>3. \/ \E u \in Task : Starts(w, u)
        \/ status'[t] = status[t]
    BY <1>0, <1>4, TakeCases, EnterCases, BusyWorker DEF SetStatus
  <2>4. ASSUME NEW u \in Task, Starts(w, u) PROVE Attended
    <3>1. CASE u = t
      BY <1>0, <2>4, <3>1 DEF Starts
    <3>2. CASE u # t
      <4>1. status'[t] = status[t]
        BY <1>0, <2>4, <3>2 DEF Starts, SetStatus
      <4>2. QED BY <1>1, <2>1, <2>2, <4>1
    <3>3. QED BY <3>1, <3>2
  <2>5. QED BY <1>1, <2>1, <2>2, <2>3, <2>4
<1>5. ASSUME NEW w \in Worker, Complete(w) \/ CiAnswer(w) PROVE Attended
  <2>1. wpc[w] \in Holding /\ UNCHANGED <<svc, receipt, package>> /\ wtask[w] \in Task
    BY <1>5, CompleteCases, BusyWorker DEF CiAnswer, Holding
  <2>2. \A v \in Worker : v # w => wpc'[v] = wpc[v] /\ wtask'[v] = wtask[v]
    BY <1>0, <1>5, CompleteCases DEF CiAnswer, Finish
  <2>3. UNCHANGED status \/ \E s \in Statuses \ {"running"} : SetStatus(wtask[w], s)
    BY <1>5, CompleteCases DEF CiAnswer, Statuses
  <2>4. status'[t] = status[t]
    BY <1>0, <2>3 DEF SetStatus
  <2>5. wpc[w] = "await" => wtask[w] # t
    <3> SUFFICES ASSUME wpc[w] = "await", wtask[w] = t PROVE FALSE
      OBVIOUS
    <3>1. Complete(w)
      BY <1>5 DEF CiAnswer
    <3>2. \/ \E s \in {"timed_out", "failed", "cancelled"} : SetStatus(t, s)
          \/ exec[t] = "returned" \/ status[t] = "pending_verification"
      BY <3>1, CompleteCases
    <3>3. exec[t] = "returned"
      BY <1>0, <2>4, <3>2 DEF SetStatus
    <3>4. QED BY <2>1, <2>4, <3>3 DEF ReturnInv
  <2>6. QED BY <1>1, <2>1, <2>2, <2>4, <2>5
<1>6. CASE \E w \in Worker : Interrupt(w)
  BY <1>6, InterruptCases DEF LifeInv
<1>7. CASE Start
  BY <1>7 DEF Start, Recovered
<1>8. CASE Stop \/ CancelWorkers \/ Stopped \/ Crash
  BY <1>8 DEF Stop, CancelWorkers, Stopped, Crash, ProcessGone
<1>9. CASE \/ UNCHANGED vars \/ \E u \in Task : PlannerAnswers(u) \/ GatewayEnds(u)
           \/ (\E w \in Worker : Expire(w)) \/ \E r \in Repo : OtherWriter(r)
  BY <1>1, <1>9 DEF vars, PlannerAnswers, GatewayEnds, Expire, OtherWriter, record, workers
<1>10. QED BY <1>2, <1>3, <1>4, <1>5, <1>6, <1>7, <1>8, <1>9 DEF Next, WorkerStep

-----------------------------------------------------------------------------
(***************************************************************************)
(* Counting: what an accepted call still may lead to.                      *)
(***************************************************************************)
LEMMA PlacesFinite ==
  ASSUME NEW q \in Seq(Task), NEW t
  PROVE  IsFiniteSet(Places(q, t)) /\ Cardinality(Places(q, t)) \in Nat
<1>1. IsFiniteSet(1 .. Len(q)) /\ Places(q, t) \in SUBSET (1 .. Len(q))
  BY FS_Interval DEF Places
<1>2. QED BY <1>1, FS_Subset, FS_CardinalityType

LEMMA PlacesAppend ==
  ASSUME NEW q \in Seq(Task), NEW u \in Task, NEW t
  PROVE  Cardinality(Places(Append(q, u), t)) = Cardinality(Places(q, t)) + IF t = u THEN 1 ELSE 0
<1>1. /\ Len(Append(q, u)) = Len(q) + 1 /\ Len(q) \in Nat
      /\ \A i \in 1 .. Len(q) : Append(q, u)[i] = q[i]
      /\ Append(q, u)[Len(q) + 1] = u
  BY AppendProperties
<1>2. IsFiniteSet(Places(q, t)) /\ Cardinality(Places(q, t)) \in Nat
  BY PlacesFinite
<1>3. CASE t = u
  <2>1. Places(Append(q, u), t) = Places(q, t) \cup {Len(q) + 1} /\ Len(q) + 1 \notin Places(q, t)
    BY <1>1, <1>3 DEF Places
  <2>2. QED BY <1>2, <1>3, <2>1, FS_AddElement
<1>4. CASE t # u
  <2>1. Places(Append(q, u), t) = Places(q, t)
    BY <1>1, <1>4 DEF Places
  <2>2. QED BY <1>2, <1>4, <2>1
<1>5. QED BY <1>3, <1>4

LEMMA PlacesTail ==
  ASSUME NEW q \in Seq(Task), q # <<>>, NEW t
  PROVE  Cardinality(Places(Tail(q), t)) + (IF t = Head(q) THEN 1 ELSE 0) <= Cardinality(Places(q, t))
<1> DEFINE Later == Places(q, t) \ {1}
           f == [i \in Places(Tail(q), t) |-> i + 1]
<1>1. /\ Tail(q) \in Seq(Task) /\ Len(Tail(q)) = Len(q) - 1 /\ Len(q) \in Nat /\ Head(q) = q[1]
      /\ \A i \in 1 .. Len(Tail(q)) : Tail(q)[i] = q[i + 1]
  BY HeadTailProperties
<1>2. f \in [Places(Tail(q), t) -> Later]
  BY <1>1 DEF Places
<1>3. \A i, j \in Places(Tail(q), t) : f[i] = f[j] => i = j
  BY <1>1 DEF Places
<1>4. f \in Injection(Places(Tail(q), t), Later)
  BY <1>2, <1>3, Fun_IsInj
<1>5. IsFiniteSet(Places(q, t)) /\ Cardinality(Places(q, t)) \in Nat /\ Cardinality(Places(Tail(q), t)) \in Nat
  BY <1>1, PlacesFinite
<1>6. /\ IsFiniteSet(Later)
      /\ Cardinality(Later) = IF 1 \in Places(q, t) THEN Cardinality(Places(q, t)) - 1 ELSE Cardinality(Places(q, t))
  BY <1>5, FS_RemoveElement
<1>7. Cardinality(Places(Tail(q), t)) <= Cardinality(Later)
  BY <1>4, <1>6, FS_Injection
<1>8. t = Head(q) => 1 \in Places(q, t)
  <2>1. 1 \in 1 .. Len(q)
    BY EmptySeq, LenProperties
  <2>2. QED BY <1>1, <2>1 DEF Places
<1>9. QED BY <1>5, <1>6, <1>7, <1>8

Coming(t) == IF exec[t] = "created" \/ Planning(t) THEN 1 ELSE 0

\* The counts of a task, before and after: numbers, and their sum.
LEMMA Counts ==
  ASSUME TypeOK, CallInv, NEW t \in Task
  PROVE  /\ Cardinality(Places(queue, t)) \in Nat /\ Cardinality(Waiters(t)) \in Nat
         /\ IsFiniteSet(Waiters(t)) /\ Coming(t) \in {0, 1}
         /\ runs[t] \in Nat /\ commands[t] \in Nat
         /\ runs[t] + (Cardinality(Places(queue, t)) + Cardinality(Waiters(t)) + Coming(t)) <= commands[t]
<1>1. runs[t] \in Nat /\ commands[t] \in Nat /\ queue \in Seq(Task)
  BY DEF TypeOK
<1>2. IsFiniteSet(Waiters(t)) /\ runs[t] + Due(t) <= commands[t]
  BY DEF CallInv
<1>3. QED BY <1>1, <1>2, PlacesFinite, FS_CardinalityType DEF Due, Coming

\* It is enough that nothing grows but with a call.
LEMMA CallKept ==
  ASSUME TypeOK, TypeOK', CallInv, NEW t \in Task,
         runs'[t] = runs[t], commands'[t] = commands[t],
         Cardinality(Places(queue', t)) <= Cardinality(Places(queue, t)),
         {w \in Worker : wpc'[w] = "lock" /\ wtask'[w] = t} \subseteq Waiters(t),
         Coming(t)' <= Coming(t)
  PROVE  (IsFiniteSet(Waiters(t)) /\ runs[t] + Due(t) <= commands[t])'
<1> DEFINE W == {w \in Worker : wpc'[w] = "lock" /\ wtask'[w] = t}
<1>1. IsFiniteSet(W) /\ Cardinality(W) <= Cardinality(Waiters(t)) /\ Cardinality(W) \in Nat
  BY Counts, FS_Subset, FS_CardinalityType
<1>2. Waiters(t)' = W
  BY DEF Waiters
<1>3. Cardinality(Places(queue', t)) \in Nat
  BY PlacesFinite DEF TypeOK
<1>4. Coming(t)' \in {0, 1}
  BY DEF Coming
<1>5. Due(t)' = Cardinality(Places(queue', t)) + Cardinality(W) + Coming(t)'
  BY <1>2 DEF Due, Coming, Places, Planning
<1> HIDE DEF W
<1>6. QED BY <1>1, <1>2, <1>3, <1>4, <1>5, Counts

LEMMA CallStep ==
  ASSUME TypeOK, TypeOK', LockInv, CallInv, [Next]_vars
  PROVE  CallInv'
<1> SUFFICES ASSUME NEW t \in Task PROVE (IsFiniteSet(Waiters(t)) /\ runs[t] + Due(t) <= commands[t])'
  BY DEF CallInv
<1> DEFINE Bounded == (IsFiniteSet(Waiters(t)) /\ runs[t] + Due(t) <= commands[t])'
           W       == {v \in Worker : wpc'[v] = "lock" /\ wtask'[v] = t}
<1>0. /\ wpc \in [Worker -> {"idle", "lock", "await", "ci", "ended"}] /\ queue \in Seq(Task)
      /\ wtask \in [Worker -> Task \cup {NoTask}] /\ exec \in [Task -> Alive \cup Settled \cup {"none"}]
      /\ runs \in [Task -> Nat] /\ commands \in [Task -> Nat]
  BY DEF TypeOK
<1>a. Waiters(t)' = W /\ Due(t)' = Cardinality(Places(queue', t)) + Cardinality(W) + Coming(t)'
  BY DEF Waiters, Due, Coming, Places, Planning
<1>b. Coming(t)' \in {0, 1} /\ Cardinality(Places(queue', t)) \in Nat
  BY PlacesFinite DEF Coming, TypeOK
<1>c. Cardinality(Places(queue, t)) \in Nat
  BY <1>0, PlacesFinite
<1>d. /\ UNCHANGED inner /\ (UNCHANGED exec \/ \E S : CancelExecution(S)) => Coming(t)' <= Coming(t)
      /\ exec'[t] = exec[t] /\ inner'[t] = inner[t] => Coming(t)' = Coming(t)
      /\ exec'[t] \notin {"created", "awaiting"} => Coming(t)' <= Coming(t)
  <2>1. UNCHANGED inner /\ (UNCHANGED exec \/ \E S : CancelExecution(S)) =>
          exec'[t] \notin {"created", "awaiting"} \/ (exec'[t] = exec[t] /\ inner'[t] = inner[t])
    BY CancelKeeps
  <2>2. exec'[t] = exec[t] /\ inner'[t] = inner[t] => Coming(t)' = Coming(t)
    BY DEF Coming, Planning
  <2>3. exec'[t] \notin {"created", "awaiting"} => Coming(t)' = 0
    BY DEF Coming, Planning
  <2>4. Coming(t) \in {0, 1}
    BY DEF Coming
  <2>5. QED BY <2>1, <2>2, <2>3, <2>4
<1>1. CASE UNCHANGED <<queue, workers, runs, commands>> /\ Coming(t)' <= Coming(t)
  <2>1. W \subseteq Waiters(t)
    BY <1>1 DEF Waiters, workers
  <2>2. Cardinality(Places(queue', t)) <= Cardinality(Places(queue, t))
    BY <1>1, <1>c
  <2>3. QED BY <1>1, <2>1, <2>2, CallKept
<1>2. ASSUME NEW u \in Task, Client(u) PROVE Bounded
  <2>1. UNCHANGED <<workers, runs>> /\ Coming(t)' <= Coming(t)
    BY <1>d, <1>2, ClientCases
  <2>2. CASE Enqueue(u)
    <3>1. Cardinality(Places(queue', t)) = Cardinality(Places(queue, t)) + IF t = u THEN 1 ELSE 0
      BY <1>0, <2>2, PlacesAppend DEF Enqueue
    <3>2. commands'[t] = commands[t] + IF t = u THEN 1 ELSE 0
      BY <1>0, <2>2 DEF Enqueue
    <3>3. W = Waiters(t)
      BY <2>1 DEF Waiters, workers
    <3> HIDE DEF W
    <3>4. runs'[t] = runs[t]
      BY <2>1
    <3>5. QED BY <1>a, <1>b, <2>1, <3>1, <3>2, <3>3, <3>4, Counts
  <2>3. QED BY <1>1, <1>2, <2>1, <2>2, ClientCases
<1>3. ASSUME NEW u \in Task, TaskStep(u) PROVE Bounded
  <2>1. UNCHANGED <<queue, workers, counters>>
    BY <1>3, TaskSteps DEF TaskStep
  <2>2. CASE Plans(u) /\ u = t
    <3>1. Coming(t) = 1
      BY <2>2 DEF Plans, Coming
    <3>2. QED BY <1>1, <1>b, <2>1, <3>1 DEF counters
  <2>3. CASE ~Plans(u) /\ u = t
    <3>1. exec'[t] \notin {"created", "awaiting"}
      BY <1>0, <1>3, <2>3, TaskSteps DEF TaskStep, Return
    <3>2. QED BY <1>1, <1>d, <2>1, <3>1 DEF counters
  <2>4. CASE u # t
    <3>1. exec'[t] = exec[t] /\ inner'[t] = inner[t]
      BY <1>0, <1>3, <2>4, TaskSteps DEF TaskStep, Return, Plans
    <3>2. Coming(t)' <= Coming(t)
      BY <1>b, <1>d, <3>1
    <3>3. QED BY <1>1, <2>1, <3>2 DEF counters
  <2>5. QED BY <2>2, <2>3, <2>4
<1>4. ASSUME NEW w \in Worker, Take(w) PROVE Bounded
  <2>1. /\ wpc[w] = "idle" /\ queue # <<>> /\ Head(queue) \in Task /\ queue' = Tail(queue)
        /\ runs'[t] = runs[t] /\ commands'[t] = commands[t] /\ inner' = inner
    BY <1>4, TakeCases DEF counters
  <2>2. /\ Cardinality(Places(queue', t)) + (IF t = Head(queue) THEN 1 ELSE 0) <= Cardinality(Places(queue, t))
        /\ Cardinality(Places(queue', t)) <= Cardinality(Places(queue, t))
    BY <1>0, <1>b, <1>c, <2>1, PlacesTail
  <2>3. CASE Starts(w, Head(queue))
    <3>1. W = Waiters(t)
      BY <1>0, <2>1, <2>3 DEF Starts, Waiters
    <3>2. t # Head(queue) => Coming(t)' = Coming(t)
      BY <1>0, <1>d, <2>1, <2>3 DEF Starts
    <3> HIDE DEF W
    <3>3. t = Head(queue) => Cardinality(Places(queue', t)) + 1 <= Cardinality(Places(queue, t))
      BY <2>2
    <3>4. /\ t = Head(queue) => Coming(t)' <= Coming(t) + 1
          /\ t # Head(queue) => Coming(t)' = Coming(t)
      BY <1>b, <3>2, Counts
    <3>5. Due(t)' <= Cardinality(Places(queue, t)) + Cardinality(Waiters(t)) + Coming(t)
      BY <1>a, <1>b, <2>2, <3>1, <3>3, <3>4, Counts
    <3>6. Due(t)' \in Nat
      BY <1>a, <1>b, <3>1, Counts
    <3>7. runs'[t] + Due(t)' <= commands'[t]
      <4> DEFINE n == Cardinality(Places(queue, t)) + Cardinality(Waiters(t)) + Coming(t)
                 m == Due(t)'
      <4>1. n \in Nat /\ m \in Nat /\ m <= n
        BY <3>5, <3>6, Counts
      <4>2. runs[t] \in Nat /\ commands[t] \in Nat /\ runs[t] + n <= commands[t]
        BY Counts
      <4>3. runs'[t] + Due(t)' = runs[t] + m /\ commands'[t] = commands[t]
        BY <2>1
      <4> HIDE DEF n, m
      <4>4. runs[t] + m <= commands[t]
        BY <4>1, <4>2
      <4>5. QED BY <4>3, <4>4
    <3>8. IsFiniteSet(Waiters(t)')
      BY <1>a, <3>1, Counts
    <3>9. QED BY <3>7, <3>8
  <2>4. CASE /\ wpc' = [wpc EXCEPT ![w] = "lock"] /\ wtask' = [wtask EXCEPT ![w] = Head(queue)] /\ UNCHANGED exec
    <3>1. W = IF t = Head(queue) THEN Waiters(t) \cup {w} ELSE Waiters(t)
      BY <1>0, <2>1, <2>4 DEF Waiters
    <3>2. w \notin Waiters(t) /\ Coming(t)' = Coming(t)
      BY <1>d, <2>1, <2>4 DEF Waiters
    <3> HIDE DEF W
    <3>3. /\ IsFiniteSet(W)
          /\ Cardinality(W) = Cardinality(Waiters(t)) + IF t = Head(queue) THEN 1 ELSE 0
      <4>1. IsFiniteSet(Waiters(t)) /\ Cardinality(Waiters(t)) \in Nat
        BY Counts
      <4>2. IsFiniteSet(Waiters(t) \cup {w}) /\ Cardinality(Waiters(t) \cup {w}) = Cardinality(Waiters(t)) + 1
        BY <3>2, <4>1, FS_AddElement
      <4>3. QED BY <3>1, <4>1, <4>2
    <3>4. QED BY <1>a, <1>b, <2>1, <2>2, <3>2, <3>3, Counts
  <2>5. CASE UNCHANGED <<exec, wpc, wtask>>
    <3>1. W \subseteq Waiters(t) /\ Coming(t)' <= Coming(t)
      BY <1>d, <2>1, <2>5 DEF Waiters
    <3>2. QED BY <2>1, <2>2, <3>1, CallKept
  <2>6. QED BY <1>4, <2>3, <2>4, <2>5, TakeCases
<1>5. ASSUME NEW w \in Worker, Enter(w) PROVE Bounded
  <2>1. /\ wpc[w] = "lock" /\ queue' = queue /\ runs'[t] = runs[t] /\ commands'[t] = commands[t]
        /\ wtask[w] \in Task /\ inner' = inner
    BY <1>5, EnterCases, BusyWorker DEF counters
  <2>2. W = Waiters(t) \ {w}
    BY <1>0, <1>5, <2>1, EnterCases DEF Starts, Waiters
  <2>3. CASE Starts(w, wtask[w])
    <3>1. t = wtask[w] => w \in Waiters(t)
      BY <2>1 DEF Waiters
    <3>2. t # wtask[w] => Coming(t)' = Coming(t)
      BY <1>0, <1>d, <2>1, <2>3 DEF Starts
    <3>3. t # wtask[w] => w \notin Waiters(t)
      BY DEF Waiters
    <3> HIDE DEF W
    <3>4. /\ IsFiniteSet(W)
          /\ Cardinality(W) = IF w \in Waiters(t) THEN Cardinality(Waiters(t)) - 1 ELSE Cardinality(Waiters(t))
      BY <2>2, Counts, FS_RemoveElement
    <3>5. QED BY <1>a, <1>b, <2>1, <3>1, <3>2, <3>3, <3>4, Counts
  <2>4. CASE UNCHANGED exec
    <3>1. Coming(t)' <= Coming(t)
      BY <1>d, <2>1, <2>4
    <3>2. QED BY <1>c, <2>1, <2>2, <3>1, CallKept
  <2>5. QED BY <1>5, <2>3, <2>4, EnterCases
<1>6. ASSUME NEW w \in Worker, Complete(w) \/ CiAnswer(w) \/ Interrupt(w) \/ Expire(w) PROVE Bounded
  <2>1. UNCHANGED <<queue, counters>>
    BY <1>6, CompleteCases, InterruptCases DEF CiAnswer, Expire
  <2>2. W \subseteq Waiters(t)
    BY <1>0, <1>6, CompleteCases, InterruptCases DEF CiAnswer, Expire, Finish, Waiters
  <2>3. Coming(t)' <= Coming(t)
    <3>1. UNCHANGED inner /\ (UNCHANGED exec \/ CancelExecution({wtask[w]}) \/ Finish(w))
      BY <1>6, CompleteCases, InterruptCases DEF CiAnswer, Expire
    <3>2. CASE Finish(w)
      <4>1. exec'[t] = "none" \/ exec'[t] = exec[t]
        BY <1>0, <3>2 DEF Finish
      <4>2. QED BY <1>b, <1>d, <3>1, <4>1
    <3>3. QED BY <1>d, <3>1, <3>2
  <2>4. QED BY <1>c, <2>1, <2>2, <2>3, CallKept DEF counters
<1>7. CASE Stop
  BY <1>1, <1>7, <1>d DEF Stop, counters
<1>8. CASE CancelWorkers \/ Start \/ UNCHANGED vars
  <2>1. UNCHANGED <<queue, wpc, wtask, exec, inner, runs, commands>>
    BY <1>8 DEF CancelWorkers, Start, vars, workers, tasks, counters
  <2>2. W \subseteq Waiters(t) /\ Coming(t)' <= Coming(t)
    BY <1>d, <2>1 DEF Waiters
  <2>3. QED BY <1>c, <2>1, <2>2, CallKept
<1>9. CASE Stopped \/ Crash
  <2>1. ProcessGone
    BY <1>9 DEF Stopped, Crash
  <2>2. /\ runs' = runs /\ commands' = commands /\ queue' = <<>> /\ exec'[t] = "none" /\ W = {}
    BY <2>1 DEF ProcessGone
  <2>3. Places(queue', t) = {}
    BY <2>2 DEF Places
  <2>4. Cardinality(Places(queue', t)) <= Cardinality(Places(queue, t))
    BY <1>c, <2>3, FS_EmptySet
  <2>5. QED BY <1>d, <2>2, <2>4, CallKept
<1>10. ASSUME NEW u \in Task, GatewayEnds(u) PROVE Bounded
  <2>1. UNCHANGED <<queue, workers, runs, commands, exec>> /\ (t = u => ~Planning(t)')
        /\ (t # u => inner'[t] = inner[t])
    BY <1>10 DEF GatewayEnds, counters, Planning, TypeOK
  <2>2. Coming(t)' <= Coming(t)
    BY <2>1 DEF Coming, Planning
  <2>3. QED BY <1>1, <2>1, <2>2
<1>11. ASSUME NEW u \in Task, PlannerAnswers(u) PROVE Bounded
  <2>1. /\ UNCHANGED <<queue, workers, commands, exec>> /\ Planning(u) /\ ~Planning(u)'
        /\ t # u => inner'[t] = inner[t] /\ runs'[t] = runs[t]
        /\ runs'[t] \in {runs[t], runs[t] + 1}
    BY <1>0, <1>11 DEF PlannerAnswers, Planning, TypeOK
  <2>2. CASE t = u
    <3>1. Coming(t) = 1 /\ Coming(t)' = 0
      BY <2>1, <2>2 DEF Coming, Planning
    <3>2. W = Waiters(t) /\ commands'[t] = commands[t] /\ Places(queue', t) = Places(queue, t)
      BY <2>1 DEF Waiters, workers
    <3> HIDE DEF W
    <3>3. QED BY <1>a, <1>b, <2>1, <3>1, <3>2, Counts
  <2>3. CASE t # u
    <3>1. W = Waiters(t) /\ commands'[t] = commands[t]
      BY <2>1 DEF Waiters, workers
    <3>2. Coming(t)' <= Coming(t)
      BY <1>b, <1>d, <2>1, <2>3
    <3>3. QED BY <1>c, <2>1, <2>3, <3>1, <3>2, CallKept
  <2>4. QED BY <2>2, <2>3
<1>12. CASE \E r \in Repo : OtherWriter(r)
  BY <1>1, <1>12, <1>d DEF OtherWriter, counters, tasks
<1>13. QED BY <1>2, <1>3, <1>4, <1>5, <1>6, <1>7, <1>8, <1>9, <1>10, <1>11, <1>12 DEF Next, WorkerStep

-----------------------------------------------------------------------------
(***************************************************************************)
(* Who wants the execution.                                                *)
(***************************************************************************)
\* A call that cancels the task cancels its execution; a result needs the relay.
LEMMA ClientWants ==
  ASSUME NEW t \in Task, Client(t)
  PROVE  /\ UNCHANGED <<workers, inner>>
         /\ \/ CancelExecution({t}) /\ \E s \in {"verified", "cancelled"} : SetStatus(t, s)
            \/ UNCHANGED exec /\ \E s \in Statuses \ {"cancelled"} : SetStatus(t, s)
         /\ package \subseteq package' /\ thread \subseteq thread'
         /\ receipt' \subseteq receipt \cup (package \cap thread)
BY DEF Client, Dispatch, Continue, Cancel, VerifyTask, GenerateManualPackage, MarkManualDispatched,
   RecordManualAck, ImportManualResult, Enqueue, Statuses, tasks

LEMMA StartedStep ==
  ASSUME TypeOK, LockInv, WantedInv, [Next]_vars
  PROVE  \A t \in Task : Started(t)'
<1> SUFFICES ASSUME NEW t \in Task PROVE Started(t)'
  OBVIOUS
<1>0. /\ status \in [Task -> Statuses] /\ exec \in [Task -> Alive \cup Settled \cup {"none"}]
      /\ exec[t] \in {"created", "awaiting"} => status[t] # "cancelled"
  BY DEF TypeOK, WantedInv, Started, Statuses
<1>1. CASE exec'[t] \notin {"created", "awaiting"} \/ status'[t] # "cancelled"
  BY <1>1 DEF Started
<1>2. CASE status'[t] = status[t] /\ (exec'[t] = exec[t] \/ exec'[t] = "cancelling")
  BY <1>0, <1>2 DEF Started
<1>3. ASSUME NEW u \in Task, Client(u) PROVE Started(t)'
  <2>1. CASE u = t
    <3>1. CASE CancelExecution({t})
      <4>1. exec'[t] \notin {"created", "awaiting"}
        BY <1>0, <3>1 DEF CancelExecution
      <4>2. QED BY <1>1, <4>1
    <3>2. CASE \E s \in Statuses \ {"cancelled"} : SetStatus(t, s)
      <4>1. status'[t] # "cancelled"
        BY <1>0, <3>2 DEF SetStatus
      <4>2. QED BY <1>1, <4>1
    <3>3. QED BY <1>3, <2>1, <3>1, <3>2, ClientWants
  <2>2. CASE u # t
    <3>1. status'[t] = status[t]
      BY <1>0, <1>3, <2>2, ClientWants DEF SetStatus
    <3>2. exec'[t] = exec[t] \/ exec'[t] = "cancelling"
      BY <1>3, ClientWants, CancelKeeps
    <3>3. QED BY <1>2, <3>1, <3>2
  <2>3. QED BY <2>1, <2>2
<1>4. ASSUME NEW u \in Task, TaskStep(u) PROVE Started(t)'
  <2>1. CASE u = t
    <3>1. CASE Plans(t)
      BY <1>0, <3>1 DEF Plans, Started
    <3>2. CASE ~Plans(t)
      <4>1. exec'[t] \notin {"created", "awaiting"}
        BY <1>0, <1>4, <2>1, <3>2, TaskSteps DEF TaskStep, Return
      <4>2. QED BY <1>1, <4>1
    <3>3. QED BY <3>1, <3>2
  <2>2. CASE u # t
    <3>1. exec'[t] = exec[t]
      BY <1>0, <1>4, <2>2, TaskSteps DEF TaskStep, Return, Plans
    <3>2. status'[t] = status[t]
      BY <1>0, <1>4, <2>2, TaskSteps DEF TaskStep, SetStatus
    <3>3. QED BY <1>2, <3>1, <3>2
  <2>3. QED BY <2>1, <2>2
<1>5. ASSUME NEW w \in Worker, Take(w) \/ Enter(w) PROVE Started(t)'
  <2>1. \/ \E u \in Task : Starts(w, u)
        \/ UNCHANGED exec /\ (UNCHANGED status \/ \E u \in Task : SetStatus(u, "failed"))
    BY <1>5, TakeCases, EnterCases, BusyWorker
  <2>2. CASE \E u \in Task : Starts(w, u)
    <3>1. status'[t] # "cancelled" \/ (status'[t] = status[t] /\ exec'[t] = exec[t])
      BY <1>0, <2>2 DEF Starts, SetStatus
    <3>2. QED BY <1>1, <1>2, <3>1
  <2>3. CASE UNCHANGED exec /\ (UNCHANGED status \/ \E u \in Task : SetStatus(u, "failed"))
    <3>1. status'[t] # "cancelled" \/ status'[t] = status[t]
      BY <1>0, <2>3 DEF SetStatus
    <3>2. QED BY <1>1, <1>2, <2>3, <3>1
  <2>4. QED BY <2>1, <2>2, <2>3
<1>6. ASSUME NEW w \in Worker, Finish(w), UNCHANGED status \/ \E s \in Statuses : SetStatus(wtask[w], s)
      PROVE  Started(t)'
  <2>1. CASE t = wtask[w]
    <3>1. exec'[t] = "none"
      BY <1>0, <1>6, <2>1 DEF Finish
    <3>2. QED BY <1>1, <3>1
  <2>2. CASE t # wtask[w]
    <3>1. exec'[t] = exec[t] /\ status'[t] = status[t]
      BY <1>0, <1>6, <2>2 DEF Finish, SetStatus
    <3>2. QED BY <1>2, <3>1
  <2>3. QED BY <2>1, <2>2
<1>7. ASSUME NEW w \in Worker, Complete(w) PROVE Started(t)'
  <2>1. CASE Finish(w)
    BY <1>6, <1>7, <2>1, CompleteCases DEF Statuses
  <2>2. CASE UNCHANGED <<status, exec>>
    BY <1>2, <2>2
  <2>3. QED BY <1>7, <2>1, <2>2, CompleteCases
<1>8. ASSUME NEW w \in Worker, CiAnswer(w) PROVE Started(t)'
  BY <1>6, <1>8 DEF CiAnswer, Statuses
<1>9. ASSUME NEW w \in Worker, Interrupt(w) PROVE Started(t)'
  <2>1. CASE UNCHANGED status /\ (UNCHANGED exec \/ CancelExecution({wtask[w]}))
    BY <1>2, <2>1, CancelKeeps
  <2>2. CASE Finish(w) /\ \E s \in {"failed", "cancelled"} : SetStatus(wtask[w], s)
    BY <1>6, <2>2 DEF Statuses
  <2>3. QED BY <1>9, <2>1, <2>2, InterruptCases
<1>10. CASE Stop \/ \E w \in Worker : Expire(w)
  <2>1. UNCHANGED status /\ \E S : CancelExecution(S)
    BY <1>10 DEF Stop, Expire, record
  <2>2. QED BY <1>2, <2>1, CancelKeeps
<1>11. CASE Stopped \/ Crash
  BY <1>1, <1>11 DEF Stopped, Crash, ProcessGone
<1>12. CASE Start
  <2>1. UNCHANGED exec /\ status' = [u \in Task |-> IF u \in Recovered THEN "failed" ELSE status[u]]
    BY <1>12 DEF Start, tasks
  <2>2. QED BY <1>1, <1>2, <2>1
<1>13. CASE \/ UNCHANGED vars \/ CancelWorkers \/ (\E r \in Repo : OtherWriter(r))
            \/ \E u \in Task : PlannerAnswers(u) \/ GatewayEnds(u)
  BY <1>2, <1>13 DEF vars, CancelWorkers, OtherWriter, PlannerAnswers, GatewayEnds, record, tasks
<1>14. QED BY <1>3, <1>4, <1>5, <1>7, <1>8, <1>9, <1>10, <1>11, <1>12, <1>13 DEF Next, WorkerStep

LEMMA UnansweredStep ==
  ASSUME TypeOK, LockInv, WantedInv, [Next]_vars
  PROVE  \A t \in Task : Unanswered(t)'
<1> SUFFICES ASSUME NEW t \in Task PROVE Unanswered(t)'
  OBVIOUS
<1>0. /\ exec \in [Task -> Alive \cup Settled \cup {"none"}]
      /\ Planning(t) /\ t \in receipt => t \in package \cap thread
  BY DEF TypeOK, WantedInv, Unanswered
\* Enough: no planning begins, and what is imported came by the relay.
<1>1. ASSUME Planning(t)' => Planning(t), package \subseteq package', thread \subseteq thread',
             t \in receipt' => t \in receipt \cup (package' \cap thread')
      PROVE  Unanswered(t)'
  BY <1>0, <1>1 DEF Unanswered
<1>2. ASSUME NEW S, UNCHANGED exec \/ CancelExecution(S), UNCHANGED inner PROVE Planning(t)' => Planning(t)
  BY <1>2, CancelKeeps DEF Planning
<1>3. ASSUME NEW u \in Task, Client(u) PROVE Unanswered(t)'
  <2>1. Planning(t)' => Planning(t)
    BY <1>2, <1>3, ClientWants
  <2>2. QED BY <1>1, <1>3, <2>1, ClientWants
<1>4. ASSUME NEW u \in Task, TaskStep(u) PROVE Unanswered(t)'
  <2>1. package' = package /\ thread \subseteq thread'
    BY <1>4, TaskSteps DEF TaskStep
  <2>2. CASE u = t
    <3>1. CASE Plans(t)
      BY <3>1 DEF Plans, Unanswered
    <3>2. CASE ~Plans(t)
      <4>1. exec'[t] # "awaiting"
        BY <1>0, <1>4, <2>2, <3>2, TaskSteps DEF TaskStep, Return
      <4>2. QED BY <4>1 DEF Unanswered, Planning
    <3>3. QED BY <3>1, <3>2
  <2>3. CASE u # t
    <3>1. exec'[t] = exec[t] /\ inner'[t] = inner[t]
      BY <1>0, <1>4, <2>3, TaskSteps DEF TaskStep, Return, Plans
    <3>2. t \in receipt' => t \in receipt
      BY <1>4, <2>3, TaskSteps DEF TaskStep
    <3>3. QED BY <1>1, <2>1, <3>1, <3>2 DEF Planning
  <2>4. QED BY <2>2, <2>3
<1>5. ASSUME NEW w \in Worker, WorkerStep(w) \/ Expire(w) PROVE Unanswered(t)'
  <2>1. UNCHANGED <<receipt, package, thread, inner>>
    BY <1>5 DEF WorkerStep, Take, Enter, Complete, CiAnswer, Interrupt, Expire, record
  <2>2. \/ UNCHANGED exec \/ CancelExecution({wtask[w]}) \/ Finish(w)
        \/ \E u \in Task : Starts(w, u)
    BY <1>5, TakeCases, EnterCases, BusyWorker, CompleteCases, InterruptCases DEF WorkerStep, CiAnswer, Expire
  <2>3. CASE Finish(w) \/ \E u \in Task : Starts(w, u)
    <3>1. exec'[t] # "awaiting" \/ exec'[t] = exec[t]
      BY <1>0, <2>3 DEF Finish, Starts
    <3>2. QED BY <1>1, <2>1, <3>1 DEF Planning
  <2>4. CASE UNCHANGED exec \/ CancelExecution({wtask[w]})
    <3>1. Planning(t)' => Planning(t)
      BY <1>2, <2>1, <2>4
    <3>2. QED BY <1>1, <2>1, <3>1
  <2>5. QED BY <2>2, <2>3, <2>4
<1>6. CASE Stop \/ CancelWorkers \/ Start \/ UNCHANGED vars \/ \E r \in Repo : OtherWriter(r)
  <2>1. UNCHANGED <<receipt, package, thread, inner>> /\ (UNCHANGED exec \/ CancelExecution(Task))
    BY <1>6 DEF Stop, CancelWorkers, Start, vars, OtherWriter, record, tasks
  <2>2. Planning(t)' => Planning(t)
    BY <1>2, <2>1
  <2>3. QED BY <1>1, <2>1, <2>2
<1>7. CASE Stopped \/ Crash
  BY <1>7 DEF Stopped, Crash, ProcessGone, Unanswered, Planning
<1>8. ASSUME NEW u \in Task, PlannerAnswers(u) \/ GatewayEnds(u) PROVE Unanswered(t)'
  <2>1. UNCHANGED <<receipt, package, thread, exec>> /\ (inner'[t] = inner[t] \/ inner'[t] # "planning")
    BY <1>8 DEF PlannerAnswers, GatewayEnds, record, TypeOK
  <2>2. QED BY <1>1, <2>1 DEF Planning
<1>9. QED BY <1>3, <1>4, <1>5, <1>6, <1>7, <1>8 DEF Next

\* Executions end or are cancelled, and the workers stay where they are.
LEMMA UnexpiredKept ==
  ASSUME TypeOK, LockInv, WantedInv, UNCHANGED <<wpc, wtask, expired>>,
         \A t \in Task : exec[t] # "none" => exec'[t] # "none",
         \A t \in Task : exec[t] \in {"cancelling"} \cup Settled => exec'[t] \in {"cancelling"} \cup Settled
  PROVE  \A w \in Worker : Unexpired(w)'
<1>1. \A w \in Worker : wpc[w] = "await" => wtask[w] \in Task
  BY BusyWorker DEF Holding
<1>2. QED BY <1>1 DEF WantedInv, Unexpired

\* A worker that is not in its way moves; the executions of the others stay.
LEMMA UnexpiredOthers ==
  ASSUME TypeOK, LockInv, WantedInv, NEW w \in Worker, expired' \subseteq expired,
         \A v \in Worker : v # w => wpc'[v] = wpc[v] /\ wtask'[v] = wtask[v],
         \A v \in Worker : v # w /\ wpc[v] = "await" => exec'[wtask[v]] = exec[wtask[v]],
         Unexpired(w)'
  PROVE  \A v \in Worker : Unexpired(v)'
BY DEF WantedInv, Unexpired

LEMMA StartsUnexpired ==
  ASSUME TypeOK, TypeOK', LockInv, LockInv', WantedInv, NEW w \in Worker, NEW t \in Task,
         wpc[w] \in {"idle", "lock"}, Starts(w, t), UNCHANGED expired
  PROVE  \A v \in Worker : Unexpired(v)'
<1>1. /\ wpc'[w] = "await" /\ wtask'[w] = t /\ exec'[t] = "created" /\ w \notin expired
      /\ \A v \in Worker : v # w => wpc'[v] = wpc[v] /\ wtask'[v] = wtask[v]
      /\ \A u \in Task \ {t} : exec'[u] = exec[u]
  BY DEF Starts, TypeOK, WantedInv, Unexpired
<1>2. \A v \in Worker : v # w /\ wpc[v] = "await" => wtask[v] \in Task /\ wtask[v] # t
  <2> SUFFICES ASSUME NEW v \in Worker, v # w, wpc[v] = "await" PROVE wtask[v] \in Task /\ wtask[v] # t
    OBVIOUS
  <2>1. wtask[v] \in Task
    BY BusyWorker DEF Holding
  <2>2. wpc'[v] \in Holding /\ wpc'[w] \in Holding
    BY <1>1 DEF Holding
  <2>3. lockq'[RepoOf[wtask'[v]]][1] = v /\ lockq'[RepoOf[wtask'[w]]][1] = w
    BY <2>2 DEF LockInv, RepoLock
  <2>4. QED BY <1>1, <2>1, <2>3
<1>3. Unexpired(w)'
  BY <1>1 DEF Unexpired
<1>4. QED BY <1>1, <1>2, <1>3, UnexpiredOthers

LEMMA FinishUnexpired ==
  ASSUME TypeOK, LockInv, WantedInv, NEW w \in Worker, wpc[w] \in Holding, Finish(w)
  PROVE  \A v \in Worker : Unexpired(v)'
<1>1. /\ wpc'[w] = "idle" /\ w \notin expired' /\ expired' \subseteq expired
      /\ \A v \in Worker : v # w => wpc'[v] = wpc[v] /\ wtask'[v] = wtask[v]
      /\ \A u \in Task : u # wtask[w] => exec'[u] = exec[u]
  BY DEF Finish, TypeOK
<1>2. \A v \in Worker : v # w /\ wpc[v] = "await" => wtask[v] \in Task /\ wtask[v] # wtask[w]
  BY OneHolder, BusyWorker DEF Holding
<1>3. Unexpired(w)'
  BY <1>1 DEF Unexpired
<1>4. QED BY <1>1, <1>2, <1>3, UnexpiredOthers

LEMMA UnexpiredStep ==
  ASSUME TypeOK, TypeOK', LockInv, LockInv', ExecInv, WantedInv, [Next]_vars
  PROVE  \A w \in Worker : Unexpired(w)'
<1> DEFINE Goal == \A w \in Worker : Unexpired(w)'
<1>0. /\ wpc \in [Worker -> {"idle", "lock", "await", "ci", "ended"}]
      /\ wtask \in [Worker -> Task \cup {NoTask}] /\ exec \in [Task -> Alive \cup Settled \cup {"none"}]
  BY DEF TypeOK
<1>1. ASSUME UNCHANGED <<wpc, wtask, expired>>, UNCHANGED exec \/ \E S : CancelExecution(S) PROVE Goal
  <2>1. \A t \in Task : exec'[t] = exec[t] \/ (exec'[t] = "cancelling" /\ exec[t] \notin Settled)
    BY <1>1, CancelKeeps DEF Settled
  <2>2. QED BY <1>1, <2>1, UnexpiredKept
<1>2. ASSUME NEW t \in Task, Client(t) PROVE Goal
  BY <1>1, <1>2, ClientWants DEF workers
<1>3. ASSUME NEW t \in Task, TaskStep(t) PROVE Goal
  <2>1. UNCHANGED workers /\ exec[t] \in Alive /\ \A u \in Task : u # t => exec'[u] = exec[u]
    BY <1>0, <1>3, TaskSteps DEF TaskStep, Return, Plans
  <2>2. \/ exec[t] = "created" /\ exec'[t] = "awaiting"
        \/ exec'[t] \in Settled
    BY <1>0, <1>3, TaskSteps DEF TaskStep, Return, Plans, Settled
  <2>3. QED BY <2>1, <2>2, UnexpiredKept DEF workers, Settled
<1>4. ASSUME NEW w \in Worker, Take(w) PROVE Goal
  <2>0. wpc[w] = "idle" /\ Head(queue) \in Task /\ UNCHANGED expired
    BY <1>4, TakeCases
  <2>1. CASE Starts(w, Head(queue))
    BY <2>0, <2>1, StartsUnexpired
  <2>2. CASE UNCHANGED <<exec, wpc, wtask>>
    BY <1>1, <2>0, <2>2
  <2>3. CASE wpc' = [wpc EXCEPT ![w] = "lock"] /\ wtask' = [wtask EXCEPT ![w] = Head(queue)] /\ UNCHANGED exec
    <3>1. wpc'[w] = "lock" /\ w \notin expired'
      BY <1>0, <2>0, <2>3 DEF WantedInv, Unexpired
    <3>2. Unexpired(w)'
      BY <3>1 DEF Unexpired
    <3>3. \A v \in Worker : v # w => wpc'[v] = wpc[v] /\ wtask'[v] = wtask[v]
      BY <1>0, <2>3
    <3>4. QED BY <2>0, <2>3, <3>2, <3>3, UnexpiredOthers
  <2>4. QED BY <1>4, <2>1, <2>2, <2>3, TakeCases
<1>5. ASSUME NEW w \in Worker, NEW pc \in {"idle", "ended"}, wpc[w] \in {"idle", "lock"}, UNCHANGED <<exec, expired>>,
             wpc' = [wpc EXCEPT ![w] = pc], wtask' = [wtask EXCEPT ![w] = NoTask]
      PROVE  Goal
  <2>1. wpc'[w] # "await" /\ w \notin expired'
    BY <1>0, <1>5 DEF WantedInv, Unexpired
  <2>2. Unexpired(w)'
    BY <2>1 DEF Unexpired
  <2>3. \A v \in Worker : v # w => wpc'[v] = wpc[v] /\ wtask'[v] = wtask[v]
    BY <1>0, <1>5
  <2>4. QED BY <1>5, <2>2, <2>3, UnexpiredOthers
<1>6. ASSUME NEW w \in Worker, Enter(w) PROVE Goal
  <2>1. CASE Starts(w, wtask[w])
    BY <1>6, <2>1, EnterCases, BusyWorker, StartsUnexpired
  <2>2. CASE ~Starts(w, wtask[w])
    BY <1>5, <1>6, <2>2, EnterCases
  <2>3. QED BY <2>1, <2>2
<1>7. ASSUME NEW w \in Worker, Complete(w) PROVE Goal
  <2>1. CASE Finish(w)
    BY <1>7, <2>1, CompleteCases, FinishUnexpired DEF Holding
  <2>2. CASE /\ w \notin expired /\ wpc' = [wpc EXCEPT ![w] = "ci"]
             /\ UNCHANGED <<exec, wtask, expired>>
    <3>1. wpc'[w] = "ci" /\ \A v \in Worker : v # w => wpc'[v] = wpc[v] /\ wtask'[v] = wtask[v]
      BY <1>0, <2>2
    <3>2. Unexpired(w)'
      BY <2>2, <3>1 DEF Unexpired
    <3>3. QED BY <2>2, <3>1, <3>2, UnexpiredOthers
  <2>3. QED BY <1>7, <2>1, <2>2 DEF Complete
<1>8. ASSUME NEW w \in Worker, CiAnswer(w) PROVE Goal
  BY <1>8, FinishUnexpired DEF CiAnswer, Holding
<1>9. ASSUME NEW w \in Worker, Interrupt(w) PROVE Goal
  <2>1. CASE wpc[w] \in {"idle", "lock"}
    <3>1. /\ wpc' = [wpc EXCEPT ![w] = "ended"] /\ wtask' = [wtask EXCEPT ![w] = NoTask]
          /\ UNCHANGED <<exec, expired>>
      BY <1>9, <2>1 DEF Interrupt
    <3>2. QED BY <1>5, <2>1, <3>1
  <2>2. CASE CancelExecution({wtask[w]}) /\ UNCHANGED <<wpc, wtask, expired>>
    BY <1>1, <2>2
  <2>3. CASE wpc[w] = "ci" /\ Finish(w)
    BY <2>3, FinishUnexpired DEF Holding
  <2>4. QED BY <1>9, <2>1, <2>2, <2>3 DEF Interrupt
<1>10. ASSUME NEW w \in Worker, Expire(w) PROVE Goal
  <2>1. /\ wpc[w] = "await" /\ wtask[w] \in Task /\ expired' = expired \cup {w} /\ UNCHANGED <<wpc, wtask>>
        /\ exec' = [t \in Task |-> IF t = wtask[w] /\ exec[t] \in {"created", "awaiting"} THEN "cancelling" ELSE exec[t]]
    BY <1>10, BusyWorker DEF Expire, Holding, CancelExecution
  <2>2. exec[wtask[w]] \in Alive \cup Settled
    BY <1>0, <2>1 DEF WantedInv, Unexpired
  <2>3. exec'[wtask[w]] \in {"cancelling"} \cup Settled
    BY <2>1, <2>2 DEF Alive
  <2>4. \A t \in Task : exec'[t] = exec[t] \/ exec'[t] = "cancelling"
    BY <2>1
  <2> SUFFICES ASSUME NEW v \in Worker PROVE Unexpired(v)'
    OBVIOUS
  <2>5. wpc[v] = "await" => wtask[v] \in Task
    BY BusyWorker DEF Holding
  <2>6. CASE v = w
    BY <2>1, <2>3, <2>6 DEF Unexpired, Settled
  <2>7. CASE v # w
    BY <2>1, <2>4, <2>5, <2>7 DEF WantedInv, Unexpired
  <2>8. QED BY <2>6, <2>7
<1>11. CASE Stop \/ CancelWorkers \/ Start \/ UNCHANGED vars \/ \E r \in Repo : OtherWriter(r)
  <2>1. UNCHANGED <<wpc, wtask, expired>> /\ (UNCHANGED exec \/ CancelExecution(Task))
    BY <1>11 DEF Stop, CancelWorkers, Start, vars, OtherWriter, workers, tasks
  <2>2. QED BY <1>1, <2>1
<1>12. CASE Stopped \/ Crash
  <2>1. expired' = {} /\ \A w \in Worker : wpc'[w] = "idle"
    BY <1>12 DEF Stopped, Crash, ProcessGone
  <2>2. QED BY <2>1 DEF Unexpired
<1>13. ASSUME NEW t \in Task, PlannerAnswers(t) \/ GatewayEnds(t) PROVE Goal
  BY <1>1, <1>13 DEF PlannerAnswers, GatewayEnds, workers
<1>14. QED BY <1>2, <1>3, <1>4, <1>6, <1>7, <1>8, <1>9, <1>10, <1>11, <1>12, <1>13 DEF Next, WorkerStep

-----------------------------------------------------------------------------
(***************************************************************************)
(* The inductive invariant and what follows from it.                       *)
(***************************************************************************)
LEMMA InitInv == Init => TypeOK /\ IInv
<1> SUFFICES ASSUME Init PROVE TypeOK /\ IInv
  OBVIOUS
<1>1. TypeOK
  <2>1. RecordType /\ WorkerType /\ ExecType
    BY DispatchAssumption DEF Init, RecordType, WorkerType, ExecType, Statuses
  <2>2. QueueType
    BY DispatchAssumption DEF Init, QueueType
  <2>3. QED BY <2>1, <2>2, TypeParts
<1>2. LockInv
  <2>1. /\ \A w \in Worker : wpc[w] = "idle" /\ wtask[w] = NoTask
        /\ \A r \in Repo : lockq[r] = <<>>
    BY DEF Init
  <2>2. Distinct(<<>>) /\ \A w \in Worker : ~Occurs(w, <<>>)
    BY DEF Distinct, Occurs
  <2>3. QED BY <2>1, <2>2, DispatchAssumption DEF LockInv, Holding
<1>3. ExecInv /\ LifeInv /\ ReturnInv /\ QueuedIsWaiting /\ RunningIsAttended
  BY DEF Init, ExecInv, LifeInv, ReturnInv, QueuedIsWaiting, RunningIsAttended, Holding
<1>4. CallInv
  <2> SUFFICES ASSUME NEW t \in Task PROVE IsFiniteSet(Waiters(t)) /\ runs[t] + Due(t) <= commands[t]
    BY DEF CallInv
  <2>1. Waiters(t) = {} /\ Places(queue, t) = {} /\ exec[t] = "none" /\ runs[t] = 0 /\ commands[t] = 0
    BY DEF Init, Waiters, Places
  <2>2. QED BY <2>1, FS_EmptySet DEF Due, Planning
<1>5. WantedInv
  BY DEF Init, WantedInv, Started, Unanswered, Unexpired, Planning
<1>6. QED BY <1>1, <1>2, <1>3, <1>4, <1>5 DEF IInv

LEMMA InvStep == TypeOK /\ IInv /\ [Next]_vars => (TypeOK /\ IInv)'
<1> SUFFICES ASSUME TypeOK, IInv, [Next]_vars PROVE (TypeOK /\ IInv)'
  OBVIOUS
<1>1. TypeOK'
  BY TypeStep DEF IInv
<1>2. LockInv'
  BY <1>1, LockStep DEF IInv
<1>3. ExecInv'
  BY <1>1, <1>2, ExecStep DEF IInv
<1>4. LifeInv' /\ ReturnInv'
  BY LifeStep, ReturnStep DEF IInv
<1>5. QueuedIsWaiting' /\ RunningIsAttended'
  BY QueuedStep, RunningStep DEF IInv
<1>6. CallInv'
  BY <1>1, CallStep DEF IInv
<1>7. WantedInv'
  BY <1>1, <1>2, StartedStep, UnansweredStep, UnexpiredStep DEF IInv, WantedInv
<1>8. QED BY <1>1, <1>2, <1>3, <1>4, <1>5, <1>6, <1>7 DEF IInv

LEMMA InvHolds == Spec => [](TypeOK /\ IInv)
BY InitInv, InvStep, PTL DEF Spec

(***************************************************************************)
(* The records, the queue, the workers and the locks keep their types.     *)
(***************************************************************************)
THEOREM TypeCorrect == Spec => []TypeOK
BY InvHolds, PTL

(***************************************************************************)
(* One execution at a time on a repository: two executions have two        *)
(* workers, each at the head of the repository's one lock.                 *)
(***************************************************************************)
LEMMA InvOneExecution == TypeOK /\ IInv => OneExecution
<1> SUFFICES ASSUME TypeOK, IInv, NEW t \in Task, NEW u \in Task,
                    exec[t] \in Alive, exec[u] \in Alive, RepoOf[t] = RepoOf[u]
             PROVE  t = u
  BY DEF OneExecution
<1>1. PICK v \in Worker : wtask[v] = t /\ wpc[v] \in Holding
  BY DEF IInv, ExecInv, Alive
<1>2. PICK w \in Worker : wtask[w] = u /\ wpc[w] \in Holding
  BY DEF IInv, ExecInv, Alive
<1>3. QED BY <1>1, <1>2, OneHolder DEF IInv

THEOREM OneExecutionHolds == Spec => []OneExecution
BY InvHolds, InvOneExecution, PTL

(***************************************************************************)
(* An execution that may write runs only under its own row of              *)
(* repository_writers.                                                     *)
(***************************************************************************)
LEMMA InvWriteHoldsRow == TypeOK /\ IInv => WriteHoldsRow
<1> SUFFICES ASSUME IInv, NEW t \in Writes, exec[t] \in Alive PROVE writer[RepoOf[t]] = t
  BY DEF WriteHoldsRow
<1>1. exec[t] # "none" /\ t \in Task
  BY DispatchAssumption DEF Alive
<1>2. PICK w \in Worker : wtask[w] = t /\ wpc[w] \in Holding
  BY <1>1 DEF IInv, ExecInv
<1>3. QED BY <1>2 DEF IInv, ExecInv

THEOREM WriteHoldsRowHolds == Spec => []WriteHoldsRow
BY InvHolds, InvWriteHoldsRow, PTL

(***************************************************************************)
(* No dispatch is lost between the record, the queue and the workers.      *)
(***************************************************************************)
THEOREM QueuedIsWaitingHolds == Spec => []QueuedIsWaiting
BY InvHolds, PTL DEF IInv

(***************************************************************************)
(* A running task has a worker, unless the relay made it so or its result  *)
(* is already there.                                                       *)
(***************************************************************************)
THEOREM RunningIsAttendedHolds == Spec => []RunningIsAttended
BY InvHolds, PTL DEF IInv

(***************************************************************************)
(* No automatic duplicate execution: every run of the gateway is paid for  *)
(* by an accepted call.                                                    *)
(***************************************************************************)
LEMMA InvNoDuplicate == TypeOK /\ IInv => NoAutomaticDuplicate
<1> SUFFICES ASSUME TypeOK, IInv, NEW t \in Task PROVE runs[t] <= commands[t]
  BY DEF NoAutomaticDuplicate
<1>1. QED BY Counts DEF IInv

THEOREM NoAutomaticDuplicateHolds == Spec => []NoAutomaticDuplicate
BY InvHolds, InvNoDuplicate, PTL

(***************************************************************************)
(* The gateway is started only for a task that is not cancelled, whose     *)
(* worker waits and has not timed out, and that has no result but one the  *)
(* relay imported while the planner was at work.                           *)
(***************************************************************************)
LEMMA RunStep ==
  ASSUME TypeOK, IInv, [Next]_vars, NEW t \in Task, runs'[t] # runs[t]
  PROVE  Planning(t)
<1>1. ASSUME NEW u \in Task, Client(u) \/ TaskStep(u) \/ GatewayEnds(u) PROVE runs' = runs
  BY <1>1, ClientCases, TaskSteps DEF TaskStep, GatewayEnds, counters
<1>2. ASSUME NEW w \in Worker, WorkerStep(w) \/ Expire(w) PROVE runs' = runs
  BY <1>2 DEF WorkerStep, Take, Enter, Complete, CiAnswer, Interrupt, Expire, counters
<1>3. CASE UNCHANGED vars \/ Stop \/ CancelWorkers \/ Stopped \/ Crash \/ Start \/ \E r \in Repo : OtherWriter(r)
  BY <1>3 DEF vars, Stop, CancelWorkers, Stopped, Crash, ProcessGone, Start, OtherWriter, counters
<1>4. ASSUME NEW u \in Task, PlannerAnswers(u) PROVE Planning(t)
  BY <1>4 DEF PlannerAnswers, Planning, TypeOK
<1>5. QED BY <1>1, <1>2, <1>3, <1>4 DEF Next

LEMMA InvWanted ==
  ASSUME TypeOK, IInv, NEW t \in Task, Planning(t)
  PROVE  /\ status[t] # "cancelled"
         /\ \E w \in Worker : wpc[w] = "await" /\ wtask[w] = t /\ w \notin expired
         /\ t \in receipt => t \in package \cap thread
<1>1. exec[t] = "awaiting" /\ exec[t] # "none" /\ exec[t] \notin {"cancelling"} \cup Settled
  BY DEF Planning, Settled
<1>2. status[t] # "cancelled" /\ (t \in receipt => t \in package \cap thread)
  BY <1>1 DEF IInv, WantedInv, Started, Unanswered
<1>3. PICK w \in Worker : wtask[w] = t /\ wpc[w] \in Holding
  BY <1>1 DEF IInv, ExecInv
<1>4. wpc[w] = "await"
  BY <1>1, <1>3 DEF IInv, ExecInv, Holding
<1>5. w \notin expired
  BY <1>1, <1>3 DEF IInv, WantedInv, Unexpired
<1>6. QED BY <1>2, <1>3, <1>4, <1>5

LEMMA WantedStep ==
  TypeOK /\ IInv /\ [Next]_vars =>
    [\A t \in Task : runs'[t] # runs[t] =>
       /\ status[t] # "cancelled"
       /\ \E w \in Worker : wpc[w] = "await" /\ wtask[w] = t /\ w \notin expired
       /\ t \in receipt => t \in package \cap thread]_vars
BY RunStep, InvWanted

THEOREM GatewayIsWantedHolds == Spec => GatewayIsWanted
BY InvHolds, WantedStep, PTL DEF Spec, GatewayIsWanted
=============================================================================
