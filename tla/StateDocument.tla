---------------------------- MODULE StateDocument ----------------------------
(***************************************************************************)
(* All state of the service but the writer rows and the outbox is one JSON *)
(* document in one row of SQLite.  load() and save() are atomic, each on   *)
(* its own; every component changes its section by loading the document,   *)
(* replacing the section and saving the whole.                             *)
(*                                                                         *)
(* Two kinds of code do so at the same time in one process:                *)
(*  - the async handlers, which run on the event loop one after the other: *)
(*    here the operator service, which keeps its section in memory and     *)
(*    reads it from the document at a start only, and one that rewrites    *)
(*    any other section;                                                   *)
(*  - the endpoints of the four-system L4 runs, plain functions that       *)
(*    FastAPI calls in threads of a pool: each reads a run, checks the     *)
(*    request against it, and saves the run with one stage more.           *)
(* An action is the code from one access of the store to the next.         *)
(***************************************************************************)
EXTENDS Naturals, Sequences

CONSTANTS
  Run,          \* workspace_run_id
  Correlation,  \* correlation_id
  Result,       \* agentic envelopes
  Passing,      \* those with final_result PASS and a passed evaluation
  Review,       \* mind review envelopes
  Decision,     \* the decisions that are asked for
  Thread,       \* the threads that serve L4 requests
  Key,          \* idempotency keys of operator tasks
  Nothing,      \* no value, no record, no document
  MaxRequests,  \* L4 requests that change a run
  MaxCalls,     \* handlers of the event loop that save
  MaxRestarts

Stages == {"OPENED", "AGENTIC_COMPLETED", "MIND_REVIEW_COMPLETED",
           "SOVEREIGN_CHECKPOINT_ACKNOWLEDGED"} \cup Decision

Optional(S) == S \cup {Nothing}
Envelopes == [agentic : Optional(Result), mind : Optional(Review), checkpoints : Seq(Stages)]
Records   == [correlation : Optional(Correlation), agentic : Optional(Result),
              mind : Optional(Review), ack : Optional(Envelopes),
              decision : Optional(Decision), checkpoints : Seq(Stages)]
Status    == {"absent", "queued", "running", "failed", "done"}
Documents == [operator : [Key -> Status], runs : [Run -> Records]]

ASSUME DocumentAssumption ==
  /\ Passing \subseteq Result
  /\ Decision \subseteq {"ACCEPTED", "REWORK_REQUIRED", "REJECTED"}
  /\ Nothing \notin {"ACCEPTED", "REWORK_REQUIRED", "REJECTED"}
  /\ Nothing \notin Correlation \cup Result \cup Review
  /\ Nothing \notin Envelopes \cup Documents
  /\ MaxRequests \in Nat /\ MaxCalls \in Nat /\ MaxRestarts \in Nat

VARIABLES
  doc,       \* the row: the operator's tasks and the L4 runs
  tasks,     \* OperatorService._tasks: the status of a key's task
  loop,      \* the document the event loop has loaded, with its section: saved next
  at,        \* where a thread is in its handler
  ask,       \* the request it serves
  rec,       \* the run it has read, then the run it will save
  copy,      \* the document it has loaded, with that run: what it saves next
  finished,  \* the keys whose results were recorded and saved
  raced,     \* two accesses of the document have overlapped
  requests, calls, restarts

threads  == <<at, ask, rec, copy>>
counters == <<requests, calls, restarts>>
vars     == <<doc, tasks, loop, threads, finished, raced, counters>>

\* A run that does not exist has no correlation.  The chain of checkpoints is
\* reduced to their stages: what a stage's payload repeats is in the run.
NoRun == [correlation |-> Nothing, agentic |-> Nothing, mind |-> Nothing,
          ack |-> Nothing, decision |-> Nothing, checkpoints |-> <<>>]

NoRequest == [op |-> "none", run |-> Nothing, correlation |-> Nothing, value |-> Nothing]

Init ==
  /\ tasks = [k \in Key |-> "absent"]
  /\ doc = [operator |-> tasks, runs |-> [r \in Run |-> NoRun]]
  /\ loop = Nothing
  /\ at = [t \in Thread |-> "idle"]
  /\ ask = [t \in Thread |-> NoRequest]
  /\ rec = [t \in Thread |-> NoRun]
  /\ copy = [t \in Thread |-> Nothing]
  /\ finished = {} /\ raced = FALSE
  /\ requests = 0 /\ calls = 0 /\ restarts = 0

-----------------------------------------------------------------------------
(***************************************************************************)
(* What the handlers of an L4 run make of it.                              *)
(***************************************************************************)
Request ==
  [op : {"open", "ack"}, run : Run, correlation : Correlation, value : {Nothing}]
    \cup [op : {"agentic"}, run : Run, correlation : Correlation, value : Result]
    \cup [op : {"mind"}, run : Run, correlation : Correlation, value : Review]
    \cup [op : {"decide"}, run : Run, correlation : Correlation, value : Decision]

Exists(r) == r.correlation # Nothing

OpenAlways(r) == TRUE   \* mutant: an existing run is opened anew
MayOpen(r) == ~Exists(r)

Checkpointed(r, stage) == [r EXCEPT !.checkpoints = Append(@, stage)]

\* sovereign_envelope: what the acknowledgement of a run has to name.
Envelope(r) == [agentic |-> r.agentic, mind |-> r.mind, checkpoints |-> r.checkpoints]

PassedAlways(r) == TRUE   \* mutant: any result may be accepted
Passed(r) == r.agentic \in Passing

ReviewedAlways(r) == TRUE   \* mutant: an envelope is derived without a review
Reviewed(r) == r.mind # Nothing

\* Mutant: a second agentic result is no replay.
AcceptsAgain(q, r) ==
  \/ q.op = "open" /\ MayOpen(r)
  \/ q.op = "agentic" /\ Exists(r) /\ q.correlation = r.correlation

\* The request changes the run: it is neither refused nor a replay.
Accepts(q, r) ==
  \/ q.op = "open" /\ MayOpen(r)
  \/ /\ q.op = "agentic"
     /\ Exists(r) /\ q.correlation = r.correlation /\ r.agentic = Nothing
  \/ /\ q.op = "mind"
     /\ r.agentic # Nothing /\ q.correlation = r.correlation /\ r.mind = Nothing
  \/ q.op = "ack" /\ Exists(r) /\ r.ack = Nothing
  \/ /\ q.op = "decide"
     /\ r.ack # Nothing /\ r.decision = Nothing /\ r.agentic # Nothing
     /\ q.value = "ACCEPTED" => Passed(r)

OpenRun(q)          == Checkpointed([NoRun EXCEPT !.correlation = q.correlation], "OPENED")
RecordAgentic(q, r) == Checkpointed([r EXCEPT !.agentic = q.value], "AGENTIC_COMPLETED")
RecordMind(q, r)    == Checkpointed([r EXCEPT !.mind = q.value], "MIND_REVIEW_COMPLETED")
Decide(q, r)        == Checkpointed([r EXCEPT !.decision = q.value], q.value)

\* Mutant: the run is stored, not its envelope.
AcknowledgeRun(r, current) == [r EXCEPT !.ack = current]

Acknowledge(r, current) ==
  Checkpointed([r EXCEPT !.ack = Envelope(current)], "SOVEREIGN_CHECKPOINT_ACKNOWLEDGED")

Updated(q, r) == CASE q.op = "open"    -> OpenRun(q)
                   [] q.op = "agentic" -> RecordAgentic(q, r)
                   [] q.op = "mind"    -> RecordMind(q, r)
                   [] q.op = "ack"     -> r
                   [] q.op = "decide"  -> Decide(q, r)

-----------------------------------------------------------------------------
(***************************************************************************)
(* The threads.                                                            *)
(***************************************************************************)
Busy(T) == \E t \in T : at[t] # "idle"

\* The run is read and the request checked against it.
Get(t, q) ==
  LET r == doc.runs[q.run] IN
  /\ at[t] = "idle" /\ Accepts(q, r) /\ requests < MaxRequests
  /\ requests' = requests + 1
  /\ at' = [at EXCEPT ![t] = IF q.op = "ack" THEN "check" ELSE "load"]
  /\ ask' = [ask EXCEPT ![t] = q]
  /\ rec' = [rec EXCEPT ![t] = Updated(q, r)]
  /\ UNCHANGED <<doc, tasks, loop, copy, finished, raced, calls, restarts>>

\* acknowledge_sovereign reads the run again for the envelope it expects, and
\* adds the acknowledgement to the run it read before.
AcknowledgeSovereign(t) ==
  LET current == doc.runs[ask[t].run] IN
  /\ at[t] = "check" /\ Reviewed(current)
  /\ at' = [at EXCEPT ![t] = "load"]
  /\ rec' = [rec EXCEPT ![t] = Acknowledge(@, current)]
  /\ UNCHANGED <<doc, tasks, loop, ask, copy, finished, raced, counters>>

LoadDocument(t) ==
  /\ at[t] = "load"
  /\ at' = [at EXCEPT ![t] = "save"]
  /\ copy' = [copy EXCEPT ![t] = [doc EXCEPT !.runs[ask[t].run] = rec[t]]]
  /\ UNCHANGED <<doc, tasks, loop, ask, rec, finished, raced, counters>>

Return(t) ==
  /\ at' = [at EXCEPT ![t] = "idle"]
  /\ ask' = [ask EXCEPT ![t] = NoRequest]
  /\ rec' = [rec EXCEPT ![t] = NoRun]
  /\ copy' = [copy EXCEPT ![t] = Nothing]

SaveDocument(t) ==
  /\ at[t] = "save"
  /\ doc' = copy[t]
  /\ Return(t)
  /\ raced' = (raced \/ loop # Nothing \/ Busy(Thread \ {t}))
  /\ UNCHANGED <<tasks, loop, finished, counters>>

\* The envelope is not the expected one, or the store raises.
Abandon(t) ==
  /\ at[t] # "idle"
  /\ Return(t)
  /\ UNCHANGED <<doc, tasks, loop, finished, raced, counters>>

-----------------------------------------------------------------------------
(***************************************************************************)
(* The event loop.                                                         *)
(***************************************************************************)
\* _transition, and the load of _persist.
Transition(k, from, to) ==
  /\ loop = Nothing /\ tasks[k] \in from /\ calls < MaxCalls
  /\ calls' = calls + 1
  /\ tasks' = [tasks EXCEPT ![k] = to]
  /\ loop' = [doc EXCEPT !.operator = tasks']
  /\ UNCHANGED <<doc, threads, finished, raced, requests, restarts>>

\* A key that is new, or whose task failed, is queued; any other is answered
\* from its record.
Dispatch(k) == Transition(k, {"absent", "failed"}, "queued")
Execute(k)  == Transition(k, {"queued"}, "running")
Complete(k) == Transition(k, {"running"}, "done")
FailTask(k) == Transition(k, {"queued", "running"}, "failed")

\* The load of another section: the audit trail, the engineering tasks.
LoadOther ==
  /\ loop = Nothing /\ calls < MaxCalls
  /\ calls' = calls + 1
  /\ loop' = doc
  /\ UNCHANGED <<doc, tasks, threads, finished, raced, requests, restarts>>

Persist ==
  /\ loop # Nothing
  /\ doc' = loop
  /\ loop' = Nothing
  /\ finished' = finished \cup {k \in Key : tasks[k] = "done"}
  /\ raced' = (raced \/ Busy(Thread))
  /\ UNCHANGED <<tasks, threads, counters>>

\* Mutant: finished tasks are recovered too.
RecoveredAll(T) == [k \in Key |-> IF T[k] = "absent" THEN "absent" ELSE "failed"]

\* recover_interrupted_tasks, at the next start.
Recovered(T) ==
  [k \in Key |-> IF T[k] \in {"queued", "running"} THEN "failed" ELSE T[k]]

Restart ==
  /\ restarts < MaxRestarts
  /\ tasks' = Recovered(doc.operator)
  /\ doc' = [doc EXCEPT !.operator = tasks']
  /\ loop' = Nothing
  /\ at' = [t \in Thread |-> "idle"]
  /\ ask' = [t \in Thread |-> NoRequest]
  /\ rec' = [t \in Thread |-> NoRun]
  /\ copy' = [t \in Thread |-> Nothing]
  /\ restarts' = restarts + 1
  /\ UNCHANGED <<finished, raced, requests, calls>>

-----------------------------------------------------------------------------
ThreadStep(t) ==
  \/ \E q \in Request : Get(t, q)
  \/ AcknowledgeSovereign(t)
  \/ LoadDocument(t)
  \/ SaveDocument(t)
  \/ Abandon(t)

LoopStep ==
  \/ \E k \in Key : Dispatch(k) \/ Execute(k) \/ Complete(k) \/ FailTask(k)
  \/ LoadOther
  \/ Persist

Next == (\E t \in Thread : ThreadStep(t)) \/ LoopStep \/ Restart

Spec == Init /\ [][Next]_vars

-----------------------------------------------------------------------------
\* Every variable keeps its type: a thread in "save" has loaded a document,
\* and its request is one it may serve (persistence.py, four_system_l4.py).
TypeOK ==
  /\ doc \in Documents
  /\ tasks \in [Key -> Status]
  /\ loop \in Optional(Documents)
  /\ at \in [Thread -> {"idle", "check", "load", "save"}]
  /\ ask \in [Thread -> Request \cup {NoRequest}]
  /\ rec \in [Thread -> Records]
  /\ copy \in [Thread -> Optional(Documents)]
  /\ \A t \in Thread : at[t] # "idle" => ask[t] \in Request
  /\ \A t \in Thread : at[t] = "save" <=> copy[t] \in Documents
  /\ finished \subseteq Key /\ raced \in BOOLEAN
  /\ requests \in 0 .. MaxRequests /\ calls \in 0 .. MaxCalls /\ restarts \in 0 .. MaxRestarts

-----------------------------------------------------------------------------
\* A run holds what a stage puts into it.
Holds(r, stage) ==
  CASE stage = "OPENED" -> Exists(r)
    [] stage = "AGENTIC_COMPLETED" -> r.agentic # Nothing
    [] stage = "MIND_REVIEW_COMPLETED" -> r.mind # Nothing
    [] stage = "SOVEREIGN_CHECKPOINT_ACKNOWLEDGED" -> r.ack # Nothing
    [] OTHER -> r.decision = stage

\* The checkpoints name each stage whose result the run holds, once.
Covered(r) ==
  LET s == r.checkpoints IN
  /\ \A i, j \in 1 .. Len(s) : s[i] = s[j] => i = j
  /\ \A stage \in Stages : (\E i \in 1 .. Len(s) : s[i] = stage) <=> Holds(r, stage)

\* Whatever the threads and the loop do to each other, the checkpoint chain of
\* a saved run is the chain of that run: a run is saved whole, and never put
\* together from two.
ChainCoversRun == \A r \in Run : Covered(doc.runs[r])

\* Nor is a run ever saved as accepted that has no acknowledgement, or whose
\* result did not pass: the decision is checked against the run it is added to.
AcceptedPassed ==
  \A r \in Run : doc.runs[r].decision = "ACCEPTED" =>
                    doc.runs[r].ack # Nothing /\ doc.runs[r].agentic \in Passing

Course(r) == <<"OPENED", "AGENTIC_COMPLETED", "MIND_REVIEW_COMPLETED",
               "SOVEREIGN_CHECKPOINT_ACKNOWLEDGED", r.decision>>

IsPrefixOf(s, t) == Len(s) <= Len(t) /\ \A i \in 1 .. Len(s) : s[i] = t[i]

\* The stages in their order, and the acknowledgement that of this run.
InCourse(r) ==
  /\ IsPrefixOf(r.checkpoints, Course(r))
  /\ r.ack # Nothing => r.ack = [agentic |-> r.agentic, mind |-> r.mind,
                                 checkpoints |-> SubSeq(Course(r), 1, 3)]

\* As long as no two accesses of the document overlap, every run goes through
\* its stages in order, and what was acknowledged is what it holds: across
\* restarts, refused and repeated requests.  (With two requests at once an
\* acknowledgement can be saved on a run without a review.)
RunsInCourse == ~raced => \A r \in Run : InCourse(doc.runs[r])

\* And what a run has reached, it has reached: nothing rolls it back.
NothingRolledBack ==
  [][~raced' => \A r \in Run :
        IsPrefixOf(doc.runs[r].checkpoints, doc'.runs[r].checkpoints)]_vars

Reruns(k) == k \in finished /\ tasks[k] = "queued" /\ tasks'[k] = "running"

\* And a key whose result was saved is not executed again, across restarts
\* (dispatch answers it from the record).
FinishedOnce == [][~raced' => \A k \in Key : ~Reruns(k)]_vars

\* orchestrator/README.md:50: "Repeating an idempotency key across process
\* restarts returns the persisted task without silently creating another
\* execution."
RepeatReturnsPersistedTask == [][\A k \in Key : ~Reruns(k)]_vars
==============================================================================
