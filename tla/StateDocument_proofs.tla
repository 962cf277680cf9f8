------------------------- MODULE StateDocument_proofs -------------------------
(***************************************************************************)
(* Proofs about the shared document, for any set of threads, runs and keys *)
(* and without bounds on requests, calls and restarts.                     *)
(***************************************************************************)
EXTENDS StateDocument, SequenceTheorems, TLAPS

LEMMA RecordsExcept ==
  ASSUME NEW r \in Records, NEW stage \in Stages
  PROVE  Checkpointed(r, stage) \in Records
  BY DEF Records, Checkpointed

LEMMA NoRunType == NoRun \in Records
  BY DEF NoRun, Records, Optional

\* What a thread has read or updated is a run.
LEMMA UpdatedType ==
  ASSUME NEW q \in Request, NEW r \in Records
  PROVE  Updated(q, r) \in Records
<1>1. CASE q.op = "open"
  <2>1. [NoRun EXCEPT !.correlation = q.correlation] \in Records
    BY NoRunType DEF Records, Request, Optional
  <2> QED BY <1>1, <2>1, RecordsExcept DEF Updated, OpenRun, Stages
<1>2. CASE q.op = "agentic"
  <2>1. [r EXCEPT !.agentic = q.value] \in Records
    BY <1>2 DEF Records, Request, Optional
  <2> QED BY <1>2, <2>1, RecordsExcept DEF Updated, RecordAgentic, Stages
<1>3. CASE q.op = "mind"
  <2>1. [r EXCEPT !.mind = q.value] \in Records
    BY <1>3 DEF Records, Request, Optional
  <2> QED BY <1>3, <2>1, RecordsExcept DEF Updated, RecordMind, Stages
<1>4. CASE q.op = "ack"
  BY <1>4 DEF Updated
<1>5. CASE q.op = "decide"
  <2>1. q.value \in Decision
    BY <1>5 DEF Request
  <2>2. [r EXCEPT !.decision = q.value] \in Records
    BY <2>1 DEF Records, Optional
  <2> QED BY <1>5, <2>1, <2>2, RecordsExcept DEF Updated, Decide, Stages
<1> QED BY <1>1, <1>2, <1>3, <1>4, <1>5 DEF Request

LEMMA AcknowledgeType ==
  ASSUME NEW r \in Records, NEW current \in Records
  PROVE  Acknowledge(r, current) \in Records
<1>1. Envelope(current) \in Envelopes
  BY DEF Envelope, Envelopes, Records
<1>2. [r EXCEPT !.ack = Envelope(current)] \in Records
  BY <1>1 DEF Records, Optional
<1> QED BY <1>2, RecordsExcept DEF Acknowledge, Stages

LEMMA TypeStep == ASSUME TypeOK, [Next]_vars PROVE TypeOK'
<1> USE DocumentAssumption DEF Optional
<1>1. ASSUME NEW t \in Thread, NEW q \in Request, Get(t, q) PROVE TypeOK'
  <2>1. doc.runs[q.run] \in Records
    BY DEF TypeOK, Documents, Request
  <2>2. Updated(q, doc.runs[q.run]) \in Records
    BY <2>1, UpdatedType
  <2> QED BY <1>1, <2>2 DEF Get, TypeOK
<1>2. ASSUME NEW t \in Thread, AcknowledgeSovereign(t) PROVE TypeOK'
  <2>1. doc.runs[ask[t].run] \in Records /\ rec[t] \in Records
    BY <1>2 DEF TypeOK, Documents, Request, AcknowledgeSovereign
  <2>2. Acknowledge(rec[t], doc.runs[ask[t].run]) \in Records
    BY <2>1, AcknowledgeType
  <2> QED BY <1>2, <2>2 DEF AcknowledgeSovereign, TypeOK, counters
<1>3. ASSUME NEW t \in Thread, LoadDocument(t) PROVE TypeOK'
  <2>1. [doc EXCEPT !.runs[ask[t].run] = rec[t]] \in Documents
    BY <1>3 DEF TypeOK, Documents
  <2> QED BY <1>3, <2>1 DEF LoadDocument, TypeOK, counters
<1>4. ASSUME NEW t \in Thread, SaveDocument(t) PROVE TypeOK'
  BY <1>4, NoRunType DEF SaveDocument, Return, TypeOK, counters
<1>5. ASSUME NEW t \in Thread, Abandon(t) PROVE TypeOK'
  BY <1>5, NoRunType DEF Abandon, Return, TypeOK, counters
<1>6. ASSUME NEW k \in Key, NEW from, NEW to \in Status, Transition(k, from, to) PROVE TypeOK'
  <2>1. tasks' \in [Key -> Status] /\ calls' \in 0 .. MaxCalls
    BY <1>6 DEF Transition, TypeOK
  <2>2. loop' \in Documents
    BY <1>6, <2>1 DEF Transition, TypeOK, Documents
  <2> QED BY <1>6, <2>1, <2>2 DEF Transition, TypeOK, threads
<1>7. CASE LoadOther
  BY <1>7 DEF LoadOther, TypeOK, threads
<1>8. CASE Persist
  BY <1>8 DEF Persist, TypeOK, threads, counters
<1>9. CASE Restart
  <2>1. tasks' \in [Key -> Status]
    BY <1>9 DEF Restart, Recovered, TypeOK, Documents, Status
  <2>2. doc' \in Documents
    BY <1>9, <2>1 DEF Restart, TypeOK, Documents
  <2> QED BY <1>9, <2>1, <2>2, NoRunType DEF Restart, TypeOK
<1>10. CASE UNCHANGED vars
  BY <1>10 DEF TypeOK, vars, threads, counters
<1>11. ASSUME NEW t \in Thread, ThreadStep(t) PROVE TypeOK'
  BY <1>1, <1>2, <1>3, <1>4, <1>5, <1>11 DEF ThreadStep
<1>12. ASSUME NEW k \in Key, Dispatch(k) \/ Execute(k) \/ Complete(k) \/ FailTask(k)
       PROVE  TypeOK'
  <2>1. {"queued", "running", "done", "failed"} \subseteq Status
    BY DEF Status
  <2>2. CASE Dispatch(k)
    BY <2>1, <2>2, <1>6 DEF Dispatch
  <2>3. CASE Execute(k)
    BY <2>1, <2>3, <1>6 DEF Execute
  <2>4. CASE Complete(k)
    BY <2>1, <2>4, <1>6 DEF Complete
  <2>5. CASE FailTask(k)
    BY <2>1, <2>5, <1>6 DEF FailTask
  <2> QED BY <1>12, <2>2, <2>3, <2>4, <2>5
<1>13. CASE LoopStep
  BY <1>7, <1>8, <1>12, <1>13 DEF LoopStep
<1> QED
  BY <1>9, <1>10, <1>11, <1>13 DEF Next

\* Every variable keeps its type, whatever the threads and the loop do to the
\* document (persistence.py load and save, four_system_l4.py).
THEOREM TypeCorrect == Spec => []TypeOK
<1>1. Init => TypeOK
  <2> SUFFICES ASSUME Init PROVE TypeOK
    OBVIOUS
  <2>1. tasks \in [Key -> Status] /\ doc \in Documents
    BY NoRunType DEF Init, Documents, Status
  <2>2. Nothing \notin Documents
    BY DocumentAssumption
  <2>3. rec \in [Thread -> Records] /\ ask \in [Thread -> Request \cup {NoRequest}]
    BY NoRunType DEF Init
  <2>4. 0 \in 0 .. MaxRequests /\ 0 \in 0 .. MaxCalls /\ 0 \in 0 .. MaxRestarts
    BY DocumentAssumption
  <2> QED BY <2>1, <2>2, <2>3, <2>4 DEF Init, TypeOK, Optional
<1> QED BY <1>1, TypeStep, PTL DEF Spec

-----------------------------------------------------------------------------
(***************************************************************************)
(* What keeps a finished key from running again: as long as no two         *)
(* accesses have overlapped, the operator's section in the row, or in the  *)
(* document about to replace it, is the one in memory.                     *)
(***************************************************************************)
SectionInv ==
  ~raced =>
    /\ \A t \in Thread : at[t] = "save" => copy[t].operator = doc.operator
    /\ loop = Nothing => doc.operator = tasks
    /\ loop # Nothing => loop.operator = tasks
    /\ \A k \in finished : doc.operator[k] = "done" /\ tasks[k] = "done"

LEMMA SectionStep ==
  ASSUME TypeOK, TypeOK', SectionInv, [Next]_vars
  PROVE  SectionInv'
<1> SUFFICES ASSUME ~raced'
             PROVE  /\ \A t \in Thread : at'[t] = "save" => copy'[t].operator = doc'.operator
                    /\ loop' = Nothing => doc'.operator = tasks'
                    /\ loop' # Nothing => loop'.operator = tasks'
                    /\ \A k \in finished' : doc'.operator[k] = "done" /\ tasks'[k] = "done"
  BY DEF SectionInv
<1> DEFINE Goal ==
      /\ \A t \in Thread : at'[t] = "save" => copy'[t].operator = doc'.operator
      /\ loop' = Nothing => doc'.operator = tasks'
      /\ loop' # Nothing => loop'.operator = tasks'
      /\ \A k \in finished' : doc'.operator[k] = "done" /\ tasks'[k] = "done"
<1>nothing. Nothing \notin Documents
  BY DocumentAssumption
<1>documents. \A d \in Documents : [d EXCEPT !.operator = d.operator] = d
  BY DEF Documents
<1>1. ASSUME NEW t \in Thread, NEW q \in Request, Get(t, q) PROVE Goal
  BY <1>1 DEF Get, SectionInv, TypeOK
<1>2. ASSUME NEW t \in Thread, AcknowledgeSovereign(t) PROVE Goal
  BY <1>2 DEF AcknowledgeSovereign, SectionInv, TypeOK, counters
<1>3. ASSUME NEW t \in Thread, LoadDocument(t) PROVE Goal
  <2>1. copy'[t].operator = doc.operator
    BY <1>3 DEF LoadDocument, TypeOK, Documents
  <2> QED BY <1>3, <2>1 DEF LoadDocument, SectionInv, TypeOK, counters
<1>4. ASSUME NEW t \in Thread, SaveDocument(t) PROVE Goal
  <2>1. ~raced /\ loop = Nothing /\ \A u \in Thread \ {t} : at[u] = "idle"
    BY <1>4 DEF SaveDocument, Busy
  <2>2. doc'.operator = doc.operator
    BY <1>4, <2>1 DEF SaveDocument, SectionInv
  <2>3. \A u \in Thread : at'[u] = "idle"
    BY <1>4, <2>1 DEF SaveDocument, Return, TypeOK
  <2> QED BY <1>4, <2>1, <2>2, <2>3 DEF SaveDocument, SectionInv, counters
<1>5. ASSUME NEW t \in Thread, Abandon(t) PROVE Goal
  BY <1>5 DEF Abandon, Return, SectionInv, TypeOK, counters
<1>6. ASSUME NEW k \in Key, NEW from, NEW to \in Status, "done" \notin from,
             Transition(k, from, to)
      PROVE  Goal
  <2>1. loop'.operator = tasks' /\ loop' # Nothing
    <3>1. tasks' \in [Key -> Status]
      BY DEF TypeOK
    <3>2. loop' = [doc EXCEPT !.operator = tasks'] /\ doc \in Documents
      BY <1>6 DEF Transition, TypeOK
    <3> QED BY <3>1, <3>2, <1>nothing DEF Documents
  <2>2. \A j \in Key : tasks[j] = "done" => tasks'[j] = "done"
    BY <1>6 DEF Transition, TypeOK
  <2> QED BY <1>6, <2>1, <2>2 DEF Transition, SectionInv, TypeOK, threads
<1>7. CASE LoadOther
  BY <1>7, <1>nothing DEF LoadOther, SectionInv, TypeOK, threads
<1>8. CASE Persist
  <2>1. ~raced /\ \A t \in Thread : at[t] = "idle"
    BY <1>8 DEF Persist, Busy
  <2>2. doc'.operator = tasks /\ tasks' = tasks
    BY <1>8, <2>1 DEF Persist, SectionInv
  <2>3. \A k \in finished' : tasks[k] = "done"
    BY <1>8, <2>1 DEF Persist, SectionInv
  <2> QED BY <1>8, <2>1, <2>2, <2>3 DEF Persist, threads
<1>9. CASE Restart
  <2>1. ~raced /\ finished' = finished /\ finished \subseteq Key
    BY <1>9 DEF Restart, TypeOK
  <2>2. doc'.operator = tasks'
    BY <1>9 DEF Restart, TypeOK, Documents
  <2>3. \A k \in finished : tasks'[k] = "done"
    BY <1>9, <2>1 DEF Restart, Recovered, SectionInv, TypeOK
  <2> QED BY <1>9, <2>1, <2>2, <2>3 DEF Restart
<1>10. CASE UNCHANGED vars
  BY <1>10 DEF vars, threads, SectionInv
<1>11. ASSUME NEW t \in Thread, ThreadStep(t) PROVE Goal
  BY <1>1, <1>2, <1>3, <1>4, <1>5, <1>11 DEF ThreadStep
<1>12. ASSUME NEW k \in Key, Dispatch(k) \/ Execute(k) \/ Complete(k) \/ FailTask(k)
       PROVE  Goal
  <2>1. {"queued", "running", "done", "failed"} \subseteq Status
    BY DEF Status
  <2>2. CASE Dispatch(k)
    BY <2>1, <2>2, <1>6 DEF Dispatch
  <2>3. CASE Execute(k)
    BY <2>1, <2>3, <1>6 DEF Execute
  <2>4. CASE Complete(k)
    BY <2>1, <2>4, <1>6 DEF Complete
  <2>5. CASE FailTask(k)
    BY <2>1, <2>5, <1>6 DEF FailTask
  <2> QED BY <1>12, <2>2, <2>3, <2>4, <2>5
<1>13. CASE LoopStep
  BY <1>7, <1>8, <1>12, <1>13 DEF LoopStep
<1> QED
  BY <1>9, <1>10, <1>11, <1>13 DEF Next

\* A key whose result was saved is not executed again, across restarts, as
\* long as no two accesses of the document have overlapped (operator_service.py
\* _restore, recover_interrupted_tasks; connected_service.py dispatch).
THEOREM FinishedOnceHolds == Spec => FinishedOnce
<1>1. Init => SectionInv
  BY DocumentAssumption DEF Init, SectionInv
<1>2. ASSUME TypeOK, SectionInv, [Next]_vars
      PROVE  [~raced' => \A k \in Key : ~Reruns(k)]_vars
  <2>1. ASSUME ~raced', NEW k \in Key, Reruns(k) PROVE FALSE
    <3>1. ~raced
      BY <1>2, <2>1 DEF Next, ThreadStep, LoopStep, Get, AcknowledgeSovereign, LoadDocument,
         SaveDocument, Abandon, Dispatch, Execute, Complete, FailTask, Transition, LoadOther,
         Persist, Restart, vars
    <3> QED BY <1>2, <2>1, <3>1 DEF Reruns, SectionInv
  <2> QED BY <2>1
<1> QED
  <2>1. Spec => [](TypeOK /\ SectionInv)
    BY <1>1, SectionStep, TypeCorrect, PTL DEF Spec
  <2> QED BY <2>1, <1>2, PTL DEF Spec, FinishedOnce

-----------------------------------------------------------------------------
(***************************************************************************)
(* A run is good in the row, in every document that may replace the row,   *)
(* and in every thread's hands: so no interleaving can save a bad one.     *)
(***************************************************************************)
Good(r) ==
  /\ Covered(r)
  /\ r.decision = "ACCEPTED" => r.ack # Nothing /\ r.agentic \in Passing

GoodInv ==
  /\ \A r \in Run : Good(doc.runs[r])
  /\ loop # Nothing => \A r \in Run : Good(loop.runs[r])
  /\ \A t \in Thread : at[t] = "save" => \A r \in Run : Good(copy[t].runs[r])
  /\ \A t \in Thread : at[t] # "idle" => Good(rec[t])
  /\ \A t \in Thread : at[t] = "check" => rec[t].ack = Nothing

LEMMA NoRunGood == Good(NoRun)
<1>1. \A stage \in Stages : ~Holds(NoRun, stage)
  BY DocumentAssumption DEF Holds, NoRun, Exists, Stages
<1>2. Len(NoRun.checkpoints) = 0
  BY DEF NoRun
<1>3. Covered(NoRun)
  BY <1>1, <1>2 DEF Covered
<1> QED
  BY <1>3, DocumentAssumption DEF Good, NoRun

\* A checkpoint for a stage that the run did not hold and now does.
LEMMA CoveredStep ==
  ASSUME NEW r \in Records, Covered(r), NEW s \in Records, NEW stage \in Stages,
         ~Holds(r, stage), Holds(s, stage),
         \A other \in Stages \ {stage} : Holds(s, other) <=> Holds(r, other),
         s.checkpoints = Append(r.checkpoints, stage)
  PROVE  Covered(s)
<1> DEFINE old == r.checkpoints
           new == s.checkpoints
<1>1. old \in Seq(Stages) /\ new \in Seq(Stages)
  BY DEF Records
<1>2. /\ Len(new) = Len(old) + 1 /\ Len(old) \in Nat
      /\ new[Len(new)] = stage
      /\ \A i \in 1 .. Len(old) : new[i] = old[i]
  BY <1>1
<1>3. \A i \in 1 .. Len(old) : old[i] # stage
  BY DEF Covered
<1>4. \A i, j \in 1 .. Len(new) : new[i] = new[j] => i = j
  <2> SUFFICES ASSUME NEW i \in 1 .. Len(new), NEW j \in 1 .. Len(new), new[i] = new[j]
               PROVE  i = j
    OBVIOUS
  <2>1. CASE i \in 1 .. Len(old) /\ j \in 1 .. Len(old)
    BY <1>2, <2>1 DEF Covered
  <2>2. CASE i = Len(new) \/ j = Len(new)
    BY <1>2, <1>3, <2>2
  <2> QED BY <1>2, <2>1, <2>2
<1>5. ASSUME NEW other \in Stages
      PROVE  (\E i \in 1 .. Len(new) : new[i] = other) <=> Holds(s, other)
  <2>1. CASE other = stage
    BY <1>2, <2>1
  <2>2. CASE other # stage
    <3>1. (\E i \in 1 .. Len(new) : new[i] = other) <=> (\E i \in 1 .. Len(old) : old[i] = other)
      BY <1>2, <2>2
    <3> QED BY <2>2, <3>1 DEF Covered
  <2> QED BY <2>1, <2>2
<1> QED BY <1>4, <1>5 DEF Covered

LEMMA UpdatedGood ==
  ASSUME NEW q \in Request, NEW r \in Records, Good(r), Accepts(q, r)
  PROVE  Good(Updated(q, r)) /\ (q.op = "ack" => Updated(q, r).ack = Nothing)
<1> DEFINE s == Updated(q, r)
<1>type. s \in Records
  BY UpdatedType
<1>names. /\ Decision \subseteq {"ACCEPTED", "REWORK_REQUIRED", "REJECTED"}
          /\ Nothing \notin Correlation \cup Result \cup Review \cup Decision
          /\ Nothing # "ACCEPTED"
  BY DocumentAssumption
<1>1. CASE q.op = "open"
  <2>1. s = [NoRun EXCEPT !.correlation = q.correlation, !.checkpoints = Append(<<>>, "OPENED")]
    BY <1>1 DEF Updated, OpenRun, Checkpointed, NoRun
  <2>2. q.correlation \in Correlation
    BY <1>1 DEF Request
  <2>3. /\ s.checkpoints = Append(NoRun.checkpoints, "OPENED")
        /\ s.agentic = Nothing /\ s.mind = Nothing /\ s.ack = Nothing /\ s.decision = Nothing
        /\ s.correlation # Nothing
    BY <2>1, <2>2, <1>names DEF NoRun
  <2>4. /\ ~Holds(NoRun, "OPENED") /\ Holds(s, "OPENED")
        /\ \A other \in Stages \ {"OPENED"} : Holds(s, other) <=> Holds(NoRun, other)
    BY <2>3 DEF Holds, NoRun, Exists, Stages
  <2>5. Covered(s)
    BY <2>3, <2>4, <1>type, NoRunType, NoRunGood, CoveredStep DEF Good, Stages
  <2> QED BY <1>1, <2>3, <2>5, <1>names DEF Good
<1>2. CASE q.op = "agentic"
  <2>1. s = [r EXCEPT !.agentic = q.value, !.checkpoints = Append(@, "AGENTIC_COMPLETED")]
    BY <1>2 DEF Updated, RecordAgentic, Checkpointed, Records
  <2>2. r.agentic = Nothing /\ q.value \in Result
    BY <1>2 DEF Accepts, Request
  <2>3. /\ s.checkpoints = Append(r.checkpoints, "AGENTIC_COMPLETED")
        /\ s.agentic # Nothing /\ s.correlation = r.correlation /\ s.mind = r.mind
        /\ s.ack = r.ack /\ s.decision = r.decision
    BY <2>1, <2>2, <1>names DEF Records
  <2>4. /\ ~Holds(r, "AGENTIC_COMPLETED") /\ Holds(s, "AGENTIC_COMPLETED")
        /\ \A other \in Stages \ {"AGENTIC_COMPLETED"} : Holds(s, other) <=> Holds(r, other)
    BY <2>2, <2>3 DEF Holds, Exists, Stages
  <2>5. Covered(s)
    BY <2>3, <2>4, <1>type, CoveredStep DEF Good, Stages
  <2>6. r.decision # "ACCEPTED"
    BY <2>2, <1>names, DocumentAssumption DEF Good
  <2> QED BY <1>2, <2>3, <2>5, <2>6 DEF Good
<1>3. CASE q.op = "mind"
  <2>1. s = [r EXCEPT !.mind = q.value, !.checkpoints = Append(@, "MIND_REVIEW_COMPLETED")]
    BY <1>3 DEF Updated, RecordMind, Checkpointed, Records
  <2>2. r.mind = Nothing /\ q.value \in Review
    BY <1>3 DEF Accepts, Request
  <2>3. /\ s.checkpoints = Append(r.checkpoints, "MIND_REVIEW_COMPLETED")
        /\ s.mind # Nothing /\ s.correlation = r.correlation /\ s.agentic = r.agentic
        /\ s.ack = r.ack /\ s.decision = r.decision
    BY <2>1, <2>2, <1>names DEF Records
  <2>4. /\ ~Holds(r, "MIND_REVIEW_COMPLETED") /\ Holds(s, "MIND_REVIEW_COMPLETED")
        /\ \A other \in Stages \ {"MIND_REVIEW_COMPLETED"} : Holds(s, other) <=> Holds(r, other)
    BY <2>2, <2>3 DEF Holds, Exists, Stages
  <2>5. Covered(s)
    BY <2>3, <2>4, <1>type, CoveredStep DEF Good, Stages
  <2> QED BY <1>3, <2>3, <2>5 DEF Good
<1>4. CASE q.op = "ack"
  BY <1>4 DEF Updated, Accepts
<1>5. CASE q.op = "decide"
  <2>1. s = [r EXCEPT !.decision = q.value, !.checkpoints = Append(@, q.value)]
    BY <1>5 DEF Updated, Decide, Checkpointed, Records
  <2>2. r.decision = Nothing /\ q.value \in Decision /\ r.ack # Nothing
    BY <1>5 DEF Accepts, Request
  <2>3. /\ s.checkpoints = Append(r.checkpoints, q.value)
        /\ s.decision = q.value /\ s.correlation = r.correlation /\ s.agentic = r.agentic
        /\ s.ack = r.ack /\ s.mind = r.mind
    BY <2>1, <2>2 DEF Records
  <2>4. /\ ~Holds(r, q.value) /\ Holds(s, q.value)
        /\ \A other \in Stages \ {q.value} : Holds(s, other) <=> Holds(r, other)
    BY <2>2, <2>3, <1>names DEF Holds, Exists, Stages
  <2>5. Covered(s)
    BY <2>2, <2>3, <2>4, <1>type, CoveredStep DEF Good, Stages
  <2>6. q.value = "ACCEPTED" => r.agentic \in Passing
    BY <1>5 DEF Accepts, Passed
  <2> QED BY <1>5, <2>2, <2>3, <2>5, <2>6 DEF Good
<1> QED BY <1>1, <1>2, <1>3, <1>4, <1>5 DEF Request

\* The acknowledgement is added to the run that was read first, whatever the
\* envelope was derived from.
LEMMA AcknowledgeGood ==
  ASSUME NEW r \in Records, NEW current \in Records, Good(r), r.ack = Nothing
  PROVE  Good(Acknowledge(r, current))
<1> DEFINE stage == "SOVEREIGN_CHECKPOINT_ACKNOWLEDGED"
           s == Acknowledge(r, current)
<1>1. s \in Records
  BY AcknowledgeType
<1>2. Envelope(current) \in Envelopes
  BY DEF Envelope, Envelopes, Records
<1>3. /\ s.checkpoints = Append(r.checkpoints, stage)
      /\ s.ack = Envelope(current) /\ s.correlation = r.correlation
      /\ s.agentic = r.agentic /\ s.mind = r.mind /\ s.decision = r.decision
  BY DEF Acknowledge, Checkpointed, Records
<1>4. s.ack # Nothing
  BY <1>2, <1>3, DocumentAssumption
<1>5. /\ ~Holds(r, stage) /\ Holds(s, stage)
      /\ \A other \in Stages \ {stage} : Holds(s, other) <=> Holds(r, other)
  BY <1>3, <1>4, DocumentAssumption DEF Holds, Exists, Stages
<1>6. Covered(s)
  BY <1>1, <1>3, <1>5, CoveredStep DEF Good, Stages
<1> QED BY <1>3, <1>4, <1>6 DEF Good

LEMMA GoodStep ==
  ASSUME TypeOK, TypeOK', GoodInv, [Next]_vars
  PROVE  GoodInv'
<1>nothing. Nothing \notin Documents
  BY DocumentAssumption
<1>1. ASSUME NEW t \in Thread, NEW q \in Request, Get(t, q) PROVE GoodInv'
  <2>1. doc.runs[q.run] \in Records /\ Good(doc.runs[q.run])
    BY DEF TypeOK, Documents, GoodInv, Request
  <2>2. /\ Good(Updated(q, doc.runs[q.run]))
        /\ q.op = "ack" => Updated(q, doc.runs[q.run]).ack = Nothing
    BY <1>1, <2>1, UpdatedGood DEF Get
  <2>3. /\ UNCHANGED <<doc, loop, copy>>
        /\ at' = [at EXCEPT ![t] = IF q.op = "ack" THEN "check" ELSE "load"]
        /\ rec' = [rec EXCEPT ![t] = Updated(q, doc.runs[q.run])]
    BY <1>1 DEF Get
  <2> HIDE DEF Request
  <2> QED BY <2>2, <2>3 DEF GoodInv, TypeOK
<1>2. ASSUME NEW t \in Thread, AcknowledgeSovereign(t) PROVE GoodInv'
  <2>1. /\ doc.runs[ask[t].run] \in Records
        /\ rec[t] \in Records /\ Good(rec[t]) /\ rec[t].ack = Nothing
    BY <1>2 DEF TypeOK, Documents, GoodInv, Request, AcknowledgeSovereign
  <2>2. Good(Acknowledge(rec[t], doc.runs[ask[t].run]))
    BY <2>1, AcknowledgeGood
  <2>3. /\ UNCHANGED <<doc, loop, copy>>
        /\ at' = [at EXCEPT ![t] = "load"]
        /\ rec' = [rec EXCEPT ![t] = Acknowledge(rec[t], doc.runs[ask[t].run])]
    BY <1>2 DEF AcknowledgeSovereign
  <2> QED BY <2>2, <2>3 DEF GoodInv, TypeOK
<1>3. ASSUME NEW t \in Thread, LoadDocument(t) PROVE GoodInv'
  <2>1. /\ UNCHANGED <<doc, loop, rec>> /\ at[t] = "load"
        /\ at' = [at EXCEPT ![t] = "save"]
        /\ copy' = [copy EXCEPT ![t] = [doc EXCEPT !.runs[ask[t].run] = rec[t]]]
    BY <1>3 DEF LoadDocument
  <2>2. \A r \in Run : Good(copy'[t].runs[r])
    BY <2>1 DEF GoodInv, TypeOK, Documents
  <2> QED BY <2>1, <2>2 DEF GoodInv, TypeOK
<1>4. ASSUME NEW t \in Thread, SaveDocument(t) PROVE GoodInv'
  BY <1>4, NoRunGood DEF SaveDocument, Return, GoodInv, TypeOK
<1>5. ASSUME NEW t \in Thread, Abandon(t) PROVE GoodInv'
  BY <1>5, NoRunGood DEF Abandon, Return, GoodInv, TypeOK
<1>6. ASSUME NEW k \in Key, NEW from, NEW to, Transition(k, from, to) PROVE GoodInv'
  <2>1. loop'.runs = doc.runs
    BY <1>6 DEF Transition, TypeOK, Documents
  <2> QED BY <1>6, <2>1 DEF Transition, GoodInv, threads
<1>7. CASE LoadOther
  BY <1>7 DEF LoadOther, GoodInv, threads
<1>8. CASE Persist
  BY <1>8 DEF Persist, GoodInv, threads
<1>9. CASE Restart
  <2>1. doc'.runs = doc.runs
    BY <1>9 DEF Restart, TypeOK, Documents
  <2> QED BY <1>9, <2>1, NoRunGood DEF Restart, GoodInv
<1>10. CASE UNCHANGED vars
  BY <1>10 DEF vars, threads, GoodInv
<1>11. ASSUME NEW t \in Thread, ThreadStep(t) PROVE GoodInv'
  BY <1>1, <1>2, <1>3, <1>4, <1>5, <1>11 DEF ThreadStep
<1>12. ASSUME NEW k \in Key, Dispatch(k) \/ Execute(k) \/ Complete(k) \/ FailTask(k)
       PROVE  GoodInv'
  BY <1>6, <1>12 DEF Dispatch, Execute, Complete, FailTask
<1>13. CASE LoopStep
  BY <1>7, <1>8, <1>12, <1>13 DEF LoopStep
<1> QED
  BY <1>9, <1>10, <1>11, <1>13 DEF Next

LEMMA GoodAlways == Spec => []GoodInv
<1>1. Init => GoodInv
  BY NoRunGood DEF Init, GoodInv
<1> QED BY <1>1, GoodStep, TypeCorrect, PTL DEF Spec

\* The checkpoint chain of a saved run is the chain of that run, under every
\* interleaving of the threads and the event loop (four_system_l4.py _checkpoint
\* and _save).
THEOREM ChainCoversRunHolds == Spec => []ChainCoversRun
<1>1. GoodInv => ChainCoversRun
  BY DEF GoodInv, Good, ChainCoversRun
<1> QED BY <1>1, GoodAlways, PTL

\* No run is saved as accepted without an acknowledgement and a passed result,
\* under every interleaving (four_system_l4.py decide).
THEOREM AcceptedPassedHolds == Spec => []AcceptedPassed
<1>1. GoodInv => AcceptedPassed
  BY DEF GoodInv, Good, AcceptedPassed
<1> QED BY <1>1, GoodAlways, PTL

-----------------------------------------------------------------------------
(***************************************************************************)
(* A run in course has reached one of its stages and all those before it.  *)
(***************************************************************************)
LEMMA CourseStages ==
  ASSUME NEW r
  PROVE  /\ Len(Course(r)) = 5
         /\ Course(r)[1] = "OPENED" /\ Course(r)[2] = "AGENTIC_COMPLETED"
         /\ Course(r)[3] = "MIND_REVIEW_COMPLETED"
         /\ Course(r)[4] = "SOVEREIGN_CHECKPOINT_ACKNOWLEDGED"
         /\ Course(r)[5] = r.decision
         /\ SubSeq(Course(r), 1, 3) = <<"OPENED", "AGENTIC_COMPLETED", "MIND_REVIEW_COMPLETED">>
<1>1. /\ Len(Course(r)) = 5
      /\ Course(r)[1] = "OPENED" /\ Course(r)[2] = "AGENTIC_COMPLETED"
      /\ Course(r)[3] = "MIND_REVIEW_COMPLETED"
      /\ Course(r)[4] = "SOVEREIGN_CHECKPOINT_ACKNOWLEDGED"
      /\ Course(r)[5] = r.decision
  BY DEF Course
<1>2. SubSeq(Course(r), 1, 3) = <<"OPENED", "AGENTIC_COMPLETED", "MIND_REVIEW_COMPLETED">>
  <2> DEFINE start == SubSeq(Course(r), 1, 3)
             Early == {"OPENED", "AGENTIC_COMPLETED", "MIND_REVIEW_COMPLETED"}
             three == <<"OPENED", "AGENTIC_COMPLETED", "MIND_REVIEW_COMPLETED">>
  <2>1. \A i \in 1 .. 3 : Course(r)[i] \in Early
    <3>1. \A i \in 1 .. 3 : i = 1 \/ i = 2 \/ i = 3
      OBVIOUS
    <3> QED BY <1>1, <3>1
  <2>2. start \in Seq(Early) /\ Len(start) = 3 /\ \A i \in 1 .. 3 : start[i] = Course(r)[i]
    BY <2>1, SubSeqProperties
  <2>3. /\ three \in Seq(Early) /\ Len(three) = 3
        /\ three[1] = "OPENED" /\ three[2] = "AGENTIC_COMPLETED"
        /\ three[3] = "MIND_REVIEW_COMPLETED"
    OBVIOUS
  <2> HIDE DEF start, three
  <2>4. \A i \in 1 .. 3 : start[i] = three[i]
    BY <1>1, <2>2, <2>3
  <2>5. start = three
    BY <2>2, <2>3, <2>4, SeqEqual
  <2> QED BY <2>5 DEF start, three
<1> QED BY <1>1, <1>2

LEMMA Reached ==
  ASSUME NEW r \in Records, Covered(r), InCourse(r)
  PROVE  /\ Len(r.checkpoints) \in 0 .. 5
         /\ \A i \in 1 .. Len(r.checkpoints) : r.checkpoints[i] = Course(r)[i]
         /\ Exists(r) <=> Len(r.checkpoints) >= 1
         /\ r.agentic # Nothing <=> Len(r.checkpoints) >= 2
         /\ r.mind # Nothing <=> Len(r.checkpoints) >= 3
         /\ r.ack # Nothing <=> Len(r.checkpoints) >= 4
         /\ r.decision # Nothing <=> Len(r.checkpoints) >= 5
<1> DEFINE s == r.checkpoints
           n == Len(s)
<1>1. s \in Seq(Stages) /\ r.decision \in Decision \cup {Nothing}
  BY DEF Records, Optional
<1>2. /\ n \in 0 .. 5
      /\ \A i \in 1 .. n : s[i] = Course(r)[i] /\ s[i] \in Stages
  <2>1. n \in Nat /\ \A i \in 1 .. n : s[i] \in Stages
    BY <1>1
  <2>2. n <= 5 /\ \A i \in 1 .. n : s[i] = Course(r)[i]
    BY CourseStages DEF InCourse, IsPrefixOf
  <2> HIDE DEF s, n
  <2> QED BY <2>1, <2>2
<1>3. /\ \A i, j \in 1 .. n : s[i] = s[j] => i = j
      /\ \A stage \in Stages : (\E i \in 1 .. n : s[i] = stage) <=> Holds(r, stage)
  BY DEF Covered
<1>4. /\ n >= 1 => s[1] = "OPENED"
      /\ n >= 2 => s[2] = "AGENTIC_COMPLETED"
      /\ n >= 3 => s[3] = "MIND_REVIEW_COMPLETED"
      /\ n >= 4 => s[4] = "SOVEREIGN_CHECKPOINT_ACKNOWLEDGED"
      /\ n >= 5 => s[5] = r.decision
  BY <1>2, CourseStages
<1>5. n >= 5 => r.decision \in Decision
  <2> SUFFICES ASSUME n >= 5 PROVE s[5] \in Decision
    BY <1>4
  <2>1. /\ s[5] \in Stages
        /\ s[5] # s[1] /\ s[5] # s[2] /\ s[5] # s[3] /\ s[5] # s[4]
    BY <1>2, <1>3
  <2> QED BY <1>4, <2>1 DEF Stages
<1>6. \A stage \in Stages : Holds(r, stage) <=>
        \/ n >= 1 /\ stage = "OPENED"
        \/ n >= 2 /\ stage = "AGENTIC_COMPLETED"
        \/ n >= 3 /\ stage = "MIND_REVIEW_COMPLETED"
        \/ n >= 4 /\ stage = "SOVEREIGN_CHECKPOINT_ACKNOWLEDGED"
        \/ n >= 5 /\ stage = r.decision
  <2> SUFFICES ASSUME NEW stage \in Stages
               PROVE  (\E i \in 1 .. n : s[i] = stage) <=>
                        \/ n >= 1 /\ stage = s[1]
                        \/ n >= 2 /\ stage = s[2]
                        \/ n >= 3 /\ stage = s[3]
                        \/ n >= 4 /\ stage = s[4]
                        \/ n >= 5 /\ stage = s[5]
    BY <1>3, <1>4
  <2> QED BY <1>2
<1>7. /\ Nothing \notin Decision
      /\ Decision \subseteq {"ACCEPTED", "REWORK_REQUIRED", "REJECTED"}
  BY DocumentAssumption
<1>8. /\ Exists(r) <=> n >= 1
      /\ r.agentic # Nothing <=> n >= 2
      /\ r.mind # Nothing <=> n >= 3
      /\ r.ack # Nothing <=> n >= 4
  BY <1>5, <1>6, <1>7 DEF Holds, Stages
<1>9. r.decision # Nothing <=> n >= 5
  BY <1>1, <1>5, <1>6, <1>7 DEF Holds, Stages
<1> QED BY <1>2, <1>8, <1>9

\* s is r with the next stage of its course: in course, and not behind r.
Onward(r, s) == InCourse(s) /\ IsPrefixOf(r.checkpoints, s.checkpoints)

LEMMA NextStage ==
  ASSUME NEW r \in Records, Covered(r), InCourse(r), NEW s \in Records, NEW stage \in Stages,
         s.checkpoints = Append(r.checkpoints, stage),
         Len(r.checkpoints) < 5, Course(s)[Len(r.checkpoints) + 1] = stage,
         s.ack # Nothing => s.ack = [agentic |-> s.agentic, mind |-> s.mind,
                                     checkpoints |-> SubSeq(Course(s), 1, 3)]
  PROVE  Onward(r, s)
<1> DEFINE old == r.checkpoints
           new == s.checkpoints
<1>1. old \in Seq(Stages) /\ new \in Seq(Stages)
  BY DEF Records
<1>2. /\ Len(new) = Len(old) + 1 /\ Len(old) \in 0 .. 4
      /\ new[Len(new)] = stage
      /\ \A i \in 1 .. Len(old) : new[i] = old[i]
  <2>1. /\ Len(new) = Len(old) + 1 /\ Len(old) \in Nat
        /\ new[Len(new)] = stage
        /\ \A i \in 1 .. Len(old) : new[i] = old[i]
    BY <1>1
  <2> HIDE DEF old, new
  <2>2. Len(old) < 5
    BY DEF old
  <2>3. \A k \in Nat : k < 5 => k \in 0 .. 4
    OBVIOUS
  <2>4. Len(old) \in 0 .. 4
    BY <2>1, <2>2, <2>3
  <2> QED BY <2>1, <2>4
<1>3. \A i \in 1 .. 4 : Course(s)[i] = Course(r)[i]
  BY CourseStages
<1>4. \A i \in 1 .. Len(old) : old[i] = Course(r)[i]
  BY DEF InCourse, IsPrefixOf
<1>5. \A i \in 1 .. Len(new) : new[i] = Course(s)[i]
  <2> SUFFICES ASSUME NEW i \in 1 .. Len(new) PROVE new[i] = Course(s)[i]
    OBVIOUS
  <2>1. CASE i = Len(new)
    BY <1>2, <2>1
  <2>2. CASE i \in 1 .. Len(old)
    BY <1>2, <1>3, <1>4, <2>2
  <2> QED BY <1>2, <2>1, <2>2
<1>6. Len(new) <= Len(Course(s))
  BY <1>2, CourseStages
<1> QED BY <1>2, <1>5, <1>6 DEF Onward, InCourse, IsPrefixOf

\* An accepted request takes a run in course to its next stage.
LEMMA UpdatedOnward ==
  ASSUME NEW q \in Request, NEW r \in Records, Good(r), InCourse(r), Accepts(q, r), q.op # "ack"
  PROVE  Onward(r, Updated(q, r))
<1> DEFINE s == Updated(q, r)
           n == Len(r.checkpoints)
<1>type. s \in Records
  BY UpdatedType
<1>names. Nothing \notin Correlation \cup Result \cup Review \cup Decision
  BY DocumentAssumption
<1>covered. Covered(r)
  BY DEF Good
<1>reached. /\ n \in 0 .. 5
            /\ Exists(r) <=> n >= 1
            /\ r.agentic # Nothing <=> n >= 2
            /\ r.mind # Nothing <=> n >= 3
            /\ r.ack # Nothing <=> n >= 4
            /\ r.decision # Nothing <=> n >= 5
  BY <1>covered, Reached
<1> DEFINE AckHolds == s.ack # Nothing => s.ack = [agentic |-> s.agentic, mind |-> s.mind,
                                                   checkpoints |-> SubSeq(Course(s), 1, 3)]
<1>next. ASSUME NEW stage \in Stages, s.checkpoints = Append(r.checkpoints, stage),
                n < 5, Course(s)[n + 1] = stage, AckHolds
         PROVE  Onward(r, s)
  <2> HIDE DEF s
  <2> QED BY <1>next, <1>type, <1>covered, NextStage
<1> HIDE DEF n
<1>1. CASE q.op = "open"
  <2>1. n = 0
    BY <1>1, <1>reached DEF Accepts, MayOpen
  <2>2. s = [NoRun EXCEPT !.correlation = q.correlation, !.checkpoints = Append(<<>>, "OPENED")]
    BY <1>1 DEF Updated, OpenRun, Checkpointed, NoRun
  <2>3. s.checkpoints = Append(<<>>, "OPENED") /\ s.ack = Nothing
    BY <2>2 DEF NoRun
  <2>4. r.checkpoints = <<>>
    BY <2>1 DEF n, Records
  <2>5. Course(s)[n + 1] = "OPENED" /\ "OPENED" \in Stages
    BY <2>1, CourseStages DEF Stages
  <2> QED BY <2>1, <2>3, <2>4, <2>5, <1>next
<1>2. CASE q.op = "agentic"
  <2>1. s = [r EXCEPT !.agentic = q.value, !.checkpoints = Append(@, "AGENTIC_COMPLETED")]
    BY <1>2 DEF Updated, RecordAgentic, Checkpointed, Records
  <2>2. n = 1 /\ r.ack = Nothing
    BY <1>2, <1>reached DEF Accepts
  <2>3. s.checkpoints = Append(r.checkpoints, "AGENTIC_COMPLETED") /\ s.ack = Nothing
    BY <2>1, <2>2 DEF Records
  <2>4. Course(s)[n + 1] = "AGENTIC_COMPLETED" /\ "AGENTIC_COMPLETED" \in Stages
    BY <2>2, CourseStages DEF Stages
  <2> QED BY <2>2, <2>3, <2>4, <1>next
<1>3. CASE q.op = "mind"
  <2>1. s = [r EXCEPT !.mind = q.value, !.checkpoints = Append(@, "MIND_REVIEW_COMPLETED")]
    BY <1>3 DEF Updated, RecordMind, Checkpointed, Records
  <2>2. n = 2 /\ r.ack = Nothing
    BY <1>3, <1>reached DEF Accepts
  <2>3. s.checkpoints = Append(r.checkpoints, "MIND_REVIEW_COMPLETED") /\ s.ack = Nothing
    BY <2>1, <2>2 DEF Records
  <2>4. Course(s)[n + 1] = "MIND_REVIEW_COMPLETED" /\ "MIND_REVIEW_COMPLETED" \in Stages
    BY <2>2, CourseStages DEF Stages
  <2> QED BY <2>2, <2>3, <2>4, <1>next
<1>4. CASE q.op = "decide"
  <2>1. s = [r EXCEPT !.decision = q.value, !.checkpoints = Append(@, q.value)]
    BY <1>4 DEF Updated, Decide, Checkpointed, Records
  <2>2. n = 4 /\ q.value \in Decision
    BY <1>4, <1>reached DEF Accepts, Request
  <2>3. /\ s.checkpoints = Append(r.checkpoints, q.value) /\ s.decision = q.value
        /\ s.ack = r.ack /\ s.agentic = r.agentic /\ s.mind = r.mind
    BY <2>1 DEF Records
  <2>4. Course(s)[n + 1] = q.value /\ q.value \in Stages
    BY <2>2, <2>3, CourseStages DEF Stages
  <2>5. AckHolds
    BY <2>3, CourseStages DEF InCourse
  <2> QED BY <2>2, <2>3, <2>4, <2>5, <1>next
<1> QED BY <1>1, <1>2, <1>3, <1>4 DEF Request

\* And so does the acknowledgement of a reviewed run, when the envelope is derived
\* from the run that it is added to.
LEMMA AcknowledgeOnward ==
  ASSUME NEW r \in Records, Good(r), InCourse(r), Reviewed(r), r.ack = Nothing
  PROVE  Onward(r, Acknowledge(r, r))
<1> DEFINE stage == "SOVEREIGN_CHECKPOINT_ACKNOWLEDGED"
           s == Acknowledge(r, r)
           start == SubSeq(Course(s), 1, 3)
<1>1. s \in Records
  BY AcknowledgeType
<1>2. /\ s.checkpoints = Append(r.checkpoints, stage)
      /\ s.ack = [agentic |-> s.agentic, mind |-> s.mind, checkpoints |-> r.checkpoints]
  BY DEF Acknowledge, Checkpointed, Envelope, Records
<1>3. /\ Len(r.checkpoints) = 3 /\ Covered(r)
      /\ \A i \in 1 .. 3 : r.checkpoints[i] = Course(r)[i]
  <2> DEFINE n == Len(r.checkpoints)
  <2>1. /\ Covered(r) /\ n \in 0 .. 5 /\ \A i \in 1 .. n : r.checkpoints[i] = Course(r)[i]
        /\ r.mind # Nothing <=> n >= 3
        /\ r.ack # Nothing <=> n >= 4
    BY Reached DEF Good
  <2> HIDE DEF n
  <2>2. n = 3
    BY <2>1 DEF Reviewed
  <2> QED BY <2>1, <2>2 DEF n
<1>4. r.checkpoints = start
  <2>1. /\ start = <<"OPENED", "AGENTIC_COMPLETED", "MIND_REVIEW_COMPLETED">>
        /\ r.checkpoints \in Seq(Stages)
    BY CourseStages DEF Records
  <2>2. start \in Seq(Stages) /\ Len(start) = 3
        /\ start[1] = "OPENED" /\ start[2] = "AGENTIC_COMPLETED" /\ start[3] = "MIND_REVIEW_COMPLETED"
    <3> HIDE DEF start
    <3>1. {"OPENED", "AGENTIC_COMPLETED", "MIND_REVIEW_COMPLETED"} \subseteq Stages
      BY DEF Stages
    <3> QED BY <2>1, <3>1
  <2> HIDE DEF start
  <2>3. \A i \in 1 .. 3 : i = 1 \/ i = 2 \/ i = 3
    OBVIOUS
  <2>4. \A i \in 1 .. 3 : r.checkpoints[i] = start[i]
    BY <1>3, <2>2, <2>3, CourseStages
  <2> QED BY <1>3, <2>1, <2>2, <2>4, SeqEqual
<1>5. Course(s)[4] = stage /\ stage \in Stages
  BY CourseStages DEF Stages
<1>6. /\ Len(r.checkpoints) < 5 /\ Course(s)[Len(r.checkpoints) + 1] = stage
      /\ s.ack # Nothing => s.ack = [agentic |-> s.agentic, mind |-> s.mind, checkpoints |-> start]
  BY <1>2, <1>3, <1>4, <1>5
<1>7. Onward(r, s)
  <2> HIDE DEF s
  <2> QED BY <1>1, <1>2, <1>3, <1>5, <1>6, NextStage
<1> QED BY <1>7

-----------------------------------------------------------------------------
(***************************************************************************)
(* As long as no two accesses have overlapped, every document and every    *)
(* run in somebody's hands is the one in the row, or the one in the row    *)
(* with one stage more: whoever saves while another holds a copy sets      *)
(* raced.                                                                  *)
(***************************************************************************)
RunAsked(t) == ask[t].run

CourseInv ==
  ~raced =>
    /\ \A r \in Run : InCourse(doc.runs[r])
    /\ loop # Nothing => loop.runs = doc.runs
    /\ \A t \in Thread :
         /\ at[t] = "check" => rec[t] = doc.runs[RunAsked(t)]
         /\ at[t] \in {"load", "save"} => Onward(doc.runs[RunAsked(t)], rec[t])
         /\ at[t] = "save" => copy[t].runs = [doc.runs EXCEPT ![RunAsked(t)] = rec[t]]

\* Nobody holds a copy of anything.
Quiet == loop = Nothing /\ \A t \in Thread : at[t] = "idle"

LEMMA NoRunInCourse == InCourse(NoRun)
  BY CourseStages DEF InCourse, IsPrefixOf, NoRun

LEMMA QuietInCourse ==
  ASSUME Quiet, \A r \in Run : InCourse(doc.runs[r])
  PROVE  CourseInv
  BY DEF Quiet, CourseInv

\* What a step does to the runs of the row: nothing, or a thread saves its copy.
LEMMA RunsOfStep ==
  ASSUME TypeOK, CourseInv, ~raced, ~raced', [Next]_vars
  PROVE  doc'.runs = doc.runs \/ \E t \in Thread : SaveDocument(t)
<1>1. CASE Persist
  BY <1>1 DEF Persist, CourseInv
<1>2. CASE Restart
  BY <1>2 DEF Restart, TypeOK, Documents
<1>3. CASE UNCHANGED doc
  BY <1>3
<1>4. UNCHANGED doc \/ Persist \/ Restart \/ \E t \in Thread : SaveDocument(t)
  BY DEF Next, ThreadStep, LoopStep, Get, AcknowledgeSovereign, LoadDocument, Abandon, Dispatch,
         Execute, Complete, FailTask, Transition, LoadOther, vars
<1> QED BY <1>1, <1>2, <1>3, <1>4

LEMMA OnceRaced ==
  ASSUME TypeOK, [Next]_vars, ~raced'
  PROVE  ~raced
  BY DEF Next, ThreadStep, LoopStep, Get, AcknowledgeSovereign, LoadDocument,
         SaveDocument, Abandon, Dispatch, Execute, Complete, FailTask, Transition, LoadOther,
         Persist, Restart, vars

\* A save that overlaps with nothing: the row gets the run with its next stage.
LEMMA SavedOnward ==
  ASSUME TypeOK, CourseInv, NEW t \in Thread, SaveDocument(t), ~raced'
  PROVE  /\ RunAsked(t) \in Run /\ Quiet'
         /\ doc'.runs = [doc.runs EXCEPT ![RunAsked(t)] = rec[t]]
         /\ Onward(doc.runs[RunAsked(t)], rec[t])
<1>1. ~raced /\ loop = Nothing /\ \A u \in Thread \ {t} : at[u] = "idle"
  BY DEF SaveDocument, Busy
<1>2. RunAsked(t) \in Run
  BY DEF SaveDocument, TypeOK, Request, RunAsked
<1>3. Quiet'
  BY <1>1 DEF SaveDocument, Return, TypeOK, Quiet
<1> QED BY <1>1, <1>2, <1>3 DEF SaveDocument, CourseInv

\* A step of t that leaves the row, the loop and the other threads alone.
LEMMA ThreadInCourse ==
  ASSUME CourseInv, ~raced, NEW t \in Thread, UNCHANGED <<doc, loop>>,
         \A u \in Thread \ {t} : /\ at'[u] = at[u] /\ ask'[u] = ask[u]
                                 /\ rec'[u] = rec[u] /\ copy'[u] = copy[u],
         at'[t] = "check" => rec'[t] = doc.runs[ask'[t].run],
         at'[t] \in {"load", "save"} => Onward(doc.runs[ask'[t].run], rec'[t]),
         at'[t] = "save" => copy'[t].runs = [doc.runs EXCEPT ![ask'[t].run] = rec'[t]]
  PROVE  CourseInv'
  BY DEF CourseInv, RunAsked

LEMMA CourseStep ==
  ASSUME TypeOK, TypeOK', GoodInv, CourseInv, [Next]_vars
  PROVE  CourseInv'
<1> SUFFICES ASSUME ~raced' PROVE CourseInv'
  BY DEF CourseInv
<1>raced. ~raced
  BY OnceRaced
<1>runs. \A r \in Run : doc.runs[r] \in Records /\ Good(doc.runs[r]) /\ InCourse(doc.runs[r])
  BY <1>raced DEF TypeOK, Documents, GoodInv, CourseInv
<1>1. ASSUME NEW t \in Thread, NEW q \in Request, Get(t, q) PROVE CourseInv'
  <2>1. /\ UNCHANGED <<doc, loop, copy>> /\ Accepts(q, doc.runs[q.run])
        /\ at' = [at EXCEPT ![t] = IF q.op = "ack" THEN "check" ELSE "load"]
        /\ ask' = [ask EXCEPT ![t] = q]
        /\ rec' = [rec EXCEPT ![t] = Updated(q, doc.runs[q.run])]
    BY <1>1 DEF Get
  <2>2. q.run \in Run
    BY DEF Request
  <2>3. q.op # "ack" => Onward(doc.runs[q.run], Updated(q, doc.runs[q.run]))
    BY <2>1, <2>2, <1>runs, UpdatedOnward
  <2>4. q.op = "ack" => Updated(q, doc.runs[q.run]) = doc.runs[q.run]
    BY DEF Updated
  <2>5. /\ ask'[t] = q /\ rec'[t] = Updated(q, doc.runs[q.run])
        /\ at'[t] = IF q.op = "ack" THEN "check" ELSE "load"
        /\ \A u \in Thread \ {t} : /\ at'[u] = at[u] /\ ask'[u] = ask[u]
                                   /\ rec'[u] = rec[u] /\ copy'[u] = copy[u]
    BY <2>1 DEF TypeOK
  <2>6. /\ at'[t] = "check" => rec'[t] = doc.runs[ask'[t].run]
        /\ at'[t] \in {"load", "save"} => Onward(doc.runs[ask'[t].run], rec'[t])
        /\ at'[t] # "save"
    BY <2>3, <2>4, <2>5
  <2>7. UNCHANGED <<doc, loop>>
    BY <2>1
  <2> HIDE DEF Request
  <2> QED BY <1>raced, <2>5, <2>6, <2>7, ThreadInCourse
<1>2. ASSUME NEW t \in Thread, AcknowledgeSovereign(t) PROVE CourseInv'
  <2> DEFINE r == doc.runs[RunAsked(t)]
  <2>1. /\ UNCHANGED <<doc, loop, copy, ask>> /\ at[t] = "check" /\ Reviewed(r)
        /\ at' = [at EXCEPT ![t] = "load"]
        /\ rec' = [rec EXCEPT ![t] = Acknowledge(rec[t], r)]
    BY <1>2 DEF AcknowledgeSovereign, RunAsked
  <2>2. RunAsked(t) \in Run
    BY <2>1 DEF TypeOK, Request, RunAsked
  <2>3. rec[t] = r /\ r.ack = Nothing
    BY <1>raced, <2>1 DEF CourseInv, GoodInv
  <2>4. Onward(r, Acknowledge(r, r))
    BY <1>runs, <2>1, <2>2, <2>3, AcknowledgeOnward
  <2>5. /\ ask'[t] = ask[t] /\ rec'[t] = Acknowledge(r, r) /\ at'[t] = "load"
        /\ \A u \in Thread \ {t} : /\ at'[u] = at[u] /\ ask'[u] = ask[u]
                                   /\ rec'[u] = rec[u] /\ copy'[u] = copy[u]
    BY <2>1, <2>3 DEF TypeOK
  <2> QED BY <1>raced, <2>1, <2>4, <2>5, ThreadInCourse DEF RunAsked
<1>3. ASSUME NEW t \in Thread, LoadDocument(t) PROVE CourseInv'
  <2>1. /\ UNCHANGED <<doc, loop, ask, rec>> /\ at[t] = "load"
        /\ at' = [at EXCEPT ![t] = "save"]
        /\ copy' = [copy EXCEPT ![t] = [doc EXCEPT !.runs[ask[t].run] = rec[t]]]
    BY <1>3 DEF LoadDocument
  <2>2. copy'[t].runs = [doc.runs EXCEPT ![ask'[t].run] = rec'[t]]
    BY <2>1 DEF TypeOK, Documents
  <2>3. Onward(doc.runs[ask'[t].run], rec'[t])
    BY <1>raced, <2>1 DEF CourseInv, RunAsked
  <2>4. /\ at'[t] = "save"
        /\ \A u \in Thread \ {t} : /\ at'[u] = at[u] /\ ask'[u] = ask[u]
                                   /\ rec'[u] = rec[u] /\ copy'[u] = copy[u]
    BY <2>1 DEF TypeOK
  <2> QED BY <1>raced, <2>1, <2>2, <2>3, <2>4, ThreadInCourse
<1>4. ASSUME NEW t \in Thread, SaveDocument(t) PROVE CourseInv'
  <2>1. /\ RunAsked(t) \in Run /\ Quiet'
        /\ doc'.runs = [doc.runs EXCEPT ![RunAsked(t)] = rec[t]]
        /\ Onward(doc.runs[RunAsked(t)], rec[t])
    BY <1>4, SavedOnward
  <2>2. \A r \in Run : InCourse(doc'.runs[r])
    BY <1>runs, <2>1 DEF Onward, TypeOK, Documents
  <2> QED BY <2>1, <2>2 DEF Quiet, CourseInv
<1>5. ASSUME NEW t \in Thread, Abandon(t) PROVE CourseInv'
  <2>1. /\ UNCHANGED <<doc, loop>> /\ at'[t] = "idle"
        /\ \A u \in Thread \ {t} : /\ at'[u] = at[u] /\ ask'[u] = ask[u]
                                   /\ rec'[u] = rec[u] /\ copy'[u] = copy[u]
    BY <1>5 DEF Abandon, Return, TypeOK
  <2> QED BY <1>raced, <2>1, ThreadInCourse
<1>6. ASSUME UNCHANGED <<doc, threads>>, loop'.runs = doc.runs PROVE CourseInv'
  BY <1>6, <1>raced DEF CourseInv, RunAsked, threads
<1>7. ASSUME NEW k \in Key, NEW from, NEW to, Transition(k, from, to) PROVE CourseInv'
  <2>1. loop'.runs = doc.runs
    BY <1>7 DEF Transition, TypeOK, Documents
  <2> QED BY <1>6, <1>7, <2>1 DEF Transition
<1>8. CASE LoadOther
  BY <1>6, <1>8 DEF LoadOther
<1>9. CASE Persist
  <2>1. doc'.runs = doc.runs /\ Quiet'
    BY <1>9, <1>raced DEF Persist, Busy, CourseInv, Quiet, threads
  <2> QED BY <1>runs, <2>1 DEF Quiet, CourseInv
<1>10. CASE Restart
  <2>1. doc'.runs = doc.runs /\ Quiet'
    BY <1>10 DEF Restart, TypeOK, Documents, Quiet
  <2> QED BY <1>runs, <2>1 DEF Quiet, CourseInv
<1>11. CASE UNCHANGED vars
  BY <1>11 DEF vars, threads, CourseInv, RunAsked
<1>12. ASSUME NEW t \in Thread, ThreadStep(t) PROVE CourseInv'
  BY <1>1, <1>2, <1>3, <1>4, <1>5, <1>12 DEF ThreadStep
<1>13. CASE LoopStep
  BY <1>7, <1>8, <1>9, <1>13 DEF LoopStep, Dispatch, Execute, Complete, FailTask
<1> QED
  BY <1>10, <1>11, <1>12, <1>13 DEF Next

LEMMA CourseAlways == Spec => []CourseInv
<1>1. Init => CourseInv
  BY NoRunInCourse DEF Init, CourseInv
<1> QED BY <1>1, CourseStep, GoodAlways, TypeCorrect, PTL DEF Spec

\* As long as no two accesses have overlapped, every run goes through its stages in
\* order and its acknowledgement names what it holds (four_system_l4.py).
THEOREM RunsInCourseHolds == Spec => []RunsInCourse
<1>1. CourseInv => RunsInCourse
  BY DEF CourseInv, RunsInCourse
<1> QED BY <1>1, CourseAlways, PTL

\* And no step takes a saved run back to an earlier stage (persistence.py save).
THEOREM NothingRolledBackHolds == Spec => NothingRolledBack
<1>1. ASSUME TypeOK, CourseInv, [Next]_vars
      PROVE  [~raced' => \A r \in Run :
                IsPrefixOf(doc.runs[r].checkpoints, doc'.runs[r].checkpoints)]_vars
  <2> SUFFICES ASSUME ~raced', NEW r \in Run
               PROVE  IsPrefixOf(doc.runs[r].checkpoints, doc'.runs[r].checkpoints)
    OBVIOUS
  <2>1. IsPrefixOf(doc.runs[r].checkpoints, doc.runs[r].checkpoints)
    <3>1. doc.runs[r].checkpoints \in Seq(Stages)
      BY <1>1 DEF TypeOK, Documents, Records
    <3> QED BY <3>1 DEF IsPrefixOf
  <2>2. ASSUME NEW t \in Thread, SaveDocument(t)
        PROVE  IsPrefixOf(doc.runs[r].checkpoints, doc'.runs[r].checkpoints)
    BY <1>1, <2>1, <2>2, SavedOnward DEF Onward, TypeOK, Documents
  <2> QED BY <1>1, <2>1, <2>2, RunsOfStep, OnceRaced
<1> QED
  <2>1. Spec => [](TypeOK /\ CourseInv)
    BY CourseAlways, TypeCorrect, PTL
  <2> QED BY <2>1, <1>1, PTL DEF Spec, NothingRolledBack
=============================================================================
