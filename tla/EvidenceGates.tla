----------------------------- MODULE EvidenceGates -----------------------------
(***************************************************************************)
(* From what an executor says it did to a task that may be reviewed: the   *)
(* run is verified on evidence for its head, what was learned is closed    *)
(* out, and a person may then move the parent task, which for a write      *)
(* takes five receipts for one head.                                       *)
(***************************************************************************)
EXTENDS StateSections

CONSTANTS
  GateRuns,        \* runs as their executors end: ids, after_head, tests, changed files, ...
  GateResults,     \* results handed in by the relay: after_head, tests, changed files
  GateParents,     \* the parent task at one time: ids, remote head, scope, status
  Verifications,   \* verification requests: head, ci, uat, learning receipt
  Semantics,       \* receipts that the objective was met
  Reviews,         \* receipts of an independent review
  GateHead,
  MaxVerify

EvidenceKinds == {"TESTS", "CI", "UAT", "READBACK"}

\* queued is taken for running; drifted is what a restored record may still have.
RunStatus == {"pending", "running", "pending_verification", "verified", "drifted", "failed",
              "timed_out", "cancelled"}

\* What an executor leaves is not verified yet; what a run requires is named when it
\* starts; a changed file has a name and may be dotted.
AreFiles(files) == \A f \in files : f = [name |-> f.name, dotted |-> f.dotted] /\ f.dotted \in BOOLEAN

ASSUME RunsAreUnverified ==
  \A r \in GateRuns :
    /\ DOMAIN r = {"status", "project", "repository", "task", "after", "required", "tests",
                   "changed", "explicit", "authorized", "decision", "learning",
                   "relayable", "package", "thread", "imported"}
    /\ r.status # "verified"
    /\ AreFiles(r.changed)

ASSUME RunsRequireEvidence ==
  \A r \in GateRuns :
    /\ r.status \in RunStatus
    /\ r.required \subseteq EvidenceKinds /\ r.required # {}
    /\ r.after \in Optional(GateHead)

ASSUME ResultsNameFiles ==
  \A r \in GateResults : r.after \in GateHead /\ AreFiles(r.changed)

TerminalParent == {"INTEGRATED", "CANCELLED", "SUPERSEDED"}

NoRun == [status |-> "none"]

Run == memory.run

Identity3(x) == <<x.project, x.repository, x.task>>

-----------------------------------------------------------------------------
(***************************************************************************)
(* Evidence and acceptance.                                                *)
(***************************************************************************)
Evidence(kind, passed, head) == [kind |-> kind, passed |-> passed, head |-> head]

\* evaluate_acceptance: only evidence for the head counts, and only of what is required.
AnyHead(evidence, head) == evidence   \* mutant: evidence for another head counts
EvidenceFor(evidence, head) == {e \in evidence : e.head = head}

Acceptance(head, required, evidence) ==
  LET relevant == EvidenceFor(evidence, head)
      missing == {k \in required : ~\E e \in relevant : e.kind = k}
      failed == {k \in required : \E e \in relevant : e.kind = k /\ ~e.passed}
      satisfied == {k \in required : \E e \in relevant : e.kind = k /\ e.passed}
  IN [head |-> head, required |-> required, satisfied |-> satisfied, missing |-> missing,
      failed |-> failed, accepted |-> missing = {} /\ failed = {} /\ satisfied = required]

\* That tests are named is taken for their passing; the head is read back if that is
\* required.
Collected(run, q) ==
  {Evidence("TESTS", TRUE, q.head) : x \in {x \in {1} : run.tests}}
    \cup {Evidence("CI", q.ci, q.head)}
    \cup {q.uat : x \in {x \in {1} : q.uat # Nothing}}
    \cup {Evidence("READBACK", TRUE, q.head) : x \in {x \in {1} : "READBACK" \in run.required}}

\* The receipts that can be built: what is learned is a delta for the same task and
\* head, or a reason why nothing is.
ValidCloseout(r) ==
  IF r.delta # Nothing THEN r.delta = [task |-> r.task, head |-> r.head] ELSE r.rationale

CloseoutAlways(receipt, run, head) == TRUE   \* mutant: a write is verified without learning
ClosedOut(receipt, run, head) ==
  /\ receipt # Nothing /\ ValidCloseout(receipt)
  /\ receipt.task = <<run.project, run.task>> /\ receipt.head = head

-----------------------------------------------------------------------------
(***************************************************************************)
(* The run.                                                                *)
(***************************************************************************)
ExecutorEnds(run) ==
  /\ Run = NoRun
  /\ Keep("run", run)

\* verify_task.  A rejected decision is saved and the call refused; one that is accepted
\* without the closeout it needs is refused too and stays in memory only.
VerifyRun(q) ==
  LET decision == Acceptance(q.head, Run.required, Collected(Run, q))
      decided == [Run EXCEPT !.decision = decision]
      needs == Run.changed # {} \/ q.learning # Nothing
  IN /\ Run # NoRun /\ Run.status = "pending_verification"
     /\ Run.after = q.head
     /\ "READBACK" \in Run.required => q.readback   \* else the verifier raises
     /\ outside.verified < MaxVerify
     /\ outside' = [outside EXCEPT !.verified = @ + 1, !.shown = @ \cup Collected(Run, q)]
     /\ CASE ~decision.accepted ->
               /\ memory' = [memory EXCEPT !.run = decided]
               /\ state' = [state EXCEPT !.run = decided]
          [] decision.accepted /\ needs /\ ~ClosedOut(q.learning, Run, q.head) ->
               /\ memory' = [memory EXCEPT !.run = decided]
               /\ UNCHANGED state
          [] OTHER ->
               LET verified == [decided EXCEPT !.status = "verified",
                                               !.learning = IF needs THEN q.learning ELSE @]
               IN /\ memory' = [memory EXCEPT !.run = verified]
                  /\ state' = [state EXCEPT !.run = verified]

\* A call that goes on with the run, whatever its status is unless it says so, and saves
\* it: a run is handed on by dispatch, by a person and by the relay.  What was decided and learned of an earlier result stays on record.
Moved(run) == Run # NoRun /\ Keep("run", run)

\* fail_task: a worker whose execution raises, or is not done in time.
FailRun(status) == Moved([Run EXCEPT !.status = status])

\* dispatch, dispatch_existing: a run that left no result is queued again, whatever became
\* of it; that it is queued is taken for running.
QueueRun ==
  /\ Run # NoRun /\ Run.after = Nothing /\ Run.status # "running"
  /\ Moved([Run EXCEPT !.status = "running"])

\* record_external_execution_result, or what the execution of a queued run returns.
ReturnResult(result) ==
  /\ Run # NoRun /\ Run.after = Nothing /\ Run.status \notin {"cancelled", "verified"}
  /\ Run.explicit => Run.authorized
  /\ Moved([Run EXCEPT !.status = "pending_verification", !.after = result.after,
                       !.tests = result.tests, !.changed = result.changed])

\* continue_task, and the queue if it is not full; FailureLearning has its guard.
ContinueRun(status) ==
  /\ Run.status = "failed"
  /\ Moved([Run EXCEPT !.status = status])

CancelRun ==
  /\ Run.status # "verified"
  /\ Moved([Run EXCEPT !.status = "cancelled"])

AuthorizeRun ==
  /\ Run # NoRun /\ Run.explicit
  /\ Moved([Run EXCEPT !.authorized = TRUE])

\* generate_manual_package; a second call returns the package.
PackageRun ==
  /\ Run # NoRun /\ Run.relayable /\ ~Run.package
  /\ Run.explicit => Run.authorized
  /\ Moved([Run EXCEPT !.status = "pending", !.package = TRUE])

\* mark_manual_dispatched; or record_manual_ack with another thread, which has no result yet.
RelayRun(thread) ==
  /\ Run # NoRun /\ Run.package
  /\ Moved([Run EXCEPT !.status = "running", !.thread = @ \/ thread, !.imported = @ /\ ~thread])

\* import_manual_result, of a verified run too; only the same result again is nothing.
ImportResult(result) ==
  /\ Run # NoRun /\ Run.package /\ Run.thread
  /\ ~(Run.imported /\ Run.after = result.after)
  /\ Moved([Run EXCEPT !.status = "pending_verification", !.after = result.after,
                       !.tests = result.tests, !.changed = result.changed, !.imported = TRUE])

\* The tasks are saved together: a change of another one, or of what is not here, saves
\* what is in memory of this.
OtherTaskSaves ==
  /\ state' = [state EXCEPT !.run = memory.run]
  /\ UNCHANGED <<memory, outside>>

\* _restore, recover_interrupted_tasks
RestoreRun ==
  IF state.run # NoRun /\ state.run.status = "running"
  THEN Keep("run", [state.run EXCEPT !.status = "failed"])
  ELSE /\ memory' = [memory EXCEPT !.run = state.run]
       /\ UNCHANGED <<state, outside>>

-----------------------------------------------------------------------------
(***************************************************************************)
(* The parent task.                                                        *)
(***************************************************************************)
\* A file's path loses its leading dots and slashes before it is compared.
Stripped(file) == [file EXCEPT !.dotted = FALSE]

ScopeViolations(parent, run) == {f \in run.changed : Stripped(f) \notin parent.scope}

SubjectHead(parent, run) == IF run.after # Nothing THEN run.after ELSE parent.remote

StaleAlways(receipt, parent, head) == receipt # Nothing /\ Identity3(receipt) = Identity3(parent)
BoundTo(receipt, parent, head) ==
  receipt # Nothing /\ Identity3(receipt) = Identity3(parent) /\ receipt.head = head

\* require_material_code_review: a receipt exists only if coder and reviewer differ.
Reviewed(review, parent, head) == BoundTo(review, parent, head) /\ review.coder # "reviewer"

\* require_five_part_execution_success
FivePartSuccess(parent, run, semantic, review) ==
  LET head == SubjectHead(parent, run) IN
  /\ run.status = "verified" /\ head # Nothing
  /\ BoundTo(semantic, parent, head)
  /\ run.decision # Nothing /\ run.decision.accepted /\ run.decision.head = head
  /\ {"TESTS", "READBACK"} \subseteq run.decision.satisfied
  /\ ScopeViolations(parent, run) = {}
  /\ run.explicit => run.authorized
  /\ Reviewed(review, parent, head)

\* _RUN_STATE_POLICY: what a run may be a reason for.
ExplicitTargets(parent, run) ==
  IF parent.status \in TerminalParent THEN {}
  ELSE CASE run.status = "verified" -> {"READY_FOR_REVIEW"}
         [] run.status = "drifted"  -> {"RECONCILIATION_REQUIRED"}
         [] OTHER                   -> {}

\* evaluate_state_rollup, authorize_explicit_rollup.  That the run is one of the parent
\* is not asked: project and repository are compared.
AuthorizeRollup(parent, target, semantic, review) ==
  /\ Run # NoRun
  /\ parent.project = Run.project /\ parent.repository = Run.repository
  /\ target # "INTEGRATED"
  /\ (target = "READY_FOR_REVIEW" /\ parent.write) => FivePartSuccess(parent, Run, semantic, review)
  /\ target \in ExplicitTargets(parent, Run)
  /\ outside' = [outside EXCEPT !.rollup =
                   [parent |-> parent, run |-> Run, target |-> target,
                    semantic |-> semantic, review |-> review]]
  /\ UNCHANGED <<state, memory>>

-----------------------------------------------------------------------------
GatesTypeOK ==
  \A r \in {state.run, memory.run} \ {NoRun} :
    /\ r.status \in RunStatus
    /\ r.required \subseteq EvidenceKinds /\ r.required # {}
    /\ r.after \in Optional(GateHead)

\* A run is verified when all that is required was shown to have passed for its own head
\* (outside.shown is what was shown so far) and nothing of it failed; if it changed files,
\* with a closeout for just this task and head, whatever was decided, learned or verified of
\* an earlier result.  What is in memory is never less verified than what is saved.
VerifiedOnEvidence ==
  /\ \A r \in {state.run, memory.run} \ {NoRun} :
       r.status = "verified" =>
         /\ r.decision.accepted /\ r.decision.head = r.after
         /\ \A k \in r.required : \E e \in outside.shown :
              e.kind = k /\ e.passed /\ e.head = r.after
         /\ r.decision.failed = {}
         /\ r.changed # {} => /\ r.learning # Nothing
                              /\ r.learning.task = <<r.project, r.task>>
                              /\ r.learning.head = r.after
  /\ (state.run # NoRun /\ state.run.status = "verified") => memory.run = state.run

\* A write task was let to review: its run, the semantic receipt, the review by another
\* than the coder and the acceptance are all of one head, the head is the one the run
\* made, and every file it changed whose name is not dotted is in the scope (a dotted one
\* is compared without its dots).
ReviewIsEarned ==
  outside.rollup # Nothing =>
    LET k == outside.rollup IN
    /\ k.parent.status \notin TerminalParent
    /\ (k.target = "READY_FOR_REVIEW" /\ k.parent.write) =>
         /\ Cardinality({k.run.after, k.semantic.head, k.review.head, k.run.decision.head}) = 1
         /\ Identity3(k.semantic) = Identity3(k.parent) /\ Identity3(k.review) = Identity3(k.parent)
         /\ k.review.coder # "reviewer"
         /\ \A f \in k.run.changed : ~f.dotted => f \in k.parent.scope
=============================================================================
