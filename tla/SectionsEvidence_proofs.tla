------------------------ MODULE SectionsEvidence_proofs ------------------------
(***************************************************************************)
(* What the sections grant was earned.  A grant is looked at in the state  *)
(* it was made in; what it rests on is a history, which only grows, or was *)
(* copied with the grant.  The types of the sections rest on the same      *)
(* invariant and are at the end.                                           *)
(***************************************************************************)
EXTENDS Sections_proofs

-----------------------------------------------------------------------------
(***************************************************************************)
(* What was given out under a registry stays where it was found.           *)
(***************************************************************************)
LEMMA ExtendsKeeps ==
  ASSUME NEW s, NEW t, IsSeq(s), t = s \/ \E e : t = Append(s, e)
  PROVE  \A i \in DOMAIN s : i \in DOMAIN t /\ t[i] = s[i]
<1>1. ASSUME NEW e PROVE \A i \in DOMAIN s : i \in DOMAIN Append(s, e) /\ Append(s, e)[i] = s[i]
  <2>1. /\ Len(s) \in Nat /\ DOMAIN s = 1..Len(s) /\ DOMAIN Append(s, e) = 1..(Len(s) + 1)
        /\ \A i \in 1..Len(s) : Append(s, e)[i] = s[i]
    BY AppendIsSeq
  <2> QED BY <2>1
<1> QED BY <1>1

LEMMA RegistriesStay ==
  ASSUME Shape, HistoriesApart, [Next]_vars,
         NEW x \in {"decisions", "lifecycle", "knowledge", "census", "environment"}
  PROVE  \A i \in DOMAIN state[x] : i \in DOMAIN state'[x] /\ state'[x][i] = state[x][i]
<1>1. IsSeq(state[x])
  BY DEF HistoriesApart, Registries
<1>2. state'.environment # state.environment =>
        \E e : state'.environment = Append(state.environment, e)
  BY EnvironmentGrows
<1>3. state'[x] = state[x] \/ \E e : state'[x] = Append(state[x], e)
  BY <1>2, DecisionsGrow, LifecycleGrows, KnowledgeGrows, CensusGrows
<1> QED BY <1>1, <1>3, ExtendsKeeps

LEMMA LastIs ==
  ASSUME NEW s, IsSeq(s), s # <<>>
  PROVE  /\ Len(s) \in DOMAIN s /\ s[Len(s)] = Last(s) /\ Last(s) \in ToSet(s)
<1>1. PICK S : s \in Seq(S)
  BY DEF IsSeq
<1> QED BY <1>1 DEF Last, ToSet


\* The decision that binds is the only one in force for the project and the key.
IsBound(b) ==
  /\ b.at \in DOMAIN state.decisions
  /\ {b.decision} = {r \in CurrentForProject(state.decisions[b.at].records, b.project) :
                       r.key = b.instruction.key}
  /\ b.decision.version = b.instruction.version

IsApproved(a) ==
  /\ a.at \in DOMAIN state.lifecycle
  /\ StageDecision(state.lifecycle[a.at].records, StageKey(a.record)) = {a.record}

BoundInv ==
  /\ outside.bound # Nothing => IsBound(outside.bound)
  /\ outside.approved # Nothing => IsApproved(outside.approved)

LEMMA StepBound ==
  ASSUME Shape, HistoriesApart, SnapshotsAreValid, BoundInv, [Next]_vars
  PROVE  BoundInv'
<1>1. ASSUME NEW id, NEW p, NEW instruction, BindInstruction(id, p, instruction)
      PROVE  IsBound(outside.bound)'
  <2> DEFINE h == Last(state.decisions)
             at == Len(state.decisions)
  <2>1. PICK r \in Named(h.records, id) :
          /\ Binds(r, p, instruction) /\ state' = state
          /\ outside'.bound = [decision |-> r, project |-> p, instruction |-> instruction, at |-> at]
    BY <1>1 DEF BindInstruction, Shape
  <2>2. at \in DOMAIN state.decisions /\ state.decisions[at] = h /\ ValidDecisionRegistry(h.records)
    <3>1. IsSeq(state.decisions) /\ state.decisions # <<>>
      BY <1>1 DEF SnapshotsAreValid, BindInstruction
    <3> QED BY <3>1, LastIs DEF SnapshotsAreValid
  <2>3. {r} = {x \in CurrentForProject(h.records, p) : x.key = instruction.key}
    <3> HIDE DEF h
    <3>1. r \in h.records /\ r.status = "CURRENT" /\ p \in r.projects /\ r.key = instruction.key
      BY <2>1 DEF Named, Binds
    <3>2. ASSUME NEW x \in h.records, x.status = "CURRENT", p \in x.projects, x.key = instruction.key
          PROVE  x = r
      BY <2>2, <3>1, <3>2 DEF ValidDecisionRegistry, CurrentUnique, Overlap
    <3> QED BY <3>1, <3>2 DEF CurrentForProject
  <2>4. r.version = instruction.version
    BY <2>1 DEF Binds
  <2> HIDE DEF h, at
  <2> QED BY <2>1, <2>2, <2>3, <2>4 DEF IsBound
<1>2. ASSUME NEW key, RequireApproved(key) PROVE IsApproved(outside.approved)'
  <2> DEFINE h == Last(state.lifecycle)
             at == Len(state.lifecycle)
  <2>1. PICK r \in StageDecision(h.records, key) :
          state' = state /\ outside'.approved = [record |-> r, at |-> at]
    BY <1>2 DEF RequireApproved, Shape
  <2>2. at \in DOMAIN state.lifecycle /\ state.lifecycle[at] = h /\ ValidLifecycleRegistry(h.records)
    <3>1. IsSeq(state.lifecycle) /\ state.lifecycle # <<>>
      BY <1>2 DEF SnapshotsAreValid, RequireApproved
    <3> QED BY <3>1, LastIs DEF SnapshotsAreValid
  <2>3. StageDecision(h.records, StageKey(r)) = {r}
    <3> HIDE DEF h
    <3> QED BY <2>1, <2>2 DEF StageDecision, ValidLifecycleRegistry, StageUnique
  <2> HIDE DEF h, at
  <2> QED BY <2>1, <2>2, <2>3 DEF IsApproved
<1>3. /\ \A i \in DOMAIN state.decisions : i \in DOMAIN state'.decisions /\ state'.decisions[i] = state.decisions[i]
      /\ \A i \in DOMAIN state.lifecycle : i \in DOMAIN state'.lifecycle /\ state'.lifecycle[i] = state.lifecycle[i]
  BY RegistriesStay
<1>4. ASSUME outside.bound # Nothing, outside'.bound = outside.bound PROVE IsBound(outside.bound)'
  BY <1>3, <1>4 DEF BoundInv, IsBound
<1>5. ASSUME outside.approved # Nothing, outside'.approved = outside.approved
      PROVE  IsApproved(outside.approved)'
  BY <1>3, <1>5 DEF BoundInv, IsApproved
<1>6. /\ outside'["bound"] # outside["bound"] => BindingsNext
      /\ outside'["approved"] # outside["approved"] => LifecycleNext
  BY OwnersOfOutside DEF Shape
<1>7. ASSUME outside'.bound # outside.bound PROVE IsBound(outside.bound)'
  BY <1>1, <1>6, <1>7 DEF BindingsNext
<1>8. ASSUME outside'.approved # outside.approved PROVE IsApproved(outside.approved)'
  <2>1. ASSUME NEW r, NEW s, ImportLifecycle(r, s) PROVE FALSE
    BY <1>8, <2>1 DEF ImportLifecycle, ImportSnapshot, Save
  <2> QED BY <1>2, <1>6, <1>8, <2>1 DEF LifecycleNext
<1> QED BY <1>4, <1>5, <1>7, <1>8 DEF BoundInv

\* Accepted knowledge names a decision of a snapshot that is in the history.
LEMMA StepKnowledge ==
  ASSUME Shape, HistoriesApart, SnapshotsAreValid, KnowledgeWasDecided, [Next]_vars
  PROVE  KnowledgeWasDecided'
<1> DEFINE Decided(c, decisions) ==
             \E g \in ToSet(decisions) : \E d \in CurrentForProject(g.records, c.project) :
               d.id = c.reference /\ c.id \in d.evidence
<1>1. IsSeq(state.decisions) /\ IsSeq(state.knowledge)
  BY DEF SnapshotsAreValid
<1>2. ASSUME NEW c, Decided(c, state.decisions) PROVE Decided(c, state'.decisions)
  <2>1. ToSet(state.decisions) \subseteq ToSet(state'.decisions)
    <3>1. \A i \in DOMAIN state.decisions : i \in DOMAIN state'.decisions /\ state'.decisions[i] = state.decisions[i]
      BY RegistriesStay
    <3> QED BY <3>1 DEF ToSet
  <2> QED BY <1>2, <2>1
<1>3. ASSUME NEW s, NEW decisions \in {{}, Records(state.decisions)}, NEW c \in s,
             PromotionDecided(c, decisions), c.promotion = "ACCEPTED_PROJECT_KNOWLEDGE"
      PROVE  Decided(c, state.decisions)
  <2>1. PICK d \in Named(decisions, c.reference) :
          d.status = "CURRENT" /\ c.project \in d.projects /\ c.id \in d.evidence
    BY <1>3 DEF PromotionDecided
  <2>2. d \in decisions /\ d.id = c.reference
    BY DEF Named
  <2>3. state.decisions # <<>> /\ d \in Last(state.decisions).records
    BY <2>2 DEF Records
  <2>4. Last(state.decisions) \in ToSet(state.decisions)
    BY <1>1, <2>3, LastIs
  <2> QED BY <2>1, <2>2, <2>3, <2>4 DEF CurrentForProject
<1> DEFINE Good(history) == \A h \in ToSet(history) : \A c \in h.records :
             c.promotion = "ACCEPTED_PROJECT_KNOWLEDGE" => Decided(c, state'.decisions)
<1>4. Good(state.knowledge)
  <2>1. \A h \in ToSet(state.knowledge) : \A c \in h.records :
          c.promotion = "ACCEPTED_PROJECT_KNOWLEDGE" => Decided(c, state.decisions)
    BY DEF KnowledgeWasDecided
  <2> HIDE DEF Decided
  <2> QED BY <1>2, <2>1
<1>5. Good(state'.knowledge)
  <2>1. CASE state'.knowledge = state.knowledge
    BY <1>4, <2>1
  <2>2. CASE state'.knowledge # state.knowledge
    <3>1. PICK r, s : /\ \E d \in {{}, Records(state.decisions)} : \A c \in s : PromotionDecided(c, d)
                      /\ state'.knowledge = Append(state.knowledge, [revision |-> r, records |-> s])
      BY <2>2, KnowledgeGrows
    <3>2. PICK decisions \in {{}, Records(state.decisions)} : \A c \in s : PromotionDecided(c, decisions)
      BY <3>1
    <3> HIDE DEF Decided
    <3>3. \A c \in s : c.promotion = "ACCEPTED_PROJECT_KNOWLEDGE" => Decided(c, state'.decisions)
      BY <1>2, <1>3, <3>2
    <3>4. ToSet(state'.knowledge) = ToSet(state.knowledge) \cup {[revision |-> r, records |-> s]}
      BY <1>1, <3>1, AppendToSet
    <3> QED BY <1>4, <3>3, <3>4
  <2> QED BY <2>1, <2>2
<1> QED BY <1>5 DEF KnowledgeWasDecided

-----------------------------------------------------------------------------
(***************************************************************************)
(* Agents and runtimes.                                                    *)
(***************************************************************************)
CensusIsValid == \A c \in ToSet(state.census) : ValidCensus(c)

\* The status of a snapshot is what its baseline, runtime and receipt reconcile to.
RuntimesReconciled ==
  \A e \in ToSet(state.environment) : e.status = Reconciled(e.baseline, e.current, e.receipt)

IsAdmitted(k) ==
  /\ k.at \in DOMAIN state.census
  /\ k.agent \in state.census[k.at].agents /\ k.agent.admitted
  /\ ValidCensus(state.census[k.at])

IsCertified(i) ==
  /\ i \in DOMAIN state.environment /\ Certified(state.environment[i])
  /\ LET e == state.environment[i] IN e.status = Reconciled(e.baseline, e.current, e.receipt)

RuntimeInv ==
  /\ CensusIsValid /\ RuntimesReconciled
  /\ outside.admitted # Nothing => IsAdmitted(outside.admitted)
  /\ outside.certified # Nothing => IsCertified(outside.certified)

LEMMA StepRuntimeSnapshots ==
  ASSUME Shape, HistoriesApart, CensusIsValid, RuntimesReconciled, [Next]_vars
  PROVE  CensusIsValid' /\ RuntimesReconciled'
<1>1. IsSeq(state.census) /\ IsSeq(state.environment)
  BY DEF HistoriesApart, Registries
<1>2. CensusIsValid'
  <2>1. CASE state'.census = state.census
    BY <2>1 DEF CensusIsValid
  <2>2. CASE state'.census # state.census
    <3>1. PICK c : ValidCensus(c) /\ state'.census = Append(state.census, c)
      BY <2>2, CensusGrows
    <3>2. ToSet(state'.census) = ToSet(state.census) \cup {c}
      BY <1>1, <3>1, AppendToSet
    <3> QED BY <3>1, <3>2 DEF CensusIsValid
  <2> QED BY <2>1, <2>2
<1>3. RuntimesReconciled'
  <2>1. CASE state'.environment = state.environment
    BY <2>1 DEF RuntimesReconciled
  <2>2. CASE state'.environment # state.environment
    <3>1. PICK r, b, f, x :
            state'.environment = Append(state.environment,
              [revision |-> r, baseline |-> b, current |-> f,
               status |-> Reconciled(b, f, x), receipt |-> x])
      BY <2>2, EnvironmentGrows
    <3> DEFINE e == [revision |-> r, baseline |-> b, current |-> f,
                     status |-> Reconciled(b, f, x), receipt |-> x]
    <3>2. ToSet(state'.environment) = ToSet(state.environment) \cup {e}
      BY <1>1, <3>1, AppendToSet
    <3>3. e.status = Reconciled(e.baseline, e.current, e.receipt)
      OBVIOUS
    <3> HIDE DEF e
    <3> QED BY <3>2, <3>3 DEF RuntimesReconciled
  <2> QED BY <2>1, <2>2
<1> QED BY <1>2, <1>3

LEMMA StepRuntimes ==
  ASSUME Shape, HistoriesApart, RuntimeInv, [Next]_vars
  PROVE  RuntimeInv'
<1>1. IsSeq(state.census) /\ IsSeq(state.environment)
  BY DEF HistoriesApart, Registries
<1>2. ASSUME NEW id, RequireAdmitted(id) PROVE IsAdmitted(outside.admitted)'
  <2> DEFINE c == Last(state.census)
             at == Len(state.census)
  <2>1. PICK a \in c.agents :
          a.admitted /\ state' = state /\ outside'.admitted = [agent |-> a, at |-> at]
    BY <1>2 DEF RequireAdmitted, Shape
  <2>2. at \in DOMAIN state.census /\ state.census[at] = c /\ ValidCensus(c)
    BY <1>1, <1>2, LastIs DEF RequireAdmitted, RuntimeInv, CensusIsValid
  <2> HIDE DEF c, at
  <2> QED BY <2>1, <2>2 DEF IsAdmitted
<1>3. ASSUME RequireCertified PROVE IsCertified(outside.certified)'
  <2> DEFINE e == Last(state.environment)
             at == Len(state.environment)
  <2>1. Certified(e) /\ state' = state /\ outside'.certified = at
    BY <1>3 DEF RequireCertified, Shape
  <2>2. /\ at \in DOMAIN state.environment /\ state.environment[at] = e
        /\ e.status = Reconciled(e.baseline, e.current, e.receipt)
    BY <1>1, <1>3, LastIs DEF RequireCertified, RuntimeInv, RuntimesReconciled
  <2> HIDE DEF e, at
  <2> QED BY <2>1, <2>2 DEF IsCertified
<1>4. /\ \A i \in DOMAIN state.census : i \in DOMAIN state'.census /\ state'.census[i] = state.census[i]
      /\ \A i \in DOMAIN state.environment :
           i \in DOMAIN state'.environment /\ state'.environment[i] = state.environment[i]
  BY RegistriesStay
<1>5. ASSUME outside.admitted # Nothing, outside'.admitted = outside.admitted
      PROVE  IsAdmitted(outside.admitted)'
  BY <1>4, <1>5 DEF RuntimeInv, IsAdmitted
<1>6. ASSUME outside.certified # Nothing, outside'.certified = outside.certified
      PROVE  IsCertified(outside.certified)'
  BY <1>4, <1>6 DEF RuntimeInv, IsCertified
<1>7. /\ outside'["admitted"] # outside["admitted"] => CensusNext
      /\ outside'["certified"] # outside["certified"] => EnvironmentNext
  BY OwnersOfOutside DEF Shape
<1>8. ASSUME outside'.admitted # outside.admitted PROVE IsAdmitted(outside.admitted)'
  <2>1. ASSUME NEW c, ImportCensus(c) PROVE FALSE
    BY <1>8, <2>1 DEF ImportCensus, Save
  <2> QED BY <1>2, <1>7, <1>8, <2>1 DEF CensusNext
<1>9. ASSUME outside'.certified # outside.certified PROVE IsCertified(outside.certified)'
  <2>1. ASSUME NEW r, NEW b, NEW f, NEW x, ImportEnvironment(r, b, f, x) PROVE FALSE
    BY <1>9, <2>1 DEF ImportEnvironment, Save
  <2> QED BY <1>3, <1>7, <1>9, <2>1 DEF EnvironmentNext
<1>10. CensusIsValid' /\ RuntimesReconciled'
  BY StepRuntimeSnapshots DEF RuntimeInv
<1> QED BY <1>5, <1>6, <1>8, <1>9, <1>10 DEF RuntimeInv

LEMMA RuntimesAreEarned == RuntimeInv => AdmittedByDecision /\ CertifiedIsEquivalent
<1> SUFFICES ASSUME RuntimeInv PROVE AdmittedByDecision /\ CertifiedIsEquivalent
  OBVIOUS
<1>1. AdmittedByDecision
  <2> SUFFICES ASSUME outside.admitted # Nothing PROVE AdmittedByDecision
    BY DEF AdmittedByDecision
  <2> DEFINE k == outside.admitted
             c == state.census[k.at]
  <2>1. k.agent \in c.agents /\ k.agent.admitted /\ ValidCensus(c)
    BY DEF RuntimeInv, IsAdmitted
  <2> HIDE DEF c
  <2>2. /\ \A a \in c.agents : ValidAdmission(a)
        /\ \A a, b \in c.agents : a.role = b.role => a = b
    BY <2>1 DEF ValidCensus, UniqueBy
  <2>3. k.agent.reference # Nothing /\ k.agent.role_status \notin PendingRole
    BY <2>1, <2>2 DEF ValidAdmission
  <2> QED BY <2>1, <2>2, <2>3 DEF AdmittedByDecision, c
<1>2. CertifiedIsEquivalent
  <2> SUFFICES ASSUME outside.certified # Nothing PROVE CertifiedIsEquivalent
    BY DEF CertifiedIsEquivalent
  <2> DEFINE e == state.environment[outside.certified]
  <2>1. Certified(e) /\ e.status = Reconciled(e.baseline, e.current, e.receipt)
    BY DEF RuntimeInv, IsCertified
  <2> HIDE DEF e
  <2>2. \/ Mismatches(e.baseline, e.current) = {}
        \/ e.receipt # Nothing /\ ReceiptFor(e.receipt, e.baseline, e.current)
    BY <2>1 DEF Certified, Reconciled
  <2>3. Mismatches(e.baseline, e.current) = {} =>
          /\ e.baseline.device \in {Nothing, e.current.device}
          /\ \A x \in DOMAIN e.baseline.components :
               x \in DOMAIN e.current.components /\ e.current.components[x] = e.baseline.components[x]
    BY DEF Mismatches
  <2> QED BY <2>2, <2>3 DEF CertifiedIsEquivalent, ReceiptFor, e
<1> QED BY <1>1, <1>2

-----------------------------------------------------------------------------
(***************************************************************************)
(* The run and its review.                                                 *)
(***************************************************************************)
RunFields == {"status", "project", "repository", "task", "after", "required", "tests",
              "changed", "explicit", "authorized", "decision", "learning",
              "relayable", "package", "thread", "imported"}

OnEvidence(r, shown) ==
  /\ r.decision.accepted /\ r.decision.head = r.after
  /\ \A k \in r.required : \E e \in shown : e.kind = k /\ e.passed /\ e.head = r.after
  /\ r.decision.failed = {}
  /\ r.changed # {} => /\ r.learning # Nothing
                       /\ r.learning.task = <<r.project, r.task>>
                       /\ r.learning.head = r.after

\* A run that ended, verified on what was shown or not verified.
IsRun(r, shown) ==
  /\ DOMAIN r = RunFields /\ AreFiles(r.changed)
  /\ r.status = "verified" => OnEvidence(r, shown)

RunIsTyped(r) ==
  /\ r.status \in RunStatus
  /\ r.required \subseteq EvidenceKinds /\ r.required # {}
  /\ r.after \in Optional(GateHead)

IsReviewed(k) ==
  /\ k.parent.status \notin TerminalParent
  /\ (k.target = "READY_FOR_REVIEW" /\ k.parent.write) =>
       /\ FivePartSuccess(k.parent, k.run, k.semantic, k.review)
       /\ DOMAIN k.run = RunFields /\ AreFiles(k.run.changed)
       /\ k.run.decision.head = k.run.after

RunInv ==
  /\ \A r \in {state.run, memory.run} : r # NoRun => IsRun(r, outside.shown)
  /\ VerifiedIsInMemory
  /\ outside.rollup # Nothing => IsReviewed(outside.rollup)

LEMMA AcceptedHasAll ==
  ASSUME NEW head, NEW required, NEW evidence, Acceptance(head, required, evidence).accepted
  PROVE  /\ Acceptance(head, required, evidence).head = head
         /\ Acceptance(head, required, evidence).failed = {}
         /\ \A k \in required : \E e \in evidence : e.kind = k /\ e.passed /\ e.head = head
<1> DEFINE relevant == EvidenceFor(evidence, head)
           missing == {k \in required : ~\E e \in relevant : e.kind = k}
           failed == {k \in required : \E e \in relevant : e.kind = k /\ ~e.passed}
<1>1. /\ Acceptance(head, required, evidence).head = head
      /\ Acceptance(head, required, evidence).failed = failed
      /\ missing = {} /\ failed = {}
  BY DEF Acceptance
<1>2. ASSUME NEW k \in required PROVE \E e \in evidence : e.kind = k /\ e.passed /\ e.head = head
  <2>1. \E e \in relevant : e.kind = k
    BY <1>1
  <2>2. ~\E e \in relevant : e.kind = k /\ ~e.passed
    BY <1>1
  <2> QED BY <2>1, <2>2 DEF EvidenceFor
<1> QED BY <1>1, <1>2

LEMMA MoreShown ==
  ASSUME NEW r, NEW shown, NEW more, IsRun(r, shown), shown \subseteq more
  PROVE  IsRun(r, more)
  BY DEF IsRun, OnEvidence

LEMMA VerifyMoves ==
  ASSUME Shape, RunInv, NEW q, VerifyRun(q)
  PROVE  /\ outside.shown \subseteq outside'.shown /\ outside'.rollup = outside.rollup
         /\ IsRun(memory'.run, outside'.shown)
         /\ state'.run = memory'.run \/ state'.run = state.run
<1> DEFINE evidence == Collected(Run, q)
           decision == Acceptance(q.head, Run.required, evidence)
           decided == [Run EXCEPT !.decision = decision]
           needs == Run.changed # {} \/ q.learning # Nothing
           verified == [decided EXCEPT !.status = "verified",
                                       !.learning = IF needs THEN q.learning ELSE @]
<1>1. /\ Run # NoRun /\ Run.status = "pending_verification" /\ Run.after = q.head
      /\ outside'.shown = outside.shown \cup evidence /\ outside'.rollup = outside.rollup
  BY DEF VerifyRun, Shape
<1>2. \/ memory'.run = decided /\ (state'.run = decided \/ state'.run = state.run)
      \/ /\ decision.accepted /\ (needs => ClosedOut(q.learning, Run, q.head))
         /\ memory'.run = verified /\ state'.run = verified
  <2>1. CASE ~decision.accepted
    BY <2>1 DEF VerifyRun, Shape
  <2>2. CASE decision.accepted /\ needs /\ ~ClosedOut(q.learning, Run, q.head)
    BY <2>2 DEF VerifyRun, Shape
  <2>3. CASE decision.accepted /\ ~(needs /\ ~ClosedOut(q.learning, Run, q.head))
    BY <2>3 DEF VerifyRun, Shape
  <2> QED BY <2>1, <2>2, <2>3
<1>3. DOMAIN Run = RunFields /\ AreFiles(Run.changed)
  BY <1>1 DEF RunInv, IsRun, Run
<1>4. IsRun(decided, outside'.shown)
  <2> HIDE DEF decision
  <2>1. /\ DOMAIN decided = RunFields /\ decided.changed = Run.changed
        /\ decided.status = "pending_verification"
    BY <1>1, <1>3 DEF RunFields
  <2> QED BY <1>3, <2>1 DEF IsRun
<1>5. ASSUME decision.accepted, needs => ClosedOut(q.learning, Run, q.head)
      PROVE  IsRun(verified, outside'.shown)
  <2>1. /\ decision.head = q.head /\ decision.failed = {}
        /\ \A k \in Run.required : \E e \in evidence : e.kind = k /\ e.passed /\ e.head = q.head
    BY <1>5, AcceptedHasAll
  <2>2. /\ DOMAIN verified = RunFields /\ verified.changed = Run.changed
        /\ verified.decision = decision /\ verified.after = Run.after
        /\ verified.required = Run.required /\ verified.project = Run.project
        /\ verified.task = Run.task
        /\ needs => verified.learning = q.learning
    <3> HIDE DEF decision, needs
    <3> QED BY <1>3 DEF RunFields
  <2>3. Run.changed # {} => ClosedOut(q.learning, Run, q.head) /\ verified.learning = q.learning
    <3> HIDE DEF verified, decision
    <3> QED BY <1>5, <2>2
  <2> HIDE DEF decision, needs, verified, evidence
  <2>4. OnEvidence(verified, outside'.shown)
    BY <1>1, <1>5, <2>1, <2>2, <2>3 DEF OnEvidence, ClosedOut
  <2> QED BY <1>3, <2>2, <2>4 DEF IsRun
<1> HIDE DEF decision, decided, needs, verified, evidence
<1> QED BY <1>1, <1>2, <1>4, <1>5

\* What goes on with a run leaves it one that ended, and not verified unless it was.
LEMMA MovesOfARun ==
  ASSUME RunMoves
  PROVE  \E r : /\ Keep("run", r) /\ Run # NoRun
               /\ (\A shown : IsRun(Run, shown) => IsRun(r, shown))
               /\ (DOMAIN Run = RunFields /\ RunIsTyped(Run) => RunIsTyped(r))
<1> DEFINE Goal == \E r : /\ Keep("run", r) /\ Run # NoRun
                         /\ (\A shown : IsRun(Run, shown) => IsRun(r, shown))
                         /\ (DOMAIN Run = RunFields /\ RunIsTyped(Run) => RunIsTyped(r))
<1>1. ASSUME NEW r, Moved(r), DOMAIN Run = RunFields =>
               /\ DOMAIN r = RunFields /\ r.status \in RunStatus \ {"verified"}
               /\ (AreFiles(Run.changed) => AreFiles(r.changed))
               /\ r.required = Run.required
               /\ (Run.after \in Optional(GateHead) => r.after \in Optional(GateHead))
      PROVE  Goal
  BY <1>1 DEF Moved, IsRun, RunIsTyped
<1>2. ASSUME NEW status \in RunStatus \ {"verified"}, Moved([Run EXCEPT !.status = status])
      PROVE  Goal
  BY <1>1, <1>2 DEF RunFields
<1>3. ASSUME NEW status \in {"failed", "timed_out"}, FailRun(status) PROVE Goal
  BY <1>2, <1>3 DEF FailRun, RunStatus
<1>4. ASSUME NEW status \in {"pending", "running"}, ContinueRun(status) PROVE Goal
  BY <1>2, <1>4 DEF ContinueRun, RunStatus
<1>5. ASSUME CancelRun PROVE Goal
  BY <1>2, <1>5 DEF CancelRun, RunStatus
<1>6. ASSUME AuthorizeRun PROVE Goal
  <2> DEFINE r == [Run EXCEPT !.authorized = TRUE]
  <2>1. Keep("run", r) /\ Run # NoRun
    BY <1>6 DEF AuthorizeRun, Moved
  <2>2. DOMAIN Run = RunFields =>
          /\ DOMAIN r = RunFields /\ r.status = Run.status /\ r.changed = Run.changed
          /\ r.required = Run.required /\ r.after = Run.after /\ r.decision = Run.decision
          /\ r.learning = Run.learning /\ r.project = Run.project /\ r.task = Run.task
    BY DEF RunFields
  <2> HIDE DEF r
  <2> QED BY <2>1, <2>2 DEF IsRun, OnEvidence, RunIsTyped
<1>7. ASSUME PackageRun PROVE Goal
  <2> DEFINE r == [Run EXCEPT !.status = "pending", !.package = TRUE]
  <2>1. Moved(r)
    BY <1>7 DEF PackageRun
  <2>2. DOMAIN Run = RunFields =>
          /\ DOMAIN r = RunFields /\ r.status = "pending" /\ r.changed = Run.changed
          /\ r.required = Run.required /\ r.after = Run.after
    BY DEF RunFields
  <2> HIDE DEF r
  <2> QED BY <1>1, <2>1, <2>2 DEF RunStatus
<1>8. ASSUME NEW thread \in BOOLEAN, RelayRun(thread) PROVE Goal
  <2> DEFINE r == [Run EXCEPT !.status = "running", !.thread = @ \/ thread, !.imported = @ /\ ~thread]
  <2>1. Moved(r)
    BY <1>8 DEF RelayRun
  <2>2. DOMAIN Run = RunFields =>
          /\ DOMAIN r = RunFields /\ r.status = "running" /\ r.changed = Run.changed
          /\ r.required = Run.required /\ r.after = Run.after
    BY DEF RunFields
  <2> HIDE DEF r
  <2> QED BY <1>1, <2>1, <2>2 DEF RunStatus
<1>9. ASSUME NEW result \in GateResults, ImportResult(result) PROVE Goal
  <2> DEFINE r == [Run EXCEPT !.status = "pending_verification", !.after = result.after,
                              !.tests = result.tests, !.changed = result.changed, !.imported = TRUE]
  <2>1. Moved(r)
    BY <1>9 DEF ImportResult
  <2>2. DOMAIN Run = RunFields =>
          /\ DOMAIN r = RunFields /\ r.status = "pending_verification"
          /\ r.changed = result.changed /\ r.required = Run.required /\ r.after = result.after
    BY DEF RunFields
  <2>3. result.after \in Optional(GateHead) /\ AreFiles(result.changed)
    BY ResultsNameFiles DEF Optional
  <2> HIDE DEF r
  <2> QED BY <1>1, <2>1, <2>2, <2>3 DEF RunStatus
<1>10. ASSUME QueueRun PROVE Goal
  BY <1>2, <1>10 DEF QueueRun, RunStatus
<1>11. ASSUME NEW result \in GateResults, ReturnResult(result) PROVE Goal
  <2> DEFINE r == [Run EXCEPT !.status = "pending_verification", !.after = result.after,
                              !.tests = result.tests, !.changed = result.changed]
  <2>1. Moved(r)
    BY <1>11 DEF ReturnResult
  <2>2. DOMAIN Run = RunFields =>
          /\ DOMAIN r = RunFields /\ r.status = "pending_verification"
          /\ r.changed = result.changed /\ r.required = Run.required /\ r.after = result.after
    BY DEF RunFields
  <2>3. result.after \in Optional(GateHead) /\ AreFiles(result.changed)
    BY ResultsNameFiles DEF Optional
  <2> HIDE DEF r
  <2> QED BY <1>1, <2>1, <2>2, <2>3 DEF RunStatus
<1> HIDE DEF Goal
<1>12. Goal
  BY <1>3, <1>4, <1>5, <1>6, <1>7, <1>8, <1>9, <1>10, <1>11 DEF RunMoves
<1> QED BY <1>12 DEF Goal

LEMMA StepEvidence ==
  ASSUME Shape, RunInv, [Next]_vars
  PROVE  RunInv'
<1> DEFINE Good == /\ \A r \in {state'.run, memory'.run} : r # NoRun => IsRun(r, outside'.shown)
                   /\ outside'.rollup # Nothing => IsReviewed(outside'.rollup)
<1>0. /\ \A r \in {state.run, memory.run} : r # NoRun => IsRun(r, outside.shown)
      /\ outside.rollup # Nothing => IsReviewed(outside.rollup)
  BY DEF RunInv
<1>1. ASSUME NEW r \in GateRuns, ExecutorEnds(r) PROVE Good
  <2>1. state'.run = r /\ memory'.run = r /\ outside' = outside
    BY <1>1 DEF ExecutorEnds, Keep, Shape
  <2>2. IsRun(r, outside.shown)
    BY RunsAreUnverified DEF IsRun, RunFields
  <2> QED BY <1>0, <2>1, <2>2
<1>2. ASSUME NEW q, VerifyRun(q) PROVE Good
  <2>1. /\ outside.shown \subseteq outside'.shown /\ outside'.rollup = outside.rollup
        /\ IsRun(memory'.run, outside'.shown)
        /\ state'.run = memory'.run \/ state'.run = state.run
    BY <1>2, VerifyMoves
  <2>2. state.run # NoRun => IsRun(state.run, outside'.shown)
    BY <1>0, <2>1, MoreShown
  <2> QED BY <1>0, <2>1, <2>2
<1>3. ASSUME OtherTaskSaves PROVE Good
  <2>1. outside' = outside /\ state'.run = memory.run /\ memory'.run = memory.run
    BY <1>3 DEF OtherTaskSaves, Shape
  <2> QED BY <1>0, <2>1
<1>4. ASSUME NEW r, Keep("run", r), IsRun(r, outside.shown) PROVE Good
  <2>1. state'.run = r /\ memory'.run = r /\ outside' = outside
    BY <1>4 DEF Keep, Shape
  <2> QED BY <1>0, <1>4, <2>1
<1>5. ASSUME RestoreRun PROVE Good
  <2>1. CASE state.run # NoRun /\ state.run.status = "running"
    <3> DEFINE r == [state.run EXCEPT !.status = "failed"]
    <3>1. Keep("run", r)
      BY <1>5, <2>1 DEF RestoreRun
    <3>2. IsRun(state.run, outside.shown)
      BY <1>0, <2>1
    <3>3. IsRun(r, outside.shown)
      BY <3>2 DEF IsRun, RunFields
    <3> HIDE DEF r
    <3> QED BY <1>4, <3>1, <3>3
  <2>2. CASE ~(state.run # NoRun /\ state.run.status = "running")
    <3>1. outside' = outside /\ state' = state /\ memory'.run = state.run
      BY <1>5, <2>2 DEF RestoreRun, Shape
    <3> QED BY <1>0, <3>1
  <2> QED BY <2>1, <2>2
<1>6. ASSUME RunMoves PROVE Good
  <2>1. PICK r : Keep("run", r) /\ (IsRun(Run, outside.shown) => IsRun(r, outside.shown)) /\ Run # NoRun
    BY <1>6, MovesOfARun
  <2>2. IsRun(Run, outside.shown)
    BY <1>0, <2>1 DEF Run
  <2> QED BY <1>4, <2>1, <2>2
<1>7. ASSUME NEW p, NEW t, NEW m, NEW v, AuthorizeRollup(p, t, m, v) PROVE Good
  <2> DEFINE k == [parent |-> p, run |-> Run, target |-> t, semantic |-> m, review |-> v]
  <2>1. /\ state' = state /\ memory' = memory /\ outside'.shown = outside.shown
        /\ outside'.rollup = k
        /\ Run # NoRun /\ t \in ExplicitTargets(p, Run)
        /\ (t = "READY_FOR_REVIEW" /\ p.write) => FivePartSuccess(p, Run, m, v)
    BY <1>7 DEF AuthorizeRollup, Shape
  <2>2. IsReviewed(k)
    <3>1. p.status \notin TerminalParent
      BY <2>1 DEF ExplicitTargets
    <3>2. IsRun(Run, outside.shown)
      BY <1>0, <2>1 DEF Run
    <3>3. FivePartSuccess(p, Run, m, v) => Run.decision.head = Run.after
      BY <3>2 DEF FivePartSuccess, IsRun, OnEvidence
    <3>4. /\ k.parent = p /\ k.run = Run /\ k.target = t /\ k.semantic = m /\ k.review = v
      OBVIOUS
    <3> HIDE DEF k
    <3> QED BY <2>1, <3>1, <3>2, <3>3, <3>4 DEF IsReviewed, IsRun
  <2> HIDE DEF k
  <2> QED BY <1>0, <2>1, <2>2
<1>8. ASSUME state'.run = state.run, memory'.run = memory.run, outside'.shown = outside.shown,
             outside'.rollup = outside.rollup
      PROVE  Good
  BY <1>0, <1>8
<1>9. /\ state'["run"] # state["run"] => EvidenceNext
      /\ memory'["run"] # memory["run"] => EvidenceNext
      /\ outside'["shown"] # outside["shown"] => EvidenceNext
      /\ outside'["rollup"] # outside["rollup"] => EvidenceNext
  BY Owners, OwnersOfMemory, OwnersOfOutside DEF Shape
<1>10. Good
  <2> HIDE DEF Good
  <2>1. ASSUME EvidenceNext PROVE Good
    BY <1>1, <1>2, <1>3, <1>5, <1>6, <1>7, <2>1 DEF EvidenceNext, RunMoves
  <2> QED BY <1>8, <1>9, <2>1
<1>11. VerifiedIsInMemory'
  BY StepRun DEF RunInv
<1> QED BY <1>10, <1>11 DEF RunInv

LEMMA RunsAreEarned == RunInv => VerifiedOnEvidence /\ ReviewIsEarned
<1> SUFFICES ASSUME RunInv PROVE VerifiedOnEvidence /\ ReviewIsEarned
  OBVIOUS
<1>1. VerifiedOnEvidence
  BY DEF RunInv, IsRun, OnEvidence, VerifiedOnEvidence, VerifiedIsInMemory
<1>2. ReviewIsEarned
  <2> SUFFICES ASSUME outside.rollup # Nothing PROVE ReviewIsEarned
    BY DEF ReviewIsEarned
  <2> DEFINE k == outside.rollup
  <2>1. IsReviewed(k)
    BY DEF RunInv
  <2> HIDE DEF k
  <2>2. ASSUME k.target = "READY_FOR_REVIEW", k.parent.write
        PROVE  /\ Cardinality({k.run.after, k.semantic.head, k.review.head, k.run.decision.head}) = 1
               /\ Identity3(k.semantic) = Identity3(k.parent) /\ Identity3(k.review) = Identity3(k.parent)
               /\ k.review.coder # "reviewer"
               /\ \A f \in k.run.changed : ~f.dotted => f \in k.parent.scope
    <3> DEFINE h == k.run.after
    <3>1. /\ FivePartSuccess(k.parent, k.run, k.semantic, k.review)
          /\ AreFiles(k.run.changed)
          /\ k.run.decision.head = h
      BY <2>1, <2>2 DEF IsReviewed
    <3>2. SubjectHead(k.parent, k.run) = h
      BY <3>1 DEF FivePartSuccess, SubjectHead
    <3>3. /\ k.semantic.head = h /\ k.review.head = h
          /\ Identity3(k.semantic) = Identity3(k.parent) /\ Identity3(k.review) = Identity3(k.parent)
          /\ k.review.coder # "reviewer"
          /\ ScopeViolations(k.parent, k.run) = {}
      BY <3>1, <3>2 DEF FivePartSuccess, BoundTo, Reviewed
    <3>4. {h, k.semantic.head, k.review.head, k.run.decision.head} = {h}
      BY <3>1, <3>3
    <3>5. Cardinality({h}) = 1
      BY FS_Singleton
    <3>6. ASSUME NEW f \in k.run.changed, ~f.dotted PROVE f \in k.parent.scope
      <4>1. f.dotted = FALSE /\ f = [name |-> f.name, dotted |-> f.dotted]
        BY <3>1, <3>6 DEF AreFiles
      <4>2. Stripped(f) = f
        BY <4>1 DEF Stripped
      <4> QED BY <3>3, <4>2 DEF ScopeViolations
    <3> QED BY <3>3, <3>4, <3>5, <3>6
  <2> QED BY <2>1, <2>2 DEF ReviewIsEarned, IsReviewed, k
<1> QED BY <1>1, <1>2

-----------------------------------------------------------------------------
(***************************************************************************)
(* Retries.  A decision is judged by the observations and the registry of  *)
(* its time, which later ones do not change.                               *)
(***************************************************************************)
Informed(d, f) ==
  /\ d.seen \in 0..Len(f.observations) /\ d.registry \in DOMAIN f.history
  /\ LET relevant == Relevant(f, d.fingerprint, d.project) \cap (1..d.seen)
     IN (\E i \in relevant : f.observations[i].env = d.env /\ \A j \in relevant : j <= i)
          => \/ Blocked(d.disposition)
             \/ d.override = f.history[d.registry].authority

IsRegistry(f) ==
  /\ DOMAIN f = {"history", "observations", "decisions"}
  /\ IsSeq(f.history) /\ IsSeq(f.observations) /\ IsSeq(f.decisions)
  /\ \A n \in DOMAIN f.decisions : Informed(f.decisions[n], f)

DecisionsInformed == IsRegistry(Failures)

LEMMA InformedStays ==
  ASSUME NEW f, IsSeq(f.observations),
         NEW g, IsSeq(g.observations),
         \A i \in DOMAIN f.observations :
           i \in DOMAIN g.observations /\ g.observations[i] = f.observations[i],
         \A i \in DOMAIN f.history : i \in DOMAIN g.history /\ g.history[i] = f.history[i],
         NEW d, Informed(d, f)
  PROVE  Informed(d, g)
<1>1. /\ Len(f.observations) \in Nat /\ DOMAIN f.observations = 1..Len(f.observations)
      /\ Len(g.observations) \in Nat /\ DOMAIN g.observations = 1..Len(g.observations)
  BY AppendIsSeq
<1>2. d.seen \in 0..Len(f.observations) /\ d.registry \in DOMAIN f.history
  BY DEF Informed
<1>3. Len(f.observations) <= Len(g.observations)
  <2> DEFINE n == Len(f.observations)
  <2>1. n = 0 \/ n \in DOMAIN f.observations
    BY <1>1
  <2>2. n = 0 \/ n \in 1..Len(g.observations)
    BY <1>1, <2>1
  <2> QED BY <1>1, <2>2
<1>4. d.seen \in 0..Len(g.observations)
  BY <1>1, <1>2, <1>3
<1>5. \A i \in 1..d.seen : i \in DOMAIN f.observations
  BY <1>1, <1>2
<1>6. \A i \in 1..d.seen : i \in DOMAIN g.observations /\ g.observations[i] = f.observations[i]
  BY <1>5
<1>7. Relevant(g, d.fingerprint, d.project) \cap (1..d.seen)
        = Relevant(f, d.fingerprint, d.project) \cap (1..d.seen)
  BY <1>5, <1>6 DEF Relevant
<1>8. g.history[d.registry] = f.history[d.registry] /\ d.registry \in DOMAIN g.history
  BY <1>2
<1> DEFINE relevant == Relevant(f, d.fingerprint, d.project) \cap (1..d.seen)
<1>9. \A i \in relevant : g.observations[i] = f.observations[i]
  BY <1>6
<1>10. (\E i \in relevant : f.observations[i].env = d.env /\ \A j \in relevant : j <= i)
         => \/ Blocked(d.disposition)
            \/ d.override = f.history[d.registry].authority
  BY DEF Informed
<1>11. Relevant(g, d.fingerprint, d.project) \cap (1..d.seen) = relevant
  BY <1>7
<1> HIDE DEF relevant
<1> QED BY <1>4, <1>8, <1>9, <1>10, <1>11 DEF Informed

\* What is decided is right by the registry it is decided with.
LEMMA EvaluatedIsInformed ==
  ASSUME NEW f, IsRegistry(f), f.history # <<>>,
         NEW fp, NEW t, NEW env, NEW override
  PROVE  IsRegistry(Evaluated(f, fp, t, env, override))
<1> DEFINE g == Evaluated(f, fp, t, env, override)
           relevant == Relevant(f, fp, ProjectOf[t])
           d == [fingerprint |-> fp, project |-> ProjectOf[t], task |-> t, env |-> env,
                 disposition |-> Disposition(f, fp, ProjectOf[t], env, override),
                 override |-> override,
                 seen |-> Len(f.observations), registry |-> Len(f.history)]
<1>1. /\ DOMAIN f = {"history", "observations", "decisions"}
      /\ IsSeq(f.history) /\ IsSeq(f.observations) /\ IsSeq(f.decisions)
      /\ \A n \in DOMAIN f.decisions : Informed(f.decisions[n], f)
  BY DEF IsRegistry
<1>2. CASE Disposition(f, fp, ProjectOf[t], env, override) = "REFUSED"
  BY <1>2 DEF Evaluated
<1>3. CASE Disposition(f, fp, ProjectOf[t], env, override) # "REFUSED"
  <2>1. /\ DOMAIN g = DOMAIN f /\ g.history = f.history /\ g.observations = f.observations
        /\ g.decisions = Append(f.decisions, d)
    BY <1>1, <1>3 DEF Evaluated
  <2>2. Informed(d, f)
    <3>1. /\ Len(f.observations) \in Nat /\ DOMAIN f.observations = 1..Len(f.observations)
          /\ Len(f.history) \in DOMAIN f.history /\ f.history[Len(f.history)] = Last(f.history)
      BY <1>1, AppendIsSeq, LastIs
    <3>2. relevant \subseteq 1..Len(f.observations)
      BY <3>1 DEF Relevant
    <3>3. ASSUME NEW i \in relevant, f.observations[i].env = env, \A j \in relevant : j <= i
          PROVE  \/ Blocked(Disposition(f, fp, ProjectOf[t], env, override))
                 \/ override = Last(f.history).authority
      <4>1. LatestRelevant(relevant) \in relevant /\ \A j \in relevant : j <= LatestRelevant(relevant)
        BY <3>3 DEF LatestRelevant
      <4>2. \A a, b \in relevant : a <= b /\ b <= a => a = b
        BY <3>1, <3>2
      <4>3. LatestRelevant(relevant) = i
        BY <3>3, <4>1, <4>2
      <4> QED BY <1>3, <3>3, <4>3 DEF Disposition, Blocked
    <3>4. /\ d.fingerprint = fp /\ d.project = ProjectOf[t] /\ d.env = env
          /\ d.disposition = Disposition(f, fp, ProjectOf[t], env, override)
          /\ d.override = override /\ d.seen = Len(f.observations) /\ d.registry = Len(f.history)
      OBVIOUS
    <3>5. Relevant(f, d.fingerprint, d.project) \cap (1..d.seen) = relevant
      BY <3>2, <3>4
    <3> HIDE DEF d, relevant
    <3> QED BY <3>1, <3>3, <3>4, <3>5 DEF Informed
  <2> HIDE DEF d, g
  <2>3. /\ IsSeq(g.decisions) /\ DOMAIN f.decisions = 1..Len(f.decisions)
        /\ DOMAIN g.decisions = 1..(Len(f.decisions) + 1) /\ Len(f.decisions) \in Nat
        /\ \A n \in 1..Len(f.decisions) : g.decisions[n] = f.decisions[n]
        /\ g.decisions[Len(f.decisions) + 1] = d
    BY <1>1, <2>1, AppendIsSeq
  <2>4. \A n \in DOMAIN g.decisions : Informed(g.decisions[n], f)
    <3>1. \A n \in DOMAIN g.decisions : n \in 1..Len(f.decisions) \/ n = Len(f.decisions) + 1
      BY <2>3
    <3> QED BY <1>1, <2>2, <2>3, <3>1
  <2>5. \A n \in DOMAIN g.decisions : Informed(g.decisions[n], g)
    BY <2>1, <2>4 DEF Informed, Relevant
  <2>6. IsRegistry(g)
    BY <1>1, <2>1, <2>3, <2>5 DEF IsRegistry
  <2> QED BY <2>6 DEF g
<1> QED BY <1>2, <1>3

LEMMA GrownIsRegistry ==
  ASSUME NEW f, IsRegistry(f),
         NEW g, DOMAIN g = DOMAIN f, g.decisions = f.decisions,
         g.observations = f.observations \/ \E o : g.observations = Append(f.observations, o),
         g.history = f.history \/ \E h : g.history = Append(f.history, h)
  PROVE  IsRegistry(g)
<1>1. IsSeq(f.history) /\ IsSeq(f.observations) /\ IsSeq(f.decisions)
  BY DEF IsRegistry
<1>2. IsSeq(g.history) /\ IsSeq(g.observations)
  <2>1. \A s, e : IsSeq(s) => IsSeq(Append(s, e))
    BY AppendIsSeq
  <2> QED BY <1>1, <2>1
<1>3. /\ \A i \in DOMAIN f.observations :
           i \in DOMAIN g.observations /\ g.observations[i] = f.observations[i]
      /\ \A i \in DOMAIN f.history : i \in DOMAIN g.history /\ g.history[i] = f.history[i]
  BY <1>1, ExtendsKeeps
<1>4. \A n \in DOMAIN f.decisions : Informed(f.decisions[n], g)
  BY <1>1, <1>2, <1>3, InformedStays DEF IsRegistry
<1> QED BY <1>1, <1>2, <1>4 DEF IsRegistry

LEMMA RecordedIsRegistry ==
  ASSUME NEW f, IsRegistry(f), NEW o
  PROVE  IsRegistry(Recorded(f, o)) /\ Recorded(f, o).history = f.history
<1>1. /\ DOMAIN Recorded(f, o) = DOMAIN f /\ Recorded(f, o).decisions = f.decisions
      /\ Recorded(f, o).history = f.history
      /\ \/ Recorded(f, o).observations = f.observations
         \/ Recorded(f, o).observations = Append(f.observations, o)
  BY DEF IsRegistry, Recorded
<1> QED BY <1>1, GrownIsRegistry

LEMMA StepInformed ==
  ASSUME Shape, DecisionsInformed, [Next]_vars
  PROVE  DecisionsInformed'
<1> DEFINE Good == IsRegistry(state'.failures)
<1>0. IsRegistry(Failures)
  BY DEF DecisionsInformed
<1>1. ASSUME state'.failures = Failures PROVE Good
  BY <1>0, <1>1
<1>2. ASSUME NEW o, state'.failures = Recorded(Failures, o) PROVE Good
  BY <1>0, <1>2, RecordedIsRegistry
<1>3. ASSUME NEW fp, NEW t, NEW env, NEW o, state'.failures = Evaluated(Failures, fp, t, env, o),
             NEW p, HasFingerprint(Failures, fp, p)
      PROVE  Good
  BY <1>0, <1>3, EvaluatedIsInformed DEF HasFingerprint
<1>4. /\ \A t, r, f : SaveTask(t, r, f) => state'.failures = f
      /\ \A f : Recover(f) => state'.failures = f
      /\ \A f : Save("failures", f) => state'.failures = f
  BY DEF SaveTask, Recover, Save, Shape
<1>5. ASSUME NEW s, ImportFailureRegistry(s) PROVE Good
  <2>1. state'.failures = [Failures EXCEPT !.history = Append(@, s)]
    BY <1>4, <1>5 DEF ImportFailureRegistry
  <2>2. /\ DOMAIN state'.failures = DOMAIN Failures
        /\ state'.failures.history = Append(Failures.history, s)
        /\ state'.failures.observations = Failures.observations
        /\ state'.failures.decisions = Failures.decisions
    BY <1>0, <2>1 DEF IsRegistry
  <2> QED BY <1>0, <2>2, GrownIsRegistry
<1>6. ASSUME NEW o, RecordFailure(o) PROVE Good
  BY <1>2, <1>4, <1>6 DEF RecordFailure
<1>7. ASSUME NEW fp, NEW t, NEW e, NEW o, EvaluateRetry(fp, t, e, o) PROVE Good
  BY <1>3, <1>4, <1>7 DEF EvaluateRetry
<1>8. ASSUME NEW t, NEW x, NEW fp, NEW e, NEW id, FailWith(t, x, fp, e, id) PROVE Good
  <2>1. state'.failures \in {Failures, Recorded(Failures, Observation(id, fp, t, e))}
    BY <1>4, <1>8 DEF FailWith
  <2> QED BY <1>1, <1>2, <2>1
<1>9. ASSUME NEW t, NEW o, ContinueTask(t, o) PROVE Good
  <2> DEFINE known == /\ Tasks[t].blocker # Nothing
                      /\ HasFingerprint(Failures, Tasks[t].blocker, ProjectOf[t])
  <2>1. state'.failures = IF known THEN Evaluated(Failures, Tasks[t].blocker, t, Tasks[t].env, o)
                                   ELSE Failures
    BY <1>4, <1>9 DEF ContinueTask
  <2> QED BY <1>1, <1>3, <2>1
<1>10. ASSUME \/ \E t : QueueTask(t) \/ LeaveTask(t) \/ AuthorizeTask(t) \/ GenerateManualPackage(t)
               \/ RecoverTasks
       PROVE  Good
  <2>1. (\E t, r : SaveTask(t, r, Failures)) \/ Recover(Failures)
    BY <1>10 DEF QueueTask, LeaveTask, AuthorizeTask, GenerateManualPackage, RecoverTasks
  <2> QED BY <1>1, <1>4, <2>1
<1>11. ASSUME NEW id, NEW failure, NEW a, NEW q, NEW l, RouteAfterConnector403(id, failure, a, q, l)
       PROVE  Good
  <2> DEFINE o == Observation(id, Connector403, failure.task, failure.permission)
             recorded == Recorded(Failures, o)
  <2>1. /\ state'.failures = Evaluated(recorded, Connector403, failure.task, o.env, Nothing)
        /\ Failures.history # <<>>
    BY <1>11 DEF RouteAfterConnector403, HasFingerprint, Shape
  <2>2. IsRegistry(recorded) /\ recorded.history = Failures.history
    BY <1>0, RecordedIsRegistry
  <2> HIDE DEF recorded, o
  <2> QED BY <2>1, <2>2, EvaluatedIsInformed
<1>12. state'["failures"] # state["failures"] => ObservationsNext \/ RetriesNext \/ RouteNext
  BY Owners DEF Shape
<1> HIDE DEF Good
<1>13. ASSUME ObservationsNext PROVE Good
  BY <1>5, <1>6, <1>13 DEF ObservationsNext
<1>14. ASSUME RetriesNext PROVE Good
  BY <1>7, <1>8, <1>9, <1>10, <1>14 DEF RetriesNext
<1>15. ASSUME RouteNext PROVE Good
  BY <1>11, <1>15 DEF RouteNext
<1>16. Good
  BY <1>1, <1>12, <1>13, <1>14, <1>15 DEF Failures
<1> QED BY <1>16 DEF DecisionsInformed, Failures, Good

LEMMA InformedAreRight == DecisionsInformed => RetriesAreInformed
<1> SUFFICES ASSUME DecisionsInformed, NEW n \in DOMAIN Failures.decisions
             PROVE  LET d == Failures.decisions[n]
                        relevant == Relevant(Failures, d.fingerprint, d.project) \cap (1..d.seen)
                    IN (\E i \in relevant : /\ Failures.observations[i].env = d.env
                                            /\ \A j \in relevant : j <= i)
                         => \/ Blocked(d.disposition)
                            \/ d.override = Failures.history[d.registry].authority
  BY DEF RetriesAreInformed
<1>1. Informed(Failures.decisions[n], Failures)
  BY DEF DecisionsInformed, IsRegistry
<1> QED BY <1>1 DEF Informed

\* The local channel is chosen by a route that looked at all of it.
LEMMA StepRoute ==
  ASSUME Shape, RouteIsAuthorized, [Next]_vars
  PROVE  RouteIsAuthorized'
<1> DEFINE Authorized(r) ==
             r.channel = "local" =>
               /\ r.authority.mutationAllowed
               /\ r.request.identity = r.authority.identity /\ r.local.identity = r.authority.identity
               /\ r.request.remote = r.authority.identity /\ r.local.login = r.authority.login
               /\ r.request.paths \subseteq r.request.scope
<1>1. Authorized(outside.route)
  BY DEF RouteIsAuthorized
<1>2. ASSUME NEW id, NEW failure, NEW a, NEW q, NEW l, RouteAfterConnector403(id, failure, a, q, l)
      PROVE  Authorized(outside'.route)
  <2> DEFINE r == [channel |-> IF LocalRoute(a, q, l) THEN "local" ELSE "none",
                   request |-> q, authority |-> a, local |-> l]
  <2>1. outside'.route = r \/ outside' = outside
    BY <1>2 DEF RouteAfterConnector403, Shape
  <2>2. Authorized(r)
    <3>1. /\ r.channel = "local" => LocalRoute(a, q, l)
          /\ r.request = q /\ r.authority = a /\ r.local = l
      OBVIOUS
    <3> HIDE DEF r
    <3> QED BY <3>1 DEF LocalRoute, EvaluateRdcPreflight
  <2> HIDE DEF r, Authorized
  <2> QED BY <1>1, <2>1, <2>2
<1>3. outside'["route"] # outside["route"] => RouteNext
  BY OwnersOfOutside DEF Shape
<1> HIDE DEF Authorized
<1>4. Authorized(outside'.route)
  BY <1>1, <1>2, <1>3 DEF RouteNext
<1> QED BY <1>4 DEF RouteIsAuthorized, Authorized

-----------------------------------------------------------------------------
(***************************************************************************)
(* Incidents.  A closed one went through all its steps, and a root cause   *)
(* that is classified anew sends it back to the learning.                  *)
(***************************************************************************)
IncidentFields == {"observation", "status", "cause", "lesson", "acceptance"}

IsLearned(n, history) ==
  \E h \in ToSet(history) : \E r \in h.records :
    r.fingerprint = n.observation.fingerprint /\ r.lesson = n.lesson

IsIncident(n, history) ==
  /\ DOMAIN n = IncidentFields
  /\ n.status \in {"ROOT_CAUSE_CLASSIFIED", "LEARNING_BOUND", "PREVENTION_VERIFIED", "CLOSED"} =>
       n.cause # Nothing
  /\ n.status \in {"LEARNING_BOUND", "PREVENTION_VERIFIED", "CLOSED"} => IsLearned(n, history)
  /\ n.status \in {"PREVENTION_VERIFIED", "CLOSED"} =>
       n.acceptance.accepted /\ n.acceptance.missing = {} /\ n.acceptance.failed = {}

IncidentsInCourse ==
  \A i \in DOMAIN Learning.incidents : IsIncident(Learning.incidents[i], Failures.history)

CandidatesOfClosed ==
  \A i \in DOMAIN Learning.incidents :
    Learning.incidents[i].status = "CLOSED" =>
      \/ i \in outside.cut
      \/ /\ i \in DOMAIN Learning.candidates
         /\ Learning.candidates[i].lesson = Learning.incidents[i].lesson

\* A step of an incident that does not close it.
Moves(i, n) ==
  /\ outside'.cut = outside.cut /\ state'.failures = state.failures
  /\ state'.learning.candidates = Learning.candidates
  /\ \/ /\ i \in DOMAIN Learning.incidents
        /\ state'.learning.incidents = [Learning.incidents EXCEPT ![i] = n]
     \/ state'.learning.incidents = With(Learning.incidents, i, n)
  /\ n.status # "CLOSED"

Closes(i, n) ==
  /\ i \in DOMAIN Learning.incidents
  /\ Learning.incidents[i].status = "PREVENTION_VERIFIED"
  /\ n = [Learning.incidents[i] EXCEPT !.status = "CLOSED"]
  /\ state'.learning.incidents = [Learning.incidents EXCEPT ![i] = n]
  /\ state'.failures = state.failures
  /\ \/ /\ outside'.cut = outside.cut
        /\ \E c : /\ c.lesson = Learning.incidents[i].lesson
                  /\ state'.learning.candidates = With(Learning.candidates, i, c)
     \/ /\ outside'.cut = outside.cut \cup {i}
        /\ state'.learning.candidates = Learning.candidates

LEMMA IncidentMoves ==
  ASSUME Shape, LearningShape, FailuresShape, IncidentsInCourse, IncidentsNext
  PROVE  \E i, n : /\ IsIncident(n, Failures.history)
                   /\ Moves(i, n) \/ Closes(i, n)
<1> DEFINE Goal == \E i, n : IsIncident(n, Failures.history) /\ (Moves(i, n) \/ Closes(i, n))
<1>1. /\ DOMAIN Learning = {"incidents", "candidates"} /\ Learning = state.learning
      /\ IsSeq(Failures.history)
  BY DEF LearningShape, FailuresShape, Learning
<1>2. ASSUME NEW v, Save("learning", v)
      PROVE  state'.learning = v /\ state'.failures = state.failures /\ outside' = outside
  BY <1>2 DEF Save, Shape
<1>3. ASSUME NEW i, StatusOf(i) # "none"
      PROVE  /\ i \in DOMAIN Learning.incidents /\ StatusOf(i) = Learning.incidents[i].status
             /\ IsIncident(Learning.incidents[i], Failures.history)
  BY <1>3 DEF StatusOf, IncidentsInCourse
<1>4. ASSUME NEW i, NEW n, Replace(i, n), i \in DOMAIN Learning.incidents, n.status # "CLOSED"
      PROVE  Moves(i, n)
  <2>1. /\ state'.learning = [Learning EXCEPT !.incidents[i] = n]
        /\ state'.failures = state.failures /\ outside' = outside
    BY <1>2, <1>4 DEF Replace
  <2>2. /\ state'.learning.incidents = [Learning.incidents EXCEPT ![i] = n]
        /\ state'.learning.candidates = Learning.candidates
    BY <1>1, <2>1
  <2> QED BY <1>4, <2>1, <2>2 DEF Moves
<1>5. ASSUME NEW i, NEW id, OpenIncident(i, id) PROVE Goal
  <2>1. PICK o : Save("learning", [Learning EXCEPT !.incidents = With(@, i,
                   [observation |-> o, status |-> "OPEN", cause |-> Nothing,
                    lesson |-> Nothing, acceptance |-> Nothing])])
    BY <1>5 DEF OpenIncident
  <2> DEFINE n == [observation |-> o, status |-> "OPEN", cause |-> Nothing,
                   lesson |-> Nothing, acceptance |-> Nothing]
  <2>2. n.status = "OPEN" /\ DOMAIN n = IncidentFields
    BY DEF IncidentFields
  <2> HIDE DEF n
  <2>3. /\ state'.learning = [Learning EXCEPT !.incidents = With(@, i, n)]
        /\ state'.failures = state.failures /\ outside' = outside
    BY <1>2, <2>1 DEF n
  <2>4. /\ state'.learning.incidents = With(Learning.incidents, i, n)
        /\ state'.learning.candidates = Learning.candidates
    BY <1>1, <2>3
  <2>5. IsIncident(n, Failures.history)
    BY <2>2 DEF IsIncident
  <2>6. Moves(i, n)
    BY <2>2, <2>3, <2>4 DEF Moves
  <2> QED BY <2>5, <2>6
<1>6. ASSUME NEW i, NEW c \in RootCause, ClassifyRootCause(i, c) PROVE Goal
  <2> DEFINE old == Learning.incidents[i]
             n == [old EXCEPT !.status = "ROOT_CAUSE_CLASSIFIED", !.cause = c]
  <2>1. /\ Replace(i, n) /\ i \in DOMAIN Learning.incidents /\ IsIncident(old, Failures.history)
    BY <1>3, <1>6 DEF ClassifyRootCause
  <2>2. DOMAIN n = IncidentFields /\ n.status = "ROOT_CAUSE_CLASSIFIED" /\ n.cause = c
    BY <2>1 DEF IsIncident, IncidentFields
  <2>3. c # Nothing
    BY CausesAreGiven
  <2> HIDE DEF n
  <2>4. IsIncident(n, Failures.history)
    BY <2>2, <2>3 DEF IsIncident
  <2>5. Moves(i, n)
    BY <1>4, <2>1, <2>2
  <2> QED BY <2>4, <2>5
<1>7. ASSUME NEW i, BindLearning(i) PROVE Goal
  <2> DEFINE old == Learning.incidents[i]
             o == old.observation
             r == RegistryRecord(Failures, o.fingerprint)
             n == [old EXCEPT !.status = "LEARNING_BOUND", !.lesson = r.lesson]
  <2>1. /\ StatusOf(i) = "ROOT_CAUSE_CLASSIFIED" /\ Replace(i, n)
        /\ HasFingerprint(Failures, o.fingerprint, o.project)
    BY <1>7 DEF BindLearning
  <2>2. /\ i \in DOMAIN Learning.incidents /\ IsIncident(old, Failures.history)
        /\ old.status = "ROOT_CAUSE_CLASSIFIED"
    BY <1>3, <2>1
  <2>3. /\ DOMAIN n = IncidentFields /\ n.status = "LEARNING_BOUND" /\ n.cause = old.cause
        /\ n.lesson = r.lesson /\ n.observation = o
    <3> HIDE DEF r
    <3> QED BY <2>2 DEF IsIncident, IncidentFields
  <2>4. r \in Last(Failures.history).records /\ r.fingerprint = o.fingerprint
    BY <2>1 DEF HasFingerprint, RegistryRecord
  <2>5. Last(Failures.history) \in ToSet(Failures.history)
    BY <1>1, <2>1, LastIs DEF HasFingerprint
  <2> HIDE DEF n, r, o
  <2>6. IsLearned(n, Failures.history)
    BY <2>3, <2>4, <2>5 DEF IsLearned
  <2>7. IsIncident(n, Failures.history)
    BY <2>2, <2>3, <2>6 DEF IsIncident
  <2>8. Moves(i, n)
    BY <1>4, <2>1, <2>2, <2>3
  <2> QED BY <2>7, <2>8
<1>8. ASSUME NEW i, NEW d, VerifyPrevention(i, d) PROVE Goal
  <2> DEFINE old == Learning.incidents[i]
             n == [old EXCEPT !.status = "PREVENTION_VERIFIED", !.acceptance = d]
  <2>1. /\ StatusOf(i) = "LEARNING_BOUND" /\ Replace(i, n) /\ CompletelyAccepted(d)
    BY <1>8 DEF VerifyPrevention
  <2>2. /\ i \in DOMAIN Learning.incidents /\ IsIncident(old, Failures.history)
        /\ old.status = "LEARNING_BOUND"
    BY <1>3, <2>1
  <2>3. /\ DOMAIN n = IncidentFields /\ n.status = "PREVENTION_VERIFIED" /\ n.cause = old.cause
        /\ n.lesson = old.lesson /\ n.observation = old.observation /\ n.acceptance = d
    BY <2>2 DEF IsIncident, IncidentFields
  <2> HIDE DEF n
  <2>4. IsIncident(n, Failures.history)
    BY <2>1, <2>2, <2>3 DEF IsIncident, IsLearned, CompletelyAccepted
  <2>5. Moves(i, n)
    BY <1>4, <2>1, <2>2, <2>3
  <2> QED BY <2>4, <2>5
<1>9. ASSUME NEW i, CloseIncident(i) PROVE Goal
  <2> DEFINE old == Learning.incidents[i]
             n == [old EXCEPT !.status = "CLOSED"]
             closed == [Learning EXCEPT !.incidents[i].status = "CLOSED"]
  <2>1. /\ i \in DOMAIN Learning.incidents /\ IsIncident(old, Failures.history)
        /\ old.status = "PREVENTION_VERIFIED"
    BY <1>3, <1>9 DEF CloseIncident
  <2>2. /\ DOMAIN n = IncidentFields /\ n.status = "CLOSED" /\ n.cause = old.cause
        /\ n.lesson = old.lesson /\ n.observation = old.observation /\ n.acceptance = old.acceptance
    BY <2>1 DEF IsIncident, IncidentFields
  <2>3. /\ DOMAIN closed = {"incidents", "candidates"} /\ closed.candidates = Learning.candidates
        /\ closed.incidents = [Learning.incidents EXCEPT ![i] = n]
    BY <1>1
  <2>4. /\ state'.failures = state.failures
        /\ \/ /\ outside' = outside
              /\ \E c : /\ c.lesson = old.lesson
                        /\ state'.learning = [closed EXCEPT !.candidates = With(@, i, c)]
           \/ state'.learning = closed /\ outside'.cut = outside.cut \cup {i}
    <3>1. /\ \/ Save("learning",
                 [closed EXCEPT !.candidates = With(@, i,
                    [lesson |-> old.lesson, fingerprint |-> old.observation.fingerprint,
                     project |-> old.observation.project])])
             \/ /\ state' = [state EXCEPT !.learning = closed]
                /\ outside' = [outside EXCEPT !.cut = @ \cup {i}]
      BY <1>9 DEF CloseIncident
    <3> HIDE DEF closed, old
    <3> QED BY <1>2, <3>1 DEF Shape
  <2> HIDE DEF closed
  <2>5. Closes(i, n)
    <3>1. state'.learning.incidents = [Learning.incidents EXCEPT ![i] = n]
      <4> HIDE DEF n
      <4> QED BY <2>3, <2>4
    <3>2. CASE state'.learning = closed /\ outside'.cut = outside.cut \cup {i}
      BY <2>1, <2>3, <2>4, <3>1, <3>2 DEF Closes
    <3>3. ASSUME NEW c, outside' = outside, c.lesson = old.lesson,
                 state'.learning = [closed EXCEPT !.candidates = With(@, i, c)]
          PROVE  Closes(i, n)
      <4>1. state'.learning.candidates = With(Learning.candidates, i, c)
        BY <2>3, <3>3
      <4> QED BY <2>1, <2>4, <3>1, <3>3, <4>1 DEF Closes
    <3> QED BY <2>4, <3>2, <3>3
  <2> HIDE DEF n
  <2>6. IsIncident(n, Failures.history)
    BY <2>1, <2>2 DEF IsIncident, IsLearned
  <2> QED BY <2>5, <2>6
<1> HIDE DEF Goal
<1>10. Goal
  BY <1>5, <1>6, <1>7, <1>8, <1>9 DEF IncidentsNext
<1> QED BY <1>10 DEF Goal

LEMMA StepLearned ==
  ASSUME Shape, LearningShape, FailuresShape, IncidentsInCourse, CandidatesOfClosed, [Next]_vars
  PROVE  IncidentsInCourse' /\ CandidatesOfClosed'
<1> DEFINE Goal == IncidentsInCourse' /\ CandidatesOfClosed'
<1>1. ToSet(Failures.history) \subseteq ToSet(state'.failures.history)
  <2>1. \/ state'.failures.history = Failures.history
        \/ \E h : state'.failures.history = Append(Failures.history, h)
    BY FailureMoves DEF FailuresGrow
  <2>2. \A e : ToSet(Append(Failures.history, e)) = ToSet(Failures.history) \cup {e}
    BY AppendToSet DEF FailuresShape
  <2> HIDE DEF Failures
  <2> QED BY <2>1, <2>2
<1>2. ASSUME NEW n, IsIncident(n, Failures.history) PROVE IsIncident(n, state'.failures.history)
  BY <1>1, <1>2 DEF IsIncident, IsLearned
<1>3. \A i \in DOMAIN Learning.incidents : IsIncident(Learning.incidents[i], state'.failures.history)
  BY <1>2 DEF IncidentsInCourse
<1>4. ASSUME state'.learning = state.learning, outside'.cut = outside.cut PROVE Goal
  BY <1>3, <1>4 DEF IncidentsInCourse, CandidatesOfClosed, Learning, Failures
<1>5. ASSUME NEW i, NEW n, IsIncident(n, Failures.history), Moves(i, n) PROVE Goal
  <2>1. IsIncident(n, state'.failures.history)
    BY <1>2, <1>5
  <2>2. /\ DOMAIN Learning.incidents \subseteq DOMAIN state'.learning.incidents
        /\ \A j \in DOMAIN state'.learning.incidents :
             \/ j = i /\ state'.learning.incidents[j] = n
             \/ j \in DOMAIN Learning.incidents /\ state'.learning.incidents[j] = Learning.incidents[j]
    BY <1>5 DEF Moves, With
  <2>3. IncidentsInCourse'
    BY <1>3, <2>1, <2>2 DEF IncidentsInCourse, Learning, Failures
  <2>4. CandidatesOfClosed'
    BY <1>5, <2>2 DEF Moves, CandidatesOfClosed, Learning
  <2> QED BY <2>3, <2>4
<1>6. ASSUME NEW i, NEW n, IsIncident(n, Failures.history), Closes(i, n) PROVE Goal
  <2>1. IsIncident(n, state'.failures.history)
    BY <1>2, <1>6
  <2>2. /\ DOMAIN state'.learning.incidents = DOMAIN Learning.incidents
        /\ state'.learning.incidents[i] = n
        /\ \A j \in DOMAIN Learning.incidents \ {i} :
             state'.learning.incidents[j] = Learning.incidents[j]
    BY <1>6 DEF Closes
  <2>3. IncidentsInCourse'
    BY <1>3, <2>1, <2>2 DEF IncidentsInCourse, Learning, Failures
  <2>4. n.lesson = Learning.incidents[i].lesson
    BY <1>6 DEF Closes, IncidentsInCourse, IsIncident, IncidentFields
  <2>5. CandidatesOfClosed'
    <3>1. CASE outside'.cut = outside.cut \cup {i} /\ state'.learning.candidates = Learning.candidates
      BY <2>2, <3>1 DEF CandidatesOfClosed, Learning
    <3>2. ASSUME NEW c, c.lesson = Learning.incidents[i].lesson, outside'.cut = outside.cut,
                 state'.learning.candidates = With(Learning.candidates, i, c)
          PROVE  CandidatesOfClosed'
      BY <2>2, <2>4, <3>2 DEF CandidatesOfClosed, Learning, With
    <3> QED BY <1>6, <3>1, <3>2 DEF Closes
  <2> QED BY <2>3, <2>5
<1>7. /\ state'["learning"] # state["learning"] => IncidentsNext
      /\ outside'["cut"] # outside["cut"] => IncidentsNext
  BY Owners, OwnersOfOutside DEF Shape
<1> HIDE DEF Goal
<1>8. IncidentsNext => Goal
  BY <1>5, <1>6, IncidentMoves
<1> QED BY <1>4, <1>7, <1>8 DEF Goal

LEMMA ClosedAreLearned == IncidentsInCourse /\ CandidatesOfClosed => ClosedIsLearned
  BY DEF IncidentsInCourse, CandidatesOfClosed, IsIncident, IsLearned, ClosedIsLearned

-----------------------------------------------------------------------------
(***************************************************************************)
(* Access.  A session is of the link that was redeemed for it, and lives   *)
(* from then on; purged is what is too old.                                *)
(***************************************************************************)
IsSession(k, s, redeemed) ==
  \E r \in ToSet(redeemed) :
    /\ r.nonce = k /\ r.principal = s.principal
    /\ r.at \in Nat /\ r.at <= Now /\ s.expires = r.at + SessionTtl

SessionsAreOfLinks ==
  \A k \in DOMAIN memory.access.sessions :
    IsSession(k, memory.access.sessions[k], outside.access.redeemed)

IsRightful(a, redeemed) ==
  /\ a.scope \in ScopesOf[a.client]
  /\ a.session # Nothing =>
       \E r \in ToSet(redeemed) :
         /\ r.nonce = a.session /\ r.principal = a.client
         /\ r.at <= a.at /\ a.at < r.at + SessionTtl

PassedSoFar ==
  \A i \in DOMAIN outside.access.accepted :
    IsRightful(outside.access.accepted[i], outside.access.redeemed)

LEMMA PurgedSessions ==
  ASSUME AccessShape
  PROVE  LET p == Purged(memory.access) IN
         /\ DOMAIN p = {"pending", "sessions", "bucket"}
         /\ DOMAIN p.sessions \subseteq DOMAIN memory.access.sessions
         /\ \A k \in DOMAIN p.sessions : /\ p.sessions[k] = memory.access.sessions[k]
                                         /\ p.sessions[k].expires > Now
  BY DEF AccessShape, Purged, Alive

LEMMA StepRightful ==
  ASSUME Shape, AccessShape, SessionsAreOfLinks, PassedSoFar, [Next]_vars
  PROVE  SessionsAreOfLinks' /\ PassedSoFar'
<1> DEFINE p == Purged(memory.access)
           Goal == SessionsAreOfLinks' /\ PassedSoFar'
           Sessions1 == memory'.access.sessions
           Redeemed1 == outside'.access.redeemed
           Accepted1 == outside'.access.accepted
<1>1. /\ DOMAIN p = {"pending", "sessions", "bucket"}
      /\ DOMAIN p.sessions \subseteq DOMAIN memory.access.sessions
      /\ \A k \in DOMAIN p.sessions : /\ p.sessions[k] = memory.access.sessions[k]
                                      /\ p.sessions[k].expires > Now
  BY PurgedSessions
<1>2. /\ DOMAIN memory.access = {"pending", "sessions", "bucket"}
      /\ DOMAIN outside.access = {"now", "issued", "redeemed", "accepted"}
      /\ Now \in Nat /\ Now = outside.access.now
      /\ IsSeq(outside.access.redeemed) /\ IsSeq(outside.access.accepted)
  BY DEF AccessShape, Now
<1>3. ASSUME NEW access, NEW seen, Serve(access, seen)
      PROVE  memory'.access = access /\ outside'.access = seen
  BY <1>3 DEF Serve, Shape
<1>4. \A k \in DOMAIN p.sessions : IsSession(k, p.sessions[k], outside.access.redeemed)
  <2> HIDE DEF p
  <2> QED BY <1>1 DEF SessionsAreOfLinks
<1>5. ASSUME DOMAIN Sessions1 \subseteq DOMAIN memory.access.sessions,
             \A k \in DOMAIN Sessions1 : Sessions1[k] = memory.access.sessions[k],
             Redeemed1 = outside.access.redeemed, Now <= Now', Now' \in Nat
      PROVE  SessionsAreOfLinks'
  <2>1. ASSUME NEW k \in DOMAIN Sessions1
        PROVE  \E r \in ToSet(Redeemed1) :
                 /\ r.nonce = k /\ r.principal = Sessions1[k].principal
                 /\ r.at \in Nat /\ r.at <= Now' /\ Sessions1[k].expires = r.at + SessionTtl
    <3>1. IsSession(k, Sessions1[k], outside.access.redeemed)
      BY <1>5, <2>1 DEF SessionsAreOfLinks
    <3> HIDE DEF Sessions1
    <3> QED BY <1>2, <1>5, <3>1 DEF IsSession
  <2> QED BY <2>1 DEF SessionsAreOfLinks, IsSession
<1>6. ASSUME Accepted1 = outside.access.accepted, Redeemed1 = outside.access.redeemed
      PROVE  PassedSoFar'
  BY <1>6 DEF PassedSoFar, IsRightful
<1>7. ASSUME NEW q, NEW n, IssueLaunch(q, n) PROVE Goal
  <2>1. /\ memory'.access = [p EXCEPT !.pending = With(@, n, Lease(q, LaunchTtl))]
        /\ outside'.access = [outside.access EXCEPT !.issued = @ \cup {n}]
    BY <1>3, <1>7 DEF IssueLaunch
  <2>2. /\ Sessions1 = p.sessions
        /\ Redeemed1 = outside.access.redeemed /\ Accepted1 = outside.access.accepted
        /\ outside'.access.now = outside.access.now
    <3> HIDE DEF p
    <3> QED BY <1>1, <1>2, <2>1
  <2>3. Now' = Now
    BY <2>2 DEF Now
  <2> HIDE DEF p, Sessions1, Redeemed1, Accepted1
  <2> QED BY <1>1, <1>2, <1>5, <1>6, <2>2, <2>3
<1>8. ASSUME NEW n, NEW l, RedeemLaunch(n, l) PROVE Goal
  <2>1. CASE n \notin DOMAIN p.pending
    <3>1. memory'.access = p /\ outside'.access = outside.access
      BY <1>3, <1>8, <2>1 DEF RedeemLaunch
    <3>2. Now' = Now
      BY <3>1 DEF Now
    <3>3. Sessions1 = p.sessions /\ Redeemed1 = outside.access.redeemed
          /\ Accepted1 = outside.access.accepted
      BY <3>1
    <3> HIDE DEF p, Sessions1, Redeemed1, Accepted1
    <3> QED BY <1>1, <1>2, <1>5, <1>6, <3>2, <3>3
  <2>2. CASE n \in DOMAIN p.pending
    <3> DEFINE who == p.pending[n].principal
               s == Lease(who, SessionTtl)
               r == [nonce |-> n, principal |-> who, at |-> Now]
    <3>1. /\ memory'.access = [p EXCEPT !.pending = Without(@, n), !.sessions = With(@, n, s)]
          /\ outside'.access = [outside.access EXCEPT !.redeemed = Append(@, r)]
      <4>1. Serve([p EXCEPT !.pending = Without(@, n), !.sessions = With(@, n, s)],
                  [outside.access EXCEPT !.redeemed = Append(@, r)])
        BY <1>8, <2>2 DEF RedeemLaunch
      <4> QED BY <1>3, <4>1
    <3>2. /\ Sessions1 = With(p.sessions, n, s)
          /\ Redeemed1 = Append(outside.access.redeemed, r)
          /\ Accepted1 = outside.access.accepted
          /\ outside'.access.now = outside.access.now
      <4> HIDE DEF p, s, r
      <4> QED BY <1>1, <1>2, <3>1
    <3>3. Now' = Now
      BY <3>2 DEF Now
    <3>4. r.nonce = n /\ r.principal = s.principal /\ r.at = Now /\ s.expires = r.at + SessionTtl
      BY DEF Lease
    <3>5. ToSet(Redeemed1) = ToSet(outside.access.redeemed) \cup {r}
      <4> HIDE DEF r
      <4> QED BY <1>2, <3>2, AppendToSet
    <3> HIDE DEF p, r, s, Redeemed1, Accepted1
    <3>6. ASSUME NEW k \in DOMAIN Sessions1
          PROVE  \E x \in ToSet(Redeemed1) :
                   /\ x.nonce = k /\ x.principal = Sessions1[k].principal
                   /\ x.at \in Nat /\ x.at <= Now' /\ Sessions1[k].expires = x.at + SessionTtl
      <4> HIDE DEF Sessions1
      <4>1. CASE k = n
        <5>1. Sessions1[k] = s
          BY <3>2, <4>1 DEF With
        <5> QED BY <1>2, <3>3, <3>4, <3>5, <4>1, <5>1
      <4>2. CASE k # n
        <5>1. k \in DOMAIN p.sessions /\ Sessions1[k] = p.sessions[k]
          BY <3>2, <3>6, <4>2 DEF With
        <5>2. IsSession(k, Sessions1[k], outside.access.redeemed)
          BY <1>4, <5>1
        <5> QED BY <3>3, <3>5, <5>2 DEF IsSession
      <4> QED BY <4>1, <4>2
    <3>7. SessionsAreOfLinks'
      BY <3>6 DEF SessionsAreOfLinks, IsSession, Redeemed1
    <3>8. PassedSoFar'
      BY <3>2, <3>5 DEF PassedSoFar, IsRightful, Redeemed1, Accepted1
    <3> QED BY <3>7, <3>8
  <2> QED BY <2>1, <2>2
<1>9. ASSUME NEW k, NEW q, NEW s, Authenticate(k, q, s) PROVE Goal
  <2> DEFINE session == k \in DOMAIN p.sessions
             c == IF session THEN p.sessions[k].principal ELSE q
             recent == Recent(p.bucket[c])
             a == [client |-> c, at |-> Now, scope |-> s, session |-> IF session THEN k ELSE Nothing]
             more == [p EXCEPT !.bucket[c] = Append(recent, Now)]
             less == [p EXCEPT !.bucket[c] = recent]
             seen == [outside.access EXCEPT !.accepted = Append(@, a)]
  <2>1. /\ s \in ScopesOf[c]
        /\ Serve(more, seen) \/ Serve(less, outside.access)
    BY <1>9 DEF Authenticate
  <2>2. more.sessions = p.sessions /\ less.sessions = p.sessions
    <3> HIDE DEF p, c, recent
    <3> QED BY <1>1
  <2>3. /\ seen.accepted = Append(outside.access.accepted, a)
        /\ seen.redeemed = outside.access.redeemed /\ seen.now = outside.access.now
    <3> HIDE DEF a
    <3> QED BY <1>2
  <2>4. IsRightful(a, outside.access.redeemed)
    <3>1. /\ a.client = c /\ a.at = Now /\ a.scope = s
          /\ a.session = IF session THEN k ELSE Nothing
      <4> HIDE DEF c, session
      <4> QED OBVIOUS
    <3>2. session => /\ IsSession(k, p.sessions[k], outside.access.redeemed)
                     /\ p.sessions[k].expires > Now /\ c = p.sessions[k].principal
      BY <1>1, <1>4
    <3> HIDE DEF a, c, p, session
    <3>3. session => \E r \in ToSet(outside.access.redeemed) :
                       /\ r.nonce = k /\ r.principal = c
                       /\ r.at <= Now /\ Now < r.at + SessionTtl
      BY <1>2, <3>2, LifeIsANumber DEF IsSession
    <3> QED BY <2>1, <3>1, <3>3 DEF IsRightful
  <2>5. \/ memory'.access = more /\ outside'.access = seen
        \/ memory'.access = less /\ outside'.access = outside.access
    <3> HIDE DEF p, c, recent, a, more, less, seen
    <3> QED BY <1>3, <2>1
  <2> HIDE DEF p, c, recent, a, more, less, seen
  <2>6. /\ Sessions1 = p.sessions /\ Redeemed1 = outside.access.redeemed
        /\ outside'.access.now = outside.access.now
        /\ Accepted1 = outside.access.accepted \/ Accepted1 = Append(outside.access.accepted, a)
    BY <2>2, <2>3, <2>5
  <2>7. Now' = Now
    BY <2>6 DEF Now
  <2> HIDE DEF Sessions1, Redeemed1, Accepted1
  <2>8. SessionsAreOfLinks'
    BY <1>1, <1>2, <1>5, <2>6, <2>7
  <2>9. \A i \in DOMAIN Accepted1 : IsRightful(Accepted1[i], outside.access.redeemed)
    <3>1. \A i \in DOMAIN outside.access.accepted :
            IsRightful(outside.access.accepted[i], outside.access.redeemed)
      BY DEF PassedSoFar
    <3>2. ASSUME Accepted1 = Append(outside.access.accepted, a),
                 NEW i \in DOMAIN Accepted1
          PROVE  IsRightful(Accepted1[i], outside.access.redeemed)
      <4> DEFINE m == Len(outside.access.accepted)
      <4>1. /\ m \in Nat /\ DOMAIN outside.access.accepted = 1..m /\ DOMAIN Accepted1 = 1..(m + 1)
            /\ \A j \in 1..m : Accepted1[j] = outside.access.accepted[j]
            /\ Accepted1[m + 1] = a
        BY <1>2, <3>2, AppendIsSeq
      <4> HIDE DEF m
      <4>2. i \in 1..m \/ i = m + 1
        BY <3>2, <4>1
      <4> QED BY <2>4, <3>1, <4>1, <4>2
    <3> QED BY <2>6, <3>1, <3>2
  <2>10. PassedSoFar'
    BY <2>6, <2>9 DEF PassedSoFar, IsRightful, Redeemed1, Accepted1
  <2> QED BY <2>8, <2>10
<1>10. ASSUME Tick PROVE Goal
  <2>1. /\ memory'.access = memory.access
        /\ outside'.access = [outside.access EXCEPT !.now = @ + 1]
    BY <1>3, <1>10 DEF Tick
  <2>2. /\ Sessions1 = memory.access.sessions
        /\ Redeemed1 = outside.access.redeemed /\ Accepted1 = outside.access.accepted
        /\ outside'.access.now = Now + 1
    BY <1>2, <2>1
  <2>3. Now' = Now + 1
    BY <2>2 DEF Now
  <2> HIDE DEF Sessions1, Redeemed1, Accepted1
  <2> QED BY <1>2, <1>5, <1>6, <2>2, <2>3
<1>11. ASSUME ForgetAccess PROVE Goal
  <2>1. /\ memory'.access = NoAccess
        /\ outside'.access = [outside.access EXCEPT !.accepted = <<>>]
    BY <1>3, <1>11 DEF ForgetAccess
  <2>2. DOMAIN Sessions1 = {} /\ DOMAIN Accepted1 = {}
    BY <1>2, <2>1, EmptyIsSeq DEF NoAccess
  <2> QED BY <2>2 DEF SessionsAreOfLinks, PassedSoFar
<1>12. ASSUME memory'.access = memory.access, outside'.access = outside.access PROVE Goal
  <2>1. Now' = Now
    BY <1>12 DEF Now
  <2> QED BY <1>2, <1>5, <1>6, <1>12, <2>1
<1>13. /\ memory'["access"] # memory["access"] => AccessNext
       /\ outside'["access"] # outside["access"] => AccessNext
  BY OwnersOfMemory, OwnersOfOutside DEF Shape
<1> HIDE DEF Goal
<1>14. ASSUME AccessNext PROVE Goal
  BY <1>7, <1>8, <1>9, <1>10, <1>11, <1>14 DEF AccessNext
<1> QED BY <1>12, <1>13, <1>14 DEF Goal

LEMMA RightfulPassed == PassedSoFar => PassedByRight
  BY DEF PassedSoFar, IsRightful, PassedByRight

-----------------------------------------------------------------------------
(***************************************************************************)
(* Health: healthy is entered from a reconciliation only, and somebody     *)
(* authorised each reconciliation.                                         *)
(***************************************************************************)
InCourse(log) ==
  /\ IsSeq(log)
  /\ \A j \in DOMAIN log :
       /\ log[j].to = "HEALTHY" => j > 1 /\ log[j - 1].to = "RECONCILING"
       /\ log[j].to = "RECONCILING" => log[j].authority # Nothing

HealthInCourse == \A p \in DOMAIN state.health : InCourse(state.health[p])

LEMMA StepCourse ==
  ASSUME Shape, HealthInCourse, [Next]_vars
  PROVE  HealthInCourse'
<1>1. CASE state'.health = state.health
  BY <1>1 DEF HealthInCourse, InCourse, IsSeq
<1>2. ASSUME NEW p, NEW expected \in HealthState, NEW target \in HealthState, NEW a,
             TransitionHealth(p, expected, target, a)
      PROVE  HealthInCourse'
  <2> DEFINE log == HealthLog(p)
             e == [from |-> expected, to |-> target, authority |-> a]
             longer == Append(log, e)
  <2>1. /\ HealthOf(p) = expected /\ target \in NextHealth(expected)
        /\ target \in {"RECONCILING", "HEALTHY"} => a # Nothing
        /\ state'.health = With(state.health, p, longer)
    BY <1>2 DEF TransitionHealth, Save, Shape
  <2>2. InCourse(log)
    BY EmptyIsSeq DEF HealthLog, HealthInCourse, InCourse
  <2>3. target = "HEALTHY" => expected = "RECONCILING"
    BY <2>1 DEF NextHealth, HealthState
  <2>4. e.to = target /\ e.authority = a
    OBVIOUS
  <2> DEFINE n == Len(log)
  <2> HIDE DEF e, log
  <2>5. /\ n \in Nat /\ DOMAIN log = 1..n /\ DOMAIN longer = 1..(n + 1) /\ IsSeq(longer)
        /\ \A i \in 1..n : longer[i] = log[i]
        /\ longer[n + 1] = e
    BY <2>2, AppendIsSeq DEF InCourse
  <2>6. expected = "RECONCILING" => n \in 1..n /\ log[n].to = "RECONCILING"
    <3>1. expected = "RECONCILING" => log # <<>> /\ Last(log).to = "RECONCILING"
      BY <2>1 DEF HealthOf, log
    <3> QED BY <2>2, <2>5, <3>1, LastIs DEF InCourse
  <2> HIDE DEF longer, n
  <2>7. InCourse(longer)
    <3>1. ASSUME NEW j \in DOMAIN longer, longer[j].to = "HEALTHY"
          PROVE  j > 1 /\ longer[j - 1].to = "RECONCILING"
      <4>1. CASE j \in 1..n
        <5>1. j > 1 /\ log[j - 1].to = "RECONCILING"
          BY <2>2, <2>5, <3>1, <4>1 DEF InCourse
        <5> QED BY <2>5, <4>1, <5>1
      <4>2. CASE j = n + 1
        <5>1. n \in 1..n /\ log[n].to = "RECONCILING"
          BY <2>3, <2>4, <2>5, <2>6, <3>1, <4>2
        <5>2. j > 1 /\ j - 1 = n
          BY <2>5, <4>2, <5>1
        <5> QED BY <2>5, <5>1, <5>2
      <4> QED BY <2>5, <4>1, <4>2
    <3>2. ASSUME NEW j \in DOMAIN longer, longer[j].to = "RECONCILING"
          PROVE  longer[j].authority # Nothing
      BY <2>1, <2>2, <2>4, <2>5, <3>2 DEF InCourse
    <3> QED BY <2>5, <3>1, <3>2 DEF InCourse
  <2>8. /\ DOMAIN state'.health = {p} \cup DOMAIN state.health /\ state'.health[p] = longer
        /\ \A q \in DOMAIN state.health \ {p} : state'.health[q] = state.health[q]
    BY <2>1 DEF With, longer
  <2>9. ASSUME NEW q \in DOMAIN state'.health PROVE InCourse(state'.health[q])
    <3>1. CASE q = p
      BY <2>7, <2>8, <3>1
    <3>2. CASE q # p
      BY <2>8, <2>9, <3>2 DEF HealthInCourse
    <3> QED BY <3>1, <3>2
  <2> QED BY <2>9 DEF HealthInCourse, InCourse, IsSeq
<1>3. state'["health"] # state["health"] => HealthNext
  BY Owners DEF Shape
<1> QED BY <1>1, <1>2, <1>3 DEF HealthNext

LEMMA CourseIsEarned == HealthInCourse => HealthIsEarned
<1> SUFFICES ASSUME HealthInCourse PROVE HealthIsEarned
  OBVIOUS
<1>1. ASSUME NEW p \in DOMAIN state.health,
             NEW i \in DOMAIN state.health[p], NEW j \in DOMAIN state.health[p],
             i < j, state.health[p][j].to = "HEALTHY"
      PROVE  \E k \in i..j : /\ state.health[p][k].to = "RECONCILING"
                             /\ state.health[p][k].authority # Nothing
  <2> DEFINE log == state.health[p]
  <2>1. InCourse(log)
    BY DEF HealthInCourse
  <2> HIDE DEF log
  <2>2. Len(log) \in Nat /\ DOMAIN log = 1..Len(log)
    BY <2>1, AppendIsSeq DEF InCourse
  <2>3. i \in Nat /\ j \in Nat /\ j <= Len(log) /\ 1 <= i
    BY <1>1, <2>2 DEF log
  <2>4. log[j - 1].to = "RECONCILING"
    BY <1>1, <2>1 DEF log, InCourse
  <2>5. j - 1 \in i..j /\ j - 1 \in DOMAIN log
    BY <1>1, <2>2, <2>3
  <2> QED BY <2>1, <2>4, <2>5 DEF log, InCourse
<1> QED BY <1>1 DEF HealthIsEarned

-----------------------------------------------------------------------------
(***************************************************************************)
(* Direct sessions.                                                        *)
(***************************************************************************)
Outside(c) == c.class # "GOVERNED" /\ (c.class = "PRIVATE" => c.item = c.project)

CommandsOutside ==
  /\ \A s \in DOMAIN state.direct : Outside(state.direct[s].command)
  /\ \A s \in DOMAIN memory.direct : Outside(memory.direct[s])

LEMMA StepCommands ==
  ASSUME Shape, CommandsOutside, [Next]_vars
  PROVE  CommandsOutside'
<1> DEFINE Goal == /\ \A s \in DOMAIN state'.direct : Outside(state'.direct[s].command)
                   /\ \A s \in DOMAIN memory'.direct : Outside(memory'.direct[s])
<1>1. ASSUME NEW s, NEW c, StartDirect(s, c) PROVE Goal
  <2>1. ValidPrompt(c) /\ state' = state /\ memory'.direct = With(memory.direct, s, c)
    BY <1>1 DEF StartDirect, Shape
  <2>2. Outside(c)
    BY <2>1 DEF ValidPrompt, Outside
  <2> QED BY <2>1, <2>2 DEF CommandsOutside, With
<1>2. ASSUME NEW s, NEW x, AnswerDirect(s, x) PROVE Goal
  <2> DEFINE e == [command |-> memory.direct[s], status |-> x]
  <2>1. /\ s \in DOMAIN memory.direct /\ e.command = memory.direct[s]
        /\ memory'.direct = [y \in DOMAIN memory.direct \ {s} |-> memory.direct[y]]
        /\ state'.direct = With(state.direct, s, e)
    BY <1>2 DEF AnswerDirect, Shape
  <2> HIDE DEF e
  <2> QED BY <2>1 DEF CommandsOutside, With
<1>3. ASSUME DirectEnds PROVE Goal
  <2>1. memory'.direct = NoDirect /\ state' = state
    BY <1>3 DEF DirectEnds, Shape
  <2> QED BY <2>1 DEF CommandsOutside, NoDirect
<1>4. ASSUME state'.direct = state.direct, memory'.direct = memory.direct PROVE Goal
  BY <1>4 DEF CommandsOutside
<1>5. /\ state'["direct"] # state["direct"] => DirectNext
      /\ memory'["direct"] # memory["direct"] => DirectNext
  BY Owners, OwnersOfMemory DEF Shape
<1> HIDE DEF Goal
<1>6. ASSUME DirectNext PROVE Goal
  BY <1>1, <1>2, <1>3, <1>6 DEF DirectNext
<1>7. Goal
  BY <1>4, <1>5, <1>6
<1> QED BY <1>7 DEF Goal, CommandsOutside, Outside

LEMMA CommandsStayOutside == CommandsOutside /\ SessionsAreNew => DirectStaysOutside
<1> SUFFICES ASSUME CommandsOutside, SessionsAreNew PROVE DirectStaysOutside
  OBVIOUS
<1> DEFINE working == [s \in DOMAIN memory.direct |-> [command |-> memory.direct[s]]]
<1>1. ASSUME NEW s \in DOMAIN working PROVE working[s].command = memory.direct[s]
  OBVIOUS
<1>2. \A s \in DOMAIN working : Outside(working[s].command)
  BY <1>1 DEF CommandsOutside
<1> HIDE DEF working
<1>3. \A records \in {state.direct, working} : \A s \in DOMAIN records : Outside(records[s].command)
  BY <1>2 DEF CommandsOutside
<1> QED BY <1>3 DEF DirectStaysOutside, SessionsAreNew, Outside, working

-----------------------------------------------------------------------------
(***************************************************************************)
(* What is a prefix.                                                       *)
(***************************************************************************)
LEMMA PrefixIs ==
  ASSUME NEW s, NEW t, IsSeq(s), IsSeq(t), Len(s) <= Len(t), \A i \in 1..Len(s) : t[i] = s[i]
  PROVE  IsPrefix(s, t)
<1>1. Len(s) \in Nat
  BY AppendIsSeq
<1>2. SubSeq(t, 1, Len(s)) = s
  BY KeptIsExtended DEF Promise!Extends
<1>3. SubSeq(s, 1, Len(s)) = s
  BY <1>1, KeptIsExtended DEF Promise!Extends
<1> QED BY <1>2, <1>3 DEF IsPrefix

LEMMA PrefixOfTail ==
  ASSUME NEW s, NEW c, IsSeq(s), IsSeq(c), NEW i \in DOMAIN c,
         \A k \in 1..Len(s) : i + k - 1 \in DOMAIN c /\ c[i + k - 1] = s[k]
  PROVE  IsPrefix(s, SubSeq(c, i, Len(c)))
<1>1. PICK T : c \in Seq(T)
  BY DEF IsSeq
<1> DEFINE m == Len(c)
           n == Len(s)
           t == SubSeq(c, i, m)
<1>2. m \in Nat /\ n \in Nat /\ DOMAIN c = 1..m /\ i \in 1..m /\ \A j \in i..m : c[j] \in T
  <2>1. n \in Nat
    BY AppendIsSeq
  <2> QED BY <1>1, <2>1
<1> HIDE DEF m, n
<1>3. t \in Seq(T) /\ Len(t) = m - i + 1 /\ \A k \in 1..(m - i + 1) : t[k] = c[i + k - 1]
  BY <1>2, SubSeqProperties
<1>4. n <= m - i + 1
  <2>1. CASE n = 0
    BY <1>2, <2>1
  <2>2. CASE n > 0
    <3>1. n \in 1..n
      BY <1>2, <2>2
    <3>2. i + n - 1 \in 1..m
      BY <1>2, <3>1 DEF n
    <3> QED BY <1>2, <3>2
  <2> QED BY <1>2, <2>1, <2>2
<1>5. \A k \in 1..n : t[k] = s[k]
  <2>1. ASSUME NEW k \in 1..n PROVE t[k] = s[k]
    <3>1. k \in 1..(m - i + 1)
      BY <1>2, <1>4
    <3>2. c[i + k - 1] = s[k]
      BY DEF n
    <3> QED BY <1>3, <3>1, <3>2
  <2> QED BY <2>1
<1>6. IsSeq(t)
  BY <1>3 DEF IsSeq
<1> HIDE DEF t
<1>7. IsPrefix(s, t)
  BY <1>3, <1>4, <1>5, <1>6, PrefixIs DEF n
<1> QED BY <1>7 DEF t, m

-----------------------------------------------------------------------------
(***************************************************************************)
(* Skills: how far along the reviews a skill is shows in its stage.        *)
(***************************************************************************)
\* The first n reviews came one after the other from i on; up to the fifth nothing
\* came after them.
PassedFrom(c, i, n) ==
  /\ \A k \in 1..n : i + k - 1 \in DOMAIN c /\ c[i + k - 1] = ReviewCourse[k]
  /\ \A j \in DOMAIN c : j > i => c[j] # "DISCOVERED"
  /\ n < 6 => i + n - 1 = Len(c)

ReviewsPassed(c, n) == \E i \in DOMAIN c : PassedFrom(c, i, n)

InReview(c, stage) ==
  /\ \A n \in 1..5 : stage = ReviewCourse[n] => ReviewsPassed(c, n)
  /\ stage \in Proven => ReviewsPassed(c, 6)

SkillInReview(skill, c) ==
  /\ "stage" \in DOMAIN skill /\ IsSeq(c) /\ c # <<>>
  /\ Last(c) = skill.stage /\ InReview(c, skill.stage)

SkillsInReview ==
  /\ DOMAIN outside.stages = DOMAIN state.skills
  /\ \A id \in DOMAIN state.skills : SkillInReview(state.skills[id], outside.stages[id])

LEMMA ReviewsAre ==
  /\ IsSeq(ReviewCourse) /\ Len(ReviewCourse) = 6
  /\ ReviewCourse[1] = "DISCOVERED" /\ ReviewCourse[2] = "SOURCE_VERIFIED"
  /\ ReviewCourse[3] = "LICENSE_VERIFIED" /\ ReviewCourse[4] = "SECURITY_REVIEWED"
  /\ ReviewCourse[5] = "SANDBOX_ONLY" /\ ReviewCourse[6] = "PROJECT_PROVEN"
<1>1. ReviewCourse \in Seq(SkillStage)
  BY DEF ReviewCourse, SkillStage
<1> QED BY <1>1 DEF IsSeq, ReviewCourse

\* Where a transition leads: to the start, one review on, from proven to proven, or out.
LEMMA NextReview ==
  ASSUME NEW stage, NEW new \in NextStages(stage)
  PROVE  \/ new = "DISCOVERED"
         \/ \E n \in 1..5 : stage = ReviewCourse[n] /\ new = ReviewCourse[n + 1]
         \/ stage \in Proven /\ new \in Proven /\ new # "DISCOVERED" /\ new # "PROJECT_PROVEN"
         \/ new \in {"HOLD", "REJECTED", "REVOKED"}
<1>1. /\ 1 \in 1..5 /\ 2 \in 1..5 /\ 3 \in 1..5 /\ 4 \in 1..5 /\ 5 \in 1..5
      /\ 1 + 1 = 2 /\ 2 + 1 = 3 /\ 3 + 1 = 4 /\ 4 + 1 = 5 /\ 5 + 1 = 6
  OBVIOUS
<1> DEFINE R == ReviewCourse
<1> HIDE DEF R
<1>2. /\ R[1] = "DISCOVERED" /\ R[2] = "SOURCE_VERIFIED" /\ R[3] = "LICENSE_VERIFIED"
      /\ R[4] = "SECURITY_REVIEWED" /\ R[5] = "SANDBOX_ONLY" /\ R[6] = "PROJECT_PROVEN"
  BY ReviewsAre DEF R
<1>3. \/ new = "DISCOVERED"
      \/ stage = R[1] /\ new = R[2]
      \/ stage = R[2] /\ new = R[3]
      \/ stage = R[3] /\ new = R[4]
      \/ stage = R[4] /\ new = R[5]
      \/ stage = R[5] /\ new = R[6]
      \/ stage \in Proven /\ new \in Proven /\ new # "DISCOVERED" /\ new # "PROJECT_PROVEN"
      \/ new \in {"HOLD", "REJECTED", "REVOKED"}
  BY <1>2 DEF NextStages, Proven
<1> QED BY <1>1, <1>3 DEF R

LEMMA ReviewGoesOn ==
  ASSUME NEW c, IsSeq(c), NEW stage, InReview(c, stage), NEW new \in NextStages(stage)
  PROVE  InReview(Append(c, new), new)
<1> DEFINE m == Len(c)
           d == Append(c, new)
           R == ReviewCourse
<1>1. /\ m \in Nat /\ DOMAIN c = 1..m /\ DOMAIN d = 1..(m + 1) /\ Len(d) = m + 1
      /\ \A i \in 1..m : d[i] = c[i]
      /\ d[m + 1] = new
  BY AppendIsSeq
<1>2. /\ R[1] = "DISCOVERED" /\ R[2] = "SOURCE_VERIFIED" /\ R[3] = "LICENSE_VERIFIED"
      /\ R[4] = "SECURITY_REVIEWED" /\ R[5] = "SANDBOX_ONLY" /\ R[6] = "PROJECT_PROVEN"
  BY ReviewsAre
<1>3. /\ R[1] \notin Proven /\ R[2] \notin Proven /\ R[3] \notin Proven /\ R[4] \notin Proven
      /\ R[5] \notin Proven
  BY <1>2 DEF Proven
<1> HIDE DEF m, d, R
<1>4. \A n \in 1..5 : n = 1 \/ n = 2 \/ n = 3 \/ n = 4 \/ n = 5
  OBVIOUS
<1>5. ASSUME NEW i \in DOMAIN c, NEW n, PassedFrom(c, i, n), NEW j \in 1..m, j > i
      PROVE  c[j] # "DISCOVERED"
  BY <1>1, <1>5 DEF PassedFrom
<1>6. ASSUME NEW a \in 1..6, NEW b \in 1..6, R[a] = R[b] PROVE a = b
  <2>1. a \in {1, 2, 3, 4, 5, 6} /\ b \in {1, 2, 3, 4, 5, 6}
    OBVIOUS
  <2> QED BY <1>2, <1>6, <2>1
<1>7. CASE new = "DISCOVERED"
  <2>1. PassedFrom(d, m + 1, 1)
    <3>1. ASSUME NEW k \in 1..1 PROVE m + 1 + k - 1 \in DOMAIN d /\ d[m + 1 + k - 1] = R[k]
      <4>1. k = 1 /\ m + 1 + k - 1 = m + 1
        BY <1>1
      <4> QED BY <1>1, <1>2, <1>7, <4>1
    <3>2. ASSUME NEW j \in DOMAIN d, j > m + 1 PROVE FALSE
      BY <1>1, <3>2
    <3>3. m + 1 + 1 - 1 = Len(d)
      BY <1>1
    <3> QED BY <3>1, <3>2, <3>3 DEF PassedFrom, R
  <2>2. m + 1 \in DOMAIN d
    BY <1>1
  <2>3. \A n \in 1..5 : new = R[n] => n = 1
    BY <1>2, <1>4, <1>7
  <2>4. new \notin Proven
    BY <1>7 DEF Proven
  <2>5. ReviewsPassed(d, 1)
    BY <2>1, <2>2 DEF ReviewsPassed
  <2> QED BY <2>3, <2>4, <2>5 DEF InReview, d, R
<1>8. ASSUME NEW n \in 1..5, stage = R[n], new = R[n + 1]
      PROVE  InReview(d, new)
  <2>1. PICK i \in DOMAIN c : PassedFrom(c, i, n)
    BY <1>8 DEF InReview, ReviewsPassed, R
  <2>2. i \in 1..m /\ i + n - 1 = m /\ i + (n + 1) - 1 = m + 1 /\ i \in DOMAIN d
    <3>1. n < 6 => i + n - 1 = m
      BY <2>1 DEF PassedFrom, m
    <3> QED BY <1>1, <3>1
  <2>3. new # "DISCOVERED"
    BY <1>2, <1>4, <1>8
  <2>4. PassedFrom(d, i, n + 1)
    <3>1. ASSUME NEW k \in 1..(n + 1) PROVE i + k - 1 \in DOMAIN d /\ d[i + k - 1] = R[k]
      <4>1. CASE k \in 1..n
        <5>1. i + k - 1 \in 1..m /\ c[i + k - 1] = R[k]
          BY <1>1, <2>1, <4>1 DEF PassedFrom, R
        <5> QED BY <1>1, <5>1
      <4>2. CASE k = n + 1
        BY <1>1, <1>8, <2>2, <4>2
      <4> QED BY <4>1, <4>2
    <3>2. ASSUME NEW j \in DOMAIN d, j > i PROVE d[j] # "DISCOVERED"
      BY <1>1, <1>5, <2>1, <2>3, <3>2
    <3>3. i + (n + 1) - 1 = Len(d)
      BY <1>1, <2>2
    <3> QED BY <3>1, <3>2, <3>3 DEF PassedFrom, R
  <2>5. ReviewsPassed(d, n + 1)
    BY <2>2, <2>4 DEF ReviewsPassed
  <2>6. ASSUME NEW k \in 1..5, new = R[k] PROVE k = n + 1
    <3>1. k \in 1..6 /\ n + 1 \in 1..6 /\ R[k] = R[n + 1]
      BY <1>8, <2>6
    <3> QED BY <1>6, <3>1
  <2>7. new \in Proven => n + 1 = 6
    <3>1. \A k \in 2..5 : R[k] \notin Proven
      BY <1>3
    <3> QED BY <1>8, <3>1
  <2> QED BY <2>5, <2>6, <2>7 DEF InReview, R
<1>9. CASE stage \in Proven /\ new \in Proven /\ new # "DISCOVERED" /\ new # "PROJECT_PROVEN"
  <2>1. PICK i \in DOMAIN c : PassedFrom(c, i, 6)
    BY <1>9 DEF InReview, ReviewsPassed
  <2>2. PassedFrom(d, i, 6)
    <3>1. ASSUME NEW k \in 1..6 PROVE i + k - 1 \in DOMAIN d /\ d[i + k - 1] = R[k]
      <4>1. i + k - 1 \in 1..m /\ c[i + k - 1] = R[k]
        BY <1>1, <2>1 DEF PassedFrom, R
      <4> QED BY <1>1, <4>1
    <3>2. ASSUME NEW j \in DOMAIN d, j > i PROVE d[j] # "DISCOVERED"
      BY <1>1, <1>9, <1>5, <2>1, <3>2
    <3> QED BY <3>1, <3>2 DEF PassedFrom, R
  <2>3. ReviewsPassed(d, 6)
    BY <1>1, <2>1, <2>2 DEF ReviewsPassed
  <2>4. \A n \in 1..5 : new # R[n]
    BY <1>3, <1>4, <1>9
  <2> QED BY <2>3, <2>4 DEF InReview, d, R
<1>10. CASE new \in {"HOLD", "REJECTED", "REVOKED"}
  <2>1. \A n \in 1..5 : new # R[n]
    BY <1>2, <1>4, <1>10
  <2>2. new \notin Proven
    BY <1>10 DEF Proven
  <2> QED BY <2>1, <2>2 DEF InReview, d, R
<1> QED BY <1>7, <1>8, <1>9, <1>10, NextReview DEF d, R

SkillsInv == SkillsInReview /\ LoadedWasReviewed

LEMMA StepReviews ==
  ASSUME Shape, SkillsInv, [Next]_vars
  PROVE  SkillsInv'
<1> DEFINE Goal == SkillsInReview' /\ LoadedWasReviewed'
<1>1. SkillsInReview /\ LoadedWasReviewed
  BY DEF SkillsInv
<1>2. ASSUME NEW candidate \in SkillPool, RegisterSkill(candidate) PROVE Goal
  <2> DEFINE id == candidate.id
             first == <<"QUARANTINED">>
  <2>1. /\ candidate.stage = "QUARANTINED" /\ id \notin DOMAIN state.skills
        /\ state'.skills = With(state.skills, id, candidate)
        /\ outside'.stages = With(outside.stages, id, first)
        /\ outside'.loaded = outside.loaded
    BY <1>2 DEF RegisterSkill, Shape
  <2>2. SkillInReview(candidate, first)
    <3>1. first \in Seq({"QUARANTINED"}) /\ first # <<>> /\ Last(first) = "QUARANTINED"
      BY DEF Last
    <3>2. \A n \in 1..5 : n = 1 \/ n = 2 \/ n = 3 \/ n = 4 \/ n = 5
      OBVIOUS
    <3>3. \A n \in 1..5 : ReviewCourse[n] # "QUARANTINED"
      BY <3>2, ReviewsAre
    <3> QED BY <2>1, <3>1, <3>3, CandidatesHaveAStage DEF SkillInReview, InReview, IsSeq, Proven
  <2> HIDE DEF id, first
  <2>3. SkillsInReview'
    <3>1. DOMAIN outside'.stages = DOMAIN state'.skills
      BY <1>1, <2>1 DEF With, SkillsInReview
    <3>2. ASSUME NEW k \in DOMAIN state'.skills PROVE SkillInReview(state'.skills[k], outside'.stages[k])
      BY <1>1, <2>1, <2>2, <3>2 DEF With, SkillsInReview
    <3> QED BY <3>1, <3>2 DEF SkillsInReview, SkillInReview, IsSeq, InReview, ReviewsPassed, PassedFrom
  <2> QED BY <1>1, <2>1, <2>3 DEF LoadedWasReviewed
<1>3. ASSUME NEW id, NEW stage, TransitionSkill(id, stage) PROVE Goal
  <2> DEFINE skill == state.skills[id]
             c == outside.stages[id]
             updated == [skill EXCEPT !.stage = stage]
             longer == Append(c, stage)
  <2>1. /\ id \in DOMAIN state.skills /\ stage \in NextStages(skill.stage)
        /\ state' = [state EXCEPT !.skills[id] = updated]
        /\ outside' = [outside EXCEPT !.stages[id] = longer]
    BY <1>3 DEF TransitionSkill
  <2>2. SkillInReview(skill, c)
    BY <1>1, <2>1 DEF SkillsInReview
  <2>3. updated.stage = stage /\ "stage" \in DOMAIN updated
    <3> HIDE DEF skill
    <3> QED BY <2>2 DEF SkillInReview
  <2>4. IsSeq(longer) /\ longer # <<>> /\ Last(longer) = stage
    <3> HIDE DEF c
    <3>1. IsSeq(c)
      BY <2>2 DEF SkillInReview
    <3>2. Len(longer) = Len(c) + 1 /\ Len(c) \in Nat /\ IsSeq(longer) /\ Last(longer) = stage
      BY <3>1, AppendIsSeq
    <3> QED BY <3>2
  <2>5. InReview(longer, stage)
    BY <2>1, <2>2, ReviewGoesOn DEF SkillInReview
  <2> HIDE DEF longer, updated, c, skill
  <2>6. SkillInReview(updated, longer)
    BY <2>3, <2>4, <2>5 DEF SkillInReview
  <2>7. /\ state'.skills = [state.skills EXCEPT ![id] = updated]
        /\ outside'.stages = [outside.stages EXCEPT ![id] = longer]
        /\ outside'.loaded = outside.loaded
    BY <2>1 DEF Shape
  <2>8. SkillsInReview'
    <3>1. DOMAIN outside'.stages = DOMAIN state'.skills
      BY <1>1, <2>7 DEF SkillsInReview
    <3>2. ASSUME NEW k \in DOMAIN state'.skills PROVE SkillInReview(state'.skills[k], outside'.stages[k])
      BY <1>1, <2>1, <2>6, <2>7, <3>2 DEF SkillsInReview
    <3> QED BY <3>1, <3>2 DEF SkillsInReview, SkillInReview, IsSeq, InReview, ReviewsPassed, PassedFrom
  <2> QED BY <1>1, <2>7, <2>8 DEF LoadedWasReviewed
<1>4. ASSUME NEW id, NEW layers, LoadSkill(id, layers) PROVE Goal
  <2> DEFINE skill == state.skills[id]
             c == outside.stages[id]
             given == EffectiveAuthority(skill.requested, layers)
             k == [skill |-> skill, layers |-> layers, course |-> c, authority |-> given]
  <2>1. /\ id \in DOMAIN state.skills /\ Loadable(skill)
        /\ outside' = [outside EXCEPT !.loaded = k] /\ state' = state
    BY <1>4 DEF LoadSkill
  <2>2. SkillInReview(skill, c)
    BY <1>1, <2>1 DEF SkillsInReview
  <2>3. \A l \in layers : given \subseteq l
    BY DEF EffectiveAuthority
  <2> HIDE DEF given, c, skill
  <2>4. k.skill = skill /\ k.layers = layers /\ k.course = c /\ k.authority = given
    OBVIOUS
  <2> HIDE DEF k
  <2>5. outside'.loaded = k /\ outside'.stages = outside.stages
    BY <2>1 DEF Shape
  <2>6. skill.stage \in Proven /\ Last(c) \notin {"REVOKED", "HOLD", "REJECTED"}
        /\ skill.findings = {} /\ skill.provenance
    BY <2>1, <2>2 DEF Loadable, SkillInReview, Proven
  <2>7. PICK i \in DOMAIN c : PassedFrom(c, i, 6)
    BY <2>2, <2>6 DEF SkillInReview, InReview, ReviewsPassed
  <2>8. IsPrefix(ReviewCourse, SubSeq(c, i, Len(c)))
    BY <2>2, <2>7, ReviewsAre, PrefixOfTail DEF PassedFrom, SkillInReview
  <2>9. LoadedWasReviewed'
    BY <2>3, <2>4, <2>5, <2>6, <2>7, <2>8 DEF LoadedWasReviewed, PassedFrom
  <2> QED BY <1>1, <2>1, <2>5, <2>9
       DEF SkillsInReview, SkillInReview, IsSeq, InReview, ReviewsPassed, PassedFrom
<1>5. ASSUME state'.skills = state.skills, outside'.stages = outside.stages,
             outside'.loaded = outside.loaded
      PROVE  Goal
  BY <1>1, <1>5
  DEF LoadedWasReviewed, SkillsInReview, SkillInReview, IsSeq, InReview, ReviewsPassed, PassedFrom
<1>6. /\ state'["skills"] # state["skills"] => SkillsNext
      /\ outside'["stages"] # outside["stages"] => SkillsNext
      /\ outside'["loaded"] # outside["loaded"] => SkillsNext
  BY Owners, OwnersOfOutside DEF Shape
<1> HIDE DEF Goal
<1>7. ASSUME SkillsNext PROVE Goal
  BY <1>2, <1>3, <1>4, <1>7 DEF SkillsNext
<1> QED BY <1>5, <1>6, <1>7 DEF Goal, SkillsInv

-----------------------------------------------------------------------------
(***************************************************************************)
(* Sessions of the remote channel.  A record that is saved is an earlier   *)
(* one of the record in memory.                                            *)
(***************************************************************************)
SessionFields == {"identity", "lifecycle", "sequence", "actions", "last", "relay"}

IsVouched(a, t, identity) ==
  /\ a.request.task = t /\ a.request.identity = identity
  /\ a.request.runtime = "expected"
  /\ {a.request.local, a.request.remote} = {identity}
  /\ a.class \in Mutating => a.request.class = "source-write"
  /\ a.paths \subseteq a.request.scope

SessionIsVouched(t, r) ==
  /\ DOMAIN r = SessionFields
  /\ IsSeq(r.actions) /\ r.sequence \in Nat /\ Len(r.actions) <= r.sequence
  /\ \A i, j \in DOMAIN r.actions : r.actions[i].id = r.actions[j].id => i = j
  /\ \A i \in DOMAIN r.actions : IsVouched(r.actions[i], t, r.identity)

AreVouched(records) == \A t \in DOMAIN records : SessionIsVouched(t, records[t])

IsEarlier(r, s) ==
  /\ r.sequence <= s.sequence /\ r.identity = s.identity
  /\ Len(r.actions) <= Len(s.actions)
  /\ \A i \in 1..Len(r.actions) : s.actions[i] = r.actions[i]

AreEarlier(records, others) ==
  \A t \in DOMAIN records : t \in DOMAIN others /\ IsEarlier(records[t], others[t])

RdcInv == AreVouched(state.rdc) /\ AreVouched(memory.rdc) /\ AreEarlier(state.rdc, memory.rdc)

LEMMA VouchedNumbers ==
  ASSUME NEW r, NEW t, SessionIsVouched(t, r)
  PROVE  r.sequence \in Nat /\ Len(r.actions) \in Nat
  BY AppendIsSeq DEF SessionIsVouched

LEMMA EarlierIsReflexive ==
  ASSUME NEW r, NEW t, SessionIsVouched(t, r)
  PROVE  IsEarlier(r, r)
  BY VouchedNumbers DEF IsEarlier

LEMMA EarlierIsTransitive ==
  ASSUME NEW r, NEW s, NEW u, NEW t,
         SessionIsVouched(t, r), SessionIsVouched(t, s), SessionIsVouched(t, u),
         IsEarlier(r, s), IsEarlier(s, u)
  PROVE  IsEarlier(r, u)
<1>1. /\ r.sequence \in Nat /\ s.sequence \in Nat /\ u.sequence \in Nat
      /\ Len(r.actions) \in Nat /\ Len(s.actions) \in Nat /\ Len(u.actions) \in Nat
  BY VouchedNumbers
<1>2. /\ r.sequence <= u.sequence /\ r.identity = u.identity
      /\ Len(r.actions) <= Len(u.actions)
  BY <1>1 DEF IsEarlier
<1>3. ASSUME NEW i \in 1..Len(r.actions) PROVE u.actions[i] = r.actions[i]
  <2>1. i \in 1..Len(s.actions)
    BY <1>1 DEF IsEarlier
  <2> QED BY <2>1 DEF IsEarlier
<1> QED BY <1>2, <1>3 DEF IsEarlier

\* A record with the same actions, one change later.
LEMMA MovedIsVouched ==
  ASSUME NEW t, NEW s, SessionIsVouched(t, s),
         NEW r, DOMAIN r = SessionFields, r.actions = s.actions, r.identity = s.identity,
         r.sequence = s.sequence
  PROVE  SessionIsVouched(t, Advanced(r)) /\ IsEarlier(s, Advanced(r))
<1> DEFINE new == Advanced(r)
<1>1. /\ DOMAIN new = SessionFields /\ new.actions = s.actions /\ new.identity = s.identity
      /\ new.sequence = s.sequence + 1
  BY DEF Advanced, SessionFields
<1>2. s.sequence \in Nat /\ Len(s.actions) \in Nat
  BY AppendIsSeq DEF SessionIsVouched
<1> HIDE DEF new
<1>3. SessionIsVouched(t, new)
  BY <1>1, <1>2 DEF SessionIsVouched
<1>4. IsEarlier(s, new)
  BY <1>1, <1>2 DEF IsEarlier
<1> QED BY <1>3, <1>4 DEF new

\* A record with one action more, which it did not have.
LEMMA ReceiptIsVouched ==
  ASSUME NEW t, NEW s, SessionIsVouched(t, s),
         NEW action, NotRecorded(s, action),
         NEW q, q.task = t, q.identity = s.identity, EvaluateRdcPreflight(q),
         NEW r, DOMAIN r = SessionFields, r.actions = Append(s.actions, Receipt(action, q)),
         r.identity = s.identity, r.sequence = s.sequence
  PROVE  SessionIsVouched(t, Advanced(r)) /\ IsEarlier(s, Advanced(r))
<1> DEFINE new == Advanced(r)
           e == Receipt(action, q)
           m == Len(s.actions)
<1>1. /\ DOMAIN new = SessionFields /\ new.actions = Append(s.actions, e) /\ new.identity = s.identity
      /\ new.sequence = s.sequence + 1
  BY DEF Advanced, SessionFields
<1>2. e.id = action /\ e.class = q.action /\ e.paths = q.paths /\ e.request = q
  BY DEF Receipt
<1>3. IsVouched(e, t, s.identity)
  BY <1>2 DEF IsVouched, EvaluateRdcPreflight
<1> HIDE DEF new, e
<1>4. IsSeq(s.actions) /\ s.sequence \in Nat /\ m <= s.sequence
  BY DEF SessionIsVouched
<1>5. /\ m \in Nat /\ DOMAIN s.actions = 1..m /\ DOMAIN new.actions = 1..(m + 1)
      /\ IsSeq(new.actions) /\ Len(new.actions) = m + 1
      /\ \A i \in 1..m : new.actions[i] = s.actions[i]
      /\ new.actions[m + 1] = e
  BY <1>1, <1>4, AppendIsSeq
<1> HIDE DEF m
<1>6. ASSUME NEW i \in 1..m PROVE new.actions[i].id # action /\ IsVouched(new.actions[i], t, s.identity)
  <2>1. s.actions[i] \in ToSet(s.actions)
    BY <1>5 DEF ToSet
  <2> QED BY <1>5, <2>1 DEF NotRecorded, RecordedActions, SessionIsVouched
<1>7. ASSUME NEW i \in DOMAIN new.actions, NEW j \in DOMAIN new.actions,
             new.actions[i].id = new.actions[j].id
      PROVE  i = j
  <2>1. CASE i \in 1..m /\ j \in 1..m
    BY <1>5, <1>7, <2>1 DEF SessionIsVouched
  <2>2. CASE i = m + 1 \/ j = m + 1
    BY <1>2, <1>5, <1>6, <1>7, <2>2
  <2> QED BY <1>5, <2>1, <2>2
<1>8. ASSUME NEW i \in DOMAIN new.actions PROVE IsVouched(new.actions[i], t, new.identity)
  <2>1. CASE i \in 1..m
    BY <1>1, <1>6, <2>1
  <2>2. CASE i = m + 1
    BY <1>1, <1>3, <1>5, <2>2
  <2> QED BY <1>5, <2>1, <2>2
<1>9. new.sequence \in Nat /\ Len(new.actions) <= new.sequence
  BY <1>1, <1>4, <1>5
<1>10. SessionIsVouched(t, new)
  BY <1>1, <1>5, <1>7, <1>8, <1>9 DEF SessionIsVouched
<1>11. IsEarlier(s, new)
  BY <1>1, <1>4, <1>5 DEF IsEarlier, m
<1> QED BY <1>10, <1>11 DEF new

LEMMA StepVouched ==
  ASSUME Shape, RdcInv, [Next]_vars
  PROVE  RdcInv'
<1> DEFINE Goal == /\ AreVouched(state'.rdc) /\ AreVouched(memory'.rdc)
                   /\ AreEarlier(state'.rdc, memory'.rdc)
<1>1. AreVouched(state.rdc) /\ AreVouched(memory.rdc) /\ AreEarlier(state.rdc, memory.rdc)
  BY DEF RdcInv
<1>2. ASSUME NEW records, AreVouched(records) PROVE AreEarlier(records, records)
  BY <1>2, EarlierIsReflexive DEF AreVouched, AreEarlier
<1>3. ASSUME NEW records, Persisted(records), AreVouched(records), AreEarlier(Sessions, records)
      PROVE  Goal
  <2>1. memory'.rdc = records /\ (state'.rdc = records \/ state'.rdc = state.rdc)
    BY <1>3 DEF Persisted, Keep, Shape
  <2>2. AreEarlier(state.rdc, records)
    <3>1. ASSUME NEW t \in DOMAIN state.rdc
          PROVE  t \in DOMAIN records /\ IsEarlier(state.rdc[t], records[t])
      <4>1. t \in DOMAIN Sessions /\ IsEarlier(state.rdc[t], Sessions[t])
        BY <1>1 DEF AreEarlier, Sessions
      <4>2. t \in DOMAIN records /\ IsEarlier(Sessions[t], records[t])
        BY <1>3, <4>1 DEF AreEarlier
      <4>3. /\ SessionIsVouched(t, state.rdc[t]) /\ SessionIsVouched(t, Sessions[t])
            /\ SessionIsVouched(t, records[t])
        BY <1>1, <1>3, <4>1, <4>2 DEF AreVouched, Sessions
      <4> QED BY <4>1, <4>2, <4>3, EarlierIsTransitive
    <3> QED BY <3>1 DEF AreEarlier
  <2> QED BY <1>1, <1>2, <1>3, <2>1, <2>2
<1>4. ASSUME NEW t \in DOMAIN Sessions, NEW r, Update(t, r),
             SessionIsVouched(t, Advanced(r)), IsEarlier(Sessions[t], Advanced(r))
      PROVE  Goal
  <2> DEFINE records == [Sessions EXCEPT ![t] = Advanced(r)]
  <2>1. Persisted(records)
    BY <1>4 DEF Update
  <2>2. /\ DOMAIN records = DOMAIN Sessions /\ records[t] = Advanced(r)
        /\ \A u \in DOMAIN Sessions \ {t} : records[u] = Sessions[u]
    OBVIOUS
  <2> HIDE DEF records
  <2>3. AreVouched(records)
    BY <1>1, <1>4, <2>2 DEF AreVouched, Sessions
  <2>4. AreEarlier(Sessions, records)
    BY <1>1, <1>2, <1>4, <2>2 DEF AreEarlier, Sessions
  <2> QED BY <1>3, <2>1, <2>3, <2>4
<1>5. ASSUME NEW t \in DOMAIN Sessions PROVE SessionIsVouched(t, Sessions[t])
  BY <1>1 DEF AreVouched, Sessions
<1>6. ASSUME NEW t \in DOMAIN Sessions, NEW r, Update(t, r),
             DOMAIN r = SessionFields, r.actions = Sessions[t].actions,
             r.identity = Sessions[t].identity, r.sequence = Sessions[t].sequence
      PROVE  Goal
  BY <1>4, <1>5, <1>6, MovedIsVouched
<1>7. ASSUME NEW c, NEW q, StartSession(c, q) PROVE Goal
  <2> DEFINE t == c.task
             new == [identity |-> c.identity, lifecycle |-> "ACTIVE", sequence |-> 0,
                     actions |-> <<>>, last |-> q, relay |-> FALSE]
             records == With(Sessions, t, new)
  <2>1. t \notin DOMAIN Sessions /\ Persisted(records)
    BY <1>7 DEF StartSession
  <2>2. SessionIsVouched(t, new)
    <3>1. DOMAIN new = SessionFields /\ new.actions = <<>> /\ new.sequence = 0
      BY DEF SessionFields
    <3> HIDE DEF new
    <3> QED BY <3>1, EmptyIsSeq DEF SessionIsVouched
  <2>3. AreVouched(records)
    <3> HIDE DEF new, t
    <3> QED BY <1>1, <2>2 DEF AreVouched, With, Sessions
  <2>4. AreEarlier(Sessions, records)
    <3> HIDE DEF new, t
    <3> QED BY <1>1, <1>2, <2>1 DEF AreEarlier, With, Sessions
  <2> HIDE DEF records
  <2> QED BY <1>3, <2>1, <2>3, <2>4
<1>8. ASSUME NEW t, NEW action, NEW q, RecordAction(t, action, q) PROVE Goal
  <2> DEFINE s == Sessions[t]
             r == [s EXCEPT !.actions = Append(@, Receipt(action, q)), !.last = q]
  <2>1. /\ t \in DOMAIN Sessions /\ q.task = t /\ q.identity = s.identity
        /\ EvaluateRdcPreflight(q) /\ NotRecorded(s, action) /\ Update(t, r)
    BY <1>8 DEF RecordAction
  <2>2. SessionIsVouched(t, s)
    BY <1>5, <2>1
  <2>3. /\ DOMAIN r = SessionFields /\ r.actions = Append(s.actions, Receipt(action, q))
        /\ r.identity = s.identity /\ r.sequence = s.sequence
    <3> HIDE DEF s
    <3> QED BY <2>2 DEF SessionIsVouched, SessionFields
  <2> HIDE DEF r
  <2>4. SessionIsVouched(t, Advanced(r)) /\ IsEarlier(s, Advanced(r))
    BY <2>1, <2>2, <2>3, ReceiptIsVouched
  <2> QED BY <1>4, <2>1, <2>4
<1>9. ASSUME NEW t, NEW l, t \in DOMAIN Sessions, Update(t, [Sessions[t] EXCEPT !.lifecycle = l])
      PROVE  Goal
  <2> DEFINE s == Sessions[t]
             r == [s EXCEPT !.lifecycle = l]
  <2>1. DOMAIN s = SessionFields
    BY <1>5, <1>9 DEF SessionIsVouched
  <2>2. /\ DOMAIN r = SessionFields /\ r.actions = s.actions
        /\ r.identity = s.identity /\ r.sequence = s.sequence
    <3> HIDE DEF s
    <3> QED BY <2>1 DEF SessionFields
  <2>3. Update(t, r)
    BY <1>9
  <2> HIDE DEF r
  <2> QED BY <1>6, <1>9, <2>2, <2>3
<1>10. ASSUME NEW t, InterruptSession(t) PROVE Goal
  BY <1>9, <1>10 DEF InterruptSession
<1>11. ASSUME NEW c, NEW q, ResumeSession(c, q) PROVE Goal
  <2> DEFINE t == c.task
             s == Sessions[t]
             r == [s EXCEPT !.lifecycle = "RESUMED", !.last = q]
  <2>1. t \in DOMAIN Sessions /\ Update(t, r)
    BY <1>11 DEF ResumeSession
  <2>2. DOMAIN s = SessionFields
    BY <1>5, <2>1 DEF SessionIsVouched
  <2>3. /\ DOMAIN r = SessionFields /\ r.actions = s.actions
        /\ r.identity = s.identity /\ r.sequence = s.sequence
    <3> HIDE DEF s
    <3> QED BY <2>2 DEF SessionFields
  <2> HIDE DEF r
  <2> QED BY <1>6, <2>1, <2>3
<1>12. ASSUME NEW t, NEW b, RecordManualRelayException(t, b) PROVE Goal
  <2> DEFINE s == Sessions[t]
             r == [s EXCEPT !.relay = TRUE]
  <2>1. t \in DOMAIN Sessions /\ Update(t, r)
    BY <1>12 DEF RecordManualRelayException
  <2>2. DOMAIN s = SessionFields
    BY <1>5, <2>1 DEF SessionIsVouched
  <2>3. /\ DOMAIN r = SessionFields /\ r.actions = s.actions
        /\ r.identity = s.identity /\ r.sequence = s.sequence
    <3> HIDE DEF s
    <3> QED BY <2>2 DEF SessionFields
  <2> HIDE DEF r
  <2> QED BY <1>6, <2>1, <2>3
<1>13. ASSUME NEW t, CompleteSession(t) PROVE Goal
  BY <1>9, <1>13 DEF CompleteSession
<1>14. ASSUME RestoreSessions PROVE Goal
  <2>1. memory'.rdc = state.rdc /\ state' = state
    BY <1>14 DEF RestoreSessions, Shape
  <2> QED BY <1>1, <1>2, <2>1
<1>15. ASSUME state'.rdc = state.rdc, memory'.rdc = memory.rdc PROVE Goal
  BY <1>1, <1>15
<1>16. /\ state'["rdc"] # state["rdc"] => RdcNext
       /\ memory'["rdc"] # memory["rdc"] => RdcNext
  BY Owners, OwnersOfMemory DEF Shape
<1> HIDE DEF Goal
<1>17. ASSUME RdcNext PROVE Goal
  BY <1>7, <1>8, <1>10, <1>11, <1>12, <1>13, <1>14, <1>17 DEF RdcNext
<1>18. Goal
  BY <1>15, <1>16, <1>17
<1> QED BY <1>18
     DEF Goal, RdcInv, AreVouched, AreEarlier, SessionIsVouched, IsVouched, IsEarlier, IsSeq

LEMMA VouchedAreEarned == RdcInv => ActionsAreVouched /\ SavedIsEarlier
<1> SUFFICES ASSUME RdcInv PROVE ActionsAreVouched /\ SavedIsEarlier
  OBVIOUS
<1>1. ActionsAreVouched
  <2>1. ASSUME NEW records \in {state.rdc, memory.rdc}, NEW t \in DOMAIN records
        PROVE  SessionIsVouched(t, records[t])
    BY <2>1 DEF RdcInv, AreVouched
  <2>2. ASSUME NEW r, NEW t, SessionIsVouched(t, r)
        PROVE  /\ \A i, j \in DOMAIN r.actions : r.actions[i].id = r.actions[j].id => i = j
               /\ \A a \in ToSet(r.actions) : IsVouched(a, t, r.identity)
               /\ r.sequence >= Len(r.actions)
    <3>1. r.sequence >= Len(r.actions)
      BY <2>2, AppendIsSeq DEF SessionIsVouched
    <3> QED BY <2>2, <3>1 DEF SessionIsVouched, ToSet
  <2> QED BY <2>1, <2>2 DEF ActionsAreVouched, IsVouched
<1>2. SavedIsEarlier
  <2>1. ASSUME NEW t \in DOMAIN state.rdc
        PROVE  /\ t \in DOMAIN memory.rdc
               /\ state.rdc[t].sequence <= memory.rdc[t].sequence
               /\ IsPrefix(state.rdc[t].actions, memory.rdc[t].actions)
               /\ state.rdc[t].identity = memory.rdc[t].identity
    <3>1. t \in DOMAIN memory.rdc /\ IsEarlier(state.rdc[t], memory.rdc[t])
      BY DEF RdcInv, AreEarlier
    <3>2. IsSeq(state.rdc[t].actions) /\ IsSeq(memory.rdc[t].actions)
      BY <3>1 DEF RdcInv, AreVouched, SessionIsVouched
    <3> QED BY <3>1, <3>2, PrefixIs DEF IsEarlier
  <2> QED BY <2>1 DEF SavedIsEarlier
<1> QED BY <1>1, <1>2

-----------------------------------------------------------------------------
(***************************************************************************)
(* Projects.  The reports agree with the projects they were saved with, in *)
(* the document and in what every probe in flight will save.               *)
(***************************************************************************)
AgreesWith(project, report) ==
  /\ project.name = report.name /\ project.stable = report.stable
  /\ project.head = report.head
  /\ project.blocked = (report.blocked \/ project.status = "blocked")
  /\ project.status \in {"blocked", IF report.drifted THEN "drifted" ELSE "probed"}

AllAgree(known, reports) ==
  /\ DOMAIN reports \subseteq DOMAIN known
  /\ \A p \in DOMAIN reports : AgreesWith(known[p], reports[p])
  /\ \A p \in DOMAIN known \ DOMAIN reports : known[p].status \in {"registered", "blocked"}

ReportsAgree ==
  /\ AllAgree(state.projects.known, state.projects.reports)
  /\ \A i \in DOMAIN memory.probes : AllAgree(memory.probes[i].known, memory.probes[i].reports)

\* What a probe saves: its project as its report says.
LEMMA UpdatedAgrees ==
  ASSUME NEW known, Distinguished(known), NEW reports, AllAgree(known, reports),
         NEW p \in DOMAIN known,
         NEW report, report.blocked \in BOOLEAN
  PROVE  AllAgree([known EXCEPT ![p] = Updated(@, report)], With(reports, p, report))
<1> DEFINE old == known[p]
           new == Updated(old, report)
           all == [known EXCEPT ![p] = new]
<1>1. DOMAIN old = ProjectFields
  BY DEF Distinguished
<1>2. /\ new.name = report.name /\ new.stable = report.stable /\ new.head = report.head
      /\ new.blocked = report.blocked
      /\ new.status = IF report.drifted THEN "drifted" ELSE "probed"
  <2> HIDE DEF old
  <2> QED BY <1>1 DEF Updated, ProjectFields
<1> HIDE DEF new
<1>3. AgreesWith(new, report)
  BY <1>2 DEF AgreesWith
<1>4. /\ DOMAIN all = DOMAIN known /\ all[p] = new
      /\ \A q \in DOMAIN known \ {p} : all[q] = known[q]
  OBVIOUS
<1> HIDE DEF all, old
<1>5. AllAgree(all, With(reports, p, report))
  BY <1>3, <1>4 DEF AllAgree, With
<1> QED BY <1>5 DEF all, new, old

\* What a probe that fails saves: its project blocked, and the reports as they were.
LEMMA BlockedAgrees ==
  ASSUME NEW known, Distinguished(known), NEW reports, AllAgree(known, reports),
         NEW p \in DOMAIN known
  PROVE  AllAgree([known EXCEPT ![p].status = "blocked", ![p].blocked = TRUE], reports)
<1> DEFINE all == [known EXCEPT ![p].status = "blocked", ![p].blocked = TRUE]
           old == known[p]
           new == [old EXCEPT !.status = "blocked", !.blocked = TRUE]
<1>1. /\ DOMAIN all = DOMAIN known
      /\ \A q \in DOMAIN known \ {p} : all[q] = known[q]
  OBVIOUS
<1>2. all[p] = new
  OBVIOUS
<1>3. /\ new.name = old.name /\ new.stable = old.stable /\ new.head = old.head
      /\ new.blocked = TRUE /\ new.status = "blocked"
  <2>1. DOMAIN old = ProjectFields
    BY DEF Distinguished
  <2> HIDE DEF old
  <2> QED BY <2>1 DEF ProjectFields
<1> HIDE DEF new, all
<1>4. ASSUME NEW report, AgreesWith(old, report) PROVE AgreesWith(new, report)
  <2>1. (report.blocked \/ TRUE) = TRUE
    OBVIOUS
  <2> HIDE DEF old
  <2> QED BY <1>3, <1>4, <2>1 DEF AgreesWith
<1>5. AllAgree(all, reports)
  BY <1>1, <1>2, <1>3, <1>4 DEF AllAgree
<1> QED BY <1>5 DEF all

LEMMA StepReports ==
  ASSUME Shape, ProjectsApart, ReportsAgree, [Next]_vars
  PROVE  ReportsAgree'
<1> DEFINE Goal == /\ AllAgree(state'.projects.known, state'.projects.reports)
                   /\ \A i \in DOMAIN memory'.probes :
                        AllAgree(memory'.probes[i].known, memory'.probes[i].reports)
<1>1. /\ AllAgree(state.projects.known, state.projects.reports)
      /\ \A i \in DOMAIN memory.probes : AllAgree(memory.probes[i].known, memory.probes[i].reports)
  BY DEF ReportsAgree
<1>2. ASSUME state'["projects"] = state["projects"], memory'["probes"] = memory["probes"] PROVE Goal
  BY <1>1, <1>2
<1>3. ASSUME NEW n, NEW a, NEW h, Intake(n, a, h) PROVE Goal
  <2> DEFINE new == [name |-> n, stable |-> Nothing, adapter |-> a, head |-> h,
                     status |-> "registered", blocked |-> FALSE]
             old == state.projects.known
             known == With(old, n, new)
  <2>1. /\ n \notin DOMAIN old /\ memory' = memory
        /\ state' = [state EXCEPT !.projects.known = known]
    BY <1>3 DEF Intake, Registered
  <2>2. new.status = "registered"
    OBVIOUS
  <2> HIDE DEF new, old
  <2>3. AllAgree(known, state.projects.reports)
    BY <1>1, <2>1, <2>2 DEF AllAgree, With, old
  <2> HIDE DEF known
  <2>4. state'.projects.known = known /\ state'.projects.reports = state.projects.reports
    BY <2>1 DEF Shape, ProjectsApart
  <2> QED BY <1>1, <2>1, <2>3, <2>4
<1>4. ASSUME NEW i, NEW p, ProbeStarts(i, p) PROVE Goal
  <2> DEFINE probe == [project |-> p, known |-> state.projects.known, reports |-> state.projects.reports]
  <2>1. state' = state /\ memory'.probes = With(memory.probes, i, probe)
    BY <1>4 DEF ProbeStarts, Shape
  <2>2. probe.known = state.projects.known /\ probe.reports = state.projects.reports
    OBVIOUS
  <2> HIDE DEF probe
  <2> QED BY <1>1, <2>1, <2>2 DEF With
<1>5. ASSUME NEW S, memory' = Forgotten(S)
      PROVE  \A i \in DOMAIN memory'.probes : i \in DOMAIN memory.probes /\ memory'.probes[i] = memory.probes[i]
  BY <1>5 DEF Forgotten, Shape
<1>6. ASSUME NEW i, NEW f, ProbeAnswers(i, f) PROVE Goal
  <2> DEFINE probe == memory.probes[i]
  <2>1. /\ i \in DOMAIN memory.probes /\ memory' = Forgotten({i})
        /\ probe.project \in DOMAIN probe.known /\ Distinguished(probe.known)
        /\ AllAgree(probe.known, probe.reports)
    BY <1>1, <1>6 DEF ProbeAnswers, ProjectsApart
  <2>2. PICK found \in Found(probe.known[probe.project]) :
          state' = [state EXCEPT !.projects =
            [known   |-> [probe.known EXCEPT ![probe.project] = Updated(@, ReportOf(probe, found, f))],
             reports |-> With(probe.reports, probe.project, ReportOf(probe, found, f))]]
    BY <1>6 DEF ProbeAnswers
  <2> DEFINE report == ReportOf(probe, found, f)
             known == [probe.known EXCEPT ![probe.project] = Updated(@, report)]
             reports == With(probe.reports, probe.project, report)
             all == [known |-> known, reports |-> reports]
  <2>3. report.blocked \in BOOLEAN
    BY DEF ReportOf
  <2>4. state' = [state EXCEPT !.projects = all]
    BY <2>2
  <2> HIDE DEF report
  <2>5. AllAgree(known, reports)
    BY <2>1, <2>3, UpdatedAgrees
  <2> HIDE DEF known, reports
  <2>6. all.known = known /\ all.reports = reports
    OBVIOUS
  <2> HIDE DEF all
  <2>7. state'.projects = all
    BY <2>4 DEF Shape
  <2> QED BY <1>1, <1>5, <2>1, <2>5, <2>6, <2>7
<1>7. ASSUME NEW i, ProbeFails(i) PROVE Goal
  <2> DEFINE probe == memory.probes[i]
             known == [probe.known EXCEPT ![probe.project].status = "blocked",
                                          ![probe.project].blocked = TRUE]
             all == [known |-> known, reports |-> probe.reports]
  <2>1. /\ i \in DOMAIN memory.probes /\ memory' = Forgotten({i})
        /\ probe.project \in DOMAIN probe.known /\ Distinguished(probe.known)
        /\ AllAgree(probe.known, probe.reports)
    BY <1>1, <1>7 DEF ProbeFails, ProjectsApart
  <2>2. state' = [state EXCEPT !.projects = all]
    BY <1>7 DEF ProbeFails
  <2>3. AllAgree(known, probe.reports)
    BY <2>1, BlockedAgrees
  <2> HIDE DEF known
  <2>4. all.known = known /\ all.reports = probe.reports
    OBVIOUS
  <2> HIDE DEF all
  <2>5. state'.projects = all
    BY <2>2 DEF Shape
  <2> QED BY <1>1, <1>5, <2>1, <2>3, <2>4, <2>5
<1>8. ASSUME NEW S, ProbesBreak(S) PROVE Goal
  BY <1>1, <1>5, <1>8 DEF ProbesBreak
<1>9. ASSUME NEW g, NEW n, RenameRepository(g, n) PROVE Goal
  BY <1>1, <1>9 DEF RenameRepository
<1>10. ASSUME NEW p, NEW c, PrepareTask(p, c) PROVE Goal
  BY <1>1, <1>10 DEF PrepareTask
<1>11. /\ state'["projects"] # state["projects"] => IntakesNext \/ ProjectsNext
       /\ memory'["probes"] # memory["probes"] => ProjectsNext
  BY Owners, OwnersOfMemory DEF Shape
<1> HIDE DEF Goal
<1>12. ASSUME IntakesNext PROVE Goal
  BY <1>3, <1>12 DEF IntakesNext
<1>13. ASSUME ProjectsNext PROVE Goal
  BY <1>4, <1>6, <1>7, <1>8, <1>9, <1>10, <1>13 DEF ProjectsNext
<1>14. Goal
  BY <1>2, <1>11, <1>12, <1>13
<1> QED BY <1>14 DEF Goal, ReportsAgree, AllAgree, AgreesWith

LEMMA AgreeIsRecords == ReportsAgree => RecordsAgree
  BY DEF ReportsAgree, AllAgree, AgreesWith, RecordsAgree, Registered

\* A prepared task ends the behavior, so what it was prepared from is still there.
LEMMA PreparedEnds == Next => outside.prepared = Nothing
  BY DEF Next, LeasesNext, QueueNext, RdcNext, AccessNext, ObservationsNext, RetriesNext, RouteNext,
         IncidentsNext, DecisionsNext, BindingsNext, LifecycleNext, KnowledgeNext, ChangesNext,
         CensusNext, EnvironmentNext, DatabaseNext, EvidenceNext, AnswersNext, SkillsNext,
         DirectNext, ReadinessNext, IntakesNext, ProjectsNext, HealthNext, On, OnAny

LEMMA StepPrepared ==
  ASSUME Shape, ProjectsApart, ReportsAgree, PreparedIsOnRecord, [Next]_vars
  PROVE  PreparedIsOnRecord'
<1>1. ASSUME NEW p, NEW c, PrepareTask(p, c) PROVE PreparedIsOnRecord'
  <2> DEFINE known == state.projects.known
             report == state.projects.reports[p]
             k == [project |-> p, repository |-> report.name, base |-> report.head]
  <2>1. /\ p \in DOMAIN state.projects.reports /\ state' = state
        /\ outside' = [outside EXCEPT !.prepared = k]
    BY <1>1 DEF PrepareTask
  <2>2. p \in DOMAIN known /\ AgreesWith(known[p], report)
    BY <2>1 DEF ReportsAgree, AllAgree
  <2>3. k.project = p /\ k.repository = report.name /\ k.base = report.head
    OBVIOUS
  <2> HIDE DEF k
  <2>4. outside'.prepared = k
    BY <2>1 DEF Shape
  <2>5. ASSUME NEW q \in DOMAIN known \ {p}, known[q].stable # Nothing, known[p].stable # Nothing
        PROVE  known[q].name # report.name
    <3>1. known[q].name # known[p].name
      BY <2>2, <2>5 DEF ProjectsApart, Distinguished
    <3> QED BY <2>2, <3>1 DEF AgreesWith
  <2> QED BY <2>1, <2>2, <2>3, <2>4, <2>5 DEF PreparedIsOnRecord, AgreesWith, Registered
<1>2. CASE UNCHANGED vars
  BY <1>2 DEF vars, PreparedIsOnRecord, Registered
<1>3. CASE Next /\ outside'["prepared"] = outside["prepared"]
  BY <1>3, PreparedEnds DEF PreparedIsOnRecord
<1>4. CASE outside'["prepared"] # outside["prepared"]
  <2>1. ProjectsNext
    BY <1>4, OwnersOfOutside DEF Shape
  <2>2. ASSUME NEW i, NEW p, ProbeStarts(i, p) PROVE FALSE
    BY <1>4, <2>2 DEF ProbeStarts, Shape
  <2>3. ASSUME NEW i, NEW f, ProbeAnswers(i, f) PROVE FALSE
    BY <1>4, <2>3 DEF ProbeAnswers
  <2>4. ASSUME NEW i, ProbeFails(i) PROVE FALSE
    BY <1>4, <2>4 DEF ProbeFails
  <2>5. ASSUME NEW S, ProbesBreak(S) PROVE FALSE
    BY <1>4, <2>5 DEF ProbesBreak
  <2>6. ASSUME NEW g, NEW n, RenameRepository(g, n) PROVE FALSE
    BY <1>4, <2>6 DEF RenameRepository, Shape
  <2> QED BY <1>1, <2>1, <2>2, <2>3, <2>4, <2>5, <2>6 DEF ProjectsNext
<1> QED BY <1>2, <1>3, <1>4

-----------------------------------------------------------------------------
(***************************************************************************)
(* The whole of it.                                                        *)
(***************************************************************************)
EvidenceInv ==
  /\ KeepsInv /\ FailuresShape /\ BoundInv /\ KnowledgeWasDecided /\ RuntimeInv /\ RunInv
  /\ DecisionsInformed /\ RouteIsAuthorized /\ IncidentsInCourse /\ CandidatesOfClosed
  /\ SessionsAreOfLinks /\ PassedSoFar /\ HealthInCourse /\ CommandsOutside /\ SkillsInv
  /\ RdcInv /\ ReportsAgree /\ PreparedIsOnRecord

LEMMA InitEvidence == Init => EvidenceInv
<1> SUFFICES ASSUME Init PROVE EvidenceInv
  OBVIOUS
<1>1. KeepsInv /\ FailuresShape
  BY InitKeeps, InitFailures
<1>2. /\ \A r \in {"decisions", "lifecycle", "knowledge", "census", "environment"} : state[r] = <<>>
      /\ Failures.observations = <<>> /\ Failures.decisions = <<>> /\ Failures.history = <<>>
  BY DEF Init, Failures, NoFailures
<1>3. ToSet(<<>>) = {}
  BY EmptyIsSeq DEF ToSet
<1>4. BoundInv /\ KnowledgeWasDecided
  BY <1>2, <1>3 DEF Init, BoundInv, KnowledgeWasDecided
<1>5. RuntimeInv
  BY <1>2, <1>3, EmptyIsSeq DEF Init, RuntimeInv, CensusIsValid, RuntimesReconciled
<1>6. RunInv
  BY DEF Init, RunInv, VerifiedIsInMemory, NoRun
<1>7. DecisionsInformed
  BY <1>1, <1>2, EmptyIsSeq DEF DecisionsInformed, IsRegistry, FailuresShape
<1>8. RouteIsAuthorized
  BY DEF Init, RouteIsAuthorized
<1>9. IncidentsInCourse /\ CandidatesOfClosed
  BY EmptyIsSeq DEF Init, IncidentsInCourse, CandidatesOfClosed, Learning, NoLearning
<1>10. SessionsAreOfLinks /\ PassedSoFar
  BY EmptyIsSeq DEF Init, SessionsAreOfLinks, PassedSoFar, NoAccess, NothingSeen
<1>11. HealthInCourse /\ CommandsOutside
  BY DEF Init, HealthInCourse, CommandsOutside, NoHealth, NoDirect
<1>12. SkillsInv
  BY DEF Init, SkillsInv, SkillsInReview, LoadedWasReviewed, NoSkills
<1>13. RdcInv
  BY DEF Init, RdcInv, AreVouched, AreEarlier, NoSessions
<1>14. ReportsAgree /\ PreparedIsOnRecord
  BY DEF Init, ReportsAgree, AllAgree, PreparedIsOnRecord, NoProjects, NoProbes
<1> QED BY <1>1, <1>4, <1>5, <1>6, <1>7, <1>8, <1>9, <1>10, <1>11, <1>12, <1>13, <1>14
     DEF EvidenceInv

LEMMA StepEarned ==
  ASSUME EvidenceInv, [Next]_vars
  PROVE  EvidenceInv'
<1>1. /\ Shape /\ HistoriesApart /\ SnapshotsAreValid /\ ProjectsApart
      /\ AccessShape /\ LearningShape /\ FailuresShape
  BY DEF EvidenceInv, KeepsInv, OneAtATimeInv, AccessInv
<1>2. KeepsInv' /\ FailuresShape'
  BY <1>1, StepKeeps, StepFailures DEF EvidenceInv
<1>3. BoundInv' /\ KnowledgeWasDecided' /\ RuntimeInv'
  BY <1>1, StepBound, StepKnowledge, StepRuntimes DEF EvidenceInv
<1>4. RunInv' /\ DecisionsInformed' /\ RouteIsAuthorized'
  BY <1>1, StepEvidence, StepInformed, StepRoute DEF EvidenceInv
<1>5. IncidentsInCourse' /\ CandidatesOfClosed'
  BY <1>1, StepLearned DEF EvidenceInv
<1>6. SessionsAreOfLinks' /\ PassedSoFar'
  BY <1>1, StepRightful DEF EvidenceInv
<1>7. HealthInCourse' /\ CommandsOutside' /\ SkillsInv' /\ RdcInv'
  BY <1>1, StepCourse, StepCommands, StepReviews, StepVouched DEF EvidenceInv
<1>8. ReportsAgree' /\ PreparedIsOnRecord'
  BY <1>1, StepReports, StepPrepared DEF EvidenceInv
<1> QED BY <1>2, <1>3, <1>4, <1>5, <1>6, <1>7, <1>8 DEF EvidenceInv

LEMMA BoundIsInForce == BoundInv => BoundWasInForce
  BY DEF BoundInv, IsBound, IsApproved, BoundWasInForce

\* What was granted was earned by evidence that is still the evidence for just that, for
\* any pools of what the calls are given: no sequence of calls, failed saves, restarts,
\* expiries and overlapping probes grants an action, a request, a retry, the local
\* channel, a lesson, a binding, an admission, a runtime, a run, a review, a skill, a
\* task or a health that nothing on record supports.
THEOREM EarnedByEvidenceHolds == Spec => []EarnedByEvidence
<1>1. EvidenceInv => EarnedByEvidence
  <2>1. EvidenceInv => /\ ActionsAreVouched /\ SavedIsEarlier /\ PassedByRight
                       /\ RetriesAreInformed /\ RouteIsAuthorized /\ ClosedIsLearned
    BY VouchedAreEarned, RightfulPassed, InformedAreRight, ClosedAreLearned DEF EvidenceInv
  <2>2. EvidenceInv => /\ KnowledgeWasDecided /\ BoundWasInForce
                       /\ AdmittedByDecision /\ CertifiedIsEquivalent
                       /\ VerifiedOnEvidence /\ ReviewIsEarned
    BY BoundIsInForce, RuntimesAreEarned, RunsAreEarned DEF EvidenceInv
  <2>3. EvidenceInv => /\ LoadedWasReviewed /\ DirectStaysOutside
                       /\ PreparedIsOnRecord /\ HealthIsEarned
    BY CommandsStayOutside, CourseIsEarned DEF EvidenceInv, SkillsInv, KeepsInv
  <2> QED BY <2>1, <2>2, <2>3 DEF EarnedByEvidence
<1> QED BY <1>1, InitEvidence, StepEarned, PTL DEF Spec

-----------------------------------------------------------------------------
(***************************************************************************)
(* The types.  What a call is given is of its pool, and what it computes   *)
(* from that and from the section stays within the bounds.                 *)
(***************************************************************************)
LeaseIsTyped(lease) ==
  /\ lease.task \in TaskIds /\ lease.host \in Host /\ lease.status \in LeaseStatus
  /\ lease.generation \in 1..MaxLeases

EntryIsTyped(e) ==
  /\ e.repository \in Repository /\ e.expected \in Sha
  /\ e.status \in QueueStatus /\ e.integrated \in Optional(Sha)

LEMMA ParallelIsTyped ==
  ParallelTypeOK <=> /\ \A i \in DOMAIN state.leases : LeaseIsTyped(state.leases[i])
                     /\ \A i \in DOMAIN state.queue : EntryIsTyped(state.queue[i])
                     /\ outside.head \in [Repository -> Sha]
  BY DEF ParallelTypeOK, LeaseIsTyped, EntryIsTyped, ToSet, TaskIds

LEMMA StepLeasesTyped ==
  ASSUME Shape, LeasesApart, \A i \in DOMAIN state.leases : LeaseIsTyped(state.leases[i]), [Next]_vars
  PROVE  \A i \in DOMAIN state'.leases : LeaseIsTyped(state'.leases[i])
<1>1. /\ IsSeq(state.leases) /\ Len(state.leases) \in Nat
      /\ DOMAIN state.leases = 1..Len(state.leases)
  BY AppendIsSeq DEF LeasesApart
<1>2. ASSUME NEW t \in EngineeringTasks, NEW h \in Host, AcquireScopeLease(t, h)
      PROVE  \A i \in DOMAIN state'.leases : LeaseIsTyped(state'.leases[i])
  <2> DEFINE mine == Positions(state.leases, LAMBDA l : l.task = t.id)
             g == 1 + Cardinality(mine)
             new == [task |-> t.id, repository |-> t.repository, scope |-> t.scope,
                     host |-> h, status |-> "ACTIVE", generation |-> g]
  <2>1. Len(state.leases) < MaxLeases /\ state'.leases = Append(state.leases, new)
    BY <1>2 DEF AcquireScopeLease, Save, Shape
  <2>2. IsFiniteSet(mine) /\ Cardinality(mine) <= Len(state.leases) /\ Cardinality(mine) \in Nat
    <3>1. mine \subseteq 1..Len(state.leases)
      BY <1>1 DEF Positions
    <3>2. IsFiniteSet(1..Len(state.leases)) /\ Cardinality(1..Len(state.leases)) = Len(state.leases)
      <4>1. Cardinality(1..Len(state.leases)) = IF 1 > Len(state.leases) THEN 0 ELSE Len(state.leases) - 1 + 1
        BY <1>1, FS_Interval
      <4> QED BY <1>1, <4>1, FS_Interval
    <3> HIDE DEF mine
    <3> QED BY <3>1, <3>2, FS_Subset, FS_CardinalityType
  <2> HIDE DEF mine
  <2>3. g \in 1..MaxLeases
    BY <1>1, <2>1, <2>2, LeasesAreBounded
  <2> HIDE DEF g
  <2>4. LeaseIsTyped(new)
    BY <2>3 DEF LeaseIsTyped, TaskIds, LeaseStatus
  <2> HIDE DEF new
  <2>5. /\ DOMAIN state'.leases = 1..(Len(state.leases) + 1)
        /\ \A i \in 1..Len(state.leases) : state'.leases[i] = state.leases[i]
        /\ state'.leases[Len(state.leases) + 1] = new
    BY <1>1, <2>1, AppendIsSeq
  <2>6. \A i \in 1..(Len(state.leases) + 1) : i \in DOMAIN state.leases \/ i = Len(state.leases) + 1
    BY <1>1
  <2> QED BY <1>1, <2>4, <2>5, <2>6
<1>3. ASSUME NEW id, ReleaseScopeLease(id)
      PROVE  \A i \in DOMAIN state'.leases : LeaseIsTyped(state'.leases[i])
  <2>1. PICK k \in DOMAIN state.leases : state'.leases = [state.leases EXCEPT ![k].status = "RELEASED"]
    BY <1>3 DEF ReleaseScopeLease, Save, Shape
  <2> DEFINE e == [state.leases[k] EXCEPT !.status = "RELEASED"]
  <2>2. DOMAIN state.leases[k] = {"task", "repository", "scope", "host", "status", "generation"}
    BY DEF LeasesApart
  <2>3. LeaseIsTyped(e)
    BY <2>2 DEF LeaseIsTyped, LeaseStatus
  <2>4. state'.leases = [state.leases EXCEPT ![k] = e]
    BY <2>1
  <2> HIDE DEF e
  <2> QED BY <2>3, <2>4
<1>4. state'["leases"] # state["leases"] => LeasesNext
  BY Owners DEF Shape
<1>5. CASE LeasesNext
  BY <1>2, <1>3, <1>5 DEF LeasesNext
<1>6. CASE state'.leases = state.leases
  BY <1>6
<1> QED BY <1>4, <1>5, <1>6

LEMMA StepQueueTyped ==
  ASSUME Shape, QueueInOrder, \A i \in DOMAIN state.queue : EntryIsTyped(state.queue[i]),
         outside.head \in [Repository -> Sha], [Next]_vars
  PROVE  /\ \A i \in DOMAIN state'.queue : EntryIsTyped(state'.queue[i])
         /\ outside'.head \in [Repository -> Sha]
<1> DEFINE Goal == /\ \A i \in DOMAIN state'.queue : EntryIsTyped(state'.queue[i])
                   /\ outside'.head \in [Repository -> Sha]
<1>1. /\ IsSeq(state.queue) /\ Len(state.queue) \in Nat
      /\ DOMAIN state.queue = 1..Len(state.queue)
      /\ \A k \in DOMAIN state.queue :
           DOMAIN state.queue[k] = {"task", "repository", "expected", "integrated", "status"}
  BY AppendIsSeq DEF QueueInOrder
<1>2. ASSUME NEW t \in EngineeringTasks, NEW pushed, Enqueue(t, pushed) PROVE Goal
  <2> DEFINE st == IF ObservedHead(t) = t.created THEN "QUEUED" ELSE "RECONCILIATION_REQUIRED"
             new == [task |-> t.id, repository |-> t.repository, expected |-> t.created,
                     integrated |-> Nothing, status |-> st]
  <2>1. state'.queue = Append(state.queue, new) /\ outside' = outside
    BY <1>2 DEF Enqueue, Save, Shape
  <2>2. st \in QueueStatus
    BY DEF QueueStatus
  <2> HIDE DEF st
  <2>3. EntryIsTyped(new)
    BY <2>2, TasksAreOfRepositories DEF EntryIsTyped, Optional
  <2> HIDE DEF new
  <2>4. /\ DOMAIN state'.queue = 1..(Len(state.queue) + 1)
        /\ \A i \in 1..Len(state.queue) : state'.queue[i] = state.queue[i]
        /\ state'.queue[Len(state.queue) + 1] = new
    BY <1>1, <2>1, AppendIsSeq
  <2>5. \A i \in 1..(Len(state.queue) + 1) : i \in DOMAIN state.queue \/ i = Len(state.queue) + 1
    BY <1>1
  <2> QED BY <1>1, <2>1, <2>3, <2>4, <2>5
<1>3. ASSUME NEW k \in DOMAIN state.queue, NEW e, EntryIsTyped(e),
             Save("queue", [state.queue EXCEPT ![k] = e])
      PROVE  Goal
  BY <1>3 DEF Save, Shape
<1>4. ASSUME NEW id, RequireReadyForMerge(id) PROVE Goal
  <2>1. PICK k \in DOMAIN state.queue, s \in {"RECONCILIATION_REQUIRED", "READY"} :
          Save("queue", [state.queue EXCEPT ![k].status = s])
    BY <1>4 DEF RequireReadyForMerge
  <2> DEFINE e == [state.queue[k] EXCEPT !.status = s]
  <2>2. EntryIsTyped(e)
    BY <1>1 DEF EntryIsTyped, QueueStatus
  <2>3. Save("queue", [state.queue EXCEPT ![k] = e])
    BY <2>1
  <2> HIDE DEF e, Goal
  <2> QED BY <1>3, <2>2, <2>3
<1>5. ASSUME NEW id, NEW sha \in Sha, NEW a, MarkIntegrated(id, sha, a) PROVE Goal
  <2>1. PICK k \in DOMAIN state.queue :
          Save("queue", [state.queue EXCEPT ![k].status = "INTEGRATED", ![k].integrated = sha])
    BY <1>5 DEF MarkIntegrated
  <2> DEFINE e == [state.queue[k] EXCEPT !.status = "INTEGRATED", !.integrated = sha]
  <2>2. EntryIsTyped(e)
    BY <1>1 DEF EntryIsTyped, QueueStatus, Optional
  <2>3. Save("queue", [state.queue EXCEPT ![k] = e])
    BY <2>1
  <2> HIDE DEF e, Goal
  <2> QED BY <1>3, <2>2, <2>3
<1>6. ASSUME NEW r, NEW sha \in Sha, HeadMoves(r, sha) PROVE Goal
  BY <1>6 DEF HeadMoves, Shape
<1>7. ASSUME state'["queue"] = state["queue"], outside'["head"] = outside["head"] PROVE Goal
  BY <1>7
<1>8. /\ state'["queue"] # state["queue"] => QueueNext
      /\ outside'["head"] # outside["head"] => QueueNext
  BY Owners, OwnersOfOutside DEF Shape
<1> HIDE DEF Goal
<1>9. ASSUME QueueNext PROVE Goal
  BY <1>2, <1>4, <1>5, <1>6, <1>9 DEF QueueNext
<1>10. Goal
  BY <1>7, <1>8, <1>9
<1> QED BY <1>10 DEF Goal

LEMMA StepParallel ==
  ASSUME Shape, LeasesApart, QueueInOrder, ParallelTypeOK, [Next]_vars
  PROVE  ParallelTypeOK'
<1>1. /\ \A i \in DOMAIN state.leases : LeaseIsTyped(state.leases[i])
      /\ \A i \in DOMAIN state.queue : EntryIsTyped(state.queue[i])
      /\ outside.head \in [Repository -> Sha]
  BY ParallelIsTyped
<1>2. /\ \A i \in DOMAIN state'.leases : LeaseIsTyped(state'.leases[i])
      /\ \A i \in DOMAIN state'.queue : EntryIsTyped(state'.queue[i])
      /\ outside'.head \in [Repository -> Sha]
  BY <1>1, StepLeasesTyped, StepQueueTyped
<1> QED BY <1>2 DEF ParallelTypeOK, LeaseIsTyped, EntryIsTyped, ToSet, TaskIds

SessionIsTyped(r) ==
  /\ r.identity \in Identity /\ r.lifecycle \in RdcLifecycle
  /\ r.sequence \in 0..MaxSequence /\ r.relay \in BOOLEAN
  /\ Len(r.actions) <= MaxActions

AreTyped(records) ==
  DOMAIN records \subseteq RdcTask /\ \A t \in DOMAIN records : SessionIsTyped(records[t])

\* Every update of a session starts from a record in memory and counts it one further.
LEMMA StepRdcTyped ==
  ASSUME Shape, RdcInv, RdcTypeOK, [Next]_vars
  PROVE  RdcTypeOK'
<1> DEFINE Goal == AreTyped(state'.rdc) /\ AreTyped(memory'.rdc)
<1>1. AreTyped(state.rdc) /\ AreTyped(memory.rdc)
  BY DEF RdcTypeOK, AreTyped, SessionIsTyped
<1>2. ASSUME NEW t \in DOMAIN Sessions
      PROVE  /\ DOMAIN Sessions[t] = SessionFields /\ SessionIsTyped(Sessions[t]) /\ t \in RdcTask
             /\ IsSeq(Sessions[t].actions) /\ Len(Sessions[t].actions) \in Nat
  BY <1>1, AppendIsSeq DEF RdcInv, AreVouched, SessionIsVouched, AreTyped, Sessions
<1>3. ASSUME NEW records, Persisted(records), AreTyped(records) PROVE Goal
  BY <1>1, <1>3 DEF Persisted, Keep, Shape
<1>4. ASSUME NEW t \in DOMAIN Sessions, NEW r, Update(t, r), DOMAIN r = SessionFields,
             r.identity \in Identity, r.lifecycle \in RdcLifecycle, r.relay \in BOOLEAN,
             r.sequence = Sessions[t].sequence, Len(r.actions) <= MaxActions
      PROVE  Goal
  <2> DEFINE n == Advanced(r)
             records == [Sessions EXCEPT ![t] = n]
  <2>1. Sessions[t].sequence < MaxSequence /\ Persisted(records)
    BY <1>4 DEF Update
  <2>2. /\ n.identity = r.identity /\ n.lifecycle = r.lifecycle /\ n.relay = r.relay
        /\ n.actions = r.actions /\ n.sequence = Sessions[t].sequence + 1
    BY <1>4 DEF Advanced, SessionFields
  <2>3. Sessions[t].sequence \in 0..MaxSequence
    BY <1>2 DEF SessionIsTyped
  <2> HIDE DEF n
  <2>4. n.sequence \in 0..MaxSequence
    BY <2>1, <2>2, <2>3, SessionsAreBounded
  <2>5. SessionIsTyped(n)
    BY <1>4, <2>2, <2>4 DEF SessionIsTyped
  <2>6. AreTyped(records)
    BY <1>1, <2>5 DEF AreTyped, Sessions
  <2> HIDE DEF records, Goal
  <2> QED BY <1>3, <2>1, <2>6
<1>5. ASSUME NEW c \in RdcContexts, NEW q, StartSession(c, q) PROVE Goal
  <2> DEFINE new == [identity |-> c.identity, lifecycle |-> "ACTIVE", sequence |-> 0,
                     actions |-> <<>>, last |-> q, relay |-> FALSE]
             records == With(Sessions, c.task, new)
  <2>1. Persisted(records)
    BY <1>5 DEF StartSession
  <2>2. Len(<<>>) = 0 /\ 0 <= MaxActions /\ 0 \in 0..MaxSequence
    BY SessionsAreBounded
  <2>3. SessionIsTyped(new)
    BY <2>2, ContextsAreOfTasks DEF SessionIsTyped, RdcLifecycle
  <2> HIDE DEF new
  <2>4. AreTyped(records)
    BY <1>1, <2>3, ContextsAreOfTasks DEF AreTyped, With, Sessions
  <2> HIDE DEF records, Goal
  <2> QED BY <1>3, <2>1, <2>4
<1>6. ASSUME NEW t, NEW action, NEW q, RecordAction(t, action, q) PROVE Goal
  <2> DEFINE s == Sessions[t]
             r == [s EXCEPT !.actions = Append(@, Receipt(action, q)), !.last = q]
  <2>1. t \in DOMAIN Sessions /\ Len(s.actions) < MaxActions /\ Update(t, r)
    BY <1>6 DEF RecordAction
  <2>2. /\ DOMAIN s = SessionFields /\ SessionIsTyped(s)
        /\ IsSeq(s.actions) /\ Len(s.actions) \in Nat
    BY <1>2, <2>1
  <2> HIDE DEF s
  <2>3. /\ DOMAIN r = SessionFields /\ r.actions = Append(s.actions, Receipt(action, q))
        /\ r.identity = s.identity /\ r.sequence = s.sequence /\ r.lifecycle = s.lifecycle
        /\ r.relay = s.relay
    BY <2>2 DEF SessionFields
  <2> HIDE DEF r
  <2>4. Len(r.actions) = Len(s.actions) + 1
    BY <2>2, <2>3, AppendIsSeq
  <2>5. Len(r.actions) <= MaxActions
    BY <2>1, <2>2, <2>4, SessionsAreBounded
  <2>6. r.identity \in Identity /\ r.lifecycle \in RdcLifecycle /\ r.relay \in BOOLEAN
    BY <2>2, <2>3 DEF SessionIsTyped
  <2> HIDE DEF Goal
  <2> QED BY <1>4, <2>1, <2>3, <2>5, <2>6 DEF s
<1>7. ASSUME NEW t \in DOMAIN Sessions, NEW r, Update(t, r), DOMAIN r = SessionFields,
             r.identity = Sessions[t].identity, r.sequence = Sessions[t].sequence,
             r.actions = Sessions[t].actions, r.lifecycle \in RdcLifecycle, r.relay \in BOOLEAN
      PROVE  Goal
  <2>1. SessionIsTyped(Sessions[t])
    BY <1>2
  <2> HIDE DEF Goal
  <2> QED BY <1>4, <1>7, <2>1 DEF SessionIsTyped
<1>8. ASSUME NEW t \in DOMAIN Sessions, NEW l \in RdcLifecycle, NEW q, NEW b \in BOOLEAN,
             \/ Update(t, [Sessions[t] EXCEPT !.lifecycle = l])
             \/ Update(t, [Sessions[t] EXCEPT !.lifecycle = l, !.last = q])
             \/ Update(t, [Sessions[t] EXCEPT !.relay = b])
      PROVE  Goal
  <2> DEFINE s == Sessions[t]
             x == [s EXCEPT !.lifecycle = l]
             y == [s EXCEPT !.lifecycle = l, !.last = q]
             z == [s EXCEPT !.relay = b]
  <2>1. DOMAIN s = SessionFields /\ SessionIsTyped(s)
    BY <1>2
  <2>2. Update(t, x) \/ Update(t, y) \/ Update(t, z)
    BY <1>8
  <2>3. \A r \in {x, y, z} :
          /\ DOMAIN r = SessionFields /\ r.actions = s.actions
          /\ r.identity = s.identity /\ r.sequence = s.sequence
    <3> HIDE DEF s
    <3> QED BY <2>1 DEF SessionFields
  <2>4. \A r \in {x, y, z} : r.lifecycle \in RdcLifecycle /\ r.relay \in BOOLEAN
    <3> HIDE DEF s
    <3> QED BY <2>1 DEF SessionFields, SessionIsTyped
  <2> HIDE DEF x, y, z, Goal
  <2> QED BY <1>7, <2>2, <2>3, <2>4
<1>9. {"ACTIVE", "INTERRUPTED", "RESUMED", "COMPLETED"} = RdcLifecycle
  BY DEF RdcLifecycle
<1> HIDE DEF Goal
<1>10. ASSUME NEW t, InterruptSession(t) PROVE Goal
  BY <1>8, <1>9, <1>10 DEF InterruptSession
<1>11. ASSUME NEW c, NEW q, ResumeSession(c, q) PROVE Goal
  BY <1>8, <1>9, <1>11 DEF ResumeSession
<1>12. ASSUME NEW t, NEW b, RecordManualRelayException(t, b) PROVE Goal
  BY <1>8, <1>9, <1>12 DEF RecordManualRelayException
<1>13. ASSUME NEW t, CompleteSession(t) PROVE Goal
  BY <1>8, <1>9, <1>13 DEF CompleteSession
<1>14. ASSUME RestoreSessions PROVE Goal
  BY <1>1, <1>14 DEF RestoreSessions, Shape, Goal
<1>15. ASSUME state'["rdc"] = state["rdc"], memory'["rdc"] = memory["rdc"] PROVE Goal
  BY <1>1, <1>15 DEF Goal
<1>16. /\ state'["rdc"] # state["rdc"] => RdcNext
       /\ memory'["rdc"] # memory["rdc"] => RdcNext
  BY Owners, OwnersOfMemory DEF Shape
<1>17. ASSUME RdcNext PROVE Goal
  BY <1>5, <1>6, <1>10, <1>11, <1>12, <1>13, <1>14, <1>17 DEF RdcNext
<1>18. Goal
  BY <1>15, <1>16, <1>17
<1> QED BY <1>18 DEF Goal, RdcTypeOK, AreTyped, SessionIsTyped

\* A session is opened by a link that was issued.
LEMMA StepAccessTyped ==
  ASSUME Shape, AccessShape, AccessTypeOK, [Next]_vars
  PROVE  AccessTypeOK'
<1> DEFINE p == Purged(memory.access)
           Goal == /\ DOMAIN memory'.access.pending \subseteq outside'.access.issued
                   /\ DOMAIN memory'.access.sessions \subseteq outside'.access.issued
                   /\ outside'.access.now \in 0..MaxTime
<1>1. /\ DOMAIN p = {"pending", "sessions", "bucket"}
      /\ DOMAIN p.pending \subseteq DOMAIN memory.access.pending
      /\ DOMAIN p.sessions \subseteq DOMAIN memory.access.sessions
  BY PurgedKeeps, PurgedSessions
<1>2. /\ DOMAIN outside.access = {"now", "issued", "redeemed", "accepted"}
      /\ Now \in 0..MaxTime /\ Now = outside.access.now
      /\ DOMAIN memory.access.pending \subseteq outside.access.issued
      /\ DOMAIN memory.access.sessions \subseteq outside.access.issued
  BY DEF AccessShape, AccessTypeOK, Now
<1>3. /\ DOMAIN p.pending \subseteq outside.access.issued
      /\ DOMAIN p.sessions \subseteq outside.access.issued
  BY <1>1, <1>2
<1> HIDE DEF p
<1>4. ASSUME NEW access, NEW seen, Serve(access, seen)
      PROVE  memory'.access = access /\ outside'.access = seen
  BY <1>4 DEF Serve, Shape
<1>5. ASSUME NEW q, NEW n, IssueLaunch(q, n) PROVE Goal
  <2> DEFINE access == [p EXCEPT !.pending = With(@, n, Lease(q, LaunchTtl))]
             seen == [outside.access EXCEPT !.issued = @ \cup {n}]
  <2>1. memory'.access = access /\ outside'.access = seen
    BY <1>4, <1>5 DEF IssueLaunch, p
  <2>2. /\ DOMAIN access.pending = DOMAIN p.pending \cup {n} /\ access.sessions = p.sessions
        /\ seen.issued = outside.access.issued \cup {n} /\ seen.now = Now
    BY <1>1, <1>2 DEF With
  <2> HIDE DEF access, seen
  <2> QED BY <1>2, <1>3, <2>1, <2>2
<1>6. ASSUME NEW n, NEW l, RedeemLaunch(n, l) PROVE Goal
  <2> DEFINE who == p.pending[n].principal
             access == [p EXCEPT !.pending = Without(@, n),
                                 !.sessions = With(@, n, Lease(who, SessionTtl))]
             r == [nonce |-> n, principal |-> who, at |-> Now]
             seen == [outside.access EXCEPT !.redeemed = Append(@, r)]
  <2>1. \/ n \in DOMAIN p.pending /\ Serve(access, seen)
        \/ Serve(p, outside.access)
    BY <1>6 DEF RedeemLaunch, p
  <2>2. /\ DOMAIN access.pending = DOMAIN p.pending \ {n}
        /\ DOMAIN access.sessions = DOMAIN p.sessions \cup {n}
        /\ seen.issued = outside.access.issued /\ seen.now = Now
    BY <1>1, <1>2 DEF With, Without
  <2> HIDE DEF access, seen
  <2>3. CASE n \in DOMAIN p.pending /\ Serve(access, seen)
    BY <1>2, <1>3, <1>4, <2>2, <2>3
  <2>4. CASE Serve(p, outside.access)
    BY <1>2, <1>3, <1>4, <2>4
  <2> QED BY <2>1, <2>3, <2>4
<1>7. ASSUME NEW k, NEW q, NEW s, Authenticate(k, q, s) PROVE Goal
  <2> DEFINE c == IF k \in DOMAIN p.sessions THEN p.sessions[k].principal ELSE q
             recent == Recent(p.bucket[c])
             a == [client |-> c, at |-> Now, scope |-> s,
                   session |-> IF k \in DOMAIN p.sessions THEN k ELSE Nothing]
             more == [p EXCEPT !.bucket[c] = Append(recent, Now)]
             less == [p EXCEPT !.bucket[c] = recent]
             seen == [outside.access EXCEPT !.accepted = Append(@, a)]
  <2>1. Serve(more, seen) \/ Serve(less, outside.access)
    BY <1>7 DEF Authenticate, p
  <2>2. /\ more.pending = p.pending /\ more.sessions = p.sessions
        /\ less.pending = p.pending /\ less.sessions = p.sessions
        /\ seen.issued = outside.access.issued /\ seen.now = Now
    <3> HIDE DEF c, recent, a
    <3> QED BY <1>1, <1>2
  <2> HIDE DEF c, recent, a, more, less, seen
  <2>3. CASE Serve(more, seen)
    BY <1>2, <1>3, <1>4, <2>2, <2>3
  <2>4. CASE Serve(less, outside.access)
    BY <1>2, <1>3, <1>4, <2>2, <2>4
  <2> QED BY <2>1, <2>3, <2>4
<1>8. ASSUME Tick PROVE Goal
  <2> DEFINE seen == [outside.access EXCEPT !.now = @ + 1]
  <2>1. Now < MaxTime /\ Serve(memory.access, seen)
    BY <1>8 DEF Tick
  <2>2. seen.issued = outside.access.issued /\ seen.now = Now + 1
    BY <1>2
  <2>3. Now + 1 \in 0..MaxTime
    BY <1>2, <2>1, TimeIsBounded
  <2> HIDE DEF seen
  <2> QED BY <1>2, <1>4, <2>1, <2>2, <2>3
<1>9. ASSUME ForgetAccess PROVE Goal
  <2> DEFINE seen == [outside.access EXCEPT !.accepted = <<>>]
  <2>1. Serve(NoAccess, seen)
    BY <1>9 DEF ForgetAccess
  <2>2. seen.issued = outside.access.issued /\ seen.now = Now
    BY <1>2
  <2>3. DOMAIN NoAccess.pending = {} /\ DOMAIN NoAccess.sessions = {}
    BY DEF NoAccess
  <2> HIDE DEF seen
  <2> QED BY <1>2, <1>4, <2>1, <2>2, <2>3
<1>10. ASSUME memory'["access"] = memory["access"], outside'["access"] = outside["access"] PROVE Goal
  BY <1>2, <1>10
<1>11. /\ memory'["access"] # memory["access"] => AccessNext
       /\ outside'["access"] # outside["access"] => AccessNext
  BY OwnersOfMemory, OwnersOfOutside DEF Shape
<1> HIDE DEF Goal
<1>12. ASSUME AccessNext PROVE Goal
  BY <1>5, <1>6, <1>7, <1>8, <1>9, <1>12 DEF AccessNext
<1>13. Goal
  BY <1>10, <1>11, <1>12
<1> QED BY <1>13 DEF Goal, AccessTypeOK, Now

TaskIsTyped(r) ==
  /\ DOMAIN r = TaskFields
  /\ r.status \in {"pending", "running", "failed", "over"} /\ r.env \in Optional(Env)

\* A task is recovered from the document, which has what was in memory.
LEMMA StepFailuresTyped ==
  ASSUME Shape, TasksShape, LearningShape, FailuresTypeOK, [Next]_vars
  PROVE  FailuresTypeOK'
<1> DEFINE Goal == \A t \in FailureTask : TaskIsTyped(memory'.tasks[t])
<1>1. DOMAIN Tasks = FailureTask /\ \A t \in FailureTask : TaskIsTyped(Tasks[t])
  BY DEF TasksShape, FailuresTypeOK, Tasks, TaskIsTyped
<1>2. ASSUME NEW t \in FailureTask, NEW r, NEW f, SaveTask(t, r, f), TaskIsTyped(r) PROVE Goal
  <2>1. memory'.tasks = [Tasks EXCEPT ![t] = r]
    BY <1>2, TaskMoves
  <2> QED BY <1>1, <1>2, <2>1
<1>3. ASSUME NEW f, Recover(f) PROVE Goal
  <2>1. memory'.tasks = RecoveredTasks
    BY <1>3 DEF Recover, Shape
  <2>2. ASSUME NEW t \in FailureTask PROVE TaskIsTyped(RecoveredTasks[t])
    <3>1. TaskIsTyped(state.tasks[t])
      BY <1>1 DEF TasksShape, Tasks
    <3>2. RecoveredTasks[t] \in {state.tasks[t], [state.tasks[t] EXCEPT !.status = "failed", !.blocker = Restarted]}
      BY DEF RecoveredTasks
    <3> QED BY <3>1, <3>2 DEF TaskIsTyped, TaskFields
  <2> QED BY <2>1, <2>2
<1>4. ASSUME NEW v, Save("failures", v) PROVE Goal
  <2>1. memory' = memory
    BY <1>4 DEF Save
  <2> QED BY <1>1, <2>1 DEF Tasks
<1> HIDE DEF Goal
<1>5. ASSUME NEW fp, NEW t, NEW e, NEW o, EvaluateRetry(fp, t, e, o) PROVE Goal
  BY <1>4, <1>5 DEF EvaluateRetry
<1>6. ASSUME NEW t \in FailureTask, NEW x \in {"pending", "running", "failed", "over"}
      PROVE  TaskIsTyped(Left(t, x))
  BY <1>1 DEF TaskIsTyped, TaskFields, Left, Optional
<1>7. ASSUME NEW t \in FailureTask, NEW x \in {"failed", "over"}, NEW fp, NEW e \in Env, NEW id,
             FailWith(t, x, fp, e, id)
      PROVE  Goal
  <2> DEFINE failed == [Tasks[t] EXCEPT !.status = x, !.blocker = fp, !.env = e]
             r == IF x = "failed" THEN failed ELSE Left(t, x)
  <2>1. TaskIsTyped(failed)
    BY <1>1 DEF TaskIsTyped, TaskFields, Optional
  <2>2. (\E f : SaveTask(t, r, f)) \/ (\E f : Recover(f))
    BY <1>7 DEF FailWith
  <2> HIDE DEF failed
  <2>3. TaskIsTyped(r)
    BY <1>6, <2>1
  <2> HIDE DEF r
  <2> QED BY <1>2, <1>3, <2>2, <2>3
<1>8. ASSUME NEW t \in FailureTask, NEW o, ContinueTask(t, o) PROVE Goal
  <2>1. (\E f : SaveTask(t, Left(t, "pending"), f)) \/ (\E v : Save("failures", v))
    BY <1>8 DEF ContinueTask
  <2>2. TaskIsTyped(Left(t, "pending"))
    BY <1>6
  <2> QED BY <1>2, <1>4, <2>1, <2>2
<1>9. ASSUME NEW t \in FailureTask, QueueTask(t) \/ LeaveTask(t) PROVE Goal
  <2>1. SaveTask(t, Left(t, "running"), Failures) \/ SaveTask(t, Left(t, "over"), Failures)
    BY <1>9 DEF QueueTask, LeaveTask
  <2>2. TaskIsTyped(Left(t, "running")) /\ TaskIsTyped(Left(t, "over"))
    BY <1>6
  <2> QED BY <1>2, <2>1, <2>2
<1>10. ASSUME NEW t \in FailureTask, AuthorizeTask(t) PROVE Goal
  <2> DEFINE r == [Tasks[t] EXCEPT !.authorized = TRUE, !.blocker = Nothing]
  <2>1. TaskIsTyped(r)
    BY <1>1 DEF TaskIsTyped, TaskFields
  <2>2. SaveTask(t, r, Failures)
    BY <1>10 DEF AuthorizeTask
  <2> HIDE DEF r
  <2> QED BY <1>2, <2>1, <2>2
<1>11. ASSUME NEW t \in FailureTask, GenerateManualPackage(t) PROVE Goal
  <2> DEFINE r == [Left(t, "pending") EXCEPT !.packaged = TRUE]
  <2>1. TaskIsTyped(Left(t, "pending"))
    BY <1>6
  <2>2. TaskIsTyped(r)
    BY <2>1 DEF TaskIsTyped, TaskFields
  <2>3. SaveTask(t, r, Failures)
    BY <1>11 DEF GenerateManualPackage
  <2> HIDE DEF r
  <2> QED BY <1>2, <2>2, <2>3
<1>12. memory'["tasks"] # memory["tasks"] => RetriesNext
  BY OwnersOfMemory DEF Shape
<1>13. ASSUME RetriesNext PROVE Goal
  BY <1>3, <1>5, <1>7, <1>8, <1>9, <1>10, <1>11, <1>13 DEF RetriesNext, RecoverTasks
<1>14. ASSUME memory'["tasks"] = memory["tasks"] PROVE Goal
  BY <1>1, <1>14 DEF Goal, Tasks
<1>15. Goal
  BY <1>12, <1>13, <1>14
<1>16. \A i \in DOMAIN state'.learning.incidents : i \in IncidentId
  <2> DEFINE ByIncident == \A i \in DOMAIN state'.learning.incidents : i \in IncidentId
  <2>1. /\ DOMAIN Learning = {"incidents", "candidates"} /\ Learning = state.learning
        /\ \A i \in DOMAIN Learning.incidents : i \in IncidentId
    BY DEF LearningShape, FailuresTypeOK, Learning
  <2>2. ASSUME NEW v, Save("learning", v) PROVE state'.learning = v
    BY <2>2 DEF Save, Shape
  <2>3. ASSUME NEW i, NEW n, Replace(i, n) PROVE ByIncident
    <3>1. state'.learning = [Learning EXCEPT !.incidents[i] = n]
      BY <2>2, <2>3 DEF Replace
    <3> QED BY <2>1, <3>1
  <2>4. ASSUME NEW i \in IncidentId, NEW id, OpenIncident(i, id) PROVE ByIncident
    <3>1. PICK n : state'.learning = [Learning EXCEPT !.incidents = With(@, i, n)]
      BY <2>2, <2>4 DEF OpenIncident
    <3>2. state'.learning.incidents = With(Learning.incidents, i, n)
      BY <2>1, <3>1
    <3> QED BY <2>1, <3>2 DEF With
  <2>5. ASSUME NEW i, CloseIncident(i) PROVE ByIncident
    <3> DEFINE closed == [Learning EXCEPT !.incidents[i].status = "CLOSED"]
    <3>1. state'.learning = closed \/ \E c : state'.learning = [closed EXCEPT !.candidates = c]
      BY <2>2, <2>5 DEF CloseIncident, Shape
    <3>2. DOMAIN closed = {"incidents", "candidates"} /\ DOMAIN closed.incidents = DOMAIN Learning.incidents
      BY <2>1
    <3> HIDE DEF closed
    <3>3. state'.learning.incidents = closed.incidents
      BY <3>1, <3>2
    <3> QED BY <2>1, <3>2, <3>3
  <2>6. state'["learning"] # state["learning"] => IncidentsNext
    BY Owners DEF Shape
  <2>7. ASSUME state'["learning"] = state["learning"] PROVE ByIncident
    BY <2>1, <2>7
  <2> HIDE DEF ByIncident
  <2>8. ASSUME IncidentsNext PROVE ByIncident
    BY <2>3, <2>4, <2>5, <2>8
    DEF IncidentsNext, ClassifyRootCause, BindLearning, VerifyPrevention
  <2>9. ByIncident
    BY <2>6, <2>7, <2>8
  <2> QED BY <2>9 DEF ByIncident
<1> QED BY <1>15, <1>16 DEF Goal, TaskIsTyped, FailuresTypeOK, Tasks, Learning

\* An event holds the reading of the clock.
ChangesTyped == ChangesTypeOK /\ outside.clock \in 0..MaxClock

LEMMA StepChangesTyped ==
  ASSUME Shape, HistoriesApart, ItemsAreOfEvents, ChangesTyped, [Next]_vars
  PROVE  ChangesTyped'
<1>1. \A g \in Graphs' : g \in GraphPool
  <2>1. CASE state'.graphs = state.graphs
    BY <2>1 DEF ChangesTyped, ChangesTypeOK, Graphs
  <2>2. CASE state'.graphs # state.graphs
    <3>1. PICK g \in GraphPool : state'.graphs = Append(state.graphs, g)
      BY <2>2, ChangesGrow
    <3>2. IsSeq(state.graphs)
      BY DEF HistoriesApart, Registries
    <3>3. ToSet(state'.graphs) = ToSet(state.graphs) \cup {g}
      BY <3>1, <3>2, AppendToSet
    <3> QED BY <3>3 DEF ChangesTyped, ChangesTypeOK, Graphs
  <2> QED BY <2>1, <2>2
<1>2. \A v \in Events' : v.type \in EventType /\ v.at \in 0..MaxClock
  <2>1. CASE state'.events = state.events
    BY <2>1 DEF ChangesTyped, ChangesTypeOK, Events
  <2>2. CASE state'.events # state.events
    <3>1. PICK v \in EventPool, g \in GraphPool, c \in Contracts : RegisterAcceptedChange(v, g, c)
      BY <2>2, ChangesGrow
    <3> DEFINE e == [at |-> outside.clock, graph |-> g, contracts |-> c,
                     id |-> v.id, change |-> v.change, type |-> v.type, project |-> v.project,
                     affected |-> v.affected, edge |-> v.edge, contract |-> v.contract,
                     accepted |-> v.accepted, authority |-> v.authority]
    <3>2. state'.events = Append(state.events, e)
      BY <3>1, SaveIs DEF RegisterAcceptedChange, Shape
    <3>3. e.type \in EventType /\ e.at \in 0..MaxClock
      BY EventsAreTyped DEF ChangesTyped
    <3> HIDE DEF e
    <3>4. ToSet(state'.events) = ToSet(state.events) \cup {e}
      BY <3>2, AppendToSet DEF ItemsAreOfEvents
    <3> QED BY <3>3, <3>4 DEF ChangesTyped, ChangesTypeOK, Events
  <2> QED BY <2>1, <2>2
<1>3. \A k \in DOMAIN state'.inbox : state'.inbox[k].status \in InboxStatus
  BY StepItemsAreOfEvents DEF ItemsAreOfEvents
<1>4. outside'.clock \in 0..MaxClock
  <2>1. outside'["clock"] # outside["clock"] => ChangesNext
    BY OwnersOfOutside DEF Shape
  <2>2. ClockTicks => outside'.clock \in 0..MaxClock
    BY ClockIsBounded DEF ClockTicks, Shape, ChangesTyped
  <2>3. ASSUME NEW s, NEW v, Save(s, v) PROVE outside' = outside
    BY <2>3 DEF Save
  <2>4. ASSUME NEW v, NEW g, NEW c, NEW p, NEW r, RequireProjectClear(v, g, c, p, r)
        PROVE  outside'.clock = outside.clock
    BY <2>4 DEF RequireProjectClear, Shape
  <2>5. ChangesNext => ClockTicks \/ outside'.clock = outside.clock
    BY <2>3, <2>4 DEF ChangesNext, ImportGraph, ImportContracts, RegisterAcceptedChange,
                      SyncRegistry, Transition
  <2> QED BY <2>1, <2>2, <2>5 DEF ChangesTyped
<1> QED BY <1>1, <1>2, <1>3, <1>4 DEF ChangesTyped, ChangesTypeOK

RuntimesTyped ==
  RuntimesTypeOK /\ DOMAIN state.database = {"status", "objects", "catalog", "hash"}

LEMMA StepRuntimesTyped ==
  ASSUME Shape, HistoriesApart, RuntimesTyped, [Next]_vars
  PROVE  RuntimesTyped'
<1>1. IsSeq(state.census) /\ IsSeq(state.environment)
  BY DEF HistoriesApart, Registries
<1>2. \A c \in ToSet(state'.census) : c \in CensusPool
  <2>1. CASE state'.census = state.census
    BY <2>1 DEF RuntimesTyped, RuntimesTypeOK
  <2>2. CASE state'.census # state.census
    <3>1. PICK c \in CensusPool : state'.census = Append(state.census, c)
      BY <2>2, CensusGrows
    <3>2. ToSet(state'.census) = ToSet(state.census) \cup {c}
      BY <1>1, <3>1, AppendToSet
    <3> QED BY <3>2 DEF RuntimesTyped, RuntimesTypeOK
  <2> QED BY <2>1, <2>2
<1>3. \A e \in ToSet(state'.environment) :
        e.revision \in RuntimeRevision /\ e.receipt \in Optional(RuntimeReceipts)
  <2>1. CASE state'.environment = state.environment
    BY <2>1 DEF RuntimesTyped, RuntimesTypeOK
  <2>2. CASE state'.environment # state.environment
    <3>1. PICK r \in RuntimeRevision, b \in Baselines, f \in Fingerprints, x \in Optional(RuntimeReceipts) :
            state'.environment = Append(state.environment,
              [revision |-> r, baseline |-> b, current |-> f,
               status |-> Reconciled(b, f, x), receipt |-> x])
      BY <2>2, EnvironmentGrows
    <3> DEFINE e == [revision |-> r, baseline |-> b, current |-> f,
                     status |-> Reconciled(b, f, x), receipt |-> x]
    <3>2. e.revision \in RuntimeRevision /\ e.receipt \in Optional(RuntimeReceipts)
      OBVIOUS
    <3>3. ToSet(state'.environment) = ToSet(state.environment) \cup {e}
      BY <1>1, <3>1, AppendToSet
    <3> HIDE DEF e
    <3> QED BY <3>2, <3>3 DEF RuntimesTyped, RuntimesTypeOK
  <2> QED BY <2>1, <2>2
<1>4. /\ state'.database.status \in {"none", "SUMMARY_ONLY", "COMPLETE"}
      /\ DOMAIN state'.database = {"status", "objects", "catalog", "hash"}
  <2> DEFINE Good(d) == /\ d.status \in {"none", "SUMMARY_ONLY", "COMPLETE"}
                        /\ DOMAIN d = {"status", "objects", "catalog", "hash"}
  <2>1. Good(state.database)
    BY DEF RuntimesTyped, RuntimesTypeOK
  <2>2. ASSUME NEW d, Save("database", d) PROVE state'.database = d
    BY <2>2 DEF Save, Shape
  <2>3. EnsureSeed => Good(state'.database)
    BY <2>2 DEF EnsureSeed, NoDatabase
  <2>4. ASSUME NEW c, ReplaceCatalogSnapshot(c) PROVE Good(state'.database)
    BY <2>2, <2>4 DEF ReplaceCatalogSnapshot
  <2>5. ASSUME NEW o, NEW h, ReplaceSchemaSnapshot(o, h) PROVE Good(state'.database)
    BY <2>1, <2>2, <2>5 DEF ReplaceSchemaSnapshot
  <2>6. state'["database"] # state["database"] => DatabaseNext
    BY Owners DEF Shape
  <2> QED BY <2>1, <2>3, <2>4, <2>5, <2>6 DEF DatabaseNext
<1> QED BY <1>2, <1>3, <1>4 DEF RuntimesTyped, RuntimesTypeOK

LEMMA StepGatesTyped ==
  ASSUME Shape, RunInv, GatesTypeOK, [Next]_vars
  PROVE  GatesTypeOK'
<1> DEFINE Good == \A r \in {state'.run, memory'.run} : r # NoRun => RunIsTyped(r)
<1>1. \A r \in {state.run, memory.run} : r # NoRun => RunIsTyped(r)
  BY DEF GatesTypeOK, RunIsTyped
<1>2. ASSUME NEW r \in GateRuns, ExecutorEnds(r) PROVE Good
  <2>1. state'.run = r /\ memory'.run = r
    BY <1>2 DEF ExecutorEnds, Keep, Shape
  <2>2. RunIsTyped(r)
    BY RunsRequireEvidence DEF RunIsTyped
  <2> QED BY <2>1, <2>2
<1>3. ASSUME NEW q, VerifyRun(q) PROVE Good
  <2> DEFINE decision == Acceptance(q.head, Run.required, Collected(Run, q))
             needs == Run.changed # {} \/ q.learning # Nothing
             decided == [Run EXCEPT !.decision = decision]
             verified == [decided EXCEPT !.status = "verified",
                                         !.learning = IF needs THEN q.learning ELSE @]
  <2>1. /\ Run # NoRun
        /\ memory'.run \in {decided, verified} /\ state'.run \in {decided, verified, state.run}
    <3>1. CASE ~decision.accepted
      BY <1>3, <3>1 DEF VerifyRun, Shape
    <3>2. CASE decision.accepted /\ needs /\ ~ClosedOut(q.learning, Run, q.head)
      BY <1>3, <3>2 DEF VerifyRun, Shape
    <3>3. CASE decision.accepted /\ ~(needs /\ ~ClosedOut(q.learning, Run, q.head))
      BY <1>3, <3>3 DEF VerifyRun, Shape
    <3> QED BY <3>1, <3>2, <3>3
  <2>2. DOMAIN Run = RunFields /\ RunIsTyped(Run)
    BY <1>1, <2>1 DEF RunInv, IsRun, Run
  <2>3. RunIsTyped(decided)
    <3> HIDE DEF decision
    <3> QED BY <2>2 DEF RunIsTyped, RunFields, RunStatus
  <2>4. RunIsTyped(verified)
    <3> HIDE DEF decision, needs
    <3> QED BY <2>2 DEF RunIsTyped, RunFields, RunStatus
  <2> HIDE DEF decision, needs, decided, verified
  <2> QED BY <1>1, <2>1, <2>3, <2>4
<1>4. ASSUME OtherTaskSaves PROVE Good
  <2>1. state'.run = memory.run /\ memory'.run = memory.run
    BY <1>4 DEF OtherTaskSaves, Shape
  <2> QED BY <1>1, <2>1
<1>5. ASSUME NEW r, Keep("run", r), RunIsTyped(r) PROVE Good
  <2>1. state'.run = r /\ memory'.run = r
    BY <1>5 DEF Keep, Shape
  <2> QED BY <1>5, <2>1
<1>6. ASSUME RestoreRun PROVE Good
  <2>1. CASE state.run # NoRun /\ state.run.status = "running"
    <3> DEFINE r == [state.run EXCEPT !.status = "failed"]
    <3>1. Keep("run", r)
      BY <1>6, <2>1 DEF RestoreRun
    <3>2. DOMAIN state.run = RunFields /\ RunIsTyped(state.run)
      BY <1>1, <2>1 DEF RunInv, IsRun
    <3>3. RunIsTyped(r)
      BY <3>2 DEF RunIsTyped, RunFields, RunStatus
    <3> HIDE DEF r
    <3> QED BY <1>5, <3>1, <3>3
  <2>2. CASE ~(state.run # NoRun /\ state.run.status = "running")
    <3>1. state' = state /\ memory'.run = state.run
      BY <1>6, <2>2 DEF RestoreRun, Shape
    <3> QED BY <1>1, <3>1
  <2> QED BY <2>1, <2>2
<1>7. ASSUME RunMoves PROVE Good
  <2>1. PICK r : /\ Keep("run", r) /\ Run # NoRun
                 /\ (DOMAIN Run = RunFields /\ RunIsTyped(Run) => RunIsTyped(r))
    BY <1>7, MovesOfARun
  <2>2. DOMAIN Run = RunFields /\ RunIsTyped(Run)
    BY <1>1, <2>1 DEF RunInv, IsRun, Run
  <2> QED BY <1>5, <2>1, <2>2
<1>8. ASSUME NEW p, NEW t, NEW m, NEW v, AuthorizeRollup(p, t, m, v) PROVE Good
  BY <1>1, <1>8 DEF AuthorizeRollup
<1>9. ASSUME state'["run"] = state["run"], memory'["run"] = memory["run"] PROVE Good
  BY <1>1, <1>9
<1>10. /\ state'["run"] # state["run"] => EvidenceNext
       /\ memory'["run"] # memory["run"] => EvidenceNext
  BY Owners, OwnersOfMemory DEF Shape
<1> HIDE DEF Good
<1>11. ASSUME EvidenceNext PROVE Good
  BY <1>2, <1>3, <1>4, <1>6, <1>7, <1>8, <1>11 DEF EvidenceNext, RunMoves
<1>12. Good
  BY <1>9, <1>10, <1>11
<1> QED BY <1>12 DEF Good, GatesTypeOK, RunIsTyped

\* Six levels at most are passed in a row.
LEMMA ContiguousIsLevel ==
  ASSUME NEW d, DOMAIN d = 1..6
  PROVE  Contiguous(d) \in 0..6
<1> DEFINE S == {i \in DOMAIN d : \A j \in 1..i : d[j].passed}
<1>1. S \in SUBSET (1..6)
  OBVIOUS
<1> DEFINE All == 1..6
<1>2. IsFiniteSet(All) /\ Cardinality(All) = 6
  <2>1. 1 \in Int /\ 6 \in Int /\ ~(1 > 6) /\ 6 - 1 + 1 = 6
    OBVIOUS
  <2>2. IsFiniteSet(1..6) /\ Cardinality(1..6) = IF 1 > 6 THEN 0 ELSE 6 - 1 + 1
    BY <2>1, FS_Interval, Zenon
  <2> QED BY <2>1, <2>2
<1> HIDE DEF S, All
<1>3. IsFiniteSet(S) /\ Cardinality(S) <= 6
  <2>1. IsFiniteSet(S) /\ Cardinality(S) <= Cardinality(All)
    BY <1>1, <1>2, FS_Subset DEF All
  <2> QED BY <1>2, <2>1
<1>4. Cardinality(S) \in Nat
  BY <1>3, FS_CardinalityType
<1>5. Cardinality(S) \in 0..6
  BY <1>3, <1>4
<1> QED BY <1>5 DEF S, Contiguous

LEMMA StepAdmissionsTyped ==
  ASSUME Shape, SkillsInv, SessionsAreNew, AdmissionsTypeOK, [Next]_vars
  PROVE  AdmissionsTypeOK'
<1>1. \A k \in DOMAIN state'.skills : state'.skills[k].stage \in SkillStage
  <2> DEFINE Staged == \A k \in DOMAIN state'.skills : state'.skills[k].stage \in SkillStage
  <2>1. \A k \in DOMAIN state.skills : state.skills[k].stage \in SkillStage
    BY DEF AdmissionsTypeOK
  <2>2. ASSUME NEW s, RegisterSkill(s) PROVE Staged
    <3>1. s.stage \in SkillStage /\ state'.skills = With(state.skills, s.id, s)
      BY <2>2 DEF RegisterSkill, Shape, SkillStage
    <3> QED BY <2>1, <3>1 DEF With
  <2>3. ASSUME NEW id, NEW stage \in SkillStage, TransitionSkill(id, stage) PROVE Staged
    <3> DEFINE old == state.skills[id]
               new == [old EXCEPT !.stage = stage]
    <3>1. id \in DOMAIN state.skills /\ state'.skills = [state.skills EXCEPT ![id] = new]
      BY <2>3 DEF TransitionSkill, Shape
    <3>2. "stage" \in DOMAIN old
      BY <3>1 DEF SkillsInv, SkillsInReview, SkillInReview
    <3> HIDE DEF old
    <3>3. new.stage = stage
      BY <3>2
    <3> HIDE DEF new
    <3> QED BY <2>1, <3>1, <3>3
  <2>4. ASSUME NEW id, NEW l, LoadSkill(id, l) PROVE Staged
    BY <2>1, <2>4 DEF LoadSkill
  <2>5. state'["skills"] # state["skills"] => SkillsNext
    BY Owners DEF Shape
  <2>6. ASSUME state'["skills"] = state["skills"] PROVE Staged
    BY <2>1, <2>6
  <2> HIDE DEF Staged
  <2>7. ASSUME SkillsNext PROVE Staged
    BY <2>2, <2>3, <2>4, <2>7 DEF SkillsNext
  <2>8. Staged
    BY <2>5, <2>6, <2>7
  <2> QED BY <2>8 DEF Staged
<1>2. DOMAIN state'.direct \subseteq outside'.sessions
  BY StepDirect DEF SessionsAreNew
<1>3. \A k \in DOMAIN state'.assessments : state'.assessments[k].highest \in 0..6
  <2> DEFINE Placed == \A k \in DOMAIN state'.assessments : state'.assessments[k].highest \in 0..6
  <2>1. \A k \in DOMAIN state.assessments : state.assessments[k].highest \in 0..6
    BY DEF AdmissionsTypeOK
  <2>2. ASSUME NEW p, NEW d \in Assessments, Assess(p, d) PROVE Placed
    <3> DEFINE new == [dimensions |-> d, highest |-> Contiguous(d),
                       ready |-> \A i \in PreL5 : d[i].passed]
    <3>1. state'.assessments = With(state.assessments, p, new)
      BY <2>2, SaveIs DEF Assess, Shape
    <3>2. new.highest = Contiguous(d) /\ Contiguous(d) \in 0..6
      BY ContiguousIsLevel, AssessmentsAreOfSixLevels
    <3> HIDE DEF new
    <3> QED BY <2>1, <3>1, <3>2 DEF With
  <2>3. state'["assessments"] # state["assessments"] => ReadinessNext
    BY Owners DEF Shape
  <2>4. ASSUME state'["assessments"] = state["assessments"] PROVE Placed
    BY <2>1, <2>4
  <2> HIDE DEF Placed
  <2>5. ASSUME ReadinessNext PROVE Placed
    BY <2>2, <2>5 DEF ReadinessNext
  <2>6. Placed
    BY <2>3, <2>4, <2>5
  <2> QED BY <2>6 DEF Placed
<1> QED BY <1>1, <1>2, <1>3 DEF AdmissionsTypeOK

\* What a snapshot of the projects holds, the one on record and those that probes loaded.
AreNamed(known) ==
  /\ DOMAIN known \subseteq ProjectName
  /\ \A p \in DOMAIN known :
       /\ known[p].name \in ProjectName /\ known[p].stable \in Optional(StableId)
       /\ known[p].status \in {"registered", "probed", "drifted", "blocked"}

\* A repository that a name leads to has a name.
GithubIsNamed(github) ==
  /\ DOMAIN github = {"owner", "name"}
  /\ github.owner \in [ProjectName -> Optional(StableId)]
  /\ DOMAIN github.name = StableId
  /\ \A n \in ProjectName : github.owner[n] # Nothing => github.name[github.owner[n]] \in ProjectName

ProjectsTyped ==
  /\ ProjectsTypeOK /\ GithubIsNamed(outside.github)
  /\ \A i \in DOMAIN memory.probes : AreNamed(memory.probes[i].known)

LEMMA FoundIsNamed ==
  ASSUME GithubIsNamed(outside.github), NEW project, project.name \in ProjectName,
         NEW found \in Found(project)
  PROVE  found.name \in ProjectName /\ found.stable \in Optional(StableId)
<1> DEFINE g == outside.github.owner[project.name]
<1>1. CASE project.adapter = "local_git"
  BY <1>1 DEF Found, Optional
<1>2. CASE project.adapter # "local_git"
  <2>1. PICK s \in {g} \ {Nothing} : found = [name |-> outside.github.name[s], stable |-> s]
    BY <1>2 DEF Found
  <2>2. s = g /\ g # Nothing /\ g \in Optional(StableId) /\ outside.github.name[g] \in ProjectName
    BY <2>1 DEF GithubIsNamed
  <2> QED BY <2>1, <2>2
<1> QED BY <1>1, <1>2

\* What a probe saves stays named: its own project is replaced by one that is.
LEMMA ReplacedIsNamed ==
  ASSUME NEW known, AreNamed(known), NEW p \in DOMAIN known,
         NEW all, DOMAIN all = DOMAIN known,
         \A q \in DOMAIN known \ {p} : all[q] = known[q],
         all[p].name \in ProjectName, all[p].stable \in Optional(StableId),
         all[p].status \in {"registered", "probed", "drifted", "blocked"}
  PROVE  AreNamed(all)
  BY DEF AreNamed

LEMMA StepHealthNames ==
  ASSUME Shape, ProjectsTypeOK, [Next]_vars
  PROVE  DOMAIN state'.health \subseteq ProjectName
<1>1. ASSUME NEW p, NEW e, NEW t, NEW a, TransitionHealth(p, e, t, a)
      PROVE  DOMAIN state'.health \subseteq ProjectName
  <2>1. p \in Registered /\ \E v : state'.health = With(state.health, p, v)
    BY <1>1, SaveIs DEF TransitionHealth, Shape
  <2> QED BY <2>1 DEF With, ProjectsTypeOK
<1>2. state'["health"] # state["health"] => HealthNext
  BY Owners DEF Shape
<1>3. HealthNext => DOMAIN state'.health \subseteq ProjectName
  BY <1>1 DEF HealthNext
<1> QED BY <1>2, <1>3 DEF ProjectsTypeOK

LEMMA StepProjectsTyped ==
  ASSUME Shape, ProjectsApart, ProjectsTyped, [Next]_vars
  PROVE  ProjectsTyped'
<1> DEFINE Goal == /\ AreNamed(state'.projects.known) /\ GithubIsNamed(outside'.github)
                   /\ DOMAIN memory'.probes \subseteq ProbeId
                   /\ \A i \in DOMAIN memory'.probes : AreNamed(memory'.probes[i].known)
<1>1. /\ AreNamed(state.projects.known) /\ GithubIsNamed(outside.github)
      /\ DOMAIN memory.probes \subseteq ProbeId
      /\ \A i \in DOMAIN memory.probes : AreNamed(memory.probes[i].known)
  BY DEF ProjectsTyped, ProjectsTypeOK, AreNamed, Registered
<1>2. ASSUME state'["projects"] = state["projects"], memory'["probes"] = memory["probes"],
             outside'["github"] = outside["github"]
      PROVE  Goal
  BY <1>1, <1>2
<1>3. ASSUME NEW n \in ProjectName, NEW a, NEW h, Intake(n, a, h) PROVE Goal
  <2> DEFINE new == [name |-> n, stable |-> Nothing, adapter |-> a, head |-> h,
                     status |-> "registered", blocked |-> FALSE]
             known == With(state.projects.known, n, new)
  <2>1. /\ memory' = memory /\ outside' = outside
        /\ state' = [state EXCEPT !.projects.known = known]
    BY <1>3 DEF Intake
  <2>2. new.name = n /\ new.stable \in Optional(StableId) /\ new.status = "registered"
    BY DEF Optional
  <2> HIDE DEF new
  <2>3. AreNamed(known)
    BY <1>1, <2>2 DEF AreNamed, With
  <2> HIDE DEF known
  <2>4. state'.projects.known = known
    BY <2>1 DEF Shape, ProjectsApart
  <2> QED BY <1>1, <2>1, <2>3, <2>4
<1>4. ASSUME NEW i \in ProbeId, NEW p, ProbeStarts(i, p) PROVE Goal
  <2> DEFINE probe == [project |-> p, known |-> state.projects.known, reports |-> state.projects.reports]
  <2>1. /\ state' = state /\ memory'.probes = With(memory.probes, i, probe)
        /\ outside'.github = outside.github
    BY <1>4 DEF ProbeStarts, Shape
  <2>2. probe.known = state.projects.known
    OBVIOUS
  <2> HIDE DEF probe
  <2> QED BY <1>1, <2>1, <2>2 DEF With
<1>5. ASSUME NEW S, memory' = Forgotten(S)
      PROVE  \A i \in DOMAIN memory'.probes : i \in DOMAIN memory.probes /\ memory'.probes[i] = memory.probes[i]
  BY <1>5 DEF Forgotten, Shape
<1>6. ASSUME NEW i, NEW f, ProbeAnswers(i, f) PROVE Goal
  <2> DEFINE probe == memory.probes[i]
             p == probe.project
             old == probe.known[p]
  <2>1. /\ i \in DOMAIN memory.probes /\ memory' = Forgotten({i}) /\ outside' = outside
        /\ p \in DOMAIN probe.known /\ DOMAIN old = ProjectFields
        /\ AreNamed(probe.known)
    BY <1>1, <1>6 DEF ProbeAnswers, ProjectsApart, Distinguished
  <2>2. PICK found \in Found(old) :
          state' = [state EXCEPT !.projects =
            [known   |-> [probe.known EXCEPT ![p] = Updated(@, ReportOf(probe, found, f))],
             reports |-> With(probe.reports, p, ReportOf(probe, found, f))]]
    BY <1>6 DEF ProbeAnswers
  <2> DEFINE report == ReportOf(probe, found, f)
             new == Updated(old, report)
             known == [probe.known EXCEPT ![p] = new]
             all == [known |-> known, reports |-> With(probe.reports, p, report)]
  <2>3. report.name = found.name /\ report.stable = found.stable
    BY DEF ReportOf
  <2>4. found.name \in ProjectName /\ found.stable \in Optional(StableId)
    <3>1. old.name \in ProjectName
      BY <2>1 DEF AreNamed
    <3> HIDE DEF old
    <3> QED BY <1>1, <3>1, FoundIsNamed
  <2>5. state' = [state EXCEPT !.projects = all]
    BY <2>2
  <2> HIDE DEF report
  <2>6. /\ new.name = report.name /\ new.stable = report.stable
        /\ new.status \in {"probed", "drifted"}
    <3> HIDE DEF old
    <3> QED BY <2>1 DEF Updated, ProjectFields
  <2> HIDE DEF new
  <2>7. DOMAIN known = DOMAIN probe.known /\ known[p] = new
        /\ \A q \in DOMAIN probe.known \ {p} : known[q] = probe.known[q]
    BY <2>1
  <2> HIDE DEF known
  <2>8. AreNamed(known)
    <3> HIDE DEF probe, p
    <3> QED BY <2>1, <2>3, <2>4, <2>6, <2>7, ReplacedIsNamed
  <2>9. all.known = known
    OBVIOUS
  <2> HIDE DEF all
  <2>10. state'.projects = all
    BY <2>5 DEF Shape
  <2> QED BY <1>1, <1>5, <2>1, <2>8, <2>9, <2>10
<1>7. ASSUME NEW i, ProbeFails(i) PROVE Goal
  <2> DEFINE probe == memory.probes[i]
             p == probe.project
             old == probe.known[p]
             new == [old EXCEPT !.status = "blocked", !.blocked = TRUE]
             known == [probe.known EXCEPT ![p].status = "blocked", ![p].blocked = TRUE]
             all == [known |-> known, reports |-> probe.reports]
  <2>1. /\ i \in DOMAIN memory.probes /\ memory' = Forgotten({i}) /\ outside' = outside
        /\ p \in DOMAIN probe.known /\ DOMAIN old = ProjectFields
        /\ AreNamed(probe.known)
    BY <1>1, <1>7 DEF ProbeFails, ProjectsApart, Distinguished
  <2>2. state' = [state EXCEPT !.projects = all]
    BY <1>7 DEF ProbeFails
  <2>3. DOMAIN known = DOMAIN probe.known /\ known[p] = new
        /\ \A q \in DOMAIN probe.known \ {p} : known[q] = probe.known[q]
    BY <2>1
  <2>4. new.name = old.name /\ new.stable = old.stable /\ new.status = "blocked"
    <3> HIDE DEF old
    <3> QED BY <2>1 DEF ProjectFields
  <2>5. old.name \in ProjectName /\ old.stable \in Optional(StableId)
    BY <2>1 DEF AreNamed
  <2> HIDE DEF new, known
  <2>6. AreNamed(known)
    <3> HIDE DEF probe, p, old
    <3> QED BY <2>1, <2>3, <2>4, <2>5, ReplacedIsNamed
  <2>7. all.known = known
    OBVIOUS
  <2> HIDE DEF all
  <2>8. state'.projects = all
    BY <2>2 DEF Shape
  <2> QED BY <1>1, <1>5, <2>1, <2>6, <2>7, <2>8
<1>8. ASSUME NEW S, ProbesBreak(S) PROVE Goal
  BY <1>1, <1>5, <1>8 DEF ProbesBreak
<1>9. ASSUME NEW g \in StableId, NEW n \in ProjectName, RenameRepository(g, n) PROVE Goal
  <2> DEFINE old == outside.github
             new == [old EXCEPT !.owner[n] = g, !.name[g] = n]
  <2>1. /\ state' = state /\ memory' = memory
        /\ outside' = [outside EXCEPT !.github.owner[n] = g, !.github.name[g] = n]
    BY <1>9 DEF RenameRepository
  <2>2. outside'.github = new
    BY <2>1 DEF Shape
  <2>3. GithubIsNamed(new)
    <3> HIDE DEF old
    <3>1. GithubIsNamed(old)
      BY <1>1 DEF old
    <3>2. /\ DOMAIN new = {"owner", "name"} /\ new.owner = [old.owner EXCEPT ![n] = g]
          /\ new.name = [old.name EXCEPT ![g] = n]
      BY <3>1 DEF GithubIsNamed
    <3> HIDE DEF new
    <3>3. /\ new.owner \in [ProjectName -> Optional(StableId)] /\ new.owner[n] = g
          /\ \A m \in ProjectName \ {n} : new.owner[m] = old.owner[m]
      BY <3>1, <3>2 DEF GithubIsNamed, Optional
    <3>4. /\ DOMAIN new.name = StableId /\ new.name[g] = n
          /\ \A s \in StableId \ {g} : new.name[s] = old.name[s]
      BY <3>1, <3>2 DEF GithubIsNamed
    <3>5. ASSUME NEW m \in ProjectName, new.owner[m] # Nothing
          PROVE  new.name[new.owner[m]] \in ProjectName
      <4>1. CASE new.owner[m] = g
        BY <3>4, <4>1
      <4>2. CASE new.owner[m] # g
        <5>1. new.owner[m] = old.owner[m] /\ new.owner[m] \in StableId
          BY <3>3, <3>5, <4>2 DEF Optional
        <5> QED BY <3>1, <3>4, <3>5, <4>2, <5>1 DEF GithubIsNamed
      <4> QED BY <4>1, <4>2
    <3> QED BY <3>2, <3>3, <3>4, <3>5 DEF GithubIsNamed
  <2> HIDE DEF new, old
  <2> QED BY <1>1, <2>1, <2>2, <2>3
<1>10. ASSUME NEW p, NEW c, PrepareTask(p, c) PROVE Goal
  <2>1. state' = state /\ memory' = memory /\ outside'.github = outside.github
    BY <1>10 DEF PrepareTask, Shape
  <2> QED BY <1>1, <2>1
<1>11. /\ state'["projects"] # state["projects"] => IntakesNext \/ ProjectsNext
       /\ memory'["probes"] # memory["probes"] => ProjectsNext
       /\ outside'["github"] # outside["github"] => ProjectsNext
  BY Owners, OwnersOfMemory, OwnersOfOutside DEF Shape
<1> HIDE DEF Goal
<1>12. ASSUME IntakesNext PROVE Goal
  BY <1>3, <1>12, IntakesAreNamed DEF IntakesNext
<1>13. ASSUME ProjectsNext PROVE Goal
  BY <1>4, <1>6, <1>7, <1>8, <1>9, <1>10, <1>13 DEF ProjectsNext
<1>14. Goal
  BY <1>2, <1>11, <1>12, <1>13
<1>15. DOMAIN state'.health \subseteq ProjectName
  BY StepHealthNames DEF ProjectsTyped
<1> QED BY <1>14, <1>15 DEF Goal, ProjectsTyped, ProjectsTypeOK, AreNamed, Registered

TypesInv ==
  /\ EvidenceInv /\ TasksShape /\ ParallelTypeOK /\ RdcTypeOK /\ AccessTypeOK /\ FailuresTypeOK
  /\ ChangesTyped /\ RuntimesTyped /\ GatesTypeOK /\ AdmissionsTypeOK /\ ProjectsTyped

LEMMA InitTypes == Init => TypesInv
<1> SUFFICES ASSUME Init PROVE TypesInv
  OBVIOUS
<1>1. EvidenceInv /\ TasksShape
  BY InitEvidence, InitFailures
<1>2. ToSet(<<>>) = {}
  BY EmptyIsSeq DEF ToSet
<1>3. ParallelTypeOK
  <2>1. /\ ToSet(state.leases) = {} /\ ToSet(state.queue) = {} /\ outside.head = FirstHead
    BY <1>2 DEF Init, NoLeases, NoQueue
  <2> QED BY <2>1, HeadsAtTheStart DEF ParallelTypeOK
<1>4. RdcTypeOK
  BY DEF Init, RdcTypeOK, NoSessions
<1>5. AccessTypeOK
  <2>1. DOMAIN <<>> = {}
    BY EmptyIsSeq
  <2>2. /\ memory.access = NoAccess /\ outside.access = NothingSeen
    BY DEF Init
  <2>3. NoAccess.pending = <<>> /\ NoAccess.sessions = <<>> /\ NothingSeen.now = 0
    BY DEF NoAccess, NothingSeen
  <2>4. 0 \in 0..MaxTime
    BY TimeIsBounded
  <2> QED BY <2>1, <2>2, <2>3, <2>4 DEF AccessTypeOK, Now
<1>6. FailuresTypeOK
  <2>1. DOMAIN <<>> = {}
    BY EmptyIsSeq
  <2>2. memory.tasks = NewTasks /\ state.learning = NoLearning
    BY DEF Init
  <2>3. DOMAIN NoLearning.incidents = {}
    BY <2>1 DEF NoLearning
  <2>4. \A t \in FailureTask : NewTasks[t].status = "pending" /\ NewTasks[t].env = Nothing
    BY DEF NewTasks
  <2> QED BY <2>2, <2>3, <2>4 DEF FailuresTypeOK, Tasks, Learning, Optional
<1>7. ChangesTyped
  BY <1>2, ClockIsBounded DEF Init, ChangesTyped, ChangesTypeOK, Graphs, Events, NoInbox
<1>8. RuntimesTyped
  BY <1>2 DEF Init, RuntimesTyped, RuntimesTypeOK, NoDatabase
<1>9. GatesTypeOK
  BY DEF Init, GatesTypeOK, NoRun
<1>10. AdmissionsTypeOK
  BY DEF Init, AdmissionsTypeOK, NoSkills, NoDirect, NoAssessments
<1>11. ProjectsTyped
  BY GithubAtTheStart
  DEF Init, ProjectsTyped, ProjectsTypeOK, GithubIsNamed, Registered, NoProjects, NoHealth, NoProbes
<1> QED BY <1>1, <1>3, <1>4, <1>5, <1>6, <1>7, <1>8, <1>9, <1>10, <1>11 DEF TypesInv

LEMMA StepTypes ==
  ASSUME TypesInv, [Next]_vars
  PROVE  TypesInv'
<1>1. /\ Shape /\ LeasesApart /\ QueueInOrder /\ HistoriesApart /\ ItemsAreOfEvents /\ ProjectsApart
      /\ AccessShape /\ LearningShape /\ FailuresShape /\ SessionsAreNew /\ RdcInv /\ RunInv /\ SkillsInv
  BY DEF TypesInv, EvidenceInv, KeepsInv, OneAtATimeInv, AccessInv
<1>2. EvidenceInv' /\ TasksShape'
  BY <1>1, StepEarned, StepTasks DEF TypesInv
<1>3. ParallelTypeOK' /\ RdcTypeOK' /\ AccessTypeOK'
  BY <1>1, StepParallel, StepRdcTyped, StepAccessTyped DEF TypesInv
<1>4. FailuresTypeOK' /\ ChangesTyped' /\ RuntimesTyped'
  BY <1>1, StepFailuresTyped, StepChangesTyped, StepRuntimesTyped DEF TypesInv
<1>5. GatesTypeOK' /\ AdmissionsTypeOK' /\ ProjectsTyped'
  BY <1>1, StepGatesTyped, StepAdmissionsTyped, StepProjectsTyped DEF TypesInv
<1> QED BY <1>2, <1>3, <1>4, <1>5 DEF TypesInv

\* Every section holds what its service may write, for any pools of what the calls are
\* given: the statuses are of their courses, the counters within their bounds, and a
\* name that GitHub leads to is the name of a repository however they are renamed.
THEOREM SectionsTypeOKHolds == Spec => []SectionsTypeOK
<1>1. TypesInv => SectionsTypeOK
  BY DEF TypesInv, SectionsTypeOK, ChangesTyped, RuntimesTyped, ProjectsTyped
<1> QED BY <1>1, InitTypes, StepTypes, PTL DEF Spec
=============================================================================
