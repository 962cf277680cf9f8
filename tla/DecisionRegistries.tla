--------------------------- MODULE DecisionRegistries ---------------------------
(***************************************************************************)
(* Projections of what was decided elsewhere: decisions and what they      *)
(* supersede, decisions on a stage of a project, and claims of knowledge.  *)
(* A snapshot is validated as a whole before it is added to the history.   *)
(* "*" as a project binding is the set of all projects.                    *)
(***************************************************************************)
EXTENDS StateSections

CONSTANTS
  Revision,          \* source revisions
  DecisionPool,      \* decision records that a snapshot may hold
  StagePool,         \* lifecycle decision records
  ClaimPool,         \* knowledge claims
  MaxSnapshots

ASSUME DatesAreNumbers == \A r \in DecisionPool : r.effective \in Nat

Overlap(r, s) == r.projects \cap s.projects # {}

UniqueIds(records) == \A r, s \in records : r.id = s.id => r = s

Referenced(records) == UNION {r.supersedes : r \in records}

Named(records, id) == {r \in records : r.id = id}

\* No record supersedes itself through others.
Acyclic(records) ==
  ~\E loop \in (SUBSET records) \ {{}} :
     \A r \in loop : \E s \in loop : s.id \in r.supersedes

-----------------------------------------------------------------------------
(***************************************************************************)
(* Decisions.                                                              *)
(***************************************************************************)
CurrentAlways(records) == TRUE   \* mutant: several current decisions are let in
CurrentUnique(records) ==
  \A r, s \in records :
    (r # s /\ r.status = "CURRENT" /\ s.status = "CURRENT" /\ r.key = s.key) => ~Overlap(r, s)

SupersessionEdges(records) ==
  \A r \in records : \A id \in r.supersedes :
    \E s \in Named(records, id) :
      s.key = r.key /\ Overlap(r, s) /\ s.status = "SUPERSEDED" /\ s.effective < r.effective

SupersededCovered(records) ==
  \A r \in records :
    /\ r.status = "SUPERSEDED" => r.id \in Referenced(records)
    /\ r.status = "CURRENT" => r.id \notin Referenced(records)

ValidDecisionRegistry(records) ==
  /\ records # {} /\ UniqueIds(records)
  /\ \A r \in records : r.id \notin r.supersedes
  /\ CurrentUnique(records) /\ SupersessionEdges(records)
  /\ SupersededCovered(records) /\ Acyclic(records)

\* import_snapshot of each of the registries: a known revision changes nothing.
ImportSnapshot(section, revision, records) ==
  /\ Len(state[section]) < MaxSnapshots
  /\ ~Known(state[section], [revision |-> revision])
  /\ Save(section, Append(state[section], [revision |-> revision, records |-> records]))

ImportDecisions(revision, records) ==
  ValidDecisionRegistry(records) /\ ImportSnapshot("decisions", revision, records)

CurrentForProject(records, project) ==
  {r \in records : r.status = "CURRENT" /\ project \in r.projects}

\* A current decision of the project binds the instruction it names, with the key, the
\* version and the directive the instruction has.
Binds(r, project, instruction) ==
  /\ r.status = "CURRENT" /\ project \in r.projects
  /\ instruction.id \in r.instructions
  /\ r.key = instruction.key /\ r.version = instruction.version
  /\ r.directive = instruction.directive

BindInstruction(id, project, instruction) ==
  /\ state.decisions # <<>>
  /\ \E r \in Named(Last(state.decisions).records, id) :
       /\ Binds(r, project, instruction)
       /\ outside' = [outside EXCEPT !.bound =
                        [decision |-> r, project |-> project, instruction |-> instruction,
                         at |-> Len(state.decisions)]]
  /\ UNCHANGED <<state, memory>>

-----------------------------------------------------------------------------
(***************************************************************************)
(* Decisions on a stage of a project, for one commit.                      *)
(***************************************************************************)
StageKey(r) == <<r.project, r.stage, r.subject>>

StageAlways(records) == TRUE   \* mutant: two current decisions on one stage
StageUnique(records) ==
  \A r, s \in records :
    (r.status = "CURRENT" /\ s.status = "CURRENT" /\ StageKey(r) = StageKey(s)) => r = s

ValidLifecycleRegistry(records) ==
  records # {} /\ UniqueIds(records) /\ StageUnique(records)

ImportLifecycle(revision, records) ==
  ValidLifecycleRegistry(records) /\ ImportSnapshot("lifecycle", revision, records)

\* current_for
StageDecision(records, key) ==
  {r \in records : r.status = "CURRENT" /\ StageKey(r) = key}

RequireApproved(key) ==
  /\ state.lifecycle # <<>>
  /\ \E r \in StageDecision(Last(state.lifecycle).records, key) :
       /\ r.disposition = "APPROVED"
       /\ outside' = [outside EXCEPT !.approved = [record |-> r, at |-> Len(state.lifecycle)]]
  /\ UNCHANGED <<state, memory>>

-----------------------------------------------------------------------------
(***************************************************************************)
(* Knowledge claims.                                                       *)
(***************************************************************************)
ConflictsMutual(claims) ==
  \A c \in claims : \A id \in c.conflicts :
    \E d \in Named(claims, id) : c.id \in d.conflicts

ClaimEdges(claims) ==
  \A c \in claims : \A id \in c.supersedes :
    \E d \in Named(claims, id) :
      d.key = c.key /\ d.project = c.project /\ d.status = "SUPERSEDED"

ValidClaim(c) ==
  /\ c.id \notin c.conflicts \cup c.supersedes
  /\ c.status = "REJECTED" => c.promotion = "REJECTED"
  /\ c.promotion \in {"ACCEPTED_PROJECT_KNOWLEDGE", "REJECTED"} => c.reference # Nothing

ValidKnowledgeRegistry(claims) ==
  /\ claims # {} /\ UniqueIds(claims) /\ \A c \in claims : ValidClaim(c)
  /\ ConflictsMutual(claims) /\ ClaimEdges(claims)
  /\ \A c \in claims : c.status = "SUPERSEDED" => c.id \in Referenced(claims)
  /\ Acyclic(claims)

PromotedAlways(c, decisions) == TRUE   \* mutant: knowledge is accepted undecided

\* require_governed_promotion_decision: an accepted claim names the current decision of
\* its project to promote just this claim.
PromotionDecided(c, decisions) ==
  c.promotion = "ACCEPTED_PROJECT_KNOWLEDGE" =>
    \E d \in Named(decisions, c.reference) :
      d.status = "CURRENT" /\ c.project \in d.projects
        /\ d.key = <<"promotion", c.project, c.key>> /\ c.id \in d.evidence

\* The caller may have no decision registry at hand: then decisions is empty.
ImportKnowledge(revision, claims, decisions) ==
  /\ \A c \in claims : PromotionDecided(c, decisions)
  /\ ValidKnowledgeRegistry(claims)
  /\ ImportSnapshot("knowledge", revision, claims)

-----------------------------------------------------------------------------
\* In every snapshot a project has one decision in force for a key, one decision for
\* a stage and commit; and from every superseded record a chain of later ones leads to
\* one that is not superseded.
OneInForce ==
  /\ \A h \in ToSet(state.decisions) :
       /\ \A r \in h.records : \A p \in r.projects :
            Cardinality({s \in CurrentForProject(h.records, p) : s.key = r.key}) <= 1
       /\ \A r \in h.records : r.status = "SUPERSEDED" =>
            \E s \in h.records : r.id \in s.supersedes /\ s.effective > r.effective
  /\ \A h \in ToSet(state.lifecycle) : \A r \in h.records :
       Cardinality(StageDecision(h.records, StageKey(r))) <= 1
  /\ \A h \in ToSet(state.knowledge) : \A c \in h.records :
       c.status = "SUPERSEDED" =>
         \E d \in h.records : c.id \in d.supersedes /\ d.id \notin c.supersedes

\* Accepted knowledge was decided: some snapshot of decisions that was in the history
\* holds the current decision that promotes it (it may be superseded by now).
KnowledgeWasDecided ==
  \A h \in ToSet(state.knowledge) : \A c \in h.records :
    c.promotion = "ACCEPTED_PROJECT_KNOWLEDGE" =>
      \E g \in ToSet(state.decisions) : \E d \in CurrentForProject(g.records, c.project) :
        d.id = c.reference /\ c.id \in d.evidence

\* What was bound or approved was in force in the snapshot that was then the last.
BoundWasInForce ==
  /\ outside.bound # Nothing =>
       LET b == outside.bound IN
       /\ {b.decision} = {r \in CurrentForProject(state.decisions[b.at].records, b.project) :
                            r.key = b.instruction.key}
       /\ b.decision.version = b.instruction.version
  /\ outside.approved # Nothing =>
       LET r == outside.approved.record IN
       StageDecision(state.lifecycle[outside.approved.at].records, StageKey(r)) = {r}
=============================================================================
