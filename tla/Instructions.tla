------------------------------ MODULE Instructions ------------------------------
(***************************************************************************)
(* Which instructions govern a task of a project: of the records a caller  *)
(* has, those in force, one for each conflict key.                         *)
(***************************************************************************)
EXTENDS DecisionRegistries

CONSTANT InstructionPool   \* records that a caller may have

\* A caller has finitely many; precedence compares as many numbers for each of them,
\* and ends with the id.
ASSUME InstructionsAreRanked ==
  /\ IsFiniteSet(InstructionPool)
  /\ \A r \in InstructionPool : r.precedence \in Seq(Nat)
  /\ \A r, s \in InstructionPool :
       /\ Len(r.precedence) = Len(s.precedence)
       /\ r.precedence = s.precedence => r.id = s.id

Refused == {}

\* Precedence compares rank, then date, version and id.
Outranks(r, s) ==
  \E i \in DOMAIN r.precedence :
    /\ r.precedence[i] > s.precedence[i]
    /\ \A j \in 1..i - 1 : r.precedence[j] = s.precedence[j]

\* Active records of the project; decisions is Nothing when there is no registry.
Considered(records, project) ==
  {r \in records : project \in r.projects /\ r.status = "ACTIVE"}

Undecided(r, decisions) ==
  decisions # Nothing /\ \A d \in Named(decisions, r.decision) : d.status # "CURRENT"

\* An active record from elsewhere, one without a decision, and one that is not what its
\* decision says stop the resolution.
Unbound(r, project, decisions) ==
  \/ ~r.sovereign
  \/ /\ decisions # Nothing
     /\ \/ Named(decisions, r.decision) = {}
        \/ \E d \in Named(decisions, r.decision) :
             d.status = "CURRENT" /\ ~Binds(d, project, r)

Eligible(records, project, decisions) ==
  {r \in Considered(records, project) : ~Undecided(r, decisions)}

SupersededStay(eligible) == eligible   \* mutant: what others supersede stays
Remaining(eligible) == {r \in eligible : \A s \in eligible : r.id \notin s.supersedes}

\* ActiveInstructionResolverV1.resolve
Resolve(records, project, decisions) ==
  LET remaining == Remaining(Eligible(records, project, decisions))
      stopped == \/ ~UniqueIds(records)
                 \/ \E r \in Considered(records, project) : Unbound(r, project, decisions)
                 \/ \E r, s \in remaining : r.key = s.key /\ r.directive # s.directive
  IN IF stopped THEN Refused
     ELSE {r \in remaining : ~\E s \in remaining : s.key = r.key /\ Outranks(s, r)}

ResolveInstructions(records, project, decisions) ==
  /\ outside' = [outside EXCEPT !.answer =
       [gate |-> "instructions", records |-> records, project |-> project,
        decisions |-> decisions, is |-> Resolve(records, project, decisions)]]
  /\ UNCHANGED <<state, memory>>

-----------------------------------------------------------------------------
\* What governs is one instruction for a key, of the sovereign source, and the one of the
\* decision in force for that key in the project.  Every other active instruction of the
\* project is named as superseded by an active one, is of a decision that is over, or
\* says the same as the one that governs and does not outrank it.
GoverningIsInForce ==
  (outside.answer # Nothing /\ outside.answer.gate = "instructions") =>
    LET k == outside.answer
        active == {r \in k.records : r.status = "ACTIVE" /\ k.project \in r.projects}
        ofDecision(r) == {d \in CurrentForProject(k.decisions, k.project) : d.key = r.key}
        over(r) == k.decisions # Nothing /\ ofDecision(r) \cap Named(k.decisions, r.decision) = {}
    IN k.is # Refused =>
         /\ \A r, s \in k.is : r.key = s.key => r = s
         /\ \A r \in k.is :
              /\ r \in active /\ r.sovereign
              /\ k.decisions # Nothing =>
                   \E d \in k.decisions : /\ ofDecision(r) = {d} /\ d.id = r.decision
                                          /\ r.id \in d.instructions /\ d.directive = r.directive
              /\ \A s \in k.is : r.id \notin s.supersedes
         /\ \A r \in active \ k.is :
              \/ \E s \in active : r.id \in s.supersedes /\ ~over(s)
              \/ over(r)
              \/ \E s \in k.is : s.key = r.key /\ s.directive = r.directive /\ ~Outranks(r, s)
=============================================================================
