------------------------------ MODULE Admissions ------------------------------
(***************************************************************************)
(* What comes from outside the governed tasks: skills that are admitted in *)
(* stages, prompts that are run without a task, and assessments of how     *)
(* ready a project is.                                                     *)
(***************************************************************************)
EXTENDS StateSections

CONSTANTS
  SkillPool,       \* candidates as they are registered: id and what is known of them
  Prompts,         \* direct commands: class, item, project
  DirectSession,
  Assessments,     \* a project and, for L0 to L5 in order, whether the level passed
  MaxStages        \* stages a skill is watched for

\* A candidate is a record with the stage it is registered in.
ASSUME CandidatesHaveAStage == \A candidate \in SkillPool : "stage" \in DOMAIN candidate
ASSUME AssessmentsAreOfSixLevels == \A d \in Assessments : DOMAIN d = 1..6

SkillStage == {"DISCOVERED", "SOURCE_VERIFIED", "LICENSE_VERIFIED", "SECURITY_REVIEWED",
               "SANDBOX_ONLY", "PROJECT_PROVEN", "CROSS_PROJECT_CANDIDATE",
               "CANONICAL_APPROVED", "HOLD", "REJECTED", "QUARANTINED", "REVOKED"}
Proven == {"PROJECT_PROVEN", "CROSS_PROJECT_CANDIDATE", "CANONICAL_APPROVED"}
ReviewCourse == <<"DISCOVERED", "SOURCE_VERIFIED", "LICENSE_VERIFIED", "SECURITY_REVIEWED",
                  "SANDBOX_ONLY", "PROJECT_PROVEN">>

NoSkills == [k \in {} |-> Nothing]
NoDirect == [k \in {} |-> Nothing]
NoAssessments == [k \in {} |-> Nothing]

-----------------------------------------------------------------------------
(***************************************************************************)
(* Skills.                                                                 *)
(***************************************************************************)
AnyStage(stage) == SkillStage   \* mutant: the table is not asked
NextStages(stage) ==
  CASE stage = "QUARANTINED"       -> {"DISCOVERED", "REJECTED"}
    [] stage = "DISCOVERED"        -> {"SOURCE_VERIFIED", "HOLD", "REJECTED"}
    [] stage = "SOURCE_VERIFIED"   -> {"LICENSE_VERIFIED", "HOLD", "REJECTED"}
    [] stage = "LICENSE_VERIFIED"  -> {"SECURITY_REVIEWED", "HOLD", "REJECTED"}
    [] stage = "SECURITY_REVIEWED" -> {"SANDBOX_ONLY", "HOLD", "REJECTED"}
    [] stage = "SANDBOX_ONLY"      -> {"PROJECT_PROVEN", "HOLD", "REJECTED"}
    [] stage = "PROJECT_PROVEN"    -> {"CROSS_PROJECT_CANDIDATE", "REVOKED"}
    [] stage = "CROSS_PROJECT_CANDIDATE" -> {"CANONICAL_APPROVED", "REVOKED"}
    [] stage = "CANONICAL_APPROVED" -> {"REVOKED"}
    [] stage = "HOLD"              -> {"DISCOVERED", "REJECTED"}
    [] OTHER                       -> {}

Loadable(skill) ==
  /\ skill.stage \in Proven
  /\ skill.provenance /\ skill.findings = {}
  /\ skill.evals # {} /\ skill.regressions # {}
  /\ skill.mind # Nothing /\ skill.workspace # Nothing

RegisterSkill(candidate) ==
  /\ candidate.stage = "QUARANTINED" /\ candidate.id \notin DOMAIN state.skills
  /\ state' = [state EXCEPT !.skills = With(@, candidate.id, candidate)]
  /\ outside' = [outside EXCEPT !.stages = With(@, candidate.id, <<"QUARANTINED">>)]
  /\ UNCHANGED memory

\* What is known of a skill stays as it was registered; only the stage moves.
TransitionSkill(id, stage) ==
  /\ id \in DOMAIN state.skills /\ Len(outside.stages[id]) < MaxStages
  /\ stage \in NextStages(state.skills[id].stage)
  /\ LET updated == [state.skills[id] EXCEPT !.stage = stage] IN
     /\ stage \in Proven => Loadable(updated)
     /\ state' = [state EXCEPT !.skills[id] = updated]
  /\ outside' = [outside EXCEPT !.stages[id] = Append(@, stage)]
  /\ UNCHANGED memory

\* effective_skill_authority: of what is requested, what all the layers grant.
EffectiveAuthority(requested, layers) == {a \in requested : \A l \in layers : a \in l}

\* A skill is loaded under the layers of a task.
LoadSkill(id, layers) ==
  /\ id \in DOMAIN state.skills /\ Loadable(state.skills[id])
  /\ outside' = [outside EXCEPT !.loaded =
       [skill |-> state.skills[id], layers |-> layers, course |-> outside.stages[id],
        authority |-> EffectiveAuthority(state.skills[id].requested, layers)]]
  /\ UNCHANGED <<state, memory>>

-----------------------------------------------------------------------------
(***************************************************************************)
(* Direct execution.  The session is written when the provider answered or *)
(* failed; while it works nothing is written, and an end of the process    *)
(* leaves no trace of it.                                                  *)
(***************************************************************************)
PromptAlways(c) == TRUE   \* mutant: a prompt for a governed project is run
ValidPrompt(c) ==
  \/ c.class = "RESEARCH" /\ c.item = "research" /\ c.project = Nothing
  \/ /\ c.class = "PRIVATE" /\ c.project # Nothing
     /\ c.item = c.project /\ c.technical # Nothing

StartDirect(s, c) ==
  /\ ValidPrompt(c) /\ s \notin outside.sessions
  /\ memory' = [memory EXCEPT !.direct = With(@, s, c)]
  /\ outside' = [outside EXCEPT !.sessions = @ \cup {s}]
  /\ UNCHANGED state

\* Other sessions may have been written meanwhile; the section is read anew.
AnswerDirect(s, status) ==
  /\ s \in DOMAIN memory.direct
  /\ memory' = [memory EXCEPT !.direct = [x \in DOMAIN @ \ {s} |-> @[x]]]
  /\ state' = [state EXCEPT !.direct =
                 With(@, s, [command |-> memory.direct[s], status |-> status])]
  /\ UNCHANGED outside

DirectEnds ==
  /\ memory' = [memory EXCEPT !.direct = NoDirect]
  /\ UNCHANGED <<state, outside>>

-----------------------------------------------------------------------------
(***************************************************************************)
(* Readiness.                                                              *)
(***************************************************************************)
\* A level passes only with evidence and without gaps and blockers.
ValidDimension(d) == d.passed => d.evidence # {} /\ d.gaps = {} /\ d.blockers = {}

\* The highest level below which every level passed; 0 if L0 did not.
Contiguous(dimensions) ==
  Cardinality({i \in DOMAIN dimensions : \A j \in 1..i : dimensions[j].passed})

PreL5 == 1..5

\* assess: the latest assessment of a project takes the place of the one before.
Assess(project, dimensions) ==
  /\ \A i \in DOMAIN dimensions : ValidDimension(dimensions[i])
  /\ Save("assessments", With(state.assessments, project,
       [dimensions |-> dimensions, highest |-> Contiguous(dimensions),
        ready |-> \A i \in PreL5 : dimensions[i].passed]))

-----------------------------------------------------------------------------
AdmissionsTypeOK ==
  /\ \A k \in DOMAIN state.skills : state.skills[k].stage \in SkillStage
  /\ DOMAIN state.direct \subseteq outside.sessions
  /\ \A k \in DOMAIN state.assessments : state.assessments[k].highest \in 0..6

\* A skill that is loaded went the whole course of reviews, in order and since it was
\* last discovered, was not revoked since, and gets no more than every layer grants.
LoadedWasReviewed ==
  outside.loaded # Nothing =>
    LET k == outside.loaded
    IN /\ \E i \in DOMAIN k.course :
            /\ IsPrefix(ReviewCourse, SubSeq(k.course, i, Len(k.course)))
            /\ \A j \in DOMAIN k.course : j > i => k.course[j] # "DISCOVERED"
       /\ Last(k.course) \notin {"REVOKED", "HOLD", "REJECTED"}
       /\ k.skill.findings = {} /\ k.skill.provenance
       /\ \A l \in k.layers : k.authority \subseteq l

\* No session is of a governed project, a private one is of its own project only; and a
\* session that works has no record yet.
DirectStaysOutside ==
  /\ \A records \in {state.direct, [s \in DOMAIN memory.direct |-> [command |-> memory.direct[s]]]} :
       \A s \in DOMAIN records :
         LET c == records[s].command IN
         /\ c.class # "GOVERNED"
         /\ c.class = "PRIVATE" => c.item = c.project
  /\ DOMAIN state.direct \cap DOMAIN memory.direct = {}

\* Ready for the exit before L5 is the same as having reached L4 without a gap in between.
ReadinessIsContiguous ==
  \A k \in DOMAIN state.assessments :
    LET a == state.assessments[k] IN
    /\ a.ready <=> a.highest >= 5
    /\ a.ready => \A i \in PreL5 : a.dimensions[i].gaps = {} /\ a.dimensions[i].blockers = {}
=============================================================================
