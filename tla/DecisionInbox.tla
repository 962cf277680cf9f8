----------------------------- MODULE DecisionInbox -----------------------------
(***************************************************************************)
(* What waits for a person: a view of the tasks, the registries of         *)
(* decisions and the inboxes of the projects.  It is built anew at every   *)
(* call and keeps nothing.                                                 *)
(***************************************************************************)
EXTENDS DecisionRegistries, ChangePropagation

CONSTANTS
  OperatorViews,     \* operator tasks as they may be: id, project, approval, blocker
  EngineeringViews,  \* engineering tasks: id, project, status, remote sha
  ProjectViews       \* projects: id, blockers

ASSUME TasksHaveProjects ==
  UniqueIds(EngineeringViews) /\ \A t \in EngineeringViews : t.project # Nothing

Everywhere == Nothing   \* the inbox of no project in particular

Records(history) == IF history = <<>> THEN {} ELSE Last(history).records

Item(kind, project, source, id) == [kind |-> kind, project |-> project, source |-> source, id |-> id]

Waits(item) == item.kind # "CURRENT_DECISION"

InScopeOf(x, project) == project \in {Everywhere, x.project}

OperatorItems(project) ==
  LET mine == {t \in OperatorViews : InScopeOf(t, project)} IN
  {Item("PENDING_APPROVAL", t.project, "OPERATOR", t.id) : t \in {t \in mine : t.approval}}
    \cup {Item("BLOCKER", t.project, "OPERATOR", t.id) : t \in {t \in mine : t.blocker}}

StageOf(t) ==
  CASE t.status = "READY_FOR_INTEGRATION" -> "INTEGRATION_ACCEPTANCE"
    [] t.status = "IN_MERGE_QUEUE"        -> "MAIN_MERGE"
    [] OTHER                              -> "none"

\* A task at a gate is blocked without a head, pending without a decision on the head,
\* blocked by another one than an approval, and not in the inbox with an approval.
AnyDecision(t) == {r \in Records(state.lifecycle) : r.project = t.project /\ r.stage = StageOf(t)}
ExactDecision(t) == StageDecision(Records(state.lifecycle), <<t.project, StageOf(t), t.sha>>)

GateItem(t) ==
  IF t.sha = Nothing THEN {Item("BLOCKER", t.project, "ENGINEERING", t.id)}
  ELSE IF ExactDecision(t) = {} THEN {Item("PENDING_DECISION", t.project, "ENGINEERING", t.id)}
  ELSE {Item("BLOCKER", t.project, "ENGINEERING", t.id) :
          r \in {r \in ExactDecision(t) : r.disposition # "APPROVED"}}

EngineeringItems(project) ==
  LET mine == {t \in EngineeringViews : InScopeOf(t, project)} IN
  (UNION {GateItem(t) : t \in {t \in mine : StageOf(t) # "none"}})
    \cup {Item("BLOCKER", t.project, "ENGINEERING", t.id) :
            t \in {t \in mine : t.status \in {"BLOCKED_DEPENDENCY", "RECONCILIATION_REQUIRED"}}}

DecisionItems(project) ==
  {Item("CURRENT_DECISION", Everywhere, "DECISION", r.id) :
     r \in {r \in Records(state.decisions) :
              r.status = "CURRENT" /\ (project = Everywhere \/ project \in r.projects)}}
    \cup {Item("CURRENT_DECISION", r.project, "LIFECYCLE", r.id) :
            r \in {r \in Records(state.lifecycle) : r.status = "CURRENT" /\ InScopeOf(r, project)}}

AllSeen(project) == {k \in DOMAIN state.inbox : state.inbox[k].status = "OPEN"}   \* mutant
ChangesToReview(project) ==
  {k \in DOMAIN state.inbox :
     state.inbox[k].status # "RESOLVED" /\ project \in {Everywhere, k[2]}}

ProjectItems(project) ==
  UNION {{Item("BLOCKER", p.project, "PROJECT", b) : b \in p.blockers} :
           p \in {p \in ProjectViews : InScopeOf(p, project)}}

\* build
BuildInbox(project) ==
  OperatorItems(project) \cup EngineeringItems(project) \cup DecisionItems(project)
    \cup {Item("CHANGE_REVIEW", k[2], "CHANGE", k[1]) : k \in ChangesToReview(project)}
    \cup ProjectItems(project)

-----------------------------------------------------------------------------
\* A task that came to a gate is in the inbox exactly as long as require_approved would
\* refuse it: whatever snapshots of lifecycle decisions come in, superseded or for
\* another head.  Every change a project has not resolved is there, in its own inbox and
\* in the common one, and the common one has what all the others have that waits.
NothingWaitsUnseen ==
  LET common == BuildInbox(Everywhere) IN
  /\ \A t \in {t \in EngineeringViews : StageOf(t) # "none"} :
       LET shown == \E i \in BuildInbox(t.project) :
                      i.source = "ENGINEERING" /\ i.id = t.id /\ Waits(i)
           approved == /\ t.sha # Nothing
                       /\ \E r \in Records(state.lifecycle) :
                            /\ r.status = "CURRENT" /\ r.disposition = "APPROVED"
                            /\ r.project = t.project /\ r.stage = StageOf(t) /\ r.subject = t.sha
       IN shown <=> ~approved
  /\ \A k \in DOMAIN state.inbox :
       /\ k \in UnresolvedForProject(k[2])
            => Item("CHANGE_REVIEW", k[2], "CHANGE", k[1]) \in common \cap BuildInbox(k[2])
       /\ k \notin UnresolvedForProject(k[2])
            => Item("CHANGE_REVIEW", k[2], "CHANGE", k[1]) \notin common
  /\ \A p \in {t.project : t \in EngineeringViews} :
       {i \in BuildInbox(p) : Waits(i)} = {i \in common : Waits(i) /\ i.project = p}
=============================================================================
