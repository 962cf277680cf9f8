---------------------------- MODULE ProjectRegistry ----------------------------
(***************************************************************************)
(* External projects.  A probe loads all the projects and reports, waits   *)
(* for git or GitHub, and saves what it loaded with its own project        *)
(* changed: whatever another intake or probe saved meanwhile is undone.    *)
(* GitHub renames repositories, leads their old names to them, and gives   *)
(* an old name away.                                                       *)
(***************************************************************************)
EXTENDS StateSections

CONSTANTS
  ProjectName,     \* names of repositories; the id of a project is its name at intake
  StableId,        \* what GitHub calls a repository whatever its name
  Findings,        \* what a probe may find: head, whether the worktree is dirty, candidates
  ProbeId,
  MaxProbes,       \* probes of a behavior
  MaxHealth        \* transitions of the health of a project

NoProjects == [known |-> [p \in {} |-> Nothing], reports |-> [p \in {} |-> Nothing]]
NoHealth == [p \in {} |-> Nothing]
NoProbes == [i \in {} |-> Nothing]

Registered == DOMAIN state.projects.known

\* On GitHub: the repository a name leads to, and the name a repository has.
Holds(github, n) == github.owner[n] # Nothing /\ github.name[github.owner[n]] = n

RenameRepository(g, n) ==
  /\ ~Holds(outside.github, n)
  /\ outside' = [outside EXCEPT !.github.owner[n] = g, !.github.name[g] = n]
  /\ UNCHANGED <<state, memory>>

-----------------------------------------------------------------------------
\* A project that is known is returned as it is, or refused if its repository was renamed
\* or the adapter is another.
Intake(n, adapter, head) ==
  /\ n \notin Registered
  /\ state' = [state EXCEPT !.projects.known = With(@, n,
       [name |-> n, stable |-> Nothing, adapter |-> adapter, head |-> head,
        status |-> "registered", blocked |-> FALSE])]
  /\ UNCHANGED <<memory, outside>>

ProbeStarts(i, p) ==
  /\ i \notin DOMAIN memory.probes /\ p \in Registered /\ outside.probed < MaxProbes
  /\ memory' = [memory EXCEPT !.probes = With(@, i,
       [project |-> p, known |-> state.projects.known, reports |-> state.projects.reports])]
  /\ outside' = [outside EXCEPT !.probed = @ + 1]
  /\ UNCHANGED state

Forgotten(probes) == [memory EXCEPT !.probes = [i \in DOMAIN @ \ probes |-> @[i]]]

\* The repository that the project's name leads to; another than before is refused.
AnyRepository(project) ==   \* mutant: another repository by the name is taken for it
  IF project.adapter = "local_git" THEN {[name |-> project.name, stable |-> Nothing]}
  ELSE {[name |-> outside.github.name[s], stable |-> s] :
          s \in {outside.github.owner[project.name]} \ {Nothing}}
Found(project) ==
  LET g == outside.github.owner[project.name]
  IN IF project.adapter = "local_git" THEN {[name |-> project.name, stable |-> Nothing]}
     ELSE {[name |-> outside.github.name[s], stable |-> s] :
             s \in {s \in {g} \ {Nothing} : project.stable \in {Nothing, s}}}

NoConflict(probe, found) == TRUE   \* mutant: the other projects are not looked at
Free(probe, found) ==
  \/ probe.known[probe.project].adapter = "local_git"
  \/ \A q \in DOMAIN probe.known \ {probe.project} :
       /\ probe.known[q].stable = Nothing \/ probe.known[q].stable # found.stable
       /\ probe.known[q].name # found.name

\* A dirty local worktree blocks; GitHub has none.
ReportOf(probe, found, finding) ==
  [name |-> found.name, stable |-> found.stable, head |-> finding.head,
   drifted |-> probe.known[probe.project].head \notin {Nothing, finding.head},
   blocked |-> finding.dirty /\ probe.known[probe.project].adapter = "local_git",
   candidates |-> finding.candidates]

OldName(project, report) ==   \* mutant: the project keeps its old name
  [project EXCEPT !.stable = report.stable, !.head = report.head,
                  !.status = IF report.drifted THEN "drifted" ELSE "probed",
                  !.blocked = report.blocked]
Updated(project, report) ==
  [project EXCEPT !.name = report.name, !.stable = report.stable, !.head = report.head,
                  !.status = IF report.drifted THEN "drifted" ELSE "probed",
                  !.blocked = report.blocked]

ProbeAnswers(i, finding) ==
  /\ i \in DOMAIN memory.probes
  /\ LET probe == memory.probes[i]
     IN \E found \in Found(probe.known[probe.project]) :
          /\ Free(probe, found)
          /\ LET report == ReportOf(probe, found, finding)
             IN state' = [state EXCEPT !.projects =
                  [known   |-> [probe.known EXCEPT ![probe.project] = Updated(@, report)],
                   reports |-> With(probe.reports, probe.project, report)]]
  /\ memory' = Forgotten({i})
  /\ UNCHANGED outside

\* Any read may fail, and a repository that is another one or another project's always
\* does.  The project is blocked; its report stays.
ProbeFails(i) ==
  /\ i \in DOMAIN memory.probes
  /\ LET probe == memory.probes[i]
     IN state' = [state EXCEPT !.projects =
          [known   |-> [probe.known EXCEPT ![probe.project].status = "blocked",
                                           ![probe.project].blocked = TRUE],
           reports |-> probe.reports]]
  /\ memory' = Forgotten({i})
  /\ UNCHANGED outside

\* An error that is not a governance error, or the end of the process.
ProbesBreak(probes) ==
  /\ probes # {} /\ probes \subseteq DOMAIN memory.probes
  /\ memory' = Forgotten(probes)
  /\ UNCHANGED <<state, outside>>

\* prepare_engineering_task_request: a task is created at the head of the report.
PrepareTask(p, candidate) ==
  /\ p \in DOMAIN state.projects.reports
  /\ LET report == state.projects.reports[p] IN
     /\ candidate \in report.candidates /\ ~candidate.blocked /\ ~report.blocked
     /\ outside' = [outside EXCEPT !.prepared =
          [project |-> p, repository |-> report.name, base |-> report.head]]
  /\ UNCHANGED <<state, memory>>

-----------------------------------------------------------------------------
HealthState == {"UNASSESSED", "RECONCILING", "HEALTHY", "DEGRADED", "BLOCKED"}

AnyHealth(s) == HealthState   \* mutant: the table is not asked
NextHealth(s) ==
  CASE s = "UNASSESSED"              -> {"RECONCILING", "BLOCKED"}
    [] s = "RECONCILING"             -> {"HEALTHY", "DEGRADED", "BLOCKED"}
    [] s = "HEALTHY"                 -> {"RECONCILING", "DEGRADED", "BLOCKED"}
    [] s = "DEGRADED"                -> {"RECONCILING", "BLOCKED"}
    [] s = "BLOCKED"                 -> {"RECONCILING"}

HealthLog(p) == IF p \in DOMAIN state.health THEN state.health[p] ELSE <<>>
HealthOf(p) == IF HealthLog(p) = <<>> THEN "UNASSESSED" ELSE Last(HealthLog(p)).to

TransitionHealth(p, expected, target, authority) ==
  /\ p \in Registered /\ HealthOf(p) = expected /\ Len(HealthLog(p)) < MaxHealth
  /\ target \in NextHealth(expected)
  /\ target \in {"RECONCILING", "HEALTHY"} => authority # Nothing
  /\ Save("health", With(state.health, p, Append(HealthLog(p),
       [from |-> expected, to |-> target, authority |-> authority])))

-----------------------------------------------------------------------------
ProjectsTypeOK ==
  /\ Registered \subseteq ProjectName
  /\ \A p \in Registered :
       /\ state.projects.known[p].name \in ProjectName
       /\ state.projects.known[p].stable \in Optional(StableId)
       /\ state.projects.known[p].status \in {"registered", "probed", "drifted", "blocked"}
  /\ DOMAIN state.health \subseteq ProjectName
  /\ DOMAIN memory.probes \subseteq ProbeId

\* However probes overlap and repositories are renamed while they run, no two projects
\* are of one repository, and no two of GitHub that were observed go by one name.
RepositoryHasOneProject ==
  \A p, q \in {p \in Registered : state.projects.known[p].stable # Nothing} :
    p # q => /\ state.projects.known[p].stable # state.projects.known[q].stable
             /\ state.projects.known[p].name # state.projects.known[q].name

\* A report is of a project that is registered and says what the project's record says,
\* unless the record is blocked by a later failure; and a record that was observed has
\* its report.
RecordsAgree ==
  LET known == state.projects.known
      reports == state.projects.reports
  IN /\ DOMAIN reports \subseteq Registered
     /\ \A p \in DOMAIN reports :
          /\ known[p].name = reports[p].name /\ known[p].stable = reports[p].stable
          /\ known[p].head = reports[p].head
          /\ known[p].blocked = (reports[p].blocked \/ known[p].status = "blocked")
          /\ known[p].status \in {"blocked", IF reports[p].drifted THEN "drifted" ELSE "probed"}
     /\ \A p \in Registered \ DOMAIN reports : known[p].status \in {"registered", "blocked"}

\* A task is prepared at the head on record for its project, in a repository that no
\* other observed project of GitHub goes by.
PreparedIsOnRecord ==
  LET k == outside.prepared
      known == state.projects.known
  IN k # Nothing =>
       /\ k.project \in Registered
       /\ known[k.project].name = k.repository /\ known[k.project].head = k.base
       /\ \A q \in Registered \ {k.project} :
            known[q].stable # Nothing /\ known[k.project].stable # Nothing
              => known[q].name # k.repository

\* A project that was blocked or degraded is healthy only after a reconciliation that
\* somebody authorised since.
HealthIsEarned ==
  \A p \in DOMAIN state.health :
    LET log == state.health[p] IN
    \A i, j \in DOMAIN log :
      i < j /\ log[i].to \in {"BLOCKED", "DEGRADED"} /\ log[j].to = "HEALTHY"
        => \E k \in i..j : log[k].to = "RECONCILING" /\ log[k].authority # Nothing

-----------------------------------------------------------------------------
(***************************************************************************)
(* What no probe in flight can undo: that a project is registered, its      *)
(* adapter, and its repository, once every probe in flight loaded it so.   *)
(***************************************************************************)
Loaded == {memory.probes[i].known : i \in DOMAIN memory.probes}

Agreed(p, field) ==
  \A known \in Loaded : p \in DOMAIN known /\ known[p][field] = state.projects.known[p][field]

KeptProjects ==
  {<<"project", p, state.projects.known[p].adapter>> : p \in {p \in Registered : Agreed(p, "adapter")}}
    \cup {<<"repository", p, state.projects.known[p].stable>> :
            p \in {p \in Registered : state.projects.known[p].stable # Nothing /\ Agreed(p, "stable")}}
KeptHealth ==
  {<<"health", e[1], <<e[2], state.health[e[1]][e[2]]>>>> :
     e \in UNION {{p} \X DOMAIN state.health[p] : p \in DOMAIN state.health}}
=============================================================================
