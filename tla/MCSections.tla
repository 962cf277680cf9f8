------------------------------ MODULE MCSections ------------------------------
(***************************************************************************)
(* A bounded instance of Sections: small pools of what the calls are given *)
(* and of what the registries import, the invalid among them.              *)
(***************************************************************************)
EXTENDS Sections

\* Two scopes of src, one with a wildcard within a name, and one of another repository.
Pattern(prefix, cut) == {[prefix |-> prefix, cut |-> cut]}
MCEngineeringTasks ==
  {[id |-> "t1", repository |-> "r1", scope |-> Pattern(<<"src", "a">>, TRUE), created |-> "h1"],
   [id |-> "t2", repository |-> "r1", scope |-> Pattern(<<"src", "ab">>, FALSE), created |-> "h1"],
   [id |-> "t3", repository |-> "r1", scope |-> Pattern(<<"src">>, FALSE), created |-> "h2"],
   [id |-> "t4", repository |-> "r2", scope |-> Pattern(<<"src">>, FALSE), created |-> "h1"]}
MCBegins == {<<"a", "ab">>}
MCFiles == {<<"src", "a", "x">>, <<"src", "ab", "y">>, <<"src", "z">>}
MCFirstHead == [r \in Repository |-> "h1"]

\* The requests of a task: a write and a read in order, and one way each to be out of order.
Request(task, identity, action) ==
  [task |-> task, identity |-> identity, runtime |-> "expected", local |-> identity,
   remote |-> identity, requireClean |-> TRUE, clean |-> TRUE, action |-> action,
   allowed |-> {"git.write", "filesystem.read"}, class |-> "source-write",
   paths |-> {"a"}, scope |-> {"a"}]
Write1 == Request("t1", "i1", "git.write")
MCRdcRequests ==
  {Write1, [Write1 EXCEPT !.remote = "i2"], [Write1 EXCEPT !.class = "read-only"],
   [Write1 EXCEPT !.paths = {"a", "b"}],
   [Request("t1", "i1", "filesystem.read") EXCEPT !.class = "read-only", !.clean = FALSE,
                                                  !.requireClean = FALSE],
   Request("t2", "i2", "git.write")}
Context(task, identity) ==
  [task |-> task, identity |-> identity, bootstrap |-> identity, planned |-> task,
   selected |-> TRUE, approvalRequired |-> TRUE, authorized |-> TRUE, writable |-> TRUE,
   scope |-> {"a"}]
MCRdcContexts ==
  {Context("t1", "i1"), [Context("t1", "i1") EXCEPT !.authorized = FALSE], Context("t2", "i2")}

MCScopesOf == ("p1" :> {"write"}) @@ ("p2" :> {"read"})

\* Two registries of known failures, the later by another authority and with another lesson.
Failure(fp, projects, lesson) == [fingerprint |-> fp, projects |-> projects, lesson |-> lesson]
MCFailureRegistries ==
  {[revision |-> 1, authority |-> "owner",
    records |-> {Failure("connector-403", {"p1"}, "l1")}],
   [revision |-> 2, authority |-> "board",
    records |-> {Failure("connector-403", {"p1", "p2"}, "l2")}]}
MCProjectOf == [t \in FailureTask |-> "p1"]
MCConnectorFailures ==
  {[canonical403 |-> TRUE, permission |-> p, task |-> "f1"] : p \in {"DENIED_403", "GRANTED"}}
Right == [task |-> "t1", identity |-> "i1", mutationAllowed |-> TRUE, login |-> "me"]
MCRouteRequests == {Write1, [Write1 EXCEPT !.remote = "i2"], [Write1 EXCEPT !.class = "read-only"]}
MCRouteAuthorities == {Right, [Right EXCEPT !.mutationAllowed = FALSE], [Right EXCEPT !.identity = "i2"]}
Here == [login |-> "me", permitted |-> TRUE, identity |-> "i1", clean |-> TRUE]
MCLocalObservations == {Here, [Here EXCEPT !.login = "other"], [Here EXCEPT !.identity = "i2"]}
MCDecision ==
  {[accepted |-> TRUE, missing |-> {}, failed |-> {}], [accepted |-> FALSE, missing |-> {"CI"}, failed |-> {}]}

\* Decisions of which some follow others, two for one key and one to promote a claim.
DecisionOf(id, key, version, status, projects, supersedes) ==
  [id |-> id, key |-> key, version |-> version, status |-> status, projects |-> projects,
   supersedes |-> supersedes, effective |-> version, directive |-> version,
   instructions |-> {"n", "o"}, evidence |-> {"c1"}]
MCDecisionPool ==
  {DecisionOf("d1", <<"k">>, 1, "CURRENT", {"p1", "p2"}, {}),
   DecisionOf("d1", <<"k">>, 1, "SUPERSEDED", {"p1", "p2"}, {}),
   DecisionOf("d2", <<"k">>, 2, "CURRENT", {"p1"}, {"d1"}),
   DecisionOf("d3", <<"k">>, 2, "CURRENT", {"p2"}, {}),
   DecisionOf("d4", <<"promotion", "p1", "q">>, 1, "CURRENT", {"p1"}, {})}
MCInstructions == {[id |-> "n", key |-> <<"k">>, version |-> v, directive |-> d] : v, d \in 1..2}

\* Instructions of d1 and of d2, a second one that says the same, one that supersedes others,
\* one from elsewhere, one under another key without a decision.
Instruction(id, precedence, decision, version, supersedes) ==
  [id |-> id, precedence |-> precedence, decision |-> decision, version |-> version,
   status |-> "ACTIVE", sovereign |-> TRUE, projects |-> {"p1", "p2"}, supersedes |-> supersedes,
   key |-> <<"k">>, directive |-> version]
MCInstructionPool ==
  {Instruction("n", <<1, 1>>, "d1", 1, {}), Instruction("o", <<1, 2>>, "d1", 1, {}),
   Instruction("n", <<2, 1>>, "d2", 2, {}), Instruction("o", <<0, 1>>, "d2", 2, {"n"}),
   [Instruction("x", <<3, 1>>, "d1", 1, {}) EXCEPT !.sovereign = FALSE],
   [Instruction("y", <<0, 2>>, Nothing, 1, {"z"}) EXCEPT !.key = <<"l">>],
   [Instruction("z", <<1, 3>>, "d3", 2, {"n"}) EXCEPT !.projects = {"p2"}]}

Stage(id, project, stage, subject, status, disposition) ==
  [id |-> id, project |-> project, stage |-> stage, subject |-> subject, status |-> status,
   disposition |-> disposition]
MCStagePool ==
  {Stage("s1", "p1", "INTEGRATION_ACCEPTANCE", "h1", "CURRENT", "APPROVED"),
   Stage("s1", "p1", "INTEGRATION_ACCEPTANCE", "h1", "SUPERSEDED", "APPROVED"),
   Stage("s2", "p1", "INTEGRATION_ACCEPTANCE", "h1", "CURRENT", "REJECTED"),
   Stage("s3", "p1", "INTEGRATION_ACCEPTANCE", "h2", "CURRENT", "APPROVED"),
   Stage("s4", "p2", "MAIN_MERGE", "h1", "CURRENT", "APPROVED")}

Claim(id, promotion, reference, conflicts, supersedes, status) ==
  [id |-> id, key |-> "q", project |-> "p1", status |-> status, promotion |-> promotion,
   reference |-> reference, conflicts |-> conflicts, supersedes |-> supersedes]
MCClaimPool ==
  {Claim("c1", "ACCEPTED_PROJECT_KNOWLEDGE", "d4", {}, {}, "CURRENT"),
   Claim("c1", "ACCEPTED_PROJECT_KNOWLEDGE", "d1", {}, {}, "CURRENT"),
   Claim("c1", "CANDIDATE", Nothing, {}, {}, "SUPERSEDED"),
   Claim("c2", "CANDIDATE", Nothing, {"c3"}, {"c1"}, "CURRENT"),
   Claim("c3", "REVIEW_REQUIRED", Nothing, {"c2"}, {}, "CURRENT")}

MCOperatorViews == {[id |-> "o1", project |-> "p1", approval |-> TRUE, blocker |-> FALSE],
                    [id |-> "o2", project |-> "p2", approval |-> FALSE, blocker |-> TRUE]}
MCEngineeringViews ==
  {[id |-> "t1", project |-> "p1", status |-> "READY_FOR_INTEGRATION", sha |-> "h1"],
   [id |-> "t2", project |-> "p2", status |-> "IN_MERGE_QUEUE", sha |-> "h1"],
   [id |-> "t3", project |-> "p1", status |-> "READY_FOR_INTEGRATION", sha |-> Nothing],
   [id |-> "t4", project |-> "p2", status |-> "BLOCKED_DEPENDENCY", sha |-> "h1"]}
MCProjectViews == {[project |-> "p1", blockers |-> {"x"}], [project |-> "p2", blockers |-> {}]}

\* a produces k for b, b produces m for c; in the second graph b consumes the next version.
Edge(id, producer, consumer, contract, version, status) ==
  [id |-> id, producer |-> producer, consumer |-> consumer, kind |-> "CONTRACT",
   contract |-> contract, version |-> version, status |-> status]
Graph(revision, edges) ==
  [revision |-> revision, projects |-> {"a", "b", "c"}, edges |-> edges,
   produced |-> [p \in {"a", "b", "c"} |-> {e.id : e \in {e \in edges : e.producer = p}}],
   consumed |-> [p \in {"a", "b", "c"} |-> {e.id : e \in {e \in edges : e.consumer = p}}]]
EdgeM == Edge("e2", "b", "c", "m", 1, "SUPERSEDED")
MCGraphPool ==
  {Graph(1, {Edge("e1", "a", "b", "k", 1, "ACTIVE"), EdgeM}),
   Graph(2, {Edge("e1", "a", "b", "k", 2, "ACTIVE"), EdgeM}),
   [Graph(2, {Edge("e1", "a", "b", "k", 1, "ACTIVE"), EdgeM}) EXCEPT !.consumed["b"] = {}]}

Version(version, lifecycle, predecessor, successor, compatibility) ==
  [producer |-> "a", contract |-> "k", version |-> version, lifecycle |-> lifecycle,
   predecessor |-> predecessor, successor |-> successor, compatibility |-> compatibility]
BindingK(version) == [edge |-> "e1", contract |-> "k", version |-> version,
                      producer |-> "a", consumer |-> "b"]
MCContractPool ==
  {[revision |-> 2, bindings |-> {BindingK(2)},
    records |-> {Version(1, "RETIRED", Nothing, 2, "INITIAL"),
                 Version(2, "CURRENT", 1, Nothing, "BREAKING")}],
   [revision |-> 2, bindings |-> {BindingK(1)},
    records |-> {Version(1, "RETIRED", Nothing, 2, "INITIAL"),
                 Version(2, "CURRENT", 1, Nothing, "BREAKING")}],
   [revision |-> 2, bindings |-> {BindingK(2)},
    records |-> {Version(1, "CURRENT", Nothing, Nothing, "INITIAL"),
                 Version(2, "CURRENT", 1, Nothing, "BREAKING")}]}

Change(id, change, type, version) ==
  [id |-> id, change |-> change, type |-> type, project |-> "a", affected |-> {"a", "b"},
   edge |-> "e1", contract |-> [id |-> "k", version |-> version], accepted |-> 0,
   authority |-> "owner"]
MCEventPool ==
  {Change("v1", "x1", "RETIRED", 1),
   [Change("v2", "x1", "DEPENDENCY", 1) EXCEPT !.affected = {"b", "c"}],
   Change("v3", "x2", "PUBLISHED", 2)}
MCInboxKeys == {"v1", "v2", "v3"} \X {"b", "c"}
MCImpactReceipts == {[event |-> "v2", project |-> "b", authority |-> "owner"]}

\* Censuses: one in order, one whose pending role is admitted, one with a role given twice.
Agent(id, role, role_status, admitted, reference) ==
  [id |-> id, role |-> role, role_status |-> role_status, admitted |-> admitted,
   reference |-> reference, profile |-> "standard"]
Census(revision, agents) ==
  [revision |-> revision, agents |-> agents, profiles |-> {"standard"},
   sources |-> {[id |-> c, path |-> c, class |-> c] : c \in RequiredSources},
   lineage |-> [main |-> "h1", equivalent |-> TRUE,
                refs |-> {[name |-> "main", sha |-> "h1", main |-> TRUE],
                          [name |-> "next", sha |-> "h2", main |-> FALSE]}]]
Admitted == Agent("a1", "coder", "active", TRUE, "decision")
Pending  == Agent("a2", "tester", "blocked", FALSE, Nothing)
MCCensusPool ==
  {Census(1, {Admitted, Pending}),
   Census(2, {Pending}),
   Census(2, {Admitted, [Pending EXCEPT !.admitted = TRUE, !.reference = "decision"]}),
   Census(2, {Admitted, [Pending EXCEPT !.role = "coder"]}),
   [Census(3, {Admitted}) EXCEPT !.lineage.main = "h2"]}

MCBaselines ==
  {[id |-> "b1", device |-> Nothing, components |-> ("python" :> "3.12") @@ ("git" :> "2")],
   [id |-> "b2", device |-> "d1", components |-> "python" :> "3.12"]}
MCFingerprints ==
  {[device |-> d, components |-> c] :
     d \in {"d1", "d2"}, c \in {"python" :> "3.12", ("python" :> "3.12") @@ ("git" :> "2")}}
MCRuntimeReceipts ==
  {[baseline |-> "b1", fingerprint |-> [device |-> "d1", components |-> "python" :> "3.12"]]}

Column(relation, name) == [relation |-> relation, name |-> name]
Catalog(target, approved) ==
  [target |-> target, approved |-> approved, relations |-> {"t1", "t2"},
   columns |-> {Column("t1", "x"), Column("t2", "x"), Column("t2", "y")}]
MCCatalogs == {Catalog(CanonicalTarget, TRUE), Catalog("other", TRUE), Catalog(CanonicalTarget, FALSE),
               [Catalog(CanonicalTarget, TRUE) EXCEPT !.relations = {"t1"}, !.columns = {Column("t1", "z")}]}
MCSchemaObjects == {{}, {[name |-> "t1", columns |-> {"x"}]}}

\* Runs that changed a file, one of them a dotted one, and one that changed nothing.
File(name, dotted) == [name |-> name, dotted |-> dotted]
RunOf(task, after, changed) ==
  [status |-> "pending_verification", project |-> "p1", repository |-> "r1", task |-> task,
   after |-> after, required |-> {"TESTS", "CI", "READBACK"}, tests |-> TRUE,
   changed |-> {File(f, f = "env") : f \in changed}, explicit |-> TRUE, authorized |-> TRUE,
   decision |-> Nothing, learning |-> Nothing,
   relayable |-> TRUE, package |-> FALSE, thread |-> TRUE, imported |-> FALSE]
MCGateRuns ==
  {RunOf("t1", "h1", {"a"}), RunOf("t1", "h1", {"env"}), RunOf("t1", "h1", {"b"}),
   [RunOf("t1", "h1", {"a"}) EXCEPT !.required = {"UAT"}],
   [RunOf("t1", "h2", {}) EXCEPT !.tests = FALSE], [RunOf("t1", "h1", {"a"}) EXCEPT !.authorized = FALSE],
   [RunOf("t1", Nothing, {}) EXCEPT !.status = "drifted"]}
MCGateResults == {[after |-> "h2", tests |-> TRUE, changed |-> {File("a", FALSE)}],
                  [after |-> "h1", tests |-> FALSE, changed |-> {}]}
Parent(status, write) ==
  [project |-> "p1", repository |-> "r1", task |-> "t1", remote |-> "h1", status |-> status,
   write |-> write, scope |-> {File("a", FALSE), File("env", FALSE)}]
MCGateParents == {Parent("IN_PROGRESS", TRUE), Parent("IN_PROGRESS", FALSE), Parent("INTEGRATED", TRUE)}
Closeout(head, rationale) == [task |-> <<"p1", "t1">>, head |-> head, delta |-> Nothing,
                              rationale |-> rationale]
MCVerifications ==
  {[head |-> h, ci |-> ci, uat |-> u, readback |-> TRUE, learning |-> l] :
     h \in GateHead, ci \in BOOLEAN,
     u \in {Nothing, Evidence("UAT", TRUE, "h1"), Evidence("UAT", TRUE, "h2")},
     l \in {Nothing, Closeout("h1", TRUE), Closeout("h2", TRUE), Closeout("h1", FALSE)}}
MCSemantics == {[project |-> "p1", repository |-> "r1", task |-> "t1", head |-> h] : h \in GateHead}
MCReviews == {[project |-> "p1", repository |-> "r1", task |-> "t1", head |-> h, coder |-> c] :
                h \in GateHead, c \in {"coder", "reviewer"}}

\* Up to three rules of two layers and of one that is not among them.
Rule(layer, known, allowed, scope) ==
  [layer |-> layer, known |-> known, allowed |-> allowed, scope |-> [f \in PolicyFields |-> scope]]
MCPolicyKinds == <<"organization", "project">>
MCRules ==
  {Rule(l, TRUE, a, s) : l \in {"organization", "project"}, a \in {{"read"}, {"read", "write"}},
                         s \in {Nothing, {"p1"}}}
    \cup {Rule("organization", FALSE, {"read"}, Nothing), Rule("team", TRUE, {}, Nothing),
          Rule("project", TRUE, {"write"}, {Anything})}
MCRuleSequences == UNION {[1..n -> MCRules] : n \in 1..3}
MCPolicyContexts ==
  {[values |-> [f \in PolicyFields |-> v], permissions |-> p] :
     v \in {"p1", "p2", Unknown}, p \in {{}, {"read"}, {"read", "write"}}}

Adapter(lifecycle, permission, certification, writes, reads) ==
  [lifecycle |-> lifecycle, permission |-> permission, certification |-> certification,
   writes |-> writes, reads |-> reads]
MCAdapters ==
  ("codex"  :> Adapter("available", "allowed", Nothing, TRUE, FALSE)) @@
  ("local"  :> Adapter("available", "approval_required", "APPROVED_PROVIDER", TRUE, TRUE)) @@
  ("cloud"  :> Adapter("available", "allowed", "REVOKED", FALSE, TRUE)) @@
  ("writer" :> Adapter("available", "allowed", Nothing, TRUE, FALSE)) @@
  ("old"    :> Adapter("planned", "allowed", Nothing, TRUE, TRUE))
MCCandidates == ("edit" :> <<"old", "cloud", "writer", "codex">>) @@ ("search" :> <<"cloud", "local">>)
MCToolProfiles ==
  {[required |-> r, prohibited |-> p, preferred |-> "edit" :> x, fallback |-> "edit" :> y] :
     r \in {{}, {"search"}}, p \in {{}, {"edit"}, {"deploy"}},
     x, y \in {<<>>, <<"old">>, <<"codex">>, <<"old", "writer">>}}
MCToolRequests ==
  {[required |-> r, optional |-> o, mutation |-> m] :
     r, o \in SUBSET {"edit", "deploy"}, m \in {"read-only", "source-write"}}
MCPilotPackages ==
  {[authority |-> a, identity |-> i, head |-> h] :
     a \in {Nothing, "owner"}, i \in {{"p1", "r1"}, {"p1", Nothing}}, h \in {"h1", "h2"}}
MCPilotRequests == {[action |-> a, head |-> h] : a \in PilotActions, h \in {Nothing, "h1"}}

Skill(id, findings) ==
  [id |-> id, stage |-> "QUARANTINED", provenance |-> TRUE, findings |-> findings, evals |-> {"e"},
   regressions |-> {"r"}, mind |-> "m", workspace |-> "w", requested |-> {"read", "write"}]
MCSkillPool == {Skill("s1", {}), Skill("s2", {"leak"}), [Skill("s3", {}) EXCEPT !.stage = "PROJECT_PROVEN"]}
MCSkillGrants == {{{"read", "write"}, {"read"}}, {{"read"}, {}}}

MCPrompts ==
  {[class |-> c, item |-> i, project |-> p, technical |-> t] :
     c \in {"RESEARCH", "PRIVATE", "GOVERNED"}, i \in {"research", "p1"},
     p \in {Nothing, "p1", "p2"}, t \in {Nothing, "T"}}

Dimension(passed, gaps) ==
  [passed |-> passed, evidence |-> {"e"}, gaps |-> gaps, blockers |-> {}]
MCAssessments ==
  [1..6 -> {Dimension(TRUE, {}), Dimension(FALSE, {"g"})}]
    \cup {[i \in 1..6 |-> Dimension(TRUE, IF i = 3 THEN {"g"} ELSE {})]}

\* n1 is g1's; g2 is made later.  A candidate is open at one head and blocked at another.
MCFirstGithub == [owner |-> [n \in ProjectName |-> IF n = "n1" THEN "g1" ELSE Nothing],
                  name  |-> [g \in StableId |-> IF g = "g1" THEN "n1" ELSE Nothing]]
Finding(head, dirty, candidate_blocked) ==
  [head |-> head, dirty |-> dirty, candidates |-> {[id |-> "c1", blocked |-> candidate_blocked]}]
MCIntakes == {[name |-> n, adapter |-> "github_repository", head |-> Nothing] : n \in ProjectName}
               \cup {[name |-> "n2", adapter |-> "local_git", head |-> "h1"]}
MCFindings == {Finding("h1", FALSE, FALSE), Finding("h2", TRUE, TRUE)}

\* All graphs of three projects, loops and cycles among them, those of four whose edges go
\* forward in another order than the projects', and one edge twice.
Three == <<"a", "b", "c">>
AllPairs == [i \in 1..9 |-> <<Three[((i - 1) \div 3) + 1], Three[((i - 1) % 3) + 1]>>]
Forward == <<<<"a", "b">>, <<"a", "c">>, <<"a", "d">>, <<"b", "c">>, <<"b", "d">>, <<"c", "d">>>>
MCPathGraphs ==
  {<<Three, SelectSeq(AllPairs, LAMBDA e : e \in s)>> : s \in SUBSET ToSet(AllPairs)}
    \cup {<<<<"c", "a", "d", "b">>, SelectSeq(Forward, LAMBDA e : e \in s)>> :
            s \in SUBSET ToSet(Forward)}
    \cup {<<<<"a", "b">>, <<<<"a", "b">>, <<"a", "b">>>>>>}
=============================================================================
