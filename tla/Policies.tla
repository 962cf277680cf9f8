------------------------------- MODULE Policies -------------------------------
(***************************************************************************)
(* Decisions that are computed from what is given, and nothing else: which *)
(* permissions the layers of policy leave, which adapters a task gets, and *)
(* what may run by itself.  An action asks one question and keeps it with  *)
(* the answer; the properties compare the answers with what they should be.*)
(***************************************************************************)
EXTENDS StateSections

CONSTANTS
  PolicyKinds,      \* the layers that must rule, in their order: a sequence
  PolicyFields,     \* fields of the context that a rule can restrict
  PolicyContexts,   \* contexts: values of the fields, permissions
  Adapters,         \* the registry: lifecycle, permission, certification, writes of each
  Candidates,       \* the adapters of a capability, a sequence
  ToolProfiles,     \* required, optional, prohibited, preferred, fallback
  ToolRequests,     \* required, optional, mutation
  PilotPackages, PilotRequests

\* The layers are listed, and so are the adapters of a capability and those that a
\* profile prefers or falls back to.
ASSUME PoliciesAreListed ==
  /\ PolicyKinds \in Seq(ToSet(PolicyKinds)) /\ PolicyKinds # <<>>
  /\ \A lists \in {Candidates} \cup UNION {{p.preferred, p.fallback} : p \in ToolProfiles} :
       \A c \in DOMAIN lists : lists[c] \in Seq(ToSet(lists[c]))
ASSUME NoCertificationIsNoRevocation == Nothing # "REVOKED"

Unknown == "UNKNOWN"
Anything == "*"

-----------------------------------------------------------------------------
(***************************************************************************)
(* The policy engine.  Each test ends the decision if it fails: unknown    *)
(* fields, the set of the layers, unknown layers, scopes, permissions.     *)
(***************************************************************************)
Allow(effective) == [decision |-> "ALLOW", effective |-> effective, denied |-> {}]
Deny(effective, by) == [decision |-> "DENY", effective |-> effective, denied |-> by]

Kinds(rules) == {rules[i].layer : i \in DOMAIN rules}

Duplicates(rules) ==
  {rules[i].layer : i \in {i \in DOMAIN rules : \E j \in 1..(i - 1) : rules[j].layer = rules[i].layer}}

\* A scope of Nothing restricts nothing.
InScope(rule, context) ==
  \A f \in PolicyFields :
    rule.scope[f] = Nothing \/ {Anything, context.values[f]} \cap rule.scope[f] # {}

FirstAllowed(ruling) == ruling[PolicyKinds[1]].allowed   \* mutant: the first layer alone rules
Effective(ruling) ==
  {p \in ruling[PolicyKinds[1]].allowed : \A k \in ToSet(PolicyKinds) : p \in ruling[k].allowed}

Decide(context, rules) ==
  LET required == ToSet(PolicyKinds)
      missing  == required \ Kinds(rules)
      \* of two rules of one layer the later; layers that are not required do not exist
      ruling   == [k \in required |-> rules[Max({i \in DOMAIN rules : rules[i].layer = k})]]
      unknown  == {k \in required : ~ruling[k].known}
      outOf    == {k \in required : ~InScope(ruling[k], context)}
      denied   == context.permissions \ Effective(ruling)
  IN IF Unknown \in {context.values[f] : f \in PolicyFields} \cup context.permissions
     THEN Deny({}, {"INPUT"})
     ELSE IF missing # {} \/ Duplicates(rules) # {} THEN Deny({}, missing \cup Duplicates(rules))
     ELSE IF unknown # {} THEN Deny({}, unknown)
     ELSE IF outOf # {} THEN Deny({}, outOf)
     ELSE IF denied # {}
     THEN Deny(Effective(ruling), {k \in required : ~(denied \subseteq ruling[k].allowed)})
     ELSE Allow(Effective(ruling))

DecidePolicy(context, rules) ==
  /\ outside' = [outside EXCEPT !.answer =
       [gate |-> "policy", context |-> context, rules |-> rules, is |-> Decide(context, rules)]]
  /\ UNCHANGED <<state, memory>>

-----------------------------------------------------------------------------
(***************************************************************************)
(* The capability router.                                                  *)
(***************************************************************************)
CandidatesOf(capability) == IF capability \in DOMAIN Candidates THEN Candidates[capability] ELSE <<>>

Listed(lists, capability) == IF capability \in DOMAIN lists THEN lists[capability] ELSE <<>>

UsableAlways(adapter, capability) == adapter \in ToSet(CandidatesOf(capability))   \* mutant
Usable(adapter, capability) ==
  /\ adapter \in ToSet(CandidatesOf(capability))
  /\ Adapters[adapter].lifecycle = "available"
  /\ Adapters[adapter].permission \notin {"blocked", "untested"}
  /\ Adapters[adapter].certification \in {Nothing, "TRIAL_AUTHORIZED", "APPROVED_PROVIDER"}

\* _select: preferred before fallback before the rest; the first that can be used.
Order(profile, capability) ==
  Listed(profile.preferred, capability) \o Listed(profile.fallback, capability)
    \o CandidatesOf(capability)

Selected(profile, capability) ==
  LET order  == Order(profile, capability)
      usable == {i \in DOMAIN order : Usable(order[i], capability)}
  IN IF capability \in profile.prohibited \/ usable = {} THEN Nothing ELSE order[Min(usable)]

Substituted(profile, capability, adapter) ==
  /\ adapter \in ToSet(Listed(profile.fallback, capability))
  /\ adapter \notin ToSet(Listed(profile.preferred, capability))

\* The codex adapter may read for a task without approval.
NeedsApproval(profile, request, capability, adapter) ==
  \/ Adapters[adapter].permission = "approval_required"
  \/ Substituted(profile, capability, adapter) /\ Adapters[adapter].writes
  \/ /\ request.mutation = "read-only" /\ Adapters[adapter].writes
     /\ ~Adapters[adapter].reads /\ adapter # "codex"

Required(profile, request) == profile.required \cup request.required

Plan(profile, request) ==
  LET wanted == Required(profile, request) \cup request.optional
      chosen == [c \in wanted |-> Selected(profile, c)]
  IN [chosen |-> chosen,
      approval |-> {c \in wanted : chosen[c] # Nothing
                                      /\ NeedsApproval(profile, request, c, chosen[c])},
      blockers |-> {c \in Required(profile, request) : chosen[c] = Nothing}]

PlanTools(profile, request) ==
  /\ outside' = [outside EXCEPT !.answer =
       [gate |-> "plan", profile |-> profile, request |-> request, is |-> Plan(profile, request)]]
  /\ UNCHANGED <<state, memory>>

-----------------------------------------------------------------------------
(***************************************************************************)
(* The pilot of risk levels.                                               *)
(***************************************************************************)
PilotActions == {"RESUME", "READ_ONLY_L4_GATE", "BOUNDED_TASK_BRANCH_WRITE", "COMMIT_PUSH_PR",
                 "MAIN_BASELINE_PRODUCTION_DB"}

Risk(action) ==
  CASE action \in {"RESUME", "READ_ONLY_L4_GATE"} -> "R0"
    [] action = "BOUNDED_TASK_BRANCH_WRITE"       -> "R1"
    [] action = "COMMIT_PUSH_PR"                  -> "R2"
    [] OTHER                                      -> "R3"

PilotBlockers(package, q) ==
  {b \in {"AUTHORITY_REFERENCE_MISSING"} : package.authority = Nothing}
    \cup {b \in {"GOVERNED_IDENTITY_INCOMPLETE"} : Nothing \in package.identity}
    \cup IF Risk(q.action) = "R0" THEN {}
         ELSE {b \in {"FRESH_HEAD_OBSERVATION_REQUIRED"} : q.head = Nothing}
                \cup {b \in {"EXPECTED_HEAD_DRIFT"} : q.head \notin {Nothing, package.head}}

\* ready is to run by itself; only what is of the highest risk asks for a person.
DecidePilot(package, q) ==
  /\ outside' = [outside EXCEPT !.answer =
       [gate |-> "pilot", package |-> package, request |-> q,
        is |-> [ready |-> Risk(q.action) # "R3" /\ PilotBlockers(package, q) = {},
                human |-> Risk(q.action) = "R3"]]]
  /\ UNCHANGED <<state, memory>>

-----------------------------------------------------------------------------
Answered(gate) == outside.answer # Nothing /\ outside.answer.gate = gate

\* Allowed is what every layer allows: there is just one rule for each layer, none
\* unknown, each lets every field pass and has every permission that was asked for.
\* Whatever else is asked is denied, and the denial names a layer or the input.
PolicyFailsClosed ==
  Answered("policy") =>
    LET k == outside.answer
        rulesOf(l) == {i \in DOMAIN k.rules : k.rules[i].layer = l}
        lets(rule) == /\ rule.known /\ InScope(rule, k.context)
                      /\ k.context.permissions \subseteq rule.allowed
        known == \A f \in PolicyFields : k.context.values[f] # Unknown
    IN /\ k.is.decision = "ALLOW" <=>
            /\ known /\ Unknown \notin k.context.permissions
            /\ \A l \in ToSet(PolicyKinds) :
                 \E i \in DOMAIN k.rules : rulesOf(l) = {i} /\ lets(k.rules[i])
            /\ Duplicates(k.rules) = {}
       /\ (k.is.decision = "DENY") <=> (k.is.denied # {})
       /\ \A i \in DOMAIN k.rules :
            k.rules[i].layer \in ToSet(PolicyKinds) => k.is.effective \subseteq k.rules[i].allowed

\* A plan is not blocked: each capability it needs has an adapter for it that is there,
\* permitted and certified, none that the profile prefers could have been used instead;
\* and what can only write is not given to a reading task unasked, but codex.
PlanIsUsable ==
  Answered("plan") =>
    LET k == outside.answer IN
    /\ k.is.blockers = {} =>
         \A c \in Required(k.profile, k.request) :
           c \notin k.profile.prohibited /\ k.is.chosen[c] # Nothing
    /\ \A c \in DOMAIN k.is.chosen : k.is.chosen[c] # Nothing =>
         LET a == k.is.chosen[c]
             preferred == Listed(k.profile.preferred, c)
         IN /\ Adapters[a].lifecycle = "available" /\ Adapters[a].permission # "blocked"
            /\ Adapters[a].certification # "REVOKED" /\ a \in ToSet(CandidatesOf(c))
            /\ a \notin ToSet(preferred) => \A b \in ToSet(preferred) : ~Usable(b, c)
            /\ (k.request.mutation = "read-only" /\ Adapters[a].writes /\ ~Adapters[a].reads)
                 => c \in k.is.approval \/ a = "codex"

\* What may run by itself is bound to the head that was just observed, if it writes at all,
\* and is never on the main branch, the baseline or production.
PilotIsBound ==
  Answered("pilot") =>
    LET k == outside.answer IN
    k.is.ready => /\ k.request.action # "MAIN_BASELINE_PRODUCTION_DB"
                  /\ k.request.action \notin {"RESUME", "READ_ONLY_L4_GATE"}
                       => k.request.head = k.package.head
                  /\ k.package.authority # Nothing
=============================================================================
