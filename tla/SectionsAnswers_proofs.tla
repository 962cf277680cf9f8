------------------------ MODULE SectionsAnswers_proofs ------------------------
(***************************************************************************)
(* What the sections answer is what the records say.  An answer is kept    *)
(* with the question and the records it was given from, so each is proved  *)
(* where it is given; what is read from the sections at any time is proved *)
(* from invariants of theirs.                                              *)
(***************************************************************************)
EXTENDS SectionsEvidence_proofs

-----------------------------------------------------------------------------
(***************************************************************************)
(* Policy.  Without duplicates and with none missing a layer has one rule. *)
(***************************************************************************)
RulesOf(rules, l) == {i \in DOMAIN rules : rules[i].layer = l}

LEMMA OneRuleOfALayer ==
  ASSUME NEW rules, rules \in Seq(ToSet(rules)), Duplicates(rules) = {},
         NEW l \in Kinds(rules)
  PROVE  \E i \in DOMAIN rules : RulesOf(rules, l) = {i} /\ Max(RulesOf(rules, l)) = i
<1>1. DOMAIN rules = 1..Len(rules) /\ Len(rules) \in Nat
  OBVIOUS
<1>2. PICK i \in DOMAIN rules : rules[i].layer = l
  BY DEF Kinds
<1>3. \A j \in DOMAIN rules : \A k \in 1..(j - 1) : rules[k].layer # rules[j].layer
  BY DEF Duplicates
<1>4. ASSUME NEW j \in DOMAIN rules, rules[j].layer = l PROVE j = i
  <2>1. ~(j < i) /\ ~(i < j)
    <3>1. j < i => j \in 1..(i - 1)
      BY <1>1
    <3>2. i < j => i \in 1..(j - 1)
      BY <1>1
    <3> QED BY <1>2, <1>3, <1>4, <3>1, <3>2
  <2> QED BY <1>1, <2>1
<1>5. RulesOf(rules, l) = {i}
  BY <1>2, <1>4 DEF RulesOf
<1>6. Max({i}) = i
  <2>1. i >= i
    BY <1>1
  <2> QED BY <2>1 DEF Max
<1> QED BY <1>5, <1>6

\* The rule that the layer is decided by.
RulingOf(rules) == [k \in ToSet(PolicyKinds) |-> rules[Max(RulesOf(rules, k))]]

Lets(rule, context) ==
  rule.known /\ InScope(rule, context) /\ context.permissions \subseteq rule.allowed

FailsClosed(context, rules, is) ==
  /\ is.decision = "ALLOW" <=>
       /\ \A f \in PolicyFields : context.values[f] # Unknown
       /\ Unknown \notin context.permissions
       /\ \A l \in ToSet(PolicyKinds) :
            \E i \in DOMAIN rules : RulesOf(rules, l) = {i} /\ Lets(rules[i], context)
       /\ Duplicates(rules) = {}
  /\ (is.decision = "DENY") <=> (is.denied # {})
  /\ \A i \in DOMAIN rules :
       rules[i].layer \in ToSet(PolicyKinds) => is.effective \subseteq rules[i].allowed

LEMMA DenialFails ==
  ASSUME NEW context, NEW rules, NEW effective, NEW by, by # {},
         ~ (/\ \A f \in PolicyFields : context.values[f] # Unknown
            /\ Unknown \notin context.permissions
            /\ \A l \in ToSet(PolicyKinds) :
                 \E i \in DOMAIN rules : RulesOf(rules, l) = {i} /\ Lets(rules[i], context)
            /\ Duplicates(rules) = {}),
         \A i \in DOMAIN rules :
           rules[i].layer \in ToSet(PolicyKinds) => effective \subseteq rules[i].allowed
  PROVE  FailsClosed(context, rules, Deny(effective, by))
<1>1. /\ Deny(effective, by).decision = "DENY" /\ Deny(effective, by).denied = by
      /\ Deny(effective, by).effective = effective
  BY DEF Deny
<1> QED BY <1>1, "DENY" # "ALLOW" DEF FailsClosed

LEMMA DecideFailsClosed ==
  ASSUME NEW context, NEW rules, rules \in Seq(ToSet(rules))
  PROVE  FailsClosed(context, rules, Decide(context, rules))
<1> DEFINE required == ToSet(PolicyKinds)
           missing == required \ Kinds(rules)
           ruling == RulingOf(rules)
           unknown == {k \in required : ~ruling[k].known}
           outOf == {k \in required : ~InScope(ruling[k], context)}
           denied == context.permissions \ Effective(ruling)
           by == {k \in required : ~(denied \subseteq ruling[k].allowed)}
           inputs == {context.values[f] : f \in PolicyFields} \cup context.permissions
           known == /\ \A f \in PolicyFields : context.values[f] # Unknown
                    /\ Unknown \notin context.permissions
           allLet == \A l \in required :
                       \E i \in DOMAIN rules : RulesOf(rules, l) = {i} /\ Lets(rules[i], context)
           answer == IF Unknown \in inputs THEN Deny({}, {"INPUT"})
                     ELSE IF missing # {} \/ Duplicates(rules) # {}
                     THEN Deny({}, missing \cup Duplicates(rules))
                     ELSE IF unknown # {} THEN Deny({}, unknown)
                     ELSE IF outOf # {} THEN Deny({}, outOf)
                     ELSE IF denied # {} THEN Deny(Effective(ruling), by)
                     ELSE Allow(Effective(ruling))
<1>1. Decide(context, rules) = answer
  BY DEF Decide, RulingOf, RulesOf
<1>2. known <=> Unknown \notin inputs
  OBVIOUS
<1>3. allLet => missing = {}
  BY DEF RulesOf, Kinds
<1>4. ASSUME missing = {}, Duplicates(rules) = {}, NEW l \in required
      PROVE  \E i \in DOMAIN rules : RulesOf(rules, l) = {i} /\ ruling[l] = rules[i]
  BY <1>4, OneRuleOfALayer DEF RulingOf
<1>5. ASSUME missing = {}, Duplicates(rules) = {}
      PROVE  /\ \A i \in DOMAIN rules : rules[i].layer \in required => ruling[rules[i].layer] = rules[i]
             /\ allLet <=> \A l \in required : Lets(ruling[l], context)
  <2>1. \A l \in required : \E i \in DOMAIN rules : RulesOf(rules, l) = {i} /\ ruling[l] = rules[i]
    BY <1>4, <1>5
  <2> HIDE DEF ruling, required
  <2>2. \A i \in DOMAIN rules : i \in RulesOf(rules, rules[i].layer)
    BY DEF RulesOf
  <2> QED BY <2>1, <2>2
<1>6. \E l \in required : l = PolicyKinds[1]
  BY PoliciesAreListed DEF ToSet
<1>7. \A l \in required : Effective(ruling) \subseteq ruling[l].allowed
  BY DEF Effective
<1>8. denied # {} => by # {}
  <2>1. ASSUME NEW p \in denied PROVE \E l \in required : p \notin ruling[l].allowed
    BY <1>6 DEF Effective
  <2> HIDE DEF ruling, required, denied
  <2> QED BY <2>1
<1>9. denied = {} <=> \A l \in required : context.permissions \subseteq ruling[l].allowed
  BY <1>6, <1>7 DEF Effective
<1>10. unknown = {} /\ outOf = {} /\ denied = {} <=> \A l \in required : Lets(ruling[l], context)
  <2> HIDE DEF ruling, required, denied
  <2> QED BY <1>9 DEF Lets
<1> HIDE DEF required, missing, ruling, unknown, outOf, denied, by, inputs
<1>11. CASE Unknown \in inputs
  BY <1>1, <1>2, <1>11, DenialFails DEF required
<1>12. CASE Unknown \notin inputs /\ (missing # {} \/ Duplicates(rules) # {})
  <2>1. ~allLet \/ Duplicates(rules) # {}
    BY <1>3, <1>12
  <2> QED BY <1>1, <1>12, <2>1, DenialFails DEF required
<1>13. CASE Unknown \notin inputs /\ missing = {} /\ Duplicates(rules) = {}
  <2>1. \A i \in DOMAIN rules : rules[i].layer \in required => Effective(ruling) \subseteq rules[i].allowed
    BY <1>5, <1>7, <1>13
  <2>2. allLet <=> unknown = {} /\ outOf = {} /\ denied = {}
    BY <1>5, <1>10, <1>13
  <2>3. CASE unknown # {}
    BY <1>1, <1>13, <2>2, <2>3, DenialFails DEF required
  <2>4. CASE unknown = {} /\ outOf # {}
    BY <1>1, <1>13, <2>2, <2>4, DenialFails DEF required
  <2>5. CASE unknown = {} /\ outOf = {} /\ denied # {}
    BY <1>1, <1>8, <1>13, <2>1, <2>2, <2>5, DenialFails DEF required
  <2>6. CASE unknown = {} /\ outOf = {} /\ denied = {}
    <3>1. answer = Allow(Effective(ruling))
      BY <1>13, <2>6
    <3>3. known /\ allLet
      BY <1>2, <1>13, <2>2, <2>6
    <3> HIDE DEF answer
    <3>4. \A e : Allow(e).decision = "ALLOW" /\ Allow(e).denied = {} /\ Allow(e).effective = e
      BY DEF Allow
    <3>2. /\ answer.decision = "ALLOW" /\ answer.denied = {} /\ answer.effective = Effective(ruling)
      BY <3>1, <3>4
    <3> QED BY <1>1, <1>13, <2>1, <3>2, <3>3, "DENY" # "ALLOW" DEF FailsClosed, required
  <2> QED BY <2>3, <2>4, <2>5, <2>6
<1> QED BY <1>11, <1>12, <1>13

LEMMA StepPolicy ==
  ASSUME Shape, NEW context, NEW rules \in RuleSequences, DecidePolicy(context, rules)
  PROVE  PolicyFailsClosed'
<1> DEFINE k == [gate |-> "policy", context |-> context, rules |-> rules, is |-> Decide(context, rules)]
<1>1. outside'.answer = k
  BY DEF DecidePolicy, Shape
<1>2. k.context = context /\ k.rules = rules /\ k.is = Decide(context, rules)
  OBVIOUS
<1>3. FailsClosed(k.context, k.rules, k.is)
  BY <1>2, DecideFailsClosed, RulesAreListed
<1> HIDE DEF k
<1> QED BY <1>1, <1>3 DEF PolicyFailsClosed, Answered, FailsClosed, RulesOf, Lets

-----------------------------------------------------------------------------
(***************************************************************************)
(* Tools and the pilot.                                                    *)
(***************************************************************************)
LEMMA AppendedFirst ==
  ASSUME NEW a, NEW b, NEW c, a \in Seq(ToSet(a)), b \in Seq(ToSet(b)), c \in Seq(ToSet(c))
  PROVE  /\ DOMAIN (a \o b \o c) \subseteq Nat
         /\ \A i \in DOMAIN a : i \in DOMAIN (a \o b \o c) /\ (a \o b \o c)[i] = a[i]
         /\ \A i \in DOMAIN (a \o b \o c) : i \notin DOMAIN a => \A j \in DOMAIN a : j < i
<1> DEFINE all == ToSet(a) \cup ToSet(b) \cup ToSet(c)
<1>1. a \in Seq(all) /\ b \in Seq(all) /\ c \in Seq(all)
  OBVIOUS
<1> HIDE DEF all
<1>2. a \o b \in Seq(all) /\ Len(a \o b) = Len(a) + Len(b)
      /\ \A i \in 1..Len(a) : (a \o b)[i] = a[i]
  BY <1>1
<1>3. /\ a \o b \o c \in Seq(all) /\ Len(a \o b \o c) = Len(a) + Len(b) + Len(c)
      /\ \A i \in 1..Len(a) + Len(b) : (a \o b \o c)[i] = (a \o b)[i]
  BY <1>1, <1>2
<1>4. /\ Len(a) \in Nat /\ Len(b) \in Nat /\ Len(c) \in Nat
      /\ DOMAIN a = 1..Len(a) /\ DOMAIN (a \o b \o c) = 1..(Len(a) + Len(b) + Len(c))
  BY <1>1, <1>3
<1> HIDE DEF all
<1>5. \A i \in 1..Len(a) : i \in 1..Len(a) + Len(b) /\ i \in 1..(Len(a) + Len(b) + Len(c))
  BY <1>4
<1>6. \A i \in DOMAIN a : i \in DOMAIN (a \o b \o c) /\ (a \o b \o c)[i] = a[i]
  BY <1>2, <1>3, <1>4, <1>5
<1>7. \A i \in 1..(Len(a) + Len(b) + Len(c)) : i \notin 1..Len(a) => \A j \in 1..Len(a) : j < i
  BY <1>4
<1> QED BY <1>4, <1>6, <1>7

LEMMA AreListed ==
  ASSUME NEW profile \in ToolProfiles, NEW c
  PROVE  /\ Listed(profile.preferred, c) \in Seq(ToSet(Listed(profile.preferred, c)))
         /\ Listed(profile.fallback, c) \in Seq(ToSet(Listed(profile.fallback, c)))
         /\ CandidatesOf(c) \in Seq(ToSet(CandidatesOf(c)))
<1> DEFINE Lists == {Candidates} \cup UNION {{p.preferred, p.fallback} : p \in ToolProfiles}
<1>1. profile.preferred \in Lists /\ profile.fallback \in Lists /\ Candidates \in Lists
  OBVIOUS
<1>2. \A lists \in Lists : \A d \in DOMAIN lists : lists[d] \in Seq(ToSet(lists[d]))
  BY PoliciesAreListed
<1>3. <<>> \in Seq(ToSet(<<>>))
  OBVIOUS
<1> HIDE DEF Lists
<1>4. \A lists \in Lists : Listed(lists, c) \in Seq(ToSet(Listed(lists, c)))
  BY <1>2, <1>3 DEF Listed
<1>5. CandidatesOf(c) \in Seq(ToSet(CandidatesOf(c)))
  BY <1>1, <1>2, <1>3 DEF CandidatesOf
<1> QED BY <1>1, <1>4, <1>5

LEMMA SelectedIsUsable ==
  ASSUME NEW profile \in ToolProfiles, NEW c, Selected(profile, c) # Nothing
  PROVE  /\ c \notin profile.prohibited
         /\ Usable(Selected(profile, c), c)
         /\ Selected(profile, c) \notin ToSet(Listed(profile.preferred, c)) =>
              \A b \in ToSet(Listed(profile.preferred, c)) : ~Usable(b, c)
<1> DEFINE preferred == Listed(profile.preferred, c)
           order == Order(profile, c)
           usable == {i \in DOMAIN order : Usable(order[i], c)}
<1>1. /\ c \notin profile.prohibited /\ usable # {} /\ Selected(profile, c) = order[Min(usable)]
  BY DEF Selected
<1>2. /\ DOMAIN order \subseteq Nat
      /\ \A i \in DOMAIN preferred : i \in DOMAIN order /\ order[i] = preferred[i]
      /\ \A i \in DOMAIN order : i \notin DOMAIN preferred => \A j \in DOMAIN preferred : j < i
  BY AreListed, AppendedFirst DEF Order
<1>3. DOMAIN preferred \subseteq Nat
  BY AreListed
<1> HIDE DEF order, preferred
<1>4. PICK n \in usable : \A m \in usable : n <= m
  BY <1>1, <1>2, NatMin
<1>5. Min(usable) \in usable /\ \A m \in usable : Min(usable) <= m
  BY <1>4 DEF Min
<1> DEFINE first == Min(usable)
<1> HIDE DEF first
<1>6. first \in DOMAIN order /\ Usable(order[first], c) /\ \A m \in usable : first <= m
  BY <1>5 DEF first
<1>7. ASSUME order[first] \notin ToSet(preferred), NEW b \in ToSet(preferred), Usable(b, c)
      PROVE  FALSE
  <2>1. PICK j \in DOMAIN preferred : b = preferred[j]
    BY DEF ToSet
  <2>2. j \in usable /\ first <= j
    BY <1>2, <1>6, <1>7, <2>1
  <2>3. first \notin DOMAIN preferred
    BY <1>2, <1>7 DEF ToSet
  <2>4. j < first /\ j \in Nat /\ first \in Nat
    BY <1>2, <1>3, <1>6, <2>1, <2>3
  <2> QED BY <2>2, <2>4
<1> QED BY <1>1, <1>6, <1>7 DEF first, preferred

LEMMA StepPlan ==
  ASSUME Shape, NEW profile \in ToolProfiles, NEW q, PlanTools(profile, q)
  PROVE  PlanIsUsable'
<1> DEFINE k == [gate |-> "plan", profile |-> profile, request |-> q, is |-> Plan(profile, q)]
           wanted == Required(profile, q) \cup q.optional
<1>1. outside'.answer = k
  BY DEF PlanTools, Shape
<1>2. k.profile = profile /\ k.request = q /\ k.is = Plan(profile, q)
  OBVIOUS
<1> HIDE DEF k
<1>3. /\ k.is.chosen = [c \in wanted |-> Selected(profile, c)]
      /\ k.is.blockers = {c \in Required(profile, q) : k.is.chosen[c] = Nothing}
      /\ k.is.approval = {c \in wanted : k.is.chosen[c] # Nothing
                                           /\ NeedsApproval(profile, q, c, k.is.chosen[c])}
  BY <1>2 DEF Plan
<1>4. Required(profile, q) \subseteq wanted
  OBVIOUS
<1> HIDE DEF wanted
<1>5. \A c \in wanted : k.is.chosen[c] # Nothing =>
        LET a == k.is.chosen[c] IN
        /\ c \notin profile.prohibited /\ Usable(a, c)
        /\ a \notin ToSet(Listed(profile.preferred, c)) =>
             \A b \in ToSet(Listed(profile.preferred, c)) : ~Usable(b, c)
  BY <1>3, SelectedIsUsable
<1>6. k.is.blockers = {} => \A c \in Required(profile, q) :
        c \notin profile.prohibited /\ k.is.chosen[c] # Nothing
  BY <1>3, <1>4, <1>5
<1>7. ASSUME NEW c \in wanted, k.is.chosen[c] # Nothing
      PROVE  LET a == k.is.chosen[c]
                 preferred == Listed(profile.preferred, c)
             IN /\ Adapters[a].lifecycle = "available" /\ Adapters[a].permission # "blocked"
                /\ Adapters[a].certification # "REVOKED" /\ a \in ToSet(CandidatesOf(c))
                /\ a \notin ToSet(preferred) => \A b \in ToSet(preferred) : ~Usable(b, c)
                /\ (q.mutation = "read-only" /\ Adapters[a].writes /\ ~Adapters[a].reads)
                     => c \in k.is.approval \/ a = "codex"
  <2>1. Usable(k.is.chosen[c], c)
    BY <1>5, <1>7
  <2>2. c \in k.is.approval <=> NeedsApproval(profile, q, c, k.is.chosen[c])
    BY <1>3, <1>7
  <2> QED BY <1>5, <1>7, <2>1, <2>2, NoCertificationIsNoRevocation DEF Usable, NeedsApproval
<1>8. DOMAIN k.is.chosen = wanted
  BY <1>3
<1> QED BY <1>1, <1>2, <1>6, <1>7, <1>8 DEF PlanIsUsable

LEMMA StepPilot ==
  ASSUME Shape, NEW package, NEW q, DecidePilot(package, q)
  PROVE  PilotIsBound'
<1> DEFINE k == [gate |-> "pilot", package |-> package, request |-> q,
                 is |-> [ready |-> Risk(q.action) # "R3" /\ PilotBlockers(package, q) = {},
                         human |-> Risk(q.action) = "R3"]]
<1>1. outside'.answer = k
  BY DEF DecidePilot, Shape
<1>2. k.package = package /\ k.request = q
      /\ k.is.ready = (Risk(q.action) # "R3" /\ PilotBlockers(package, q) = {})
  OBVIOUS
<1> HIDE DEF k
<1>3. ASSUME Risk(q.action) # "R3", PilotBlockers(package, q) = {}
      PROVE  /\ q.action # "MAIN_BASELINE_PRODUCTION_DB"
             /\ q.action \notin {"RESUME", "READ_ONLY_L4_GATE"} => q.head = package.head
             /\ package.authority # Nothing
  <2>1. q.action # "MAIN_BASELINE_PRODUCTION_DB"
    BY <1>3 DEF Risk
  <2>2. package.authority # Nothing
    BY <1>3 DEF PilotBlockers
  <2>3. ASSUME q.action \notin {"RESUME", "READ_ONLY_L4_GATE"} PROVE q.head = package.head
    <3>1. Risk(q.action) # "R0"
      BY <2>3 DEF Risk
    <3> QED BY <1>3, <3>1 DEF PilotBlockers
  <2> QED BY <2>1, <2>2, <2>3
<1> QED BY <1>1, <1>2, <1>3 DEF PilotIsBound

-----------------------------------------------------------------------------
(***************************************************************************)
(* The catalogue.  A schema snapshot gives no hash, so only the catalog    *)
(* itself brings the hash that says the objects are its own.               *)
(***************************************************************************)
ObjectsAreCatalogued ==
  (state.database.catalog # Nothing /\ state.database.hash = state.database.catalog) =>
    state.database.objects = ObjectsOf(state.database.catalog)

LEMMA StepCatalogued ==
  ASSUME Shape, RuntimesTyped, ObjectsAreCatalogued, [Next]_vars
  PROVE  ObjectsAreCatalogued'
<1> DEFINE Good(d) == (d.catalog # Nothing /\ d.hash = d.catalog) => d.objects = ObjectsOf(d.catalog)
<1>1. Good(state.database)
  BY DEF ObjectsAreCatalogued
<1>2. ASSUME NEW d, Save("database", d) PROVE state'.database = d
  BY <1>2 DEF Save, Shape
<1>3. EnsureSeed => Good(state'.database)
  BY <1>2 DEF EnsureSeed, NoDatabase
<1>4. ASSUME NEW c, ReplaceCatalogSnapshot(c) PROVE Good(state'.database)
  BY <1>2, <1>4 DEF ReplaceCatalogSnapshot
<1>5. ASSUME NEW o, ReplaceSchemaSnapshot(o, Nothing) PROVE Good(state'.database)
  <2>1. DOMAIN state.database = {"status", "objects", "catalog", "hash"}
    BY DEF RuntimesTyped
  <2>2. state'.database.hash = Nothing
    BY <1>2, <1>5, <2>1 DEF ReplaceSchemaSnapshot
  <2> QED BY <2>2
<1>6. state'["database"] # state["database"] => DatabaseNext
  BY Owners DEF Shape
<1>7. Good(state'.database)
  BY <1>1, <1>3, <1>4, <1>5, <1>6 DEF DatabaseNext
<1> QED BY <1>7 DEF ObjectsAreCatalogued

LEMMA CataloguedIsFound == ObjectsAreCatalogued => FoundIsCatalogued
<1> DEFINE d == state.database
<1> SUFFICES ASSUME d.objects = ObjectsOf(d.catalog), NEW r \in d.catalog.relations
             PROVE  /\ LookupSchema(r) = "FOUND"
                    /\ \A c \in d.catalog.columns :
                         c.relation = r => \E o \in d.objects : o.name = r /\ c.name \in o.columns
  BY DEF ObjectsAreCatalogued, FoundIsCatalogued
<1> DEFINE o == [name |-> r, columns |-> {c.name : c \in {c \in d.catalog.columns : c.relation = r}}]
<1>1. o \in d.objects
  BY DEF ObjectsOf
<1>2. o.name = r /\ \A c \in d.catalog.columns : c.relation = r => c.name \in o.columns
  OBVIOUS
<1> HIDE DEF o
<1> QED BY <1>1, <1>2 DEF LookupSchema

-----------------------------------------------------------------------------
(***************************************************************************)
(* Readiness.  The levels passed in a row are an interval, so five of them *)
(* are the first five.                                                     *)
(***************************************************************************)
LEMMA IntervalHas ==
  ASSUME NEW n \in Nat
  PROVE  IsFiniteSet(1..n) /\ Cardinality(1..n) = n
<1>1. 1 \in Int /\ n \in Int /\ (1 > n => n = 0) /\ n - 1 + 1 = n
  OBVIOUS
<1>2. IsFiniteSet(1..n) /\ Cardinality(1..n) = IF 1 > n THEN 0 ELSE n - 1 + 1
  BY <1>1, FS_Interval, Zenon
<1> QED BY <1>1, <1>2

LEMMA ContiguousIsReady ==
  ASSUME NEW d, DOMAIN d = 1..6
  PROVE  (\A i \in PreL5 : d[i].passed) <=> Contiguous(d) >= 5
<1> DEFINE S == {i \in DOMAIN d : \A j \in 1..i : d[j].passed}
           four == 1..4
           five == 1..5
           six == 1..6
<1>1. /\ IsFiniteSet(four) /\ Cardinality(four) = 4
      /\ IsFiniteSet(five) /\ Cardinality(five) = 5
      /\ IsFiniteSet(six)
  <2>1. 4 \in Nat /\ 5 \in Nat /\ 6 \in Nat
    OBVIOUS
  <2> QED BY <2>1, IntervalHas
<1>2. S \subseteq six
  OBVIOUS
<1>3. ASSUME \A i \in five : d[i].passed PROVE five \subseteq S
  <2>1. \A i \in five : i \in 1..6 /\ \A j \in 1..i : j \in five
    OBVIOUS
  <2> HIDE DEF five
  <2> QED BY <1>3, <2>1
<1>4. ASSUME NEW i \in five, ~d[i].passed PROVE S \subseteq four
  <2>1. \A j \in 1..6 : j \notin 1..4 => i \in 1..j
    OBVIOUS
  <2> QED BY <1>4, <2>1
<1> HIDE DEF four, five, six, S
<1>5. IsFiniteSet(S) /\ Cardinality(S) \in Nat
  BY <1>1, <1>2, FS_Subset, FS_CardinalityType
<1>6. five \subseteq S => Cardinality(S) >= 5
  BY <1>1, <1>5, FS_Subset
<1>7. S \subseteq four => Cardinality(S) <= 4
  BY <1>1, <1>5, FS_Subset
<1>8. Cardinality(S) <= 4 => ~(Cardinality(S) >= 5)
  BY <1>5
<1>9. (\A i \in five : d[i].passed) <=> Cardinality(S) >= 5
  BY <1>3, <1>4, <1>6, <1>7, <1>8
<1> QED BY <1>9 DEF S, five, PreL5, Contiguous

LEMMA StepReadiness ==
  ASSUME Shape, ReadinessIsContiguous, [Next]_vars
  PROVE  ReadinessIsContiguous'
<1> DEFINE Right(a) == /\ a.ready <=> a.highest >= 5
                       /\ a.ready => \A i \in PreL5 : a.dimensions[i].gaps = {} /\ a.dimensions[i].blockers = {}
           Good == \A k \in DOMAIN state'.assessments : Right(state'.assessments[k])
<1>1. \A k \in DOMAIN state.assessments : Right(state.assessments[k])
  BY DEF ReadinessIsContiguous
<1>2. ASSUME NEW p, NEW d \in Assessments, Assess(p, d) PROVE Good
  <2> DEFINE new == [dimensions |-> d, highest |-> Contiguous(d),
                     ready |-> \A i \in PreL5 : d[i].passed]
  <2>1. state'.assessments = With(state.assessments, p, new)
    BY <1>2, SaveIs DEF Assess, Shape
  <2>2. new.dimensions = d /\ new.highest = Contiguous(d) /\ (new.ready <=> \A i \in PreL5 : d[i].passed)
    OBVIOUS
  <2>3. DOMAIN d = 1..6
    BY AssessmentsAreOfSixLevels
  <2>4. \A i \in PreL5 : ValidDimension(d[i])
    BY <1>2, <2>3 DEF Assess, PreL5
  <2> HIDE DEF new
  <2>5. Right(new)
    BY <2>2, <2>3, <2>4, ContiguousIsReady DEF ValidDimension
  <2> HIDE DEF Right
  <2> QED BY <1>1, <2>1, <2>5 DEF With
<1>3. state'["assessments"] # state["assessments"] => ReadinessNext
  BY Owners DEF Shape
<1>4. ASSUME state'["assessments"] = state["assessments"] PROVE Good
  BY <1>1, <1>4
<1> HIDE DEF Good
<1>5. ASSUME ReadinessNext PROVE Good
  BY <1>2, <1>5 DEF ReadinessNext
<1>6. Good
  BY <1>3, <1>4, <1>5
<1> QED BY <1>6 DEF Good, ReadinessIsContiguous

-----------------------------------------------------------------------------
(***************************************************************************)
(* The inbox.                                                              *)
(***************************************************************************)
KeysArePairs == \A k \in DOMAIN state.inbox : k = <<k[1], k[2]>>

LEMMA StepKeys ==
  ASSUME Shape, KeysArePairs, [Next]_vars
  PROVE  KeysArePairs'
<1> DEFINE Good == \A k \in DOMAIN state'.inbox : k = <<k[1], k[2]>>
<1>1. \A k \in DOMAIN state.inbox : k = <<k[1], k[2]>>
  BY DEF KeysArePairs
<1>2. ASSUME NEW value, Save("inbox", value) PROVE state'.inbox = value
  BY <1>2, SaveIs DEF Shape
<1>3. ASSUME NEW section, section # "inbox", NEW value, Save(section, value) PROVE Good
  BY <1>1, <1>3 DEF Save, Shape
<1>4. SyncRegistry => Good
  <2> SUFFICES ASSUME SyncRegistry PROVE Good
    OBVIOUS
  <2>1. PICK n \in DOMAIN state.events :
          Save("inbox", Ingested(state.inbox, {state.events[i] : i \in 1..n}))
    BY DEF SyncRegistry
  <2> DEFINE all == {state.events[i] : i \in 1..n}
  <2>2. DOMAIN Ingested(state.inbox, all) =
          DOMAIN state.inbox \cup UNION {{event.id} \X Receivers(event) : event \in all}
    BY DEF Ingested
  <2>3. \A k \in UNION {{event.id} \X Receivers(event) : event \in all} : k = <<k[1], k[2]>>
    OBVIOUS
  <2>4. state'.inbox = Ingested(state.inbox, all)
    BY <1>2, <2>1
  <2> HIDE DEF all
  <2> QED BY <1>1, <2>2, <2>3, <2>4
<1>5. ASSUME NEW key, NEW p, NEW expected, NEW new, NEW e, NEW r,
             Transition(key, p, expected, new, e, r) PROVE Good
  <2>1. PICK value : Save("inbox", [state.inbox EXCEPT ![key] = value])
    BY <1>5 DEF Transition
  <2>2. state'.inbox = [state.inbox EXCEPT ![key] = value]
    BY <1>2, <2>1
  <2> QED BY <1>1, <2>2
<1>6. state'["inbox"] # state["inbox"] => ChangesNext
  BY Owners DEF Shape
<1>7. ASSUME state'["inbox"] = state["inbox"] PROVE Good
  BY <1>1, <1>7
<1>8. ASSUME NEW g, ImportGraph(g) PROVE Good
  BY <1>3, <1>8 DEF ImportGraph
<1>9. ASSUME NEW c, NEW g, ImportContracts(c, g) PROVE Good
  BY <1>3, <1>9 DEF ImportContracts
<1>10. ASSUME NEW v, NEW g, NEW c, RegisterAcceptedChange(v, g, c) PROVE Good
  BY <1>3, <1>10 DEF RegisterAcceptedChange
<1>11. ClockTicks => Good
  BY <1>1 DEF ClockTicks
<1>12. ASSUME NEW v, NEW g, NEW c, NEW p, NEW r, RequireProjectClear(v, g, c, p, r) PROVE Good
  BY <1>1, <1>12 DEF RequireProjectClear
<1> HIDE DEF Good
<1>13. ASSUME ChangesNext PROVE Good
  BY <1>4, <1>5, <1>8, <1>9, <1>10, <1>11, <1>12, <1>13 DEF ChangesNext
<1>14. Good
  BY <1>6, <1>7, <1>13
<1> QED BY <1>14 DEF Good, KeysArePairs

LEMMA EngineeringItem ==
  ASSUME NEW p, NEW i
  PROVE  i \in EngineeringItems(p) <=>
           \E t \in EngineeringViews :
             /\ InScopeOf(t, p)
             /\ \/ StageOf(t) # "none" /\ i \in GateItem(t)
                \/ /\ t.status \in {"BLOCKED_DEPENDENCY", "RECONCILIATION_REQUIRED"}
                   /\ i = Item("BLOCKER", t.project, "ENGINEERING", t.id)
<1> DEFINE mine == {t \in EngineeringViews : InScopeOf(t, p)}
           gates == UNION {GateItem(t) : t \in {t \in mine : StageOf(t) # "none"}}
           blocked == {Item("BLOCKER", t.project, "ENGINEERING", t.id) :
                         t \in {t \in mine : t.status \in {"BLOCKED_DEPENDENCY", "RECONCILIATION_REQUIRED"}}}
<1>1. EngineeringItems(p) = gates \cup blocked
  BY Zenon DEF EngineeringItems
<1>2. i \in gates <=> \E t \in mine : StageOf(t) # "none" /\ i \in GateItem(t)
  <2> HIDE DEF mine
  <2> QED OBVIOUS
<1>3. i \in blocked <=> \E t \in mine : /\ t.status \in {"BLOCKED_DEPENDENCY", "RECONCILIATION_REQUIRED"}
                                       /\ i = Item("BLOCKER", t.project, "ENGINEERING", t.id)
  <2> HIDE DEF mine
  <2> QED OBVIOUS
<1> HIDE DEF gates, blocked
<1> QED BY <1>1, <1>2, <1>3

\* At a gate a task is shown just by the item of the gate.
LEMMA GateIsShown ==
  ASSUME NEW t \in EngineeringViews, StageOf(t) # "none"
  PROVE  (\E i \in BuildInbox(t.project) : i.source = "ENGINEERING" /\ i.id = t.id /\ Waits(i))
           <=> GateItem(t) # {}
<1>1. \A k, p, s, d : /\ Item(k, p, s, d).kind = k /\ Item(k, p, s, d).project = p
                      /\ Item(k, p, s, d).source = s /\ Item(k, p, s, d).id = d
  BY DEF Item
<1>2. \A u \in EngineeringViews : \A i \in GateItem(u) :
        i.source = "ENGINEERING" /\ i.id = u.id /\ i.project = u.project /\ i.kind # "CURRENT_DECISION"
  BY <1>1 DEF GateItem
<1>3. t.status \notin {"BLOCKED_DEPENDENCY", "RECONCILIATION_REQUIRED"}
  BY DEF StageOf
<1>4. \A u \in EngineeringViews : u.id = t.id => u = t
  BY TasksHaveProjects DEF UniqueIds
<1>5. ASSUME NEW i \in GateItem(t)
      PROVE  i \in BuildInbox(t.project) /\ i.source = "ENGINEERING" /\ i.id = t.id /\ Waits(i)
  <2>1. t \in {u \in EngineeringViews : InScopeOf(u, t.project)}
    BY DEF InScopeOf
  <2>2. i \in EngineeringItems(t.project)
    BY <1>5, <2>1, EngineeringItem
  <2> QED BY <1>2, <1>5, <2>2 DEF BuildInbox, Waits
<1>6. ASSUME NEW i \in BuildInbox(t.project), i.source = "ENGINEERING", i.id = t.id
      PROVE  i \in GateItem(t)
  <2>1. i \notin OperatorItems(t.project)
    BY <1>1, <1>6 DEF OperatorItems
  <2>2. i \notin DecisionItems(t.project)
    BY <1>1, <1>6 DEF DecisionItems
  <2>3. i \notin {Item("CHANGE_REVIEW", k[2], "CHANGE", k[1]) : k \in ChangesToReview(t.project)}
    BY <1>1, <1>6
  <2>4. i \notin ProjectItems(t.project)
    BY <1>1, <1>6 DEF ProjectItems
  <2>5. i \in EngineeringItems(t.project)
    BY <1>6, <2>1, <2>2, <2>3, <2>4 DEF BuildInbox
  <2>6. PICK u \in EngineeringViews :
          \/ i \in GateItem(u)
          \/ i = Item("BLOCKER", u.project, "ENGINEERING", u.id)
               /\ u.status \in {"BLOCKED_DEPENDENCY", "RECONCILIATION_REQUIRED"}
    BY <2>5, EngineeringItem
  <2>7. u.id = t.id
    BY <1>1, <1>2, <1>6, <2>6
  <2> QED BY <1>3, <1>4, <2>6, <2>7
<1> QED BY <1>5, <1>6

\* The item of the gate is there as long as there is no approval of the head.
LEMMA GateIsApproved ==
  ASSUME NEW t, StageUnique(Records(state.lifecycle))
  PROVE  GateItem(t) = {} <=>
           /\ t.sha # Nothing
           /\ \E r \in Records(state.lifecycle) :
                /\ r.status = "CURRENT" /\ r.disposition = "APPROVED"
                /\ r.project = t.project /\ r.stage = StageOf(t) /\ r.subject = t.sha
<1> DEFINE exact == ExactDecision(t)
           records == Records(state.lifecycle)
<1>1. \A r : r \in exact <=>
        /\ r \in records /\ r.status = "CURRENT"
        /\ r.project = t.project /\ r.stage = StageOf(t) /\ r.subject = t.sha
  BY DEF ExactDecision, StageDecision, StageKey
<1>2. \A r, s \in exact : r = s
  BY <1>1 DEF StageUnique, StageKey
<1>3. GateItem(t) = {} <=> /\ t.sha # Nothing /\ exact # {}
                           /\ \A r \in exact : r.disposition = "APPROVED"
  BY DEF GateItem
<1> HIDE DEF exact, records
<1>4. (exact # {} /\ \A r \in exact : r.disposition = "APPROVED")
        <=> \E r \in exact : r.disposition = "APPROVED"
  BY <1>2
<1> QED BY <1>1, <1>3, <1>4 DEF records

\* The inbox of a project is its part of the common one.
LEMMA InboxOfProject ==
  ASSUME NEW p, p # Everywhere
  PROVE  {i \in BuildInbox(p) : Waits(i)} = {i \in BuildInbox(Everywhere) : Waits(i) /\ i.project = p}
<1> DEFINE Of(S) == {i \in S : i.project = p}
           Changes(q) == {Item("CHANGE_REVIEW", k[2], "CHANGE", k[1]) : k \in ChangesToReview(q)}
<1>1. \A k, q, s, d : Item(k, q, s, d).kind = k /\ Item(k, q, s, d).project = q
  BY DEF Item
<1>2. \A x : (InScopeOf(x, p) <=> x.project = p) /\ InScopeOf(x, Everywhere)
  BY DEF InScopeOf
<1>3. OperatorItems(p) = Of(OperatorItems(Everywhere))
  <2>1. ASSUME NEW i PROVE i \in OperatorItems(p) <=> i \in Of(OperatorItems(Everywhere))
    BY <1>1, <1>2 DEF OperatorItems
  <2> QED BY <2>1
<1>4. EngineeringItems(p) = Of(EngineeringItems(Everywhere))
  <2>1. \A t : \A i \in GateItem(t) : i.project = t.project
    BY <1>1 DEF GateItem
  <2>2. ASSUME NEW i PROVE i \in EngineeringItems(p) <=> i \in Of(EngineeringItems(Everywhere))
    BY <1>1, <1>2, <2>1, EngineeringItem
  <2> QED BY <2>2
<1>5. \A q : \A i \in DecisionItems(q) : ~Waits(i)
  BY <1>1 DEF DecisionItems, Waits
<1>6. Changes(p) = Of(Changes(Everywhere))
  <2>1. ChangesToReview(p) = {k \in ChangesToReview(Everywhere) : k[2] = p}
    BY DEF ChangesToReview
  <2>2. ASSUME NEW i PROVE i \in Changes(p) <=> i \in Of(Changes(Everywhere))
    BY <1>1, <2>1
  <2> QED BY <2>2
<1>7. ProjectItems(p) = Of(ProjectItems(Everywhere))
  <2>1. ASSUME NEW i PROVE i \in ProjectItems(p) <=> i \in Of(ProjectItems(Everywhere))
    BY <1>1, <1>2 DEF ProjectItems
  <2> QED BY <2>1
<1>8. \A q : BuildInbox(q) = OperatorItems(q) \cup EngineeringItems(q) \cup DecisionItems(q)
                               \cup Changes(q) \cup ProjectItems(q)
  BY DEF BuildInbox
<1> HIDE DEF Changes
<1> QED BY <1>3, <1>4, <1>5, <1>6, <1>7, <1>8

LEMMA InboxIsRight ==
  ASSUME SnapshotsAreValid, KeysArePairs
  PROVE  NothingWaitsUnseen
<1>1. StageUnique(Records(state.lifecycle))
  <2>1. CASE state.lifecycle = <<>>
    BY <2>1 DEF Records, StageUnique
  <2>2. CASE state.lifecycle # <<>>
    <3>1. Last(state.lifecycle) \in ToSet(state.lifecycle)
      BY <2>2, LastIs DEF SnapshotsAreValid, ToSet
    <3> QED BY <2>2, <3>1 DEF SnapshotsAreValid, ValidLifecycleRegistry, Records
  <2> QED BY <2>1, <2>2
<1>2. ASSUME NEW t \in EngineeringViews, StageOf(t) # "none"
      PROVE  (\E i \in BuildInbox(t.project) : i.source = "ENGINEERING" /\ i.id = t.id /\ Waits(i))
               <=> ~ (/\ t.sha # Nothing
                      /\ \E r \in Records(state.lifecycle) :
                           /\ r.status = "CURRENT" /\ r.disposition = "APPROVED"
                           /\ r.project = t.project /\ r.stage = StageOf(t) /\ r.subject = t.sha)
  BY <1>1, <1>2, GateIsShown, GateIsApproved
<1>3. \A k, p, s, d : /\ Item(k, p, s, d).kind = k /\ Item(k, p, s, d).project = p
                      /\ Item(k, p, s, d).source = s /\ Item(k, p, s, d).id = d
  BY DEF Item
<1>5. ASSUME NEW k \in DOMAIN state.inbox, k \in UnresolvedForProject(k[2])
      PROVE  Item("CHANGE_REVIEW", k[2], "CHANGE", k[1]) \in BuildInbox(Everywhere) \cap BuildInbox(k[2])
  <2>1. k \in ChangesToReview(Everywhere) /\ k \in ChangesToReview(k[2])
    BY <1>5 DEF UnresolvedForProject, ChangesToReview
  <2> QED BY <2>1 DEF BuildInbox
<1>6. ASSUME NEW k \in DOMAIN state.inbox, k \notin UnresolvedForProject(k[2])
      PROVE  Item("CHANGE_REVIEW", k[2], "CHANGE", k[1]) \notin BuildInbox(Everywhere)
  <2> DEFINE item == Item("CHANGE_REVIEW", k[2], "CHANGE", k[1])
  <2>1. item.source = "CHANGE" /\ item.project = k[2] /\ item.id = k[1]
    BY <1>3
  <2> HIDE DEF item
  <2>2. item \notin OperatorItems(Everywhere)
    BY <1>3, <2>1 DEF OperatorItems
  <2>3. item \notin DecisionItems(Everywhere)
    BY <1>3, <2>1 DEF DecisionItems
  <2>4. item \notin ProjectItems(Everywhere)
    BY <1>3, <2>1 DEF ProjectItems
  <2>5. item \notin EngineeringItems(Everywhere)
    <3>1. \A t : \A i \in GateItem(t) : i.source = "ENGINEERING"
      BY <1>3 DEF GateItem
    <3> QED BY <1>3, <2>1, <3>1, EngineeringItem
  <2>6. ASSUME NEW h \in ChangesToReview(Everywhere), item = Item("CHANGE_REVIEW", h[2], "CHANGE", h[1])
        PROVE  FALSE
    <3>1. h[1] = k[1] /\ h[2] = k[2]
      BY <1>3, <2>1, <2>6
    <3>2. h \in DOMAIN state.inbox /\ state.inbox[h].status # "RESOLVED"
      BY <2>6 DEF ChangesToReview
    <3>3. h = k
      BY <3>1, <3>2 DEF KeysArePairs
    <3> QED BY <1>6, <3>2, <3>3 DEF UnresolvedForProject
  <2> QED BY <2>2, <2>3, <2>4, <2>5, <2>6 DEF BuildInbox, item
<1>4. \A p \in {t.project : t \in EngineeringViews} :
        {i \in BuildInbox(p) : Waits(i)} = {i \in BuildInbox(Everywhere) : Waits(i) /\ i.project = p}
  BY InboxOfProject, TasksHaveProjects DEF Everywhere
<1> QED BY <1>2, <1>4, <1>5, <1>6 DEF NothingWaitsUnseen

-----------------------------------------------------------------------------
(***************************************************************************)
(* The worklist.  What it finds in n turns is what a walk of at most n     *)
(* edges leads to from a seed: so the function it is defined by exists,    *)
(* and what is not found is at the end of no path.                         *)
(***************************************************************************)
Onward(g, S) == S \cup {e.consumer : e \in UNION {Outgoing(g, p) : p \in S}}

FoundBy(g, seeds, f) ==
  f = [n \in 0..Cardinality(g.projects) |-> IF n = 0 THEN seeds ELSE Onward(g, f[n - 1])]

Discovered(g, seeds) == CHOOSE f : FoundBy(g, seeds, f)

Ends(g, seeds) == seeds \cup {e.consumer : e \in g.edges}

Walks(g, seeds, m) ==
  {w \in [0..m -> Ends(g, seeds)] :
     /\ w[0] \in seeds
     /\ \A i \in 1..m : \E e \in g.edges : e.producer = w[i - 1] /\ e.consumer = w[i]}

Walked(g, seeds, n) == {p \in Ends(g, seeds) : \E m \in 0..n : \E w \in Walks(g, seeds, m) : w[m] = p}

LEMMA OnwardHas ==
  ASSUME NEW g, NEW S, NEW p
  PROVE  p \in Onward(g, S) <=> p \in S \/ \E e \in g.edges : e.producer \in S /\ e.consumer = p
  BY DEF Onward, Outgoing

LEMMA WalkedAtFirst ==
  ASSUME NEW g, NEW seeds
  PROVE  Walked(g, seeds, 0) = seeds
<1>1. ASSUME NEW p \in seeds PROVE p \in Walked(g, seeds, 0)
  <2> DEFINE w == [i \in 0..0 |-> p]
  <2>1. p \in Ends(g, seeds)
    BY DEF Ends
  <2>2. w \in [0..0 -> Ends(g, seeds)] /\ w[0] = p
    BY <2>1
  <2>3. \A i \in 1..0 : FALSE
    OBVIOUS
  <2> HIDE DEF w
  <2>4. w \in Walks(g, seeds, 0)
    BY <2>2, <2>3 DEF Walks
  <2>5. 0 \in 0..0
    OBVIOUS
  <2> QED BY <2>1, <2>2, <2>4, <2>5 DEF Walked
<1>2. ASSUME NEW p \in Walked(g, seeds, 0) PROVE p \in seeds
  <2>1. \A m \in 0..0 : m = 0
    OBVIOUS
  <2> QED BY <1>2, <2>1 DEF Walked, Walks
<1> QED BY <1>1, <1>2

LEMMA WalkedOnward ==
  ASSUME NEW g, NEW seeds, NEW n \in Nat, n # 0
  PROVE  Walked(g, seeds, n) = Onward(g, Walked(g, seeds, n - 1))
<1> DEFINE before == Walked(g, seeds, n - 1)
<1>1. ASSUME NEW p \in before PROVE p \in Walked(g, seeds, n)
  <2>1. \A m \in 0..(n - 1) : m \in 0..n
    OBVIOUS
  <2> QED BY <2>1 DEF Walked
<1>2. ASSUME NEW e \in g.edges, e.producer \in before PROVE e.consumer \in Walked(g, seeds, n)
  <2>1. PICK m \in 0..(n - 1) : \E w \in Walks(g, seeds, m) : w[m] = e.producer
    BY <1>2 DEF Walked
  <2>2. PICK w \in Walks(g, seeds, m) : w[m] = e.producer
    BY <2>1
  <2> DEFINE v == [i \in 0..(m + 1) |-> IF i \in 0..m THEN w[i] ELSE e.consumer]
  <2>3. m \in Nat /\ m + 1 \in 0..n /\ m + 1 \in 0..(m + 1) /\ m + 1 \notin 0..m
        /\ \A i \in 0..m : i \in 0..(m + 1)
    OBVIOUS
  <2>4. e.consumer \in Ends(g, seeds)
    BY DEF Ends
  <2>5. w \in [0..m -> Ends(g, seeds)] /\ w[0] \in seeds
        /\ \A i \in 1..m : \E f \in g.edges : f.producer = w[i - 1] /\ f.consumer = w[i]
    BY DEF Walks
  <2>6. /\ v \in [0..(m + 1) -> Ends(g, seeds)] /\ v[m + 1] = e.consumer
        /\ \A i \in 0..m : v[i] = w[i]
    <3>1. \A i \in 0..m : w[i] \in Ends(g, seeds)
      BY <2>5
    <3> QED BY <2>3, <2>4, <3>1
  <2> HIDE DEF v
  <2>7. \A i \in 1..(m + 1) : \E f \in g.edges : f.producer = v[i - 1] /\ f.consumer = v[i]
    <3>1. ASSUME NEW i \in 1..(m + 1) PROVE (i \in 1..m /\ i \in 0..m /\ i - 1 \in 0..m) \/ i = m + 1
      BY <2>3
    <3>2. m + 1 - 1 = m /\ m \in 0..m
      BY <2>3
    <3>3. ASSUME NEW i \in 1..(m + 1), i = m + 1
          PROVE  v[i - 1] = e.producer /\ v[i] = e.consumer
      BY <2>2, <2>6, <3>2, <3>3
    <3>4. ASSUME NEW i \in 1..m, i \in 0..m, i - 1 \in 0..m
          PROVE  v[i - 1] = w[i - 1] /\ v[i] = w[i]
      BY <2>6, <3>4
    <3> QED BY <2>5, <3>1, <3>3, <3>4
  <2>8. 0 \in 0..m
    BY <2>3
  <2>9. v \in Walks(g, seeds, m + 1)
    BY <2>5, <2>6, <2>7, <2>8 DEF Walks
  <2> QED BY <2>3, <2>4, <2>6, <2>9 DEF Walked
<1>3. ASSUME NEW p \in Walked(g, seeds, n), p \notin before
      PROVE  \E e \in g.edges : e.producer \in before /\ e.consumer = p
  <2>1. PICK m \in 0..n : \E w \in Walks(g, seeds, m) : w[m] = p
    BY DEF Walked
  <2>2. m = n
    <3>1. m \in 0..(n - 1) \/ m = n
      BY n # 0
    <3> QED BY <1>3, <2>1, <3>1 DEF Walked
  <2>3. PICK w \in Walks(g, seeds, n) : w[n] = p
    BY <2>1, <2>2
  <2>4. w \in [0..n -> Ends(g, seeds)] /\ w[0] \in seeds
        /\ \A i \in 1..n : \E f \in g.edges : f.producer = w[i - 1] /\ f.consumer = w[i]
    BY DEF Walks
  <2>5. n \in 1..n /\ n - 1 \in 0..n /\ n - 1 \in 0..(n - 1) /\ 0 \in 0..(n - 1)
        /\ \A i \in 0..(n - 1) : i \in 0..n
        /\ \A k \in 1..(n - 1) : k \in 1..n /\ k \in 0..(n - 1) /\ k - 1 \in 0..(n - 1)
    BY n # 0
  <2>6. PICK e \in g.edges : e.producer = w[n - 1] /\ e.consumer = p
    BY <2>3, <2>4, <2>5
  <2> DEFINE v == [i \in 0..(n - 1) |-> w[i]]
  <2>7. v \in [0..(n - 1) -> Ends(g, seeds)] /\ \A i \in 0..(n - 1) : v[i] = w[i]
    BY <2>4, <2>5
  <2> HIDE DEF v
  <2>8. v \in Walks(g, seeds, n - 1)
    BY <2>4, <2>5, <2>7 DEF Walks
  <2>9. v[n - 1] = w[n - 1] /\ w[n - 1] \in Ends(g, seeds)
    BY <2>4, <2>5, <2>7
  <2>10. e.producer \in before
    BY <2>5, <2>6, <2>8, <2>9 DEF Walked
  <2> QED BY <2>6, <2>10
<1> HIDE DEF before
<1>4. \A p : p \in Walked(g, seeds, n) <=> p \in Onward(g, before)
  BY <1>1, <1>2, <1>3, OnwardHas
<1> QED BY <1>4 DEF before

LEMMA FoundIsWalked ==
  ASSUME NEW g, NEW seeds, Cardinality(g.projects) \in Nat
  PROVE  FoundBy(g, seeds, Discovered(g, seeds))
<1> DEFINE N == Cardinality(g.projects)
           f == [n \in 0..N |-> Walked(g, seeds, n)]
<1>1. \A n \in 0..N : n \in Nat /\ (n # 0 => n - 1 \in 0..N)
  OBVIOUS
<1>2. \A n \in 0..N : f[n] = IF n = 0 THEN seeds ELSE Onward(g, f[n - 1])
  BY <1>1, WalkedAtFirst, WalkedOnward
<1>3. f = [n \in 0..N |-> f[n]]
  OBVIOUS
<1> HIDE DEF f
<1>4. FoundBy(g, seeds, f)
  BY <1>2, <1>3 DEF FoundBy
<1> QED BY <1>4 DEF Discovered

LEMMA PathIsFound ==
  ASSUME NEW g, IsFiniteSet(g.projects), NEW seeds, NEW p \in seeds, NEW q, Path(g, p, q)
  PROVE  q \in seeds \cup DownstreamProjects(g, seeds)
<1> DEFINE N == Cardinality(g.projects)
           f == Discovered(g, seeds)
<1>1. N \in Nat
  BY FS_CardinalityType
<1>2. DownstreamProjects(g, seeds) = f[N] \ seeds
  BY DEF DownstreamProjects, Discovered, FoundBy, Onward
<1>3. FoundBy(g, seeds, f)
  BY <1>1, FoundIsWalked
<1> HIDE DEF f
<1>4. f[0] = seeds /\ \A n \in 1..N : f[n] = Onward(g, f[n - 1])
  <2>1. 0 \in 0..N /\ \A n \in 1..N : n \in 0..N /\ n # 0
    BY <1>1
  <2> QED BY <1>3, <2>1 DEF FoundBy
<1> HIDE DEF N
<1>5. PICK n \in 1..N : \E w \in [0..n -> g.projects] :
        /\ w[0] = p /\ w[n] = q
        /\ \A i \in 1..n : \E e \in g.edges : e.producer = w[i - 1] /\ e.consumer = w[i]
  BY DEF Path, N
<1>6. PICK w \in [0..n -> g.projects] :
        /\ w[0] = p /\ w[n] = q
        /\ \A i \in 1..n : \E e \in g.edges : e.producer = w[i - 1] /\ e.consumer = w[i]
  BY <1>5
<1>7. \A i \in 1..n : w[i - 1] \in f[i - 1] => w[i] \in f[i]
  <2>1. \A i \in 1..n : i \in 1..N
    BY <1>1, <1>6
  <2> QED BY <1>4, <1>6, <2>1, OnwardHas
<1>8. \A i \in 0..n : w[i] \in f[i]
  <2> DEFINE Bad == {i \in 0..n : w[i] \notin f[i]}
  <2> SUFFICES ASSUME Bad # {} PROVE FALSE
    OBVIOUS
  <2>1. Bad \subseteq Nat
    OBVIOUS
  <2>2. PICK i \in Bad : \A j \in Bad : i <= j
    BY <2>1, NatMin
  <2>3. i # 0
    BY <1>4, <1>6
  <2>4. i \in 1..n /\ i - 1 \in 0..n /\ ~(i <= i - 1)
    BY <2>3
  <2> QED BY <1>7, <2>2, <2>4
<1>9. \A i \in 1..N : f[i - 1] \subseteq f[i]
  BY <1>4, OnwardHas
<1>10. f[n] \subseteq f[N]
  <2> DEFINE Bad == {i \in 0..N : i >= n /\ ~(f[n] \subseteq f[i])}
  <2> SUFFICES ASSUME Bad # {} PROVE FALSE
    BY <1>1
  <2>1. Bad \subseteq Nat
    BY <1>1
  <2>2. PICK i \in Bad : \A j \in Bad : i <= j
    BY <2>1, NatMin
  <2>3. i # n /\ i \in Nat /\ n \in Nat /\ i >= n /\ i <= N
    BY <1>1, <2>2
  <2>4. i \in 1..N /\ i - 1 \in 0..N /\ i - 1 >= n /\ ~(i <= i - 1)
    BY <1>1, <1>6, <2>3
  <2> QED BY <1>9, <2>2, <2>4
<1>11. n \in 0..n
  BY <1>6
<1> QED BY <1>2, <1>6, <1>8, <1>10, <1>11 DEF N

LEMMA ClearedIsReasoned ==
  ASSUME Shape, NEW event, NEW g \in GraphPool, NEW c, NEW project, NEW receipt,
         RequireProjectClear(event, g, c, project, receipt)
  PROVE  ClearedForGoodReason'
<1> DEFINE status == ItemStatus(state.inbox, event, project)
           impact == ImpactOn(event, state.inbox, project)
           k == [event |-> event, project |-> project, receipt |-> receipt,
                 impact |-> impact, status |-> status]
<1>1. /\ outside'.cleared = k /\ event.graph = g /\ impact # "BLOCKING"
      /\ impact = "REVALIDATION" => ReceiptMatches(receipt, event, project)
  BY DEF RequireProjectClear, Shape
<1>2. k.event = event /\ k.project = project /\ k.receipt = receipt /\ k.impact = impact /\ k.status = status
  OBVIOUS
<1>3. project \in Receivers(event) =>
        impact = IF ByInbox(status) # "none" THEN ByInbox(status) ELSE ByType(event)
  BY DEF Receivers, ImpactOn, ClassifyDirect
<1>4. impact = "NO_IMPACT" =>
        project \notin event.affected /\ project \notin DownstreamProjects(event.graph, event.affected)
  <2>1. ByInbox(status) # "NO_IMPACT" /\ ByType(event) # "NO_IMPACT"
    BY DEF ByInbox, ByType
  <2> QED BY <2>1 DEF ImpactOn, ClassifyDirect
<1> HIDE DEF k, impact, status
<1>5. ASSUME project \in Receivers(event), event.type \in {"RETIRED", "BOUNDARY"}
      PROVE  status \in {"RESOLVED", "DEFERRED", "REVALIDATION"}
  <2>1. ByType(event) = "BLOCKING"
    BY <1>5 DEF ByType
  <2> QED BY <1>1, <1>3, <1>5, <2>1 DEF ByInbox
<1>6. ASSUME project \in Receivers(event), status \notin {"RESOLVED", "DEFERRED"},
             status = "REVALIDATION" \/ event.type \in {"DEPENDENCY", "RUNTIME"}
      PROVE  ReceiptMatches(receipt, event, project)
  <2>1. CASE status = "REVALIDATION"
    <3>1. ByInbox(status) = "REVALIDATION"
      BY <2>1 DEF ByInbox
    <3> QED BY <1>1, <1>3, <1>6, <3>1
  <2>2. CASE status # "REVALIDATION"
    <3>1. ByInbox(status) = "none"
      BY <1>6, <2>2 DEF ByInbox
    <3>2. ByType(event) = "REVALIDATION"
      BY <1>6, <2>2 DEF ByType
    <3> QED BY <1>1, <1>3, <1>6, <3>1, <3>2
  <2> QED BY <2>1, <2>2
<1>7. ASSUME impact = "NO_IMPACT", NEW p \in event.affected
      PROVE  p # project /\ ~Path(event.graph, p, project)
  BY <1>1, <1>4, <1>7, PathIsFound, GraphsAreFinite
<1> QED BY <1>1, <1>2, <1>5, <1>6, <1>7 DEF ClearedForGoodReason

LEMMA StepCleared ==
  ASSUME Shape, ClearedForGoodReason, [Next]_vars
  PROVE  ClearedForGoodReason'
<1> DEFINE Goal == ClearedForGoodReason'
<1>1. ASSUME outside'.cleared = outside.cleared PROVE Goal
  BY <1>1 DEF ClearedForGoodReason
<1>2. ASSUME NEW section, NEW value, Save(section, value) PROVE Goal
  BY <1>1, <1>2 DEF Save
<1>3. ClockTicks => Goal
  BY <1>1 DEF ClockTicks, Shape
<1>4. ASSUME NEW event, NEW g \in GraphPool, NEW c, NEW project, NEW receipt,
             RequireProjectClear(event, g, c, project, receipt) PROVE Goal
  BY <1>4, ClearedIsReasoned
<1>5. outside'["cleared"] # outside["cleared"] => ChangesNext
  BY OwnersOfOutside DEF Shape
<1> HIDE DEF Goal
<1>6. ASSUME ChangesNext PROVE Goal
  BY <1>2, <1>3, <1>4, <1>6
  DEF ChangesNext, ImportGraph, ImportContracts, RegisterAcceptedChange, SyncRegistry, Transition
<1> QED BY <1>1, <1>5, <1>6 DEF Goal

-----------------------------------------------------------------------------
(***************************************************************************)
(* Instructions.  Outranking is a strict order, and a total one of the     *)
(* records of one caller; so among the finitely many of a key one is       *)
(* outranked by none, and it is the one that governs.                      *)
(***************************************************************************)
Longs(r, n) == r.precedence \in Seq(Nat) /\ Len(r.precedence) = n

LEMMA LongsAre ==
  ASSUME NEW n, NEW r, Longs(r, n)
  PROVE  n \in Nat /\ DOMAIN r.precedence = 1..n /\ \A i \in 1..n : r.precedence[i] \in Nat
  BY DEF Longs

LEMMA OutranksNotBoth ==
  ASSUME NEW n, NEW r, Longs(r, n)
  PROVE  ~Outranks(r, r)
<1>1. \A i \in DOMAIN r.precedence : ~(r.precedence[i] > r.precedence[i])
  BY LongsAre
<1> QED BY <1>1 DEF Outranks

LEMMA OutranksOnward ==
  ASSUME NEW n, NEW r, NEW s, NEW t, Longs(r, n), Longs(s, n), Longs(t, n),
         Outranks(r, s), Outranks(s, t)
  PROVE  Outranks(r, t)
<1> DEFINE a == r.precedence
           b == s.precedence
           c == t.precedence
<1>1. /\ n \in Nat /\ DOMAIN a = 1..n /\ DOMAIN b = 1..n
      /\ \A i \in 1..n : a[i] \in Nat /\ b[i] \in Nat /\ c[i] \in Nat
  BY LongsAre
<1>2. PICK i \in DOMAIN a : a[i] > b[i] /\ \A k \in 1..(i - 1) : a[k] = b[k]
  BY DEF Outranks
<1>3. PICK j \in DOMAIN b : b[j] > c[j] /\ \A k \in 1..(j - 1) : b[k] = c[k]
  BY DEF Outranks
<1> SUFFICES \E m \in DOMAIN a : a[m] > c[m] /\ \A k \in 1..(m - 1) : a[k] = c[k]
  BY DEF Outranks
<1> HIDE DEF a, b, c
<1>4. i \in 1..n /\ j \in 1..n
  BY <1>1, <1>2, <1>3
<1>5. CASE i < j
  <2>1. i \in 1..(j - 1) /\ \A k \in 1..(i - 1) : k \in 1..(j - 1)
    BY <1>1, <1>4, <1>5
  <2> QED BY <1>1, <1>2, <1>3, <1>4, <2>1
<1>6. CASE j < i
  <2>1. j \in 1..(i - 1) /\ \A k \in 1..(j - 1) : k \in 1..(i - 1)
    BY <1>1, <1>4, <1>6
  <2> QED BY <1>1, <1>2, <1>3, <1>4, <2>1
<1>7. CASE i = j
  <2>1. a[i] > c[i]
    BY <1>1, <1>2, <1>3, <1>4, <1>7
  <2> QED BY <1>2, <1>3, <1>7, <2>1
<1>8. i \in Nat /\ j \in Nat /\ (i < j \/ j < i \/ i = j)
  BY <1>4
<1> QED BY <1>5, <1>6, <1>7, <1>8

LEMMA OutranksOrSame ==
  ASSUME NEW n, NEW r, NEW s, Longs(r, n), Longs(s, n), r.precedence # s.precedence
  PROVE  Outranks(r, s) \/ Outranks(s, r)
<1> DEFINE a == r.precedence
           b == s.precedence
           Differ == {i \in 1..n : a[i] # b[i]}
<1>1. /\ n \in Nat /\ DOMAIN a = 1..n /\ DOMAIN b = 1..n
      /\ \A i \in 1..n : a[i] \in Nat /\ b[i] \in Nat
  BY LongsAre
<1>2. Differ # {}
  <2>1. a \in Seq(Nat) /\ b \in Seq(Nat) /\ Len(a) = Len(b) /\ Len(a) = n
    BY DEF Longs
  <2>2. a = [i \in 1..n |-> a[i]] /\ b = [i \in 1..n |-> b[i]]
    BY <1>1, <2>1
  <2> HIDE DEF a, b
  <2> SUFFICES ASSUME \A i \in 1..n : a[i] = b[i] PROVE a = b
    BY DEF a, b
  <2>3. [i \in 1..n |-> a[i]] = [i \in 1..n |-> b[i]]
    OBVIOUS
  <2> QED BY <2>2, <2>3
<1>3. PICK i \in Differ : \A j \in Differ : i <= j
  <2>1. Differ \subseteq Nat
    OBVIOUS
  <2> QED BY <1>2, <2>1, NatMin
<1>4. \A k \in 1..(i - 1) : a[k] = b[k] /\ b[k] = a[k]
  <2>1. i \in Nat /\ \A k \in 1..(i - 1) : k \in 1..n /\ ~(i <= k)
    BY <1>1
  <2> QED BY <1>3, <2>1
<1>5. i \in 1..n /\ (a[i] > b[i] \/ b[i] > a[i])
  <2>1. i \in 1..n /\ a[i] # b[i]
    BY <1>3
  <2> HIDE DEF a, b
  <2>2. a[i] \in Nat /\ b[i] \in Nat
    BY <1>1, <2>1
  <2> QED BY <2>1, <2>2
<1>6. i \in DOMAIN a /\ i \in DOMAIN b
  BY <1>1, <1>5
<1> QED BY <1>4, <1>5, <1>6 DEF Outranks

LEMMA UnoutrankedIs ==
  ASSUME NEW n, NEW S, IsFiniteSet(S), S # {}, \A r \in S : Longs(r, n)
  PROVE  \E s \in S : \A r \in S : ~Outranks(r, s)
<1> DEFINE Above(s) == {r \in S : Outranks(r, s)}
           Sizes == {Cardinality(Above(s)) : s \in S}
<1>1. \A s \in S : IsFiniteSet(Above(s)) /\ Cardinality(Above(s)) \in Nat
  BY FS_Subset, FS_CardinalityType
<1>2. PICK m \in Sizes : \A l \in Sizes : m <= l
  <2>1. Sizes \subseteq Nat /\ Sizes # {}
    BY <1>1
  <2> HIDE DEF Sizes
  <2> QED BY <2>1, NatMin
<1>3. PICK s \in S : m = Cardinality(Above(s))
  BY <1>2
<1>4. ASSUME NEW r \in S, Outranks(r, s) PROVE FALSE
  <2>1. Above(r) \subseteq Above(s)
    BY <1>4, OutranksOnward
  <2>2. r \in Above(s) /\ r \notin Above(r)
    BY <1>4, OutranksNotBoth
  <2>3. Cardinality(Above(s)) <= Cardinality(Above(r))
    BY <1>2, <1>3
  <2>4. IsFiniteSet(Above(s)) /\ Cardinality(Above(s)) \in Nat /\ Cardinality(Above(r)) \in Nat
    BY <1>1
  <2> HIDE DEF Above
  <2>5. Cardinality(Above(r)) <= Cardinality(Above(s))
        /\ (Cardinality(Above(s)) = Cardinality(Above(r)) => Above(s) = Above(r))
    BY <2>1, <2>4, FS_Subset
  <2> QED BY <2>2, <2>3, <2>4, <2>5
<1> QED BY <1>4

\* What stands of the decisions is one: the decision that a record names and is bound by
\* is all that is in force for its key.
LEMMA BindingIsOne ==
  ASSUME NEW decisions, ValidDecisionRegistry(decisions), NEW project, NEW r,
         ~Undecided(r, decisions), ~Unbound(r, project, decisions), decisions # Nothing
  PROVE  \E d \in decisions :
           /\ {e \in CurrentForProject(decisions, project) : e.key = r.key} = {d}
           /\ d \in Named(decisions, r.decision) /\ d.id = r.decision
           /\ r.id \in d.instructions /\ d.directive = r.directive
<1>1. PICK d \in Named(decisions, r.decision) : d.status = "CURRENT"
  BY DEF Undecided
<1>2. d \in decisions /\ d.id = r.decision /\ Binds(d, project, r)
  BY <1>1 DEF Unbound, Named
<1>3. d \in CurrentForProject(decisions, project) /\ d.key = r.key
      /\ r.id \in d.instructions /\ d.directive = r.directive
  BY <1>2 DEF Binds, CurrentForProject
<1>4. ASSUME NEW e \in CurrentForProject(decisions, project), e.key = r.key PROVE e = d
  <2>1. Overlap(d, e)
    BY <1>3, <1>4 DEF CurrentForProject, Overlap
  <2>2. CurrentUnique(decisions)
    BY DEF ValidDecisionRegistry
  <2> QED BY <1>3, <1>4, <2>1, <2>2 DEF CurrentUnique, CurrentForProject
<1> QED BY <1>1, <1>2, <1>3, <1>4

Governs(records, project, decisions, is) ==
  LET active == {r \in records : r.status = "ACTIVE" /\ project \in r.projects}
      ofDecision(r) == {d \in CurrentForProject(decisions, project) : d.key = r.key}
      over(r) == decisions # Nothing /\ ofDecision(r) \cap Named(decisions, r.decision) = {}
  IN /\ \A r, s \in is : r.key = s.key => r = s
     /\ \A r \in is :
          /\ r \in active /\ r.sovereign
          /\ decisions # Nothing =>
               \E d \in decisions : /\ ofDecision(r) = {d} /\ d.id = r.decision
                                    /\ r.id \in d.instructions /\ d.directive = r.directive
          /\ \A s \in is : r.id \notin s.supersedes
     /\ \A r \in active \ is :
          \/ \E s \in active : r.id \in s.supersedes /\ ~over(s)
          \/ over(r)
          \/ \E s \in is : s.key = r.key /\ s.directive = r.directive /\ ~Outranks(r, s)

LEMMA ResolvedGoverns ==
  ASSUME NEW records \in SUBSET InstructionPool, NEW project,
         NEW decisions, decisions # Nothing => ValidDecisionRegistry(decisions),
         Resolve(records, project, decisions) # Refused
  PROVE  Governs(records, project, decisions, Resolve(records, project, decisions))
<1> DEFINE is == Resolve(records, project, decisions)
           active == {r \in records : r.status = "ACTIVE" /\ project \in r.projects}
           ofDecision(r) == {d \in CurrentForProject(decisions, project) : d.key = r.key}
           over(r) == decisions # Nothing /\ ofDecision(r) \cap Named(decisions, r.decision) = {}
           eligible == Eligible(records, project, decisions)
           remaining == Remaining(eligible)
<1>1. /\ UniqueIds(records)
      /\ \A r \in active : ~Unbound(r, project, decisions)
      /\ \A r, s \in remaining : r.key = s.key => r.directive = s.directive
      /\ is = {r \in remaining : ~\E s \in remaining : s.key = r.key /\ Outranks(s, r)}
  BY DEF Resolve, Considered
<1>2. eligible = {r \in active : ~Undecided(r, decisions)}
  BY DEF Eligible, Considered
<1>3. remaining = {r \in eligible : \A s \in eligible : r.id \notin s.supersedes}
  BY DEF Remaining
<1>4. active \subseteq InstructionPool /\ active \subseteq records
  OBVIOUS
<1> DEFINE Bound(r) == \E d \in decisions :
             /\ ofDecision(r) = {d} /\ d \in Named(decisions, r.decision) /\ d.id = r.decision
             /\ r.id \in d.instructions /\ d.directive = r.directive
<1>5. ASSUME NEW r \in eligible, decisions # Nothing PROVE Bound(r)
  BY <1>1, <1>2, <1>5, BindingIsOne
<1>6. ASSUME NEW r \in active, r \notin eligible PROVE over(r)
  <2>1. Undecided(r, decisions)
    BY <1>2, <1>6
  <2> QED BY <2>1 DEF Undecided, CurrentForProject
<1>7. ASSUME NEW r \in eligible PROVE ~over(r)
  <2>1. CASE decisions = Nothing
    BY <2>1
  <2>2. CASE decisions # Nothing
    BY <1>5, <2>2
  <2> QED BY <2>1, <2>2
<1>8. \A r \in active : r.sovereign
  BY <1>1 DEF Unbound
<1> HIDE DEF is, active, ofDecision, over, eligible, remaining
<1>9. is \subseteq remaining /\ remaining \subseteq eligible /\ eligible \subseteq active
  BY <1>1, <1>2, <1>3
<1>10. \A r, s \in active : Len(r.precedence) = Len(s.precedence)
                            /\ (r.precedence = s.precedence => r.id = s.id)
  BY <1>4, InstructionsAreRanked
<1>11. \A r, s \in active : Longs(s, Len(r.precedence))
  BY <1>4, <1>10, InstructionsAreRanked DEF Longs
<1>12. ASSUME NEW r \in is, NEW s \in is, r.key = s.key PROVE r = s
  <2>1. ~Outranks(r, s) /\ ~Outranks(s, r) /\ r \in active /\ s \in active
    BY <1>1, <1>9, <1>12
  <2>2. r.precedence = s.precedence
    BY <1>11, <2>1, OutranksOrSame
  <2>3. r.id = s.id /\ r \in records /\ s \in records
    BY <1>4, <1>10, <2>1, <2>2
  <2> QED BY <1>1, <2>3 DEF UniqueIds
<1>13. ASSUME NEW r \in is
       PROVE  /\ r \in active /\ r.sovereign
              /\ decisions # Nothing =>
                   \E d \in decisions : /\ ofDecision(r) = {d} /\ d.id = r.decision
                                        /\ r.id \in d.instructions /\ d.directive = r.directive
              /\ \A s \in is : r.id \notin s.supersedes
  BY <1>3, <1>5, <1>8, <1>9
<1>14. ASSUME NEW r \in remaining, r \notin is
       PROVE  \E s \in is : s.key = r.key /\ s.directive = r.directive /\ ~Outranks(r, s)
  <2> DEFINE same == {s \in remaining : s.key = r.key}
  <2>1. IsFiniteSet(same) /\ r \in same
    <3>1. same \subseteq InstructionPool
      BY <1>4, <1>9
    <3> QED BY <1>14, <3>1, FS_Subset, InstructionsAreRanked
  <2>2. \A s \in same : Longs(s, Len(r.precedence))
    BY <1>9, <1>11
  <2>3. PICK s \in same : \A t \in same : ~Outranks(t, s)
    BY <2>1, <2>2, UnoutrankedIs
  <2>4. s \in is
    BY <1>1, <2>3
  <2> QED BY <1>1, <1>14, <2>1, <2>3, <2>4
<1>15. ASSUME NEW r \in active \ is
       PROVE  \/ \E s \in active : r.id \in s.supersedes /\ ~over(s)
              \/ over(r)
              \/ \E s \in is : s.key = r.key /\ s.directive = r.directive /\ ~Outranks(r, s)
  <2>1. CASE r \notin eligible
    BY <1>6, <2>1
  <2>2. CASE r \in eligible /\ r \notin remaining
    BY <1>3, <1>7, <1>9, <2>2
  <2>3. CASE r \in remaining
    BY <1>14, <1>15, <2>3
  <2> QED BY <2>1, <2>2, <2>3
<1> QED BY <1>12, <1>13, <1>15 DEF is, active, ofDecision, over, Governs

LEMMA StepInstructions ==
  ASSUME Shape, NEW records \in SUBSET InstructionPool, NEW project,
         NEW decisions, decisions # Nothing => ValidDecisionRegistry(decisions),
         ResolveInstructions(records, project, decisions)
  PROVE  GoverningIsInForce'
<1> DEFINE k == [gate |-> "instructions", records |-> records, project |-> project,
                 decisions |-> decisions, is |-> Resolve(records, project, decisions)]
<1>1. outside'.answer = k
  BY DEF ResolveInstructions, Shape
<1>2. k.records = records /\ k.project = project /\ k.decisions = decisions
      /\ k.is = Resolve(records, project, decisions)
  OBVIOUS
<1> HIDE DEF k
<1>3. k.is # Refused => Governs(k.records, k.project, k.decisions, k.is)
  BY <1>2, ResolvedGoverns
<1> QED BY <1>1, <1>3 DEF GoverningIsInForce, Governs

-----------------------------------------------------------------------------
(***************************************************************************)
(* The critical path.  The loops of the code are functions defined by      *)
(* recursion on the number of turns: each is shown to exist, with a set of *)
(* states that no turn leaves.                                             *)
(***************************************************************************)

\* What holds at 0 and goes from each number to the next holds up to any.
LEMMA UpTo ==
  ASSUME NEW N \in Nat, NEW G, 0 \in G, \A n \in 1..N : n - 1 \in G => n \in G
  PROVE  \A n \in 0..N : n \in G
<1> DEFINE Bad == {n \in 0..N : n \notin G}
<1>1. SUFFICES ASSUME Bad # {} PROVE FALSE
  OBVIOUS
<1>2. PICK n \in Bad : \A m \in Bad : n <= m
  <2>1. Bad \subseteq Nat
    OBVIOUS
  <2> HIDE DEF Bad
  <2> QED BY <1>1, <2>1, NatMin
<1>3. n \in 1..N /\ n - 1 \in 0..N /\ ~ (n <= n - 1)
  BY <1>2
<1>4. n - 1 \notin Bad
  BY <1>2, <1>3
<1> QED BY <1>2, <1>3, <1>4

\* A function on 0..N by its value at 0 and its steps exists.
Follows(f, N, S, first, h) ==
  /\ f \in [0..N -> S] /\ f[0] = first
  /\ \A n \in 1..N : f[n] = h[n][f[n - 1]]

LEMMA Recursion ==
  ASSUME NEW N \in Nat, NEW S, NEW first \in S, NEW h \in [1..N -> [S -> S]]
  PROVE  \E f : Follows(f, N, S, first, h)
<1> DEFINE Upto(m, f) == f[0] = first /\ \A n \in 1..m : f[n] = h[n][f[n - 1]]
           G == {m \in 0..N : \E f \in [0..m -> S] : Upto(m, f)}
<1>1. 0 \in G
  <2> DEFINE g == [n \in 0..0 |-> first]
  <2>1. g \in [0..0 -> S] /\ g[0] = first /\ \A n \in 1..0 : g[n] = h[n][g[n - 1]]
    OBVIOUS
  <2> HIDE DEF g
  <2>2. \E f \in [0..0 -> S] : Upto(0, f)
    BY <2>1
  <2> QED BY <2>2
<1>2. ASSUME NEW m \in 1..N, m - 1 \in G PROVE m \in G
  <2>1. PICK f \in [0..m - 1 -> S] : Upto(m - 1, f)
    BY <1>2
  <2> DEFINE g == [n \in 0..m |-> IF n < m THEN f[n] ELSE h[m][f[m - 1]]]
  <2>2. f[m - 1] \in S /\ h[m] \in [S -> S]
    BY <2>1
  <2>3. g \in [0..m -> S]
    BY <2>1, <2>2
  <2>4. g[0] = first /\ \A n \in 1..m : g[n] = h[n][g[n - 1]]
    <3>1. \A n \in 0..m : g[n] = IF n < m THEN f[n] ELSE h[m][f[m - 1]]
      OBVIOUS
    <3>2. 0 \in 0..m /\ 0 < m /\ m - 1 \in 0..m /\ m - 1 < m /\ m \in 0..m /\ ~ (m < m)
      OBVIOUS
    <3>3. \A n \in 1..m : n \in 0..m /\ n - 1 \in 0..m /\ n - 1 < m /\ (n = m \/ (n < m /\ n \in 1..m - 1))
      OBVIOUS
    <3> HIDE DEF g
    <3>4. g[0] = first
      BY <2>1, <3>1, <3>2
    <3>5. ASSUME NEW n \in 1..m PROVE g[n] = h[n][g[n - 1]]
      BY <2>1, <3>1, <3>2, <3>3
    <3> QED BY <3>4, <3>5
  <2>5. m \in 0..N
    OBVIOUS
  <2> HIDE DEF g
  <2> QED BY <2>3, <2>4, <2>5
<1>3. N \in G
  <2> HIDE DEF G
  <2>1. \A n \in 1..N : n - 1 \in G => n \in G
    BY <1>2
  <2>2. \A n \in 0..N : n \in G
    BY <1>1, <2>1, UpTo
  <2> QED BY <2>2
<1> QED BY <1>3 DEF Follows

RootsOf(r, projects, edges) ==
  /\ r \in [0..Len(projects) -> Seq(ToSet(projects))] /\ r[0] = <<>>
  /\ \A n \in 1..Len(projects) :
       r[n] = IF InDegree(edges, projects[n]) = 0 THEN Append(r[n - 1], projects[n]) ELSE r[n - 1]
  /\ Roots(projects, edges) = r[Len(projects)]

LEMMA RootsByTurns ==
  ASSUME NEW projects, NEW edges, projects \in Seq(ToSet(projects))
  PROVE  \E r : RootsOf(r, projects, edges)
<1> DEFINE N == Len(projects)
           S == Seq(ToSet(projects))
           Then(n, s) == IF InDegree(edges, projects[n]) = 0 THEN Append(s, projects[n]) ELSE s
           F(r) == [n \in 0..N |-> IF n = 0 THEN <<>>
                                   ELSE IF InDegree(edges, projects[n]) = 0 THEN Append(r[n - 1], projects[n])
                                   ELSE r[n - 1]]
           r == CHOOSE r : r = F(r)
           h == [n \in 1..N |-> [s \in S |-> Then(n, s)]]
<1>1. N \in Nat /\ \A n \in 1..N : projects[n] \in ToSet(projects)
  BY DEF ToSet
<1>2. \A n \in 1..N : \A s \in S : Then(n, s) \in S
  BY <1>1
<1>3. <<>> \in S
  OBVIOUS
<1>4. Roots(projects, edges) = r[N]
  BY DEF Roots
<1>5. \E f : f = F(f)
  <2>1. h \in [1..N -> [S -> S]]
    BY <1>2
  <2>2. \A n \in 1..N : \A s \in S : h[n][s] = Then(n, s)
    OBVIOUS
  <2> HIDE DEF h, N, S, Then
  <2>3. PICK f : Follows(f, N, S, <<>>, h)
    BY <1>1, <1>3, <2>1, Recursion
  <2>4. \A n \in 1..N : f[n] = Then(n, f[n - 1])
    <3>1. \A n \in 1..N : n - 1 \in 0..N
      BY <1>1
    <3> QED BY <2>2, <2>3, <3>1 DEF Follows
  <2>5. f = [n \in 0..N |-> IF n = 0 THEN <<>> ELSE Then(n, f[n - 1])]
    <3>1. \A n \in 0..N : n = 0 \/ n \in 1..N
      BY <1>1
    <3> QED BY <2>3, <2>4, <3>1 DEF Follows
  <2>6. f = F(f)
    BY <2>5 DEF Then, N
  <2> QED BY <2>6
<1>6. r = F(r)
  <2> HIDE DEF F
  <2> QED BY <1>5
<1> HIDE DEF r
<1>7. \A n \in 0..N : r[n] = IF n = 0 THEN <<>> ELSE Then(n, r[n - 1])
  BY <1>6
<1>8. r[0] = <<>> /\ \A n \in 1..N : r[n] = Then(n, r[n - 1])
  BY <1>1, <1>7
<1>9. \A n \in 0..N : r[n] \in S
  <2> DEFINE G == {n \in 0..N : r[n] \in S}
  <2>1. \A n \in 1..N : n \in 0..N /\ n - 1 \in 0..N
    BY <1>1
  <2> HIDE DEF N, S, Then
  <2>3. 0 \in G /\ \A n \in 1..N : n - 1 \in G => n \in G
    BY <1>1, <1>2, <1>3, <1>8, <2>1
  <2> HIDE DEF G
  <2>2. \A n \in 0..N : n \in G
    BY <1>1, <2>3, UpTo
  <2> QED BY <2>2 DEF G
<1>10. r \in [0..N -> S]
  BY <1>6, <1>9
<1> QED BY <1>4, <1>8, <1>10 DEF RootsOf

Queues(all) == [indegree : [all -> Int], queued : Seq(all)]

Released(all, t, s, e) ==
  /\ t \in Queues(all)
  /\ t.indegree = [s.indegree EXCEPT ![e[2]] = s.indegree[e[2]] - 1]
  /\ t.queued = IF s.indegree[e[2]] = 1 THEN Append(s.queued, e[2]) ELSE s.queued

LEMMA ReleaseTyped ==
  ASSUME NEW all, NEW s \in Queues(all), NEW e \in all \X all
  PROVE  Released(all, Release(s, e), s, e)
<1>1. e[2] \in all /\ s.indegree \in [all -> Int] /\ s.queued \in Seq(all) /\ s.indegree[e[2]] \in Int
  BY DEF Queues
<1>2. s.indegree[e[2]] - 1 = 0 <=> s.indegree[e[2]] = 1
  BY <1>1
<1>3. Append(s.queued, e[2]) \in Seq(all)
  BY <1>1
<1>4. [s.indegree EXCEPT ![e[2]] = s.indegree[e[2]] - 1] \in [all -> Int]
  BY <1>1
<1> QED BY <1>1, <1>2, <1>3, <1>4 DEF Release, Released, Queues

\* A turn takes away the edges one after the other.
EdgesOfTurn(r, all, edges, s, k) ==
  /\ r \in [0..Len(edges) -> Queues(all)] /\ r[0] = s
  /\ \A i \in 1..Len(edges) :
       r[i] = IF edges[i][1] = s.queued[k] THEN Release(r[i - 1], edges[i]) ELSE r[i - 1]
  /\ Turn(edges, s, k) = r[Len(edges)]

LEMMA TurnByEdges ==
  ASSUME NEW all, NEW edges \in Seq(all \X all), NEW s \in Queues(all), NEW k \in 1..Len(s.queued)
  PROVE  \E r : EdgesOfTurn(r, all, edges, s, k)
<1> DEFINE N == Len(edges)
           p == s.queued[k]
           S == Queues(all)
           Then(n, t) == IF edges[n][1] = p THEN Release(t, edges[n]) ELSE t
           F(r) == [n \in 0..N |-> IF n = 0 THEN s
                                   ELSE IF edges[n][1] = p THEN Release(r[n - 1], edges[n]) ELSE r[n - 1]]
           r == CHOOSE r : r = F(r)
           h == [n \in 1..N |-> [t \in S |-> Then(n, t)]]
<1>1. N \in Nat /\ \A n \in 1..N : edges[n] \in all \X all
  OBVIOUS
<1>2. \A n \in 1..N : \A t \in S : Then(n, t) \in S
  BY <1>1, ReleaseTyped DEF Released
<1>3. s \in S
  OBVIOUS
<1>4. Turn(edges, s, k) = r[N]
  <2>1. k <= Len(s.queued)
    BY DEF Queues
  <2> QED BY <2>1 DEF Turn
<1>5. \E f : f = F(f)
  <2>1. h \in [1..N -> [S -> S]]
    BY <1>2
  <2>2. \A n \in 1..N : \A t \in S : h[n][t] = Then(n, t)
    OBVIOUS
  <2> HIDE DEF h, N, S, Then
  <2>3. PICK f : Follows(f, N, S, s, h)
    BY <1>1, <1>3, <2>1, Recursion
  <2>4. \A n \in 1..N : f[n] = Then(n, f[n - 1])
    <3>1. \A n \in 1..N : n - 1 \in 0..N
      BY <1>1
    <3> QED BY <2>2, <2>3, <3>1 DEF Follows
  <2>5. f = [n \in 0..N |-> IF n = 0 THEN s ELSE Then(n, f[n - 1])]
    <3>1. \A n \in 0..N : n = 0 \/ n \in 1..N
      BY <1>1
    <3> QED BY <2>3, <2>4, <3>1 DEF Follows
  <2>6. f = F(f)
    BY <2>5 DEF Then, N
  <2> QED BY <2>6
<1>6. r = F(r)
  <2> HIDE DEF F
  <2> QED BY <1>5
<1> HIDE DEF r
<1>7. \A n \in 0..N : r[n] = IF n = 0 THEN s ELSE Then(n, r[n - 1])
  BY <1>6
<1>8. r[0] = s /\ \A n \in 1..N : r[n] = Then(n, r[n - 1])
  BY <1>1, <1>7
<1>9. \A n \in 0..N : r[n] \in S
  <2> DEFINE G == {n \in 0..N : r[n] \in S}
  <2>1. \A n \in 1..N : n \in 0..N /\ n - 1 \in 0..N
    BY <1>1
  <2> HIDE DEF N, S, Then
  <2>3. 0 \in G /\ \A n \in 1..N : n - 1 \in G => n \in G
    BY <1>1, <1>2, <1>3, <1>8, <2>1
  <2> HIDE DEF G
  <2>2. \A n \in 0..N : n \in G
    BY <1>1, <2>3, UpTo
  <2> QED BY <2>2 DEF G
<1>10. r \in [0..N -> S]
  BY <1>6, <1>9
<1> HIDE DEF S
<1> QED BY <1>4, <1>8, <1>10 DEF S, EdgesOfTurn

\* The turns follow one another.
TurnsOf(r, projects, edges, first) ==
  /\ r \in [0..Len(projects) -> Queues(ToSet(projects))] /\ r[0] = first
  /\ \A n \in 1..Len(projects) : r[n] = Turn(edges, r[n - 1], n)
  /\ Ordered(projects, edges) = r[Len(projects)].queued

LEMMA OrderByTurns ==
  ASSUME NEW projects, projects \in Seq(ToSet(projects)),
         NEW edges \in Seq(ToSet(projects) \X ToSet(projects)),
         NEW first \in Queues(ToSet(projects)),
         first = [indegree |-> [p \in ToSet(projects) |-> InDegree(edges, p)],
                  queued   |-> Roots(projects, edges)]
  PROVE  \E r : TurnsOf(r, projects, edges, first)
<1> DEFINE N == Len(projects)
           all == ToSet(projects)
           S == Queues(all)
           Then(n, t) == Turn(edges, t, n)
           F(r) == [n \in 0..N |->
                      IF n = 0
                      THEN [indegree |-> [p \in ToSet(projects) |-> InDegree(edges, p)],
                            queued   |-> Roots(projects, edges)]
                      ELSE Turn(edges, r[n - 1], n)]
           r == CHOOSE r : r = F(r)
           h == [n \in 1..N |-> [t \in S |-> Then(n, t)]]
<1>1. N \in Nat
  OBVIOUS
<1>2. ASSUME NEW n \in 1..N, NEW t \in S PROVE Then(n, t) \in S
  <2>1. CASE n <= Len(t.queued)
    <3>1. n \in 1..Len(t.queued)
      BY <1>1, <2>1 DEF Queues
    <3>2. PICK q : EdgesOfTurn(q, all, edges, t, n)
      BY <3>1, TurnByEdges
    <3>3. Len(edges) \in 0..Len(edges)
      OBVIOUS
    <3> QED BY <3>2, <3>3 DEF EdgesOfTurn
  <2>2. CASE ~ (n <= Len(t.queued))
    BY <2>2 DEF Turn
  <2> QED BY <2>1, <2>2
<1>3. first \in S
  OBVIOUS
<1>4. Ordered(projects, edges) = r[N].queued
  BY DEF Ordered
<1>5. \E f : f = F(f)
  <2>1. h \in [1..N -> [S -> S]]
    <3> HIDE DEF S, N, Then
    <3> QED BY <1>2
  <2>2. \A n \in 1..N : \A t \in S : h[n][t] = Then(n, t)
    OBVIOUS
  <2> HIDE DEF h, N, S, Then
  <2>3. PICK f : Follows(f, N, S, first, h)
    BY <1>1, <1>3, <2>1, Recursion
  <2>4. \A n \in 1..N : f[n] = Then(n, f[n - 1])
    <3>1. \A n \in 1..N : n - 1 \in 0..N
      BY <1>1
    <3> QED BY <2>2, <2>3, <3>1 DEF Follows
  <2>5. f = [n \in 0..N |-> IF n = 0 THEN first ELSE Then(n, f[n - 1])]
    <3>1. \A n \in 0..N : n = 0 \/ n \in 1..N
      BY <1>1
    <3> QED BY <2>3, <2>4, <3>1 DEF Follows
  <2>6. f = F(f)
    BY <2>5 DEF Then, N
  <2> QED BY <2>6
<1>6. r = F(r)
  <2> HIDE DEF F
  <2> QED BY <1>5
<1> HIDE DEF r
<1>7. \A n \in 0..N : r[n] = IF n = 0 THEN first ELSE Then(n, r[n - 1])
  BY <1>6
<1>8. r[0] = first /\ \A n \in 1..N : r[n] = Then(n, r[n - 1])
  BY <1>1, <1>7
<1>9. \A n \in 0..N : r[n] \in S
  <2> DEFINE G == {n \in 0..N : r[n] \in S}
  <2>1. \A n \in 1..N : n \in 0..N /\ n - 1 \in 0..N
    BY <1>1
  <2> HIDE DEF N, S, Then
  <2>3. 0 \in G /\ \A n \in 1..N : n - 1 \in G => n \in G
    BY <1>1, <1>2, <1>3, <1>8, <2>1
  <2> HIDE DEF G
  <2>2. \A n \in 0..N : n \in G
    BY <1>1, <2>3, UpTo
  <2> QED BY <2>2 DEF G
<1>10. r \in [0..N -> S]
  BY <1>6, <1>9
<1> HIDE DEF S
<1> QED BY <1>4, <1>8, <1>10 DEF S, TurnsOf

-----------------------------------------------------------------------------
(***************************************************************************)
(* The order.  At any edge of any turn the indegree of a project counts    *)
(* the edges to it that were not taken away; it is queued when there is    *)
(* none, so its producers were queued before.                              *)
(***************************************************************************)
Into(edges, q) == {e \in DOMAIN edges : edges[e][2] = q}
\* The edges that were taken away in the turns before n, and in turn n up to the i-th edge.
Away(edges, queued, n, i) ==
  {e \in DOMAIN edges :
     \E j \in 1..Len(queued) : edges[e][1] = queued[j] /\ (j < n \/ (j = n /\ e <= i))}

\* Who is queued waits for none that was not queued before.
Sorted(edges, queued) ==
  \A j \in 1..Len(queued) : \A e \in Into(edges, queued[j]) :
    \E k \in 1..(j - 1) : edges[e][1] = queued[k]

Counted(all, edges, s, n, i) ==
  \A q \in all : s.indegree[q] = Cardinality(Into(edges, q) \ Away(edges, s.queued, n, i))
QueuedAtZero(all, s) ==
  \A q \in all : s.indegree[q] = 0 <=> \E j \in 1..Len(s.queued) : s.queued[j] = q

Queueing(all, edges, s, n, i) ==
  /\ s \in Queues(all) /\ IsInjective(s.queued) /\ Sorted(edges, s.queued)
  /\ Counted(all, edges, s, n, i) /\ QueuedAtZero(all, s)

LEMMA IntoIsFinite ==
  ASSUME NEW S, NEW edges \in Seq(S), NEW q
  PROVE  IsFiniteSet(Into(edges, q)) /\ \A T : IsFiniteSet(Into(edges, q) \ T)
<1>1. IsFiniteSet(1..Len(edges)) /\ DOMAIN edges = 1..Len(edges)
  BY FS_Interval
<1>2. Into(edges, q) \subseteq 1..Len(edges)
  BY <1>1 DEF Into
<1> QED BY <1>1, <1>2, FS_Subset

OnTurn(s, n, p) == n \in 1..Len(s.queued) /\ s.queued[n] = p

LEMMA ReleaseKeeps ==
  ASSUME NEW all, NEW edges \in Seq(all \X all), NEW s, NEW t, NEW n, NEW p,
         NEW i \in 1..Len(edges), OnTurn(s, n, p), Queueing(all, edges, s, n, i - 1),
         t = IF edges[i][1] = p THEN Release(s, edges[i]) ELSE s
  PROVE  Queueing(all, edges, t, n, i) /\ OnTurn(t, n, p)
<1>0. n \in 1..Len(s.queued) /\ n \in Nat /\ s.queued[n] = p
  BY DEF OnTurn
<1> DEFINE Q == s.queued
           L == Len(Q)
           q == edges[i][2]
<1>1. /\ Q \in Seq(all) /\ L \in Nat /\ DOMAIN Q = 1..L /\ s.indegree \in [all -> Int]
      /\ DOMAIN edges = 1..Len(edges) /\ Len(edges) \in Nat
      /\ \A j \in 1..L : Q[j] \in all
  BY DEF Queueing, Queues
<1>2. edges[i] \in all \X all /\ q \in all /\ edges[i][1] \in all
  OBVIOUS
<1>3. \A j, k \in 1..L : Q[j] = Q[k] => j = k
  BY <1>1 DEF Queueing, IsInjective
<1>4. CASE edges[i][1] # p
  <2>1. \A e \in DOMAIN edges : \A j \in 1..L :
          (edges[e][1] = Q[j] /\ (j < n \/ (j = n /\ e <= i)))
            <=> (edges[e][1] = Q[j] /\ (j < n \/ (j = n /\ e <= i - 1)))
    <3>1. \A e \in 1..Len(edges) : e <= i <=> (e <= i - 1 \/ e = i)
      BY <1>1
    <3> QED BY <1>0, <1>1, <1>4, <3>1
  <2>2. Away(edges, Q, n, i) = Away(edges, Q, n, i - 1)
    BY <2>1 DEF Away
  <2>3. t = s
    BY <1>4
  <2> QED BY <1>0, <2>2, <2>3 DEF Queueing, Counted, OnTurn
<1>5. CASE edges[i][1] = p
  <2>1. /\ t \in Queues(all)
        /\ t.indegree = [s.indegree EXCEPT ![q] = s.indegree[q] - 1]
        /\ t.queued = IF s.indegree[q] = 1 THEN Append(Q, q) ELSE Q
    <3>1. t = Release(s, edges[i])
      BY <1>5
    <3>2. s \in Queues(all)
      BY DEF Queueing
    <3>3. Released(all, t, s, edges[i])
      BY <1>2, <3>1, <3>2, ReleaseTyped
    <3> QED BY <3>3 DEF Released
  <2>2. /\ L <= Len(t.queued) /\ \A j \in 1..L : t.queued[j] = Q[j]
        /\ Len(t.queued) = IF s.indegree[q] = 1 THEN L + 1 ELSE L
        /\ Len(t.queued) \in Nat
    <3> DEFINE A == Append(Q, q)
    <3>1. Len(A) = L + 1 /\ A[L + 1] = q /\ \A j \in 1..L : A[j] = Q[j]
      BY <1>1, <1>2
    <3> HIDE DEF Q, q, L, A
    <3>2. CASE s.indegree[q] = 1
      <4>1. t.queued = A
        BY <2>1, <3>2 DEF A
      <4>2. L \in Nat
        BY <1>1
      <4> QED BY <3>1, <3>2, <4>1, <4>2
    <3>3. CASE s.indegree[q] # 1
      <4>1. t.queued = Q /\ L = Len(Q)
        BY <2>1, <3>3 DEF L
      <4>2. L \in Nat
        BY <1>1
      <4> QED BY <3>3, <4>1, <4>2
    <3> QED BY <3>2, <3>3
  <2>3. i \in Into(edges, q) \ Away(edges, Q, n, i - 1)
    <3>1. \A j \in 1..L : edges[i][1] = Q[j] => j = n
      BY <1>0, <1>3, <1>5
    <3>2. ~ (n < n) /\ ~ (i <= i - 1)
      BY <1>0
    <3> QED BY <1>0, <1>1, <3>1, <3>2 DEF Into, Away
  <2>4. Away(edges, t.queued, n, i) = Away(edges, Q, n, i - 1) \cup {i}
    <3>1. ASSUME NEW e \in 1..Len(edges), NEW j \in 1..Len(t.queued), edges[e][1] = t.queued[j],
                 j < n \/ (j = n /\ e <= i)
          PROVE  e \in Away(edges, Q, n, i - 1) \cup {i}
      <4>1. j \in 1..L /\ edges[e][1] = Q[j]
        <5>1. n \in Nat /\ n <= L /\ L \in Nat
          BY <1>0, <1>1
        <5>2. j \in Nat /\ 1 <= j /\ j <= n
          BY <1>0, <3>1
        <5> HIDE DEF Q, L, q
        <5>3. j \in 1..L
          BY <5>1, <5>2
        <5> QED BY <2>2, <3>1, <5>3
      <4>2. j < n \/ (j = n /\ e <= i - 1) \/ e = i
        BY <3>1, <1>1
      <4> QED BY <1>1, <4>1, <4>2 DEF Away
    <3>2. ASSUME NEW e \in 1..Len(edges), NEW j \in 1..L, edges[e][1] = Q[j],
                 j < n \/ (j = n /\ e <= i - 1)
          PROVE  e \in Away(edges, t.queued, n, i)
      <4>1. j \in 1..Len(t.queued) /\ edges[e][1] = t.queued[j]
        <5> HIDE DEF Q, L, q
        <5>1. j \in Nat /\ 1 <= j /\ j <= L /\ L \in Nat
          BY <1>1
        <5> QED BY <2>2, <3>2, <5>1
      <4>2. j < n \/ (j = n /\ e <= i)
        BY <3>2, <1>1
      <4> QED BY <1>1, <4>1, <4>2 DEF Away
    <3>3. i \in Away(edges, t.queued, n, i)
      <4>1. n \in 1..Len(t.queued) /\ edges[i][1] = t.queued[n] /\ i <= i
        <5>2. n \in 1..L /\ p = Q[n] /\ L \in Nat /\ i \in Nat
          BY <1>0, <1>1
        <5> HIDE DEF Q, L, q
        <5>1. n \in Nat /\ 1 <= n /\ n <= L /\ L \in Nat /\ i \in Nat /\ p = Q[n]
          BY <5>2
        <5> QED BY <1>0, <1>5, <2>2, <5>1
      <4> QED BY <1>1, <4>1 DEF Away
    <3>4. Away(edges, t.queued, n, i) \subseteq Away(edges, Q, n, i - 1) \cup {i}
      BY <1>1, <3>1 DEF Away
    <3>5. Away(edges, Q, n, i - 1) \subseteq Away(edges, t.queued, n, i)
      BY <1>1, <3>2 DEF Away
    <3> QED BY <3>3, <3>4, <3>5
  <2>5. Counted(all, edges, t, n, i)
    <3> SUFFICES ASSUME NEW o \in all
                 PROVE  t.indegree[o] = Cardinality(Into(edges, o) \ Away(edges, t.queued, n, i))
      BY DEF Counted
    <3> DEFINE before == Into(edges, o) \ Away(edges, Q, n, i - 1)
    <3>1. s.indegree[o] = Cardinality(before)
      BY DEF Queueing, Counted
    <3>2. Into(edges, o) \ Away(edges, t.queued, n, i) = before \ {i}
      BY <2>4
    <3>3. CASE o = q
      <4>1. IsFiniteSet(before)
        BY IntoIsFinite
      <4>2. Cardinality(before \ {i}) = Cardinality(before) - 1
        BY <2>3, <3>3, <4>1, FS_RemoveElement
      <4>3. t.indegree[o] = s.indegree[o] - 1
        BY <1>1, <2>1, <3>3
      <4> QED BY <3>1, <3>2, <4>2, <4>3
    <3>4. CASE o # q
      <4>1. i \notin Into(edges, o)
        BY <3>4 DEF Into
      <4>2. t.indegree[o] = s.indegree[o]
        BY <1>1, <2>1, <3>4
      <4> QED BY <3>1, <3>2, <4>1, <4>2
    <3> QED BY <3>3, <3>4
  <2>6. s.indegree[q] # 0 /\ \A j \in 1..L : Q[j] # q
    <3>1. s.indegree[q] = Cardinality(Into(edges, q) \ Away(edges, Q, n, i - 1))
      BY <1>2 DEF Queueing, Counted
    <3>2. IsFiniteSet(Into(edges, q) \ Away(edges, Q, n, i - 1))
      BY IntoIsFinite
    <3>3. s.indegree[q] # 0
      BY <2>3, <3>1, <3>2, FS_EmptySet
    <3> QED BY <1>2, <3>3 DEF Queueing, QueuedAtZero
  <2>9. OnTurn(t, n, p)
    <3>1. n \in Nat /\ 1 <= n /\ n <= L /\ L \in Nat /\ n \in 1..L
      BY <1>0, <1>1
    <3> HIDE DEF Q, L, q
    <3>2. t.queued[n] = Q[n] /\ Q[n] = p
      BY <1>0, <2>2, <3>1 DEF Q
    <3> QED BY <2>2, <3>1, <3>2 DEF OnTurn
  <2>7. CASE s.indegree[q] # 1
    <3>1. t.queued = Q
      BY <2>1, <2>7
    <3>2. QueuedAtZero(all, t)
      <4>1. t.indegree[q] # 0
        <5>1. t.indegree[q] = s.indegree[q] - 1 /\ s.indegree[q] \in Int
          BY <1>1, <1>2, <2>1
        <5> HIDE DEF q
        <5> QED BY <2>7, <5>1
      <4>2. \A o \in all : o # q => t.indegree[o] = s.indegree[o]
        BY <1>1, <2>1
      <4> QED BY <2>6, <3>1, <4>1, <4>2 DEF Queueing, QueuedAtZero
    <3> QED BY <1>0, <1>1, <2>1, <2>5, <3>1, <3>2 DEF Queueing, OnTurn
  <2>8. CASE s.indegree[q] = 1
    <3>1. /\ t.queued = Append(Q, q) /\ Len(t.queued) = L + 1 /\ t.queued[L + 1] = q
          /\ t.indegree[q] = 0
      <4>1. t.queued = Append(Q, q)
        BY <2>1, <2>8
      <4>2. Len(Append(Q, q)) = L + 1 /\ Append(Q, q)[L + 1] = q
        BY <1>1, <1>2
      <4>3. t.indegree[q] = s.indegree[q] - 1
        BY <1>1, <1>2, <2>1
      <4> HIDE DEF Q, q
      <4> QED BY <2>8, <4>1, <4>2, <4>3
    <3>2. \A j \in 1..Len(t.queued) : j \in 1..L \/ j = L + 1
      BY <1>1, <3>1
    <3>3. IsInjective(t.queued)
      <4>1. DOMAIN t.queued = 1..Len(t.queued)
        BY <1>1, <1>2, <3>1
      <4>2. \A j, k \in 1..Len(t.queued) : t.queued[j] = t.queued[k] => j = k
        <5> SUFFICES ASSUME NEW j \in 1..Len(t.queued), NEW k \in 1..Len(t.queued),
                            t.queued[j] = t.queued[k]
                     PROVE  j = k
          OBVIOUS
        <5>1. \A m \in 1..L : t.queued[m] = Q[m] /\ Q[m] # q
          BY <2>2, <2>6
        <5>2. t.queued[L + 1] = q
          BY <3>1
        <5>3. (j \in 1..L \/ j = L + 1) /\ (k \in 1..L \/ k = L + 1)
          BY <3>2
        <5> HIDE DEF Q, L, q
        <5>4. CASE j \in 1..L /\ k \in 1..L
          BY <1>3, <5>1, <5>4
        <5>5. CASE j \notin 1..L \/ k \notin 1..L
          BY <5>1, <5>2, <5>3, <5>5
        <5> QED BY <5>4, <5>5
      <4> QED BY <4>1, <4>2 DEF IsInjective
    <3>4. QueuedAtZero(all, t)
      <4>1. \A o \in all : o # q => t.indegree[o] = s.indegree[o]
        BY <1>1, <2>1
      <4>2. \A o \in all : o # q =>
              ((\E j \in 1..Len(t.queued) : t.queued[j] = o) <=> (\E j \in 1..L : Q[j] = o))
        <5> \A j \in 1..L : j \in 1..Len(t.queued)
          BY <1>1, <3>1
        <5> HIDE DEF Q, q
        <5> QED BY <2>2, <3>1, <3>2
      <4>3. L + 1 \in 1..Len(t.queued)
        BY <1>1, <3>1
      <4> QED BY <3>1, <4>1, <4>2, <4>3 DEF Queueing, QueuedAtZero
    <3>5. Sorted(edges, t.queued)
      <4> SUFFICES ASSUME NEW j \in 1..Len(t.queued), NEW e \in Into(edges, t.queued[j])
                   PROVE  \E k \in 1..(j - 1) : edges[e][1] = t.queued[k]
        BY DEF Sorted
      <4>1. CASE j \in 1..L
        <5>1. e \in Into(edges, Q[j])
          BY <2>2, <4>1
        <5>2. PICK k \in 1..(j - 1) : edges[e][1] = Q[k]
          BY <4>1, <5>1 DEF Queueing, Sorted
        <5>3. k \in 1..L
          BY <1>1, <4>1
        <5> QED BY <2>2, <5>2, <5>3
      <4>2. CASE j = L + 1
        <5>1. e \in Into(edges, q)
          BY <3>1, <4>2
        <5>2. Cardinality(Into(edges, q) \ Away(edges, t.queued, n, i)) = 0
          BY <1>2, <2>5, <3>1 DEF Counted
        <5>3. Into(edges, q) \ Away(edges, t.queued, n, i) = {}
          <6>1. IsFiniteSet(Into(edges, q) \ Away(edges, t.queued, n, i))
            BY IntoIsFinite
          <6> QED BY <5>2, <6>1, FS_EmptySet
        <5>4. e \in Away(edges, t.queued, n, i)
          BY <5>1, <5>3
        <5>5. PICK k \in 1..Len(t.queued) : edges[e][1] = t.queued[k] /\ (k < n \/ k = n)
          BY <5>4 DEF Away
        <5>6. k \in 1..(j - 1)
          <6>1. k \in Nat /\ 1 <= k /\ n <= L /\ n \in Nat /\ j - 1 = L
            BY <1>0, <1>1, <2>2, <4>2
          <6> QED BY <1>1, <5>5, <6>1
        <5> QED BY <5>5, <5>6
      <4> QED BY <3>2, <4>1, <4>2
    <3> QED BY <1>1, <2>1, <2>2, <2>5, <3>3, <3>4, <3>5, <2>9 DEF Queueing
  <2> QED BY <2>7, <2>8
<1> QED BY <1>4, <1>5

LEMMA AwayByTurns ==
  ASSUME NEW S, NEW edges \in Seq(S), NEW T, NEW queued \in Seq(T), NEW n \in Nat
  PROVE  Away(edges, queued, n, Len(edges)) = Away(edges, queued, n + 1, 0)
<1>1. \A e \in DOMAIN edges : \A j \in 1..Len(queued) :
        (j < n \/ (j = n /\ e <= Len(edges))) <=> (j < n + 1 \/ (j = n + 1 /\ e <= 0))
  OBVIOUS
<1> QED BY <1>1 DEF Away

LEMMA TurnKeeps ==
  ASSUME NEW all, NEW edges \in Seq(all \X all), NEW s, NEW n \in Nat, n # 0,
         Queueing(all, edges, s, n, 0)
  PROVE  Queueing(all, edges, Turn(edges, s, n), n + 1, 0)
<1>1. s \in Queues(all) /\ s.queued \in Seq(all) /\ Len(s.queued) \in Nat /\ Len(edges) \in Nat
  BY DEF Queueing, Queues
<1>2. CASE n <= Len(s.queued)
  <2>1. n \in 1..Len(s.queued)
    BY <1>1, <1>2
  <2>2. PICK r : EdgesOfTurn(r, all, edges, s, n)
    BY <1>1, <2>1, TurnByEdges
  <2> DEFINE p == s.queued[n]
             Good(i) == Queueing(all, edges, r[i], n, i) /\ OnTurn(r[i], n, p)
             G == {i \in 0..Len(edges) : Good(i)}
  <2>3. 0 \in G
    BY <1>1, <2>1, <2>2 DEF EdgesOfTurn, OnTurn
  <2>4. ASSUME NEW i \in 1..Len(edges), i - 1 \in G PROVE i \in G
    <3>1. Good(i - 1)
      BY <2>4
    <3>2. r[i] = IF edges[i][1] = p THEN Release(r[i - 1], edges[i]) ELSE r[i - 1]
      BY <2>2 DEF EdgesOfTurn
    <3> HIDE DEF p
    <3>3. Good(i)
      BY <3>1, <3>2, ReleaseKeeps
    <3> QED BY <1>1, <3>3
  <2>5. Good(Len(edges))
    <3> HIDE DEF Good
    <3>1. \A i \in 0..Len(edges) : i \in G
      <4> HIDE DEF G
      <4> QED BY <1>1, <2>3, <2>4, UpTo
    <3> QED BY <1>1, <3>1
  <2> DEFINE t == r[Len(edges)]
  <2>6. Turn(edges, s, n) = t
    BY <2>2 DEF EdgesOfTurn
  <2>7. Away(edges, t.queued, n, Len(edges)) = Away(edges, t.queued, n + 1, 0)
    <3>1. t.queued \in Seq(all)
      BY <2>5 DEF Queueing, Queues
    <3> HIDE DEF t
    <3> QED BY <3>1, AwayByTurns
  <2> QED BY <2>5, <2>6, <2>7 DEF Queueing, Counted
<1>3. CASE ~ (n <= Len(s.queued))
  <2>1. Turn(edges, s, n) = s
    BY <1>3 DEF Turn
  <2>2. \A e \in DOMAIN edges : \A j \in 1..Len(s.queued) :
          (j < n \/ (j = n /\ e <= 0)) <=> (j < n + 1 \/ (j = n + 1 /\ e <= 0))
    BY <1>1, <1>3
  <2>3. Away(edges, s.queued, n, 0) = Away(edges, s.queued, n + 1, 0)
    BY <2>2 DEF Away
  <2> QED BY <2>1, <2>3 DEF Queueing, Counted
<1> QED BY <1>2, <1>3

\* A graph as it is imported.
GraphOf(projects, edges) ==
  /\ projects \in Seq(ToSet(projects)) /\ IsInjective(projects)
  /\ edges \in Seq(ToSet(projects) \X ToSet(projects))

LEMMA AppendDistinct ==
  ASSUME NEW S, NEW s \in Seq(S), IsInjective(s), NEW x \in S, \A j \in 1..Len(s) : s[j] # x
  PROVE  /\ Append(s, x) \in Seq(S) /\ IsInjective(Append(s, x)) /\ Len(Append(s, x)) = Len(s) + 1
         /\ Append(s, x)[Len(s) + 1] = x /\ \A j \in 1..Len(s) : Append(s, x)[j] = s[j]
<1> DEFINE A == Append(s, x)
           L == Len(s)
<1>1. /\ A \in Seq(S) /\ Len(A) = L + 1 /\ DOMAIN A = 1..(L + 1) /\ L \in Nat /\ DOMAIN s = 1..L
      /\ A[L + 1] = x /\ \A j \in 1..L : A[j] = s[j]
  OBVIOUS
<1> HIDE DEF A, L
<1>2. \A j \in 1..(L + 1) : j \in 1..L \/ j = L + 1
  BY <1>1
<1>3. \A j \in 1..L : s[j] # x
  BY DEF L
<1>4. \A i, j \in 1..(L + 1) : A[i] = A[j] => i = j
  BY <1>1, <1>2, <1>3 DEF IsInjective
<1> QED BY <1>1, <1>4 DEF IsInjective, A, L

LEMMA RootsAreRight ==
  ASSUME NEW projects, NEW edges, GraphOf(projects, edges)
  PROVE  /\ Roots(projects, edges) \in Seq(ToSet(projects)) /\ IsInjective(Roots(projects, edges))
         /\ \A p \in ToSet(projects) :
              InDegree(edges, p) = 0
                <=> \E j \in 1..Len(Roots(projects, edges)) : Roots(projects, edges)[j] = p
<1> DEFINE N == Len(projects)
           all == ToSet(projects)
<1>1. /\ N \in Nat /\ DOMAIN projects = 1..N /\ \A n \in 1..N : projects[n] \in all
      /\ \A i, j \in 1..N : projects[i] = projects[j] => i = j
  BY DEF GraphOf, IsInjective
<1>2. PICK r : RootsOf(r, projects, edges)
  BY RootsByTurns DEF GraphOf
<1> DEFINE Among(s, m) == \A j \in 1..Len(s) : \E k \in 1..m :
                            s[j] = projects[k] /\ InDegree(edges, projects[k]) = 0
           Has(s, m) == \A k \in 1..m : InDegree(edges, projects[k]) = 0 =>
                          \E j \in 1..Len(s) : s[j] = projects[k]
           Good(m) == r[m] \in Seq(all) /\ IsInjective(r[m]) /\ Among(r[m], m) /\ Has(r[m], m)
           G == {m \in 0..N : Good(m)}
<1>3. 0 \in G
  <2>1. r[0] = <<>>
    BY <1>2 DEF RootsOf
  <2>2. <<>> \in Seq(all) /\ IsInjective(<<>>) /\ Among(<<>>, 0) /\ Has(<<>>, 0)
    BY DEF IsInjective
  <2> HIDE DEF Among, Has
  <2>3. Good(0)
    BY <2>1, <2>2
  <2> HIDE DEF Good
  <2> QED BY <1>1, <2>3
<1>4. ASSUME NEW m \in 1..N, m - 1 \in G PROVE m \in G
  <2> DEFINE s == r[m - 1]
             x == projects[m]
  <2>1. Good(m - 1)
    BY <1>4
  <2>2. r[m] = IF InDegree(edges, x) = 0 THEN Append(s, x) ELSE s
    BY <1>2 DEF RootsOf
  <2>3. s \in Seq(all) /\ IsInjective(s) /\ Among(s, m - 1) /\ Has(s, m - 1) /\ Len(s) \in Nat
    <3>1. s \in Seq(all) /\ IsInjective(s) /\ Among(s, m - 1) /\ Has(s, m - 1)
      <4> HIDE DEF Among, Has
      <4> QED BY <2>1
    <3> HIDE DEF Among, Has, s
    <3>2. Len(s) \in Nat
      BY <3>1
    <3> QED BY <3>1, <3>2
  <2>4. \A k \in 1..m : k \in 1..(m - 1) \/ k = m
    OBVIOUS
  <2>5. \A k \in 1..(m - 1) : k \in 1..m /\ projects[k] # x
    BY <1>1
  <2>6. x \in all
    BY <1>1
  <2> HIDE DEF s, x
  <2>7. CASE InDegree(edges, x) # 0
    <3>1. Among(s, m) /\ Has(s, m)
      BY <2>3, <2>4, <2>5, <2>7 DEF x
    <3>2. r[m] = s
      BY <2>2, <2>7
    <3> HIDE DEF Among, Has
    <3>3. Good(m)
      BY <2>3, <3>1, <3>2
    <3> HIDE DEF Good
    <3> QED BY <1>1, <3>3
  <2>8. CASE InDegree(edges, x) = 0
    <3> DEFINE A == Append(s, x)
    <3>1. \A j \in 1..Len(s) : s[j] # x
      BY <2>3, <2>5
    <3>2. /\ A \in Seq(all) /\ IsInjective(A) /\ Len(A) = Len(s) + 1
          /\ A[Len(s) + 1] = x /\ \A j \in 1..Len(s) : A[j] = s[j]
      <4> HIDE DEF all
      <4> QED BY <2>3, <2>6, <3>1, AppendDistinct
    <3>3. r[m] = A
      BY <2>2, <2>8
    <3> HIDE DEF A
    <3>4. \A j \in 1..Len(A) : j \in 1..Len(s) \/ j = Len(s) + 1
      BY <2>3, <3>2
    <3>5. \A j \in 1..Len(s) : j \in 1..Len(A)
      BY <2>3, <3>2
    <3>6. Len(s) + 1 \in 1..Len(A) /\ m \in 1..m
      BY <2>3, <3>2
    <3>7. Among(A, m)
      <4> SUFFICES ASSUME NEW j \in 1..Len(A)
                   PROVE  \E k \in 1..m : A[j] = projects[k] /\ InDegree(edges, projects[k]) = 0
        OBVIOUS
      <4>1. CASE j \in 1..Len(s)
        <5>1. PICK k \in 1..(m - 1) : s[j] = projects[k] /\ InDegree(edges, projects[k]) = 0
          BY <2>3, <4>1
        <5> QED BY <2>5, <3>2, <4>1, <5>1
      <4>2. CASE j = Len(s) + 1
        BY <2>8, <3>2, <3>6, <4>2 DEF x
      <4> QED BY <3>4, <4>1, <4>2
    <3>8. Has(A, m)
      BY <2>3, <2>4, <3>2, <3>5, <3>6 DEF x
    <3> HIDE DEF Among, Has
    <3>9. Good(m)
      BY <3>2, <3>3, <3>7, <3>8
    <3> HIDE DEF Good
    <3> QED BY <1>1, <3>9
  <2> QED BY <2>7, <2>8
<1>5. Good(N)
  <2> HIDE DEF Good
  <2>1. \A m \in 0..N : m \in G
    <3> HIDE DEF G
    <3> QED BY <1>1, <1>3, <1>4, UpTo
  <2> QED BY <1>1, <2>1
<1> DEFINE R == Roots(projects, edges)
<1>6. R = r[N]
  BY <1>2 DEF RootsOf
<1> HIDE DEF R
<1>7. R \in Seq(all) /\ IsInjective(R) /\ Among(R, N) /\ Has(R, N)
  BY <1>5, <1>6
<1>8. \A p \in all : \E k \in 1..N : p = projects[k]
  BY <1>1 DEF ToSet
<1>9. \A p \in all : InDegree(edges, p) = 0 <=> \E j \in 1..Len(R) : R[j] = p
  <2> SUFFICES ASSUME NEW p \in all
               PROVE  InDegree(edges, p) = 0 <=> \E j \in 1..Len(R) : R[j] = p
    OBVIOUS
  <2>1. PICK k \in 1..N : p = projects[k]
    BY <1>8
  <2>2. ASSUME InDegree(edges, p) = 0 PROVE \E j \in 1..Len(R) : R[j] = p
    BY <1>7, <2>1, <2>2
  <2>3. ASSUME NEW j \in 1..Len(R), R[j] = p PROVE InDegree(edges, p) = 0
    <3>1. PICK l \in 1..N : R[j] = projects[l] /\ InDegree(edges, projects[l]) = 0
      BY <1>7
    <3> QED BY <2>3, <3>1
  <2> QED BY <2>2, <2>3
<1> QED BY <1>7, <1>9 DEF R

\* What the turns come to.
LEMMA OrderIsSorted ==
  ASSUME NEW projects, NEW edges, GraphOf(projects, edges)
  PROVE  \E t : /\ Queueing(ToSet(projects), edges, t, Len(projects) + 1, 0)
                /\ t.queued = Ordered(projects, edges)
<1> DEFINE N == Len(projects)
           all == ToSet(projects)
           R == Roots(projects, edges)
           first == [indegree |-> [p \in ToSet(projects) |-> InDegree(edges, p)], queued |-> R]
<1>1. /\ R \in Seq(all) /\ IsInjective(R)
      /\ \A p \in all : InDegree(edges, p) = 0 <=> \E j \in 1..Len(R) : R[j] = p
  BY RootsAreRight
<1>2. projects \in Seq(all) /\ edges \in Seq(all \X all) /\ N \in Nat
  BY DEF GraphOf
<1> HIDE DEF R
<1>3. \A p \in all : InDegree(edges, p) = Cardinality(Into(edges, p)) /\ InDegree(edges, p) \in Nat
  <2> SUFFICES ASSUME NEW p \in all
               PROVE  InDegree(edges, p) = Cardinality(Into(edges, p)) /\ InDegree(edges, p) \in Nat
    OBVIOUS
  <2>1. IsFiniteSet(Into(edges, p))
    BY <1>2, IntoIsFinite
  <2>2. Cardinality(Into(edges, p)) \in Nat
    BY <2>1, FS_CardinalityType
  <2> QED BY <2>2 DEF InDegree, Into
<1>4. Queueing(all, edges, first, 1, 0)
  <2>1. first \in Queues(all)
    BY <1>1, <1>3 DEF Queues
  <2>2. Away(edges, R, 1, 0) = {}
    <3>1. \A e \in DOMAIN edges : \A j \in 1..Len(R) : ~ (j < 1) /\ ~ (e <= 0)
      BY <1>1, <1>2
    <3> QED BY <3>1 DEF Away
  <2>3. Counted(all, edges, first, 1, 0)
    BY <1>3, <2>2 DEF Counted
  <2>4. QueuedAtZero(all, first)
    BY <1>1 DEF QueuedAtZero
  <2>5. Sorted(edges, R)
    <3> SUFFICES ASSUME NEW j \in 1..Len(R), NEW e \in Into(edges, R[j]) PROVE FALSE
      BY DEF Sorted
    <3>1. R[j] \in all
      BY <1>1
    <3>2. Cardinality(Into(edges, R[j])) = 0
      BY <1>1, <1>3, <3>1
    <3>3. IsFiniteSet(Into(edges, R[j]))
      BY <1>2, IntoIsFinite
    <3> QED BY <3>2, <3>3, FS_EmptySet
  <2> QED BY <1>1, <2>1, <2>3, <2>4, <2>5 DEF Queueing
<1>5. first \in Queues(all)
  BY <1>4 DEF Queueing
<1>6. first = [indegree |-> [p \in ToSet(projects) |-> InDegree(edges, p)],
               queued   |-> Roots(projects, edges)]
  BY DEF R
<1> HIDE DEF first
<1>7. PICK r : TurnsOf(r, projects, edges, first)
  BY <1>2, <1>5, <1>6, OrderByTurns
<1> DEFINE Good(n) == Queueing(all, edges, r[n], n + 1, 0)
           G == {n \in 0..N : Good(n)}
<1>8. 0 \in G
  BY <1>2, <1>4, <1>7 DEF TurnsOf
<1>9. ASSUME NEW n \in 1..N, n - 1 \in G PROVE n \in G
  <2>1. Queueing(all, edges, r[n - 1], n, 0)
    BY <1>9
  <2>2. r[n] = Turn(edges, r[n - 1], n)
    BY <1>7 DEF TurnsOf
  <2>3. n \in Nat /\ n # 0
    BY <1>2
  <2>4. Good(n)
    BY <1>2, <2>1, <2>2, <2>3, TurnKeeps
  <2> QED BY <1>2, <2>4
<1>10. Good(N)
  <2> HIDE DEF Good
  <2>1. \A m \in 0..N : m \in G
    <3> HIDE DEF G
    <3> QED BY <1>2, <1>8, <1>9, UpTo
  <2> QED BY <1>2, <2>1
<1>11. Ordered(projects, edges) = r[N].queued
  BY <1>7 DEF TurnsOf
<1> QED BY <1>10, <1>11

LoopIn(all, edges) ==
  \E loop \in (SUBSET all) \ {{}} : \A q \in loop : \E p \in loop : <<p, q>> \in ToSet(edges)

Joined(edges, p, q) == \E e \in Into(edges, q) : edges[e][1] = p

LEMMA EdgeDepends ==
  ASSUME NEW all, NEW edges \in Seq(all \X all), NEW p, NEW q
  PROVE  <<p, q>> \in ToSet(edges) <=> Joined(edges, p, q)
<1>1. \A e \in DOMAIN edges : edges[e] \in all \X all
  OBVIOUS
<1>2. \A e \in DOMAIN edges : edges[e] = <<edges[e][1], edges[e][2]>>
  BY <1>1
<1>3. ASSUME NEW e \in DOMAIN edges, edges[e] = <<p, q>> PROVE edges[e][1] = p /\ edges[e][2] = q
  BY <1>3
<1> QED BY <1>2, <1>3 DEF ToSet, Into, Joined

LEMMA OrderIsBounded ==
  ASSUME NEW projects, NEW order, projects \in Seq(ToSet(projects)), IsInjective(projects),
         order \in Seq(ToSet(projects)), IsInjective(order)
  PROVE  /\ Len(order) <= Len(projects)
         /\ Len(order) = Len(projects) <=> \A p \in ToSet(projects) : \E j \in 1..Len(order) : order[j] = p
<1> DEFINE all == ToSet(projects)
           N == Len(projects)
           L == Len(order)
<1>1. N \in Nat /\ L \in Nat /\ DOMAIN projects = 1..N /\ DOMAIN order = 1..L
  OBVIOUS
<1>2. IsFiniteSet(1..N) /\ Cardinality(1..N) = N /\ IsFiniteSet(1..L) /\ Cardinality(1..L) = L
  <2>1. ASSUME NEW n \in Nat PROVE IsFiniteSet(1..n) /\ Cardinality(1..n) = n
    <3>1. IsFiniteSet(1..n) /\ Cardinality(1..n) = IF 1 > n THEN 0 ELSE n - 1 + 1
      BY FS_Interval
    <3> QED BY <3>1
  <2> HIDE DEF N, L
  <2> QED BY <1>1, <2>1
<1>3. projects \in Injection(1..N, all) /\ projects \in Surjection(1..N, all)
  <2>1. projects \in [1..N -> all]
    BY <1>1
  <2>2. \A p \in all : \E n \in 1..N : projects[n] = p
    BY <1>1 DEF ToSet
  <2> HIDE DEF all, N
  <2>3. \A a, b \in 1..N : projects[a] = projects[b] => a = b
    BY <1>1 DEF IsInjective
  <2> QED BY <1>1, <2>1, <2>2, <2>3 DEF Injection, Surjection, IsInjective
<1>4. order \in Injection(1..L, all)
  <2>1. order \in [1..L -> all]
    BY <1>1
  <2> HIDE DEF all, L
  <2> QED BY <1>1, <2>1 DEF Injection, IsInjective
<1>5. IsFiniteSet(all) /\ Cardinality(all) = N
  <2> HIDE DEF all, N
  <2> QED BY <1>2, <1>3, FS_Surjection
<1>6. L <= N /\ (L = N <=> order \in Surjection(1..L, all))
  <2> HIDE DEF all, N, L
  <2> QED BY <1>2, <1>4, <1>5, FS_Injection
<1>7. order \in Surjection(1..L, all) <=> \A p \in all : \E j \in 1..L : order[j] = p
  <2>1. order \in [1..L -> all]
    BY <1>1
  <2> HIDE DEF all, L
  <2> QED BY <2>1 DEF Surjection
<1> QED BY <1>6, <1>7

OrderRight(projects, edges, order) ==
  /\ order \in Seq(ToSet(projects)) /\ IsInjective(order) /\ Sorted(edges, order)
  /\ Len(order) = Len(projects) => \A p \in ToSet(projects) : \E j \in 1..Len(order) : order[j] = p
  /\ Len(order) # Len(projects) <=> LoopIn(ToSet(projects), edges)

\* Projects in a loop are never queued, and who is left waits for others that are left.
LEMMA OrderIsRight ==
  ASSUME NEW projects, NEW edges, GraphOf(projects, edges)
  PROVE  OrderRight(projects, edges, Ordered(projects, edges))
<1> DEFINE N == Len(projects)
           all == ToSet(projects)
           order == Ordered(projects, edges)
           L == Len(order)
<1>1. PICK t : Queueing(all, edges, t, N + 1, 0) /\ t.queued = order
  BY OrderIsSorted
<1> HIDE DEF order
<1>2. order \in Seq(all) /\ IsInjective(order) /\ Sorted(edges, order)
  BY <1>1 DEF Queueing, Queues
<1>3. projects \in Seq(all) /\ IsInjective(projects) /\ edges \in Seq(all \X all)
  BY DEF GraphOf
<1>4. L <= N /\ (L = N <=> \A p \in all : \E j \in 1..L : order[j] = p) /\ L \in Nat /\ N \in Nat
  BY <1>2, <1>3, OrderIsBounded
<1>5. \A j \in 1..L : order[j] \in all
  BY <1>2
<1>6. ASSUME L = N, NEW loop \in (SUBSET all) \ {{}},
             \A q \in loop : \E p \in loop : <<p, q>> \in ToSet(edges)
      PROVE  FALSE
  <2> DEFINE At == {j \in 1..L : order[j] \in loop}
  <2>1. PICK q : q \in loop
    BY <1>6
  <2>2. PICK i \in 1..L : order[i] = q
    BY <1>4, <1>6, <2>1
  <2>3. At \subseteq Nat /\ At # {}
    BY <2>1, <2>2
  <2> HIDE DEF At
  <2>4. PICK j \in At : \A k \in At : j <= k
    BY <2>3, NatMin
  <2>5. j \in 1..L /\ order[j] \in loop
    BY <2>4 DEF At
  <2>6. PICK p \in loop : <<p, order[j]>> \in ToSet(edges)
    BY <1>6, <2>5
  <2>7. PICK e \in Into(edges, order[j]) : edges[e][1] = p
    BY <1>3, <2>6, EdgeDepends DEF Joined
  <2>8. PICK k \in 1..(j - 1) : edges[e][1] = order[k]
    BY <1>2, <2>5, <2>7 DEF Sorted
  <2>9. k \in 1..L /\ ~ (j <= k)
    BY <1>4, <2>5
  <2> QED BY <2>4, <2>6, <2>7, <2>8, <2>9 DEF At
<1>7. ASSUME L # N PROVE LoopIn(all, edges)
  <2> DEFINE left == {p \in all : \A j \in 1..L : order[j] # p}
  <2>1. left \in (SUBSET all) \ {{}}
    <3>1. PICK p \in all : ~ \E j \in 1..L : order[j] = p
      BY <1>4, <1>7
    <3> QED BY <3>1
  <2>2. ASSUME NEW q \in left PROVE \E p \in left : <<p, q>> \in ToSet(edges)
    <3>1. q \in all /\ ~ \E j \in 1..L : order[j] = q
      BY <2>2
    <3>2. t.indegree[q] # 0
      BY <1>1, <3>1 DEF Queueing, QueuedAtZero
    <3>3. t.indegree[q] = Cardinality(Into(edges, q) \ Away(edges, order, N + 1, 0))
      BY <1>1, <3>1 DEF Queueing, Counted
    <3>4. Into(edges, q) \ Away(edges, order, N + 1, 0) # {}
      BY <3>2, <3>3, FS_EmptySet
    <3>5. PICK e \in Into(edges, q) : e \notin Away(edges, order, N + 1, 0)
      BY <3>4
    <3>6. e \in DOMAIN edges /\ edges[e] \in all \X all /\ edges[e][1] \in all
      BY <1>3 DEF Into
    <3>7. \A j \in 1..L : edges[e][1] # order[j]
      <4>1. \A j \in 1..L : j < N + 1
        BY <1>4
      <4> QED BY <3>5, <3>6, <4>1 DEF Away
    <3>8. <<edges[e][1], q>> \in ToSet(edges)
      BY <1>3, EdgeDepends DEF Joined
    <3> QED BY <3>6, <3>7, <3>8
  <2> HIDE DEF left
  <2> QED BY <2>1, <2>2 DEF LoopIn
<1>8. L # N <=> LoopIn(all, edges)
  <2> HIDE DEF L, N, all
  <2> QED BY <1>6, <1>7 DEF LoopIn
<1>9. OrderRight(projects, edges, order)
  BY <1>2, <1>4, <1>8 DEF OrderRight
<1> QED BY <1>9 DEF order

-----------------------------------------------------------------------------
(***************************************************************************)
(* The ways.  A project reaches its children when its own distance is      *)
(* final, as all its producers had their turn; what has to be kept is that *)
(* no edge of who had its turn makes a way longer.                         *)
(***************************************************************************)
WaysOn(all) == [distance : [all -> Nat], parent : [all -> all \cup {Nothing}]]

Relaxed(all, t, s, e) ==
  LET longer == s.distance[e[1]] + 1 > s.distance[e[2]]
  IN /\ t \in WaysOn(all)
     /\ t.distance = IF longer THEN [s.distance EXCEPT ![e[2]] = s.distance[e[1]] + 1] ELSE s.distance
     /\ t.parent = IF longer THEN [s.parent EXCEPT ![e[2]] = e[1]] ELSE s.parent

LEMMA RelaxTyped ==
  ASSUME NEW all, NEW s \in WaysOn(all), NEW e \in all \X all
  PROVE  Relaxed(all, Relax(s, e), s, e)
<1>1. /\ e[1] \in all /\ e[2] \in all /\ s.distance \in [all -> Nat]
      /\ s.parent \in [all -> all \cup {Nothing}] /\ s.distance[e[1]] + 1 \in Nat
  BY DEF WaysOn
<1>2. [s.distance EXCEPT ![e[2]] = s.distance[e[1]] + 1] \in [all -> Nat]
  BY <1>1
<1>3. [s.parent EXCEPT ![e[2]] = e[1]] \in [all -> all \cup {Nothing}]
  BY <1>1
<1>4. CASE s.distance[e[1]] + 1 > s.distance[e[2]]
  BY <1>2, <1>3, <1>4 DEF Relax, Relaxed, WaysOn
<1>5. CASE ~ (s.distance[e[1]] + 1 > s.distance[e[2]])
  BY <1>5 DEF Relax, Relaxed, WaysOn
<1> QED BY <1>4, <1>5

EdgesOfReach(r, all, edges, s, p) ==
  /\ r \in [0..Len(edges) -> WaysOn(all)] /\ r[0] = s
  /\ \A i \in 1..Len(edges) :
       r[i] = IF edges[i][1] = p THEN Relax(r[i - 1], edges[i]) ELSE r[i - 1]
  /\ Reach(edges, s, p) = r[Len(edges)]

LEMMA ReachByEdges ==
  ASSUME NEW all, NEW edges \in Seq(all \X all), NEW s \in WaysOn(all), NEW p
  PROVE  \E r : EdgesOfReach(r, all, edges, s, p)
<1> DEFINE N == Len(edges)
           S == WaysOn(all)
           Then(n, t) == IF edges[n][1] = p THEN Relax(t, edges[n]) ELSE t
           F(r) == [n \in 0..N |-> IF n = 0 THEN s
                                   ELSE IF edges[n][1] = p THEN Relax(r[n - 1], edges[n]) ELSE r[n - 1]]
           r == CHOOSE r : r = F(r)
           h == [n \in 1..N |-> [t \in S |-> Then(n, t)]]
<1>1. N \in Nat /\ \A n \in 1..N : edges[n] \in all \X all
  OBVIOUS
<1>2. \A n \in 1..N : \A t \in S : Then(n, t) \in S
  BY <1>1, RelaxTyped DEF Relaxed
<1>3. s \in S
  OBVIOUS
<1>4. Reach(edges, s, p) = r[N]
  BY DEF Reach
<1>5. \E f : f = F(f)
  <2>1. h \in [1..N -> [S -> S]]
    BY <1>2
  <2>2. \A n \in 1..N : \A t \in S : h[n][t] = Then(n, t)
    OBVIOUS
  <2> HIDE DEF h, N, S, Then
  <2>3. PICK f : Follows(f, N, S, s, h)
    BY <1>1, <1>3, <2>1, Recursion
  <2>4. \A n \in 1..N : f[n] = Then(n, f[n - 1])
    <3>1. \A n \in 1..N : n - 1 \in 0..N
      BY <1>1
    <3> QED BY <2>2, <2>3, <3>1 DEF Follows
  <2>5. f = [n \in 0..N |-> IF n = 0 THEN s ELSE Then(n, f[n - 1])]
    <3>1. \A n \in 0..N : n = 0 \/ n \in 1..N
      BY <1>1
    <3> QED BY <2>3, <2>4, <3>1 DEF Follows
  <2>6. f = F(f)
    BY <2>5 DEF Then, N
  <2> QED BY <2>6
<1>6. r = F(r)
  <2> HIDE DEF F
  <2> QED BY <1>5
<1> HIDE DEF r
<1>7. \A n \in 0..N : r[n] = IF n = 0 THEN s ELSE Then(n, r[n - 1])
  BY <1>6
<1>8. r[0] = s /\ \A n \in 1..N : r[n] = Then(n, r[n - 1])
  BY <1>1, <1>7
<1>9. \A n \in 0..N : r[n] \in S
  <2> DEFINE G == {n \in 0..N : r[n] \in S}
  <2>1. \A n \in 1..N : n \in 0..N /\ n - 1 \in 0..N
    BY <1>1
  <2> HIDE DEF N, S, Then
  <2>3. 0 \in G /\ \A n \in 1..N : n - 1 \in G => n \in G
    BY <1>1, <1>2, <1>3, <1>8, <2>1
  <2> HIDE DEF G
  <2>2. \A n \in 0..N : n \in G
    BY <1>1, <2>3, UpTo
  <2> QED BY <2>2 DEF G
<1>10. r \in [0..N -> S]
  BY <1>6, <1>9
<1> HIDE DEF S
<1> QED BY <1>4, <1>8, <1>10 DEF S, EdgesOfReach

WaysAfter(r, all, order, edges, first) ==
  /\ r \in [0..Len(order) -> WaysOn(all)] /\ r[0] = first
  /\ \A n \in 1..Len(order) : r[n] = Reach(edges, r[n - 1], order[n])
  /\ Ways(order, edges) = r[Len(order)]

LEMMA WaysByTurns ==
  ASSUME NEW all, NEW order \in Seq(all), all = ToSet(order), NEW edges \in Seq(all \X all),
         NEW first \in WaysOn(all),
         first = [distance |-> [p \in ToSet(order) |-> 0],
                  parent   |-> [p \in ToSet(order) |-> Nothing]]
  PROVE  \E r : WaysAfter(r, all, order, edges, first)
<1> DEFINE N == Len(order)
           S == WaysOn(all)
           Then(n, t) == Reach(edges, t, order[n])
           F(r) == [n \in 0..N |->
                      IF n = 0
                      THEN [distance |-> [p \in ToSet(order) |-> 0],
                            parent   |-> [p \in ToSet(order) |-> Nothing]]
                      ELSE Reach(edges, r[n - 1], order[n])]
           r == CHOOSE r : r = F(r)
           h == [n \in 1..N |-> [t \in S |-> Then(n, t)]]
<1>1. N \in Nat
  OBVIOUS
<1>2. ASSUME NEW n \in 1..N, NEW t \in S PROVE Then(n, t) \in S
  <2>1. PICK q : EdgesOfReach(q, all, edges, t, order[n])
    BY ReachByEdges
  <2>2. Len(edges) \in 0..Len(edges)
    OBVIOUS
  <2>3. Then(n, t) = q[Len(edges)]
    BY <2>1 DEF EdgesOfReach
  <2>4. q \in [0..Len(edges) -> S]
    BY <2>1 DEF EdgesOfReach
  <2> HIDE DEF Then, S
  <2> QED BY <2>2, <2>3, <2>4
<1>3. first \in S
  OBVIOUS
<1>4. Ways(order, edges) = r[N]
  BY DEF Ways
<1>5. \E f : f = F(f)
  <2>1. h \in [1..N -> [S -> S]]
    <3> HIDE DEF S, N, Then
    <3> QED BY <1>2
  <2>2. \A n \in 1..N : \A t \in S : h[n][t] = Then(n, t)
    OBVIOUS
  <2> HIDE DEF h, N, S, Then
  <2>3. PICK f : Follows(f, N, S, first, h)
    BY <1>1, <1>3, <2>1, Recursion
  <2>4. \A n \in 1..N : f[n] = Then(n, f[n - 1])
    <3>1. \A n \in 1..N : n - 1 \in 0..N
      BY <1>1
    <3> QED BY <2>2, <2>3, <3>1 DEF Follows
  <2>5. f = [n \in 0..N |-> IF n = 0 THEN first ELSE Then(n, f[n - 1])]
    <3>1. \A n \in 0..N : n = 0 \/ n \in 1..N
      BY <1>1
    <3> QED BY <2>3, <2>4, <3>1 DEF Follows
  <2>6. f = F(f)
    BY <2>5 DEF Then, N
  <2> QED BY <2>6
<1>6. r = F(r)
  <2> HIDE DEF F
  <2> QED BY <1>5
<1> HIDE DEF r
<1>7. \A n \in 0..N : r[n] = IF n = 0 THEN first ELSE Then(n, r[n - 1])
  BY <1>6
<1>8. r[0] = first /\ \A n \in 1..N : r[n] = Then(n, r[n - 1])
  BY <1>1, <1>7
<1>9. \A n \in 0..N : r[n] \in S
  <2> DEFINE G == {n \in 0..N : r[n] \in S}
  <2>1. \A n \in 1..N : n \in 0..N /\ n - 1 \in 0..N
    BY <1>1
  <2> HIDE DEF N, S, Then
  <2>3. 0 \in G /\ \A n \in 1..N : n - 1 \in G => n \in G
    BY <1>1, <1>2, <1>3, <1>8, <2>1
  <2> HIDE DEF G
  <2>2. \A n \in 0..N : n \in G
    BY <1>1, <2>3, UpTo
  <2> QED BY <2>2 DEF G
<1>10. r \in [0..N -> S]
  BY <1>6, <1>9
<1> HIDE DEF S
<1> QED BY <1>4, <1>8, <1>10 DEF S, WaysAfter

\* An order of all the projects in which everyone comes after whom it waits for.
InOrder(all, edges, order) ==
  /\ edges \in Seq(all \X all) /\ order \in Seq(all)
  /\ \A j, k \in 1..Len(order) : order[j] = order[k] => j = k
  /\ \A p \in all : \E j \in 1..Len(order) : order[j] = p
  /\ Sorted(edges, order) /\ Nothing \notin all

\* A distance is that of a way up to a project without a parent, which is shorter than the
\* place in the order; a parent had its turn, so its distance is final.
Placed(order, s) == \A j \in 1..Len(order) : s.distance[order[j]] < j
Rooted(all, s) == \A q \in all : s.parent[q] = Nothing <=> s.distance[q] = 0
Linked(all, edges, s) ==
  \A q \in all : s.parent[q] # Nothing =>
    <<s.parent[q], q>> \in ToSet(edges) /\ s.distance[q] = s.distance[s.parent[q]] + 1
Turned(all, order, s, n) ==
  \A q \in all : s.parent[q] # Nothing => \E j \in 1..Len(order) : j <= n /\ s.parent[q] = order[j]
\* The edges of whom had its turn make no way longer.
Final(edges, order, s, n, i) ==
  \A e \in Away(edges, order, n, i) : s.distance[edges[e][2]] >= s.distance[edges[e][1]] + 1

Reaching(all, edges, order, s, n, i) ==
  /\ s \in WaysOn(all) /\ Placed(order, s) /\ Rooted(all, s) /\ Linked(all, edges, s)
  /\ Turned(all, order, s, n) /\ Final(edges, order, s, n, i)

LEMMA RelaxKeeps ==
  ASSUME NEW all, NEW edges, NEW order, InOrder(all, edges, order), NEW s, NEW t,
         NEW n \in 1..Len(order), NEW i \in 1..Len(edges),
         Reaching(all, edges, order, s, n, i - 1),
         t = IF edges[i][1] = order[n] THEN Relax(s, edges[i]) ELSE s
  PROVE  Reaching(all, edges, order, t, n, i)
<1> DEFINE p == edges[i][1]
           q == edges[i][2]
           L == Len(order)
<1>0. edges \in Seq(all \X all) /\ order \in Seq(all)
  BY DEF InOrder
<1>1. /\ L \in Nat /\ n \in Nat /\ Len(edges) \in Nat /\ i \in Nat
      /\ DOMAIN edges = 1..Len(edges) /\ \A j \in 1..L : order[j] \in all
  BY <1>0
<1>2. p \in all /\ q \in all /\ \A e \in 1..Len(edges) : edges[e][1] \in all /\ edges[e][2] \in all
  <2>1. \A e \in 1..Len(edges) : edges[e] \in all \X all
    BY <1>0
  <2> QED BY <2>1
<1>3. s \in WaysOn(all) /\ s.distance \in [all -> Nat] /\ s.parent \in [all -> all \cup {Nothing}]
  BY DEF Reaching, WaysOn
<1>4. \A e \in DOMAIN edges : \A j \in 1..L :
        (edges[e][1] = order[j] /\ (j < n \/ (j = n /\ e <= i)))
          <=> ((edges[e][1] = order[j] /\ (j < n \/ (j = n /\ e <= i - 1)))
                 \/ (e = i /\ j = n /\ edges[i][1] = order[n]))
  BY <1>1
<1>5. Away(edges, order, n, i) =
        Away(edges, order, n, i - 1) \cup {e \in {i} : p = order[n]}
  <2>1. Away(edges, order, n, i) \subseteq Away(edges, order, n, i - 1) \cup {e \in {i} : p = order[n]}
    BY <1>4 DEF Away
  <2>2. Away(edges, order, n, i - 1) \subseteq Away(edges, order, n, i)
    BY <1>4 DEF Away
  <2>3. {e \in {i} : p = order[n]} \subseteq Away(edges, order, n, i)
    BY <1>1, <1>4 DEF Away
  <2> QED BY <2>1, <2>2, <2>3
<1>6. CASE p # order[n]
  BY <1>5, <1>6 DEF Reaching, Final
<1>7. CASE p = order[n]
  <2>1. Relaxed(all, t, s, edges[i])
    <3>1. t = Relax(s, edges[i])
      BY <1>7
    <3>2. edges[i] \in all \X all
      BY DEF InOrder
    <3> QED BY <1>3, <3>1, <3>2, RelaxTyped
  <2>2. CASE ~ (s.distance[p] + 1 > s.distance[q])
    <3>1. t.distance = s.distance /\ t.parent = s.parent /\ t \in WaysOn(all)
      BY <2>1, <2>2 DEF Relaxed
    <3>2. t = s
      BY <1>3, <3>1 DEF WaysOn
    <3>3. s.distance[q] >= s.distance[p] + 1
      BY <1>2, <1>3, <2>2
    <3>4. Final(edges, order, s, n, i)
      BY <1>5, <3>3 DEF Reaching, Final
    <3> QED BY <3>2, <3>4 DEF Reaching
  <2>3. CASE s.distance[p] + 1 > s.distance[q]
    <3>1. /\ t \in WaysOn(all)
          /\ t.distance = [s.distance EXCEPT ![q] = s.distance[p] + 1]
          /\ t.parent = [s.parent EXCEPT ![q] = p]
      BY <2>1, <2>3 DEF Relaxed
    <3>2. /\ t.distance[q] = s.distance[p] + 1 /\ t.parent[q] = p
          /\ \A o \in all : o # q => t.distance[o] = s.distance[o] /\ t.parent[o] = s.parent[o]
          /\ \A o \in all : s.distance[o] \in Nat
          /\ \A o \in all : s.parent[o] # Nothing => s.parent[o] \in all
      BY <1>2, <1>3, <3>1
    \* q has its place after n, so nothing that is settled changes.
    <3>3. PICK k \in 1..L : order[k] = q
      BY <1>2 DEF InOrder
    <3>4. n < k
      <4>1. i \in Into(edges, order[k])
        BY <1>1, <3>3 DEF Into
      <4>2. PICK j \in 1..(k - 1) : edges[i][1] = order[j]
        BY <3>3, <4>1 DEF InOrder, Sorted
      <4>3. j \in 1..L /\ j < k
        BY <1>1
      <4>4. j = n
        BY <1>7, <4>2, <4>3 DEF InOrder
      <4> QED BY <4>3, <4>4
    <3>5. \A j \in 1..L : j <= n => order[j] # q
      <4>1. ~ (k <= n)
        BY <1>1, <3>4
      <4> QED BY <3>3, <4>1 DEF InOrder
    <3>6. p # q
      BY <1>1, <1>7, <3>5
    <3> HIDE DEF p, q, L
    <3>7. Placed(order, t)
      <4> SUFFICES ASSUME NEW j \in 1..L PROVE t.distance[order[j]] < j
        BY DEF Placed, L
      <4>1. s.distance[order[j]] < j /\ s.distance[order[n]] < n
        BY DEF Reaching, Placed, L
      <4>2. CASE order[j] # q
        BY <1>1, <3>2, <4>1, <4>2
      <4>3. CASE order[j] = q
        <5>1. j = k
          BY <3>3, <4>3 DEF InOrder, L
        <5>2. s.distance[p] \in Nat /\ s.distance[p] < n
          BY <1>2, <1>7, <3>2, <4>1
        <5> QED BY <1>1, <3>2, <3>4, <4>3, <5>1, <5>2
      <4> QED BY <4>2, <4>3
    <3>8. Rooted(all, t)
      <4>1. p # Nothing /\ s.distance[p] + 1 # 0
        <5>1. p # Nothing
          BY <1>2 DEF InOrder
        <5>2. s.distance[p] \in Nat
          BY <1>2, <3>2
        <5> QED BY <5>1, <5>2
      <4> QED BY <3>2, <4>1 DEF Reaching, Rooted
    <3>9. \A o \in all : s.parent[o] # Nothing => s.parent[o] # q
      BY <3>5 DEF Reaching, Turned, L
    <3>10. Linked(all, edges, t)
      <4> SUFFICES ASSUME NEW o \in all, t.parent[o] # Nothing
                   PROVE  /\ <<t.parent[o], o>> \in ToSet(edges)
                          /\ t.distance[o] = t.distance[t.parent[o]] + 1
        BY DEF Linked
      <4>1. CASE o = q
        <5>1. <<p, q>> \in ToSet(edges)
          <6>1. i \in Into(edges, q)
            BY <1>1 DEF Into, q
          <6>2. edges \in Seq(all \X all)
            BY DEF InOrder
          <6> QED BY <6>1, <6>2, EdgeDepends DEF p, Joined
        <5> QED BY <1>2, <3>2, <3>6, <4>1, <5>1
      <4>2. CASE o # q
        <5>1. s.parent[o] # Nothing /\ t.parent[o] = s.parent[o] /\ t.distance[o] = s.distance[o]
          BY <3>2, <4>2
        <5>2. <<s.parent[o], o>> \in ToSet(edges) /\ s.distance[o] = s.distance[s.parent[o]] + 1
          BY <5>1 DEF Reaching, Linked
        <5>3. t.distance[s.parent[o]] = s.distance[s.parent[o]]
          BY <3>2, <3>9, <5>1
        <5> QED BY <5>1, <5>2, <5>3
      <4> QED BY <4>1, <4>2
    <3>11. Turned(all, order, t, n)
      <4>1. n \in 1..L /\ n <= n
        BY <1>1 DEF L
      <4> QED BY <1>7, <3>2, <4>1 DEF Reaching, Turned, L
    <3>12. Final(edges, order, t, n, i)
      <4> SUFFICES ASSUME NEW e \in Away(edges, order, n, i)
                   PROVE  t.distance[edges[e][2]] >= t.distance[edges[e][1]] + 1
        BY DEF Final
      <4>1. PICK j \in 1..L : edges[e][1] = order[j] /\ j <= n
        BY <1>1 DEF Away, L
      <4>2. e \in 1..Len(edges)
        BY <1>1 DEF Away
      <4>3. edges[e][1] \in all /\ edges[e][2] \in all /\ t.distance[edges[e][1]] = s.distance[edges[e][1]]
        <5> DEFINE x == edges[e][1]
        <5>1. x \in all /\ edges[e][2] \in all
          BY <1>2, <4>2
        <5>2. x # q
          <6> HIDE DEF x
          <6>1. x = order[j] /\ j \in 1..L /\ j <= n
            BY <4>1 DEF x
          <6> QED BY <3>5, <6>1
        <5>3. t.distance[x] = s.distance[x]
          <6> HIDE DEF x
          <6> QED BY <3>2, <5>1, <5>2
        <5> QED BY <5>1, <5>3
      <4>4. CASE e = i
        <5>1. edges[e][2] = q /\ edges[e][1] = p
          BY <4>4 DEF p, q
        <5>2. t.distance[q] = s.distance[p] + 1 /\ t.distance[p] = s.distance[p]
          BY <3>2, <4>3, <5>1
        <5>3. s.distance[p] + 1 \in Nat
          <6>1. s.distance[p] \in Nat
            BY <1>2, <3>2
          <6> QED BY <6>1
        <5>4. t.distance[q] >= t.distance[p] + 1
          BY <5>2, <5>3
        <5> QED BY <5>1, <5>4
      <4>5. CASE e # i
        <5> DEFINE x == edges[e][1]
                   y == edges[e][2]
        <5>1. s.distance[y] >= s.distance[x] + 1
          BY <1>5, <4>5 DEF Reaching, Final
        <5>2. x \in all /\ y \in all /\ t.distance[x] = s.distance[x]
          BY <4>3
        <5> HIDE DEF x, y
        <5>3. s.distance[x] \in Nat /\ s.distance[y] \in Nat /\ s.distance[p] \in Nat /\ s.distance[q] \in Nat
          BY <1>2, <3>2, <5>2
        <5>4. t.distance[y] \in Nat /\ t.distance[y] >= s.distance[y]
          <6>1. CASE y = q
            <7>1. t.distance[q] = s.distance[p] + 1
              BY <3>2
            <7>2. s.distance[p] + 1 > s.distance[q]
              BY <2>3
            <7>3. s.distance[p] + 1 \in Nat /\ s.distance[p] + 1 >= s.distance[q]
              <8> DEFINE a == s.distance[p]
                         b == s.distance[q]
              <8>1. a \in Nat /\ b \in Nat /\ a + 1 > b
                BY <5>3, <7>2
              <8> HIDE DEF a, b
              <8>2. a + 1 \in Nat /\ a + 1 >= b
                BY <8>1
              <8> QED BY <8>2 DEF a, b
            <7> QED BY <6>1, <7>1, <7>3
          <6>2. CASE y # q
            BY <3>2, <5>2, <5>3, <6>2
          <6> QED BY <6>1, <6>2
        <5>5. t.distance[y] >= t.distance[x] + 1
          <6> DEFINE a == s.distance[x]
                     b == s.distance[y]
                     c == t.distance[y]
          <6>1. a \in Nat /\ b \in Nat /\ c \in Nat /\ b >= a + 1 /\ c >= b
            BY <5>1, <5>3, <5>4
          <6>2. t.distance[x] = a
            BY <5>2
          <6> HIDE DEF a, b, c
          <6>3. c >= a + 1
            BY <6>1
          <6> QED BY <6>2, <6>3 DEF c
        <5> QED BY <5>5 DEF x, y
      <4> QED BY <4>4, <4>5
    <3> QED BY <3>1, <3>7, <3>8, <3>10, <3>11, <3>12 DEF Reaching
  <2> QED BY <2>2, <2>3
<1> QED BY <1>6, <1>7

LEMMA ReachKeeps ==
  ASSUME NEW all, NEW edges, NEW order, InOrder(all, edges, order), NEW s,
         NEW n \in 1..Len(order), Reaching(all, edges, order, s, n, 0)
  PROVE  Reaching(all, edges, order, Reach(edges, s, order[n]), n + 1, 0)
<1>1. edges \in Seq(all \X all) /\ order \in Seq(all) /\ s \in WaysOn(all)
  BY DEF InOrder, Reaching
<1>2. Len(edges) \in Nat /\ Len(order) \in Nat /\ n \in Nat
  BY <1>1
<1>3. PICK r : EdgesOfReach(r, all, edges, s, order[n])
  BY <1>1, ReachByEdges
<1> DEFINE Good(i) == Reaching(all, edges, order, r[i], n, i)
           G == {i \in 0..Len(edges) : Good(i)}
<1>4. 0 \in G
  BY <1>2, <1>3 DEF EdgesOfReach
<1>5. ASSUME NEW i \in 1..Len(edges), i - 1 \in G PROVE i \in G
  <2>1. Good(i - 1)
    BY <1>5
  <2>2. r[i] = IF edges[i][1] = order[n] THEN Relax(r[i - 1], edges[i]) ELSE r[i - 1]
    BY <1>3 DEF EdgesOfReach
  <2>3. Good(i)
    BY <2>1, <2>2, RelaxKeeps
  <2> QED BY <1>2, <2>3
<1>6. Good(Len(edges))
  <2> HIDE DEF Good
  <2>1. \A i \in 0..Len(edges) : i \in G
    <3> HIDE DEF G
    <3> QED BY <1>2, <1>4, <1>5, UpTo
  <2> QED BY <1>2, <2>1
<1> DEFINE t == Reach(edges, s, order[n])
<1>7. Reaching(all, edges, order, t, n, Len(edges))
  BY <1>3, <1>6 DEF EdgesOfReach
<1>8. Away(edges, order, n, Len(edges)) = Away(edges, order, n + 1, 0)
  BY <1>1, <1>2, AwayByTurns
<1>9. \A j \in 1..Len(order) : j <= n => j <= n + 1
  BY <1>2
<1> HIDE DEF t
<1>10. Turned(all, order, t, n + 1)
  BY <1>7, <1>9 DEF Reaching, Turned
<1>11. Reaching(all, edges, order, t, n + 1, 0)
  BY <1>7, <1>8, <1>10 DEF Reaching, Final
<1> QED BY <1>11 DEF t

\* What the ways come to: distances that no edge makes longer.
WaysRight(all, edges, order, w) ==
  /\ w \in WaysOn(all) /\ Placed(order, w) /\ Rooted(all, w) /\ Linked(all, edges, w)
  /\ \A p, q \in all : <<p, q>> \in ToSet(edges) => w.distance[q] >= w.distance[p] + 1

LEMMA WaysAreRight ==
  ASSUME NEW all, NEW edges, NEW order, InOrder(all, edges, order)
  PROVE  WaysRight(all, edges, order, Ways(order, edges))
<1> DEFINE L == Len(order)
           first == [distance |-> [p \in ToSet(order) |-> 0],
                     parent   |-> [p \in ToSet(order) |-> Nothing]]
<1>1. edges \in Seq(all \X all) /\ order \in Seq(all)
  BY DEF InOrder
<1>2. L \in Nat /\ DOMAIN order = 1..L /\ \A j \in 1..L : order[j] \in all
  BY <1>1
<1>3. all = ToSet(order)
  BY <1>2 DEF ToSet, InOrder
<1>4. first \in WaysOn(all)
  BY <1>3 DEF WaysOn
<1>5. Reaching(all, edges, order, first, 1, 0)
  <2>1. \A q \in all : first.distance[q] = 0 /\ first.parent[q] = Nothing
    BY <1>3
  <2>2. Away(edges, order, 1, 0) = {}
    <3>1. \A e \in DOMAIN edges : \A j \in 1..L : ~ (j < 1) /\ ~ (e <= 0)
      BY <1>1, <1>2
    <3> QED BY <3>1 DEF Away
  <2>3. \A j \in 1..L : 0 < j
    BY <1>2
  <2> HIDE DEF first
  <2>4. Placed(order, first)
    BY <1>2, <2>1, <2>3 DEF Placed
  <2>5. Rooted(all, first) /\ Linked(all, edges, first) /\ Turned(all, order, first, 1)
    BY <2>1 DEF Rooted, Linked, Turned
  <2>6. Final(edges, order, first, 1, 0)
    BY <2>2 DEF Final
  <2> QED BY <1>4, <2>4, <2>5, <2>6 DEF Reaching
<1>6. first = [distance |-> [p \in ToSet(order) |-> 0],
               parent   |-> [p \in ToSet(order) |-> Nothing]]
  OBVIOUS
<1> HIDE DEF first
<1>7. PICK r : WaysAfter(r, all, order, edges, first)
  BY <1>1, <1>3, <1>4, <1>6, WaysByTurns
<1> DEFINE Good(n) == Reaching(all, edges, order, r[n], n + 1, 0)
           G == {n \in 0..L : Good(n)}
<1>8. 0 \in G
  BY <1>2, <1>5, <1>7 DEF WaysAfter
<1>9. ASSUME NEW n \in 1..L, n - 1 \in G PROVE n \in G
  <2>1. Reaching(all, edges, order, r[n - 1], n, 0)
    BY <1>9
  <2>2. r[n] = Reach(edges, r[n - 1], order[n])
    BY <1>7 DEF WaysAfter
  <2>3. Good(n)
    BY <2>1, <2>2, ReachKeeps
  <2> QED BY <1>2, <2>3
<1>10. Good(L)
  <2> HIDE DEF Good
  <2>1. \A n \in 0..L : n \in G
    <3> HIDE DEF G
    <3> QED BY <1>2, <1>8, <1>9, UpTo
  <2> QED BY <1>2, <2>1
<1> DEFINE w == Ways(order, edges)
<1>11. Reaching(all, edges, order, w, L + 1, 0)
  BY <1>7, <1>10 DEF WaysAfter
<1> HIDE DEF w
<1>12. ASSUME NEW p \in all, NEW q \in all, <<p, q>> \in ToSet(edges)
       PROVE  w.distance[q] >= w.distance[p] + 1
  <2>1. PICK e \in Into(edges, q) : edges[e][1] = p
    <3>1. Joined(edges, p, q)
      BY <1>1, <1>12, EdgeDepends
    <3> QED BY <3>1 DEF Joined
  <2>2. e \in DOMAIN edges /\ edges[e][2] = q
    BY <2>1 DEF Into
  <2>3. PICK j \in 1..L : order[j] = p
    BY DEF InOrder
  <2>4. j < L + 1
    BY <1>2
  <2>5. e \in Away(edges, order, L + 1, 0)
    BY <2>1, <2>2, <2>3, <2>4 DEF Away
  <2> QED BY <1>11, <2>1, <2>2, <2>5 DEF Reaching, Final
<1>13. WaysRight(all, edges, order, w)
  BY <1>11, <1>12 DEF WaysRight, Reaching
<1> QED BY <1>13 DEF w

LEMMA ForemostIsGreatest ==
  ASSUME NEW S, NEW s \in Seq(S), s # <<>>, NEW size \in [S -> Nat]
  PROVE  /\ Foremost(s, size) \in S
         /\ \A j \in DOMAIN s : size[s[j]] <= size[Foremost(s, size)]
<1> DEFINE N == Len(s)
           Best(i, n) == i \in 1..n /\ \A j \in 1..n : size[s[j]] <= size[s[i]]
           G == {n \in 0..N : n = 0 \/ \E i \in 1..n : Best(i, n)}
           best == {i \in DOMAIN s : \A j \in DOMAIN s : size[s[j]] <= size[s[i]]}
<1>1. N \in Nat /\ N # 0 /\ DOMAIN s = 1..N /\ \A i \in 1..N : s[i] \in S /\ size[s[i]] \in Nat
  OBVIOUS
<1>2. ASSUME NEW n \in 1..N, n - 1 \in G PROVE n \in G
  <2>1. n \in 0..N /\ n \in 1..n /\ \A j \in 1..n : j = n \/ j \in 1..(n - 1)
    BY <1>1
  <2>2. \A j \in 1..(n - 1) : j \in 1..n /\ j \in 1..N
    BY <1>1
  <2>3. CASE n - 1 = 0
    <3>1. \A j \in 1..n : j = n
      BY <2>3
    <3>2. Best(n, n)
      BY <1>1, <2>1, <3>1
    <3> QED BY <2>1, <3>2
  <2>4. CASE n - 1 # 0
    <3>1. PICK i \in 1..(n - 1) : Best(i, n - 1)
      BY <1>2, <2>4
    <3>2. size[s[i]] \in Nat /\ size[s[n]] \in Nat /\ \A j \in 1..(n - 1) : size[s[j]] \in Nat
      BY <1>1, <2>2
    <3>3. CASE size[s[n]] <= size[s[i]]
      <4>1. Best(i, n)
        BY <2>1, <2>2, <3>1, <3>3
      <4> QED BY <2>1, <2>2, <4>1
    <3>4. CASE ~ (size[s[n]] <= size[s[i]])
      <4>1. \A j \in 1..(n - 1) : size[s[j]] <= size[s[n]]
        BY <3>1, <3>2, <3>4
      <4>2. Best(n, n)
        BY <2>1, <3>2, <4>1
      <4> QED BY <2>1, <4>2
    <3> QED BY <3>3, <3>4
  <2> QED BY <2>3, <2>4
<1>3. N \in G
  <2>1. 0 \in G
    BY <1>1
  <2> HIDE DEF G
  <2>2. \A n \in 0..N : n \in G
    BY <1>1, <1>2, <2>1, UpTo
  <2> QED BY <1>1, <2>2
<1>4. best \subseteq Nat /\ best # {}
  <2>1. PICK i \in 1..N : Best(i, N)
    BY <1>1, <1>3
  <2>2. i \in best
    BY <1>1, <2>1
  <2> QED BY <1>1, <2>2
<1> DEFINE b == CHOOSE i \in best : \A j \in best : i <= j
<1>5. b \in best
  <2> HIDE DEF best
  <2>1. \E i \in best : \A j \in best : i <= j
    BY <1>4, NatMin
  <2> QED BY <2>1
<1>6. Foremost(s, size) = s[b]
  BY DEF Foremost
<1> HIDE DEF b
<1> QED BY <1>1, <1>5, <1>6

\* A way cannot be longer than the distance of its end allows.
LEMMA WayIsBounded ==
  ASSUME NEW all, NEW edges, NEW distance \in [all -> Nat],
         \A p, q \in all : <<p, q>> \in ToSet(edges) => distance[q] >= distance[p] + 1,
         NEW m \in Nat, m # 0, NEW s \in [1..m -> all],
         \A i \in 1..(m - 1) : <<s[i], s[i + 1]>> \in ToSet(edges)
  PROVE  distance[s[m]] >= m - 1
<1> DEFINE G == {i \in 0..m : i # 0 => distance[s[i]] >= i - 1}
<1>1. 0 \in G
  OBVIOUS
<1>2. ASSUME NEW i \in 1..m, i - 1 \in G PROVE i \in G
  <2>1. i \in 0..m /\ s[i] \in all /\ distance[s[i]] \in Nat
    OBVIOUS
  <2>2. CASE i = 1
    BY <2>1, <2>2
  <2>3. CASE i # 1
    <3>1. i - 1 \in 1..(m - 1) /\ (i - 1) + 1 = i /\ i - 1 \in 1..m
      BY <2>3
    <3>2. <<s[i - 1], s[i]>> \in ToSet(edges)
      BY <3>1
    <3>3. s[i - 1] \in all /\ distance[s[i - 1]] \in Nat
      BY <3>1
    <3>4. distance[s[i]] >= distance[s[i - 1]] + 1
      BY <2>1, <3>2, <3>3
    <3>5. distance[s[i - 1]] >= (i - 1) - 1
      BY <1>2, <2>3
    <3> DEFINE x == distance[s[i]]
               y == distance[s[i - 1]]
    <3>6. x \in Nat /\ y \in Nat /\ x >= y + 1 /\ y >= (i - 1) - 1
      BY <2>1, <3>3, <3>4, <3>5
    <3> HIDE DEF x, y
    <3>7. x >= i - 1
      BY <3>6
    <3> QED BY <2>1, <3>7 DEF x
  <2> QED BY <2>2, <2>3
<1>3. \A i \in 0..m : i \in G
  <2> HIDE DEF G
  <2> QED BY <1>1, <1>2, UpTo
<1> QED BY <1>3

NonEmpty(all) == {b \in Seq(all) : b # <<>>}

Prepended(all, t, x, b) ==
  /\ t \in NonEmpty(all) /\ Len(t) = Len(b) + 1 /\ t[1] = x
  /\ \A i \in 1..Len(b) : t[i + 1] = b[i]

LEMMA PrependTyped ==
  ASSUME NEW all, NEW x \in all, NEW b \in NonEmpty(all)
  PROVE  Prepended(all, <<x>> \o b, x, b)
<1>1. b \in Seq(all) /\ <<x>> \in Seq(all) /\ Len(<<x>>) = 1
  BY DEF NonEmpty
<1>2. /\ <<x>> \o b \in Seq(all) /\ Len(<<x>> \o b) = Len(b) + 1 /\ Len(b) \in Nat
      /\ (<<x>> \o b)[1] = x /\ \A i \in 1..Len(b) : (<<x>> \o b)[i + 1] = b[i]
  BY <1>1
<1>3. <<x>> \o b # <<>>
  BY <1>2
<1> QED BY <1>2, <1>3 DEF Prepended, NonEmpty

HeadOf(b) == b[1]

LEMMA HeadTyped ==
  ASSUME NEW all, NEW b \in NonEmpty(all)
  PROVE  Head(b) = HeadOf(b) /\ HeadOf(b) \in all /\ Len(b) \in Nat /\ Len(b) # 0
<1>1. b \in Seq(all) /\ b # <<>>
  BY DEF NonEmpty
<1> QED BY <1>1 DEF HeadOf

UpFrom(r, all, order, ways) ==
  /\ r \in [0..Len(order) -> NonEmpty(all)] /\ r[0] = <<Foremost(order, ways.distance)>>
  /\ \A n \in 1..Len(order) :
       r[n] = IF ways.parent[HeadOf(r[n - 1])] = Nothing THEN r[n - 1]
              ELSE <<ways.parent[HeadOf(r[n - 1])]>> \o r[n - 1]
  /\ Back(order, ways) = r[Len(order)]

LEMMA BackByParents ==
  ASSUME NEW all, NEW order \in Seq(all), NEW ways \in WaysOn(all),
         Foremost(order, ways.distance) \in all
  PROVE  \E r : UpFrom(r, all, order, ways)
<1> DEFINE N == Len(order)
           S == NonEmpty(all)
           first == <<Foremost(order, ways.distance)>>
           Then(n, b) == IF ways.parent[Head(b)] = Nothing THEN b ELSE <<ways.parent[Head(b)]>> \o b
           F(r) == [n \in 0..N |->
                      IF n = 0 THEN <<Foremost(order, ways.distance)>>
                      ELSE IF ways.parent[Head(r[n - 1])] = Nothing THEN r[n - 1]
                      ELSE <<ways.parent[Head(r[n - 1])]>> \o r[n - 1]]
           r == CHOOSE r : r = F(r)
           h == [n \in 1..N |-> [b \in S |-> Then(n, b)]]
<1>1. N \in Nat
  OBVIOUS
<1>2. ASSUME NEW n \in 1..N, NEW b \in S PROVE Then(n, b) \in S
  <2>1. Head(b) \in all
    BY HeadTyped
  <2>2. ways.parent[Head(b)] \in all \cup {Nothing}
    BY <2>1 DEF WaysOn
  <2>3. CASE ways.parent[Head(b)] = Nothing
    BY <2>3
  <2>4. CASE ways.parent[Head(b)] # Nothing
    <3> DEFINE x == ways.parent[Head(b)]
    <3>1. x \in all
      BY <2>2, <2>4
    <3>2. Then(n, b) = <<x>> \o b
      BY <2>4
    <3> HIDE DEF x, Then
    <3> QED BY <3>1, <3>2, PrependTyped DEF Prepended
  <2> QED BY <2>3, <2>4
<1>3. first \in S
  BY DEF NonEmpty
<1>4. Back(order, ways) = r[N]
  BY DEF Back
<1>5. \E f : f = F(f)
  <2>1. h \in [1..N -> [S -> S]]
    <3> HIDE DEF S, N, Then
    <3> QED BY <1>2
  <2>2. \A n \in 1..N : \A b \in S : h[n][b] = Then(n, b)
    OBVIOUS
  <2> HIDE DEF h, N, S, Then, first
  <2>3. PICK f : Follows(f, N, S, first, h)
    BY <1>1, <1>3, <2>1, Recursion
  <2>4. \A n \in 1..N : f[n] = Then(n, f[n - 1])
    <3>1. \A n \in 1..N : n - 1 \in 0..N
      BY <1>1
    <3> QED BY <2>2, <2>3, <3>1 DEF Follows
  <2>5. f = [n \in 0..N |-> IF n = 0 THEN first ELSE Then(n, f[n - 1])]
    <3>1. \A n \in 0..N : n = 0 \/ n \in 1..N
      BY <1>1
    <3> QED BY <2>3, <2>4, <3>1 DEF Follows
  <2>6. f = F(f)
    BY <2>5 DEF Then, N, first
  <2> QED BY <2>6
<1>6. r = F(r)
  <2> HIDE DEF F
  <2> QED BY <1>5
<1> HIDE DEF r
<1>7. \A n \in 0..N : r[n] = IF n = 0 THEN first ELSE Then(n, r[n - 1])
  BY <1>6
<1>8. r[0] = first /\ \A n \in 1..N : r[n] = Then(n, r[n - 1])
  <2> HIDE DEF first, Then
  <2> QED BY <1>1, <1>7
<1>9. \A n \in 0..N : r[n] \in S
  <2> DEFINE G == {n \in 0..N : r[n] \in S}
  <2>1. \A n \in 1..N : n \in 0..N /\ n - 1 \in 0..N
    BY <1>1
  <2> HIDE DEF N, S, Then, first
  <2>3. 0 \in G /\ \A n \in 1..N : n - 1 \in G => n \in G
    BY <1>1, <1>2, <1>3, <1>8, <2>1
  <2> HIDE DEF G
  <2>2. \A n \in 0..N : n \in G
    BY <1>1, <2>3, UpTo
  <2> QED BY <2>2 DEF G
<1>10. r \in [0..N -> S]
  <2> HIDE DEF S
  <2> QED BY <1>6, <1>9
<1>11. \A n \in 1..N : Head(r[n - 1]) = HeadOf(r[n - 1])
  <2>1. \A n \in 1..N : n - 1 \in 0..N
    BY <1>1
  <2> HIDE DEF N
  <2> QED BY <1>9, <2>1, HeadTyped
<1>12. \A n \in 1..N : r[n] = IF ways.parent[HeadOf(r[n - 1])] = Nothing THEN r[n - 1]
                              ELSE <<ways.parent[HeadOf(r[n - 1])]>> \o r[n - 1]
  <2> HIDE DEF N, first
  <2> QED BY <1>8, <1>11
<1> QED BY <1>4, <1>8, <1>10, <1>12 DEF UpFrom

IsWay(edges, s) == \A i \in 1..(Len(s) - 1) : <<s[i], s[i + 1]>> \in ToSet(edges)

\* From the end back to its root there are as many projects as its distance says.
LEMMA BackIsRight ==
  ASSUME NEW all, NEW edges, NEW order, InOrder(all, edges, order), order # <<>>,
         NEW ways, WaysRight(all, edges, order, ways)
  PROVE  /\ Back(order, ways) \in NonEmpty(all) /\ IsWay(edges, Back(order, ways))
         /\ \A q \in all : ways.distance[q] < Len(Back(order, ways))
<1> DEFINE N == Len(order)
           d == ways.distance
           end == Foremost(order, d)
<1>1. order \in Seq(all) /\ N \in Nat /\ DOMAIN order = 1..N
  BY DEF InOrder
<1>2. ways \in WaysOn(all) /\ d \in [all -> Nat] /\ ways.parent \in [all -> all \cup {Nothing}]
  BY DEF WaysRight, WaysOn
<1>3. end \in all /\ \A j \in 1..N : d[order[j]] <= d[end]
  <2> HIDE DEF d
  <2> QED BY <1>1, <1>2, ForemostIsGreatest
<1> HIDE DEF end, d
<1>4. \A q \in all : d[q] <= d[end] /\ d[q] \in Nat /\ d[q] < N
  <2> SUFFICES ASSUME NEW q \in all PROVE d[q] <= d[end] /\ d[q] \in Nat /\ d[q] < N
    OBVIOUS
  <2>1. PICK j \in 1..N : order[j] = q
    BY DEF InOrder
  <2>2. d[order[j]] < j
    BY DEF WaysRight, Placed, d
  <2>3. d[q] \in Nat /\ j \in Nat /\ j <= N
    BY <1>1, <1>2
  <2>4. d[q] <= d[end] /\ d[q] < j
    BY <1>3, <2>1, <2>2
  <2> QED BY <1>1, <2>3, <2>4
<1>5. PICK r : UpFrom(r, all, order, ways)
  BY <1>1, <1>2, <1>3, BackByParents DEF end, d
<1> DEFINE Good(b, n) == /\ b \in NonEmpty(all) /\ IsWay(edges, b)
                         /\ Len(b) + d[HeadOf(b)] = d[end] + 1
                         /\ ways.parent[HeadOf(b)] = Nothing \/ Len(b) = n + 1
           G == {n \in 0..N : Good(r[n], n)}
<1>6. 0 \in G
  <2>1. r[0] = <<end>>
    BY <1>5 DEF UpFrom, end, d
  <2>2. <<end>> \in NonEmpty(all) /\ Len(<<end>>) = 1 /\ HeadOf(<<end>>) = end
    BY <1>3 DEF NonEmpty, HeadOf
  <2>3. IsWay(edges, <<end>>)
    BY <2>2 DEF IsWay
  <2>4. 1 + d[end] = d[end] + 1
    BY <1>3, <1>4
  <2>5. Good(r[0], 0)
    BY <2>1, <2>2, <2>3, <2>4
  <2> HIDE DEF Good
  <2> QED BY <1>1, <2>5
<1>7. ASSUME NEW n \in 1..N, n - 1 \in G PROVE n \in G
  <2> DEFINE b == r[n - 1]
             t == r[n]
             x == ways.parent[HeadOf(b)]
  <2>1. Good(b, n - 1)
    BY <1>7
  <2>2. t = IF x = Nothing THEN b ELSE <<x>> \o b
    BY <1>5 DEF UpFrom
  <2>3. HeadOf(b) \in all /\ Len(b) \in Nat /\ Len(b) # 0
    BY <2>1, HeadTyped
  <2>4. x \in all \cup {Nothing}
    BY <1>2, <2>3
  <2>5. CASE x = Nothing
    <3>1. Good(t, n)
      BY <2>1, <2>2, <2>5
    <3> HIDE DEF Good
    <3> QED BY <1>1, <3>1
  <2>6. CASE x # Nothing
    <3>1. x \in all
      BY <2>4, <2>6
    <3>2. t = <<x>> \o b
      BY <2>2, <2>6
    <3>3. <<x, HeadOf(b)>> \in ToSet(edges) /\ d[HeadOf(b)] = d[x] + 1
      BY <2>3, <2>6 DEF WaysRight, Linked, d
    <3>4. Len(b) = n
      BY <1>1, <2>1, <2>6
    <3> HIDE DEF b, t, x
    <3>5. Prepended(all, t, x, b)
      BY <2>1, <3>1, <3>2, PrependTyped
    <3>6. HeadOf(t) = x /\ Len(t) = Len(b) + 1 /\ t \in NonEmpty(all)
      BY <3>5 DEF Prepended, HeadOf
    <3>7. IsWay(edges, t)
      <4> SUFFICES ASSUME NEW i \in 1..(Len(t) - 1) PROVE <<t[i], t[i + 1]>> \in ToSet(edges)
        BY DEF IsWay
      <4>1. CASE i = 1
        <5>1. t[i] = x /\ t[i + 1] = HeadOf(b)
          BY <2>3, <3>5, <4>1 DEF Prepended, HeadOf
        <5> QED BY <3>3, <5>1
      <4>2. CASE i # 1
        <5>1. i - 1 \in 1..(Len(b) - 1) /\ i - 1 \in 1..Len(b) /\ i \in 1..Len(b) /\ (i - 1) + 1 = i
          BY <2>3, <3>6, <4>2
        <5>2. t[(i - 1) + 1] = b[i - 1] /\ t[i + 1] = b[(i - 1) + 1]
          BY <3>5, <5>1 DEF Prepended
        <5>3. <<b[i - 1], b[(i - 1) + 1]>> \in ToSet(edges)
          BY <2>1, <5>1 DEF IsWay
        <5> QED BY <5>1, <5>2, <5>3
      <4> QED BY <4>1, <4>2
    <3>8. Len(t) + d[HeadOf(t)] = d[end] + 1
      <4>1. d[x] \in Nat /\ Len(b) + (d[x] + 1) = d[end] + 1
        BY <1>4, <2>1, <3>1, <3>3
      <4>2. (Len(b) + 1) + d[x] = Len(b) + (d[x] + 1)
        BY <2>3, <4>1
      <4> QED BY <3>6, <4>1, <4>2
    <3>9. Good(t, n)
      BY <3>4, <3>6, <3>7, <3>8
    <3> HIDE DEF Good
    <3> QED BY <1>1, <3>9 DEF t
  <2> QED BY <2>5, <2>6
<1> DEFINE b == r[N]
<1>8. Good(b, N)
  <2> HIDE DEF Good
  <2>1. \A n \in 0..N : n \in G
    <3> HIDE DEF G
    <3> QED BY <1>1, <1>6, <1>7, UpTo
  <2> QED BY <1>1, <2>1
<1>9. Back(order, ways) = b
  BY <1>5 DEF UpFrom
<1> HIDE DEF b
<1>10. HeadOf(b) \in all /\ Len(b) \in Nat
  BY <1>8, HeadTyped
<1>11. d[HeadOf(b)] \in Nat /\ d[end] \in Nat /\ d[end] < N
  BY <1>3, <1>4, <1>10
<1>12. Len(b) = d[end] + 1
  <2>1. Len(b) + d[HeadOf(b)] = d[end] + 1
    BY <1>8
  <2>2. CASE ways.parent[HeadOf(b)] = Nothing
    <3>1. d[HeadOf(b)] = 0
      BY <1>10, <2>2 DEF WaysRight, Rooted, d
    <3> QED BY <1>10, <2>1, <3>1
  <2>3. CASE Len(b) = N + 1
    BY <1>1, <1>11, <2>1, <2>3
  <2> QED BY <1>8, <2>2, <2>3
<1>13. \A q \in all : d[q] < Len(b)
  BY <1>4, <1>11, <1>12
<1> QED BY <1>8, <1>9, <1>13 DEF d

LEMMA BlockingIsGreatest ==
  ASSUME NEW projects, NEW edges, GraphOf(projects, edges), projects # <<>>, NEW p \in ToSet(projects)
  PROVE  OutDegree(edges, p)
           <= OutDegree(edges, Foremost(projects, [o \in ToSet(projects) |-> OutDegree(edges, o)]))
<1> DEFINE all == ToSet(projects)
           size == [o \in ToSet(projects) |-> OutDegree(edges, o)]
<1>1. projects \in Seq(all) /\ edges \in Seq(all \X all)
  BY DEF GraphOf
<1>2. ASSUME NEW o \in all PROVE OutDegree(edges, o) \in Nat
  <2>1. {i \in DOMAIN edges : edges[i][1] = o} \subseteq 1..Len(edges) /\ Len(edges) \in Nat
    BY <1>1
  <2>2. IsFiniteSet(1..Len(edges))
    <3>1. 1 \in Int /\ Len(edges) \in Int
      BY <2>1
    <3> HIDE DEF all
    <3> QED BY <3>1, FS_Interval
  <2>3. IsFiniteSet({i \in DOMAIN edges : edges[i][1] = o})
    BY <2>1, <2>2, FS_Subset
  <2> QED BY <2>3, FS_CardinalityType DEF OutDegree
<1>3. size \in [all -> Nat]
  BY <1>2
<1>4. \A o \in all : size[o] = OutDegree(edges, o)
  OBVIOUS
<1>5. PICK j \in DOMAIN projects : p = projects[j]
  BY DEF ToSet
<1> HIDE DEF size, all
<1>6. Foremost(projects, size) \in all /\ size[projects[j]] <= size[Foremost(projects, size)]
  BY <1>1, <1>3, ForemostIsGreatest
<1>7. p \in all
  BY DEF all
<1> QED BY <1>4, <1>5, <1>6, <1>7 DEF size

LEMMA LongestIsRight ==
  ASSUME NEW projects, NEW edges, GraphOf(projects, edges), projects # <<>>,
         Nothing \notin ToSet(projects),
         NEW is, is = LongestPath(projects, edges)
  PROVE  /\ is.cycle \in BOOLEAN /\ (is.cycle <=> LoopIn(ToSet(projects), edges))
         /\ ~is.cycle =>
              /\ is.path # <<>> /\ IsWay(edges, is.path)
              /\ \A s \in [1..Len(is.path) + 1 -> ToSet(projects)] : ~IsWay(edges, s)
<1> DEFINE all == ToSet(projects)
           order == Ordered(projects, edges)
           ways == Ways(order, edges)
<1>1. OrderRight(projects, edges, order)
  BY OrderIsRight
<1>2. CASE Len(order) # Len(projects)
  <2>1. is.cycle = TRUE
    BY <1>2 DEF LongestPath
  <2> QED BY <1>1, <1>2, <2>1 DEF OrderRight
<1>3. CASE Len(order) = Len(projects)
  <2>1. is.cycle = FALSE /\ is.path = Back(order, ways)
    BY <1>3 DEF LongestPath
  <2> HIDE DEF order
  <2>2. order \in Seq(all) /\ edges \in Seq(all \X all) /\ projects \in Seq(all)
    BY <1>1 DEF OrderRight, GraphOf
  <2>3. InOrder(all, edges, order)
    <3>1. \A j, k \in 1..Len(order) : order[j] = order[k] => j = k
      BY <1>1, <2>2 DEF OrderRight, IsInjective
    <3> QED BY <1>1, <1>3, <2>2, <3>1 DEF OrderRight, InOrder
  <2>4. order # <<>>
    BY <1>3, <2>2
  <2>5. WaysRight(all, edges, order, ways)
    BY <2>3, WaysAreRight
  <2> HIDE DEF ways, all
  <2> DEFINE path == Back(order, ways)
             d == ways.distance
  <2>6. path \in NonEmpty(all) /\ IsWay(edges, path) /\ \A q \in all : d[q] < Len(path)
    BY <2>3, <2>4, <2>5, BackIsRight
  <2>7. d \in [all -> Nat] /\ \A p, q \in all : <<p, q>> \in ToSet(edges) => d[q] >= d[p] + 1
    BY <2>5 DEF WaysRight, WaysOn
  <2> HIDE DEF path, d
  <2>8. Len(path) \in Nat /\ path # <<>>
    BY <2>6 DEF NonEmpty
  <2>9. ASSUME NEW s \in [1..Len(path) + 1 -> all], IsWay(edges, s) PROVE FALSE
    <3> DEFINE m == Len(path) + 1
    <3>1. m \in Nat /\ m # 0 /\ m \in 1..m
      BY <2>8
    <3>2. Len(s) = m
      BY <2>8
    <3> HIDE DEF m
    <3>3. s \in [1..m -> all]
      BY <2>9 DEF m
    <3>4. \A i \in 1..(m - 1) : <<s[i], s[i + 1]>> \in ToSet(edges)
      BY <2>9, <3>2 DEF IsWay
    <3>5. d[s[m]] >= m - 1
      BY <2>7, <3>1, <3>3, <3>4, WayIsBounded
    <3>6. s[m] \in all
      BY <3>1, <3>3
    <3>7. d[s[m]] < Len(path) /\ d[s[m]] \in Nat
      BY <2>6, <2>7, <3>6
    <3> QED BY <2>8, <3>5, <3>7 DEF m
  <2>10. ~ LoopIn(all, edges)
    BY <1>1, <1>3 DEF OrderRight, all
  <2> QED BY <2>1, <2>6, <2>8, <2>9, <2>10 DEF path, all
<1> QED BY <1>2, <1>3

LEMMA StepPath ==
  ASSUME Shape, NEW g \in PathGraphs, FindCriticalPath(g)
  PROVE  PathIsLongest'
<1> DEFINE projects == g[1]
           edges == g[2]
           is == LongestPath(projects, edges)
<1>1. outside'.answer = [gate |-> "path", projects |-> projects, edges |-> edges, is |-> is]
  BY DEF FindCriticalPath, Shape
<1>2. GraphOf(projects, edges) /\ projects # <<>> /\ Nothing \notin ToSet(projects)
  BY GraphsAreOfProjects DEF GraphOf
<1>3. is.blocking = Foremost(projects, [o \in ToSet(projects) |-> OutDegree(edges, o)])
  BY DEF LongestPath
<1> HIDE DEF is, projects, edges
<1>4. /\ is.cycle \in BOOLEAN /\ (is.cycle <=> LoopIn(ToSet(projects), edges))
      /\ ~is.cycle =>
           /\ is.path # <<>> /\ IsWay(edges, is.path)
           /\ \A s \in [1..Len(is.path) + 1 -> ToSet(projects)] : ~IsWay(edges, s)
  BY <1>2, LongestIsRight DEF is
<1>5. \A p \in ToSet(projects) : OutDegree(edges, p) <= OutDegree(edges, is.blocking)
  BY <1>2, <1>3, BlockingIsGreatest
<1> DEFINE k == outside'.answer
<1>6. k.projects = projects /\ k.edges = edges /\ k.is = is
  BY <1>1
<1> HIDE DEF k
<1>7. k.is.cycle <=> \E loop \in (SUBSET ToSet(k.projects)) \ {{}} :
                       \A q \in loop : \E p \in loop : <<p, q>> \in ToSet(k.edges)
  BY <1>4, <1>6 DEF LoopIn
<1>8. ~k.is.cycle => k.is.path # <<>> /\ IsWay(k.edges, k.is.path)
  BY <1>4, <1>6
<1>9. ASSUME ~k.is.cycle, NEW s \in [1..Len(k.is.path) + 1 -> ToSet(k.projects)], IsWay(k.edges, s)
      PROVE  FALSE
  BY <1>4, <1>6, <1>9
<1>10. \A p \in ToSet(k.projects) : OutDegree(k.edges, p) <= OutDegree(k.edges, k.is.blocking)
  BY <1>5, <1>6
<1> QED BY <1>7, <1>8, <1>9, <1>10 DEF PathIsLongest, IsWay, k

-----------------------------------------------------------------------------
(***************************************************************************)
(* The answers together.                                                   *)
(***************************************************************************)
AnswersOnRecord ==
  /\ PolicyFailsClosed /\ PlanIsUsable /\ PilotIsBound
  /\ GoverningIsInForce /\ PathIsLongest

LEMMA StepAnswers ==
  ASSUME Shape, AnswersOnRecord, [Next]_vars
  PROVE  AnswersOnRecord'
<1> DEFINE Goal == AnswersOnRecord'
<1>1. ASSUME outside'.answer = outside.answer PROVE Goal
  <2>1. (PolicyFailsClosed /\ PlanIsUsable /\ PilotIsBound /\ GoverningIsInForce)'
    BY <1>1 DEF AnswersOnRecord, PolicyFailsClosed, PlanIsUsable, PilotIsBound, GoverningIsInForce, Answered
  <2>2. PathIsLongest'
    BY <1>1 DEF AnswersOnRecord, PathIsLongest
  <2> QED BY <2>1, <2>2 DEF AnswersOnRecord
<1>2. ASSUME NEW c \in PolicyContexts, NEW rules \in RuleSequences, DecidePolicy(c, rules) PROVE Goal
  <2>1. PolicyFailsClosed'
    BY <1>2, StepPolicy
  <2>2. outside'.answer.gate = "policy"
    BY <1>2 DEF DecidePolicy, Shape
  <2> QED BY <2>1, <2>2 DEF AnswersOnRecord, PlanIsUsable, PilotIsBound, GoverningIsInForce, PathIsLongest, Answered
<1>3. ASSUME NEW p \in ToolProfiles, NEW q \in ToolRequests, PlanTools(p, q) PROVE Goal
  <2>1. PlanIsUsable'
    BY <1>3, StepPlan
  <2>2. outside'.answer.gate = "plan"
    BY <1>3 DEF PlanTools, Shape
  <2> QED BY <2>1, <2>2 DEF AnswersOnRecord, PolicyFailsClosed, PilotIsBound, GoverningIsInForce, PathIsLongest, Answered
<1>4. ASSUME NEW p \in PilotPackages, NEW q \in PilotRequests, DecidePilot(p, q) PROVE Goal
  <2>1. PilotIsBound'
    BY <1>4, StepPilot
  <2>2. outside'.answer.gate = "pilot"
    BY <1>4 DEF DecidePilot, Shape
  <2> QED BY <2>1, <2>2 DEF AnswersOnRecord, PolicyFailsClosed, PlanIsUsable, GoverningIsInForce, PathIsLongest, Answered
<1>5. ASSUME NEW s \in (SUBSET InstructionPool) \ {{}}, NEW p \in DecisionProject,
             NEW decisions \in Optional({d \in SUBSET DecisionPool : ValidDecisionRegistry(d)}),
             ResolveInstructions(s, p, decisions) PROVE Goal
  <2>1. decisions # Nothing => ValidDecisionRegistry(decisions)
    BY DEF Optional
  <2>2. GoverningIsInForce'
    BY <1>5, <2>1, StepInstructions
  <2>3. outside'.answer.gate = "instructions"
    BY <1>5 DEF ResolveInstructions, Shape
  <2> QED BY <2>2, <2>3 DEF AnswersOnRecord, PolicyFailsClosed, PlanIsUsable, PilotIsBound, PathIsLongest, Answered
<1>6. ASSUME NEW g \in PathGraphs, FindCriticalPath(g) PROVE Goal
  <2>1. outside'.answer.gate = "path"
    BY <1>6 DEF FindCriticalPath, Shape
  <2>2. PathIsLongest'
    BY <1>6, StepPath
  <2> QED BY <2>1, <2>2 DEF AnswersOnRecord, PolicyFailsClosed, PlanIsUsable, PilotIsBound, GoverningIsInForce, Answered
<1>7. outside'["answer"] # outside["answer"] => AnswersNext
  BY OwnersOfOutside DEF Shape
<1> HIDE DEF Goal
<1>8. ASSUME AnswersNext PROVE Goal
  BY <1>2, <1>3, <1>4, <1>5, <1>6, <1>8 DEF AnswersNext
<1> QED BY <1>1, <1>7, <1>8 DEF Goal

AnswersInv ==
  /\ TypesInv /\ AnswersOnRecord /\ ClearedForGoodReason
  /\ ObjectsAreCatalogued /\ KeysArePairs /\ ReadinessIsContiguous

LEMMA InitAnswers == Init => AnswersInv
<1> SUFFICES ASSUME Init PROVE AnswersInv
  OBVIOUS
<1>1. outside.answer = Nothing /\ outside.cleared = Nothing
  BY DEF Init
<1>2. AnswersOnRecord /\ ClearedForGoodReason
  BY <1>1 DEF AnswersOnRecord, PolicyFailsClosed, PlanIsUsable, PilotIsBound, GoverningIsInForce,
              PathIsLongest, Answered, ClearedForGoodReason
<1>3. ObjectsAreCatalogued
  BY DEF Init, ObjectsAreCatalogued, NoDatabase
<1>4. KeysArePairs /\ ReadinessIsContiguous
  BY DEF Init, KeysArePairs, ReadinessIsContiguous, NoInbox, NoAssessments
<1> QED BY <1>2, <1>3, <1>4, InitTypes DEF AnswersInv

LEMMA StepAnswered ==
  ASSUME AnswersInv, [Next]_vars
  PROVE  AnswersInv'
<1>1. Shape /\ RuntimesTyped
  BY DEF AnswersInv, TypesInv, EvidenceInv, KeepsInv, OneAtATimeInv
<1>2. TypesInv'
  BY StepTypes DEF AnswersInv
<1>3. AnswersOnRecord' /\ ClearedForGoodReason'
  BY <1>1, StepAnswers, StepCleared DEF AnswersInv
<1>4. ObjectsAreCatalogued' /\ KeysArePairs' /\ ReadinessIsContiguous'
  BY <1>1, StepCatalogued, StepKeys, StepReadiness DEF AnswersInv
<1> QED BY <1>2, <1>3, <1>4 DEF AnswersInv

(***************************************************************************)
(* The answers the services give from the records are right in every state *)
(* of every behaviour: the policy gate fails closed, a plan is usable when *)
(* it is stored, a pilot is bound to its decision, a stop is cleared for a *)
(* recorded reason, nothing waits unseen in the inbox, what a scan finds   *)
(* is catalogued, readiness is contiguous, the records agree, what governs *)
(* is in force, and the critical path is a longest path of its graph.      *)
(***************************************************************************)
THEOREM AnswersAreRightHolds == Spec => []AnswersAreRight
<1>1. AnswersInv => AnswersAreRight
  <2>1. AnswersInv => SnapshotsAreValid /\ ReportsAgree
    BY DEF AnswersInv, TypesInv, EvidenceInv, KeepsInv, OneAtATimeInv
  <2>2. AnswersInv => NothingWaitsUnseen /\ FoundIsCatalogued /\ RecordsAgree
    BY <2>1, InboxIsRight, CataloguedIsFound, AgreeIsRecords DEF AnswersInv
  <2> QED BY <2>2 DEF AnswersInv, AnswersOnRecord, AnswersAreRight
<1> QED BY <1>1, InitAnswers, StepAnswered, PTL DEF Spec
=============================================================================
