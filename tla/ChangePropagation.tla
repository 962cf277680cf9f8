--------------------------- MODULE ChangePropagation ---------------------------
(***************************************************************************)
(* What a change in one project means to the others.  A graph says which   *)
(* project consumes a contract of which; a registry of contract versions   *)
(* is bound to one graph; an accepted change becomes an event bound to     *)
(* both; each project it affects gets an item in its inbox; and an         *)
(* analysis of the event says which projects may go on.                    *)
(***************************************************************************)
EXTENDS StateSections

CONSTANTS
  GraphPool,      \* graph snapshots: revision, projects, edges, what they declare
  ContractPool,   \* contract snapshots: revision, records, bindings
  EventPool,      \* changes: id, change, type, project, affected, edge, contract
  ImpactReceipts, \* revalidation receipts: event, project, authority
  InboxEvidence,  \* evidence of a transition, Nothing among it
  MaxClock,       \* clock readings: an event holds the time of its call
  MaxEvents

ASSUME GraphsAreFinite == \A g \in GraphPool : IsFiniteSet(g.edges) /\ IsFiniteSet(g.projects)
ASSUME ClockIsBounded == MaxClock \in Nat

EventType == {"DEPENDENCY", "BOUNDARY", "RUNTIME", "PUBLISHED", "DEPRECATED", "RETIRED", "OTHER"}
ContractEvents == {"PUBLISHED", "DEPRECATED", "RETIRED"}
ASSUME EventsAreTyped == \A v \in EventPool : v.type \in EventType
InboxStatus == {"OPEN", "ACKNOWLEDGED", "REVALIDATION", "DEFERRED", "RESOLVED"}

NoInbox == [k \in {} |-> Nothing]

\* A snapshot as it was when it was taken: its hash stands for its content.
Graphs    == ToSet(state.graphs)
Contracts == ToSet(state.contracts)
Events    == ToSet(state.events)

-----------------------------------------------------------------------------
(***************************************************************************)
(* The dependency graph.                                                   *)
(***************************************************************************)
ActiveEdges(g) == {e \in g.edges : e.status = "ACTIVE"}

Declared(g) ==
  \A e \in g.edges : e.id \in g.produced[e.producer] /\ e.id \in g.consumed[e.consumer]

ActiveKeysUnique(g) ==
  \A e, f \in ActiveEdges(g) :
    (/\ e.producer = f.producer /\ e.consumer = f.consumer /\ e.kind = f.kind
     /\ e.contract = f.contract /\ e.version = f.version) => e = f

ValidGraph(g) ==
  LET ids == {e.id : e \in g.edges} IN
  /\ g.edges # {} /\ Cardinality(ids) = Cardinality(g.edges)
  /\ \A e \in g.edges : {e.producer, e.consumer} \subseteq g.projects /\ e.producer # e.consumer
  /\ DOMAIN g.produced = g.projects /\ DOMAIN g.consumed = g.projects
  /\ \A p \in g.projects : g.produced[p] \cup g.consumed[p] \subseteq ids
  /\ Declared(g) /\ ActiveKeysUnique(g)

ImportGraph(g) ==
  /\ ValidGraph(g) /\ ~Known(state.graphs, g)
  /\ Save("graphs", Append(state.graphs, g))

Outgoing(g, project) == {e \in g.edges : e.producer = project}

-----------------------------------------------------------------------------
(***************************************************************************)
(* Versions of contracts.                                                  *)
(***************************************************************************)
GetRecord(c, producer, contract, version) ==
  {r \in c.records : r.producer = producer /\ r.contract = contract /\ r.version = version}

SameContract(r, s) == r.producer = s.producer /\ r.contract = s.contract

CurrentVersionUnique(c) ==
  \A r, s \in c.records :
    (r.lifecycle = "CURRENT" /\ s.lifecycle = "CURRENT" /\ SameContract(r, s)) => r = s

\* The neighbours of a version are named versions of the same contract, not itself.
VersionLineage(c) ==
  \A r \in c.records :
    /\ (r.predecessor = Nothing) <=> (r.compatibility = "INITIAL")
    /\ (r.lifecycle # "CURRENT") => r.successor # Nothing
    /\ \A v \in {r.predecessor, r.successor} \ {Nothing} :
         v # r.version /\ GetRecord(c, r.producer, r.contract, v) # {}

ValidContracts(c) ==
  /\ c.records # {}
  /\ \A r, s \in c.records : (SameContract(r, s) /\ r.version = s.version) => r = s
  /\ CurrentVersionUnique(c) /\ VersionLineage(c)
  /\ \A a, b \in c.bindings : a.edge = b.edge => a = b

Matches(binding, e) ==
  /\ binding.edge = e.id /\ binding.contract = e.contract /\ binding.version = e.version
  /\ binding.producer = e.producer /\ binding.consumer = e.consumer

ServedAlways(c, g) == TRUE   \* mutant: an active edge may consume a retired version
ActiveEdgesServed(c, g) ==
  \A e \in ActiveEdges(g) :
    /\ \E b \in c.bindings : b.edge = e.id
    /\ \E r \in GetRecord(c, e.producer, e.contract, e.version) : r.lifecycle # "RETIRED"

\* _validate_registry_against_graph
ContractsFit(c, g) ==
  /\ \A r \in c.records : r.producer \in g.projects
  /\ \A b \in c.bindings :
       /\ \E e \in g.edges : Matches(b, e)
       /\ GetRecord(c, b.producer, b.contract, b.version) # {}
  /\ ActiveEdgesServed(c, g)

\* The graph is any that was imported; the snapshot is bound to it.
ImportContracts(c, g) ==
  /\ g \in Graphs
  /\ ValidContracts(c) /\ ContractsFit(c, g) /\ ~Known(state.contracts, c)
  /\ Save("contracts", Append(state.contracts,
       [graph |-> g, revision |-> c.revision, records |-> c.records, bindings |-> c.bindings]))

\* require_consumable: the record an edge consumes, if it is not retired.
Consumable(c, edge) ==
  UNION {{r \in GetRecord(c, b.producer, b.contract, b.version) : r.lifecycle # "RETIRED"} :
           b \in {b \in c.bindings : b.edge = edge}}

RequiresRevalidation(c, edge) == \E r \in Consumable(c, edge) : r.compatibility = "BREAKING"

-----------------------------------------------------------------------------
(***************************************************************************)
(* Accepted changes.                                                       *)
(***************************************************************************)
ValidChange(v, g, c) ==
  /\ v.project \in g.projects /\ v.affected \subseteq g.projects /\ v.affected # {}
  /\ v.edge # Nothing => \E e \in g.edges : e.id = v.edge
  /\ v.contract # Nothing =>
       GetRecord(c, v.project, v.contract.id, v.contract.version) # {}
  /\ v.type = "DEPENDENCY" =>
       \E e \in g.edges : e.id = v.edge /\ e.producer = v.project /\ e.consumer \in v.affected
  /\ v.type \in ContractEvents => v.contract # Nothing

\* A repetition of an event or of its change is refused: it holds another time and so
\* has another hash.  What comes of it is nothing, as for a true repetition.
NewAlways(v) == TRUE   \* mutant: a change may be registered twice
NewChange(v) == \A old \in Events : old.id # v.id /\ old.change # v.change

RegisterAcceptedChange(v, g, c) ==
  /\ g \in Graphs /\ c \in Contracts /\ c.graph = g
  /\ Len(state.events) < MaxEvents
  /\ outside.clock < MaxClock /\ v.accepted <= outside.clock
  /\ ValidChange(v, g, c) /\ NewChange(v)
  /\ Save("events", Append(state.events,
       [at |-> outside.clock, graph |-> g, contracts |-> c,
        id |-> v.id, change |-> v.change, type |-> v.type, project |-> v.project,
        affected |-> v.affected, edge |-> v.edge, contract |-> v.contract,
        accepted |-> v.accepted, authority |-> v.authority]))

ClockTicks ==
  /\ outside.clock < MaxClock
  /\ outside' = [outside EXCEPT !.clock = @ + 1]
  /\ UNCHANGED <<state, memory>>

-----------------------------------------------------------------------------
(***************************************************************************)
(* The inbox of a project.                                                 *)
(***************************************************************************)
Receivers(event) == event.affected \ {event.project}

\* ingest_event, of all the events: what is there already stays as it is.
Ingested(inbox, events) ==
  [k \in DOMAIN inbox \cup UNION {{event.id} \X Receivers(event) : event \in events} |->
     IF k \in DOMAIN inbox THEN inbox[k]
     ELSE [status |-> "OPEN", evidence |-> {}, reference |-> Nothing]]

\* sync_registry ingests the events one after the other, each with a save of its own;
\* the process may end after any of them.
SyncRegistry ==
  \E n \in DOMAIN state.events :
    Save("inbox", Ingested(state.inbox, {state.events[i] : i \in 1..n}))

AllowedTransitions ==
  [OPEN         |-> {"ACKNOWLEDGED", "REVALIDATION", "DEFERRED", "RESOLVED"},
   ACKNOWLEDGED |-> {"REVALIDATION", "DEFERRED", "RESOLVED"},
   REVALIDATION |-> {"DEFERRED", "RESOLVED"},
   DEFERRED     |-> {"ACKNOWLEDGED", "REVALIDATION", "RESOLVED"},
   RESOLVED     |-> {}]

Transition(key, project, expected, new, evidence, reference) ==
  /\ key \in DOMAIN state.inbox /\ key[2] = project
  /\ LET item == state.inbox[key] IN
     /\ item.status = expected   \* what the caller last saw
     /\ new \in AllowedTransitions[item.status]
     /\ evidence # Nothing
     /\ new = "RESOLVED" => reference # Nothing
     /\ Save("inbox", [state.inbox EXCEPT ![key] =
          [status |-> new, evidence |-> item.evidence \cup {evidence},
           reference |-> reference]])

UnresolvedForProject(project) ==
  {k \in DOMAIN state.inbox : k[2] = project /\ state.inbox[k].status # "RESOLVED"}

-----------------------------------------------------------------------------
(***************************************************************************)
(* The analysis of an event.                                               *)
(***************************************************************************)
\* The projects a worklist from the seeds finds, along edges of any status.
DownstreamProjects(g, seeds) ==
  LET found[n \in 0..Cardinality(g.projects)] ==
        IF n = 0 THEN seeds
        ELSE found[n - 1] \cup {e.consumer : e \in UNION {Outgoing(g, p) : p \in found[n - 1]}}
  IN found[Cardinality(g.projects)] \ seeds

ItemStatus(inbox, event, project) ==
  IF <<event.id, project>> \in DOMAIN inbox THEN inbox[<<event.id, project>>].status ELSE "none"

\* What the project said of the item comes before what the change is.
ByInbox(status) ==
  CASE status = "RESOLVED"     -> "INFO"
    [] status = "DEFERRED"     -> "DEFERRED"
    [] status = "REVALIDATION" -> "REVALIDATION"
    [] OTHER                   -> "none"

ByType(event) ==
  CASE event.type \in {"RETIRED", "BOUNDARY"}    -> "BLOCKING"
    [] event.type = "DEPRECATED"                 -> "DEFERRED"
    [] event.type \in {"DEPENDENCY", "RUNTIME"}  -> "REVALIDATION"
    [] event.type = "PUBLISHED" /\ event.edge # Nothing
         /\ RequiresRevalidation(event.contracts, event.edge) -> "REVALIDATION"
    [] OTHER                                     -> "INFO"

ClassifyDirect(event, inbox, project) ==
  LET said == ByInbox(ItemStatus(inbox, event, project)) IN
  IF said # "none" THEN said ELSE ByType(event)

ImpactOn(event, inbox, project) ==
  IF project = event.project THEN "INFO"
  ELSE IF project \in event.affected THEN ClassifyDirect(event, inbox, project)
  ELSE IF project \in DownstreamProjects(event.graph, event.affected) THEN "INFO"
  ELSE "NO_IMPACT"

ReceiptMatches(receipt, event, project) ==
  receipt # Nothing /\ receipt.event = event.id /\ receipt.project = project
                    /\ receipt.authority = event.authority

\* A published version is looked up in the bindings: with no consumable one the analysis
\* of the event is refused, for every project of it that has not answered.
Analyzable(event, inbox) ==
  (event.type = "PUBLISHED" /\ event.edge # Nothing /\ Consumable(event.contracts, event.edge) = {})
    => \A p \in Receivers(event) : ByInbox(ItemStatus(inbox, event, p)) # "none"

\* analyze_cross_project_impact and require_project_clear_for_execution: the caller shows
\* a graph and contracts, which must be those of the event.
RequireProjectClear(event, g, c, project, receipt) ==
  LET impact == ImpactOn(event, state.inbox, project) IN
  /\ event.graph = g /\ event.contracts = c
  /\ project \in g.projects /\ Analyzable(event, state.inbox)
  /\ impact # "BLOCKING"
  /\ impact = "REVALIDATION" => ReceiptMatches(receipt, event, project)
  /\ outside' = [outside EXCEPT !.cleared =
       [event |-> event, project |-> project, receipt |-> receipt, impact |-> impact,
        status |-> ItemStatus(state.inbox, event, project)]]
  /\ UNCHANGED <<state, memory>>

-----------------------------------------------------------------------------
ChangesTypeOK ==
  /\ \A g \in Graphs : g \in GraphPool
  /\ \A v \in Events : v.type \in EventType /\ v.at \in 0..MaxClock
  /\ \A k \in DOMAIN state.inbox : state.inbox[k].status \in InboxStatus

\* Every item answers one registered change of another project that affects its own,
\* however often events are repeated and the inbox is synchronised, whole or in part;
\* and one that left OPEN says why.
ItemsAnswerChanges ==
  /\ \A i, j \in DOMAIN state.events :
       (state.events[i].id = state.events[j].id \/ state.events[i].change = state.events[j].change)
         => i = j
  /\ \A k \in DOMAIN state.inbox :
       LET item == state.inbox[k] IN
       /\ \E v \in Events : v.id = k[1] /\ k[2] \in Receivers(v)
       /\ item.status = "OPEN" <=> item.evidence = {}
       /\ item.status = "RESOLVED" => item.reference # Nothing

\* In a snapshot that the contracts are bound to, what an active edge consumes can be
\* consumed, and what a contract has in force is one version: the analysis of an event
\* with an active edge is therefore never refused for it.
ActiveEdgesAreServed ==
  \A c \in Contracts :
    /\ \A e \in ActiveEdges(c.graph) : Cardinality(Consumable(c, e.id)) = 1
    /\ \A r \in c.records :
         Cardinality({s \in c.records : SameContract(r, s) /\ s.lifecycle = "CURRENT"}) <= 1

\* There is a way from a to b along the edges.
Path(g, a, b) ==
  \E n \in 1..Cardinality(g.projects) : \E w \in [0..n -> g.projects] :
    /\ w[0] = a /\ w[n] = b
    /\ \A i \in 1..n : \E e \in g.edges : e.producer = w[i - 1] /\ e.consumer = w[i]

\* A project was cleared to go on: it is not one that the change blocks and that has not
\* answered; where it must revalidate, it showed a receipt for just this change.  And
\* what was called free of impact is not on a way from an affected project.
ClearedForGoodReason ==
  outside.cleared # Nothing =>
    LET k == outside.cleared
        direct == k.project \in Receivers(k.event)
    IN /\ (direct /\ k.event.type \in {"RETIRED", "BOUNDARY"})
            => k.status \in {"RESOLVED", "DEFERRED", "REVALIDATION"}
       /\ (direct /\ k.status \notin {"RESOLVED", "DEFERRED"}
             /\ (k.status = "REVALIDATION" \/ k.event.type \in {"DEPENDENCY", "RUNTIME"}))
            => ReceiptMatches(k.receipt, k.event, k.project)
       /\ k.impact = "NO_IMPACT" =>
            \A p \in k.event.affected : p # k.project /\ ~Path(k.event.graph, p, k.project)
=============================================================================
