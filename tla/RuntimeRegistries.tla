--------------------------- MODULE RuntimeRegistries ---------------------------
(***************************************************************************)
(* Projections of what runs where: the census of agents, the runtime of a  *)
(* device against its certified baseline, and the schema of the database.  *)
(* The hashes of a census and of a reconciliation hold the time of the     *)
(* import, so even a true repetition of a revision is refused; with or     *)
(* without the refusal it changes nothing.                                 *)
(***************************************************************************)
EXTENDS StateSections

CONSTANTS
  CensusPool,       \* census snapshots: revision, lineage, sources, profiles, agents
  Baselines,        \* certified runtimes: id, device (or Nothing), components
  Fingerprints,     \* observed runtimes: device, components
  RuntimeReceipts,  \* revalidations: the baseline and the fingerprint they are for
  RuntimeRevision,
  Catalogs,         \* schema catalogs: target, relations, columns
  MaxRuntime        \* snapshots of a history

CanonicalTarget == "PALWAKF_CANONICAL_SUPABASE"
PendingRole     == {"admission_required_v2", "disabled_pending_admission", "blocked",
                    "admission_pending"}
RequiredSources == {"CURRENT_ROLE", "CURRENT_RUNTIME", "CURRENT_PROJECTION", "LEGACY_ROLE"}

UniqueBy(records, Key(_)) == \A r, s \in records : Key(r) = Key(s) => r = s

-----------------------------------------------------------------------------
(***************************************************************************)
(* Agents.  A role whose admission is pending is not admitted, and who is  *)
(* admitted names the decision.                                            *)
(***************************************************************************)
AdmissionAlways(agent) == TRUE   \* mutant: a pending role may be admitted
ValidAdmission(agent) ==
  /\ agent.role_status \in PendingRole => ~agent.admitted
  /\ agent.admitted <=> agent.reference # Nothing

ValidLineage(l) ==
  /\ {r.sha : r \in {r \in l.refs : r.main}} = {l.main}
  /\ Cardinality({r \in l.refs : r.main}) = 1
  /\ UniqueBy(l.refs, LAMBDA r : r.name)
  /\ l.equivalent

ValidCensus(c) ==
  /\ ValidLineage(c.lineage)
  /\ UniqueBy(c.sources, LAMBDA s : s.id) /\ UniqueBy(c.sources, LAMBDA s : s.path)
  /\ RequiredSources \subseteq {s.class : s \in c.sources}
  /\ Cardinality({s \in c.sources : s.class = "CURRENT_ROLE"}) = 1
  /\ UniqueBy(c.agents, LAMBDA a : a.id) /\ UniqueBy(c.agents, LAMBDA a : a.role)
  /\ \A a \in c.agents : a.profile \in c.profiles /\ ValidAdmission(a)

ImportCensus(c) ==
  /\ Len(state.census) < MaxRuntime
  /\ ValidCensus(c) /\ ~Known(state.census, c)
  /\ Save("census", Append(state.census, c))

\* assert_operationally_admitted
RequireAdmitted(id) ==
  /\ state.census # <<>>
  /\ \E a \in Last(state.census).agents :
       /\ a.id = id /\ a.admitted
       /\ outside' = [outside EXCEPT !.admitted = [agent |-> a, at |-> Len(state.census)]]
  /\ UNCHANGED <<state, memory>>

-----------------------------------------------------------------------------
(***************************************************************************)
(* Runtimes.                                                               *)
(***************************************************************************)
\* The device and the components in which a runtime differs from a baseline.
Mismatches(b, f) ==
  {x \in {"device"} : b.device \notin {Nothing, f.device}}
    \cup {x \in DOMAIN b.components : x \notin DOMAIN f.components \/ f.components[x] # b.components[x]}

ReceiptAlways(receipt, b, f) == TRUE   \* mutant: a receipt for another runtime counts
ReceiptFor(receipt, b, f) == receipt.baseline = b.id /\ receipt.fingerprint = f

\* reconcile_runtime_environment; with a receipt that is for something else it raises.
Reconciled(b, f, receipt) ==
  IF Mismatches(b, f) = {} THEN "EXACT_CERTIFIED"
  ELSE IF receipt = Nothing THEN "REVALIDATION_REQUIRED"
  ELSE IF ReceiptFor(receipt, b, f) THEN "REVALIDATED_EQUIVALENT"
  ELSE "refused"

Certified(snapshot) == snapshot.status \in {"EXACT_CERTIFIED", "REVALIDATED_EQUIVALENT"}

ImportEnvironment(revision, b, f, receipt) ==
  /\ Len(state.environment) < MaxRuntime
  /\ Reconciled(b, f, receipt) # "refused"
  /\ ~Known(state.environment, [revision |-> revision])
  /\ Save("environment", Append(state.environment,
       [revision |-> revision, baseline |-> b, current |-> f,
        status |-> Reconciled(b, f, receipt), receipt |-> receipt]))

\* require_certified_l4_equivalent, of the current snapshot.
RequireCertified ==
  /\ state.environment # <<>> /\ Certified(Last(state.environment))
  /\ outside' = [outside EXCEPT !.certified = Len(state.environment)]
  /\ UNCHANGED <<state, memory>>

-----------------------------------------------------------------------------
(***************************************************************************)
(* The database.  There is one snapshot and no history; until the first    *)
(* refresh it is a summary from a seed.                                    *)
(***************************************************************************)
NoDatabase == [status |-> "none", objects |-> {}, catalog |-> Nothing, hash |-> Nothing]

\* _ensure_seed, at the start of the service and at a read without a section.
EnsureSeed ==
  /\ state.database.status = "none"
  /\ Save("database", [NoDatabase EXCEPT !.status = "SUMMARY_ONLY"])

\* A relation with the columns of its own.
ObjectsOf(catalog) ==
  {[name |-> r, columns |-> {c.name : c \in {c \in catalog.columns : c.relation = r}}] :
     r \in catalog.relations}

ReplaceCatalogSnapshot(catalog) ==
  /\ state.database.status # "none"
  /\ catalog.approved /\ catalog.target = CanonicalTarget
  /\ Save("database", [status |-> "COMPLETE", objects |-> ObjectsOf(catalog),
                       catalog |-> catalog, hash |-> catalog])

\* The objects and a hash are given; summary and catalog stay what they were.
ReplaceSchemaSnapshot(objects, hash) ==
  /\ state.database.status # "none"
  /\ Save("database", [state.database EXCEPT !.status = "COMPLETE", !.objects = objects,
                                             !.hash = hash])

LookupSchema(name) ==
  IF \E o \in state.database.objects : o.name = name THEN "FOUND" ELSE "METADATA_REFRESH_REQUIRED"

-----------------------------------------------------------------------------
RuntimesTypeOK ==
  /\ \A c \in ToSet(state.census) : c \in CensusPool
  /\ \A e \in ToSet(state.environment) : e.revision \in RuntimeRevision /\ e.receipt \in Optional(RuntimeReceipts)
  /\ state.database.status \in {"none", "SUMMARY_ONLY", "COMPLETE"}

\* Who was let work was admitted in the census that was then the last, under a decision
\* that it names and with a role that is not pending; and the role is one agent's.
AdmittedByDecision ==
  outside.admitted # Nothing =>
    LET k == outside.admitted
        census == state.census[k.at]
    IN /\ k.agent \in census.agents
       /\ k.agent.reference # Nothing /\ k.agent.role_status \notin PendingRole
       /\ \A a \in census.agents : a.role = k.agent.role => a = k.agent

\* A runtime was taken for equivalent: it has all that its baseline requires, or a
\* receipt for just that baseline and that runtime; and no later import took the place
\* of the snapshot that said so.
CertifiedIsEquivalent ==
  \A i \in {outside.certified} \ {Nothing} :
    LET e == state.environment[i] IN
    \/ /\ e.baseline.device \in {Nothing, e.current.device}
       /\ \A x \in DOMAIN e.baseline.components :
            x \in DOMAIN e.current.components /\ e.current.components[x] = e.baseline.components[x]
    \/ e.receipt # Nothing /\ e.receipt.baseline = e.baseline.id /\ e.receipt.fingerprint = e.current

\* What is found is an object of the catalog with all its columns, as long as the hash
\* is the catalog's: a schema snapshot that came later leaves the catalog behind.
FoundIsCatalogued ==
  (state.database.catalog # Nothing /\ state.database.hash = state.database.catalog) =>
    \A r \in state.database.catalog.relations :
      /\ LookupSchema(r) = "FOUND"
      /\ \A c \in state.database.catalog.columns :
           c.relation = r => \E o \in state.database.objects : o.name = r /\ c.name \in o.columns
=============================================================================
