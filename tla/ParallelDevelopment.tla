-------------------------- MODULE ParallelDevelopment --------------------------
(***************************************************************************)
(* Tasks that change one repository at the same time: a task works under a *)
(* lease of the files it may change, and what it made enters the           *)
(* integration branch through a queue, in order.                           *)
(***************************************************************************)
EXTENDS StateSections

CONSTANTS
  EngineeringTasks,  \* the task records: id, repository, scope, head at creation
  Repository, Host, Sha,
  Begins,            \* <<a, b>>: the name a begins the longer name b
  MaxLeases, MaxQueue

\* A prefix is a sequence of names; no head is the value that stands for none.
ASSUME ScopesArePaths ==
  \A t \in EngineeringTasks : \A p \in t.scope :
    p.prefix \in Seq(ToSet(p.prefix)) /\ p.cut \in BOOLEAN
ASSUME NoHeadIsNothing == Nothing \notin Sha
\* A task is of one of the repositories and was created at one of the heads.
ASSUME TasksAreOfRepositories ==
  \A t \in EngineeringTasks : t.repository \in Repository /\ t.created \in Sha
ASSUME LeasesAreBounded == MaxLeases \in Nat

LeaseStatus == {"ACTIVE", "RELEASED"}
QueueStatus == {"QUEUED", "READY", "RECONCILIATION_REQUIRED", "INTEGRATED"}

NoLeases == <<>>
NoQueue  == <<>>

-----------------------------------------------------------------------------
(***************************************************************************)
(* Scope leases.  A pattern is its static prefix, a path of names, and     *)
(* "cut" if the first wildcard comes within a name, as in src/a*: then the *)
(* last name of the prefix only begins the names that match.               *)
(***************************************************************************)
PrefixOverlaps(p, q) == IsPrefix(p.prefix, q.prefix) \/ IsPrefix(q.prefix, p.prefix)

ScopesOverlap(s, t) == \E p \in s, q \in t : PrefixOverlaps(p, q)

ActiveLease(lease) == lease.status = "ACTIVE"
ActiveLeases == {lease \in ToSet(state.leases) : ActiveLease(lease)}

LeaseAlways(task) == TRUE   \* mutant: overlapping scopes do not conflict

\* No active lease is the task's own or overlaps what it asks for: the task's own
\* is returned again if it is the same, and is a conflict if not.
LeaseFree(task) ==
  \A lease \in ActiveLeases :
    /\ lease.task # task.id
    /\ lease.repository = task.repository => ~ScopesOverlap(lease.scope, task.scope)

AcquireScopeLease(task, host) ==
  /\ Len(state.leases) < MaxLeases
  /\ LeaseFree(task)
  /\ Save("leases", Append(state.leases,
       [task |-> task.id, repository |-> task.repository, scope |-> task.scope,
        host |-> host, status |-> "ACTIVE",
        generation |-> 1 + Cardinality(Positions(state.leases, LAMBDA l : l.task = task.id))]))

ReleaseScopeLease(task) ==
  \E i \in DOMAIN state.leases :
    /\ ActiveLease(state.leases[i]) /\ state.leases[i].task = task
    /\ Save("leases", [state.leases EXCEPT ![i].status = "RELEASED"])

-----------------------------------------------------------------------------
(***************************************************************************)
(* The merge queue, ordered by the time an entry came in.  Its id names    *)
(* the task, so a task that comes again shares the id with its first entry.*)
(***************************************************************************)
ObservedHead(task) == outside.head[task.repository]

Waiting(entry) == entry.status # "INTEGRATED"

\* pushed: the task has a head on its remote branch (latest_remote_task_sha), the candidate.
Enqueue(task, pushed) ==
  /\ Len(state.queue) < MaxQueue
  /\ pushed
  /\ \A e \in ToSet(state.queue) : e.task = task.id => ~Waiting(e)
  /\ Save("queue", Append(state.queue,
       [task |-> task.id, repository |-> task.repository, expected |-> task.created, integrated |-> Nothing,
        status |-> IF ObservedHead(task) = task.created THEN "QUEUED"
                                                   ELSE "RECONCILIATION_REQUIRED"]))

\* _find_queue_entry: the first of the id.
FirstOf(id, i) ==
  /\ i \in DOMAIN state.queue /\ state.queue[i].task = id
  /\ \A j \in 1..(i - 1) : state.queue[j].task # id

FrontAlways(i) == TRUE   \* mutant: an entry need not be at the front
AtFront(i) ==
  \A j \in 1..(i - 1) :
    state.queue[j].repository = state.queue[i].repository => ~Waiting(state.queue[j])

\* The head is read anew: if it moved the entry is marked and the call refused.
RequireReadyForMerge(id) ==
  \E i \in DOMAIN state.queue :
    LET entry == state.queue[i] IN
    /\ FirstOf(id, i) /\ Waiting(entry)
    /\ \/ /\ ObservedHead(entry) # entry.expected
          /\ Save("queue", [state.queue EXCEPT ![i].status = "RECONCILIATION_REQUIRED"])
       \/ /\ ObservedHead(entry) = entry.expected
          /\ AtFront(i)
          /\ Save("queue", [state.queue EXCEPT ![i].status = "READY"])

\* With an authority and evidence; the head given must be the one observed.
MarkIntegrated(id, head, authority) ==
  \E i \in DOMAIN state.queue :
    LET entry == state.queue[i] IN
    /\ FirstOf(id, i)
    /\ authority # Nothing
    /\ entry.status = "READY"
    /\ ObservedHead(entry) = head
    /\ Save("queue", [state.queue EXCEPT ![i].status = "INTEGRATED", ![i].integrated = head])

\* Somebody pushes to the integration branch.
HeadMoves(repository, head) ==
  /\ outside.head[repository] # head
  /\ outside' = [outside EXCEPT !.head[repository] = head]
  /\ UNCHANGED <<state, memory>>

-----------------------------------------------------------------------------
ParallelTypeOK ==
  /\ \A lease \in ToSet(state.leases) :
       /\ lease.task \in {t.id : t \in EngineeringTasks}
       /\ lease.host \in Host /\ lease.status \in LeaseStatus
       /\ lease.generation \in 1..MaxLeases
  /\ \A e \in ToSet(state.queue) :
       /\ e.repository \in Repository /\ e.expected \in Sha
       /\ e.status \in QueueStatus /\ e.integrated \in Optional(Sha)
  /\ outside.head \in [Repository -> Sha]

\* What a pattern covers: the files below its prefix.
Covers(p, file) ==
  LET n == Len(p.prefix) IN
  IF p.cut THEN /\ IsPrefix(Front(p.prefix), file) /\ Len(file) >= n
                /\ file[n] = Last(p.prefix) \/ <<Last(p.prefix), file[n]>> \in Begins
           ELSE IsPrefix(p.prefix, file)

Shared(s, t, file) == (\E p \in s : Covers(p, file)) /\ (\E q \in t : Covers(q, file))

Whole(scope) == \A p \in scope : ~p.cut

\* No file is under two active leases of a repository, as long as no pattern has a
\* wildcard within a name (acquire_scope_lease, scopes_overlap): src/a* and src/ab/*
\* count as disjoint and are not.
LeasesAreDisjoint(Files) ==
  \A i, j \in DOMAIN state.leases :
    LET l == state.leases[i] m == state.leases[j] IN
    (i # j /\ ActiveLease(l) /\ ActiveLease(m)) =>
      /\ l.task # m.task
      /\ (l.repository = m.repository /\ Whole(l.scope) /\ Whole(m.scope))
           => \A file \in Files : ~Shared(l.scope, m.scope, file)

\* What is ready or integrated had every earlier entry of its repository integrated
\* before it (require_ready_for_merge), and what is integrated names the head it
\* became: whatever head moves, entries and repetitions came in between.
MergesInOrder ==
  \A j \in DOMAIN state.queue :
    /\ state.queue[j].status \in {"READY", "INTEGRATED"} =>
         \A i \in 1..(j - 1) :
           state.queue[i].repository = state.queue[j].repository
             => state.queue[i].status = "INTEGRATED"
    /\ (state.queue[j].integrated # Nothing) <=> (state.queue[j].status = "INTEGRATED")
=============================================================================
