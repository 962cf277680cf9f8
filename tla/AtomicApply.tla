---------------------------- MODULE AtomicApply ----------------------------
(***************************************************************************)
(* What the governed file apply engine promises about the worktree: a      *)
(* manifest is applied to all of its targets in one step or to none.  The  *)
(* only other thing that may be seen is a torn apply, and each one needs   *)
(* a failure (a process that dies, or a rollback that fails) of its own.   *)
(***************************************************************************)
EXTENDS Naturals

CONSTANTS
  Path, Request,
  Targets,               \* the target paths of a request
  Before(_, _),          \* Before(r, f): the bytes request r may replace at f
  Post(_)                \* Post(r): the bytes request r writes

VARIABLES
  tree,       \* the bytes of each path
  failures    \* failures so far

vars == <<tree, failures>>

CONSTANT InitialTree
Init == tree = InitialTree /\ failures = 0

Admissible(r, S) == \A f \in S : tree[f] \in Before(r, f) \cup {Post(r)}
With(r, S) == [f \in Path |-> IF f \in S THEN Post(r) ELSE tree[f]]

Apply(r) ==
  /\ Admissible(r, Targets[r])
  /\ tree' = With(r, Targets[r])
  /\ UNCHANGED failures

Fail(r) ==
  /\ \E S \in SUBSET Targets[r] : Admissible(r, S) /\ tree' = With(r, S)
  /\ failures' = failures + 1

Next == \E r \in Request : Apply(r) \/ Fail(r)

Spec == Init /\ [][Next]_vars
=============================================================================
