------------------------------ MODULE CriticalPath ------------------------------
(***************************************************************************)
(* The critical path of the portfolio: the longest chain of projects that  *)
(* depend on one another, by a topological order of the active edges.      *)
(***************************************************************************)
EXTENDS StateSections

CONSTANT PathGraphs   \* pairs: the projects in order, the edges as <<producer, consumer>>

\* A graph is imported with projects, each once, and edges between them.
ASSUME GraphsAreOfProjects ==
  \A g \in PathGraphs :
    LET projects == g[1]
        all == ToSet(projects)
    IN /\ projects \in Seq(all) /\ projects # <<>> /\ Nothing \notin all
       /\ IsInjective(projects)
       /\ g[2] \in Seq(all \X all)

InDegree(edges, p)  == Cardinality({i \in DOMAIN edges : edges[i][2] = p})
OutDegree(edges, p) == Cardinality({i \in DOMAIN edges : edges[i][1] = p})

\* The projects that wait for no other, in their order.
Roots(projects, edges) ==
  LET roots[n \in 0..Len(projects)] ==
        IF n = 0 THEN <<>>
        ELSE IF InDegree(edges, projects[n]) = 0 THEN Append(roots[n - 1], projects[n])
        ELSE roots[n - 1]
  IN roots[Len(projects)]

\* An edge of the project whose turn it is is taken away: who has no other producer left
\* comes to the end of the queue.
Release(s, e) ==
  LET left == s.indegree[e[2]] - 1
  IN [indegree |-> [s.indegree EXCEPT ![e[2]] = left],
      queued   |-> IF left = 0 THEN Append(s.queued, e[2]) ELSE s.queued]

\* The turn of the n-th project that was ever queued: the n - 1 before it are the order so far.
Turn(edges, s, n) ==
  LET p == s.queued[n]
      after[i \in 0..Len(edges)] ==
        IF i = 0 THEN s
        ELSE IF edges[i][1] = p THEN Release(after[i - 1], edges[i]) ELSE after[i - 1]
  IN IF n <= Len(s.queued) THEN after[Len(edges)] ELSE s

\* A project is queued once at most: with as many turns as projects the queue is empty.
Ordered(projects, edges) ==
  LET turns[n \in 0..Len(projects)] ==
        IF n = 0
        THEN [indegree |-> [p \in ToSet(projects) |-> InDegree(edges, p)],
              queued   |-> Roots(projects, edges)]
        ELSE Turn(edges, turns[n - 1], n)
  IN turns[Len(projects)].queued

\* A child is put behind its parent when that makes its way longer.
Relax(s, e) ==
  IF s.distance[e[1]] + 1 > s.distance[e[2]]
  THEN [distance |-> [s.distance EXCEPT ![e[2]] = s.distance[e[1]] + 1],
        parent   |-> [s.parent EXCEPT ![e[2]] = e[1]]]
  ELSE s

\* The ways to the children of p, in the order of its edges.
Reach(edges, s, p) ==
  LET after[i \in 0..Len(edges)] ==
        IF i = 0 THEN s
        ELSE IF edges[i][1] = p THEN Relax(after[i - 1], edges[i]) ELSE after[i - 1]
  IN after[Len(edges)]

Ways(order, edges) ==
  LET ways[n \in 0..Len(order)] ==
        IF n = 0
        THEN [distance |-> [p \in ToSet(order) |-> 0],
              parent   |-> [p \in ToSet(order) |-> Nothing]]
        ELSE Reach(edges, ways[n - 1], order[n])
  IN ways[Len(order)]

\* The first of the greatest.
Foremost(s, size) ==
  LET best == {i \in DOMAIN s : \A j \in DOMAIN s : size[s[j]] <= size[s[i]]}
  IN s[CHOOSE i \in best : \A j \in best : i <= j]

\* From the end up to a project without a parent.
Back(order, ways) ==
  LET back[n \in 0..Len(order)] ==
        IF n = 0 THEN <<Foremost(order, ways.distance)>>
        ELSE IF ways.parent[Head(back[n - 1])] = Nothing THEN back[n - 1]
        ELSE <<ways.parent[Head(back[n - 1])]>> \o back[n - 1]
  IN back[Len(order)]

LongestPath(projects, edges) ==
  LET order == Ordered(projects, edges)
      blocking == Foremost(projects, [p \in ToSet(projects) |-> OutDegree(edges, p)])
  IN IF Len(order) # Len(projects) THEN [cycle |-> TRUE, path |-> <<>>, blocking |-> blocking]
     ELSE [cycle |-> FALSE, path |-> Back(order, Ways(order, edges)), blocking |-> blocking]

FindCriticalPath(graph) ==
  /\ outside' = [outside EXCEPT !.answer =
       [gate |-> "path", projects |-> graph[1], edges |-> graph[2],
        is |-> LongestPath(graph[1], graph[2])]]
  /\ UNCHANGED <<state, memory>>

-----------------------------------------------------------------------------
\* No path is given exactly when some projects each depend on one of them; else the path
\* follows the edges and none is longer.  Of the projects none has more edges to others
\* than the one that is said to block the most.
PathIsLongest ==
  (outside.answer # Nothing /\ outside.answer.gate = "path") =>
    LET k == outside.answer
        all == ToSet(k.projects)
        depends(p, q) == <<p, q>> \in ToSet(k.edges)
        isPath(s) == \A i \in 1..Len(s) - 1 : depends(s[i], s[i + 1])
    IN /\ k.is.cycle <=>
            \E loop \in (SUBSET all) \ {{}} : \A q \in loop : \E p \in loop : depends(p, q)
       /\ ~k.is.cycle =>
            /\ k.is.path # <<>> /\ isPath(k.is.path)
            /\ Len(k.is.path) < Len(k.projects) =>
                 \A s \in [1..Len(k.is.path) + 1 -> all] : ~isPath(s)
       /\ \A p \in all : OutDegree(k.edges, p) <= OutDegree(k.edges, k.is.blocking)
=============================================================================
