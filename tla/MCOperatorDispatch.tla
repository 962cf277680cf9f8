------------------------- MODULE MCOperatorDispatch -------------------------
(* Two tasks of one repository and two workers, so that one worker waits   *)
(* for the repository while the other one works.                           *)
EXTENDS OperatorDispatch, TLC

CONSTANTS t1, t2, w1, w2, repo

MCRepoOf == [t \in Task |-> repo]
OnceEach == (t1 :> 1) @@ (t2 :> 1)
TwiceT1  == (t1 :> 2) @@ (t2 :> 1)
=============================================================================
