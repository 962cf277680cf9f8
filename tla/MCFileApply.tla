---------------------------- MODULE MCFileApply ----------------------------
(* Two processes on one repository with the files a (in HEAD) and b (not   *)
(* in HEAD).  Request r1 changes a and creates b, request r2 changes a     *)
(* only, so the two compete for a, and b is unrelated drift for r2.        *)
EXTENDS FileApply, TLC

CONSTANTS p1, p2, r1, r2, t1, t2, a, b

DistinctReqOf == (p1 :> r1) @@ (p2 :> r2)
SoloReqOf     == (p1 :> r1)
SharedReqOf   == (p1 :> r1) @@ (p2 :> r1)
MCTaskOf      == (r1 :> t1) @@ (r2 :> t2)
MCTargets     == (r1 :> {a, b}) @@ (r2 :> {a})
MCCreates     == (r1 :> {b}) @@ (r2 :> {})
=============================================================================
