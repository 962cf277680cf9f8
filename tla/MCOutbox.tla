------------------------------ MODULE MCOutbox ------------------------------
(* Three distinct messages, and m4 that repeats the key of m1 and the id   *)
(* of m2.                                                                  *)
EXTENDS Outbox, TLC

CONSTANTS m1, m2, m3, m4, d1, d2

MCKeyOf == (m1 :> 1) @@ (m2 :> 2) @@ (m3 :> 3) @@ (m4 :> 1)
MCIdOf  == (m1 :> 1) @@ (m2 :> 2) @@ (m3 :> 3) @@ (m4 :> 2)
MCAge   == (m1 :> 1) @@ (m2 :> 2) @@ (m3 :> 3) @@ (m4 :> 4)
=============================================================================
