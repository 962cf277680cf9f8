---------------------------- MODULE MCStateDocument ----------------------------
(* A bounded instance of StateDocument: the values are in the .cfg files. *)
EXTENDS StateDocument, TLC

ThreadSymmetry == Permutations(Thread)
=============================================================================
