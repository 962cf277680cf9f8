-------------------------------- MODULE History --------------------------------
(***************************************************************************)
(* What the sections promise to who reads them: what is recorded is not    *)
(* changed, reordered or taken back, and what is settled stays as it is.   *)
(***************************************************************************)
EXTENDS Naturals, Sequences

VARIABLES
  log,      \* the histories of the registries, by name
  settled   \* what is over and how it ended: a set of <<kind, name, end>>

Extends(s, t) == Len(s) <= Len(t) /\ SubSeq(t, 1, Len(s)) = s

Record == \A r \in DOMAIN log : r \in DOMAIN log' /\ Extends(log[r], log'[r])

Settle == settled \subseteq settled'

Init == (\A r \in DOMAIN log : log[r] = <<>>) /\ settled = {}

Next == (UNCHANGED log \/ Record) /\ Settle

Spec == Init /\ [][Next]_<<log, settled>>
=============================================================================
