------------------------------ MODULE Delivery ------------------------------
(***************************************************************************)
(* What the outbox promises about a message: it reaches the subscriber     *)
(* only after it was accepted, it is put away only after it reached the    *)
(* subscriber at least once, and it is never sent again after that.        *)
(***************************************************************************)
EXTENDS Naturals

CONSTANT Message

VARIABLES
  accepted,    \* messages the outbox has taken
  received,    \* how many times the subscriber got each message
  done         \* messages put away as dispatched

vars == <<accepted, received, done>>

Init == accepted = {} /\ received = [m \in Message |-> 0] /\ done = {}

Accept(m) ==
  /\ m \notin accepted
  /\ accepted' = accepted \cup {m}
  /\ UNCHANGED <<received, done>>

Receive(m) ==
  /\ m \in accepted \ done
  /\ received' = [received EXCEPT ![m] = @ + 1]
  /\ UNCHANGED <<accepted, done>>

PutAway(m) ==
  /\ m \in accepted \ done /\ received[m] > 0
  /\ done' = done \cup {m}
  /\ UNCHANGED <<accepted, received>>

Next == \E m \in Message : Accept(m) \/ Receive(m) \/ PutAway(m)

Spec == Init /\ [][Next]_vars
=============================================================================
