---------------------------- MODULE Outbox_proofs ----------------------------
(***************************************************************************)
(* Proofs about the outbox, for any number of messages, dispatchers,       *)
(* transport failures and crashes.                                         *)
(***************************************************************************)
EXTENDS Outbox, TLAPS

(***************************************************************************)
(* What a claimed message has been through: it is still to be sent in this *)
(* attempt, unless it is the one in hand and the transport has answered.   *)
(***************************************************************************)
Unsent(d, m) == outcome[d] = "none" \/ ~InHand(d, m)

AttemptInv ==
  /\ \A m \in Message : received[m] <= attempts[m]
  /\ \A d \in Dispatcher : \A m \in batch[d] : Unsent(d, m) => received[m] < attempts[m]
  /\ \A d \in Dispatcher : \A m \in batch[d] :
       InHand(d, m) /\ outcome[d] = "sent" => received[m] > 0
  /\ \A d \in Dispatcher : batch[d] = {} => outcome[d] = "none"

IInv == TypeOK /\ ClaimsAreExclusive /\ LockOnlyInFlight /\ AttemptInv

-----------------------------------------------------------------------------
(***************************************************************************)
(* Type correctness of the rows and the batches.                           *)
(***************************************************************************)
LEMMA TypeStep == TypeOK /\ [Next]_vars => TypeOK'
<1> SUFFICES ASSUME TypeOK, [Next]_vars PROVE TypeOK'
  OBVIOUS
<1> USE OutboxAssumption DEF TypeOK
<1>1. CASE UNCHANGED vars
  BY <1>1 DEF vars, rows
<1>2. ASSUME NEW m \in Message, Enqueue(m) PROVE TypeOK'
  BY <1>2 DEF Enqueue
<1>3. ASSUME NEW m \in Message, BecomesDue(m) PROVE TypeOK'
  BY <1>3 DEF BecomesDue
<1>4. ASSUME NEW d \in Dispatcher, Claim(d) PROVE TypeOK'
  <2>1. PICK S \in SUBSET Eligible :
          /\ batch' = [batch EXCEPT ![d] = S]
          /\ status' = [m \in Message |-> IF m \in S THEN "IN_FLIGHT" ELSE status[m]]
          /\ lock' = [m \in Message |-> IF m \in S THEN d ELSE lock[m]]
          /\ attempts' = [m \in Message |-> IF m \in S THEN attempts[m] + 1 ELSE attempts[m]]
    BY <1>4 DEF Claim
  <2>2. S \subseteq Message
    BY DEF Eligible
  <2>3. QED BY <1>4, <2>1, <2>2 DEF Claim
<1>5. ASSUME NEW d \in Dispatcher, NEW m \in Message, Transport(d, m) PROVE TypeOK'
  BY <1>5 DEF Transport, Arrives, rows
<1>6. ASSUME NEW d \in Dispatcher, NEW m \in Message, MarkDispatched(d, m) PROVE TypeOK'
  BY <1>6 DEF MarkDispatched, Settle, NextMessage
<1>7. ASSUME NEW d \in Dispatcher, NEW m \in Message, ReleaseForRetry(d, m) PROVE TypeOK'
  BY <1>7 DEF ReleaseForRetry, Settle, NextMessage
<1>8. ASSUME NEW d \in Dispatcher, Crash(d) PROVE TypeOK'
  BY <1>8 DEF Crash, rows
<1>9. QED BY <1>1, <1>2, <1>3, <1>4, <1>5, <1>6, <1>7, <1>8 DEF Next, Loop

(***************************************************************************)
(* The rows of the outbox keep their types: every step of Next, whatever   *)
(* the transport does.                                                     *)
(***************************************************************************)
THEOREM TypeCorrect == Spec => []TypeOK
<1>1. Init => TypeOK
  BY OutboxAssumption DEF Init, TypeOK
<1>2. QED BY <1>1, TypeStep, PTL DEF Spec

-----------------------------------------------------------------------------
(***************************************************************************)
(* The inductive invariant.                                                *)
(***************************************************************************)
LEMMA InitInv == Init => IInv
BY OutboxAssumption DEF Init, IInv, TypeOK, ClaimsAreExclusive, LockHeld,
   LockOnlyInFlight, AttemptInv, Unsent, InHand

\* Two messages of a batch are never both in hand.
LEMMA OneInHand ==
  ASSUME TypeOK, NEW d \in Dispatcher, NEW m \in Message, NEW n \in Message,
         InHand(d, m), InHand(d, n)
  PROVE  m = n
BY OutboxAssumption DEF TypeOK, InHand

LEMMA InvStep == IInv /\ [Next]_vars => IInv'
<1> SUFFICES ASSUME IInv, [Next]_vars PROVE IInv'
  OBVIOUS
<1>0. TypeOK' /\ TypeOK
  BY TypeStep DEF IInv
<1> DEFINE Rest == ClaimsAreExclusive /\ LockOnlyInFlight /\ AttemptInv
<1> USE OutboxAssumption, <1>0
<1> SUFFICES Rest'
  BY DEF IInv
<1>a. Rest
  BY DEF IInv
<1>b. \A d \in Dispatcher : batch[d] \subseteq Message
  BY DEF TypeOK
<1>1. CASE UNCHANGED vars
  BY <1>a, <1>1 DEF vars, rows, ClaimsAreExclusive, LockHeld, LockOnlyInFlight,
     AttemptInv, Unsent, InHand
<1>2. ASSUME NEW m \in Message, Enqueue(m) PROVE Rest'
  BY <1>a, <1>2 DEF Enqueue, ClaimsAreExclusive, LockHeld, LockOnlyInFlight,
     AttemptInv, Unsent, InHand
<1>3. ASSUME NEW m \in Message, BecomesDue(m) PROVE Rest'
  BY <1>a, <1>3 DEF BecomesDue, ClaimsAreExclusive, LockHeld, LockOnlyInFlight,
     AttemptInv, Unsent, InHand
<1>4. ASSUME NEW d \in Dispatcher, Claim(d) PROVE Rest'
  <2>1. PICK S \in SUBSET Eligible :
          /\ batch' = [batch EXCEPT ![d] = S]
          /\ status' = [m \in Message |-> IF m \in S THEN "IN_FLIGHT" ELSE status[m]]
          /\ lock' = [m \in Message |-> IF m \in S THEN d ELSE lock[m]]
          /\ attempts' = [m \in Message |-> IF m \in S THEN attempts[m] + 1 ELSE attempts[m]]
    BY <1>4 DEF Claim
  <2>2. S \subseteq Message /\ S \subseteq stored /\ \A m \in S : status[m] = "PENDING"
    BY <1>0 DEF Eligible, TypeOK
  <2>3. batch[d] = {} /\ outcome[d] = "none" /\ UNCHANGED <<stored, outcome, received>>
    BY <1>a, <1>4 DEF Claim, AttemptInv
  <2>4. \A e \in Dispatcher : \A m \in batch[e] : m \notin S
    BY <1>a, <2>2 DEF ClaimsAreExclusive, LockHeld
  <2>5. \A e \in Dispatcher : e # d => batch'[e] = batch[e]
    BY <2>1 DEF TypeOK
  <2>6. batch'[d] = S
    BY <2>1 DEF TypeOK
  <2>7. ClaimsAreExclusive'
    BY <1>a, <1>b, <2>1, <2>2, <2>3, <2>4, <2>5, <2>6 DEF ClaimsAreExclusive, LockHeld, TypeOK
  <2>8. LockOnlyInFlight'
    BY <1>a, <2>1 DEF LockOnlyInFlight, TypeOK
  <2>9. \A m \in Message : received[m] \in Nat /\ attempts[m] \in Nat /\ received[m] <= attempts[m]
    BY <1>a DEF AttemptInv, TypeOK
  <2>10. \A m \in Message : received'[m] <= attempts'[m] /\ (m \in S => received'[m] < attempts'[m])
    BY <2>1, <2>3, <2>9
  <2>11. \A m \in Message : m \notin S => attempts'[m] = attempts[m]
    BY <2>1
  <2>12. AttemptInv'
    BY <1>a, <1>b, <2>2, <2>3, <2>4, <2>5, <2>6, <2>10, <2>11 DEF AttemptInv, Unsent, InHand
  <2>13. QED BY <2>7, <2>8, <2>12
<1>5. ASSUME NEW d \in Dispatcher, NEW m \in Message, Transport(d, m) PROVE Rest'
  <2>1. UNCHANGED <<stored, status, lock, attempts, batch>>
    BY <1>5 DEF Transport, rows
  <2>2. ClaimsAreExclusive' /\ LockOnlyInFlight'
    BY <1>a, <2>1 DEF ClaimsAreExclusive, LockHeld, LockOnlyInFlight
  <2>3. m \in batch[d] /\ InHand(d, m) /\ Unsent(d, m)
    BY <1>5 DEF Transport, InHand, Unsent
  <2>4. received[m] < attempts[m] /\ received[m] \in Nat /\ attempts[m] \in Nat
    BY <1>a, <2>3 DEF AttemptInv, TypeOK
  <2>5. received' = received \/ received' = [received EXCEPT ![m] = @ + 1]
    BY <1>5 DEF Transport, Arrives
  <2>6. \A n \in Message : n # m => received'[n] = received[n]
    BY <2>5 DEF TypeOK
  <2>7. received'[m] <= attempts[m] /\ received'[m] >= received[m]
    BY <2>4, <2>5 DEF TypeOK
  <2>8. outcome' = [outcome EXCEPT ![d] = "sent"] \/ outcome' = [outcome EXCEPT ![d] = "raised"]
    BY <1>5 DEF Transport
  <2>9. outcome'[d] = "sent" => received'[m] > 0
    BY <1>5, <2>4 DEF Transport, Arrives, TypeOK
  <2>10. \A e \in Dispatcher : e # d => outcome'[e] = outcome[e] /\ m \notin batch[e]
    BY <1>a, <2>3, <2>8 DEF ClaimsAreExclusive, LockHeld, TypeOK
  <2>11. \A n \in Message : InHand(d, n) => n = m
    BY <2>3, OneInHand
  <2>12. outcome'[d] # "none"
    BY <2>8 DEF TypeOK
  <2>13. \A n \in Message : received'[n] <= attempts'[n]
    BY <1>a, <2>1, <2>6, <2>7 DEF AttemptInv
  <2>14. \A e \in Dispatcher : \A n \in batch'[e] : Unsent(e, n)' => received'[n] < attempts'[n]
    <3> SUFFICES ASSUME NEW e \in Dispatcher, NEW n \in batch[e], Unsent(e, n)'
                 PROVE  received'[n] < attempts[n]
      BY <2>1
    <3>1. CASE e = d
      BY <1>a, <1>b, <2>1, <2>3, <2>6, <2>12, <3>1 DEF Unsent, InHand, AttemptInv
    <3>2. CASE e # d
      <4>1. Unsent(e, n) /\ n # m /\ n \in Message
        BY <1>b, <2>1, <2>10, <3>2 DEF Unsent, InHand
      <4>2. received[n] < attempts[n]
        BY <1>a, <4>1 DEF AttemptInv
      <4>3. QED BY <2>6, <4>1, <4>2
    <3>3. QED BY <3>1, <3>2
  <2>15. \A e \in Dispatcher : \A n \in batch'[e] :
           InHand(e, n)' /\ outcome'[e] = "sent" => received'[n] > 0
    <3> SUFFICES ASSUME NEW e \in Dispatcher, NEW n \in batch[e], InHand(e, n), outcome'[e] = "sent"
                 PROVE  received'[n] > 0
      BY <2>1 DEF InHand
    <3>1. CASE e = d
      BY <1>b, <2>9, <2>11, <3>1
    <3>2. CASE e # d
      BY <1>a, <1>b, <2>6, <2>10, <3>2 DEF AttemptInv
    <3>3. QED BY <3>1, <3>2
  <2>16. \A e \in Dispatcher : batch'[e] = {} => outcome'[e] = "none"
    BY <1>a, <2>1, <2>3, <2>10 DEF AttemptInv
  <2>17. QED BY <2>2, <2>13, <2>14, <2>15, <2>16 DEF AttemptInv
<1>6. ASSUME NEW d \in Dispatcher, NEW m \in Message,
             MarkDispatched(d, m) \/ ReleaseForRetry(d, m)
      PROVE  Rest'
  <2>1. /\ InHand(d, m) /\ m \in batch[d]
        /\ UNCHANGED <<stored, attempts, received>>
        /\ lock' = [lock EXCEPT ![m] = NoLock]
        /\ batch' = [batch EXCEPT ![d] = @ \ {m}]
        /\ outcome' = [outcome EXCEPT ![d] = "none"]
    BY <1>6 DEF MarkDispatched, Settle, ReleaseForRetry, NextMessage, InHand
  <2>2. \E s \in {"PENDING", "DISPATCHED"} : status' = [status EXCEPT ![m] = s]
    BY <1>6 DEF MarkDispatched, Settle, ReleaseForRetry
  <2>3. \A e \in Dispatcher : e # d => m \notin batch[e]
    BY <1>a, <2>1 DEF ClaimsAreExclusive, LockHeld
  <2>4. ClaimsAreExclusive'
    BY <1>a, <1>b, <2>1, <2>2, <2>3 DEF ClaimsAreExclusive, LockHeld, TypeOK
  <2>5. LockOnlyInFlight'
    BY <1>a, <2>1, <2>2 DEF LockOnlyInFlight, TypeOK
  <2>6. \A n \in Message : InHand(d, n) => n = m
    BY <2>1, OneInHand
  <2>7. \A n \in batch'[d] : received[n] < attempts[n]
    BY <1>a, <1>b, <2>1, <2>6 DEF AttemptInv, Unsent, TypeOK
  <2>8. \A e \in Dispatcher : e # d => batch'[e] = batch[e] /\ outcome'[e] = outcome[e]
    BY <2>1 DEF TypeOK
  <2>9. outcome'[d] = "none"
    BY <2>1 DEF TypeOK
  <2>10. AttemptInv'
    BY <1>a, <2>1, <2>7, <2>8, <2>9 DEF AttemptInv, Unsent, InHand
  <2>11. QED BY <2>4, <2>5, <2>10
<1>7. ASSUME NEW d \in Dispatcher, Crash(d) PROVE Rest'
  <2>1. /\ UNCHANGED <<stored, status, lock, attempts, received>>
        /\ batch' = [batch EXCEPT ![d] = {}]
        /\ outcome' = [outcome EXCEPT ![d] = "none"]
    BY <1>7 DEF Crash, rows
  <2>2. ClaimsAreExclusive' /\ LockOnlyInFlight'
    BY <1>a, <2>1 DEF ClaimsAreExclusive, LockHeld, LockOnlyInFlight, TypeOK
  <2>3. AttemptInv'
    BY <1>a, <2>1 DEF AttemptInv, Unsent, InHand, TypeOK
  <2>4. QED BY <2>2, <2>3
<1>8. QED BY <1>1, <1>2, <1>3, <1>4, <1>5, <1>6, <1>7 DEF Next, Loop

LEMMA InvHolds == Spec => []IInv
BY InitInv, InvStep, PTL DEF Spec

(***************************************************************************)
(* No message is in the hands of two dispatchers, and no mark or release   *)
(* of a claimed message is refused.                                        *)
(***************************************************************************)
THEOREM ClaimsAreExclusiveHolds == Spec => []ClaimsAreExclusive
BY InvHolds, PTL DEF IInv

(***************************************************************************)
(* A row carries a lock exactly while it is in flight, so that reading it  *)
(* back never fails validation.                                            *)
(***************************************************************************)
THEOREM LockOnlyInFlightHolds == Spec => []LockOnlyInFlight
BY InvHolds, PTL DEF IInv

(***************************************************************************)
(* The attempts of a message bound what the subscriber got of it.          *)
(***************************************************************************)
LEMMA AttemptsFollow == IInv => AttemptsCoverReceipts
BY DEF IInv, AttemptInv, AttemptsCoverReceipts

THEOREM AttemptsCoverReceiptsHolds == Spec => []AttemptsCoverReceipts
BY InvHolds, AttemptsFollow, PTL

-----------------------------------------------------------------------------
(***************************************************************************)
(* Refinement: the outbox delivers at least once, and never after a        *)
(* message is dispatched.                                                  *)
(***************************************************************************)
LEMMA RefinesInit == Init => D!Init
BY DEF Init, D!Init

LEMMA RefinesStep == IInv /\ [Next]_vars => [D!Next]_D!vars
<1> SUFFICES ASSUME IInv, [Next]_vars PROVE [D!Next]_D!vars
  OBVIOUS
<1> DEFINE Put == {m \in Message : status[m] = "DISPATCHED"}
<1>a. TypeOK /\ ClaimsAreExclusive
  BY DEF IInv
<1>1. CASE UNCHANGED vars
  BY <1>1 DEF vars, rows, D!vars
<1>2. ASSUME NEW m \in Message, Enqueue(m) PROVE [D!Next]_D!vars
  <2>1. m \notin stored
    BY <1>2 DEF Enqueue, SameKey
  <2>2. D!Accept(m)
    BY <1>2, <2>1 DEF Enqueue, D!Accept
  <2>3. QED BY <2>2 DEF D!Next
<1>3. ASSUME NEW m \in Message, BecomesDue(m) PROVE [D!Next]_D!vars
  BY <1>3 DEF BecomesDue, D!vars
<1>4. ASSUME NEW d \in Dispatcher, Claim(d) PROVE [D!Next]_D!vars
  <2>1. PICK S \in SUBSET Eligible :
          status' = [m \in Message |-> IF m \in S THEN "IN_FLIGHT" ELSE status[m]]
    BY <1>4 DEF Claim
  <2>2. \A m \in S : status[m] = "PENDING"
    BY DEF Eligible
  <2>3. \A m \in Message : status'[m] = "DISPATCHED" <=> status[m] = "DISPATCHED"
    BY <2>1, <2>2
  <2>4. QED BY <1>4, <2>3 DEF Claim, D!vars
<1>5. ASSUME NEW d \in Dispatcher, NEW m \in Message, Transport(d, m) PROVE [D!Next]_D!vars
  <2>1. m \in stored /\ m \notin Put
    BY <1>a, <1>5 DEF Transport, InHand, ClaimsAreExclusive, LockHeld
  <2>2. CASE Arrives(m)
    <3>1. D!Receive(m)
      BY <1>5, <2>1, <2>2 DEF Transport, Arrives, rows, D!Receive
    <3>2. QED BY <3>1 DEF D!Next
  <2>3. CASE UNCHANGED received
    BY <1>5, <2>3 DEF Transport, rows, D!vars
  <2>4. QED BY <1>5, <2>2, <2>3 DEF Transport
<1>6. ASSUME NEW d \in Dispatcher, NEW m \in Message, MarkDispatched(d, m) PROVE [D!Next]_D!vars
  <2>1. m \in stored /\ m \notin Put /\ received[m] > 0
    BY <1>6 DEF MarkDispatched, Settle, InHand, LockHeld, IInv, ClaimsAreExclusive, AttemptInv
  <2>2. {n \in Message : status'[n] = "DISPATCHED"} = Put \cup {m}
    BY <1>a, <1>6 DEF MarkDispatched, Settle, TypeOK
  <2>3. D!PutAway(m)
    BY <1>6, <2>1, <2>2 DEF MarkDispatched, Settle, D!PutAway
  <2>4. QED BY <2>3 DEF D!Next
<1>7. ASSUME NEW d \in Dispatcher, NEW m \in Message, ReleaseForRetry(d, m) PROVE [D!Next]_D!vars
  <2>1. \A n \in Message : status'[n] = "DISPATCHED" <=> status[n] = "DISPATCHED"
    BY <1>a, <1>7 DEF ReleaseForRetry, Settle, LockHeld, TypeOK
  <2>2. QED BY <1>7, <2>1 DEF ReleaseForRetry, Settle, D!vars
<1>8. ASSUME NEW d \in Dispatcher, Crash(d) PROVE [D!Next]_D!vars
  BY <1>8 DEF Crash, rows, D!vars
<1>9. QED BY <1>1, <1>2, <1>3, <1>4, <1>5, <1>6, <1>7, <1>8 DEF Next, Loop

(***************************************************************************)
(* The outbox implements the delivery specification.                       *)
(***************************************************************************)
THEOREM DeliveryImplemented == Spec => ImplementsDelivery
<1>1. Spec => D!Init /\ [][D!Next]_D!vars
  BY InvHolds, RefinesInit, RefinesStep, PTL DEF Spec
<1>2. QED BY <1>1 DEF ImplementsDelivery, D!Spec
=============================================================================
