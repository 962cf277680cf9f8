------------------------------- MODULE Outbox -------------------------------
(***************************************************************************)
(* The transactional outbox.  Producers enqueue messages; dispatchers      *)
(* (threads or processes polling one table) claim a batch, call the        *)
(* transport for each message in turn, and mark it dispatched or release   *)
(* it for a retry.  The rows outlive a dispatcher; its batch does not.     *)
(*                                                                         *)
(* Every store operation is atomic: a lock in the memory store, one SQL    *)
(* statement in the PostgreSQL contract.  Time is reduced to whether a     *)
(* pending message is available yet.                                       *)
(***************************************************************************)
EXTENDS Naturals, FiniteSets

CONSTANTS
  Message,      \* messages producers may hand over
  Dispatcher,
  Key, KeyOf,   \* idempotency_key: two messages may carry the same
  Id, IdOf,     \* outbox_id
  Age,          \* the order (created_at, outbox_id): no two are equal
  Limit,        \* claim_batch's limit
  NoLock,
  MaxErrors,    \* transport failures
  MaxCrashes

ASSUME OutboxAssumption ==
  /\ KeyOf \in [Message -> Key] /\ IdOf \in [Message -> Id]
  /\ Age \in [Message -> Nat] /\ \A m, n \in Message : Age[m] = Age[n] => m = n
  /\ Limit \in Nat \ {0}
  /\ NoLock \notin Dispatcher
  /\ MaxErrors \in Nat /\ MaxCrashes \in Nat

VARIABLES
  stored,     \* the messages that have a row
  status, lock, attempts, due,   \* the rows; due: available_at has passed
  batch,      \* the messages a dispatcher has claimed and not dealt with
  outcome,    \* what the transport said of the message in hand
  received,   \* how many times the subscriber got each message
  errors, crashes

rows == <<stored, status, lock, attempts, due>>
vars == <<rows, batch, outcome, received, errors, crashes>>

Init ==
  /\ stored = {}
  /\ status = [m \in Message |-> "PENDING"]
  /\ lock = [m \in Message |-> NoLock]
  /\ attempts = [m \in Message |-> 0]
  /\ due = Message
  /\ batch = [d \in Dispatcher |-> {}]
  /\ outcome = [d \in Dispatcher |-> "none"]
  /\ received = [m \in Message |-> 0]
  /\ errors = 0 /\ crashes = 0

-----------------------------------------------------------------------------
SameKey(m) == \E n \in stored : KeyOf[n] = KeyOf[m]
SameId(m)  == \E n \in stored : IdOf[n] = IdOf[m]

\* A known key returns the row that is there (or is a conflict), a known id is
\* a conflict: neither adds a row.
Enqueue(m) ==
  /\ ~SameKey(m) /\ ~SameId(m)
  /\ stored' = stored \cup {m}
  /\ UNCHANGED <<status, lock, attempts, due, batch, outcome, received, errors, crashes>>

EligibleInFlight == {m \in stored : status[m] # "DISPATCHED" /\ m \in due}   \* mutant
EligibleAll      == {m \in stored : m \in due}                             \* mutant
Eligible == {m \in stored : status[m] = "PENDING" /\ m \in due}

\* The oldest ones, at most Limit of them.
Batch(S) ==
  /\ S # {} /\ S \subseteq Eligible
  /\ \A m \in S, n \in Eligible \ S : Age[m] <= Age[n]
  /\ Cardinality(S) <= Limit
  /\ Cardinality(S) < Limit => S = Eligible

Claim(d) ==
  /\ batch[d] = {}
  /\ \E S \in SUBSET Eligible :
       /\ Batch(S)
       /\ batch' = [batch EXCEPT ![d] = S]
       /\ status' = [m \in Message |-> IF m \in S THEN "IN_FLIGHT" ELSE status[m]]
       /\ lock' = [m \in Message |-> IF m \in S THEN d ELSE lock[m]]
       /\ attempts' = [m \in Message |-> IF m \in S THEN attempts[m] + 1 ELSE attempts[m]]
  /\ UNCHANGED <<stored, due, outcome, received, errors, crashes>>

\* The batch is dealt with in the order of the claim.
InHand(d, m) == m \in batch[d] /\ \A n \in batch[d] : Age[m] <= Age[n]

Arrives(m) == received' = [received EXCEPT ![m] = @ + 1]

\* The transport returns, or raises before or after the event got through.
Transport(d, m) ==
  /\ InHand(d, m) /\ outcome[d] = "none"
  /\ \/ /\ Arrives(m)
        /\ outcome' = [outcome EXCEPT ![d] = "sent"]
        /\ UNCHANGED errors
     \/ /\ errors < MaxErrors /\ errors' = errors + 1
        /\ Arrives(m) \/ UNCHANGED received
        /\ outcome' = [outcome EXCEPT ![d] = "raised"]
  /\ UNCHANGED <<rows, batch, crashes>>

LockHeld(d, m) == status[m] = "IN_FLIGHT" /\ lock[m] = d

KeepMessage(d, m) ==   \* mutant: the loop does not advance
  outcome' = [outcome EXCEPT ![d] = "none"] /\ UNCHANGED batch
NextMessage(d, m) ==
  /\ batch' = [batch EXCEPT ![d] = @ \ {m}]
  /\ outcome' = [outcome EXCEPT ![d] = "none"]

SettleDead(m, s) ==       \* mutant: a status the table does not know
  /\ status' = [status EXCEPT ![m] = IF attempts[m] > 1 THEN "DEAD" ELSE s]
  /\ lock' = [lock EXCEPT ![m] = NoLock]
SettleInFlight(m, s) ==   \* mutant: a retry forgets the status
  /\ status' = [status EXCEPT ![m] = IF s = "PENDING" THEN @ ELSE s]
  /\ lock' = [lock EXCEPT ![m] = NoLock]
Settle(m, s) ==
  /\ status' = [status EXCEPT ![m] = s]
  /\ lock' = [lock EXCEPT ![m] = NoLock]

MarkDispatched(d, m) ==
  /\ InHand(d, m) /\ outcome[d] = "sent" /\ LockHeld(d, m)
  /\ Settle(m, "DISPATCHED")
  /\ NextMessage(d, m)
  /\ UNCHANGED <<stored, attempts, due, received, errors, crashes>>

\* available_at counts from the claim: it may have passed already.
ReleaseForRetry(d, m) ==
  /\ InHand(d, m) /\ outcome[d] = "raised" /\ LockHeld(d, m)
  /\ Settle(m, "PENDING")
  /\ due' \in {due, due \ {m}}
  /\ NextMessage(d, m)
  /\ UNCHANGED <<stored, attempts, received, errors, crashes>>

BecomesDue(m) ==
  /\ m \notin due
  /\ due' = due \cup {m}
  /\ UNCHANGED <<stored, status, lock, attempts, batch, outcome, received, errors, crashes>>

\* The dispatcher dies, or its transport raises what the loop does not catch.
\* Nothing gives its rows back.
Crash(d) ==
  /\ batch[d] # {} /\ crashes < MaxCrashes
  /\ crashes' = crashes + 1
  /\ batch' = [batch EXCEPT ![d] = {}]
  /\ outcome' = [outcome EXCEPT ![d] = "none"]
  /\ UNCHANGED <<rows, received, errors>>

Loop(d) ==
  \/ Claim(d)
  \/ \E m \in Message : Transport(d, m) \/ MarkDispatched(d, m) \/ ReleaseForRetry(d, m)

Next ==
  \/ \E m \in Message : Enqueue(m) \/ BecomesDue(m)
  \/ \E d \in Dispatcher : Loop(d) \/ Crash(d)

Spec == Init /\ [][Next]_vars

\* The dispatchers keep polling, and time passes.  That the transport fails
\* only MaxErrors times is what makes it succeed in the end.
FairSpec ==
  /\ Spec
  /\ \A d \in Dispatcher : WF_vars(Loop(d))
  /\ \A m \in Message : WF_vars(BecomesDue(m))

-----------------------------------------------------------------------------
TypeOK ==
  /\ stored \subseteq Message
  /\ status \in [Message -> {"PENDING", "IN_FLIGHT", "DISPATCHED"}]
  /\ lock \in [Message -> Dispatcher \cup {NoLock}]
  /\ attempts \in [Message -> Nat] /\ received \in [Message -> Nat]
  /\ due \subseteq Message
  /\ batch \in [Dispatcher -> SUBSET Message]
  /\ outcome \in [Dispatcher -> {"none", "sent", "raised"}]
  /\ errors \in Nat /\ crashes \in Nat

(***************************************************************************)
(* A message is in one dispatcher's hands at most, and its row says whose: *)
(* mark_dispatched and release_for_retry never meet a lock mismatch, which *)
(* would abandon the rest of the batch.                                    *)
(***************************************************************************)
ClaimsAreExclusive ==
  \A d \in Dispatcher : \A m \in batch[d] : m \in stored /\ LockHeld(d, m)

(***************************************************************************)
(* The validator of a row: a lock exactly while it is in flight.           *)
(***************************************************************************)
LockOnlyInFlight == \A m \in Message : (lock[m] # NoLock) <=> (status[m] = "IN_FLIGHT")

(***************************************************************************)
(* attempt_count never understates what the subscriber got: it is counted *)
(* at the claim, before anything is sent.                                  *)
(***************************************************************************)
AttemptsCoverReceipts == \A m \in Message : received[m] <= attempts[m]

(***************************************************************************)
(* The outbox delivers at least once and never after it said dispatched.   *)
(***************************************************************************)
D == INSTANCE Delivery WITH accepted <- stored,
                            done <- {m \in Message : status[m] = "DISPATCHED"}
ImplementsDelivery == D!Spec

(***************************************************************************)
(* Every accepted message is dispatched, unless the dispatcher that had    *)
(* claimed it died (nothing claims an IN_FLIGHT row again): failures are   *)
(* retried without loss, whatever the order of the batches.                *)
(***************************************************************************)
Abandoned(m) == status[m] = "IN_FLIGHT" /\ \E d \in Dispatcher : lock[m] = d /\ m \notin batch[d]

EveryMessageIsDispatched ==
  \A m \in Message : m \in stored ~> (status[m] = "DISPATCHED" \/ Abandoned(m))
=============================================================================
