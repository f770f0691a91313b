------------------------------- MODULE Delivery -------------------------------
(***************************************************************************)
(* What the producer and the outbox promise together, without connections, *)
(* locks, failed calls and runs of a job: an order is announced by its     *)
(* payment or out of the outbox, a payment succeeds only if its order is   *)
(* announced or owed, and a debt is settled only by an announcement.       *)
(* Orders implements this specification.                                   *)
(***************************************************************************)
CONSTANT Payment

VARIABLES
  outcome,    \* of each payment: open, done or failed
  announced,  \* the payments whose order is on the topic
  debt        \* whether the outbox owes it: none, pending or processed

deliveryVars == <<outcome, announced, debt>>

DeliveryInit ==
  /\ outcome = [p \in Payment |-> "open"]
  /\ announced = {}
  /\ debt = [p \in Payment |-> "none"]

\* A topic takes nothing back.
Announce(p) ==
  /\ outcome[p] = "open" \/ debt[p] = "pending"
  /\ announced' = announced \cup {p}
  /\ UNCHANGED <<outcome, debt>>

\* A payment makes one debt at most, and before its end.
Owe(p) ==
  /\ outcome[p] = "open" /\ debt[p] = "none"
  /\ debt' = [debt EXCEPT ![p] = "pending"]
  /\ UNCHANGED <<outcome, announced>>

Settle(p) ==
  /\ debt[p] = "pending" /\ p \in announced
  /\ debt' = [debt EXCEPT ![p] = "processed"]
  /\ UNCHANGED <<outcome, announced>>

Succeed(p) ==
  /\ outcome[p] = "open"
  /\ p \in announced \/ debt[p] = "pending"
  /\ outcome' = [outcome EXCEPT ![p] = "done"]
  /\ UNCHANGED <<announced, debt>>

\* Whether its order was announced or not.
GiveUp(p) ==
  /\ outcome[p] = "open"
  /\ outcome' = [outcome EXCEPT ![p] = "failed"]
  /\ UNCHANGED <<announced, debt>>

DeliveryNext ==
  \E p \in Payment : Announce(p) \/ Owe(p) \/ Settle(p) \/ Succeed(p) \/ GiveUp(p)

DeliverySpec == DeliveryInit /\ [][DeliveryNext]_deliveryVars
=============================================================================
