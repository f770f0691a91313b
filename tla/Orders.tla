-------------------------------- MODULE Orders --------------------------------
(***************************************************************************)
(* How an order gets from a routed payment to the Kafka topic: sent inside *)
(* the transaction, saved in the outbox when that fails, and sent again by *)
(* processOutboxMessages every ten seconds.  All of it competes for the    *)
(* connections of one pool.  What the payment reads and writes of seats    *)
(* and balances is in Seats and Accounts; here its writes are one step     *)
(* that needs the row locks all payments of one buyer share.               *)
(***************************************************************************)
EXTENDS Integers, FiniteSets

CONSTANTS
  Payment,    \* calls of processPayment, of one buyer
  Job,        \* runs of processOutboxMessages that may be in flight at once
  None,       \* no message
  PoolSize,   \* connectionLimit
  MaxCount    \* where the counters saturate, for model checking

ASSUME OrdersAssumption ==
  /\ None \notin Payment
  /\ IsFiniteSet(Job) /\ Job # {}
  /\ PoolSize \in Nat \ {0}
  /\ MaxCount \in Nat \ {0}

VARIABLES
  payPc,     \* how far each payment is
  outbox,    \* its row of the table outbox: none, pending or processed
  copies,    \* how many copies of its message the topic holds
  troubles,  \* how many sends and marks of it were done but not acknowledged
  batch,     \* the messages each run has found and not yet sent
  marking    \* the message it has sent and has yet to mark

vars == <<payPc, outbox, copies, troubles, batch, marking>>

PayPc == {"start", "begun", "looked", "written", "sent", "unsent", "stored", "done", "failed"}

TypeOK ==
  /\ payPc \in [Payment -> PayPc]
  /\ outbox \in [Payment -> {"none", "pending", "processed"}]
  /\ copies \in [Payment -> 0..MaxCount]
  /\ troubles \in [Payment -> 0..MaxCount]
  /\ batch \in [Job -> SUBSET Payment]
  /\ marking \in [Job -> Payment \cup {None}]

Init ==
  /\ payPc = [p \in Payment |-> "start"]
  /\ outbox = [p \in Payment |-> "none"]
  /\ copies = [p \in Payment |-> 0]
  /\ troubles = [p \in Payment |-> 0]
  /\ batch = [j \in Job |-> {}]
  /\ marking = [j \in Job |-> None]

More(count, p) == [count EXCEPT ![p] = IF @ < MaxCount THEN @ + 1 ELSE @]

\* A transaction keeps its connection from START TRANSACTION to its end.
InTransaction == {"begun", "looked", "written", "sent", "unsent", "stored"}

Connected == {p \in Payment : payPc[p] \in InTransaction}

\* A statement outside the transaction needs a connection of its own, for as long
\* as it runs; the pool makes it wait, without a time limit.
ConnectionFree == Cardinality(Connected) < PoolSize

\* The row locks from the first UPDATE to the end of the transaction.
RowsFree == \A p \in Payment : payPc[p] \notin {"written", "sent", "unsent", "stored"}

Goto(p, label) == payPc' = [payPc EXCEPT ![p] = label]

-----------------------------------------------------------------------------
(* Payments: start -> begun -> looked -> written -> sent -> done, or         *)
(* ... written -> unsent -> stored -> done when the send failed.             *)

\* The transaction takes a connection and reads the user on it.
Begin(p) ==
  /\ payPc[p] = "start"
  /\ ConnectionFree
  /\ \E next \in {"begun", "failed"} : Goto(p, next)
  /\ UNCHANGED <<outbox, copies, troubles, batch, marking>>

\* getPerformanceByConcertAndDate is not given the manager: a second connection.
FindPerformance(p) ==
  /\ payPc[p] = "begun"
  /\ ConnectionFree
  /\ \E next \in {"looked", "failed"} : Goto(p, next)
  /\ UNCHANGED <<outbox, copies, troubles, batch, marking>>

\* The hold and the money are there; payment, seat, reservation, user and token
\* are written.
WriteRows(p) ==
  /\ payPc[p] = "looked"
  /\ RowsFree
  /\ Goto(p, "written")
  /\ UNCHANGED <<outbox, copies, troubles, batch, marking>>

\* kafkaProducer.send, awaited in the transaction.  A send that throws may have
\* reached the broker all the same.
SendOrder(p) ==
  /\ payPc[p] = "written"
  /\ \/ /\ Goto(p, "sent")
        /\ copies' = More(copies, p)
        /\ UNCHANGED troubles
     \/ /\ Goto(p, "unsent")
        /\ copies' = More(copies, p)
        /\ troubles' = More(troubles, p)
     \/ /\ Goto(p, "unsent")
        /\ UNCHANGED <<copies, troubles>>
  /\ UNCHANGED <<outbox, batch, marking>>

SaveAsProcessed(p) ==
  /\ payPc[p] = "unsent"
  /\ ConnectionFree
  /\ Goto(p, "stored")
  /\ outbox' = [outbox EXCEPT ![p] = "processed"]
  /\ UNCHANGED <<copies, troubles, batch, marking>>

LogOnly(p) ==
  /\ payPc[p] = "unsent"
  /\ Goto(p, "stored")
  /\ UNCHANGED <<outbox, copies, troubles, batch, marking>>

\* saveOutboxMessage in the catch clause: through its own repository, so on a
\* second connection again, and committed at once.
SaveOutbox(p) ==
  /\ payPc[p] = "unsent"
  /\ ConnectionFree
  /\ Goto(p, "stored")
  /\ outbox' = [outbox EXCEPT ![p] = "pending"]
  /\ UNCHANGED <<copies, troubles, batch, marking>>

Commit(p) ==
  /\ payPc[p] \in {"sent", "stored"}
  /\ Goto(p, "done")
  /\ UNCHANGED <<outbox, copies, troubles, batch, marking>>

FailButNotWaiting(p) ==
  /\ \/ payPc[p] \in {"written", "sent", "stored"}
     \/ payPc[p] = "unsent" /\ ConnectionFree
  /\ Goto(p, "failed")
  /\ UNCHANGED <<outbox, copies, troubles, batch, marking>>

\* No hold, too little money, a lock wait that times out, an error of a statement
\* or of the commit: rollback, and connection and locks are free.  A statement
\* that still waits for its connection cannot fail.
Fail(p) ==
  /\ \/ payPc[p] \in {"looked", "written", "sent", "stored"}
     \/ payPc[p] = "unsent" /\ ConnectionFree
  /\ Goto(p, "failed")
  /\ UNCHANGED <<outbox, copies, troubles, batch, marking>>

Pay(p) ==
  \/ Begin(p) \/ FindPerformance(p) \/ WriteRows(p) \/ SendOrder(p)
  \/ SaveOutbox(p) \/ Commit(p) \/ Fail(p)

-----------------------------------------------------------------------------
(* processOutboxMessages.                                                    *)

AnyMessage(p) == outbox[p] # "none"

\* WHERE processed = false
Unprocessed(p) == outbox[p] = "pending"

\* A run starts with one SELECT; a run that finds nothing is over.
FindMessages(j) ==
  LET messages == {p \in Payment : Unprocessed(p)} IN
  /\ batch[j] = {} /\ marking[j] = None
  /\ ConnectionFree
  /\ messages # {}
  /\ batch' = [batch EXCEPT ![j] = messages]
  /\ UNCHANGED <<payPc, outbox, copies, troubles, marking>>

MarkUnsent(j, p) ==
  /\ p \in batch[j] /\ marking[j] = None
  /\ batch' = [batch EXCEPT ![j] = @ \ {p}]
  /\ marking' = [marking EXCEPT ![j] = p]
  /\ UNCHANGED <<payPc, outbox, copies, troubles>>

\* The broker acknowledges; the rows come in no particular order.
Resend(j, p) ==
  /\ p \in batch[j] /\ marking[j] = None
  /\ batch' = [batch EXCEPT ![j] = @ \ {p}]
  /\ marking' = [marking EXCEPT ![j] = p]
  /\ copies' = More(copies, p)
  /\ UNCHANGED <<payPc, outbox, troubles>>

\* The send throws, after or before the message reached the broker: the error is
\* caught in the loop, which goes on with the next message.
ResendFails(j, p) ==
  /\ p \in batch[j] /\ marking[j] = None
  /\ batch' = [batch EXCEPT ![j] = @ \ {p}]
  /\ \/ copies' = More(copies, p) /\ troubles' = More(troubles, p)
     \/ UNCHANGED <<copies, troubles>>
  /\ UNCHANGED <<payPc, outbox, marking>>

\* markAsProcessed: a statement of its own, by id.
Mark(j) ==
  /\ marking[j] # None
  /\ ConnectionFree
  /\ outbox' = [outbox EXCEPT ![marking[j]] = "processed"]
  /\ marking' = [marking EXCEPT ![j] = None]
  /\ UNCHANGED <<payPc, copies, troubles, batch>>

\* Its failure is caught as that of the send: the row stays to be sent again.
MarkFails(j) ==
  /\ marking[j] # None
  /\ ConnectionFree
  /\ troubles' = More(troubles, marking[j])
  /\ marking' = [marking EXCEPT ![j] = None]
  /\ UNCHANGED <<payPc, outbox, copies, batch>>

Process(j) ==
  \/ FindMessages(j)
  \/ \E p \in Payment : Resend(j, p) \/ ResendFails(j, p)
  \/ Mark(j) \/ MarkFails(j)

-----------------------------------------------------------------------------
Next ==
  \/ \E p \in Payment : Pay(p)
  \/ \E j \in Job : Process(j)

\* Handlers run on, cron keeps starting runs, and neither the broker nor the
\* database refuses for ever.
Fairness ==
  /\ \A p \in Payment : WF_vars(Pay(p))
  /\ \A j \in Job :
       /\ SF_vars(FindMessages(j))
       /\ \A p \in Payment : SF_vars(Resend(j, p))
       /\ SF_vars(Mark(j))

Spec == Init /\ [][Next]_vars /\ Fairness

-----------------------------------------------------------------------------
(* Properties                                                                *)

\* The order of a payment that succeeded is never lost: it is on the topic, or
\* the outbox still owes it, whatever failed in which order.
OrderSafe == \A p \in Payment : payPc[p] = "done" => copies[p] > 0 \/ outbox[p] = "pending"

\* What the outbox calls processed was really sent, however the runs overlap.
ProcessedWasSent == \A p \in Payment : outbox[p] = "processed" => copies[p] > 0

\* Consumers get an order again only for a reason: a send or a mark whose success
\* was not acknowledged, or runs of the job that overlapped on it.
NoNeedlessCopy ==
  \A p \in Payment : copies[p] <= troubles[p] + Cardinality(Job) \/ troubles[p] = MaxCount

\* Every connection of the pool belongs to a transaction, and each of those waits
\* for a second one.
PoolExhausted ==
  /\ ~ConnectionFree
  /\ \A p \in Connected : payPc[p] \in {"begun", "unsent"}

\* A payment is answered in the end: failures give back connections and locks, and
\* the one way to get stuck is the pool with every transaction asking for more.
AnsweredUnlessExhausted ==
  \A p \in Payment : payPc[p] \in InTransaction ~> payPc[p] \in {"done", "failed"} \/ PoolExhausted

\* The order of a successful payment reaches the topic in the end, under the same
\* proviso, whatever other messages fail.
EveryOrderAnnounced ==
  \A p \in Payment : payPc[p] = "done" ~> copies[p] > 0 \/ PoolExhausted

TheDelivery == INSTANCE Delivery WITH
  outcome   <- [p \in Payment |-> IF payPc[p] \in {"done", "failed"} THEN payPc[p] ELSE "open"],
  announced <- {p \in Payment : copies[p] > 0},
  debt      <- outbox

\* Producer, outbox and job deliver: only a payment under way or a message the
\* outbox still owes puts an order on the topic first, each payment owes at most
\* once and never after its end, and no run settles what nobody announced.
OrdersDelivered == TheDelivery!DeliverySpec

-----------------------------------------------------------------------------
(* The inductive invariant behind the first two.                             *)

\* What each stage of a payment has seen to.
SentInv ==
  \A p \in Payment :
    /\ payPc[p] = "sent" => copies[p] > 0
    /\ payPc[p] \in {"stored", "done"} => copies[p] > 0 \/ outbox[p] = "pending"

\* A run marks only what it has sent.
MarkInv == \A j \in Job : marking[j] # None => copies[marking[j]] > 0

IInv == TypeOK /\ SentInv /\ MarkInv /\ OrderSafe /\ ProcessedWasSent

-----------------------------------------------------------------------------
(* The inductive invariant behind NoNeedlessCopy.                            *)

\* The runs that have yet to send a message, and those that have yet to mark it.
Holding(p) == {j \in Job : p \in batch[j]}

Marking(p) == {j \in Job : marking[j] = p}

\* A run has a message before it or behind it, and only if the outbox has it; the
\* outbox has it only once the send of the payment is over.
StageInv ==
  \A p \in Payment :
    /\ payPc[p] \in {"start", "begun", "looked", "written"} => copies[p] = 0
    /\ payPc[p] \notin {"stored", "done", "failed"} => outbox[p] = "none"
    /\ outbox[p] = "none" => Holding(p) = {} /\ Marking(p) = {}
    /\ Holding(p) \cap Marking(p) = {}

\* While a message is pending, a copy without its trouble belongs to a run that has
\* yet to mark it; once it is processed, each run can send it at most once more.
BudgetInv ==
  \A p \in Payment :
    \/ troubles[p] = MaxCount
    \/ /\ outbox[p] = "none"
       /\ copies[p] <= 1
       /\ payPc[p] = "unsent" => copies[p] <= troubles[p]
    \/ /\ outbox[p] = "pending"
       /\ copies[p] <= troubles[p] + Cardinality(Marking(p))
    \/ /\ outbox[p] = "processed"
       /\ copies[p] + Cardinality(Holding(p)) <= troubles[p] + Cardinality(Job)

CopyInv == StageInv /\ BudgetInv
=============================================================================
