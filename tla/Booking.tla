------------------------------- MODULE Booking -------------------------------
(***************************************************************************)
(* Reserving, paying and charging together: the seat table of Seats and    *)
(* the balances of Accounts under one PaymentService.  A payment is here   *)
(* the one call it is in the code: each of its steps is a step of its      *)
(* seat side, of its money side or of both, in the order of the source.    *)
(***************************************************************************)
EXTENDS Seats, FiniteSets

CONSTANTS
  Charge, ChargeMode,  \* calls of the charge endpoint and the methods they reach
  Opening, Amount      \* opening balances; prices and charged amounts

ASSUME BookingAssumption ==
  /\ Null \notin Charge \cup Sweep
  /\ Charge \cap (Request \cup Payment) = {}
  /\ Sweep \cap (Request \cup Payment \cup Charge) = {}
  /\ ChargeMode \subseteq {"optimistic", "pessimistic", "increment"}
  /\ Opening \subseteq Nat
  /\ Amount \subseteq Int

VARIABLES
  account,       \* committed rows of the table user
  userLock,      \* which transaction holds the exclusive lock on a user row
  order,         \* user, amount and variant of each charge and payment
  moneyPc,       \* how far a charge, or the money side of a payment, is
  readBalance,   \* the balance it read
  fundsVersion,  \* and the version that came with it
  exhausted      \* no connection of the pool will ever be free again

money == <<account, userLock, order, moneyPc, readBalance, fundsVersion>>

bookingVars == <<vars, money, exhausted>>

Money == INSTANCE Accounts
           WITH Debit <- Payment, pc <- moneyPc, readVersion <- fundsVersion

\* Both sides are of the same call.
SameCall == \A p \in Payment : order[p].user = buy[p].user /\ order[p].mode = buy[p].mode

BookingInit == Init /\ Money!Init /\ SameCall /\ exhausted = FALSE

-----------------------------------------------------------------------------
(* One payment.  Steps in the order of the source:                           *)
(*   routed      BeginPayment, LookForHold, WriteSeat, WriteBalance, Commit  *)
(*   optimistic  BeginPayment, LookForHold, TakeMoney, SellByVersion, Commit *)

Routed(p) == buy[p].mode = "routed"

\* The user is read first: in the transaction, whose snapshot it opens, or by the
\* second variant on a connection of the repository's own.
BeginPayment(p) ==
  /\ Money!ReadFunds(p)
  /\ IF Routed(p) THEN OpenSnapshot(p)
                  ELSE payPc[p] = "start" /\ UNCHANGED vars

\* No hold: the exception ends the money side as well.
LookForHold(p) ==
  /\ moneyPc[p] \in {"read", "rejected"}
  /\ FindHold(p)
  /\ IF payPc'[p] = "failed" /\ moneyPc[p] = "read" THEN Money!Fail(p) ELSE UNCHANGED money

\* The balance read at the start is compared with the price only now, after the
\* hold was found; too little money ends the payment in FailBooking.
WriteSeat(p) == moneyPc[p] = "read" /\ WriteReserved(p) /\ UNCHANGED money

\* updateBalance without the manager: another connection, committed at once.
WriteBalanceAtOnce(p) ==
  /\ payPc[p] = "written" /\ Routed(p) /\ moneyPc[p] = "read"
  /\ Money!Unlocked(p)
  /\ account' = Money!Written(order[p].user, readBalance[p] - order[p].amount)
  /\ moneyPc' = [moneyPc EXCEPT ![p] = "done"]
  /\ UNCHANGED <<vars, userLock, order, readBalance, fundsVersion>>

\* The two UPDATEs issued together rather than one after the other.
WriteBalanceInAnyOrder(p) ==
  payPc[p] \in {"found", "written"} /\ Money!LockFunds(p) /\ UNCHANGED vars

\* The routed payment's UPDATE of the user, in the transaction.
WriteBalance(p) == payPc[p] = "written" /\ Money!LockFunds(p) /\ UNCHANGED vars

\* The second variant's UPDATE of the user, outside the transaction; it goes on
\* to the seat whether or not a row matched.
TakeMoney(p) == payPc[p] = "found" /\ Money!UpdateFunds(p) /\ UNCHANGED vars

\* ... and then that of the seat.
SellByVersion(p) == moneyPc[p] \in {"taken", "skipped"} /\ UpdateDone(p) /\ UNCHANGED money

\* The transaction commits what was written through its manager.
Commit(p) ==
  /\ CommitPayment(p)
  /\ IF Routed(p) THEN Money!CommitDebit(p) ELSE UNCHANGED money

\* An exception or a failed statement: rollback of both sides, except for what the
\* second variant committed on the other connection.
FailBooking(p) ==
  /\ FailPayment(p)
  /\ IF moneyPc[p] \in {"start", "read", "locked"} THEN Money!Fail(p) ELSE UNCHANGED money

PayBooking(p) ==
  \/ BeginPayment(p) \/ LookForHold(p) \/ WriteSeat(p) \/ WriteBalance(p)
  \/ TakeMoney(p) \/ SellByVersion(p) \/ Commit(p) \/ FailBooking(p)

-----------------------------------------------------------------------------
ChargeUser(c) == Money!ChargeStep(c) /\ UNCHANGED vars

ReserveSeat(r) == Reserve(r) /\ UNCHANGED money

SweepSeats(w) == (SweepFind(w) \/ SweepReset(w) \/ SweepFail(w)) /\ UNCHANGED money

PassTime == Tick /\ UNCHANGED money

\* Everybody was answered and the clock is at its bound.
AllFinished == Finished /\ Money!Finished

\* The pool serves every endpoint.  Once each of its connections is held by a
\* transaction that asks for another one, as Orders shows may happen, whoever asks
\* waits for ever: the pool sets no time limit.
Exhaust == exhausted' = TRUE /\ UNCHANGED <<vars, money>>

BookingStep ==
  \/ \E r \in Request : ReserveSeat(r)
  \/ \E p \in Payment : PayBooking(p)
  \/ \E c \in Charge : ChargeUser(c)
  \/ \E w \in Sweep : SweepSeats(w)
  \/ PassTime
  \/ AllFinished

BookingNext ==
  \/ BookingStep /\ UNCHANGED exhausted
  \/ Exhaust

\* What x does next it does on the connection of its own transaction.  Of the routed
\* payment those are the two UPDATEs: it looks the performance up on a second
\* connection before them, and after them saves an order it could not send on another.
OwnConnection(x) ==
  \/ x \in Request /\ ask[x].mode = "pessimistic" /\ reqPc[x] \in {"locked", "ready"}
  \/ x \in Charge /\ moneyPc[x] = "locked"
  \/ /\ x \in Payment /\ Routed(x) /\ moneyPc[x] = "read"
     /\ payPc[x] \in {"found", "written"}

\* x goes on: it needs no connection, or it is its turn to get one.
Served(x) == (exhausted => OwnConnection(x)) /\ UNCHANGED exhausted

\* Time passes.  Handlers run on as long as they are served: a wait for a row ends
\* with the row or with the lock wait timeout.  cron keeps starting sweeps, some of
\* which succeed.  An exhausted pool serves nobody who needs a connection.
BookingFairness ==
  /\ WF_bookingVars(PassTime /\ UNCHANGED exhausted)
  /\ \A r \in Request : WF_bookingVars(ReserveSeat(r) /\ Served(r))
  /\ \A p \in Payment : WF_bookingVars(PayBooking(p) /\ Served(p))
  /\ \A c \in Charge : WF_bookingVars(ChargeUser(c) /\ Served(c))
  /\ \A w \in Sweep : SF_bookingVars(SweepFind(w) /\ UNCHANGED money /\ Served(w))
                      /\ SF_bookingVars(SweepReset(w) /\ UNCHANGED money /\ Served(w))

BookingSpec == BookingInit /\ [][BookingNext]_bookingVars /\ BookingFairness

-----------------------------------------------------------------------------
(* Properties                                                                *)

\* The payment's reservation row is committed.
HasReservation(p) == \E x \in reservation : x.payment = p

\* The routed payment takes the money and sells the seat together or not at all,
\* wherever between its seven statements it fails and whoever waits for its locks.
AllOrNothing == \A p \in Payment : Routed(p) => (moneyPc[p] = "done" <=> HasReservation(p))

\* The second variant sells without taking money (it does not look at how many
\* rows its UPDATE matched) only if another update of the account, a charge or a
\* payment, was committed since it read the user.
UnpaidSaleHasCause ==
  \A p \in Payment :
    HasReservation(p) /\ moneyPc[p] = "skipped" =>
      \E x \in Money!Updates(buy[p].user) :
        x # p /\ Cardinality(Money!Updates(buy[p].user)) >= fundsVersion[p]

\* A statement of x that waits for the row of seat s.
WantsSeat(x, s) ==
  \/ /\ x \in Request /\ ask[x].seat = s
     /\ reqPc[x] = IF ask[x].mode = "pessimistic" THEN "start" ELSE "ready"
  \/ /\ x \in Payment /\ buy[x].seat = s /\ payPc[x] = "found"
     /\ moneyPc[x] \in IF Routed(x) THEN {"read", "locked"} ELSE {"taken", "skipped"}
  \/ x \in Sweep /\ s \in found[x]

\* A sweep locks the rows it found one after the other, so until it ends it may own any
\* of them that nobody else does.
MayOwnSeat(y, s) == rowLock[s] = y \/ (y \in Sweep /\ s \in found[y] /\ Free(s))

\* A statement of x that waits for the row of user u.
WantsUser(x, u) ==
  \/ /\ x \in Charge /\ order[x].user = u
     /\ moneyPc[x] = IF order[x].mode = "optimistic" THEN "read" ELSE "start"
  \/ /\ x \in Payment /\ order[x].user = u /\ moneyPc[x] = "read"
     /\ payPc[x] = IF Routed(x) THEN "written" ELSE "found"

\* Two sweeps lock in the order of the key and so cannot both wait for each other.
WaitsFor(x, y) ==
  \/ /\ ~(x \in Sweep /\ y \in Sweep)
     /\ \E s \in Seat : MayOwnSeat(y, s) /\ WantsSeat(x, s)
  \/ \E u \in User : userLock[u] = y /\ WantsUser(x, u)

Caller == Request \cup Payment \cup Charge \cup Sweep

\* No calls of whatever variants and no sweeps wait for each other in a circle: in every
\* set of them that wait, one waits for nobody of the set.  The payment's UPDATEs take
\* the seat row before the user row, and nobody takes a second seat row but the sweep,
\* which takes no user row.
NoWaitCycle ==
  LET Waiting == {x \in Caller : \E y \in Caller : WaitsFor(x, y)} IN
  \A C \in SUBSET Waiting : C # {} => \E x \in C : \A y \in C : ~WaitsFor(x, y)

\* No row stays locked by a call that has been answered, in either table, and no
\* transaction under way has lost a lock it took.
LocksHaveOwners == SeatLocksOwned /\ Money!UserLocksOwned

\* What the doc asks of a transaction: one that fails leaves nothing behind, neither
\* money taken nor a seat sold.
RolledBackWhole ==
  /\ \A p \in Payment : payPc[p] = "failed" => moneyPc[p] \notin {"taken", "done"}
  /\ SaleRecorded

\* A payment that has written both rows and may have to save the order it could not send.
AwaitsOutbox(x) == exhausted /\ x \in Payment /\ Routed(x) /\ moneyPc[x] = "locked"

\* Every row lock is released in the end, whatever becomes of the transaction that took
\* it, unless the pool is exhausted, and then too but for the one transaction that asks
\* for a connection with its rows locked.
LocksReleased ==
  /\ \A s \in Seat : rowLock[s] # Null ~> rowLock[s] = Null \/ AwaitsOutbox(rowLock[s])
  /\ \A u \in User : userLock[u] # Null ~> userLock[u] = Null \/ AwaitsOutbox(userLock[u])

\* A hold that runs out (early enough for the bounded clock) is released by the sweep
\* unless it was paid or the pool is exhausted: row locks, failed sweeps and rolled back
\* payments do not keep the seat blocked for ever.
ExpiredHoldReleased ==
  \A s \in Seat :
    (seat[s].status = "TEMP" /\ seat[s].expire + Grace < MaxTime)
      ~> seat[s].status # "TEMP" \/ exhausted
=============================================================================
