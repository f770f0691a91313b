---------------------------- MODULE BookingProofs ----------------------------
(***************************************************************************)
(* Theorems about Booking: together with the balances the seat table keeps *)
(* what it promises alone, and the balances what they promise beside the   *)
(* seats; and the routed payment is atomic over both tables.               *)
(***************************************************************************)
EXTENDS Booking, SeatsProofs

MoneyProofs == INSTANCE AccountsProofs
                 WITH Debit <- Payment, pc <- moneyPc, readVersion <- fundsVersion

\* Each step of Booking is a step of the seat table or leaves it alone.
LEMMA SeatsSide == [BookingNext]_bookingVars => [Next]_vars
BY DEF BookingNext, BookingStep, Exhaust, bookingVars, money, ReserveSeat, PayBooking, BeginPayment, LookForHold, WriteSeat,
       WriteBalance, TakeMoney, SellByVersion, Commit, FailBooking, ChargeUser, SweepSeats, PassTime,
       AllFinished, Next, Pay

\* Each step of Booking is a step of the accounts or leaves them alone.
LEMMA MoneySide == [BookingNext]_bookingVars => [Money!Next]_(Money!vars)
BY DEF BookingNext, BookingStep, Exhaust, bookingVars, money, ReserveSeat, PayBooking, BeginPayment, LookForHold, WriteSeat,
       WriteBalance, TakeMoney, SellByVersion, Commit, FailBooking, ChargeUser, SweepSeats, PassTime,
       AllFinished, Money!Next, Money!DebitStep, Money!vars

LEMMA SameNext == Money!Next <=> MoneyProofs!Next
BY DEF Money!Unlocked, MoneyProofs!Unlocked, Money!Unlock, MoneyProofs!Unlock, Money!Written,
       MoneyProofs!Written, Money!UserVersionUnchanged, MoneyProofs!UserVersionUnchanged,
       Money!ReadAccount, MoneyProofs!ReadAccount, Money!UpdateBalance,
       MoneyProofs!UpdateBalance, Money!LockAccount, MoneyProofs!LockAccount,
       Money!CommitCharge, MoneyProofs!CommitCharge, Money!ReadFunds, MoneyProofs!ReadFunds,
       Money!LockFunds, MoneyProofs!LockFunds, Money!CommitDebit, MoneyProofs!CommitDebit,
       Money!UpdateFunds, MoneyProofs!UpdateFunds, Money!Fail, MoneyProofs!Fail,
       Money!ChargeStep, MoneyProofs!ChargeStep, Money!DebitStep, MoneyProofs!DebitStep,
       Money!Finished, MoneyProofs!Finished, Money!Next, MoneyProofs!Next, Money!vars,
       MoneyProofs!vars, Money!Answered, MoneyProofs!Answered, Money!Call, MoneyProofs!Call,
       Money!CallPc, MoneyProofs!CallPc

LEMMA SameInit == Money!Init <=> MoneyProofs!Init
BY DEF Money!Init, MoneyProofs!Init, Money!Call, MoneyProofs!Call

\* What Accounts assumes of its constants holds of the payments here.
LEMMA MoneyAssumption == MoneyProofs!AccountsAssumption
BY BookingAssumption, ConstantsAssumption
   DEF BookingAssumption, ConstantsAssumption, MoneyProofs!AccountsAssumption

\* The invariants of the accounts, with payments that also buy seats.
MoneyInv == MoneyProofs!IInv /\ MoneyProofs!CountInv /\ MoneyProofs!OvertakenInv

LEMMA MoneyInit == BookingInit => MoneyInv
BY SameInit, MoneyAssumption, MoneyProofs!InitIInv, MoneyProofs!InitProgress DEF BookingInit, MoneyInv

LEMMA MoneyStep == MoneyInv /\ [BookingNext]_bookingVars => MoneyInv'
<1> SUFFICES ASSUME MoneyInv, [BookingNext]_bookingVars PROVE MoneyInv'
  OBVIOUS
<1>1. [MoneyProofs!Next]_(MoneyProofs!vars)
  BY MoneySide, SameNext DEF Money!vars, MoneyProofs!vars
<1>2. MoneyProofs!IInv'
  BY <1>1, MoneyAssumption, MoneyProofs!IInvStep DEF MoneyInv
<1>3. MoneyProofs!CountInv'
  BY <1>1, MoneyAssumption, MoneyProofs!CountStep DEF MoneyInv
<1>4. MoneyProofs!OvertakenInv'
  BY <1>1, MoneyAssumption, MoneyProofs!OvertakenStep DEF MoneyInv
<1> QED
  BY <1>2, <1>3, <1>4 DEF MoneyInv

-----------------------------------------------------------------------------
(* What one side of a payment knows of the other.                            *)

\* A payment has its reservation row when its transaction committed, and so the
\* routed one its debit.
TogetherInv ==
  \A p \in Payment :
    /\ HasReservation(p) <=> payPc[p] = "done"
    /\ Routed(p) => (payPc[p] = "done" <=> moneyPc[p] = "done")

\* Each action of a payment ends both sides or neither.
LEMMA PayTogether ==
  ASSUME TypeOK, MoneyInv, TogetherInv, NEW p \in Payment, PayBooking(p)
  PROVE  TogetherInv'
<1> DEFINE Ended == payPc'[p] = "done" /\ payPc[p] = "written"
                    /\ reservation' = reservation \cup
                         {[seat |-> buy[p].seat, user |-> buy[p].user, payment |-> p]}
           Going == payPc[p] # "done" /\ payPc'[p] # "done" /\ reservation' = reservation
<1>0. /\ moneyPc \in [Payment \cup Charge -> MoneyProofs!CallPc]
      /\ payPc \in [Payment -> PayPc]
      /\ buy' = buy
      /\ \A q \in Payment \ {p} : payPc'[q] = payPc[q]
  <2>1. Pay(p) \/ UNCHANGED vars
    BY DEF PayBooking, BeginPayment, LookForHold, WriteSeat, WriteBalance, TakeMoney, SellByVersion,
           Commit, FailBooking, Pay
  <2>2. buy' = buy /\ \A q \in Payment \ {p} : payPc'[q] = payPc[q]
    BY <2>1, PaymentLocal DEF vars, TypeOK
  <2> QED
    BY <2>2 DEF TypeOK, MoneyInv, MoneyProofs!IInv, MoneyProofs!TypeOK, MoneyProofs!Call
<1>1. ASSUME NEW q \in Payment, q # p
      PROVE  moneyPc'[q] = moneyPc[q]
  BY <1>0, <1>1 DEF PayBooking, BeginPayment, LookForHold, WriteSeat, WriteBalance, TakeMoney,
                    SellByVersion, Commit, FailBooking, money, Money!ReadFunds, Money!LockFunds,
                    Money!CommitDebit, Money!UpdateFunds, Money!Fail
<1>2. \/ Ended /\ (Routed(p) => moneyPc'[p] = "done")
      \/ Going /\ (Routed(p) => moneyPc'[p] # "done")
  <2> USE <1>0 DEF database, requests, payments
  <2>0. payPc[p] # "done" /\ Routed(p) => moneyPc[p] # "done"
    BY DEF TogetherInv
  <2>1. CASE BeginPayment(p)
    BY <2>0, <2>1 DEF BeginPayment, OpenSnapshot, Money!ReadFunds, vars, Routed
  <2>2. CASE LookForHold(p)
    BY <2>0, <2>2 DEF LookForHold, FindHold, Money!Fail, money, Routed
  <2>3. CASE WriteSeat(p)
    BY <2>0, <2>3 DEF WriteSeat, WriteReserved, money
  <2>4. CASE WriteBalance(p)
    BY <2>0, <2>4 DEF WriteBalance, Money!LockFunds, vars
  <2>5. CASE TakeMoney(p)
    BY <2>0, <2>5 DEF TakeMoney, Money!UpdateFunds, vars
  <2>6. CASE SellByVersion(p)
    <3>1. payPc[p] = "found" /\ payPc'[p] \in {"written", "failed"} /\ UNCHANGED <<reservation, money>>
      BY <2>6 DEF SellByVersion, UpdateDone
    <3> QED
      BY <2>0, <3>1 DEF money
  <2>7. CASE Commit(p)
    BY <2>0, <2>7 DEF Commit, CommitPayment, Money!CommitDebit
  <2>8. CASE FailBooking(p)
    BY <2>0, <2>8 DEF FailBooking, FailPayment, Money!Fail, money
  <2> QED
    BY <2>1, <2>2, <2>3, <2>4, <2>5, <2>6, <2>7, <2>8 DEF PayBooking
<1>3. ASSUME NEW q \in Payment PROVE HasReservation(q)' <=> payPc'[q] = "done"
  <2>1. CASE Ended
    <3>1. payPc'[q] = "done" <=> q = p \/ payPc[q] = "done"
      BY <1>0, <1>3, <2>1
    <3>2. HasReservation(q)' <=> q = p \/ HasReservation(q)
      <4> DEFINE row == [seat |-> buy[p].seat, user |-> buy[p].user, payment |-> p]
      <4>1. reservation' = reservation \cup {row} /\ row.payment = p
        BY <2>1
      <4> QED
        BY <4>1 DEF HasReservation
    <3> QED
      BY <1>3, <3>1, <3>2 DEF TogetherInv
  <2>2. CASE Going
    <3>1. HasReservation(q)' <=> HasReservation(q)
      BY <2>2 DEF HasReservation
    <3>2. payPc'[q] = "done" <=> payPc[q] = "done"
      BY <1>0, <1>3, <2>2
    <3> QED
      BY <1>3, <3>1, <3>2 DEF TogetherInv
  <2> QED
    BY <1>2, <2>1, <2>2
<1>4. ASSUME NEW q \in Payment, Routed(q) PROVE payPc'[q] = "done" <=> moneyPc'[q] = "done"
  BY <1>0, <1>1, <1>2, <1>4 DEF TogetherInv
<1> QED
  BY <1>0, <1>3, <1>4 DEF TogetherInv, Routed

\* Everybody else leaves the payments alone.
LEMMA TogetherStep ==
  ASSUME TypeOK, MoneyInv, TogetherInv, [BookingNext]_bookingVars
  PROVE  TogetherInv'
<1>1. ASSUME NEW p \in Payment, PayBooking(p) PROVE TogetherInv'
  BY <1>1, PayTogether
<1>a. ASSUME UNCHANGED <<buy, payPc, reservation>>, \A p \in Payment : moneyPc'[p] = moneyPc[p]
      PROVE  TogetherInv'
  BY <1>a DEF TogetherInv, HasReservation, Routed
<1>2. ASSUME NEW r \in Request, ReserveSeat(r) PROVE TogetherInv'
  BY <1>a, <1>2, RequestLocal DEF ReserveSeat, money, payments
<1>3. ASSUME NEW c \in Charge, ChargeUser(c) PROVE TogetherInv'
  <2>1. c \notin Payment
    BY BookingAssumption DEF BookingAssumption
  <2>2. \A p \in Payment : moneyPc'[p] = moneyPc[p]
    BY <1>3, <2>1 DEF ChargeUser, Money!ChargeStep, Money!ReadAccount, Money!UpdateBalance,
                      Money!LockAccount, Money!CommitCharge, Money!Fail, MoneyInv, MoneyProofs!IInv,
                      MoneyProofs!TypeOK, MoneyProofs!Call
  <2> QED
    BY <1>a, <1>3, <2>2 DEF ChargeUser, vars
<1>4. ASSUME NEW w \in Sweep, SweepSeats(w) PROVE TogetherInv'
  BY <1>a, <1>4 DEF SweepSeats, SweepFind, SweepReset, SweepFail, money, database, requests, payments
<1>5. CASE PassTime
  BY <1>a, <1>5 DEF PassTime, Tick, money, database, requests, payments
<1>6. CASE UNCHANGED bookingVars \/ Exhaust
  BY <1>a, <1>6 DEF bookingVars, vars, money, Exhaust
<1>7. CASE AllFinished
  BY <1>a, <1>7 DEF AllFinished, Finished, Money!Finished, vars, Money!vars
<1> QED
  BY <1>1, <1>2, <1>3, <1>4, <1>5, <1>6, <1>7 DEF BookingNext, BookingStep

\* The arguments of calls never change, so a payment keeps one user on both sides.
LEMMA SameCallStep ==
  ASSUME TypeOK, MoneyInv, SameCall, [BookingNext]_bookingVars
  PROVE  SameCall'
<1>1. buy' = buy
  BY SeatsSide, RequestLocal, PaymentLocal, OtherLocal DEF payments
<1>2. order' = order
  <2>1. [MoneyProofs!Next]_(MoneyProofs!vars)
    BY MoneySide, SameNext DEF Money!vars, MoneyProofs!vars
  <2>2. CASE MoneyProofs!Next
    BY <2>2, MoneyAssumption, MoneyProofs!AnswersStay DEF MoneyInv, MoneyProofs!IInv
  <2>3. CASE UNCHANGED MoneyProofs!vars
    BY <2>3 DEF MoneyProofs!vars
  <2> QED
    BY <2>1, <2>2, <2>3
<1> QED
  BY <1>1, <1>2 DEF SameCall

-----------------------------------------------------------------------------
(* The theorems.                                                             *)

\* Joined to the balances the seat table is still what Seats proves of it: whatever
\* a charge or the money side of a payment does, holds and sales are kept.
THEOREM SeatsInvariant == ASSUME SingleSweep PROVE BookingSpec => []IInv
<1>1. BookingInit => IInv
  BY InitIInv DEF BookingInit
<1>2. IInv /\ [BookingNext]_bookingVars => IInv'
  BY SeatsSide, IInvStep
<1> QED
  BY <1>1, <1>2, PTL DEF BookingSpec

\* The balances, with payments that also wait for seats and fail with them.
THEOREM MoneyInvariant == BookingSpec => []MoneyInv
<1> QED
  BY MoneyInit, MoneyStep, PTL DEF BookingSpec

\* Types of the seats hold for overlapping sweeps too.
LEMMA SeatTypes == BookingSpec => []TypeOK
<1>1. BookingInit => TypeOK
  BY InitIInv DEF BookingInit, IInv
<1>2. TypeOK /\ [BookingNext]_bookingVars => TypeOK'
  BY SeatsSide, TypeStep
<1> QED
  BY <1>1, <1>2, PTL DEF BookingSpec

LEMMA Together == BookingSpec => []TogetherInv
<1>1. BookingInit => TogetherInv
  <2> SUFFICES ASSUME BookingInit PROVE TogetherInv
    OBVIOUS
  <2>1. \A p \in Payment : payPc[p] = "start" /\ moneyPc[p] = "start"
    BY DEF BookingInit, Init, Money!Init, Money!Call
  <2> QED
    BY <2>1 DEF BookingInit, Init, TogetherInv, HasReservation
<1>2. TypeOK /\ MoneyInv /\ TogetherInv /\ [BookingNext]_bookingVars => TogetherInv'
  BY TogetherStep
<1> QED
  BY <1>1, <1>2, SeatTypes, MoneyInvariant, PTL DEF BookingSpec

\* processPayment takes the money and sells the seat together or not at all, for
\* any number of payments, charges, requests and sweeps.
THEOREM PaymentsAtomic == BookingSpec => []AllOrNothing
<1>1. TogetherInv => AllOrNothing
  BY DEF TogetherInv, AllOrNothing
<1> QED
  BY <1>1, Together, PTL

\* processPaymentWithOptimisticLock sells a seat without taking money only if it was
\* overtaken by another update of the account.
THEOREM UnpaidSalesExplained == BookingSpec => []UnpaidSaleHasCause
<1>1. MoneyInv /\ SameCall => UnpaidSaleHasCause
  <2> SUFFICES ASSUME MoneyInv, SameCall, NEW p \in Payment, moneyPc[p] = "skipped"
               PROVE  \E x \in Money!Updates(buy[p].user) :
                        x # p /\ Cardinality(Money!Updates(buy[p].user)) >= fundsVersion[p]
    BY DEF UnpaidSaleHasCause
  <2>1. Money!Updates(buy[p].user) = MoneyProofs!Updates(order[p].user)
    BY DEF SameCall, Money!Updates, MoneyProofs!Updates, Money!Call, MoneyProofs!Call
  <2>2. p \in MoneyProofs!Call
    BY DEF MoneyProofs!Call
  <2>3. \A S : MoneyProofs!Cardinality(S) = Cardinality(S)
    BY DEF MoneyProofs!Cardinality, Cardinality
  <2>4. /\ MoneyProofs!IInv /\ MoneyProofs!CountInv /\ MoneyProofs!OvertakenInv
        /\ moneyPc[p] \in {"conflict", "skipped"}
    BY DEF MoneyInv
  <2>5. /\ Cardinality(MoneyProofs!Updates(order[p].user)) >= fundsVersion[p]
        /\ MoneyProofs!Updates(order[p].user) # {}
    BY <2>2, <2>4, <2>3, MoneyAssumption, MoneyProofs!OvertakenByUpdates
  <2>6. p \notin MoneyProofs!Updates(order[p].user)
    BY DEF MoneyProofs!Updates
  <2> QED
    BY <2>1, <2>5, <2>6
<1>2. BookingInit => SameCall
  BY DEF BookingInit
<1>3. TypeOK /\ MoneyInv /\ SameCall /\ [BookingNext]_bookingVars => SameCall'
  BY SameCallStep
<1> QED
  BY <1>1, <1>2, <1>3, SeatTypes, MoneyInvariant, PTL DEF BookingSpec

\* Nor does the money side make the second variant sell a seat twice.
THEOREM BookedOnceByVersion == ASSUME SingleSweep PROVE BookingSpec => []SoldOnceByVersion
<1>1. BookingInit => OnceInv
  BY DEF BookingInit, Init, OnceInv, Bought
<1>2. IInv /\ OnceInv /\ [BookingNext]_bookingVars => OnceInv'
  BY SeatsSide, OnceStep
<1>3. IInv /\ OnceInv => SoldOnceByVersion
  BY OnceEnough DEF IInv
<1> QED
  BY <1>1, <1>2, <1>3, SeatsInvariant, PTL DEF BookingSpec

-----------------------------------------------------------------------------
(* Booking keeps what its parts promise of single steps.                     *)

\* Every behaviour of Booking is, seen from the seat table, one of Seats.
THEOREM BookingImplementsSeats == BookingSpec => Spec
<1>1. BookingInit => Init
  BY DEF BookingInit
<1> QED
  BY <1>1, SeatsSide, PTL DEF BookingSpec, Spec

\* Seen from the user table it is one of Accounts.
THEOREM BookingImplementsAccounts == BookingSpec => Money!Spec
<1>1. BookingInit => Money!Init
  BY DEF BookingInit
<1> QED
  BY <1>1, MoneySide, PTL DEF BookingSpec, Money!Spec

\* With whole payments each seat still goes through the life cycle of SeatLife: free,
\* held, and sold only to who held it.
THEOREM BookingFollowsLife == ASSUME SingleSweep PROVE BookingSpec => SeatsFollowLife
<1>1. BookingInit => Life!LifeInit
  BY DEF BookingInit, Init, InitialSeat, LifeOf, Life!LifeInit, Life!FreeSeat
<1>2. IInv /\ [BookingNext]_bookingVars => [Life!LifeNext]_(Life!lifeVars)
  BY SeatsSide, LifeStep
<1> QED
  BY <1>1, <1>2, SeatsInvariant, PTL DEF BookingSpec, SeatsFollowLife, Life!LifeSpec

\* Of versioned payments that found the same hold one sells it, whatever becomes of
\* their money and however many runs of the sweep overlap.
THEOREM BookingHoldSells == BookingSpec => []HoldSoldOnce
<1>1. BookingInit => SaleInv
  BY DEF BookingInit, Init, SaleInv, HoldSoldOnce, Bought
<1>2. TypeOK /\ SaleInv /\ [BookingNext]_bookingVars => SaleInv'
  BY SeatsSide, SaleStep
<1>3. SaleInv => HoldSoldOnce
  BY DEF SaleInv
<1> QED
  BY <1>1, <1>2, <1>3, SeatTypes, PTL DEF BookingSpec

\* The lost update has the one cause it has in Accounts: with whole payments too, a call
\* that succeeds changes the balance by its own amount unless it is a routed payment and
\* was overtaken since it read the user.
THEOREM BookingLossIsOvertaking == BookingSpec => Money!LossNeedsOvertaking
<1>1. BookingInit => MoneyProofs!PinnedInv
  BY DEF BookingInit, Money!Init, MoneyProofs!PinnedInv, Money!Call
<1>2. ASSUME MoneyInv, MoneyProofs!PinnedInv, [BookingNext]_bookingVars
      PROVE  MoneyProofs!PinnedInv'
  <2>1. [MoneyProofs!Next]_(MoneyProofs!vars)
    BY <1>2, MoneySide, SameNext DEF Money!vars, MoneyProofs!vars
  <2> QED
    BY <1>2, <2>1, MoneyAssumption, MoneyProofs!PinnedStep DEF MoneyInv
<1>3. ASSUME MoneyInv, MoneyProofs!PinnedInv, [BookingNext]_bookingVars
      PROVE  [\A c \in Money!Call :
                moneyPc[c] \notin Money!Answered /\ moneyPc'[c] \in {"ok", "done", "taken"} =>
                  \/ account'[order[c].user].balance
                       = account[order[c].user].balance
                           + (IF c \in Charge THEN order[c].amount ELSE -order[c].amount)
                  \/ c \in Payment /\ order[c].mode = "routed" /\ ~Money!UserVersionUnchanged(c)]_(Money!vars)
  <2>1. CASE UNCHANGED Money!vars
    BY <2>1
  <2>2. CASE Money!Next
    <3> SUFFICES ASSUME NEW c \in Money!Call, moneyPc[c] \notin Money!Answered,
                        moneyPc'[c] \in {"ok", "done", "taken"}
                 PROVE  \/ account'[order[c].user].balance
                             = account[order[c].user].balance
                                 + (IF c \in Charge THEN order[c].amount ELSE -order[c].amount)
                        \/ c \in Payment /\ order[c].mode = "routed" /\ ~Money!UserVersionUnchanged(c)
      OBVIOUS
    <3>1. c \in MoneyProofs!Call /\ moneyPc[c] \notin MoneyProofs!Answered
      BY DEF Money!Call, MoneyProofs!Call, Money!Answered, MoneyProofs!Answered
    <3>2. \/ account'[order[c].user].balance = account[order[c].user].balance + MoneyProofs!Due(c)
          \/ c \in Payment /\ order[c].mode = "routed" /\ ~MoneyProofs!UserVersionUnchanged(c)
      BY <1>3, <2>2, <3>1, SameNext, MoneyAssumption, MoneyProofs!AmountStep DEF MoneyInv
    <3> QED
      BY <3>2 DEF MoneyProofs!Due, MoneyProofs!UserVersionUnchanged, Money!UserVersionUnchanged
  <2> QED
    BY <1>3, <2>1, <2>2, MoneySide
<1> QED
  BY <1>1, <1>2, <1>3, MoneyInvariant, PTL DEF BookingSpec, Money!LossNeedsOvertaking

\* Whole payments overdraw an account no more than charges and debits do in Accounts:
\* only a charge of a negative amount makes a balance fall below zero.
THEOREM NoBookingOverdraws == BookingSpec => Money!OnlyNegativeChargesOverdraw
<1>1. ASSUME MoneyInv, [BookingNext]_bookingVars
      PROVE  [\A u \in User :
                account'[u].balance < 0 /\ account'[u].balance < account[u].balance =>
                  \E c \in Charge :
                    /\ order[c].user = u /\ order[c].amount < 0 /\ order[c].mode # "increment"
                    /\ moneyPc[c] # "ok" /\ moneyPc'[c] = "ok"]_(Money!vars)
  <2>1. CASE UNCHANGED Money!vars
    BY <2>1
  <2>2. CASE Money!Next
    BY <1>1, <2>2, SameNext, MoneyAssumption, MoneyProofs!OverdraftStep DEF MoneyInv
  <2> QED
    BY <1>1, <2>1, <2>2, MoneySide
<1> QED
  BY <1>1, MoneyInvariant, PTL DEF BookingSpec, Money!OnlyNegativeChargesOverdraw

\* Nor do whole payments disturb the ledger: where no routed payment works on an account,
\* it is the opening balance and the charges and debits that succeeded.
THEOREM BookingFollowsLedger == BookingSpec => Money!BalancesFollowLedger
<1> USE DEF Money!Posted, MoneyProofs!Posted, Money!Ledgered, MoneyProofs!Ledgered, Money!Call,
            MoneyProofs!Call
<1>1. BookingInit => Money!TheLedger!LedgerInit
  <2>1. BookingInit => MoneyProofs!TheLedger!LedgerInit
    BY SameInit, MoneyAssumption, MoneyProofs!LedgerStart DEF BookingInit
  <2> QED
    BY <2>1 DEF Money!TheLedger!LedgerInit, MoneyProofs!TheLedger!LedgerInit
<1>2. ASSUME MoneyInv, [BookingNext]_bookingVars
      PROVE  [Money!TheLedger!LedgerNext]_(Money!TheLedger!ledgerVars)
  <2>1. [MoneyProofs!Next]_(MoneyProofs!vars)
    BY <1>2, MoneySide, SameNext DEF Money!vars, MoneyProofs!vars
  <2>2. [MoneyProofs!TheLedger!LedgerNext]_(MoneyProofs!TheLedger!ledgerVars)
    BY <1>2, <2>1, MoneyAssumption, MoneyProofs!LedgerStep DEF MoneyInv
  <2> QED
    BY <2>2 DEF Money!TheLedger!LedgerNext, MoneyProofs!TheLedger!LedgerNext, Money!TheLedger!Post,
                MoneyProofs!TheLedger!Post, Money!TheLedger!ledgerVars, MoneyProofs!TheLedger!ledgerVars
<1> QED
  BY <1>1, <1>2, MoneyInvariant, PTL DEF BookingSpec, Money!BalancesFollowLedger, Money!TheLedger!LedgerSpec

-----------------------------------------------------------------------------
(* Locks over both tables.                                                   *)

\* The money side of a payment holds a lock only after the seat side has taken its own:
\* the UPDATE of the seat comes first.
SeatFirst == \A p \in Payment : moneyPc[p] = "locked" => Routed(p) /\ payPc[p] = "written"

LEMMA SeatFirstStep ==
  ASSUME TypeOK, MoneyInv, SameCall, SeatFirst, [BookingNext]_bookingVars
  PROVE  SeatFirst'
<1>0. /\ moneyPc \in [Payment \cup Charge -> MoneyProofs!CallPc]
      /\ payPc \in [Payment -> PayPc]
      /\ buy' = buy
  <2>1. buy' = buy
    BY SeatsSide, RequestLocal, PaymentLocal, OtherLocal DEF payments
  <2> QED
    BY <2>1 DEF TypeOK, MoneyInv, MoneyProofs!IInv, MoneyProofs!TypeOK, MoneyProofs!Call
<1>a. ASSUME payPc' = payPc, \A p \in Payment : moneyPc'[p] = "locked" => moneyPc[p] = "locked"
      PROVE  SeatFirst'
  BY <1>0, <1>a DEF SeatFirst, Routed
<1>1. ASSUME NEW p \in Payment, PayBooking(p) PROVE SeatFirst'
  <2> USE <1>0 DEF database, requests, payments
  <2>1. ASSUME NEW q \in Payment, q # p
        PROVE  moneyPc'[q] = moneyPc[q] /\ payPc'[q] = payPc[q]
    <3>1. moneyPc'[q] = moneyPc[q]
      BY <1>1, <2>1 DEF PayBooking, BeginPayment, LookForHold, WriteSeat, WriteBalance, TakeMoney,
                        SellByVersion, Commit, FailBooking, money, Money!ReadFunds, Money!LockFunds,
                        Money!CommitDebit, Money!UpdateFunds, Money!Fail
    <3>2. Pay(p) \/ UNCHANGED vars
      BY <1>1 DEF PayBooking, BeginPayment, LookForHold, WriteSeat, WriteBalance, TakeMoney,
                  SellByVersion, Commit, FailBooking, Pay
    <3> QED
      BY <2>1, <3>1, <3>2, PaymentLocal DEF vars
  <2>2. moneyPc'[p] = "locked" => Routed(p) /\ payPc'[p] = "written"
    <3>0. moneyPc[p] = "locked" => Routed(p) /\ payPc[p] = "written"
      BY DEF SeatFirst
    <3>1. CASE BeginPayment(p)
      BY <3>1 DEF BeginPayment, Money!ReadFunds
    <3>2. CASE LookForHold(p)
      BY <3>0, <3>2 DEF LookForHold, FindHold, Money!Fail, money
    <3>3. CASE WriteSeat(p)
      BY <3>0, <3>3 DEF WriteSeat, money
    <3>4. CASE WriteBalance(p)
      BY <3>4 DEF WriteBalance, Money!LockFunds, vars, SameCall, Routed
    <3>5. CASE TakeMoney(p)
      BY <3>5 DEF TakeMoney, Money!UpdateFunds
    <3>6. CASE SellByVersion(p)
      BY <3>6 DEF SellByVersion, money
    <3>7. CASE Commit(p)
      BY <3>0, <3>7 DEF Commit, Money!CommitDebit, money
    <3>8. CASE FailBooking(p)
      BY <3>0, <3>8 DEF FailBooking, Money!Fail, money
    <3> QED
      BY <1>1, <3>1, <3>2, <3>3, <3>4, <3>5, <3>6, <3>7, <3>8 DEF PayBooking
  <2> QED
    BY <2>1, <2>2 DEF SeatFirst, Routed
<1>2. ASSUME NEW r \in Request, ReserveSeat(r) PROVE SeatFirst'
  BY <1>a, <1>2, RequestLocal DEF ReserveSeat, money, payments
<1>3. ASSUME NEW c \in Charge, ChargeUser(c) PROVE SeatFirst'
  <2>1. c \notin Payment
    BY BookingAssumption DEF BookingAssumption
  <2>2. \A p \in Payment : moneyPc'[p] = moneyPc[p]
    BY <1>0, <1>3, <2>1 DEF ChargeUser, Money!ChargeStep, Money!ReadAccount, Money!UpdateBalance,
                            Money!LockAccount, Money!CommitCharge, Money!Fail
  <2> QED
    BY <1>a, <1>3, <2>2 DEF ChargeUser, vars
<1>4. ASSUME NEW w \in Sweep, SweepSeats(w) PROVE SeatFirst'
  BY <1>a, <1>4 DEF SweepSeats, SweepFind, SweepReset, SweepFail, money, database, requests, payments
<1>5. CASE PassTime
  BY <1>a, <1>5 DEF PassTime, Tick, money, database, requests, payments
<1>6. CASE UNCHANGED bookingVars \/ Exhaust
  BY <1>a, <1>6 DEF bookingVars, vars, money, Exhaust
<1>7. CASE AllFinished
  BY <1>a, <1>7 DEF AllFinished, Finished, Money!Finished, vars, Money!vars
<1> QED
  BY <1>1, <1>2, <1>3, <1>4, <1>5, <1>6, <1>7 DEF BookingNext, BookingStep

LEMMA SameCallAlways == BookingSpec => []SameCall
<1>1. BookingInit => SameCall
  BY DEF BookingInit
<1>2. TypeOK /\ MoneyInv /\ SameCall /\ [BookingNext]_bookingVars => SameCall'
  BY SameCallStep
<1> QED
  BY <1>1, <1>2, SeatTypes, MoneyInvariant, PTL DEF BookingSpec

\* Every lock, of a seat row or a user row, belongs to a transaction under way on that
\* row, and is gone when the call is answered, also if it failed between the two UPDATEs.
THEOREM LocksOwned == BookingSpec => []LocksHaveOwners
<1>1. BookingInit => GuardInv
  BY InitGuard DEF BookingInit
<1>2. GuardInv /\ [BookingNext]_bookingVars => GuardInv'
  BY SeatsSide, GuardStep
<1>3. BookingInit => MoneyProofs!UserLocksOwned
  BY SameInit, BookingAssumption, ConstantsAssumption
     DEF BookingInit, MoneyProofs!Init, MoneyProofs!UserLocksOwned, MoneyProofs!Call,
         BookingAssumption, ConstantsAssumption
<1>4. MoneyInv /\ MoneyProofs!UserLocksOwned /\ [BookingNext]_bookingVars => MoneyProofs!UserLocksOwned'
  <2> SUFFICES ASSUME MoneyInv, MoneyProofs!UserLocksOwned, [BookingNext]_bookingVars
               PROVE  MoneyProofs!UserLocksOwned'
    OBVIOUS
  <2>1. [MoneyProofs!Next]_(MoneyProofs!vars)
    BY MoneySide, SameNext DEF Money!vars, MoneyProofs!vars
  <2> QED
    BY <2>1, MoneyAssumption, MoneyProofs!OwnersStep DEF MoneyInv
<1>5. GuardInv /\ MoneyProofs!UserLocksOwned => LocksHaveOwners
  BY DEF GuardInv, LocksHaveOwners, Money!UserLocksOwned, MoneyProofs!UserLocksOwned, Money!Call,
         MoneyProofs!Call
<1> QED
  BY <1>1, <1>2, <1>3, <1>4, <1>5, MoneyInvariant, PTL DEF BookingSpec

\* Reservations, payments, charges and sweeps never wait for each other in a circle: who
\* owns a user row waits for nobody, who owns a seat row waits at most for a user row,
\* and a sweep waits for the owner of a seat row.
THEOREM NobodyWaitsInCircles == BookingSpec => []NoWaitCycle
<1>1. BookingInit => SeatFirst
  BY DEF BookingInit, Money!Init, Money!Call, SeatFirst
<1>2. TypeOK /\ MoneyInv /\ SameCall /\ SeatFirst /\ [BookingNext]_bookingVars => SeatFirst'
  BY SeatFirstStep
<1>3. TypeOK /\ MoneyInv /\ LocksHaveOwners /\ SeatFirst => NoWaitCycle
  <2> SUFFICES ASSUME TypeOK, MoneyInv, LocksHaveOwners, SeatFirst,
                      NEW C \in SUBSET Caller, NEW start \in C,
                      \A x \in C : \E y \in C : WaitsFor(x, y)
               PROVE  FALSE
    BY DEF NoWaitCycle
  <2> USE BookingAssumption, ConstantsAssumption DEF BookingAssumption, ConstantsAssumption
  <2>1. ASSUME NEW a \in C, NEW u \in User, userLock[u] = a
        PROVE  FALSE
    <3>1. a \in Payment \cup Charge
      <4>1. userLock[u] \in Payment \cup Charge \cup {Null}
        BY DEF MoneyInv, MoneyProofs!IInv, MoneyProofs!TypeOK, MoneyProofs!Call
      <4>2. a # Null
        BY DEF Caller
      <4> QED
        BY <2>1, <4>1, <4>2
    <3>2. moneyPc[a] = "locked"
      BY <2>1, <3>1 DEF LocksHaveOwners, Money!UserLocksOwned, Money!Call
    <3>3. a \in Payment => payPc[a] = "written"
      BY <3>2 DEF SeatFirst
    <3>4. a \notin Sweep /\ a \notin Request
      BY <3>1
    <3>5. (\A s \in Seat : ~WantsSeat(a, s)) /\ (\A v \in User : ~WantsUser(a, v))
      BY <3>1, <3>2, <3>3, <3>4 DEF WantsSeat, WantsUser
    <3> QED
      BY <3>5 DEF WaitsFor
  <2>2. ASSUME NEW a \in C, NEW s \in Seat, rowLock[s] = a
        PROVE  FALSE
    <3>1. PICK b \in C : WaitsFor(a, b)
      OBVIOUS
    <3>2. a \notin Sweep \cup Charge
      <4>1. a \in Request \cup Payment
        BY <2>2 DEF TypeOK, Caller
      <4> QED
        BY <4>1
    <3>3. \A t \in Seat : ~WantsSeat(a, t)
      <4>1. a \in Request \cup Payment
        BY <3>2 DEF Caller
      <4>2. WorksOnSeat(a, s)
        BY <2>2, <4>1 DEF LocksHaveOwners, SeatLocksOwned
      <4> QED
        BY <3>2, <4>1, <4>2 DEF WorksOnSeat, WantsSeat
    <3>4. \E u \in User : userLock[u] = b
      BY <3>1, <3>3 DEF WaitsFor
    <3> QED
      BY <2>1, <3>4
  <2>3. ASSUME NEW a \in C, a \in Sweep
        PROVE  FALSE
    <3>1. PICK b \in C : WaitsFor(a, b)
      OBVIOUS
    <3>2. a \notin Charge /\ a \notin Payment
      BY <2>3
    <3>3. \A u \in User : ~WantsUser(a, u)
      BY <3>2 DEF WantsUser
    <3>4. \E s \in Seat : rowLock[s] = b
      BY <2>3, <3>1, <3>3 DEF WaitsFor, MayOwnSeat
    <3> QED
      BY <2>2, <3>4
  <2>4. PICK b \in C : WaitsFor(start, b)
    OBVIOUS
  <2>5. b \in Sweep \/ (\E s \in Seat : rowLock[s] = b) \/ (\E u \in User : userLock[u] = b)
    BY <2>4 DEF WaitsFor, MayOwnSeat
  <2> QED
    BY <2>1, <2>2, <2>3, <2>5
<1> QED
  BY <1>1, <1>2, <1>3, SeatTypes, MoneyInvariant, SameCallAlways, LocksOwned, PTL DEF BookingSpec
=============================================================================
