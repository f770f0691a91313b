----------------------------- MODULE SeatsProofs -----------------------------
(***************************************************************************)
(* Proofs about Seats, for any number of seats, users, requests and        *)
(* payments, every mix of the variants and all lengths of hold and grace.  *)
(***************************************************************************)
EXTENDS Seats, TLAPS

USE DEF Free

\* The four ways a seat row is rewritten yield rows.
LEMMA RowOps ==
  ASSUME NEW row \in Row
  PROVE  /\ \A u \in User, e \in Nat : HeldRow(row, u, e) \in Row
         /\ \A status \in Sold : SoldRow(row, status) \in Row
         /\ ResetRow(row) \in Row
  BY DEF Row, Sold, HeldRow, SoldRow, ResetRow

\* Every step keeps the types of the rows and of the calls.
LEMMA TypeStep == TypeOK /\ [Next]_vars => TypeOK'
<1> SUFFICES ASSUME TypeOK, [Next]_vars PROVE TypeOK'
  OBVIOUS
<1> USE ConstantsAssumption DEF TypeOK, database, requests, payments
<1>0. \A s \in Seat : seat[s].version \in Nat
  BY DEF Row
<1>1. ASSUME NEW r \in Request, Reserve(r) PROVE TypeOK'
  <2> USE DEF ReqPc, Succeeded
  <2>0. \A s \in Seat : HeldRow(seat[s], ask[r].user, expireTime[r]) \in Row
    BY RowOps
  <2>1. CASE RefuseRequest(r)  BY <2>1 DEF RefuseRequest
  <2>2. CASE LockSeat(r)
    <3>1. reqPc' \in [Request -> ReqPc]  BY <2>2 DEF LockSeat
    <3>2. rowLock' \in [Seat -> Request \cup Payment \cup {Null}]  BY <2>2 DEF LockSeat
    <3> QED  BY <2>2, <3>1, <3>2 DEF LockSeat
  <2>3. CASE ReadSeat(r)
    <3>1. reqPc' \in [Request -> ReqPc]  BY <2>3 DEF ReadSeat
    <3>2. readVersion' \in [Request -> Nat]  BY <1>0, <2>3 DEF ReadSeat
    <3> QED  BY <2>3, <3>1, <3>2 DEF ReadSeat
  <2>4. CASE StampExpire(r)  BY <2>4 DEF StampExpire
  <2>5. CASE CommitHold(r)  BY <2>0, <2>5 DEF CommitHold, Release
  <2>6. CASE UpdateByVersion(r)
    <3>1. seat' \in [Seat -> Row]  BY <2>0, <2>6 DEF UpdateByVersion
    <3>2. reqPc' \in [Request -> ReqPc]  BY <2>6 DEF UpdateByVersion
    <3> QED  BY <2>6, <3>1, <3>2 DEF UpdateByVersion
  <2>7. CASE UpdateUnchecked(r)
    <3>1. seat' \in [Seat -> Row]  BY <2>0, <2>7 DEF UpdateUnchecked
    <3>2. reqPc' \in [Request -> ReqPc]  BY <2>7 DEF UpdateUnchecked
    <3> QED  BY <2>7, <3>1, <3>2 DEF UpdateUnchecked
  <2>8. CASE FailRequest(r)  BY <2>8 DEF FailRequest, Release
  <2> QED  BY <1>1, <2>1, <2>2, <2>3, <2>4, <2>5, <2>6, <2>7, <2>8 DEF Reserve
<1>2. ASSUME NEW p \in Payment, Pay(p) PROVE TypeOK'
  <2> USE DEF PayPc
  <2>0. \A s \in Seat : SoldRow(seat[s], "DONE") \in Row /\ SoldRow(seat[s], "RESERVED") \in Row
    BY RowOps DEF Sold
  <2>1. CASE OpenSnapshot(p)  BY <2>1 DEF OpenSnapshot
  <2>2. CASE FindHold(p)
    <3>1. view' \in [Payment -> Row]  BY <2>2 DEF FindHold
    <3> QED  BY <2>2, <3>1 DEF FindHold
  <2>3. CASE WriteReserved(p)  BY <2>3 DEF WriteReserved
  <2>4. CASE UpdateDone(p)
    <3>1. seat' \in [Seat -> Row]  BY <2>0, <2>4 DEF UpdateDone
    <3>2. payPc' \in [Payment -> PayPc]  BY <2>4 DEF UpdateDone
    <3> QED  BY <2>4, <3>1, <3>2 DEF UpdateDone
  <2>5. CASE CommitPayment(p)
    <3>1. seat' \in [Seat -> Row]  BY <2>0, <2>5 DEF CommitPayment
    <3>2. reservation' \subseteq Reservation  BY <2>5 DEF CommitPayment, Reservation
    <3> QED  BY <2>5, <3>1, <3>2 DEF CommitPayment, Release
  <2>6. CASE FailPayment(p)  BY <2>6 DEF FailPayment, Release
  <2> QED  BY <1>2, <2>1, <2>2, <2>3, <2>4, <2>5, <2>6 DEF Pay
<1>3. ASSUME NEW w \in Sweep, SweepFind(w) \/ SweepReset(w) \/ SweepFail(w) PROVE TypeOK'
  <2>0. \A s \in Seat : ResetRow(seat[s]) \in Row
    BY RowOps
  <2>1. CASE SweepFind(w)  BY <2>1 DEF SweepFind
  <2>2. CASE SweepReset(w)  BY <2>0, <2>2 DEF SweepReset
  <2>3. CASE SweepFail(w)  BY <2>3 DEF SweepFail
  <2> QED  BY <1>3, <2>1, <2>2, <2>3
<1>4. CASE Tick  BY <1>4 DEF Tick
<1>5. CASE UNCHANGED vars  BY <1>5 DEF vars
<1> QED  BY <1>1, <1>2, <1>3, <1>4, <1>5 DEF Next, Finished

-----------------------------------------------------------------------------
(* How a single row changes.                                                 *)

\* A row is held, sold or freed, each only when it may be.
RowTaken(s) ==
  /\ Reservable(s)
  /\ \E u \in User, e \in 0 .. now + Hold : seat'[s] = HeldRow(seat[s], u, e)

RowBought(s) ==
  /\ IsSold(s) \/ (seat[s].status = "TEMP" /\ now <= seat[s].expire + Grace)
  /\ \E status \in Sold : seat'[s] = SoldRow(seat[s], status)

RowFreed(s) ==
  /\ SweepDue(s)
  /\ seat'[s] = ResetRow(seat[s])
  /\ \E w \in Sweep : SweepReset(w)

RowEvolves(s) == seat'[s] = seat[s] \/ RowTaken(s) \/ RowBought(s) \/ RowFreed(s)

\* No other row changes.
OnlyRow(s) == \A t \in Seat \ {s} : seat'[t] = seat[t]

\* The reservation code holds only free rows: the lock or the version says so.
LEMMA RequestRows ==
  ASSUME TypeOK, LockInv, VersionInv, StampInv, NEW r \in Request, Reserve(r)
  PROVE  seat' = seat \/ \E s \in Seat : RowTaken(s) /\ OnlyRow(s)
<1> USE DEF TypeOK, database, requests, payments
<1> DEFINE s0 == ask[r].seat
           held == HeldRow(seat[s0], ask[r].user, expireTime[r])
<1>1. s0 \in Seat /\ ask[r].user \in User /\ expireTime[r] \in Nat /\ now \in Nat
  OBVIOUS
<1>a. ASSUME Reservable(s0), reqPc[r] = "ready", seat' = [seat EXCEPT ![s0] = held]
      PROVE  seat' = seat \/ \E s \in Seat : RowTaken(s) /\ OnlyRow(s)
  <2>1. expireTime[r] \in 0 .. now + Hold
    BY <1>1, <1>a, ConstantsAssumption DEF StampInv
  <2> QED  BY <1>1, <1>a, <2>1 DEF RowTaken, OnlyRow
<1>2. CASE RefuseRequest(r)  BY <1>2 DEF RefuseRequest
<1>3. CASE LockSeat(r)  BY <1>3 DEF LockSeat
<1>4. CASE ReadSeat(r)  BY <1>4 DEF ReadSeat
<1>5. CASE StampExpire(r)  BY <1>5 DEF StampExpire
<1>6. CASE CommitHold(r)
  <2>1. Reservable(s0)  BY <1>6 DEF CommitHold, LockInv
  <2> QED  BY <1>6, <1>a, <2>1 DEF CommitHold
<1>7. CASE UpdateByVersion(r)
  <2>1. CASE VersionUnchanged(r)
    <3>1. Reservable(s0)  BY <1>7, <2>1 DEF UpdateByVersion, VersionInv
    <3> QED  BY <1>7, <1>a, <2>1, <3>1 DEF UpdateByVersion
  <2>2. CASE ~VersionUnchanged(r)  BY <1>7, <2>2 DEF UpdateByVersion
  <2> QED  BY <2>1, <2>2
<1>8. CASE UpdateUnchecked(r)
  <2>1. CASE Reservable(s0)  BY <1>8, <1>a, <2>1 DEF UpdateUnchecked
  <2>2. CASE ~Reservable(s0)  BY <1>8, <2>2 DEF UpdateUnchecked
  <2> QED  BY <2>1, <2>2
<1>9. CASE FailRequest(r)  BY <1>9 DEF FailRequest
<1> QED  BY <1>2, <1>3, <1>4, <1>5, <1>6, <1>7, <1>8, <1>9 DEF Reserve

\* A payment that found its hold writes the row before the sweep may touch it.
LEMMA PaymentRows ==
  ASSUME TypeOK, FoundInv, NEW p \in Payment, Pay(p)
  PROVE  seat' = seat \/ \E s \in Seat : RowBought(s) /\ OnlyRow(s)
<1> USE DEF TypeOK, database, requests, payments
<1> DEFINE s0 == buy[p].seat
<1>1. s0 \in Seat /\ seat[s0] \in Row /\ foundAt[p] \in Nat /\ now \in Nat
  OBVIOUS
<1>2. payPc[p] \in {"found", "written"} =>
        IsSold(s0) \/ (seat[s0].status = "TEMP" /\ now <= seat[s0].expire + Grace)
  BY <1>1, ConstantsAssumption, TimingAssumption DEF FoundInv, IsSold, Row
<1>a. ASSUME NEW status \in Sold, payPc[p] \in {"found", "written"},
             seat' = [seat EXCEPT ![s0] = SoldRow(seat[s0], status)]
      PROVE  seat' = seat \/ \E s \in Seat : RowBought(s) /\ OnlyRow(s)
  BY <1>1, <1>2, <1>a DEF RowBought, OnlyRow
<1>3. CASE OpenSnapshot(p)  BY <1>3 DEF OpenSnapshot
<1>4. CASE FindHold(p)  BY <1>4 DEF FindHold
<1>5. CASE WriteReserved(p)  BY <1>5 DEF WriteReserved
<1>6. CASE UpdateDone(p)
  <2>1. CASE HoldUnchanged(p)  BY <1>6, <1>a, <2>1 DEF UpdateDone, Sold
  <2>2. CASE ~HoldUnchanged(p)  BY <1>6, <2>2 DEF UpdateDone
  <2> QED  BY <2>1, <2>2
<1>7. CASE CommitPayment(p)
  <2>1. CASE buy[p].mode = "routed"  BY <1>7, <1>a, <2>1 DEF CommitPayment, Sold
  <2>2. CASE buy[p].mode # "routed"  BY <1>7, <2>2 DEF CommitPayment
  <2> QED  BY <2>1, <2>2
<1>8. CASE FailPayment(p)  BY <1>8 DEF FailPayment
<1> QED  BY <1>3, <1>4, <1>5, <1>6, <1>7, <1>8 DEF Pay

\* Every step lets every row evolve as RowEvolves says; the clock moves only when
\* no row does.
LEMMA RowStep ==
  ASSUME IInv, [Next]_vars
  PROVE  /\ \A s \in Seat : RowEvolves(s)
         /\ now' = now \/ (now' = now + 1 /\ seat' = seat)
<1> USE DEF database, requests, payments
<1>1. ASSUME NEW r \in Request, Reserve(r)
      PROVE  (\A s \in Seat : RowEvolves(s)) /\ now' = now
  <2>1. now' = now
    BY <1>1 DEF Reserve, RefuseRequest, LockSeat, ReadSeat, StampExpire, CommitHold,
                UpdateByVersion, UpdateUnchecked, FailRequest
  <2> QED  BY <1>1, <2>1, RequestRows DEF IInv, RowEvolves, OnlyRow
<1>2. ASSUME NEW p \in Payment, Pay(p)
      PROVE  (\A s \in Seat : RowEvolves(s)) /\ now' = now
  <2>1. now' = now
    BY <1>2 DEF Pay, OpenSnapshot, FindHold, WriteReserved, UpdateDone, CommitPayment,
                FailPayment
  <2> QED  BY <1>2, <2>1, PaymentRows DEF IInv, RowEvolves, OnlyRow
<1>3. ASSUME NEW w \in Sweep, SweepFind(w) \/ SweepReset(w) \/ SweepFail(w)
      PROVE  (\A s \in Seat : RowEvolves(s)) /\ now' = now
  <2>1. CASE SweepFind(w) \/ SweepFail(w)  BY <2>1 DEF SweepFind, SweepFail, RowEvolves
  <2>2. CASE SweepReset(w)
    BY <2>2 DEF SweepReset, SweepInv, RowEvolves, RowFreed, IInv, TypeOK
  <2> QED  BY <1>3, <2>1, <2>2
<1>4. CASE Tick  BY <1>4 DEF Tick, RowEvolves
<1>5. CASE UNCHANGED vars  BY <1>5 DEF vars, RowEvolves
<1> QED  BY <1>1, <1>2, <1>3, <1>4, <1>5 DEF Next, Finished

\* The same, field by field.
LEMMA RowFields ==
  ASSUME TypeOK, NEW s \in Seat, RowEvolves(s)
  PROVE  \/ seat'[s] = seat[s]
         \/ /\ seat[s].status = "RESERVABLE"
            /\ seat'[s].status = "TEMP" /\ seat'[s].version = seat[s].version + 1
         \/ /\ seat[s].status \in Sold \/ (seat[s].status = "TEMP" /\ now <= seat[s].expire + Grace)
            /\ seat'[s].status \in Sold /\ seat'[s].userId = seat[s].userId
            /\ seat'[s].version = seat[s].version + 1
         \/ /\ seat[s].status = "TEMP" /\ seat[s].expire + Grace < now
            /\ seat'[s].status = "RESERVABLE" /\ seat'[s].version = seat[s].version + 1
            /\ \E w \in Sweep : SweepReset(w)
<1>1. CASE RowTaken(s)  BY <1>1 DEF RowTaken, Reservable, HeldRow
<1>2. CASE RowBought(s)  BY <1>2 DEF RowBought, IsSold, SoldRow
<1>3. CASE RowFreed(s)  BY <1>3 DEF RowFreed, SweepDue, ResetRow
<1> QED  BY <1>1, <1>2, <1>3 DEF RowEvolves

-----------------------------------------------------------------------------
(* What the steps of one process leave alone.                                *)

\* A request touches its own control state and its own locks.
LEMMA RequestLocal ==
  ASSUME TypeOK, NEW q \in Request, Reserve(q)
  PROVE  /\ UNCHANGED <<now, reservation, ask, payments, found>>
         /\ \A r \in Request \ {q} : /\ reqPc'[r] = reqPc[r]
                                     /\ readVersion'[r] = readVersion[r]
                                     /\ expireTime'[r] = expireTime[r]
         /\ \A s \in Seat : rowLock[s] \notin {q, Null} => rowLock'[s] = rowLock[s]
<1> USE DEF TypeOK, database, requests, payments
<1>1. CASE RefuseRequest(q)  BY <1>1 DEF RefuseRequest
<1>2. CASE LockSeat(q)
  <2>1. \A s \in Seat : rowLock[s] \notin {q, Null} => rowLock'[s] = rowLock[s]
    BY <1>2 DEF LockSeat
  <2>2. \A r \in Request \ {q} : reqPc'[r] = reqPc[r]
    BY <1>2 DEF LockSeat
  <2> QED  BY <1>2, <2>1, <2>2 DEF LockSeat
<1>3. CASE ReadSeat(q)  BY <1>3 DEF ReadSeat
<1>4. CASE StampExpire(q)  BY <1>4 DEF StampExpire
<1>5. CASE CommitHold(q)  BY <1>5 DEF CommitHold, Release
<1>6. CASE UpdateByVersion(q)
  <2>1. \A r \in Request \ {q} : reqPc'[r] = reqPc[r]
    BY <1>6 DEF UpdateByVersion
  <2> QED  BY <1>6, <2>1 DEF UpdateByVersion
<1>7. CASE UpdateUnchecked(q)  BY <1>7 DEF UpdateUnchecked
<1>8. CASE FailRequest(q)  BY <1>8 DEF FailRequest, Release
<1> QED  BY <1>1, <1>2, <1>3, <1>4, <1>5, <1>6, <1>7, <1>8 DEF Reserve

\* So does a payment; only its commit adds a reservation row.
LEMMA PaymentLocal ==
  ASSUME TypeOK, NEW q \in Payment, Pay(q)
  PROVE  /\ UNCHANGED <<now, buy, requests, found>>
         /\ \A p \in Payment \ {q} : /\ payPc'[p] = payPc[p]
                                     /\ view'[p] = view[p]
                                     /\ foundAt'[p] = foundAt[p]
         /\ \A s \in Seat : rowLock[s] \notin {q, Null} => rowLock'[s] = rowLock[s]
<1> USE DEF TypeOK, database, requests, payments
<1>1. CASE OpenSnapshot(q)  BY <1>1 DEF OpenSnapshot
<1>2. CASE FindHold(q)  BY <1>2 DEF FindHold
<1>3. CASE WriteReserved(q)  BY <1>3 DEF WriteReserved
<1>4. CASE UpdateDone(q)
  <2>1. \A p \in Payment \ {q} : payPc'[p] = payPc[p]
    BY <1>4 DEF UpdateDone
  <2> QED  BY <1>4, <2>1 DEF UpdateDone
<1>5. CASE CommitPayment(q)  BY <1>5 DEF CommitPayment, Release
<1>6. CASE FailPayment(q)  BY <1>6 DEF FailPayment, Release
<1> QED  BY <1>1, <1>2, <1>3, <1>4, <1>5, <1>6 DEF Pay

\* Neither the sweep nor the clock touches calls or locks.
LEMMA OtherLocal ==
  ASSUME [Next]_vars,
         ~\E r \in Request : Reserve(r),
         ~\E p \in Payment : Pay(p)
  PROVE  UNCHANGED <<rowLock, reservation, ask, reqPc, readVersion, expireTime,
                     buy, payPc, view, foundAt>>
<1> USE DEF database, requests, payments
<1>1. CASE \E w \in Sweep : SweepFind(w) \/ SweepReset(w) \/ SweepFail(w)
  BY <1>1 DEF SweepFind, SweepReset, SweepFail
<1>2. CASE Tick  BY <1>2 DEF Tick
<1>3. CASE UNCHANGED vars  BY <1>3 DEF vars
<1> QED  BY <1>1, <1>2, <1>3 DEF Next, Finished

-----------------------------------------------------------------------------
(* The parts of the inductive invariant, one by one.                         *)

\* Each request and payment stays on the path of its own variant.
LEMMA ModesStep == TypeOK /\ ModesInv /\ [Next]_vars => ModesInv'
<1> SUFFICES ASSUME TypeOK, ModesInv, [Next]_vars PROVE ModesInv'
  OBVIOUS
<1> USE DEF ModesInv
<1>1. ASSUME NEW q \in Request, Reserve(q) PROVE ModesInv'
  <2>1. UNCHANGED <<ask, buy, payPc>> /\ \A r \in Request \ {q} : reqPc'[r] = reqPc[r]
    BY <1>1, RequestLocal DEF payments
  <2>2. /\ reqPc'[q] = "locked" => ask[q].mode = "pessimistic"
        /\ reqPc'[q] = "read" => ask[q].mode = "optimistic"
        /\ reqPc'[q] = "stamped" => ask[q].mode = "cached"
        /\ reqPc'[q] = "missed" => ask[q].mode = "legacy"
    <3> USE DEF TypeOK
    <3>1. CASE RefuseRequest(q)  BY <3>1 DEF RefuseRequest
    <3>2. CASE LockSeat(q)  BY <3>2 DEF LockSeat
    <3>3. CASE ReadSeat(q)  BY <3>3 DEF ReadSeat
    <3>4. CASE StampExpire(q)  BY <3>4 DEF StampExpire
    <3>5. CASE CommitHold(q)  BY <3>5 DEF CommitHold
    <3>6. CASE UpdateByVersion(q)  BY <3>6 DEF UpdateByVersion
    <3>7. CASE UpdateUnchecked(q)  BY <3>7 DEF UpdateUnchecked
    <3>8. CASE FailRequest(q)  BY <3>8 DEF FailRequest
    <3> QED  BY <1>1, <3>1, <3>2, <3>3, <3>4, <3>5, <3>6, <3>7, <3>8 DEF Reserve
  <2> QED  BY <2>1, <2>2
<1>2. ASSUME NEW q \in Payment, Pay(q) PROVE ModesInv'
  <2>1. UNCHANGED <<ask, buy, reqPc>> /\ \A p \in Payment \ {q} : payPc'[p] = payPc[p]
    BY <1>2, PaymentLocal DEF requests
  <2>2. payPc'[q] = "snapshot" => buy[q].mode = "routed"
    BY <1>2 DEF Pay, OpenSnapshot, FindHold, WriteReserved, UpdateDone, CommitPayment,
                FailPayment, TypeOK
  <2> QED  BY <2>1, <2>2
<1>3. CASE ~(\E r \in Request : Reserve(r)) /\ ~(\E p \in Payment : Pay(p))
  BY <1>3, OtherLocal
<1> QED  BY <1>1, <1>2, <1>3

\* An expiry is at most Hold ahead when it is taken, and time only passes.
LEMMA StampStep == IInv /\ [Next]_vars => StampInv'
<1> SUFFICES ASSUME IInv, [Next]_vars PROVE StampInv'
  OBVIOUS
<1> USE ConstantsAssumption DEF IInv, StampInv
<1>0. now \in Nat /\ expireTime \in [Request -> Nat] /\ now' \in Nat /\ now <= now'
  BY TypeStep, RowStep DEF TypeOK
<1>1. ASSUME NEW q \in Request, Reserve(q) PROVE StampInv'
  <2>1. now' = now /\ \A r \in Request \ {q} : reqPc'[r] = reqPc[r] /\ expireTime'[r] = expireTime[r]
    BY <1>1, RequestLocal
  <2>2. reqPc'[q] \in {"stamped", "ready"} => expireTime'[q] <= now + Hold
    <3> USE <1>0 DEF TypeOK
    <3>1. CASE RefuseRequest(q)  BY <3>1 DEF RefuseRequest
    <3>2. CASE LockSeat(q)  BY <3>2 DEF LockSeat
    <3>3. CASE ReadSeat(q)
      <4>1. reqPc'[q] = "ready" => reqPc[q] = "stamped"  BY <3>3 DEF ReadSeat
      <4>2. reqPc'[q] # "stamped"  BY <3>3 DEF ReadSeat
      <4> QED  BY <3>3, <4>1, <4>2 DEF ReadSeat
    <3>4. CASE StampExpire(q)  BY <3>4 DEF StampExpire
    <3>5. CASE CommitHold(q)  BY <3>5 DEF CommitHold
    <3>6. CASE UpdateByVersion(q)  BY <3>6 DEF UpdateByVersion
    <3>7. CASE UpdateUnchecked(q)  BY <3>7 DEF UpdateUnchecked
    <3>8. CASE FailRequest(q)  BY <3>8 DEF FailRequest
    <3> QED  BY <1>1, <3>1, <3>2, <3>3, <3>4, <3>5, <3>6, <3>7, <3>8 DEF Reserve
  <2> QED  BY <1>0, <2>1, <2>2
<1>2. ASSUME NEW q \in Payment, Pay(q) PROVE StampInv'
  BY <1>0, <1>2, PaymentLocal DEF requests
<1>3. CASE ~(\E r \in Request : Reserve(r)) /\ ~(\E p \in Payment : Pay(p))
  BY <1>0, <1>3, OtherLocal
<1> QED  BY <1>1, <1>2, <1>3

\* A lock protects the free row until its owner is done.
LEMMA LockStep == TypeOK /\ ModesInv /\ LockInv /\ [Next]_vars => LockInv'
<1> SUFFICES ASSUME TypeOK, ModesInv, LockInv, [Next]_vars PROVE LockInv'
  OBVIOUS
<1> USE ConstantsAssumption DEF LockInv
<1>0. TypeOK  OBVIOUS
\* A row that a reservation has locked is rewritten by nobody else.
<1>a. ASSUME NEW r \in Request, rowLock[ask[r].seat] = r, rowLock'[ask[r].seat] = r,
             Reservable(ask[r].seat)
      PROVE  Reservable(ask[r].seat)'
  <2> DEFINE s0 == ask[r].seat
  <2>1. s0 \in Seat /\ ask'[r] = ask[r] /\ r # Null
    <3>1. CASE \E q \in Request : Reserve(q)  BY <1>0, <3>1, RequestLocal DEF TypeOK
    <3>2. CASE \E p \in Payment : Pay(p)  BY <1>0, <3>2, PaymentLocal DEF TypeOK, requests
    <3>3. CASE ~(\E q \in Request : Reserve(q)) /\ ~(\E p \in Payment : Pay(p))
      BY <1>0, <3>3, OtherLocal DEF TypeOK
    <3> QED  BY <3>1, <3>2, <3>3
  <2>2. seat'[s0] = seat[s0]
    <3> USE <1>0, <1>a, <2>1 DEF TypeOK, database, requests, payments
    <3>1. ASSUME NEW q \in Request, Reserve(q) PROVE seat'[s0] = seat[s0]
      <4>1. CASE RefuseRequest(q)  BY <4>1 DEF RefuseRequest
      <4>2. CASE LockSeat(q)  BY <4>2 DEF LockSeat
      <4>3. CASE ReadSeat(q)  BY <4>3 DEF ReadSeat
      <4>4. CASE StampExpire(q)  BY <4>4 DEF StampExpire
      <4>5. CASE CommitHold(q)  BY <4>5 DEF CommitHold, Release
      <4>6. CASE UpdateByVersion(q)  BY <4>6 DEF UpdateByVersion
      <4>7. CASE UpdateUnchecked(q)  BY <4>7 DEF UpdateUnchecked
      <4>8. CASE FailRequest(q)  BY <4>8 DEF FailRequest
      <4> QED  BY <3>1, <4>1, <4>2, <4>3, <4>4, <4>5, <4>6, <4>7, <4>8 DEF Reserve
    <3>2. ASSUME NEW q \in Payment, Pay(q) PROVE seat'[s0] = seat[s0]
      <4>1. CASE OpenSnapshot(q)  BY <4>1 DEF OpenSnapshot
      <4>2. CASE FindHold(q)  BY <4>2 DEF FindHold
      <4>3. CASE WriteReserved(q)  BY <4>3 DEF WriteReserved
      <4>4. CASE UpdateDone(q)  BY <4>4 DEF UpdateDone
      <4>5. CASE CommitPayment(q)
        <5>1. CASE buy[q].mode = "routed"
          <6>1. rowLock[buy[q].seat] = q /\ q # r  BY <4>5, <5>1 DEF CommitPayment
          <6> QED  BY <4>5, <5>1, <6>1 DEF CommitPayment
        <5>2. CASE buy[q].mode # "routed"  BY <4>5, <5>2 DEF CommitPayment
        <5> QED  BY <5>1, <5>2
      <4>6. CASE FailPayment(q)  BY <4>6 DEF FailPayment
      <4> QED  BY <3>2, <4>1, <4>2, <4>3, <4>4, <4>5, <4>6 DEF Pay
    <3>3. ASSUME NEW w \in Sweep, SweepFind(w) \/ SweepReset(w) \/ SweepFail(w)
          PROVE  seat'[s0] = seat[s0]
      BY <3>3 DEF SweepFind, SweepReset, SweepFail
    <3>4. CASE Tick  BY <3>4 DEF Tick
    <3>5. CASE UNCHANGED vars  BY <3>5 DEF vars
    <3> QED  BY <3>1, <3>2, <3>3, <3>4, <3>5 DEF Next, Finished
  <2> QED  BY <1>a, <2>1, <2>2 DEF Reservable
<1>1. ASSUME NEW q \in Request, Reserve(q) PROVE LockInv'
  <2> USE <1>0, <1>1 DEF TypeOK
  <2>1. /\ ask' = ask /\ buy' = buy /\ payPc' = payPc
        /\ \A r \in Request \ {q} : reqPc'[r] = reqPc[r]
        /\ \A s \in Seat : rowLock[s] \notin {q, Null} => rowLock'[s] = rowLock[s]
    BY RequestLocal DEF payments
  <2>2. ASSUME ask[q].mode = "pessimistic", reqPc'[q] \in {"locked", "ready"}
        PROVE  rowLock'[ask[q].seat] = q /\ Reservable(ask[q].seat)'
    <3> USE <2>2 DEF database, requests, payments, ModesInv
    <3>1. CASE RefuseRequest(q)  BY <3>1 DEF RefuseRequest
    <3>2. CASE LockSeat(q)  BY <3>2 DEF LockSeat, Reservable
    <3>3. CASE ReadSeat(q)  BY <3>3 DEF ReadSeat
    <3>4. CASE StampExpire(q)  BY <3>4 DEF StampExpire, Reservable
    <3>5. CASE CommitHold(q)  BY <3>5 DEF CommitHold
    <3>6. CASE UpdateByVersion(q)  BY <3>6 DEF UpdateByVersion
    <3>7. CASE UpdateUnchecked(q)  BY <3>7 DEF UpdateUnchecked
    <3>8. CASE FailRequest(q)  BY <3>8 DEF FailRequest
    <3> QED  BY <3>1, <3>2, <3>3, <3>4, <3>5, <3>6, <3>7, <3>8 DEF Reserve
  <2>3. ASSUME NEW r \in Request \ {q}, ask[r].mode = "pessimistic", reqPc[r] \in {"locked", "ready"}
        PROVE  rowLock'[ask[r].seat] = r /\ Reservable(ask[r].seat)'
    <3>1. rowLock[ask[r].seat] = r /\ rowLock'[ask[r].seat] = r /\ Reservable(ask[r].seat)
      BY <2>1, <2>3
    <3> QED  BY <1>a, <3>1
  <2>4. \A p \in Payment : buy[p].mode = "routed" /\ payPc[p] = "written" =>
                             rowLock'[buy[p].seat] = p
    BY <2>1
  <2>5. \A r \in Request : Reservable(ask[r].seat)' <=> seat'[ask[r].seat].status = "RESERVABLE"
    BY <2>1 DEF Reservable
  <2> QED  BY <2>1, <2>2, <2>3, <2>4, <2>5 DEF Reservable
<1>2. ASSUME NEW q \in Payment, Pay(q) PROVE LockInv'
  <2> USE <1>0, <1>2 DEF TypeOK
  <2>1. /\ ask' = ask /\ buy' = buy /\ reqPc' = reqPc
        /\ \A p \in Payment \ {q} : payPc'[p] = payPc[p]
        /\ \A s \in Seat : rowLock[s] \notin {q, Null} => rowLock'[s] = rowLock[s]
    BY PaymentLocal DEF requests
  <2>2. buy[q].mode = "routed" /\ payPc'[q] = "written" => rowLock'[buy[q].seat] = q
    <3>1. CASE OpenSnapshot(q)  BY <3>1 DEF OpenSnapshot
    <3>2. CASE FindHold(q)  BY <3>2 DEF FindHold
    <3>3. CASE WriteReserved(q)  BY <3>3 DEF WriteReserved
    <3>4. CASE UpdateDone(q)  BY <3>4 DEF UpdateDone
    <3>5. CASE CommitPayment(q)  BY <3>5 DEF CommitPayment
    <3>6. CASE FailPayment(q)  BY <3>6 DEF FailPayment
    <3> QED  BY <3>1, <3>2, <3>3, <3>4, <3>5, <3>6 DEF Pay
  <2>3. ASSUME NEW r \in Request, ask[r].mode = "pessimistic", reqPc[r] \in {"locked", "ready"}
        PROVE  rowLock'[ask[r].seat] = r /\ Reservable(ask[r].seat)'
    <3>1. rowLock[ask[r].seat] = r /\ rowLock'[ask[r].seat] = r /\ Reservable(ask[r].seat)
      BY <2>1, <2>3
    <3> QED  BY <1>a, <3>1
  <2>4. \A p \in Payment \ {q} : buy[p].mode = "routed" /\ payPc[p] = "written" =>
                                   rowLock'[buy[p].seat] = p
    BY <2>1
  <2> QED  BY <2>1, <2>2, <2>3, <2>4 DEF Reservable
<1>3. CASE ~(\E r \in Request : Reserve(r)) /\ ~(\E p \in Payment : Pay(p))
  <2>1. UNCHANGED <<rowLock, ask, reqPc, buy, payPc>>  BY <1>3, OtherLocal
  <2>2. \A r \in Request : ask[r].mode = "pessimistic" /\ reqPc[r] \in {"locked", "ready"}
                             => Reservable(ask[r].seat)'
    BY <1>a, <2>1
  <2> QED  BY <2>1, <2>2 DEF Reservable
<1> QED  BY <1>1, <1>2, <1>3

\* Each write of a row advances its version, whoever writes and however many sweeps
\* overlap.
LEMMA WritesCount ==
  ASSUME TypeOK, [Next]_vars
  PROVE  \A s \in Seat : seat'[s] = seat[s] \/ seat'[s].version = seat[s].version + 1
<1> USE DEF TypeOK, database, requests, payments
<1>1. ASSUME NEW q \in Request, Reserve(q), NEW s \in Seat
      PROVE  seat'[s] = seat[s] \/ seat'[s].version = seat[s].version + 1
  BY <1>1 DEF Reserve, RefuseRequest, LockSeat, ReadSeat, StampExpire, CommitHold,
              UpdateByVersion, UpdateUnchecked, FailRequest, HeldRow
<1>2. ASSUME NEW p \in Payment, Pay(p), NEW s \in Seat
      PROVE  seat'[s] = seat[s] \/ seat'[s].version = seat[s].version + 1
  BY <1>2 DEF Pay, OpenSnapshot, FindHold, WriteReserved, UpdateDone, CommitPayment,
              FailPayment, SoldRow
<1>3. ASSUME NEW w \in Sweep, SweepFind(w) \/ SweepReset(w) \/ SweepFail(w), NEW s \in Seat
      PROVE  seat'[s] = seat[s] \/ seat'[s].version = seat[s].version + 1
  BY <1>3 DEF SweepFind, SweepReset, SweepFail, ResetRow
<1>4. CASE Tick  BY <1>4 DEF Tick
<1>5. CASE UNCHANGED vars  BY <1>5 DEF vars
<1> QED  BY <1>1, <1>2, <1>3, <1>4, <1>5 DEF Next, Finished

\* A version that some request has read does not come back.
LEMMA VersionStep == TypeOK /\ ModesInv /\ VersionInv /\ [Next]_vars => VersionInv'
<1> SUFFICES ASSUME TypeOK, ModesInv, VersionInv, [Next]_vars PROVE VersionInv'
  OBVIOUS
<1>0. TypeOK /\ TypeOK' /\ ModesInv /\ VersionInv  BY TypeStep
<1>1. \A s \in Seat : seat'[s] = seat[s] \/ seat'[s].version = seat[s].version + 1
  BY WritesCount
<1> USE DEF VersionInv, VersionUnchanged, Reservable
<1>2. \A s \in Seat : seat[s].version \in Nat  BY <1>0 DEF TypeOK, Row
<1>3. readVersion \in [Request -> Nat] /\ \A r \in Request : ask[r].seat \in Seat
  BY <1>0 DEF TypeOK
<1>4. ASSUME NEW r \in Request, ask'[r] = ask[r], readVersion'[r] = readVersion[r],
             ask[r].mode \in {"optimistic", "cached"}, reqPc[r] \in {"read", "ready"}
      PROVE  /\ readVersion'[r] <= seat'[ask'[r].seat].version
             /\ seat'[ask'[r].seat].version = readVersion'[r] => seat'[ask'[r].seat].status = "RESERVABLE"
  BY <1>0, <1>1, <1>2, <1>3, <1>4
<1>5. ASSUME NEW q \in Request, Reserve(q) PROVE VersionInv'
  <2>1. ask' = ask /\ \A r \in Request \ {q} : reqPc'[r] = reqPc[r] /\ readVersion'[r] = readVersion[r]
    BY <1>0, <1>5, RequestLocal
  <2>2. ASSUME ask[q].mode \in {"optimistic", "cached"}, reqPc'[q] \in {"read", "ready"}
        PROVE  \/ readVersion'[q] = readVersion[q] /\ reqPc[q] \in {"read", "ready"}
               \/ /\ seat' = seat /\ seat[ask[q].seat].status = "RESERVABLE"
                  /\ readVersion'[q] = seat[ask[q].seat].version
    <3> USE <1>0, <2>2 DEF TypeOK, ModesInv, database
    <3>1. CASE RefuseRequest(q)  BY <3>1 DEF RefuseRequest
    <3>2. CASE LockSeat(q)  BY <3>2 DEF LockSeat
    <3>3. CASE ReadSeat(q)  BY <3>3 DEF ReadSeat
    <3>4. CASE StampExpire(q)  BY <3>4 DEF StampExpire
    <3>5. CASE CommitHold(q)  BY <3>5 DEF CommitHold
    <3>6. CASE UpdateByVersion(q)  BY <3>6 DEF UpdateByVersion
    <3>7. CASE UpdateUnchecked(q)  BY <3>7 DEF UpdateUnchecked
    <3>8. CASE FailRequest(q)  BY <3>8 DEF FailRequest
    <3> QED  BY <1>5, <3>1, <3>2, <3>3, <3>4, <3>5, <3>6, <3>7, <3>8 DEF Reserve
  <2> QED  BY <1>2, <1>3, <1>4, <2>1, <2>2
<1>6. ASSUME NEW q \in Payment, Pay(q) PROVE VersionInv'
  BY <1>0, <1>4, <1>6, PaymentLocal DEF requests
<1>7. CASE ~(\E r \in Request : Reserve(r)) /\ ~(\E p \in Payment : Pay(p))
  BY <1>4, <1>7, OtherLocal
<1> QED  BY <1>5, <1>6, <1>7

\* Whoever owns a row is at work on it: locks are freed with the transaction.
LEMMA OwnersStep ==
  TypeOK /\ ModesInv /\ LockInv /\ SeatLocksOwned /\ [Next]_vars => SeatLocksOwned'
<1> SUFFICES ASSUME TypeOK, ModesInv, LockInv, SeatLocksOwned, [Next]_vars PROVE SeatLocksOwned'
  OBVIOUS
<1> USE ConstantsAssumption
<1>1. TypeOK' /\ LockInv'  BY TypeStep, LockStep
<1>2. ASSUME NEW s \in Seat, NEW x \in Request \cup Payment, WorksOnSeat(x, s)'
      PROVE  rowLock'[s] = x
  BY <1>1, <1>2 DEF LockInv, WorksOnSeat, TypeOK
<1>3. ASSUME NEW s \in Seat, NEW x \in Request \cup Payment, rowLock'[s] = x
      PROVE  WorksOnSeat(x, s)'
  <2> USE <1>3 DEF TypeOK
  <2>1. rowLock[s] = x => WorksOnSeat(x, s)
    BY DEF SeatLocksOwned
  <2>2. x # Null
    OBVIOUS
  <2>3. ASSUME NEW q \in Request, Reserve(q) PROVE WorksOnSeat(x, s)'
    <3>0. /\ ask' = ask /\ buy' = buy /\ payPc' = payPc
          /\ \A r \in Request \ {q} : reqPc'[r] = reqPc[r]
      BY <2>3, RequestLocal DEF payments
    <3>1. CASE x # q
      <4>1. rowLock[s] = x
        BY <2>2, <2>3, <3>1 DEF Reserve, RefuseRequest, LockSeat, ReadSeat, StampExpire, CommitHold,
                      UpdateByVersion, UpdateUnchecked, FailRequest, Release, database
      <4> QED  BY <2>1, <3>0, <3>1, <4>1 DEF WorksOnSeat
    <3>2. CASE x = q
      <4> USE <2>2, <3>2 DEF database, requests, payments
      <4>1. CASE RefuseRequest(q)  BY <2>1, <4>1 DEF RefuseRequest, WorksOnSeat
      <4>2. CASE LockSeat(q)
        BY <2>1, <3>0, <4>2 DEF LockSeat, WorksOnSeat
      <4>3. CASE ReadSeat(q)  BY <2>1, <4>3 DEF ReadSeat, WorksOnSeat
      <4>4. CASE StampExpire(q)  BY <2>1, <3>0, <4>4 DEF StampExpire, WorksOnSeat
      <4>5. CASE CommitHold(q)  BY <4>5 DEF CommitHold, Release
      <4>6. CASE UpdateByVersion(q)  BY <2>1, <4>6 DEF UpdateByVersion, WorksOnSeat
      <4>7. CASE UpdateUnchecked(q)  BY <2>1, <4>7 DEF UpdateUnchecked, WorksOnSeat
      <4>8. CASE FailRequest(q)  BY <4>8 DEF FailRequest, Release
      <4> QED  BY <2>3, <4>1, <4>2, <4>3, <4>4, <4>5, <4>6, <4>7, <4>8 DEF Reserve
    <3> QED  BY <3>1, <3>2
  <2>4. ASSUME NEW q \in Payment, Pay(q) PROVE WorksOnSeat(x, s)'
    <3>0. /\ ask' = ask /\ buy' = buy /\ reqPc' = reqPc
          /\ \A p \in Payment \ {q} : payPc'[p] = payPc[p]
      BY <2>4, PaymentLocal DEF requests
    <3>1. CASE x # q
      <4>1. rowLock[s] = x
        BY <2>2, <2>4, <3>1 DEF Pay, OpenSnapshot, FindHold, WriteReserved, UpdateDone, CommitPayment,
                      FailPayment, Release, database
      <4> QED  BY <2>1, <3>0, <3>1, <4>1 DEF WorksOnSeat
    <3>2. CASE x = q
      <4> USE <2>2, <3>2 DEF database, requests, payments
      <4>1. CASE OpenSnapshot(q)  BY <2>1, <4>1 DEF OpenSnapshot, WorksOnSeat
      <4>2. CASE FindHold(q)  BY <2>1, <4>2 DEF FindHold, WorksOnSeat
      <4>3. CASE WriteReserved(q)  BY <2>1, <3>0, <4>3 DEF WriteReserved, WorksOnSeat
      <4>4. CASE UpdateDone(q)  BY <2>1, <4>4 DEF UpdateDone, WorksOnSeat
      <4>5. CASE CommitPayment(q)  BY <4>5 DEF CommitPayment, Release
      <4>6. CASE FailPayment(q)  BY <4>6 DEF FailPayment, Release
      <4> QED  BY <2>4, <4>1, <4>2, <4>3, <4>4, <4>5, <4>6 DEF Pay
    <3> QED  BY <3>1, <3>2
  <2>5. CASE ~(\E r \in Request : Reserve(r)) /\ ~(\E p \in Payment : Pay(p))
    BY <2>1, <2>5, OtherLocal DEF WorksOnSeat
  <2> QED  BY <2>3, <2>4, <2>5
<1> QED  BY <1>2, <1>3 DEF SeatLocksOwned

\* With one run at a time nothing happens to a due row but its own reset.
LEMMA SweepStep == IInv /\ SingleSweep /\ [Next]_vars => SweepInv'
<1> SUFFICES ASSUME IInv, SingleSweep, [Next]_vars PROVE SweepInv'
  OBVIOUS
<1> USE ConstantsAssumption DEF IInv, SweepInv
<1>0. TypeOK /\ TypeOK'  BY TypeStep
<1>1. ASSUME NEW s \in Seat, SweepDue(s),
             ~(\E w \in Sweep : SweepReset(w))
      PROVE  SweepDue(s)'
  <2>1. RowEvolves(s) /\ now' >= now  BY <1>0, RowStep DEF TypeOK
  <2>2. /\ ~Reservable(s) /\ ~IsSold(s)
        /\ ~(now <= seat[s].expire + Grace)
    BY <1>0, <1>1 DEF SweepDue, Reservable, IsSold, Sold, TypeOK, Row
  <2>3. seat'[s] = seat[s]
    BY <1>1, <2>1, <2>2 DEF RowEvolves, RowTaken, RowBought, RowFreed
  <2> QED  BY <1>0, <1>1, <2>1, <2>3 DEF SweepDue, TypeOK, Row
<1>2. CASE \E w \in Sweep : SweepReset(w)
  BY <1>0, <1>2 DEF SweepReset, SingleSweep, TypeOK
<1>3. CASE ~(\E w \in Sweep : SweepReset(w))
  <2>1. ASSUME NEW v \in Sweep, NEW s \in found'[v] PROVE SweepDue(s)'
    <3>1. s \in Seat  BY <1>0 DEF TypeOK
    <3>2. SweepDue(s)
      <4>1. CASE \E w \in Sweep : SweepFind(w)
        BY <1>0, <2>1, <4>1 DEF SweepFind, TypeOK
      <4>2. CASE \E w \in Sweep : SweepFail(w)
        BY <1>0, <2>1, <4>2 DEF SweepFail, TypeOK
      <4>3. CASE \E r \in Request : Reserve(r)  BY <1>0, <2>1, <4>3, RequestLocal
      <4>4. CASE \E p \in Payment : Pay(p)  BY <1>0, <2>1, <4>4, PaymentLocal
      <4>5. CASE Tick \/ UNCHANGED vars  BY <2>1, <4>5 DEF Tick, vars
      <4> QED  BY <1>3, <4>1, <4>2, <4>3, <4>4, <4>5 DEF Next, Finished
    <3> QED  BY <1>1, <1>3, <3>1, <3>2
  <2> QED  BY <2>1 DEF SweepDue
<1> QED  BY <1>2, <1>3

\* A hold seen in a snapshot outlives the snapshot as long as the sweep's grace.
LEMMA SnapshotStep == IInv /\ [Next]_vars => SnapshotInv'
<1> SUFFICES ASSUME IInv, [Next]_vars PROVE SnapshotInv'
  OBVIOUS
<1>r. (\A s \in Seat : RowEvolves(s)) /\ (now' = now \/ now' = now + 1)  BY RowStep
<1>0. TypeOK /\ TypeOK' /\ SnapshotInv  BY TypeStep DEF IInv
<1> USE ConstantsAssumption DEF SnapshotInv
<1> DEFINE Seen(p) == /\ seat[buy[p].seat].userId = view[p].userId
                      /\ \/ /\ seat[buy[p].seat].status = "TEMP"
                            /\ seat[buy[p].seat].expire = view[p].expire
                         \/ seat[buy[p].seat].status \in Sold
           Alive(p) == view[p].status = "TEMP" /\ now <= view[p].expire + Grace
<1>1. ASSUME NEW p \in Payment, Seen(p), Alive(p)', view'[p] = view[p], buy'[p] = buy[p]
      PROVE  Seen(p)'
  <2> DEFINE s0 == buy[p].seat
  <2>1. s0 \in Seat /\ seat[s0] \in Row /\ view[p] \in Row /\ now \in Nat  BY <1>0 DEF TypeOK
  <2>2. now <= view[p].expire + Grace  BY <1>r, <1>1, <2>1 DEF Row
  <2>3. \/ seat'[s0] = seat[s0]
        \/ seat'[s0].status \in Sold /\ seat'[s0].userId = seat[s0].userId
    BY <1>0, <1>r, <1>1, <2>1, <2>2, RowFields DEF Sold, Row
  <2> QED  BY <1>1, <2>1, <2>3
<1>2. ASSUME NEW q \in Request, Reserve(q) PROVE SnapshotInv'
  <2>1. UNCHANGED <<now, buy, payPc, view>>  BY <1>0, <1>2, RequestLocal DEF payments
  <2> QED  BY <1>0, <1>1, <2>1
<1>3. ASSUME NEW q \in Payment, Pay(q) PROVE SnapshotInv'
  <2>1. /\ now' = now /\ buy' = buy
        /\ \A p \in Payment \ {q} : payPc'[p] = payPc[p] /\ view'[p] = view[p]
    BY <1>0, <1>3, PaymentLocal
  <2>2. payPc'[q] = "snapshot" => seat' = seat /\ view'[q] = seat[buy[q].seat]
    BY <1>0, <1>3 DEF Pay, OpenSnapshot, FindHold, WriteReserved, UpdateDone, CommitPayment,
                      FailPayment, TypeOK, database
  <2>3. payPc'[q] = "snapshot" /\ Alive(q)' => Seen(q)'
    BY <2>1, <2>2
  <2> QED  BY <1>0, <1>1, <2>1, <2>3
<1>4. CASE ~(\E r \in Request : Reserve(r)) /\ ~(\E p \in Payment : Pay(p))
  <2>1. UNCHANGED <<buy, payPc, view>>  BY <1>4, OtherLocal
  <2>2. \A p \in Payment : Alive(p)' => Alive(p)
    BY <1>0, <1>r, <2>1 DEF TypeOK, Row
  <2> QED  BY <1>0, <1>1, <2>1, <2>2
<1> QED  BY <1>2, <1>3, <1>4

\* From its check of the hold to its end a payment keeps its seat.
LEMMA FoundStep == IInv /\ [Next]_vars => FoundInv'
<1> SUFFICES ASSUME IInv, [Next]_vars PROVE FoundInv'
  OBVIOUS
<1>r. (\A s \in Seat : RowEvolves(s)) /\ (now' = now \/ now' = now + 1)  BY RowStep
<1>0. TypeOK /\ TypeOK' /\ SnapshotInv /\ FoundInv  BY TypeStep DEF IInv
<1> USE ConstantsAssumption, TimingAssumption DEF FoundInv
<1> DEFINE Keeps(p) == /\ seat[buy[p].seat].userId = buy[p].user
                       /\ \/ /\ seat[buy[p].seat].status = "TEMP"
                             /\ seat[buy[p].seat].expire > foundAt[p]
                             /\ ~(buy[p].mode = "optimistic" /\ payPc[p] = "written")
                          \/ seat[buy[p].seat].status \in Sold
           InTime(p) == now <= foundAt[p] + TxnBound
<1>1. ASSUME NEW p \in Payment, Keeps(p), InTime(p), foundAt'[p] = foundAt[p], buy'[p] = buy[p],
             payPc'[p] = payPc[p]
      PROVE  Keeps(p)'
  <2> DEFINE s0 == buy[p].seat
  <2>1. s0 \in Seat /\ seat[s0] \in Row /\ foundAt[p] \in Nat /\ now \in Nat  BY <1>0 DEF TypeOK
  <2>2. \/ seat'[s0] = seat[s0]
        \/ seat'[s0].status \in Sold /\ seat'[s0].userId = seat[s0].userId
    BY <1>0, <1>r, <1>1, <2>1, RowFields DEF Sold, Row
  <2> QED  BY <1>1, <2>1, <2>2
<1>2. ASSUME NEW q \in Request, Reserve(q) PROVE FoundInv'
  <2>1. UNCHANGED <<now, buy, payPc, foundAt>>  BY <1>0, <1>2, RequestLocal DEF payments
  <2> QED  BY <1>0, <1>1, <2>1
<1>3. ASSUME NEW q \in Payment, Pay(q) PROVE FoundInv'
  <2>1. /\ now' = now /\ buy' = buy
        /\ \A p \in Payment \ {q} : payPc'[p] = payPc[p] /\ foundAt'[p] = foundAt[p]
    BY <1>0, <1>3, PaymentLocal
  <2>2. ASSUME payPc'[q] \in {"found", "written"} PROVE Keeps(q)' /\ InTime(q)'
    <3> USE <1>0, <2>1, <2>2 DEF TypeOK
    <3>0. buy[q].seat \in Seat /\ now \in Nat  OBVIOUS
    <3>1. CASE OpenSnapshot(q)  BY <3>1 DEF OpenSnapshot
    <3>2. CASE FindHold(q)
      <4>1. /\ seat' = seat /\ foundAt'[q] = now /\ payPc'[q] = "found"
            /\ HeldBy(view'[q], buy[q].user)
        BY <3>2 DEF FindHold, database
      <4>2. CASE buy[q].mode = "routed"
        <5>1. view'[q] = view[q] /\ payPc[q] = "snapshot"  BY <3>2, <4>2 DEF FindHold
        <5>2. view[q].expire \in Nat  BY DEF Row
        <5> QED  BY <3>0, <4>1, <5>1, <5>2 DEF HeldBy, SnapshotInv
      <4>3. CASE buy[q].mode # "routed"
        <5>1. view'[q] = seat[buy[q].seat]  BY <3>2, <4>3 DEF FindHold
        <5> QED  BY <3>0, <4>1, <5>1 DEF HeldBy
      <4> QED  BY <4>2, <4>3
    <3>3. CASE WriteReserved(q)  BY <3>3 DEF WriteReserved
    <3>4. CASE UpdateDone(q)
      <4>1. CASE HoldUnchanged(q)
        BY <3>0, <3>4, <4>1 DEF UpdateDone, SoldRow, Sold
      <4>2. CASE ~HoldUnchanged(q)  BY <3>4, <4>2 DEF UpdateDone
      <4> QED  BY <4>1, <4>2
    <3>5. CASE CommitPayment(q)  BY <3>5 DEF CommitPayment
    <3>6. CASE FailPayment(q)  BY <3>6 DEF FailPayment
    <3> QED  BY <1>3, <3>1, <3>2, <3>3, <3>4, <3>5, <3>6 DEF Pay
  <2> QED  BY <1>0, <1>1, <2>1, <2>2
<1>4. CASE ~(\E r \in Request : Reserve(r)) /\ ~(\E p \in Payment : Pay(p))
  <2>1. UNCHANGED <<buy, payPc, foundAt>>  BY <1>4, OtherLocal
  <2>2. \A p \in Payment : payPc[p] \in {"found", "written"} => InTime(p)'
    <3>1. CASE Tick  BY <1>0, <3>1 DEF Tick, TypeOK, payments
    <3>2. CASE ~Tick
      <4>1. now' = now
        BY <1>4, <3>2 DEF Next, SweepFind, SweepReset, SweepFail, Finished, vars
      <4> QED  BY <1>0, <2>1, <4>1
    <3> QED  BY <3>1, <3>2
  <2> QED  BY <1>0, <1>1, <2>1, <2>2
<1> QED  BY <1>2, <1>3, <1>4

-----------------------------------------------------------------------------
(* Holds and sales.                                                          *)

\* A call that answers "ok" in this step found the seat free and left its hold.
LEMMA GrantStep ==
  ASSUME IInv, NEW q \in Request, Reserve(q), reqPc[q] # "ok", reqPc'[q] = "ok"
  PROVE  /\ Reservable(ask[q].seat)
         /\ expireTime' = expireTime
         /\ seat'[ask[q].seat] = HeldRow(seat[ask[q].seat], ask[q].user, expireTime[q])
<1>0. TypeOK /\ LockInv /\ VersionInv  BY DEF IInv
<1> USE <1>0 DEF TypeOK
<1>1. CASE RefuseRequest(q)  BY <1>1 DEF RefuseRequest
<1>2. CASE LockSeat(q)  BY <1>2 DEF LockSeat
<1>3. CASE ReadSeat(q)  BY <1>3 DEF ReadSeat
<1>4. CASE StampExpire(q)  BY <1>4 DEF StampExpire
<1>5. CASE CommitHold(q)  BY <1>5 DEF CommitHold, LockInv
<1>6. CASE UpdateByVersion(q)  BY <1>6 DEF UpdateByVersion, VersionInv
<1>7. CASE UpdateUnchecked(q)  BY <1>7 DEF UpdateUnchecked
<1>8. CASE FailRequest(q)  BY <1>8 DEF FailRequest
<1> QED  BY <1>1, <1>2, <1>3, <1>4, <1>5, <1>6, <1>7, <1>8 DEF Reserve

\* Answered calls take no further step.
LEMMA AnsweredStays ==
  ASSUME TypeOK, [Next]_vars, NEW r \in Request, reqPc[r] = "ok"
  PROVE  UNCHANGED <<ask, reqPc[r], expireTime[r]>>
<1>1. ASSUME NEW q \in Request, Reserve(q) PROVE UNCHANGED <<ask, reqPc[r], expireTime[r]>>
  <2>1. q # r
    BY <1>1 DEF Reserve, RefuseRequest, LockSeat, ReadSeat, StampExpire, CommitHold,
                UpdateByVersion, UpdateUnchecked, FailRequest
  <2> QED  BY <1>1, <2>1, RequestLocal
<1>2. CASE \E q \in Payment : Pay(q)  BY <1>2, PaymentLocal DEF requests
<1>3. CASE ~(\E q \in Request : Reserve(q)) /\ ~(\E p \in Payment : Pay(p))
  BY <1>3, OtherLocal
<1> QED  BY <1>1, <1>2, <1>3

\* Where a newly granted hold comes from.
LEMMA NewGrant ==
  ASSUME IInv, [Next]_vars, NEW r \in Request, reqPc[r] # "ok", Granted(r)'
  PROVE  /\ ask' = ask /\ expireTime' = expireTime /\ now' = now
         /\ Reservable(ask[r].seat)
         /\ seat'[ask[r].seat] = HeldRow(seat[ask[r].seat], ask[r].user, expireTime[r])
         /\ \A q \in Request : q # r => reqPc'[q] = reqPc[q]
<1>0. TypeOK  BY DEF IInv
<1>1. reqPc'[r] = "ok"  BY DEF Granted
<1>2. Reserve(r)
  <2>1. ASSUME NEW q \in Request, Reserve(q), q # r PROVE FALSE
    BY <1>0, <1>1, <2>1, RequestLocal
  <2>2. ASSUME NEW p \in Payment, Pay(p) PROVE FALSE
    BY <1>0, <1>1, <2>2, PaymentLocal DEF requests
  <2>3. CASE ~(\E q \in Request : Reserve(q)) /\ ~(\E p \in Payment : Pay(p))
    BY <1>1, <2>3, OtherLocal
  <2> QED  BY <2>1, <2>2, <2>3
<1>3. ask' = ask /\ now' = now /\ \A q \in Request : q # r => reqPc'[q] = reqPc[q]
  BY <1>0, <1>2, RequestLocal
<1> QED  BY <1>1, <1>2, <1>3, GrantStep

\* A granted hold survives every step until the grace after its expiry is over:
\* others find the row not free, payments sell it to its user, the sweep waits.
LEMMA HoldStep == IInv /\ [Next]_vars => HoldHonoured'
<1> SUFFICES ASSUME IInv, [Next]_vars, NEW r \in Request, Granted(r)', Unexpired(r)'
             PROVE  /\ seat'[ask'[r].seat].userId = ask'[r].user
                    /\ \/ /\ seat'[ask'[r].seat].status = "TEMP"
                          /\ seat'[ask'[r].seat].expire = expireTime'[r]
                       \/ seat'[ask'[r].seat].status \in Sold
  BY DEF HoldHonoured
<1>0. TypeOK /\ TypeOK' /\ HoldHonoured  BY TypeStep DEF IInv
<1>1. CASE reqPc[r] = "ok"
  <2>1. UNCHANGED <<ask, reqPc[r], expireTime[r]>>  BY <1>0, <1>1, AnsweredStays
  <2>2. now \in Nat /\ now <= now' /\ expireTime[r] \in Nat /\ ask[r].seat \in Seat
    BY <1>0, RowStep DEF TypeOK
  <2>3. Granted(r) /\ Unexpired(r)
    <3>1. Granted(r)  BY <1>1, <2>1 DEF Granted
    <3>2. now' <= expireTime[r] + Grace  BY <2>1 DEF Unexpired
    <3> QED  BY <1>0, <2>2, <3>1, <3>2, ConstantsAssumption DEF Unexpired, TypeOK
  <2>4. /\ seat[ask[r].seat].userId = ask[r].user
        /\ \/ seat[ask[r].seat].status = "TEMP" /\ seat[ask[r].seat].expire = expireTime[r]
           \/ seat[ask[r].seat].status \in Sold
    BY <1>0, <2>3 DEF HoldHonoured
  <2>5. \/ seat'[ask[r].seat] = seat[ask[r].seat]
        \/ /\ seat'[ask[r].seat].status \in Sold
           /\ seat'[ask[r].seat].userId = seat[ask[r].seat].userId
    <3>1. RowEvolves(ask[r].seat)  BY <2>2, RowStep
    <3> QED
      BY <1>0, <2>2, <2>3, <2>4, <3>1, RowFields, ConstantsAssumption DEF Unexpired, Sold
  <2> QED  BY <2>1, <2>4, <2>5
<1>2. CASE reqPc[r] # "ok"
  <2>1. /\ ask' = ask /\ expireTime' = expireTime
        /\ seat'[ask[r].seat] = HeldRow(seat[ask[r].seat], ask[r].user, expireTime[r])
    BY <1>2, NewGrant
  <2> QED  BY <2>1 DEF HeldRow
<1> QED  BY <1>1, <1>2

\* A hold is granted on a free row only, so not while an earlier one is honoured.
LEMMA OneHolderStep == IInv /\ ModesInv' /\ [Next]_vars => OneHolder'
<1> SUFFICES ASSUME IInv, ModesInv', [Next]_vars PROVE OneHolder'
  OBVIOUS
<1>0. TypeOK /\ TypeOK' /\ HoldHonoured /\ OneHolder  BY TypeStep DEF IInv
<1>1. now \in Nat /\ now' \in Nat /\ now <= now'  BY <1>0, RowStep DEF TypeOK
\* A live hold and a new one on the same seat exclude each other.
<1>2. ASSUME NEW q \in Request, NEW r \in Request, q # r, reqPc[q] = "ok", reqPc[r] # "ok",
             ask'[q].seat = ask'[r].seat, Granted(q)', Granted(r)', Unexpired(q)'
      PROVE  FALSE
  <2>1. UNCHANGED <<ask, reqPc[q], expireTime[q], now>> /\ Reservable(ask[r].seat)
    BY <1>0, <1>2, AnsweredStays, NewGrant
  <2>2. Granted(q) /\ Unexpired(q)  BY <1>2, <2>1 DEF Granted, Unexpired
  <2>3. seat[ask[q].seat].status \in {"TEMP", "RESERVED", "DONE"}
    BY <1>0, <2>2 DEF HoldHonoured, Sold
  <2> QED  BY <1>2, <2>1, <2>3 DEF Reservable
<1>3. ASSUME NEW q \in Request, NEW r \in Request, q # r, ask'[q].seat = ask'[r].seat,
             Granted(q)', Granted(r)', Unexpired(q)', Unexpired(r)'
      PROVE  FALSE
  <2>1. CASE reqPc[q] = "ok" /\ reqPc[r] = "ok"
    <3>1. UNCHANGED <<ask, reqPc[q], expireTime[q], reqPc[r], expireTime[r]>>
      BY <1>0, <2>1, AnsweredStays
    <3>2. expireTime[q] \in Nat /\ expireTime[r] \in Nat  BY <1>0 DEF TypeOK
    <3>3. Granted(q) /\ Granted(r) /\ Unexpired(q) /\ Unexpired(r)
      BY <1>1, <1>3, <3>1, <3>2, ConstantsAssumption DEF Granted, Unexpired
    <3> QED  BY <1>0, <1>3, <3>1, <3>3 DEF OneHolder, Granted, Succeeded
  <2>2. CASE reqPc[q] # "ok" /\ reqPc[r] # "ok"
    <3>1. reqPc'[r] = reqPc[r]  BY <1>3, <2>2, NewGrant
    <3> QED  BY <1>3, <2>2, <3>1 DEF Granted
  <2> QED  BY <1>2, <1>3, <2>1, <2>2
\* Success without a hold is an answer of the first variant.
<1>4. ASSUME NEW r \in Request, reqPc'[r] \in Succeeded, ~Granted(r)'
      PROVE  reqPc'[r] = "missed" /\ ask'[r].mode = "legacy"
  BY <1>4 DEF Succeeded, Granted, ModesInv
<1> QED  BY <1>3, <1>4 DEF OneHolder, Unexpired

\* Reservations are only added by commits, and sold seats do not change hands.
LEMMA ReservationStep == IInv /\ [Next]_vars => ReservationBacked'
<1> SUFFICES ASSUME IInv, [Next]_vars, NEW x \in reservation'
             PROVE  seat'[x.seat].status \in Sold /\ seat'[x.seat].userId = x.user
  BY DEF ReservationBacked, IsSold
<1>0. TypeOK /\ TypeOK' /\ ReservationBacked /\ FoundInv  BY TypeStep DEF IInv
<1>1. CASE x \in reservation
  <2>1. x.seat \in Seat /\ seat[x.seat].status \in Sold /\ seat[x.seat].userId = x.user
    BY <1>0, <1>1 DEF ReservationBacked, IsSold, TypeOK, Reservation
  <2> QED  BY <1>0, <2>1, RowStep, RowFields DEF Sold
<1>2. CASE x \notin reservation
  <2>1. PICK p \in Payment : CommitPayment(p)
    <3>1. ~\E q \in Request : Reserve(q)  BY <1>0, <1>2, RequestLocal
    <3>2. \E q \in Payment : Pay(q)  BY <1>2, <3>1, OtherLocal
    <3> QED
      BY <1>2, <3>2 DEF Pay, OpenSnapshot, FindHold, WriteReserved, UpdateDone, FailPayment,
                        database
  <2>2. x = [seat |-> buy[p].seat, user |-> buy[p].user, payment |-> p] /\ payPc[p] = "written"
    BY <1>2, <2>1 DEF CommitPayment
  <2>3. seat[buy[p].seat].userId = buy[p].user /\ buy[p].seat \in Seat
    BY <1>0, <2>2 DEF FoundInv, TypeOK
  <2>4. CASE buy[p].mode = "routed"
    BY <1>0, <2>1, <2>2, <2>3, <2>4 DEF CommitPayment, SoldRow, Sold, TypeOK
  <2>5. CASE buy[p].mode # "routed"
    <3>1. buy[p].mode = "optimistic"  BY <1>0, <2>5, ConstantsAssumption DEF TypeOK
    <3>2. seat[buy[p].seat].status \in Sold  BY <1>0, <2>2, <3>1 DEF FoundInv
    <3> QED  BY <2>1, <2>2, <2>3, <2>5, <3>2 DEF CommitPayment
  <2> QED  BY <2>4, <2>5
<1> QED  BY <1>1, <1>2

-----------------------------------------------------------------------------
(* The theorems.                                                             *)

\* The initial database and calls satisfy the inductive invariant.
LEMMA InitIInv == Init => IInv
<1> SUFFICES ASSUME Init PROVE IInv
  OBVIOUS
<1>1. TypeOK
  BY ConstantsAssumption DEF Init, TypeOK, InitialSeat, Row, ReqPc, PayPc
<1>2. ModesInv /\ LockInv /\ VersionInv /\ StampInv /\ SweepInv /\ SnapshotInv /\ FoundInv
  BY <1>1 DEF Init, TypeOK, InitialSeat, ModesInv, LockInv, VersionInv, StampInv, SweepInv,
              SnapshotInv, FoundInv
<1>3. HoldHonoured /\ OneHolder /\ ReservationBacked
  BY <1>1 DEF Init, TypeOK, HoldHonoured, OneHolder, ReservationBacked, Granted, Succeeded
<1> QED  BY <1>1, <1>2, <1>3 DEF IInv

\* Types hold whatever the number of concurrent sweeps.
THEOREM TypeCorrect == Spec => []TypeOK
<1>1. Init => TypeOK  BY InitIInv DEF IInv
<1> QED  BY <1>1, TypeStep, PTL DEF Spec

\* No step breaks the inductive invariant, with one run of the sweep at a time.
LEMMA IInvStep == ASSUME SingleSweep PROVE IInv /\ [Next]_vars => IInv'
BY SingleSweep, TypeStep, ModesStep, LockStep, VersionStep, StampStep, SweepStep, SnapshotStep,
   FoundStep, HoldStep, OneHolderStep, ReservationStep DEF IInv

\* IInv is inductive as long as one run of the sweep is in flight at a time.
THEOREM Inductive == ASSUME SingleSweep PROVE Spec => []IInv
<1> QED  BY IInvStep, InitIInv, PTL DEF Spec

\* Confirmed holds are kept, for every mix of reservation and payment variants.
THEOREM HoldsAreKept == ASSUME SingleSweep PROVE Spec => []HoldHonoured
<1>1. IInv => HoldHonoured  BY DEF IInv
<1> QED  BY <1>1, Inductive, PTL

\* Of any number of requests for a seat that are answered with success while their
\* holds last at most one has its hold, whatever variants they went through; the others
\* were answered by reserveSeat, which does not look at what its UPDATE matched.
THEOREM OneWinner == ASSUME SingleSweep PROVE Spec => []OneHolder
<1>1. IInv => OneHolder  BY DEF IInv
<1> QED  BY <1>1, Inductive, PTL

\* Every reservation row is backed by a seat sold to its user.
THEOREM ReservationsBacked == ASSUME SingleSweep PROVE Spec => []ReservationBacked
<1>1. IInv => ReservationBacked  BY DEF IInv
<1> QED  BY <1>1, Inductive, PTL

\* What the requests need of locks and versions does not depend on the sweep.
GuardInv == TypeOK /\ ModesInv /\ LockInv /\ VersionInv /\ SeatLocksOwned

LEMMA InitGuard == Init => GuardInv
BY InitIInv, ConstantsAssumption DEF Init, IInv, GuardInv, SeatLocksOwned, WorksOnSeat

LEMMA GuardStep == GuardInv /\ [Next]_vars => GuardInv'
BY TypeStep, ModesStep, LockStep, VersionStep, OwnersStep DEF GuardInv

\* An unchanged version vouches for the whole row: no hold, expiry and sweep bring a
\* seat back to a version some optimistic request has read, however many runs of the
\* sweep overlap.
THEOREM VersionsGuard == Spec => []VersionGuardsStatus
<1>1. GuardInv => VersionGuardsStatus
  BY DEF GuardInv, VersionInv, VersionGuardsStatus
<1> QED  BY <1>1, InitGuard, GuardStep, PTL DEF Spec

\* No step takes a sold seat away from its buyer.
THEOREM SoldSeatsStaySold == ASSUME SingleSweep PROVE Spec => SoldStaysSold
<1>1. IInv /\ [Next]_vars =>
        [\A s \in Seat : IsSold(s) => IsSold(s)' /\ seat'[s].userId = seat[s].userId]_vars
  <2> SUFFICES ASSUME IInv, [Next]_vars, NEW s \in Seat, IsSold(s)
               PROVE  IsSold(s)' /\ seat'[s].userId = seat[s].userId
    OBVIOUS
  <2>1. TypeOK /\ RowEvolves(s)  BY RowStep DEF IInv
  <2> QED  BY <2>1, RowFields DEF IsSold, Sold
<1> QED  BY <1>1, Inductive, PTL DEF Spec, SoldStaysSold

-----------------------------------------------------------------------------
(* Sold once, by version.                                                    *)

\* Such payments have sold their seats, no two of them the same, and the
\* reservation rows are those of payments that are done.
OnceInv ==
  /\ \A p \in Payment : Bought(p) => IsSold(buy[p].seat)
  /\ \A p, q \in Payment : Bought(p) /\ Bought(q) /\ buy[p].seat = buy[q].seat => p = q
  /\ \A x \in reservation :
       /\ payPc[x.payment] = "done"
       /\ x = [seat |-> buy[x.payment].seat, user |-> buy[x.payment].user, payment |-> x.payment]

\* Only a held seat is bought, and it is sold from then on.
LEMMA BoughtStep ==
  ASSUME TypeOK, [Next]_vars, NEW p \in Payment, Bought(p)'
  PROVE  \/ Bought(p)
         \/ /\ seat[buy[p].seat].status = "TEMP" /\ IsSold(buy[p].seat)'
            /\ \A q \in Payment \ {p} : payPc'[q] = payPc[q]
<1> USE DEF TypeOK, database, requests, payments
<1>1. CASE payPc'[p] = payPc[p] /\ buy' = buy
  BY <1>1 DEF Bought
<1>2. ASSUME NEW q \in Payment, Pay(q)
      PROVE  Bought(p) \/ /\ seat[buy[p].seat].status = "TEMP" /\ IsSold(buy[p].seat)'
                          /\ \A r \in Payment \ {p} : payPc'[r] = payPc[r]
  <2>1. buy' = buy /\ \A r \in Payment \ {q} : payPc'[r] = payPc[r]
    BY <1>2, PaymentLocal
  <2>2. CASE q # p  BY <1>1, <2>1, <2>2
  <2>3. CASE q = p
    <3>1. CASE UpdateDone(p)
      <4>1. CASE HoldUnchanged(p)
        BY <2>1, <2>3, <3>1, <4>1 DEF UpdateDone, HoldUnchanged, IsSold, SoldRow, Sold
      <4>2. CASE ~HoldUnchanged(p)  BY <3>1, <4>2 DEF UpdateDone, Bought
      <4> QED  BY <4>1, <4>2
    <3>2. CASE ~UpdateDone(p)
      BY <1>2, <2>1, <2>3, <3>2 DEF Bought, Pay, OpenSnapshot, FindHold, WriteReserved,
                                    CommitPayment, FailPayment
    <3> QED  BY <3>1, <3>2
  <2> QED  BY <2>2, <2>3
<1>3. CASE ~\E q \in Payment : Pay(q)
  <2>1. UNCHANGED payments
    BY <1>3, RequestLocal, OtherLocal
  <2> QED  BY <1>1, <2>1
<1> QED  BY <1>2, <1>3

\* Reservation rows come with their payment's commit and stay.
RowsFollowCommits ==
  /\ \A p \in Payment : payPc[p] = "done" => payPc'[p] = "done"
  /\ \/ reservation' = reservation
     \/ \E p \in Payment :
          /\ payPc' = [payPc EXCEPT ![p] = "done"]
          /\ reservation' = reservation \cup
               {[seat |-> buy[p].seat, user |-> buy[p].user, payment |-> p]}

LEMMA RowsStep == TypeOK /\ [Next]_vars => RowsFollowCommits
<1> SUFFICES ASSUME TypeOK, [Next]_vars PROVE RowsFollowCommits
  OBVIOUS
<1> USE DEF TypeOK, database, requests, payments, RowsFollowCommits
<1>1. ASSUME NEW p \in Payment, Pay(p) PROVE RowsFollowCommits
  BY <1>1 DEF Pay, OpenSnapshot, FindHold, WriteReserved, UpdateDone, CommitPayment, FailPayment
<1>2. ASSUME NEW r \in Request, Reserve(r) PROVE RowsFollowCommits
  BY <1>2, RequestLocal
<1>3. ASSUME NEW w \in Sweep, SweepFind(w) \/ SweepReset(w) \/ SweepFail(w) PROVE RowsFollowCommits
  BY <1>3 DEF SweepFind, SweepReset, SweepFail
<1>4. CASE Tick  BY <1>4 DEF Tick
<1>5. CASE UNCHANGED vars  BY <1>5 DEF vars
<1> QED  BY <1>1, <1>2, <1>3, <1>4, <1>5 DEF Next, Finished

LEMMA OnceStep == IInv /\ OnceInv /\ [Next]_vars => OnceInv'
<1> SUFFICES ASSUME IInv, OnceInv, [Next]_vars PROVE OnceInv'
  OBVIOUS
<1>0. TypeOK /\ buy' = buy
  BY RequestLocal, PaymentLocal, OtherLocal DEF IInv, payments
<1>1. ASSUME NEW p \in Payment, Bought(p), IsSold(buy[p].seat)
      PROVE  IsSold(buy[p].seat)'
  <2>1. buy[p].seat \in Seat /\ RowEvolves(buy[p].seat)  BY <1>0, RowStep DEF TypeOK
  <2> QED  BY <1>0, <1>1, <2>1, RowFields DEF IsSold, Sold
<1>2. \A p \in Payment : Bought(p)' => IsSold(buy[p].seat)'
  BY <1>0, <1>1, BoughtStep DEF OnceInv
<1>3. ASSUME NEW p \in Payment, NEW q \in Payment, Bought(p)', Bought(q)',
             buy[p].seat = buy[q].seat, p # q
      PROVE  FALSE
  <2>1. Bought(p) \/ Bought(q)
    BY <1>0, <1>3, BoughtStep DEF Bought
  <2>2. ASSUME NEW u \in Payment, NEW v \in Payment, u # v, Bought(u), Bought(v)',
               buy[u].seat = buy[v].seat
        PROVE  FALSE
    <3>1. ~Bought(v)  BY <2>2 DEF OnceInv
    <3>2. seat[buy[v].seat].status = "TEMP"  BY <1>0, <2>2, <3>1, BoughtStep
    <3> QED  BY <2>2, <3>2 DEF OnceInv, IsSold, Sold
  <2> QED  BY <1>3, <2>1, <2>2
<1>4. \A x \in reservation' :
        /\ payPc'[x.payment] = "done"
        /\ x = [seat |-> buy[x.payment].seat, user |-> buy[x.payment].user, payment |-> x.payment]
  <2>1. \A x \in reservation : x.payment \in Payment  BY <1>0 DEF TypeOK, Reservation
  <2>2. \A x \in reservation : payPc'[x.payment] = "done"
    BY <1>0, <2>1, RowsStep DEF OnceInv, RowsFollowCommits
  <2> QED  BY <1>0, <2>1, <2>2, RowsStep DEF OnceInv, TypeOK, RowsFollowCommits
<1> QED  BY <1>0, <1>2, <1>3, <1>4 DEF OnceInv

LEMMA OnceEnough == TypeOK /\ OnceInv => SoldOnceByVersion
<1> SUFFICES ASSUME TypeOK, OnceInv, NEW x \in reservation, NEW y \in reservation,
                    x.seat = y.seat, buy[x.payment].mode = "optimistic",
                    buy[y.payment].mode = "optimistic"
             PROVE  x = y
  BY DEF SoldOnceByVersion
<1>1. x.payment \in Payment /\ y.payment \in Payment  BY DEF TypeOK, Reservation
<1>2. Bought(x.payment) /\ Bought(y.payment)  BY DEF OnceInv, Bought
<1>3. x.payment = y.payment  BY <1>1, <1>2 DEF OnceInv
<1> QED  BY <1>3 DEF OnceInv

\* Payments of processPaymentWithOptimisticLock sell a seat once, whoever else
\* found the same hold.
THEOREM VersionSellsOnce == ASSUME SingleSweep PROVE Spec => []SoldOnceByVersion
<1>1. TypeOK /\ OnceInv => SoldOnceByVersion  BY OnceEnough
<1>2. Init => OnceInv
  BY DEF Init, OnceInv, Bought
<1>3. IInv => TypeOK  BY DEF IInv
<1> QED  BY <1>1, <1>2, <1>3, OnceStep, Inductive, PTL DEF Spec

\* The version a versioned payment sold at is in the past.
SaleInv ==
  /\ \A p \in Payment : Bought(p) => view[p].version < seat[buy[p].seat].version
  /\ HoldSoldOnce

LEMMA SaleStep == TypeOK /\ SaleInv /\ [Next]_vars => SaleInv'
<1> SUFFICES ASSUME TypeOK, SaleInv, [Next]_vars PROVE SaleInv'
  OBVIOUS
<1>0. TypeOK' /\ buy' = buy
  BY TypeStep, RequestLocal, PaymentLocal, OtherLocal DEF payments
<1>v. ASSUME NEW s \in Seat PROVE seat[s].version \in Nat /\ seat[s].version <= seat'[s].version
  BY WritesCount DEF TypeOK, Row
\* Who has bought keeps the version it sold at.
<1>1. ASSUME NEW p \in Payment, Bought(p)
      PROVE  view'[p] = view[p]
  <2> USE <1>1 DEF TypeOK, database, requests, payments
  <2>1. ASSUME NEW q \in Payment, Pay(q) PROVE view'[p] = view[p]
    <3>1. CASE q = p
      BY <2>1, <3>1, ConstantsAssumption DEF Bought, Pay, OpenSnapshot, FindHold, WriteReserved, UpdateDone,
                        CommitPayment, FailPayment
    <3> QED  BY <2>1, <3>1, PaymentLocal
  <2> QED  BY <2>1, RequestLocal, OtherLocal
\* Who buys does so at the present version, and alone.
<1>2. ASSUME NEW p \in Payment, ~Bought(p), Bought(p)'
      PROVE  /\ view'[p] = view[p]
             /\ view[p].version = seat[buy[p].seat].version
             /\ seat'[buy[p].seat].version = seat[buy[p].seat].version + 1
             /\ \A q \in Payment \ {p} : payPc'[q] = payPc[q]
  <2> USE <1>2 DEF TypeOK, database, requests, payments
  <2>1. PICK q \in Payment : Pay(q)
    BY <1>0, RequestLocal, OtherLocal DEF Bought
  <2>2. q = p /\ \A r \in Payment \ {p} : payPc'[r] = payPc[r]
    BY <1>0, <2>1, PaymentLocal DEF Bought
  <2>3. UpdateDone(p) /\ payPc'[p] = "written"
    BY <1>0, <2>1, <2>2 DEF Bought, Pay, OpenSnapshot, FindHold, WriteReserved, UpdateDone, CommitPayment,
                  FailPayment
  <2>4. HoldUnchanged(p) /\ seat' = [seat EXCEPT ![buy[p].seat] = SoldRow(seat[buy[p].seat], "DONE")]
    BY <2>3 DEF UpdateDone
  <2> QED  BY <2>2, <2>3, <2>4 DEF UpdateDone, HoldUnchanged, SoldRow
<1>3. ASSUME NEW p \in Payment, Bought(p)'
      PROVE  view'[p] = view[p] /\ view'[p].version < seat'[buy[p].seat].version
  <2>0. buy[p].seat \in Seat /\ view[p].version \in Nat /\ seat'[buy[p].seat].version \in Nat
    BY <1>0 DEF TypeOK, Row
  <2>1. CASE Bought(p)
    <3>1. view[p].version < seat[buy[p].seat].version
      BY <2>1 DEF SaleInv
    <3> QED  BY <1>1, <1>v, <2>0, <2>1, <3>1
  <2>2. CASE ~Bought(p)
    BY <1>2, <1>3, <1>v, <2>0, <2>2
  <2> QED  BY <2>1, <2>2
<1>4. ASSUME NEW p \in Payment, NEW q \in Payment, Bought(p)', Bought(q)',
             buy[p].seat = buy[q].seat, view'[p].version = view'[q].version, p # q
      PROVE  FALSE
  <2>0. /\ buy[p].seat \in Seat /\ view[p].version \in Nat /\ view[q].version \in Nat
        /\ view'[p] = view[p] /\ view'[q] = view[q]
    BY <1>3, <1>4 DEF TypeOK, Row
  <2>1. ~(Bought(p) /\ Bought(q))
    BY <1>4, <2>0 DEF SaleInv, HoldSoldOnce
  <2>2. ASSUME NEW a \in Payment, NEW b \in Payment, a # b, Bought(a)', Bought(b)', ~Bought(b),
               buy[a].seat = buy[b].seat, view[a].version = view[b].version
        PROVE  FALSE
    <3>1. view[b].version = seat[buy[b].seat].version /\ payPc'[a] = payPc[a]
      BY <1>2, <2>2
    <3>2. Bought(a)
      BY <1>0, <2>2, <3>1 DEF Bought
    <3>3. view[a].version < seat[buy[a].seat].version
      BY <3>2 DEF SaleInv
    <3> QED  BY <1>v, <2>2, <3>1, <3>3 DEF TypeOK
  <2> QED  BY <1>4, <2>0, <2>1, <2>2
<1>5. HoldSoldOnce'
  BY <1>0, <1>4 DEF HoldSoldOnce
<1> QED  BY <1>0, <1>3, <1>5 DEF SaleInv

\* The version lets one payment of processPaymentWithOptimisticLock sell a hold, for
\* any number of payments, and however many runs of the sweep overlap.
THEOREM HoldSells == Spec => []HoldSoldOnce
<1>1. Init => SaleInv
  BY DEF Init, SaleInv, HoldSoldOnce, Bought
<1>2. SaleInv => HoldSoldOnce
  BY DEF SaleInv
<1> QED  BY <1>1, <1>2, SaleStep, TypeCorrect, PTL DEF Spec

-----------------------------------------------------------------------------
(* Refinement of the life cycle.                                             *)

USE DEF Life!LifeNext, Life!TakeHold, Life!Sell, Life!FreeExpired, Life!Pass

\* Holding a row is TakeHold of the abstract seat.
LEMMA LifeTaken ==
  ASSUME TypeOK, now' = now, NEW s \in Seat, RowTaken(s), OnlyRow(s), TypeOK'
  PROVE  Life!TakeHold(s)
<1>1. PICK u \in User, e \in 0 .. now + Hold : seat'[s] = HeldRow(seat[s], u, e)
  BY DEF RowTaken
<1>2. LifeOf(seat[s]).kind = "free"  BY DEF RowTaken, Reservable, LifeOf
<1>3. LifeOf(seat'[s]) = [kind |-> "held", user |-> u, until |-> e]
  BY <1>1 DEF HeldRow, LifeOf
<1>4. [t \in Seat |-> LifeOf(seat'[t])] =
        [[t \in Seat |-> LifeOf(seat[t])] EXCEPT ![s] = [kind |-> "held", user |-> u, until |-> e]]
  BY <1>3 DEF OnlyRow
<1> QED  BY <1>2, <1>4

\* Selling a row is Sell, or a stutter if the seat was sold to that user before.
LEMMA LifeBought ==
  ASSUME TypeOK, now' = now, NEW s \in Seat, RowBought(s), OnlyRow(s), TypeOK'
  PROVE  Life!Sell(s) \/ UNCHANGED [t \in Seat |-> LifeOf(seat[t])]
<1>1. PICK status \in Sold : seat'[s] = SoldRow(seat[s], status)
  BY DEF RowBought
<1>2. LifeOf(seat'[s]) = [kind |-> "sold", user |-> seat[s].userId, until |-> 0]
  BY <1>1 DEF SoldRow, LifeOf, Sold
<1>3. CASE IsSold(s)
  <2>1. LifeOf(seat[s]) = LifeOf(seat'[s])  BY <1>2, <1>3 DEF IsSold, LifeOf, Sold
  <2> QED  BY <2>1 DEF OnlyRow
<1>4. CASE seat[s].status = "TEMP" /\ now <= seat[s].expire + Grace
  <2>1. LifeOf(seat[s]) = [kind |-> "held", user |-> seat[s].userId, until |-> seat[s].expire]
    BY <1>4 DEF LifeOf
  <2>2. [t \in Seat |-> LifeOf(seat'[t])] =
          [[t \in Seat |-> LifeOf(seat[t])] EXCEPT
            ![s] = [kind |-> "sold", user |-> seat[s].userId, until |-> 0]]
    BY <1>2 DEF OnlyRow
  <2> DEFINE life == [t \in Seat |-> LifeOf(seat[t])]
  <2>3. life[s] = [kind |-> "held", user |-> seat[s].userId, until |-> seat[s].expire]
    BY <2>1
  <2>4. life[s].kind = "held" /\ life[s].user = seat[s].userId /\ now <= life[s].until + Grace
    BY <1>4, <2>3
  <2> QED  BY <2>2, <2>4
<1> QED  BY <1>3, <1>4 DEF RowBought

\* A reset of all the rows a sweep found is one FreeExpired.
LEMMA LifeFreed ==
  ASSUME TypeOK, SweepInv, NEW w \in Sweep, SweepReset(w)
  PROVE  \E due \in SUBSET Seat : Life!FreeExpired(due)
<1>1. found[w] \in SUBSET Seat /\ now' = now  BY DEF TypeOK, SweepReset
<1>2. \A s \in found[w] : LifeOf(seat[s]).kind = "held" /\ LifeOf(seat[s]).until + Grace < now
  BY DEF SweepInv, SweepDue, LifeOf
<1>3. \A s \in found[w] : LifeOf(seat'[s]) = Life!FreeSeat
  BY <1>1 DEF SweepReset, ResetRow, LifeOf, Life!FreeSeat
<1>4. \A s \in Seat \ found[w] : LifeOf(seat'[s]) = LifeOf(seat[s])
  BY DEF SweepReset
<1> QED  BY <1>1, <1>2, <1>3, <1>4

\* Each step of the requests, payments and sweeps is a step of the life cycle of
\* one seat (of several, for the sweep) or changes no seat's stage.
LEMMA LifeStep ==
  IInv /\ [Next]_vars => [Life!LifeNext]_(Life!lifeVars)
<1> SUFFICES ASSUME IInv, [Next]_vars, ~UNCHANGED Life!lifeVars PROVE Life!LifeNext
  OBVIOUS
<1>0. TypeOK /\ TypeOK' /\ LockInv /\ VersionInv /\ StampInv /\ FoundInv /\ SweepInv
  BY TypeStep DEF IInv
<1>1. ~(now' = now /\ seat' = seat)
  BY DEF Life!lifeVars
<1>2. ASSUME NEW q \in Request, Reserve(q) PROVE Life!LifeNext
  BY <1>0, <1>1, <1>2, RequestRows, RequestLocal, LifeTaken
<1>3. ASSUME NEW q \in Payment, Pay(q) PROVE Life!LifeNext
  <2>1. now' = now  BY <1>0, <1>3, PaymentLocal
  <2>2. PICK s \in Seat : RowBought(s) /\ OnlyRow(s)
    BY <1>0, <1>1, <1>3, <2>1, PaymentRows
  <2>3. ~UNCHANGED [t \in Seat |-> LifeOf(seat[t])]
    BY <2>1 DEF Life!lifeVars
  <2> QED  BY <1>0, <2>1, <2>2, <2>3, LifeBought
<1>4. ASSUME NEW w \in Sweep, SweepFind(w) \/ SweepReset(w) \/ SweepFail(w)
      PROVE  Life!LifeNext
  <2>1. CASE SweepReset(w)  BY <1>0, <2>1, LifeFreed
  <2>2. CASE SweepFind(w) \/ SweepFail(w)
    BY <1>1, <2>2 DEF SweepFind, SweepFail, database
  <2> QED  BY <1>4, <2>1, <2>2
<1>5. CASE Tick
  BY <1>5 DEF Tick, database
<1>6. CASE UNCHANGED vars  BY <1>1, <1>6 DEF vars
<1> QED  BY <1>2, <1>3, <1>4, <1>5, <1>6 DEF Next, Finished

\* The seat table implements SeatLife under every interleaving.
THEOREM SeatsImplementLife == ASSUME SingleSweep PROVE Spec => SeatsFollowLife
<1>1. Init => Life!LifeInit
  BY DEF Init, InitialSeat, LifeOf, Life!LifeInit, Life!FreeSeat
<1> QED  BY <1>1, LifeStep, Inductive, PTL DEF Spec, SeatsFollowLife, Life!LifeSpec
=============================================================================
