----------------------------- MODULE CachesProofs -----------------------------
(***************************************************************************)
(* Theorems about Caches: its types and inductive invariant, how old a     *)
(* field of a seat list may be, what leaves a list without expiry, and     *)
(* that answers are about dates and performances that exist.               *)
(***************************************************************************)
EXTENDS Caches, TLAPS

USE CachesAssumption DEF CachesAssumption

\* Every initial state satisfies the inductive invariant.
LEMMA InitIInv == Init => IInv
<1> SUFFICES ASSUME Init PROVE IInv
  OBVIOUS
<1>1. TypeOK
  BY DEF Init, TypeOK, Ask
<1>2. ExistInv /\ AnswersExist
  BY DEF Init, ExistInv, AnswersExist
<1>3. FreeInv /\ CallInv /\ ExpiryInv /\ ListInv
  BY DEF Init, FreeInv, CallInv, ExpiryInv, ListInv, InFlight
<1> QED
  BY <1>1, <1>2, <1>3 DEF IInv

\* What a call asks for, and what it has stored so far.
LEMMA Asked ==
  ASSUME IInv, NEW r \in Reader
  PROVE  /\ ask[r].date \in Date /\ ask[r].what \in {"dates", "seats"}
         /\ began[r] \in Nat /\ readAt[r] \in Nat /\ now \in Nat
         /\ ask[r].what = "dates" /\ pc[r] = "filling" => todo[r] \subseteq Performance
         /\ ask[r].what = "seats" /\ pc[r] = "filling" => todo[r] \subseteq Seat
BY DEF IInv, TypeOK, Ask, ExistInv, CallInv, From, InFlight

\* Every step keeps the types.
LEMMA TypeStep == IInv /\ [Next]_vars => TypeOK'
<1> SUFFICES ASSUME IInv, [Next]_vars PROVE TypeOK'
  OBVIOUS
<1>0. TypeOK
  BY DEF IInv
<1> USE DEF InFlight
<1>1. ASSUME NEW r \in Reader, Call(r) PROVE TypeOK'
  <2>1. CASE LookUpDates(r)
    <3>1. CASE dates = {}
      BY <1>0, <2>1, <3>1, Asked DEF TypeOK, LookUpDates, Goto, environment, seatLists
    <3>2. CASE dates # {}
      <4>1. From(dates, ask[r].date) \subseteq Date
        BY <1>0 DEF TypeOK, From
      <4> QED
        BY <1>0, <2>1, <3>2, <4>1 DEF TypeOK, LookUpDates, Goto, Reply, environment, seatLists
    <3> QED
      BY <3>1, <3>2
  <2>2. CASE QueryDates(r)
    BY <1>0, <2>2, Asked DEF TypeOK, QueryDates, Goto, From, environment, seatLists
  <2>3. CASE StoreDate(r)
    BY <1>0, <2>3, Asked DEF TypeOK, StoreDate, environment, seatLists
  <2>4. CASE AnswerDates(r)
    BY <1>0, <2>4 DEF TypeOK, AnswerDates, Goto, Reply, environment, seatLists
  <2>5. CASE LookUpSeats(r)
    <3>1. CASE seats[ask[r].date] = {}
      BY <1>0, <2>5, <3>1, Asked DEF TypeOK, LookUpSeats, Goto, environment, seatLists
    <3>2. CASE seats[ask[r].date] # {}
      <4>1. seats[ask[r].date] \subseteq Seat
        BY <1>0, Asked DEF TypeOK
      <4> QED
        BY <1>0, <2>5, <3>2, <4>1 DEF TypeOK, LookUpSeats, Goto, Reply, environment, seatLists
    <3> QED
      BY <3>1, <3>2
  <2>6. CASE LookUpPerformance(r) \/ QueryPerformance(r) \/ Fail(r)
    BY <1>0, <2>6 DEF TypeOK, LookUpPerformance, QueryPerformance, Fail, Goto, environment, seatLists
  <2>7. CASE StorePerformance(r)
    BY <1>0, <2>7, Asked DEF TypeOK, StorePerformance, Goto, environment, seatLists
  <2>8. CASE QuerySeats(r)
    <3>1. ask[r].date \in Performance
      BY <2>8, Asked DEF QuerySeats, IInv, ExistInv
    <3> QED
      BY <1>0, <2>8, <3>1 DEF TypeOK, QuerySeats, Goto, environment, seatLists
  <2>9. CASE StoreSeat(r)
    <3> DEFINE d == ask[r].date
    <3>1. PICK s \in todo[r] :
            /\ seats' = [seats EXCEPT ![d] = @ \cup {s}]
            /\ asOf' = [asOf EXCEPT ![d][s] = readAt[r]]
            /\ todo' = [todo EXCEPT ![r] = @ \ {s}]
      BY <2>9 DEF StoreSeat
    <3>2. d \in Date /\ s \in Seat /\ readAt[r] \in Nat
      BY <2>9, Asked DEF StoreSeat
    <3>3. seats' \in [Date -> SUBSET Seat] /\ asOf' \in [Date -> [Seat -> Nat]]
      BY <1>0, <3>1, <3>2 DEF TypeOK
    <3>4. todo' \in [Reader -> SUBSET (Date \cup Seat)]
      BY <1>0, <3>1 DEF TypeOK
    <3> QED
      BY <1>0, <2>9, <3>3, <3>4 DEF TypeOK, StoreSeat, environment
  <2>10. CASE SetExpiry(r)
    <3>1. expireAt' \in [Date -> Nat]
      <4>1. now + Ttl \in Nat
        BY <1>0 DEF TypeOK
      <4> QED
        BY <1>0, <2>10, <4>1 DEF TypeOK, SetExpiry
    <3> QED
      BY <1>0, <2>10, <3>1 DEF TypeOK, SetExpiry, Goto, Reply, environment
  <2> QED
    BY <1>1, <2>1, <2>2, <2>3, <2>4, <2>5, <2>6, <2>7, <2>8, <2>9, <2>10 DEF Call
<1>2. CASE ChangeSeat
  BY <1>0, <1>2 DEF TypeOK, ChangeSeat, seatLists
<1>3. CASE Tick
  BY <1>0, <1>3 DEF TypeOK, Tick, Expiring
<1>4. CASE UNCHANGED vars
  BY <1>0, <1>4 DEF TypeOK, vars
<1> QED
  BY <1>1, <1>2, <1>3, <1>4 DEF Next

\* Only what exists is stored and answered: a date enters the hash from the table,
\* or after the table was asked for it.
LEMMA ExistStep == IInv /\ [Next]_vars => ExistInv' /\ AnswersExist'
<1> SUFFICES ASSUME IInv, [Next]_vars PROVE ExistInv' /\ AnswersExist'
  OBVIOUS
<1>0. TypeOK /\ ExistInv /\ AnswersExist
  BY DEF IInv
<1> USE DEF InFlight
<1>1. ASSUME NEW r \in Reader, Call(r) PROVE ExistInv' /\ AnswersExist'
  <2>1. CASE LookUpDates(r)
    <3>1. CASE dates = {}
      BY <1>0, <2>1, <3>1, Asked
         DEF TypeOK, ExistInv, AnswersExist, LookUpDates, Goto, environment, seatLists
    <3>2. CASE dates # {}
      <4>1. From(dates, ask[r].date) \subseteq From(Performance, ask[r].date)
        BY <1>0 DEF ExistInv, From
      <4> QED
        BY <1>0, <2>1, <3>2, <4>1
           DEF TypeOK, ExistInv, AnswersExist, LookUpDates, Goto, Reply, environment, seatLists
    <3> QED
      BY <3>1, <3>2
  <2>2. CASE QueryDates(r)
    BY <1>0, <2>2, Asked
       DEF TypeOK, ExistInv, AnswersExist, QueryDates, Goto, From, environment, seatLists
  <2>3. CASE StoreDate(r)
    BY <1>0, <2>3, Asked
       DEF TypeOK, ExistInv, AnswersExist, StoreDate, environment, seatLists
  <2>4. CASE AnswerDates(r)
    BY <1>0, <2>4
       DEF TypeOK, ExistInv, AnswersExist, AnswerDates, Goto, Reply, environment, seatLists
  <2>5. CASE LookUpSeats(r)
    <3>1. CASE seats[ask[r].date] = {}
      BY <1>0, <2>5, <3>1, Asked
         DEF TypeOK, ExistInv, AnswersExist, LookUpSeats, Goto, environment, seatLists
    <3>2. CASE seats[ask[r].date] # {}
      BY <1>0, <2>5, <3>2, Asked
         DEF TypeOK, ExistInv, AnswersExist, LookUpSeats, Goto, Reply, environment, seatLists
    <3> QED
      BY <3>1, <3>2
  <2>6. CASE LookUpPerformance(r)
    BY <1>0, <2>6, Asked
       DEF TypeOK, ExistInv, AnswersExist, LookUpPerformance, Goto, environment, seatLists
  <2>7. CASE QueryPerformance(r) \/ Fail(r)
    BY <1>0, <2>7, Asked
       DEF TypeOK, ExistInv, AnswersExist, QueryPerformance, Fail, Goto, environment, seatLists
  <2>8. CASE StorePerformance(r)
    BY <1>0, <2>8, Asked
       DEF TypeOK, ExistInv, AnswersExist, StorePerformance, Goto, environment, seatLists
  <2>9. CASE QuerySeats(r)
    BY <1>0, <2>9, Asked
       DEF TypeOK, ExistInv, AnswersExist, QuerySeats, Goto, environment, seatLists
  <2>10. CASE StoreSeat(r)
    BY <1>0, <2>10, Asked DEF TypeOK, ExistInv, AnswersExist, StoreSeat, environment
  <2>11. CASE SetExpiry(r)
    BY <1>0, <2>11, Asked DEF TypeOK, ExistInv, AnswersExist, SetExpiry, Goto, Reply, environment
  <2> QED
    BY <1>1, <2>1, <2>2, <2>3, <2>4, <2>5, <2>6, <2>7, <2>8, <2>9, <2>10, <2>11 DEF Call
<1>2. CASE ChangeSeat
  BY <1>0, <1>2 DEF TypeOK, ExistInv, AnswersExist, ChangeSeat, seatLists
<1>3. CASE Tick
  BY <1>0, <1>3 DEF TypeOK, ExistInv, AnswersExist, Tick
<1>4. CASE UNCHANGED vars
  BY <1>0, <1>4 DEF ExistInv, AnswersExist, vars
<1> QED
  BY <1>1, <1>2, <1>3, <1>4 DEF Next

\* Calls stay within their time, and what they found was free when they asked.
LEMMA CallStep == IInv /\ [Next]_vars => CallInv'
<1> SUFFICES ASSUME IInv, [Next]_vars PROVE CallInv'
  OBVIOUS
<1>0. TypeOK /\ ExistInv /\ FreeInv /\ CallInv
  BY DEF IInv
<1> USE DEF InFlight
<1>1. ASSUME NEW r \in Reader, Call(r) PROVE CallInv'
  <2>1. CASE LookUpDates(r)
    <3>1. CASE dates = {}
      BY <1>0, <2>1, <3>1, Asked DEF TypeOK, CallInv, LookUpDates, Goto, environment, seatLists
    <3>2. CASE dates # {}
      BY <1>0, <2>1, <3>2 DEF TypeOK, CallInv, LookUpDates, Goto, Reply, environment, seatLists
    <3> QED
      BY <3>1, <3>2
  <2>2. CASE QueryDates(r)
    BY <1>0, <2>2, Asked DEF TypeOK, CallInv, QueryDates, Goto, environment, seatLists
  <2>3. CASE StoreDate(r)
    BY <1>0, <2>3 DEF TypeOK, CallInv, StoreDate, environment, seatLists
  <2>4. CASE AnswerDates(r)
    BY <1>0, <2>4 DEF TypeOK, CallInv, AnswerDates, Goto, Reply, environment, seatLists
  <2>5. CASE LookUpSeats(r)
    <3>1. CASE seats[ask[r].date] = {}
      BY <1>0, <2>5, <3>1, Asked DEF TypeOK, CallInv, LookUpSeats, Goto, environment, seatLists
    <3>2. CASE seats[ask[r].date] # {}
      BY <1>0, <2>5, <3>2 DEF TypeOK, CallInv, LookUpSeats, Goto, Reply, environment, seatLists
    <3> QED
      BY <3>1, <3>2
  <2>6. CASE LookUpPerformance(r) \/ QueryPerformance(r) \/ Fail(r)
    BY <1>0, <2>6
       DEF TypeOK, CallInv, LookUpPerformance, QueryPerformance, Fail, Goto, environment, seatLists
  <2>7. CASE StorePerformance(r)
    BY <1>0, <2>7 DEF TypeOK, CallInv, StorePerformance, Goto, environment, seatLists
  <2>8. CASE QuerySeats(r)
    <3>1. ask[r].date \in Performance
      BY <2>8, Asked DEF QuerySeats, IInv, ExistInv
    <3>2. free[ask[r].date] \subseteq Seat
      BY <1>0, <3>1 DEF TypeOK
    <3>3. \A s \in free[ask[r].date] : lastFree[ask[r].date][s] = now
      BY <1>0, <3>1, <3>2 DEF FreeInv
    <3> QED
      BY <1>0, <2>8, <3>1, <3>2, <3>3, Asked
         DEF TypeOK, CallInv, QuerySeats, Goto, environment, seatLists
  <2>9. CASE StoreSeat(r)
    BY <1>0, <2>9 DEF TypeOK, CallInv, StoreSeat, environment
  <2>10. CASE SetExpiry(r)
    BY <1>0, <2>10 DEF TypeOK, CallInv, SetExpiry, Goto, Reply, environment
  <2> QED
    BY <1>1, <2>1, <2>2, <2>3, <2>4, <2>5, <2>6, <2>7, <2>8, <2>9, <2>10 DEF Call
<1>2. CASE ChangeSeat
  BY <1>0, <1>2 DEF TypeOK, CallInv, ChangeSeat, seatLists
<1>3. CASE Tick
  <2> SUFFICES ASSUME NEW r \in Reader, pc[r] \in InFlight
               PROVE  /\ began[r] <= now + 1 /\ now + 1 <= began[r] + CallBound
                      /\ pc[r] = "filling" => began[r] <= readAt[r] /\ readAt[r] <= now + 1
                      /\ pc[r] = "filling" /\ ask[r].what = "seats" =>
                           /\ found[r] \subseteq Seat
                           /\ todo[r] \subseteq found[r]
                           /\ \A s \in found[r] : readAt[r] <= lastFree'[ask[r].date][s]
    BY <1>3 DEF CallInv, Tick
  <2>1. now \in Nat /\ began[r] \in Nat /\ readAt[r] \in Nat /\ now < began[r] + CallBound
    BY <1>0, <1>3 DEF TypeOK, Tick
  <2>2. ASSUME pc[r] = "filling", ask[r].what = "seats", NEW s \in found[r]
        PROVE  readAt[r] <= lastFree'[ask[r].date][s]
    <3>1. ask[r].date \in Performance /\ s \in Seat
      BY <1>0, <2>2 DEF ExistInv, CallInv
    <3>2. lastFree'[ask[r].date][s] \in {now + 1, lastFree[ask[r].date][s]}
      BY <1>3, <3>1 DEF Tick
    <3>3. readAt[r] <= lastFree[ask[r].date][s] /\ readAt[r] <= now
      BY <1>0, <2>2 DEF CallInv
    <3> QED
      BY <2>1, <3>2, <3>3
  <2> QED
    BY <1>0, <2>1, <2>2 DEF CallInv
<1>4. CASE UNCHANGED vars
  BY <1>0, <1>4 DEF CallInv, vars
<1> QED
  BY <1>1, <1>2, <1>3, <1>4 DEF Next

\* The history of free seats is kept up to date.
LEMMA FreeStep == IInv /\ [Next]_vars => FreeInv'
<1> SUFFICES ASSUME IInv, [Next]_vars PROVE FreeInv'
  OBVIOUS
<1>0. TypeOK /\ FreeInv
  BY DEF IInv
<1>1. CASE ChangeSeat
  <2>1. PICK d \in Performance, s \in Seat :
          /\ free' = [free EXCEPT ![d] = IF s \in @ THEN @ \ {s} ELSE @ \cup {s}]
          /\ lastFree' = [lastFree EXCEPT ![d][s] = now]
    BY <1>1 DEF ChangeSeat
  <2>2. ASSUME NEW e \in Performance, NEW t \in Seat
        PROVE  lastFree'[e][t] <= now /\ (t \in free'[e] => lastFree'[e][t] = now)
    <3>1. lastFree'[e][t] = IF e = d /\ t = s THEN now ELSE lastFree[e][t]
      BY <1>0, <2>1 DEF TypeOK
    <3>2. t \in free'[e] => t \in free[e] \/ (e = d /\ t = s)
      BY <1>0, <2>1 DEF TypeOK
    <3> QED
      BY <1>0, <3>1, <3>2 DEF TypeOK, FreeInv
  <2> QED
    BY <1>1, <2>2 DEF FreeInv, ChangeSeat
<1>2. CASE Tick
  BY <1>0, <1>2 DEF TypeOK, FreeInv, Tick
<1>3. CASE UNCHANGED environment
  BY <1>0, <1>3 DEF FreeInv, environment
<1> QED
  BY <1>1, <1>2, <1>3
     DEF Next, Call, LookUpDates, QueryDates, StoreDate, AnswerDates, LookUpSeats, LookUpPerformance,
         QueryPerformance, StorePerformance, QuerySeats, StoreSeat, SetExpiry, Fail, environment, vars

\* Lists that are there have an expiry in the future, or none.
LEMMA ExpiryStep == IInv /\ [Next]_vars => ExpiryInv'
<1> SUFFICES ASSUME IInv, [Next]_vars PROVE ExpiryInv'
  OBVIOUS
<1>0. TypeOK /\ ExpiryInv
  BY DEF IInv
<1>1. CASE Tick
  BY <1>0, <1>1 DEF TypeOK, ExpiryInv, Tick, Expiring
<1>2. ASSUME NEW r \in Reader, StoreSeat(r) PROVE ExpiryInv'
  <2> DEFINE d == ask[r].date
  <2>1. PICK s : seats' = [seats EXCEPT ![d] = @ \cup {s}]
    BY <1>2 DEF StoreSeat
  <2> QED
    BY <1>0, <1>2, <2>1 DEF TypeOK, ExpiryInv, StoreSeat, environment
<1>3. ASSUME NEW r \in Reader, SetExpiry(r) PROVE ExpiryInv'
  <2> DEFINE d == ask[r].date
  <2>1. now + Ttl \in Nat /\ now < now + Ttl /\ now + Ttl <= now + Ttl
    BY <1>0 DEF TypeOK
  <2>2. CASE seats[d] = {}
    BY <1>0, <1>3, <2>2 DEF TypeOK, ExpiryInv, SetExpiry, environment
  <2>3. CASE seats[d] # {}
    BY <1>0, <1>3, <2>1, <2>3 DEF TypeOK, ExpiryInv, SetExpiry, environment
  <2> QED
    BY <2>2, <2>3
<1>4. CASE UNCHANGED <<now, seats, expireAt>>
  BY <1>0, <1>4 DEF ExpiryInv
<1> QED
  BY <1>1, <1>2, <1>3, <1>4
     DEF Next, Call, LookUpDates, QueryDates, StoreDate, AnswerDates, LookUpSeats, LookUpPerformance,
         QueryPerformance, StorePerformance, QuerySeats, Fail, ChangeSeat, environment, seatLists, vars

-----------------------------------------------------------------------------
(* How old a field of a seat list may be.                                    *)

\* One field of one list: its query was run when the seat was free; whoever fills
\* the list began no later than CallBound after that; nor is its expiry late.
Aged(d, s) ==
  /\ asOf[d][s] <= lastFree[d][s]
  /\ \A r \in Reader : Fills(r, d) => began[r] <= asOf[d][s] + CallBound
  /\ expireAt[d] # 0 => expireAt[d] <= asOf[d][s] + 2 * CallBound + Ttl

\* Numbers that the arithmetic below is about.
LEMMA ListTypes ==
  ASSUME TypeOK, NEW d \in Performance, NEW s \in Seat
  PROVE  /\ d \in Date /\ now \in Nat
         /\ asOf[d][s] \in Nat /\ lastFree[d][s] \in Nat /\ expireAt[d] \in Nat
         /\ seats[d] \subseteq Seat
         /\ \A r \in Reader : began[r] \in Nat /\ readAt[r] \in Nat
BY DEF TypeOK

\* Storing a seat: the others who fill the list began by now, and now is within a
\* call's time of the query that found the seat.
LEMMA StoreKeepsAge ==
  ASSUME IInv, NEW r \in Reader, StoreSeat(r)
  PROVE  ListInv'
<1>0. TypeOK /\ ExistInv /\ CallInv /\ ExpiryInv /\ ListInv
  BY DEF IInv
<1> DEFINE d == ask[r].date
<1>1. PICK s \in todo[r] :
        /\ seats' = [seats EXCEPT ![d] = @ \cup {s}]
        /\ asOf' = [asOf EXCEPT ![d][s] = readAt[r]]
  BY DEF StoreSeat
<1>2. d \in Performance /\ s \in Seat /\ d \in Date
  BY <1>0, Asked DEF StoreSeat, ExistInv
<1>3. /\ began[r] <= readAt[r] /\ readAt[r] <= now /\ now <= readAt[r] + CallBound
      /\ readAt[r] <= lastFree[d][s]
  <2>1. /\ began[r] <= readAt[r] /\ readAt[r] <= now /\ now <= began[r] + CallBound
        /\ s \in found[r]
    BY <1>0 DEF StoreSeat, CallInv, InFlight
  <2>2. readAt[r] <= lastFree[d][s]
    BY <1>0, <2>1 DEF StoreSeat, CallInv, InFlight
  <2> QED
    BY <1>0, <2>1, <2>2 DEF TypeOK
<1>4. ASSUME NEW e \in Performance, NEW t \in seats'[e] PROVE Aged(e, t)'
  <2>1. UNCHANGED <<now, lastFree, began, expireAt>> /\ \A q \in Reader : Fills(q, e)' = Fills(q, e)
    BY DEF StoreSeat, environment, Fills
  <2>2. CASE e = d /\ t = s
    <3>1. asOf'[e][t] = readAt[r]
      BY <1>0, <1>1, <1>2, <2>2 DEF TypeOK
    <3>2. \A q \in Reader : Fills(q, e) => began[q] <= readAt[r] + CallBound
      BY <1>0, <1>2, <1>3, ListTypes DEF Fills, CallInv
    <3>3. expireAt[e] # 0 => expireAt[e] <= readAt[r] + 2 * CallBound + Ttl
      <4>1. expireAt[d] # 0 => expireAt[d] <= now + Ttl
        BY <1>0, <1>2 DEF ExpiryInv
      <4>2. expireAt[d] \in Nat /\ now \in Nat /\ readAt[r] \in Nat
        BY <1>0, <1>2 DEF TypeOK
      <4> QED
        BY <1>3, <2>2, <4>1, <4>2
    <3> QED
      BY <1>3, <2>1, <2>2, <3>1, <3>2, <3>3 DEF Aged
  <2>3. CASE ~(e = d /\ t = s)
    <3>1. asOf'[e][t] = asOf[e][t] /\ t \in seats[e]
      BY <1>0, <1>1, <1>2, <2>3 DEF TypeOK
    <3>2. Aged(e, t)
      BY <1>0, <3>1 DEF ListInv, Aged
    <3> QED
      BY <2>1, <3>1, <3>2 DEF Aged
  <2> QED
    BY <2>2, <2>3
<1> QED
  BY <1>4 DEF ListInv, Aged

\* Setting the expiry: who sets it looked no later than CallBound after the query of
\* any field, and is no older than CallBound.
LEMMA ExpiryKeepsAge ==
  ASSUME IInv, NEW r \in Reader, SetExpiry(r)
  PROVE  ListInv'
<1>0. TypeOK /\ CallInv /\ ListInv
  BY DEF IInv
<1> DEFINE d == ask[r].date
<1>1. ASSUME NEW e \in Performance, NEW t \in seats'[e] PROVE Aged(e, t)'
  <2>0. t \in seats[e] /\ t \in Seat
    BY <1>0 DEF SetExpiry, TypeOK
  <2>1. Aged(e, t)
    BY <1>0, <2>0 DEF ListInv, Aged
  <2>2. /\ UNCHANGED <<now, lastFree, asOf, began>>
        /\ \A q \in Reader : Fills(q, e)' => Fills(q, e)
    BY <1>0 DEF SetExpiry, environment, Fills, Reply, Goto, InFlight, TypeOK
  <2>3. expireAt'[e] # 0 => expireAt'[e] <= asOf[e][t] + 2 * CallBound + Ttl
    <3>1. CASE e = d
      <4>1. began[r] <= asOf[e][t] + CallBound /\ now <= began[r] + CallBound
        BY <1>0, <2>1, <3>1 DEF SetExpiry, CallInv, InFlight, Aged, Fills
      <4>2. expireAt'[e] = now + Ttl
        BY <1>0, <2>0, <3>1, ListTypes DEF SetExpiry, TypeOK
      <4> QED
        BY <1>0, <2>0, <4>1, <4>2, ListTypes
    <3>2. CASE e # d
      BY <1>0, <2>1, <3>2 DEF SetExpiry, TypeOK, Aged
    <3> QED
      BY <3>1, <3>2
  <2> QED
    BY <2>1, <2>2, <2>3 DEF Aged
<1> QED
  BY <1>1 DEF ListInv, Aged

\* The other steps of a call neither touch the lists nor begin to fill one that is
\* not empty.
LEMMA CallKeepsAge ==
  ASSUME IInv, NEW r \in Reader, Call(r), ~StoreSeat(r), ~SetExpiry(r)
  PROVE  ListInv'
<1>0. TypeOK /\ ExistInv /\ ListInv
  BY DEF IInv
<1>1. UNCHANGED <<lastFree, seats, asOf, expireAt>>
  BY DEF Call, LookUpDates, QueryDates, StoreDate, AnswerDates, LookUpSeats, LookUpPerformance,
         QueryPerformance, StorePerformance, QuerySeats, Fail, environment, seatLists
<1>2. ASSUME NEW q \in Reader, NEW d \in Performance, Fills(q, d)', seats[d] # {}
      PROVE  Fills(q, d) /\ began'[q] = began[q]
  <2>1. CASE LookUpSeats(r)
    BY <1>0, <1>2, <2>1 DEF LookUpSeats, Fills, Goto, Reply, InFlight, TypeOK
  <2>2. CASE LookUpDates(r)
    BY <1>0, <1>2, <2>2 DEF LookUpDates, Fills, Goto, Reply, InFlight, TypeOK
  <2>3. CASE ~LookUpSeats(r) /\ ~LookUpDates(r)
    BY <1>0, <1>2, <2>3
       DEF Call, QueryDates, StoreDate, AnswerDates, LookUpPerformance, QueryPerformance,
           StorePerformance, QuerySeats, Fail, Fills, Goto, Reply, InFlight, TypeOK
  <2> QED
    BY <2>1, <2>2, <2>3
<1> QED
  BY <1>0, <1>1, <1>2 DEF ListInv

\* No field of a seat list is older than it may be.
LEMMA ListStep == IInv /\ [Next]_vars => ListInv'
<1> SUFFICES ASSUME IInv, [Next]_vars PROVE ListInv'
  OBVIOUS
<1>0. TypeOK /\ FreeInv /\ ListInv
  BY DEF IInv
<1>1. ASSUME NEW r \in Reader, Call(r) PROVE ListInv'
  BY <1>1, StoreKeepsAge, ExpiryKeepsAge, CallKeepsAge
<1>2. ASSUME ChangeSeat \/ Tick, NEW d \in Performance, NEW s \in seats'[d]
      PROVE  Aged(d, s)'
  <2>1. s \in seats[d] /\ s \in Seat /\ d \in Date /\ expireAt'[d] \in {0, expireAt[d]}
    BY <1>0, <1>2 DEF TypeOK, ChangeSeat, Tick, seatLists
  <2>2. Aged(d, s)
    BY <1>0, <2>1 DEF ListInv, Aged
  <2>3. UNCHANGED <<asOf, began>> /\ \A q \in Reader : Fills(q, d)' = Fills(q, d)
    BY <1>2 DEF ChangeSeat, Tick, seatLists, Fills
  <2>4. lastFree'[d][s] >= lastFree[d][s]
    <3>1. CASE Tick
      BY <1>0, <2>1, <3>1, ListTypes DEF Tick, FreeInv
    <3>2. CASE ChangeSeat
      BY <1>0, <2>1, <3>2, ListTypes DEF ChangeSeat, FreeInv, TypeOK
    <3> QED
      BY <1>2, <3>1, <3>2
  <2>5. lastFree'[d][s] \in Nat /\ lastFree[d][s] \in Nat /\ asOf[d][s] \in Nat
    BY <1>0, <2>1, ListTypes, TypeStep DEF TypeOK
  <2> QED
    BY <2>1, <2>2, <2>3, <2>4, <2>5 DEF Aged
<1>3. CASE UNCHANGED vars
  BY <1>0, <1>3 DEF ListInv, Fills, vars
<1> QED
  BY <1>1, <1>2, <1>3 DEF Next, ListInv, Aged

\* The inductive invariant is inductive.
LEMMA IInvStep == IInv /\ [Next]_vars => IInv'
BY TypeStep, ExistStep, FreeStep, CallStep, ExpiryStep, ListStep DEF IInv

-----------------------------------------------------------------------------
(* The theorems.                                                             *)

\* Every reachable state satisfies the inductive invariant, for any number of calls,
\* dates and seats (getAvailableDatesWithCache, getAvailableSeatsWithCache).
THEOREM Inductive == Spec => []IInv
<1> QED
  BY InitIInv, IInvStep, PTL DEF Spec

\* A seat list tells of no seat that was last free longer ago than two call durations
\* and the expiry, unless it was orphaned (getAvailableSeatsWithCache).
THEOREM ListsAreFresh == Spec => []ListedWasFree
<1>1. IInv => ListedWasFree
  <2> SUFFICES ASSUME IInv, NEW d \in Performance, ~Orphaned(d), NEW s \in seats[d]
               PROVE  now <= lastFree[d][s] + 2 * CallBound + Ttl
    BY DEF ListedWasFree
  <2>0. TypeOK /\ CallInv /\ ExpiryInv /\ ListInv
    BY DEF IInv
  <2>1. s \in Seat /\ d \in Date
    BY <2>0 DEF TypeOK
  <2>2. Aged(d, s)
    BY <2>0 DEF ListInv, Aged
  <2>3. CASE expireAt[d] # 0
    BY <2>0, <2>1, <2>2, <2>3, ListTypes DEF ExpiryInv, Aged
  <2>4. CASE expireAt[d] = 0
    <3>1. PICK r \in Reader : Fills(r, d)
      BY <2>4 DEF Orphaned
    <3>2. began[r] <= asOf[d][s] + CallBound /\ now <= began[r] + CallBound
      BY <2>0, <2>2, <3>1 DEF Aged, CallInv, Fills
    <3> QED
      BY <2>0, <2>1, <2>2, <3>2, ListTypes DEF Aged
  <2> QED
    BY <2>3, <2>4
<1> QED
  BY <1>1, Inductive, PTL

\* A call that ends a fill either gives the list an expiry or fails.
LEMMA OrphanStep ==
  ASSUME IInv, Next, NEW d \in Date, ~Orphaned(d), Orphaned(d)'
  PROVE  \E r \in Reader : Fills(r, d) /\ pc'[r] = "failed"
<1>0. TypeOK /\ ExistInv
  BY DEF IInv
<1> USE DEF InFlight
<1>1. CASE Tick
  BY <1>0, <1>1 DEF Tick, Orphaned, Fills, Expiring, TypeOK
<1>2. CASE ChangeSeat
  BY <1>2 DEF ChangeSeat, seatLists, Orphaned, Fills
<1>3. ASSUME NEW r \in Reader, Call(r)
      PROVE  Fills(r, d) /\ pc'[r] = "failed"
  <2>0. ASSUME NEW q \in Reader, q # r PROVE Fills(q, d)' = Fills(q, d)
    BY <1>0, <1>3, <2>0
       DEF Call, LookUpDates, QueryDates, StoreDate, AnswerDates, LookUpSeats, LookUpPerformance,
           QueryPerformance, StorePerformance, QuerySeats, StoreSeat, SetExpiry, Fail, Goto, Reply,
           Fills, TypeOK
  <2>1. CASE StoreSeat(r)
    <3>1. Fills(r, d)' = Fills(r, d) /\ (ask[r].date # d => seats'[d] = seats[d]) /\ expireAt' = expireAt
      BY <1>0, <2>1 DEF StoreSeat, Fills, TypeOK
    <3>2. ask[r].date = d => Fills(r, d)
      BY <2>1 DEF StoreSeat, Fills
    <3> QED
      BY <2>0, <3>1, <3>2 DEF Orphaned
  <2>2. CASE SetExpiry(r)
    <3>1. seats' = seats /\ (ask[r].date # d => expireAt'[d] = expireAt[d] /\ Fills(r, d)' = Fills(r, d))
      BY <1>0, <2>2 DEF SetExpiry, Fills, TypeOK
    <3>2. ask[r].date = d /\ seats[d] # {} => expireAt'[d] # 0
      <4>1. now + Ttl # 0
        BY <1>0 DEF TypeOK
      <4> QED
        BY <1>0, <2>2, <4>1 DEF SetExpiry, TypeOK
    <3> QED
      BY <2>0, <3>1, <3>2 DEF Orphaned
  <2>3. CASE ~StoreSeat(r) /\ ~SetExpiry(r)
    <3>1. UNCHANGED <<seats, expireAt>>
      BY <1>3, <2>3
         DEF Call, LookUpDates, QueryDates, StoreDate, AnswerDates, LookUpSeats, LookUpPerformance,
             QueryPerformance, StorePerformance, QuerySeats, Fail, seatLists
    <3>2. Fills(r, d) /\ ~Fills(r, d)'
      BY <2>0, <3>1 DEF Orphaned
    <3>3. CASE Fail(r)
      BY <1>0, <3>2, <3>3 DEF Fail, Goto, TypeOK
    <3>4. CASE QueryPerformance(r)
      BY <1>0, <3>1, <3>2, <3>4 DEF QueryPerformance, Goto, Fills, TypeOK, ExistInv, Orphaned
    <3>5. CASE ~Fail(r) /\ ~QueryPerformance(r)
      BY <1>0, <1>3, <2>3, <3>2, <3>5
         DEF Call, LookUpDates, QueryDates, StoreDate, AnswerDates, LookUpSeats, LookUpPerformance,
             StorePerformance, QuerySeats, Goto, Reply, Fills, TypeOK
    <3> QED
      BY <3>3, <3>4, <3>5
  <2> QED
    BY <2>1, <2>2, <2>3
<1> QED
  BY <1>1, <1>2, <1>3 DEF Next

\* Only a call that fails in the middle of its fill leaves a seat list without expiry
\* (getAvailableSeatsWithCache).
THEOREM OnlyFailuresOrphan == Spec => OrphanedByFailure
<1>1. IInv /\ [Next]_vars =>
        [\A d \in Date : ~Orphaned(d) /\ Orphaned(d)' =>
           \E r \in Reader : Fills(r, d) /\ pc'[r] = "failed"]_vars
  BY OrphanStep
<1> QED
  BY <1>1, Inductive, PTL DEF Spec, OrphanedByFailure

\* Answers are about dates and performances that exist (getPerformanceWithCache).
THEOREM OnlyExistingAnswered == Spec => []AnswersExist
<1>1. IInv => AnswersExist
  BY DEF IInv
<1> QED
  BY <1>1, Inductive, PTL
=============================================================================
