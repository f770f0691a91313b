-------------------------------- MODULE Caches --------------------------------
(***************************************************************************)
(* The two Redis hashes in front of the queries of ConcertService: one     *)
(* with the dates of a concert, one per date with its free seats.  Calls   *)
(* look into a hash, fall back to the database on a miss, and fill the     *)
(* hash field by field; Redis drops a hash when its expiry comes.          *)
(***************************************************************************)
EXTENDS Integers

CONSTANTS
  Reader,       \* calls of the two cached queries
  Date,         \* dates one may ask for, as numbers
  Performance,  \* the dates that have a performance of the concert
  Seat,         \* the seat numbers of a performance
  Ttl,          \* the expiry of a seat list, one second
  CallBound,    \* the longest time from a call's first lookup to its end
  MaxTime       \* bound on the clock, for model checking

ASSUME CachesAssumption ==
  /\ Date \subseteq Nat
  /\ Performance \subseteq Date
  /\ Ttl \in Nat \ {0}
  /\ CallBound \in Nat
  /\ MaxTime \in Nat

VARIABLES
  now,       \* the clock of Redis and of the callers
  free,      \* the RESERVABLE seats of each date, in the database
  lastFree,  \* when each seat was last free (history)
  dates,     \* fields of the hash performances:<concert>
  seats,     \* fields of the hash concert:<concert>:date:<date>:seats
  asOf,      \* when the query behind a field of it was run (history)
  expireAt,  \* when that hash expires; 0 if it has no expiry
  ask,       \* what each call asks for
  pc,        \* how far it is
  began,     \* when it looked into its hash
  readAt,    \* when it ran its query
  found,     \* the rows it got
  todo,      \* those it has yet to store
  answer     \* what it answered

environment == <<now, free, lastFree>>
seatLists == <<seats, asOf, expireAt>>
vars == <<now, free, lastFree, dates, seats, asOf, expireAt,
          ask, pc, began, readAt, found, todo, answer>>

Ask == [what : {"dates", "seats"}, date : Date]

InFlight == {"missed", "unknown", "known", "found", "filling"}

TypeOK ==
  /\ now \in Nat
  /\ free \in [Performance -> SUBSET Seat]
  /\ lastFree \in [Performance -> [Seat -> Nat]]
  /\ dates \subseteq Date
  /\ seats \in [Date -> SUBSET Seat]
  /\ asOf \in [Date -> [Seat -> Nat]]
  /\ expireAt \in [Date -> Nat]
  /\ ask \in [Reader -> Ask]
  /\ pc \in [Reader -> InFlight \cup {"start", "done", "rejected", "failed"}]
  /\ began \in [Reader -> Nat]
  /\ readAt \in [Reader -> Nat]
  /\ found \in [Reader -> SUBSET (Date \cup Seat)]
  /\ todo \in [Reader -> SUBSET (Date \cup Seat)]
  /\ answer \in [Reader -> SUBSET (Date \cup Seat)]

\* All seats are free when the service starts, and Redis is empty.
Init ==
  /\ now = 0
  /\ free = [d \in Performance |-> Seat]
  /\ lastFree = [d \in Performance |-> [s \in Seat |-> 0]]
  /\ dates = {}
  /\ seats = [d \in Date |-> {}]
  /\ asOf = [d \in Date |-> [s \in Seat |-> 0]]
  /\ expireAt = [d \in Date |-> 0]
  /\ ask \in [Reader -> Ask]
  /\ pc = [r \in Reader |-> "start"]
  /\ began = [r \in Reader |-> 0]
  /\ readAt = [r \in Reader |-> 0]
  /\ found = [r \in Reader |-> {}]
  /\ todo = [r \in Reader |-> {}]
  /\ answer = [r \in Reader |-> {}]

Goto(r, label) == pc' = [pc EXCEPT ![r] = label]

Reply(r, result) == Goto(r, "done") /\ answer' = [answer EXCEPT ![r] = result]

From(set, start) == {d \in set : start <= d}

-----------------------------------------------------------------------------
(* getAvailableDatesWithCache: start -> done, or start -> missed -> filling  *)
(* -> done.  The hash has no expiry: hset stores EX and its number as one    *)
(* more field, which the date filter drops.                                  *)

\* hgetall; any field at all counts as a hit, and is filtered by the start date.
LookUpDates(r) ==
  /\ ask[r].what = "dates" /\ pc[r] = "start"
  /\ began' = [began EXCEPT ![r] = now]
  /\ IF dates = {} THEN Goto(r, "missed") /\ UNCHANGED answer
                   ELSE Reply(r, From(dates, ask[r].date))
  /\ UNCHANGED <<environment, dates, seatLists, ask, readAt, found, todo>>

\* The dates that have a performance, from the start date on.
QueryDates(r) ==
  /\ ask[r].what = "dates" /\ pc[r] = "missed"
  /\ Goto(r, "filling")
  /\ readAt' = [readAt EXCEPT ![r] = now]
  /\ found' = [found EXCEPT ![r] = From(Performance, ask[r].date)]
  /\ todo' = found'
  /\ UNCHANGED <<environment, dates, seatLists, ask, began, answer>>

\* One hset per row, each awaited.
StoreDate(r) ==
  /\ ask[r].what = "dates" /\ pc[r] = "filling"
  /\ \E d \in todo[r] :
       /\ dates' = dates \cup {d}
       /\ todo' = [todo EXCEPT ![r] = @ \ {d}]
  /\ UNCHANGED <<environment, seatLists, ask, pc, began, readAt, found, answer>>

AnswerDates(r) ==
  /\ ask[r].what = "dates" /\ pc[r] = "filling" /\ todo[r] = {}
  /\ Reply(r, found[r])
  /\ UNCHANGED <<environment, dates, seatLists, ask, began, readAt, found, todo>>

-----------------------------------------------------------------------------
(* getAvailableSeatsWithCache: start -> done, or start -> missed, then       *)
(* getPerformanceWithCache, then known -> filling -> done.                   *)

\* hgetall of the seat list.
LookUpSeats(r) ==
  LET list == seats[ask[r].date] IN
  /\ ask[r].what = "seats" /\ pc[r] = "start"
  /\ began' = [began EXCEPT ![r] = now]
  /\ IF list = {} THEN Goto(r, "missed") /\ UNCHANGED answer ELSE Reply(r, list)
  /\ UNCHANGED <<environment, dates, seatLists, ask, readAt, found, todo>>

\* hget of the one date in the hash of dates.
LookUpPerformance(r) ==
  /\ ask[r].what = "seats" /\ pc[r] = "missed"
  /\ Goto(r, IF ask[r].date \in dates THEN "known" ELSE "unknown")
  /\ UNCHANGED <<environment, dates, seatLists, ask, began, readAt, found, todo, answer>>

QueryPerformanceUnchecked(r) ==
  /\ pc[r] = "unknown"
  /\ Goto(r, "found")
  /\ UNCHANGED <<environment, dates, seatLists, ask, began, readAt, found, todo, answer>>

\* Without a performance the call ends with an error.
QueryPerformance(r) ==
  /\ pc[r] = "unknown"
  /\ Goto(r, IF ask[r].date \in Performance THEN "found" ELSE "rejected")
  /\ UNCHANGED <<environment, dates, seatLists, ask, began, readAt, found, todo, answer>>

\* hset of that single date, without expiry, although the hash may be empty.
StorePerformance(r) ==
  /\ pc[r] = "found"
  /\ Goto(r, "known")
  /\ dates' = dates \cup {ask[r].date}
  /\ UNCHANGED <<environment, seatLists, ask, began, readAt, found, todo, answer>>

\* The RESERVABLE seats of the performance.
QuerySeats(r) ==
  /\ pc[r] = "known"
  /\ Goto(r, "filling")
  /\ readAt' = [readAt EXCEPT ![r] = now]
  /\ found' = [found EXCEPT ![r] = free[ask[r].date]]
  /\ todo' = found'
  /\ UNCHANGED <<environment, dates, seatLists, ask, began, answer>>

\* One hset per seat.  A hash that expired meanwhile comes back with no expiry.
StoreSeat(r) ==
  LET d == ask[r].date IN
  /\ ask[r].what = "seats" /\ pc[r] = "filling"
  /\ \E s \in todo[r] :
       /\ seats' = [seats EXCEPT ![d] = @ \cup {s}]
       /\ asOf' = [asOf EXCEPT ![d][s] = readAt[r]]
       /\ todo' = [todo EXCEPT ![r] = @ \ {s}]
  /\ UNCHANGED <<environment, dates, expireAt, ask, pc, began, readAt, found, answer>>

AnswerWithoutExpiry(r) ==
  /\ ask[r].what = "seats" /\ pc[r] = "filling" /\ todo[r] = {}
  /\ Reply(r, found[r])
  /\ UNCHANGED <<environment, dates, seatLists, ask, began, readAt, found, todo>>

SetLongExpiry(r) ==
  LET d == ask[r].date IN
  /\ ask[r].what = "seats" /\ pc[r] = "filling" /\ todo[r] = {}
  /\ Reply(r, found[r])
  /\ expireAt' = [expireAt EXCEPT ![d] = IF seats[d] = {} THEN @ ELSE now + 300 * Ttl]
  /\ UNCHANGED <<environment, dates, seats, asOf, ask, began, readAt, found, todo>>

\* expire(key, 1), which does nothing to a hash that is not there.
SetExpiry(r) ==
  LET d == ask[r].date IN
  /\ ask[r].what = "seats" /\ pc[r] = "filling" /\ todo[r] = {}
  /\ Reply(r, found[r])
  /\ expireAt' = [expireAt EXCEPT ![d] = IF seats[d] = {} THEN @ ELSE now + Ttl]
  /\ UNCHANGED <<environment, dates, seats, asOf, ask, began, readAt, found, todo>>

-----------------------------------------------------------------------------
\* An error of Redis or of the database ends the call where it is.
Fail(r) ==
  /\ pc[r] \in InFlight
  /\ Goto(r, "failed")
  /\ UNCHANGED <<environment, dates, seatLists, ask, began, readAt, found, todo, answer>>

Call(r) ==
  \/ LookUpDates(r) \/ QueryDates(r) \/ StoreDate(r) \/ AnswerDates(r)
  \/ LookUpSeats(r) \/ LookUpPerformance(r) \/ QueryPerformance(r) \/ StorePerformance(r)
  \/ QuerySeats(r) \/ StoreSeat(r) \/ SetExpiry(r)
  \/ Fail(r)

\* A reservation takes a seat, or the sweep frees one.  Neither touches Redis.
ChangeSeat ==
  /\ \E d \in Performance, s \in Seat :
       /\ free' = [free EXCEPT ![d] = IF s \in @ THEN @ \ {s} ELSE @ \cup {s}]
       /\ lastFree' = [lastFree EXCEPT ![d][s] = now]
  /\ UNCHANGED <<now, dates, seatLists, ask, pc, began, readAt, found, todo, answer>>

Expiring(d) == expireAt[d] # 0 /\ expireAt[d] <= now + 1

\* Time passes, no call outlives CallBound, and Redis drops what expires.
Tick ==
  /\ now < MaxTime
  /\ \A r \in Reader : pc[r] \in InFlight => now < began[r] + CallBound
  /\ now' = now + 1
  /\ lastFree' = [d \in Performance |->
                    [s \in Seat |-> IF s \in free[d] THEN now + 1 ELSE lastFree[d][s]]]
  /\ seats' = [d \in Date |-> IF Expiring(d) THEN {} ELSE seats[d]]
  /\ expireAt' = [d \in Date |-> IF Expiring(d) THEN 0 ELSE expireAt[d]]
  /\ UNCHANGED <<free, dates, asOf, ask, pc, began, readAt, found, todo, answer>>

Next == (\E r \in Reader : Call(r)) \/ ChangeSeat \/ Tick

\* Calls run on and time passes.
Fairness == (\A r \in Reader : WF_vars(Call(r))) /\ WF_vars(Tick)

Spec == Init /\ [][Next]_vars /\ Fairness

-----------------------------------------------------------------------------
(* Properties                                                                *)

\* The call looked into the seat list of d, found nothing, and is filling it.
Fills(r, d) == ask[r].what = "seats" /\ ask[r].date = d /\ pc[r] \in InFlight

\* A seat list without an expiry that nobody is going to give one.
Orphaned(d) == seats[d] # {} /\ expireAt[d] = 0 /\ \A r \in Reader : ~Fills(r, d)

\* What the seat list says of a seat was true not long ago: two call durations and
\* the expiry bound the age of every field, however the fills and expiries of the
\* hash interleave; a list somebody failed to finish is the one exception.
ListedWasFree ==
  \A d \in Performance : ~Orphaned(d) =>
    \A s \in seats[d] : now <= lastFree[d][s] + 2 * CallBound + Ttl

\* A seat list is left without expiry only by a call that fails between its hset
\* and its expire, not by fills that overlap or by an expiry in the middle of one.
OrphanedByFailure ==
  [][\A d \in Date : ~Orphaned(d) /\ Orphaned(d)' =>
       \E r \in Reader : Fills(r, d) /\ pc'[r] = "failed"]_vars

\* Only dates with a performance, and not before the start, are ever answered, and
\* nobody is told of seats of a performance that does not exist: what one call
\* stores in the hash of dates, the others may take for a performance.
AnswersExist ==
  \A r \in Reader :
    /\ ask[r].what = "dates" => answer[r] \subseteq From(Performance, ask[r].date)
    /\ ask[r].what = "seats" /\ pc[r] \in {"known", "filling", "done"}
         => ask[r].date \in Performance

\* What the doc says of the hash: it holds the list of dates of the concert.  With
\* nobody at work on it and no call failed, a hash that is there is complete.
DatesComplete ==
  dates # {} /\ (\A r \in Reader : pc[r] \in {"start", "done", "rejected"})
    => dates = Performance

-----------------------------------------------------------------------------
(* The inductive invariant behind the first three.                           *)

\* Only what exists is stored, and who asks for what passes through which states.
ExistInv ==
  /\ dates \subseteq Performance
  /\ \A d \in Date : seats[d] # {} => d \in Performance
  /\ \A r \in Reader :
       /\ ask[r].what = "dates" => pc[r] \notin {"unknown", "known", "found"}
       /\ ask[r].what = "dates" /\ pc[r] = "filling" =>
            /\ found[r] \subseteq From(Performance, ask[r].date)
            /\ todo[r] \subseteq found[r]
       /\ ask[r].what = "seats" /\ pc[r] \in {"found", "known", "filling", "done"} =>
            ask[r].date \in Performance

\* Calls are within their time, and a query found seats that were free then.
CallInv ==
  \A r \in Reader : pc[r] \in InFlight =>
    /\ began[r] <= now /\ now <= began[r] + CallBound
    /\ pc[r] = "filling" => began[r] <= readAt[r] /\ readAt[r] <= now
    /\ pc[r] = "filling" /\ ask[r].what = "seats" =>
         /\ found[r] \subseteq Seat
         /\ todo[r] \subseteq found[r]
         /\ \A s \in found[r] : readAt[r] <= lastFree[ask[r].date][s]

\* The history of a seat that is free runs up to now.
FreeInv ==
  \A d \in Performance, s \in Seat :
    /\ lastFree[d][s] <= now
    /\ s \in free[d] => lastFree[d][s] = now

\* A list that is there has not expired yet.
ExpiryInv ==
  \A d \in Date : expireAt[d] # 0 =>
    seats[d] # {} /\ now < expireAt[d] /\ expireAt[d] <= now + Ttl

\* Who fills a list saw it empty, so each field was stored after that.
ListInv ==
  \A d \in Performance : \A s \in seats[d] :
    /\ asOf[d][s] <= lastFree[d][s]
    /\ \A r \in Reader : Fills(r, d) => began[r] <= asOf[d][s] + CallBound
    /\ expireAt[d] # 0 => expireAt[d] <= asOf[d][s] + 2 * CallBound + Ttl

IInv == TypeOK /\ ExistInv /\ FreeInv /\ CallInv /\ ExpiryInv /\ ListInv /\ AnswersExist
=============================================================================
