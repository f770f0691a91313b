-------------------------------- MODULE Seats --------------------------------
(***************************************************************************)
(* The seat table and the four kinds of code that write it: reservation    *)
(* requests (four variants of "reserve a seat"), payments (two variants),  *)
(* the minute-by-minute sweep that frees expired holds, and the passing of *)
(* time.  Rows are the committed state of MySQL; a transaction's own       *)
(* writes are applied when it commits, and until then it owns the row lock *)
(* that its locking read or its UPDATE took.                               *)
(***************************************************************************)
EXTENDS Integers

CONSTANTS
  Seat, User,           \* rows of the tables seat and user
  Request, Payment,     \* calls of the reserve and of the payment endpoints
  Sweep,                \* runs of resetExpiredSeats that may be in flight at once
  Null,                 \* SQL NULL, and the owner of a free row lock
  ReserveMode, PayMode, \* the service methods those calls may reach
  Hold, Grace,          \* the two "5 minutes": of a hold, and of the sweep
  TxnBound,             \* the longest time from a payment's seat read to its end
  MaxTime               \* bound on the clock, for model checking

ASSUME ConstantsAssumption ==
  /\ Null \notin Request \cup Payment \cup User
  /\ Request \cap Payment = {}
  /\ ReserveMode \subseteq {"pessimistic", "optimistic", "cached", "legacy"}
  /\ PayMode \subseteq {"routed", "optimistic"}
  /\ Hold \in Nat \ {0}
  /\ Grace \in Nat
  /\ TxnBound \in Nat
  /\ MaxTime \in Nat

\* A payment that found its hold alive ends before the sweep may look at that
\* hold.  Nothing in the code enforces it; the README discusses the timeouts
\* that make it plausible.
ASSUME TimingAssumption == TxnBound <= Grace

VARIABLES
  now,          \* the clock every process reads with new Date()
  seat,         \* committed rows of the table seat
  rowLock,      \* which transaction holds the exclusive lock on a seat row
  reservation,  \* committed rows of the table reservation
  ask,          \* the arguments of each reservation request
  reqPc,        \* how far the request is
  readVersion,  \* the version of the seat it read
  expireTime,   \* the end of the hold it computed
  buy,          \* the arguments of each payment
  payPc,        \* how far the payment is
  view,         \* the seat row as its transaction sees it
  foundAt,      \* when it looked for the hold
  found         \* the seats each run of the sweep found and has yet to reset

database == <<seat, rowLock, reservation>>
requests == <<ask, reqPc, readVersion, expireTime>>
payments == <<buy, payPc, view, foundAt>>
vars == <<now, seat, rowLock, reservation, ask, reqPc, readVersion, expireTime,
          buy, payPc, view, foundAt, found>>

Sold == {"RESERVED", "DONE"}

Row == [status : {"RESERVABLE", "TEMP"} \cup Sold, userId : User \cup {Null},
        expire : Nat, version : Nat]  \* expire 0 stands for NULL

Reservation == [seat : Seat, user : User, payment : Payment]

\* "ok" and "missed" are both answered with success; the first variant's UPDATE
\* matched no row in the second case, which that variant does not look at.
Succeeded == {"ok", "missed"}

ReqPc == {"start", "locked", "read", "stamped", "ready", "rejected", "failed"} \cup Succeeded

PayPc == {"start", "snapshot", "found", "written", "done", "failed"}

TypeOK ==
  /\ now \in Nat
  /\ seat \in [Seat -> Row]
  /\ rowLock \in [Seat -> Request \cup Payment \cup {Null}]
  /\ reservation \subseteq Reservation
  /\ ask \in [Request -> [user : User, seat : Seat, mode : ReserveMode]]
  /\ reqPc \in [Request -> ReqPc]
  /\ readVersion \in [Request -> Nat]
  /\ expireTime \in [Request -> Nat]
  /\ buy \in [Payment -> [user : User, seat : Seat, mode : PayMode]]
  /\ payPc \in [Payment -> PayPc]
  /\ view \in [Payment -> Row]
  /\ foundAt \in [Payment -> Nat]
  /\ found \in [Sweep -> SUBSET Seat]

-----------------------------------------------------------------------------
(* The seats as onModuleInit stores them, and one pending call per id.       *)

InitialSeat == [status |-> "RESERVABLE", userId |-> Null, expire |-> 0, version |-> 1]

Init ==
  /\ now = 0
  /\ seat = [s \in Seat |-> InitialSeat]
  /\ rowLock = [s \in Seat |-> Null]
  /\ reservation = {}
  /\ ask \in [Request -> [user : User, seat : Seat, mode : ReserveMode]]
  /\ reqPc = [r \in Request |-> "start"]
  /\ readVersion = [r \in Request |-> 0]
  /\ expireTime = [r \in Request |-> 0]
  /\ buy \in [Payment -> [user : User, seat : Seat, mode : PayMode]]
  /\ payPc = [p \in Payment |-> "start"]
  /\ view = [p \in Payment |-> InitialSeat]
  /\ foundAt = [p \in Payment |-> 0]
  /\ found = [w \in Sweep |-> {}]

Free(s) == rowLock[s] = Null

Release(owner) == [s \in Seat |-> IF rowLock[s] = owner THEN Null ELSE rowLock[s]]

-----------------------------------------------------------------------------
(* Reservation requests.  Paths through reqPc:                               *)
(*   pessimistic  start -> locked -> ready -> ok                             *)
(*   optimistic   start -> read -> ready -> ok                               *)
(*   cached       start -> stamped -> ready -> ok   (stamps before it reads) *)
(*   legacy       start -> ready -> ok or missed                             *)

AnyStatus(s) == TRUE

\* The status filter of the two seat lookups of a reservation.
Reservable(s) == seat[s].status = "RESERVABLE"

HeldRowUncounted(row, u, e) ==
  [status |-> "TEMP", userId |-> u, expire |-> e, version |-> row.version]

\* The row a hold leaves behind; the @VersionColumn counts every write.
HeldRow(row, u, e) ==
  [status |-> "TEMP", userId |-> u, expire |-> e, version |-> row.version + 1]

\* The token guard, a missing performance or a cache miss ends the call early.
RefuseRequest(r) ==
  /\ reqPc[r] = "start"
  /\ reqPc' = [reqPc EXCEPT ![r] = "rejected"]
  /\ UNCHANGED <<now, database, ask, readVersion, expireTime, payments, found>>

\* SELECT ... FOR UPDATE waits for the row, then sees its latest version.
LockSeat(r) ==
  LET s == ask[r].seat IN
  /\ ask[r].mode = "pessimistic" /\ reqPc[r] = "start"
  /\ Free(s)
  /\ \/ /\ Reservable(s)
        /\ reqPc' = [reqPc EXCEPT ![r] = "locked"]
        /\ rowLock' = [rowLock EXCEPT ![s] = r]
     \/ /\ ~Reservable(s)
        /\ reqPc' = [reqPc EXCEPT ![r] = "rejected"]
        /\ UNCHANGED rowLock
  /\ UNCHANGED <<now, seat, reservation, ask, readVersion, expireTime, payments, found>>

\* A plain SELECT: no lock, and it never waits.
ReadSeat(r) ==
  LET s == ask[r].seat IN
  /\ \/ ask[r].mode = "optimistic" /\ reqPc[r] = "start"
     \/ ask[r].mode = "cached" /\ reqPc[r] = "stamped"
  /\ \/ /\ Reservable(s)
        /\ reqPc' = [reqPc EXCEPT ![r] = IF ask[r].mode = "cached" THEN "ready" ELSE "read"]
        /\ readVersion' = [readVersion EXCEPT ![r] = seat[s].version]
     \/ /\ ~Reservable(s)
        /\ reqPc' = [reqPc EXCEPT ![r] = "rejected"]
        /\ UNCHANGED readVersion
  /\ UNCHANGED <<now, database, ask, expireTime, payments, found>>

\* expireTime = now + 5 minutes, computed between two awaits.
StampExpire(r) ==
  /\ \/ reqPc[r] \in {"locked", "read"}
     \/ reqPc[r] = "start" /\ ask[r].mode \in {"cached", "legacy"}
  /\ reqPc' = [reqPc EXCEPT ![r] = IF ask[r].mode = "cached" THEN "stamped" ELSE "ready"]
  /\ expireTime' = [expireTime EXCEPT ![r] = now + Hold]
  /\ UNCHANGED <<now, database, ask, readVersion, payments, found>>

\* manager.save(seat) and the commit that makes it visible and frees the row.
CommitHold(r) ==
  LET s == ask[r].seat IN
  /\ ask[r].mode = "pessimistic" /\ reqPc[r] = "ready"
  /\ seat' = [seat EXCEPT ![s] = HeldRow(seat[s], ask[r].user, expireTime[r])]
  /\ rowLock' = Release(r)
  /\ reqPc' = [reqPc EXCEPT ![r] = "ok"]
  /\ UNCHANGED <<now, reservation, ask, readVersion, expireTime, payments, found>>

AnyVersion(r) == TRUE

\* WHERE seatid = ... AND version = ... of the optimistic update.
VersionUnchanged(r) == seat[ask[r].seat].version = readVersion[r]

\* One autocommitted UPDATE, then a SELECT of the row whose failure makes the
\* caller see an error although the hold is in place.
UpdateByVersion(r) ==
  LET s == ask[r].seat IN
  /\ ask[r].mode \in {"optimistic", "cached"} /\ reqPc[r] = "ready"
  /\ Free(s)
  /\ \/ /\ VersionUnchanged(r)
        /\ seat' = [seat EXCEPT ![s] = HeldRow(seat[s], ask[r].user, expireTime[r])]
        /\ \E answer \in {"ok", "failed"} : reqPc' = [reqPc EXCEPT ![r] = answer]
     \/ /\ ~VersionUnchanged(r)
        /\ reqPc' = [reqPc EXCEPT ![r] = "rejected"]
        /\ UNCHANGED seat
  /\ UNCHANGED <<now, rowLock, reservation, ask, readVersion, expireTime, payments, found>>

\* The first variant: a conditional UPDATE whose result nobody looks at.  The
\* call reports success whether or not it matched the row.
UpdateUnchecked(r) ==
  LET s == ask[r].seat IN
  /\ ask[r].mode = "legacy" /\ reqPc[r] = "ready"
  /\ Free(s)
  /\ \/ /\ Reservable(s)
        /\ seat' = [seat EXCEPT ![s] = HeldRow(seat[s], ask[r].user, expireTime[r])]
        /\ reqPc' = [reqPc EXCEPT ![r] = "ok"]
     \/ /\ ~Reservable(s)
        /\ reqPc' = [reqPc EXCEPT ![r] = "missed"]
        /\ UNCHANGED seat
  /\ UNCHANGED <<now, rowLock, reservation, ask, readVersion, expireTime, payments, found>>

\* A database error or a lock wait timeout; the transaction, if any, rolls back.
FailRequest(r) ==
  /\ reqPc[r] \in {"start", "locked", "read", "stamped", "ready"}
  /\ reqPc' = [reqPc EXCEPT ![r] = "failed"]
  /\ rowLock' = Release(r)
  /\ UNCHANGED <<now, seat, reservation, ask, readVersion, expireTime, payments, found>>

Reserve(r) ==
  \/ RefuseRequest(r) \/ LockSeat(r) \/ ReadSeat(r) \/ StampExpire(r)
  \/ CommitHold(r) \/ UpdateByVersion(r) \/ UpdateUnchecked(r) \/ FailRequest(r)

-----------------------------------------------------------------------------
(* Payments, seat side.  Paths through payPc:                                *)
(*   routed      start -> snapshot -> found -> written -> done               *)
(*   optimistic  start -> found -> written -> done                           *)

\* Reading the user inside the transaction fixes the snapshot that the later
\* seat query will see.
OpenSnapshot(p) ==
  /\ buy[p].mode = "routed" /\ payPc[p] = "start"
  /\ payPc' = [payPc EXCEPT ![p] = "snapshot"]
  /\ view' = [view EXCEPT ![p] = seat[buy[p].seat]]
  /\ UNCHANGED <<now, database, requests, buy, foundAt, found>>

\* WHERE userId = ... AND status = 'TEMP' AND expire > :currentTime
HeldBy(row, u) == row.status = "TEMP" /\ row.userId = u /\ row.expire > now

\* getTempReservedSeat: in the snapshot if the transaction has one, otherwise
\* it is the transaction's first read.
FindHold(p) ==
  LET row == IF buy[p].mode = "routed" THEN view[p] ELSE seat[buy[p].seat] IN
  /\ payPc[p] = IF buy[p].mode = "routed" THEN "snapshot" ELSE "start"
  /\ payPc' = [payPc EXCEPT ![p] = IF HeldBy(row, buy[p].user) THEN "found" ELSE "failed"]
  /\ view' = [view EXCEPT ![p] = row]
  /\ foundAt' = [foundAt EXCEPT ![p] = now]
  /\ UNCHANGED <<now, database, requests, buy, found>>

\* updateSeatStatus(seatid, 'RESERVED'): by id alone, inside the transaction.
WriteReserved(p) ==
  LET s == buy[p].seat IN
  /\ buy[p].mode = "routed" /\ payPc[p] = "found"
  /\ Free(s)
  /\ rowLock' = [rowLock EXCEPT ![s] = p]
  /\ payPc' = [payPc EXCEPT ![p] = "written"]
  /\ UNCHANGED <<now, seat, reservation, requests, buy, view, foundAt, found>>

\* Only the status changes, and the version as with every write.
SoldRow(row, status) ==
  [status |-> status, userId |-> row.userId, expire |-> row.expire, version |-> row.version + 1]

HoldUnchecked(p) == TRUE

\* WHERE userId AND seatid AND status = 'TEMP' AND version of the second variant.
HoldUnchanged(p) ==
  LET row == seat[buy[p].seat] IN
  /\ row.status = "TEMP"
  /\ row.userId = view[p].userId
  /\ row.version = view[p].version

\* The second variant's UPDATE goes through the repository, not the manager:
\* another connection, committed at once.
UpdateDone(p) ==
  LET s == buy[p].seat IN
  /\ buy[p].mode = "optimistic" /\ payPc[p] = "found"
  /\ Free(s)
  /\ \/ /\ HoldUnchanged(p)
        /\ seat' = [seat EXCEPT ![s] = SoldRow(seat[s], "DONE")]
        /\ payPc' = [payPc EXCEPT ![p] = "written"]
     \/ /\ ~HoldUnchanged(p)
        /\ payPc' = [payPc EXCEPT ![p] = "failed"]
        /\ UNCHANGED seat
  /\ UNCHANGED <<now, rowLock, reservation, requests, buy, view, foundAt, found>>

\* The transaction commits: the routed variant's seat row, and in both variants
\* the reservation row.
CommitPayment(p) ==
  LET s == buy[p].seat IN
  /\ payPc[p] = "written"
  /\ seat' = IF buy[p].mode = "routed"
               THEN [seat EXCEPT ![s] = SoldRow(seat[s], "RESERVED")]
               ELSE seat
  /\ rowLock' = Release(p)
  /\ reservation' = reservation \cup {[seat |-> s, user |-> buy[p].user, payment |-> p]}
  /\ payPc' = [payPc EXCEPT ![p] = "done"]
  /\ UNCHANGED <<now, requests, buy, view, foundAt, found>>

FailPaymentKeepingLock(p) ==
  /\ payPc[p] \in {"start", "snapshot", "found", "written"}
  /\ payPc' = [payPc EXCEPT ![p] = "failed"]
  /\ UNCHANGED <<now, database, requests, buy, view, foundAt, found>>

\* Unknown user or performance, too little money, an error of a later statement:
\* the transaction rolls back and frees its lock.  What the second variant
\* wrote on the other connection stays.
FailPayment(p) ==
  /\ payPc[p] \in {"start", "snapshot", "found", "written"}
  /\ payPc' = [payPc EXCEPT ![p] = "failed"]
  /\ rowLock' = Release(p)
  /\ UNCHANGED <<now, seat, reservation, requests, buy, view, foundAt, found>>

Pay(p) ==
  \/ OpenSnapshot(p) \/ FindHold(p) \/ WriteReserved(p) \/ UpdateDone(p)
  \/ CommitPayment(p) \/ FailPayment(p)

-----------------------------------------------------------------------------
(* The sweep: resetExpiredSeats, every minute.  cron does not await the      *)
(* previous run, and every server instance runs its own.                     *)

DueAtOnce(s) == seat[s].status = "TEMP" /\ seat[s].expire <= now

DueAnyStatus(s) == seat[s].expire # 0 /\ seat[s].expire + Grace < now

\* status = 'TEMP' AND expire < now - 5 minutes
SweepDue(s) == seat[s].status = "TEMP" /\ seat[s].expire + Grace < now

\* An empty result ends the run.
SweepFind(w) ==
  LET due == {s \in Seat : SweepDue(s)} IN
  /\ found[w] = {}
  /\ due # {}
  /\ found' = [found EXCEPT ![w] = due]
  /\ UNCHANGED <<now, database, requests, payments>>

\* status and expire are reset, userId is not; the version counts this write too.
ResetRow(row) ==
  [status |-> "RESERVABLE", userId |-> row.userId, expire |-> 0, version |-> row.version + 1]

\* UPDATE ... WHERE seatid IN (ids), whatever those rows hold by now.  It takes its
\* row locks one by one in the order of the key, and nobody sees what it wrote before
\* it has them all and commits: one step, when all its rows are free.  Rows it already
\* owns while it waits for another only make others wait longer (WaitsFor in Booking).
SweepReset(w) ==
  /\ found[w] # {}
  /\ \A s \in found[w] : Free(s)
  /\ seat' = [s \in Seat |-> IF s \in found[w] THEN ResetRow(seat[s]) ELSE seat[s]]
  /\ found' = [found EXCEPT ![w] = {}]
  /\ UNCHANGED <<now, rowLock, reservation, requests, payments>>

\* Errors are caught and logged; the next run starts over.
SweepFail(w) ==
  /\ found[w] # {}
  /\ found' = [found EXCEPT ![w] = {}]
  /\ UNCHANGED <<now, database, requests, payments>>

-----------------------------------------------------------------------------
\* The clock advances, but no payment outlives TxnBound.
Tick ==
  /\ now < MaxTime
  /\ \A p \in Payment : payPc[p] \in {"found", "written"} => now < foundAt[p] + TxnBound
  /\ now' = now + 1
  /\ UNCHANGED <<database, requests, payments, found>>

\* All calls answered and the clock at its bound: only then may nothing happen.
Finished ==
  /\ now = MaxTime
  /\ \A r \in Request : reqPc[r] \in Succeeded \cup {"rejected", "failed"}
  /\ \A p \in Payment : payPc[p] \in {"done", "failed"}
  /\ UNCHANGED vars

Next ==
  \/ \E r \in Request : Reserve(r)
  \/ \E p \in Payment : Pay(p)
  \/ \E w \in Sweep : SweepFind(w) \/ SweepReset(w) \/ SweepFail(w)
  \/ Tick
  \/ Finished

\* No fairness: what must happen in the end is said in Booking, of whole payments.
Spec == Init /\ [][Next]_vars

-----------------------------------------------------------------------------
(* Properties                                                                *)

IsSold(s) == seat[s].status \in Sold

\* A request, of any variant, that put its hold in place and said so.
Granted(r) == reqPc[r] = "ok"

Unexpired(r) == now <= expireTime[r] + Grace

\* A hold that was put in place and answered with success is kept: until its expiry,
\* and the sweep's grace after it, the seat is the caller's, held with the same expiry
\* or sold to the caller (the four reserve methods, resetExpiredSeats).
HoldHonoured ==
  \A r \in Request : Granted(r) /\ Unexpired(r) =>
    LET row == seat[ask[r].seat] IN
    /\ row.userId = ask[r].user
    /\ \/ row.status = "TEMP" /\ row.expire = expireTime[r]
       \/ row.status \in Sold

\* Of the requests for one seat that are answered with success while their holds
\* last, of whatever variants, at most one has its hold; the others all went through
\* the first variant (reserveSeat), which answers success although its UPDATE matched
\* no row.
OneHolder ==
  \A q, r \in Request :
    /\ q # r /\ ask[q].seat = ask[r].seat
    /\ reqPc[q] \in Succeeded /\ reqPc[r] \in Succeeded
    /\ Unexpired(q) /\ Unexpired(r)
    => \E x \in {q, r} : reqPc[x] = "missed" /\ ask[x].mode = "legacy"

\* A reservation row is only ever committed for a seat that is sold, and sold to
\* the user of that row: no sweep or reservation got between the payment's check
\* of the hold and its commit.
ReservationBacked ==
  \A x \in reservation : IsSold(x.seat) /\ seat[x.seat].userId = x.user

\* A seat is paid for at most once.
SoldOnce == \A x, y \in reservation : x.seat = y.seat => x = y

\* Payments that write by version (processPaymentWithOptimisticLock) never sell a
\* seat twice, even when several of them found the same hold.
SoldOnceByVersion ==
  \A x, y \in reservation :
    /\ x.seat = y.seat
    /\ buy[x.payment].mode = "optimistic" /\ buy[y.payment].mode = "optimistic"
    => x = y

\* A payment of the second variant that got its UPDATE through.
Bought(p) == buy[p].mode = "optimistic" /\ payPc[p] \in {"written", "done"}

\* Of the versioned payments that found the same hold of a seat one sells it and the
\* others are refused, even where a slow sweep frees the seat in between.
HoldSoldOnce ==
  \A p, q \in Payment :
    /\ Bought(p) /\ Bought(q)
    /\ buy[p].seat = buy[q].seat /\ view[p].version = view[q].version
    => p = q

\* An optimistic request whose version still matches acts on the very row it
\* read: version equality implies that the seat is still RESERVABLE (no ABA
\* through hold, expiry and sweep).
VersionGuardsStatus ==
  \A r \in Request :
    reqPc[r] \in {"read", "ready"} /\ ask[r].mode \in {"optimistic", "cached"}
      /\ VersionUnchanged(r) => Reservable(ask[r].seat)

\* The doc's reading of a hold: five minutes, counted from the reservation.
HoldKept ==
  \A r \in Request : Granted(r) /\ now < expireTime[r] =>
    seat[ask[r].seat].userId = ask[r].user /\ ~Reservable(ask[r].seat)

\* A seat is sold only together with a reservation row: once no payment of the
\* seat is on its way, a sold seat has one.
SaleRecorded ==
  \A s \in Seat : IsSold(s) =>
    \/ \E x \in reservation : x.seat = s
    \/ \E p \in Payment : buy[p].seat = s /\ payPc[p] = "written"

\* x is between the statement that took the lock of seat s and the end of its transaction.
WorksOnSeat(x, s) ==
  \/ /\ x \in Request /\ ask[x].seat = s /\ ask[x].mode = "pessimistic"
     /\ reqPc[x] \in {"locked", "ready"}
  \/ /\ x \in Payment /\ buy[x].seat = s /\ buy[x].mode = "routed"
     /\ payPc[x] = "written"

\* No seat stays locked by a call that was answered, and no transaction under way
\* has lost its lock.
SeatLocksOwned ==
  \A s \in Seat, x \in Request \cup Payment : rowLock[s] = x <=> WorksOnSeat(x, s)

\* No step takes a sold seat away from its buyer.
SoldStaysSold ==
  [][\A s \in Seat : IsSold(s) => IsSold(s)' /\ seat'[s].userId = seat[s].userId]_vars

-----------------------------------------------------------------------------
(* The seat table implements SeatLife: a row is free, held or sold.          *)

LifeOf(row) ==
  CASE row.status = "RESERVABLE" -> [kind |-> "free", user |-> Null, until |-> 0]
    [] row.status = "TEMP" -> [kind |-> "held", user |-> row.userId, until |-> row.expire]
    [] OTHER -> [kind |-> "sold", user |-> row.userId, until |-> 0]

Life == INSTANCE SeatLife
          WITH Nobody <- Null, life <- [s \in Seat |-> LifeOf(seat[s])]

\* Whatever the interleaving, each seat goes through the life cycle of SeatLife:
\* never from held to held, never freed early, never sold to another user.
SeatsFollowLife == Life!LifeSpec

-----------------------------------------------------------------------------
(* The inductive invariant behind the safety properties.                     *)

\* Which variants pass through which states.
ModesInv ==
  /\ \A r \in Request :
       /\ reqPc[r] = "locked" => ask[r].mode = "pessimistic"
       /\ reqPc[r] = "read" => ask[r].mode = "optimistic"
       /\ reqPc[r] = "stamped" => ask[r].mode = "cached"
       /\ reqPc[r] = "missed" => ask[r].mode = "legacy"
  /\ \A p \in Payment : payPc[p] = "snapshot" => buy[p].mode = "routed"

\* A reservation that read the row with its lock still owns it, and the seat is
\* still free; a payment that wrote the row owns it.
LockInv ==
  /\ \A r \in Request :
       ask[r].mode = "pessimistic" /\ reqPc[r] \in {"locked", "ready"} =>
         rowLock[ask[r].seat] = r /\ Reservable(ask[r].seat)
  /\ \A p \in Payment :
       buy[p].mode = "routed" /\ payPc[p] = "written" => rowLock[buy[p].seat] = p

\* Versions only grow, and an unchanged version means an unchanged, free row.
VersionInv ==
  \A r \in Request :
    ask[r].mode \in {"optimistic", "cached"} /\ reqPc[r] \in {"read", "ready"} =>
      /\ readVersion[r] <= seat[ask[r].seat].version
      /\ VersionUnchanged(r) => Reservable(ask[r].seat)

\* An expiry time was taken in the past.
StampInv ==
  \A r \in Request : reqPc[r] \in {"stamped", "ready"} => expireTime[r] <= now + Hold

\* What the sweep found stays due until it resets it.
SweepInv == \A w \in Sweep : \A s \in found[w] : SweepDue(s)

\* A hold seen in a snapshot is, for as long as the sweep may not touch it, the
\* hold of the committed row, unless the row is sold to the same user by now.
SnapshotInv ==
  \A p \in Payment :
    LET seen == view[p]
        row == seat[buy[p].seat]
    IN  payPc[p] = "snapshot" /\ seen.status = "TEMP" /\ now <= seen.expire + Grace =>
          /\ row.userId = seen.userId
          /\ \/ row.status = "TEMP" /\ row.expire = seen.expire
             \/ row.status \in Sold

\* A payment that found its hold is within its time, and the seat is its user's.
FoundInv ==
  \A p \in Payment :
    LET row == seat[buy[p].seat]
    IN  payPc[p] \in {"found", "written"} =>
          /\ now <= foundAt[p] + TxnBound
          /\ row.userId = buy[p].user
          /\ \/ row.status = "TEMP" /\ row.expire > foundAt[p]
                /\ ~(buy[p].mode = "optimistic" /\ payPc[p] = "written")
             \/ row.status \in Sold

\* One run of resetExpiredSeats at a time, over all server instances.
SingleSweep == \A v, w \in Sweep : v = w

IInv ==
  /\ TypeOK /\ ModesInv /\ LockInv /\ VersionInv /\ StampInv /\ SweepInv
  /\ SnapshotInv /\ FoundInv /\ HoldHonoured /\ OneHolder /\ ReservationBacked
=============================================================================
