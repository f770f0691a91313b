# ConcertService in TLA+

ConcertService sells concert seats: a user takes a token in a waiting queue, an
active token lets the user hold a seat for five minutes, and a payment from the
user's balance turns the hold into a reservation. The server is NestJS with
TypeORM on MySQL, Redis caches and a Kafka producer; several instances may run
against one database (`src/step6.md:5`). All state that matters is in MySQL, and
every handler is a chain of awaits between which other handlers, other instances
and the cron jobs run. These modules model those chains.

## Inventory

| Part | State | Operations | Interacts with |
| --- | --- | --- | --- |
| Seats (`concert.service.ts`, `seat.repository.impl.ts`, `seat.entity.ts`) | rows `seat`: status, userId, expire, version | four ways to reserve: row lock, version, version behind caches, conditional UPDATE | guard, caches, sweep, payments |
| Seat sweep (`scheduler.service.ts`, `seatscheduler.repository.ts`) | none of its own; a list of ids between find and update | every minute: find TEMP rows five minutes past their expiry, reset them by id | seats |
| Payments (`payment.service.ts`) | rows `payment`, `reservation` | two ways to pay: `processPayment` (routed) and `processPaymentWithOptimisticLock` | seats, balances, queue, Kafka, outbox |
| Balances (`user.service.ts`, `user.repository.impl.ts`) | rows `user`: balance, version | three ways to charge (the optimistic one is routed), read, and the debits of payments | payments |
| Waiting queue (`queue.service.ts`, `queue.repository.impl.ts`) | rows `queue`: order, UUID, status, createdtime, activatedtime | issue a token, ask one's position | guard, queue scheduler, payments |
| Token guard (`token-state.guard.ts`) | none | lets a call through if its token is ACTIVE when asked | all concert and payment routes |
| Queue scheduler (`scheduler.service.ts`, `queuescheduler.repository.ts`) | none of its own | every minute: activate the 50 oldest, expire those active for five minutes | queue |
| Outbox and Kafka producer (`outbox.repository.ts`, `kafka-producer.ts`, `processOutboxMessages`) | rows `outbox`; connected flag | send inside the payment, else store; resend every ten seconds | payments |
| Caches (`concert.service.ts`, Redis) | a hash of free seats, a hash and a string per performance | refill on a miss, expiry of one second or a day | seats, reservations |
| Connection pool (`database.config.ts`) | 20 connections | taken by every statement and held by every transaction | everything |
| Kafka consumer, uncached reads, HTTP layer, data initializer | none, or initial rows | log; read; route; seed | |

What makes each part correct, and what makes it hard:

* Seats: a hold is exclusive and lasts as promised; a sold seat stays with its
  buyer; a seat is sold once and with a reservation; an unpaid hold is released.
  Hard because four writers take different precautions (lock, version, status
  filter, id only), payments judge a snapshot, and the sweep writes by id.
* Balances: no overdraft by a payment, no lost charge, a conflict only when somebody
  else won.
  Hard because reads and absolute writes are apart.
* Queue: first come first served, access ends and does not come back, everybody
  gets a turn. Hard because find and update are apart in both jobs and three
  clocks (process, database, commit order) decide the order.
* Payments: money, seat and reservation change together or not at all. Hard
  because one of the two variants writes two tables outside its transaction.
* Outbox: the order of a committed payment is announced at least once, and again
  only for a reason. Hard because the message leaves before the commit, the outbox
  row is saved on another connection, and runs of the job overlap.
* Caches: what is listed was true not long ago, a list expires, nothing is made
  up. Hard because hashes are filled field by field by several calls at once and
  get their expiry last.
* Pool: no set of calls waits for each other for ever. Here it can happen; what
  matters is that nothing else stops the system.

`PROJECT.json` lists the hazards one by one at their lines.

## Modules

| Module | What it is |
| --- | --- |
| `Seats` | the seat table with reservation requests, payments (seat side) and the sweep |
| `SeatLife` | abstract: free, held, sold; what `Seats` promises |
| `MCSeats` | `Seats` for TLC: the symmetry of interchangeable calls |
| `SeatsProofs` | theorems about `Seats` |
| `Accounts` | the user table with charges and payments (money side) |
| `MCAccounts` | `Accounts` for TLC: amounts of either sign |
| `Ledger` | abstract: balances and entries, each posted at most once; what `Accounts` promises |
| `AccountsProofs` | theorems about `Accounts` |
| `Booking` | whole payments: `Seats` and an instance of `Accounts` under one `PaymentService` |
| `BookingProofs` | theorems about `Booking`, citing those of `SeatsProofs` and `AccountsProofs` |
| `Orders` | the order message of a routed payment: Kafka, outbox, `processOutboxMessages`, the connection pool |
| `Delivery` | abstract: orders announced, owed and settled; what `Orders` promises |
| `OrdersProofs` | theorems about `Orders` |
| `Caches` | the two Redis hashes and the cached queries |
| `MCCaches` | `Caches` for TLC: the symmetry of seats and of calls |
| `CachesProofs` | theorems about `Caches` |
| `WaitingQueue` | the queue table with token issue, both jobs, the guard and payments (token side) |
| `Turns` | abstract: a queue that lets in `Limit` at a time; what `WaitingQueue` promises |
| `WaitingQueueProofs` | theorems about `WaitingQueue` |

### Conventions

A row in a variable is the *committed* row. A transaction's own writes take
effect at its commit action; from its locking read or UPDATE until then it owns
the row's lock (`rowLock`, `userLock`), and UPDATEs and locking reads of others
wait for it. A plain SELECT never waits. In a transaction the first plain SELECT
opens the snapshot all later ones see (InnoDB, REPEATABLE READ). A statement that
goes through a repository without the transaction's manager runs on another
connection and commits at once. TypeORM adds `version = version + 1` to each
UPDATE of an entity with a `@VersionColumn`, query builders included, and
`affected` counts matched rows. Everything after an await is a step of its own
unless what lies between cannot be told apart from outside. MySQL, TypeORM,
Redis and Kafka are not under `src/`; they are modelled as the code uses them.

Every unfinished call may fail at any step (a database error, a lock wait
timeout, a crash of its process): its transaction rolls back and frees its locks,
and what was committed on other connections stays. A crash of the server is the
failure of all its calls and runs; the rows survive. (With `dropSchema: true` in
`database.config.ts:23`, marked as for tests, they would not.)

### Seats

* `seat[s]` is the row; `expire = 0` is NULL. `reservation` is the table.
  `ask`/`buy` are the arguments of calls, chosen once in `Init`; the performance
  and number of a seat together are its identity. `reserveSeat` passes the seat
  number where a seat id is expected (`concert.service.ts:199`), so for it the
  seat in `ask` is the row it hits, not the one the user meant.
* Reservation: `LockSeat`, `StampExpire`, `CommitHold` are
  `reserveSeatWithPessimisticLock` (route `reserve-seat`); `ReadSeat`,
  `StampExpire`, `UpdateByVersion` are `reserveSeatWithOptimisticLock` and, in the
  other order (time first, then read), `...WithCache` (route
  `reserve-seat-cache`); `StampExpire`, `UpdateUnchecked` are `reserveSeat`. That
  variant answers success whether or not its UPDATE matched the row: `"ok"` and
  `"missed"` are the two, both in `Succeeded`.
* Payment: `OpenSnapshot`, `FindHold`, `WriteReserved`, `CommitPayment` are
  `processPayment` (the only routed one); `FindHold`, `UpdateDone`,
  `CommitPayment` are `processPaymentWithOptimisticLock`.
* Sweep: `SweepFind`, `SweepReset`, `SweepFail`. The UPDATE of several rows locks them
  one by one; it is one step here, since no one sees its writes before it has them all.
  What it owns meanwhile matters to who waits for whom: `MayOwnSeat` in `Booking`.
* `Tick` is time. Its guard is the one timing assumption: a payment that found
  its hold ends within `TxnBound <= Grace` (five minutes). InnoDB gives up a lock
  wait after 50 seconds and the producer's retries end well below five minutes,
  but the code has no deadline of its own, so this is assumed and named
  (`TimingAssumption`), not derived.

### Accounts

* `account[u]` is the row, `order[c]` a call's user, amount and method,
  `readBalance`/`readVersion` what it read.
* Charges: `ReadAccount`, `UpdateBalance` are `chargeBalanceWithOptimisticLock`
  (the routed one); `LockAccount`, `CommitCharge` are
  `chargeBalanceWithPessimisticLock` and `chargeBalance`, whose UPDATE of
  `balance + amount` takes the same lock.
* Payments: `ReadFunds` is the read of the user and the check against the price
  (what lies between does not touch the table); `LockFunds`, `CommitDebit` are
  `updateBalance` and the commit of `processPayment`; `UpdateFunds` is the
  versioned UPDATE of the other variant, which commits at once; whether it matched
  a row (`taken`) or not (`skipped`) that payment does not notice.
* Amounts may be of either sign. `chargeBalance` refuses those that are not positive
  (`user.service.ts:27`); the routed charge and the third variant take what the request
  holds (the DTO has no validators, no pipe is registered). Prices are those of stored
  performances and not negative.

### Booking

* Extends `Seats` and instantiates `Accounts` as `Money`, with `Payment` for its
  `Debit`; `moneyPc` and `fundsVersion` are its `pc` and `readVersion`. `SameCall`
  says that `buy[p]` and `order[p]` are the arguments of one call.
* A payment is the conjunction of its two sides in the order of the source.
  Routed: `BeginPayment` (user and snapshot), `LookForHold`, `WriteSeat` (after the
  check against the price), `WriteBalance`, `Commit`, which commits both rows and
  the reservation at once. Versioned: `BeginPayment` (the user, on another
  connection), `LookForHold`, `TakeMoney` (committed at once), `SellByVersion`
  (committed at once), `Commit` (the reservation). `FailBooking` is every exception:
  it rolls back what the transaction wrote and nothing else.
* In `Accounts` alone a payment is judged on its balance when it reads it; here the
  verdict waits in `moneyPc = "rejected"` until the hold was found, as in the code.
* Charges, reservations, the sweep and the clock are those of the two modules.
* `exhausted` is a pool from which nobody will get a connection any more; how it comes
  to that is in `Orders`. It may happen at any time (`Exhaust`): the pool serves every
  endpoint. `OwnConnection` says which steps run on a connection the transaction has
  already; all others may then wait for ever.

### Orders

* `payPc` follows a routed payment: `begun` (in its transaction), `looked` (the
  performance found), `written` (rows locked), `sent` or `unsent`, `stored`,
  `done` or `failed`. `outbox[p]` is its row, `copies[p]` how often its message is
  on the topic, `troubles[p]` counts what was done and not acknowledged.
* `SendOrder` and `Resend`/`ResendFails` are `kafkaProducer.send`; a send that
  throws may or may not have arrived. `SaveOutbox` is the catch clause.
* `FindMessages`, `Resend`, `ResendFails`, `Mark`, `MarkFails` are
  `processOutboxMessages`; `batch[j]` is its list, `marking[j]` the message between
  send and mark.
* `Connected` are the connections of the pool that transactions hold.
  `getPerformanceByConcertAndDate` (not given the manager) and `saveOutboxMessage`
  need one more for a moment (`ConnectionFree`). The pool has no acquire timeout, so
  a statement that waits for a connection cannot fail. Payments are of one buyer, so
  they exclude each other from the first row written (`RowsFree`); a wait for rows
  may time out (`Fail`).

### Caches

* `dates` are the fields of `performances:<concert>`, `seats[d]` those of
  `concert:<concert>:date:<d>:seats`, `expireAt` the latter's expiry. The former has
  none: `hset(key, field, value, 'EX', 86400)` stores `EX` as one more field, which
  the comparison of dates drops.
* `LookUpDates`, `QueryDates`, `StoreDate`, `AnswerDates` are
  `getAvailableDatesWithCache`. `LookUpSeats`, `LookUpPerformance`,
  `QueryPerformance`, `StorePerformance`, `QuerySeats`, `StoreSeat`, `SetExpiry` are
  `getAvailableSeatsWithCache` with `getPerformanceWithCache` inside.
* `ChangeSeat` is any reservation or sweep: neither touches Redis (the `hdel` at
  `concert.service.ts:339` is commented out).
* `lastFree` and `asOf` are histories, for saying how old a listed seat is.
* `CallBound` bounds a call, as `TxnBound` does a payment: assumed, named, and part
  of what is promised (`2 * CallBound + Ttl`).

### WaitingQueue

* `row`, `status`, `activated` are the columns; `status` is `"none"` until the
  issuing transaction commits. `number` is the queue number in the token.
  `earlier` is a history variable for stating first come, first served.
* `StampToken` (the process's clock), `InsertToken` (the auto-increment),
  `NumberToken` (the position query), `CommitToken` are `issueToken`.
* `FindWaiting`, `StampActivation`, `ActivateTokens` are `activateQueueTokens`;
  `FindExpired`, `ExpireTokens` are `expireOldActiveTokens`; `FailRun` is their
  catch.
* `Admit` is the guard in front of a payment; `CommitPayment` is
  `updateTokenState(uuid, 'EXPIRE')` taking effect. Other calls with a token do not
  write to the queue.
* `Init` is the seeded table of `data-initializer.service.ts`: some tokens
  ACTIVE, the others not yet issued.

## Runs

| Run | Instance | What it shows |
| --- | --- | --- |
| `seats_safety` | 1 seat, 2 users, 2 requests (all four variants), 1 payment (both), 1 sweep, clock 0..4 | `HoldHonoured`, `OneHolder` (counting the success without a hold), `ReservationBacked`, `VersionGuardsStatus`, `SoldStaysSold`, refinement of `SeatLife`, and `IInv`, the inductive invariant of the proofs |
| `seats_two_sweeps` | 2 requests, 2 sweeps | **violation**: the second sweep frees a hold made after the first |
| `seats_double_pay` | 1 hold, 2 routed payments | **violation**: both commit, two reservations of one seat |
| `accounts` | 1 user, 2 charges (all three variants), 2 payments (both), opening balance 0 or 1, charges of -1 and 1, price 1 | `ConflictMeansProgress`, `LossNeedsOvertaking`, `OnlyNegativeChargesOverdraw`, refinement of `Ledger`, `IInv` |
| `accounts_lost_charge` | 1 charge, 1 routed payment | **violation**: the payment overwrites the charge |
| `queue` | 2 tokens, activation limit 1, one run of each job at a time, clock 0..3 | `FirstComeFirstServed`, `ExpireIsFinal`, `ExpiredForCause`, `EveryTokenActivated`, `EveryTokenExpires`, refinement of `Turns`, `IInv` |
| `queue_position` | 2 tokens | **violation**: a waiting caller is counted into its own position |
| `booking` | 1 seat, 1 user, 1 request, 2 payments (both variants), 1 charge, 1 sweep, opening balance 1, clock 0..3, a pool that may be exhausted | `AllOrNothing`, `UnpaidSaleHasCause`, `SoldOnceByVersion`, `NoWaitCycle`, `LocksHaveOwners`; `ExpiredHoldReleased`, `LocksReleased` under fairness |
| `booking_half_paid` | 1 hold, 1 payment (both variants) | **violation**: the versioned payment fails after taking the money |
| `orders` | 3 payments, a pool of 3, 1 run of the job, counters up to 2 | `OrderSafe`, `ProcessedWasSent`, `NoNeedlessCopy`, refinement of `Delivery`, `IInv`; `AnsweredUnlessExhausted`, `EveryOrderAnnounced` under fairness. Deadlock is not checked: the pool really can exhaust itself |
| `caches` | 2 calls of either query, 2 dates of which 1 exists, 2 seats, `Ttl = CallBound = 1`, clock 0..5 | `ListedWasFree`, `OrphanedByFailure`, `AnswersExist`, `IInv` |
| `caches_missing_dates` | 2 existing dates | **violation**: a query from the second date fills the hash with that one only |

Bounds. `MaxTime` caps the clock; `Hold = Grace = 1` keep the two "five minutes"
equal, and a clock of 4 lets a hold be made, run out, be swept and be made again.
One seat suffices because no statement relates two seats except the sweep's, which
writes each row by itself; one user row likewise. Two requests and one payment (or
one and two) are the pairs the races are about. Two requests on one row, hold,
sweep and hold again, exercise the version check against a row that is free once
more. `Limit = 1` with two tokens makes one token wait for another, which
50 does with 51. A price of 1 against an opening balance of 0 or 1 makes both a
sufficient and an insufficient balance occur, and two debits compete for the last
coin; a charge of -1 overdraws an empty account, and one of 1 does not. In `booking` two payments meet at one hold and one balance, which covers both
variants against each other and against themselves; the charge is the third party
that makes a version stale. Its clock of 3 is the least at which a hold can be made,
run out and be swept; a second hold is the matter of `seats_safety`. In `orders` a pool of three has
room for three parties: a payment that waits for its second connection, one that waits
for the rows the first has locked, and one more that keeps the pool full; the lock
wait times out and the others go on. Three that all ask for more exhaust it the way
twenty exhaust one of twenty. `MaxCount = 2` is one copy more than one run can make
without trouble; that overlapping runs do no more harm is left to the theorems, which
allow any number of them. In `caches`
two calls suffice for one to fill what the other's list has left, one date with a
performance and one without tell the cached from the made up, and a clock of 5 lets a
list be filled, expire and be filled again by a call that began before. The theorems
hold without these bounds.

Fairness. `Seats` and `Accounts` state none: what must happen in the end is said of
whole payments, in `Booking`. There handlers and transactions are weakly fair as long as
they are served: Node runs every continuation, MySQL answers, and a wait for a row ends
with the row or with InnoDB's lock wait timeout (a failure). A step that needs a
connection its transaction does not have is fair only while the pool is not
`exhausted`: the pool sets no time limit (`database.config.ts:25-27`). So a routed
payment that has written both rows may keep them for ever, when the send fails and
`saveOutboxMessage` (`payment.service.ts:135`) gets no connection (`AwaitsOutbox`), and
`LocksReleased` excepts it and nothing else; the sweep needs a connection too, so
`ExpiredHoldReleased` holds unless the pool is exhausted. As long as a payment is kept
like that the bounded clock stands still, by `TimingAssumption`; nothing is claimed of
such behaviours but what is said here.

Finding and resetting (sweep), stamping, activating and expiring (queue jobs) are
strongly fair: a step that a row lock or a failed run disables again and again succeeds
in some later run, since cron fires every minute for ever; without it one could assume
that the job fails for ever. The queue's liveness takes the pool to serve its jobs. Calls
of users have no fairness of being made, and failing is always allowed. In `Orders`
finding, sending and marking are strongly fair per message: the job runs every ten
seconds for ever, and the broker and the database are taken to accept what is offered
again and again; sending inside a payment is not, it may always fail. Stuttering for
ever is possible only in `Finished`, when all calls are answered and the bounded clock
has run out, and where a pool is exhausted.

## Findings

* `seats_two_sweeps`: the sweep writes by id. Cron does not wait for the previous
  run, and each instance has its own cron. The theorems about holds and sales assume
  one run at a time (`SingleSweep`), and this is why; what protects reservations and
  versioned payments from each other does not need it (`VersionsGuard`, `HoldSells`).
* `seats_double_pay`: `updateSeatStatus` does not look at what the row holds.
  The test that allows only one payment per seat runs the other variant, once.
* `booking_half_paid`: `userRepository.update` and `seatRepository.update` are not
  part of the transaction that is rolled back. For the same reason two versioned
  payments of one hold can both take their money, and one of them then fails at the
  seat (`src/Step11.md:104` asks that this does not happen): the loser's money is
  gone without a trace, which is the violation the run shows.
* `accounts_lost_charge`: `updateBalance` writes an absolute value computed from
  an unlocked read. `LossNeedsOvertaking` says that this is the only way an update is
  lost.
* `queue_position`: `OR` and `AND` without brackets.
* `caches_missing_dates`: any field counts as a hit, whoever stored it. With
  `Step13.md` promising the whole list and a day's expiry, the hash in fact keeps what
  the first caller asked for until Redis is emptied.

Three more disagreements have no run of their own:

* `reserveSeat` answers success without looking at its UPDATE
  (`concert.service.ts:199-214`), while `src/Step11.md:13` asks that one of many
  requests for a seat succeeds. `OneHolder` says precisely what is left of that: one
  hold, and successes without one through this variant only.
* The routed charge takes amounts below zero (`user.service.ts:68-102`), which
  `chargeBalance` refuses ("충전 금액이 음수이거나 0일 수 없습니다", the amount may not
  be negative or zero, `user.service.ts:28`). `OnlyNegativeChargesOverdraw` says that
  this is the one way to overdraw an account.
* A reservation does not take its seat out of the seat hash, as `src/Step13.md:66` asks:
  the `hdel` at `concert.service.ts:339` is commented out. `ListedWasFree` bounds how
  long the seat stays listed.

`activateTokens` writes by id like the sweep does: with two overlapping runs of the
activation job `ExpireIsFinal` fails, since the slower run revives a token that a
payment has expired. What the queue's theorems say of access therefore assumes one run
of this job at a time (`SingleActivator`); overlapping runs of the expiry job do no
harm. The order of the queue survives overlapping runs of both jobs (`FirstServed`).

Twenty routed payments that begin at once hold all connections of the pool and each
ask for one more: nobody gets one. `AnsweredUnlessExhausted` says that this is the one
way to get stuck.

## Proofs

Checked by `tlapm`; nothing is assumed but the named assumptions of the modules.

`SeatsProofs` proves, for any sets of seats, users and calls, any `Hold`, `Grace` and
`TxnBound <= Grace`: with a single sweep run `Inductive` (`Spec => []IInv`),
`HoldsAreKept`, `OneWinner`, `ReservationsBacked`, `SoldSeatsStaySold`,
`VersionSellsOnce` and `SeatsImplementLife`; with any number of overlapping runs
`TypeCorrect`, `VersionsGuard` and `HoldSells`.
`HoldHonoured` is not inductive: that a granted hold is not overwritten needs that
a lock holder's row is still free (`LockInv`), that an unchanged version means an
unchanged free row (`VersionInv`), that what the sweep found stays due until it
resets it (`SweepInv`, where the single sweep is used) and that a payment that
goes on writes to its own user's seat (`FoundInv`, where `TimingAssumption` is
used, on top of `SnapshotInv`, which says how far a snapshot can be trusted).
`OneHolder` (`OneWinner`) counts every answer of success: it follows from granting only
free seats while earlier holds are honoured, and from `ModesInv`, by which only the
unchecked variant ends in `"missed"`. Most steps leave a row alone or turn it into one of three others
(`RowTaken`, `RowBought`, `RowFreed`); the lemma `RowStep` establishes this once
and the other lemmas argue from it instead of from the actions. `VersionSellsOnce`
adds that a versioned payment past its UPDATE has a sold seat (`OnceInv`): the next
one no longer finds it TEMP. `VersionsGuard` needs only the part of the invariant that
no sweep touches (`GuardInv`: locks and versions), `HoldSells` that the version a
payment sold at is in the past (`SaleInv`), since versions only grow.

`AccountsProofs` proves, for any users, calls, opening balances and amounts of either
sign: `Inductive`, `NoOverdraft`, `ProgressBehindConflict`, `LocksAreOwned`,
`LossIsOvertaking` and `AccountsImplementLedger`.
`OnlyNegativeChargesOverdraw` is about a step and needs to know its state: a routed
payment writes what it computed from an old read, so the check against the price must be remembered (`FundsInv`),
a versioned write needs that an equal version means an equal balance
(`VersionPinsBalance`), and a locked charge that nobody else has written
(`LockInv`). The lemma `SettleStep` says once what any step may do: at most one
call settles, it has the row to itself, and all but the routed payment settle the
sum the others left plus their own amount. The refinement is that lemma read in
`Ledger`'s terms; a routed payment's account is mapped to an empty one, since for
it the promise is false (`accounts_lost_charge`). `ProgressBehindConflict` rests on
`CountInv`: a row's version is one more than the number of calls that have updated it,
so a version that has moved on has calls to show for it. `LossIsOvertaking` adds that the
balance a routed payment read is still the row's as long as its version is, also while
the payment owns the row (`PinnedInv`).

`BookingProofs` proves about whole payments, without repeating the proofs of the parts:
each step of `Booking` is a step of `Seats` or a stutter (`SeatsSide`), and likewise of
`Accounts` (`MoneySide`), so their inductive invariants carry over (`SeatsInvariant`,
with a single sweep, and `MoneyInvariant`), and with them `NoBookingOverdraws`,
`BookedOnceByVersion`, `BookingHoldSells` and `BookingLossIsOvertaking`. Stated as
refinements this is `BookingImplementsSeats` and `BookingImplementsAccounts`, and through
them `BookingFollowsLife` and `BookingFollowsLedger`. What only the composition can say is `PaymentsAtomic`
(`AllOrNothing`): it needs that the reservation row marks exactly the payments that
are done on the seat side, and that the routed ones among them are done on the money
side (`TogetherInv`). `LocksOwned` and `NobodyWaitsInCircles` are about the locks of
both tables: a routed payment takes the seat row, then the user row, and every other
call takes one of them, so a call that waits holding a row holds a seat and waits for a
user, whose owner needs nothing more. The sweep locks its rows one by one and may hold
some while it waits for another, but only for a seat and never for a user; two sweeps
lock in the order of the key. The queue table adds no circle: a routed payment writes its
token last, after both rows (and with it owns the whole table, whose UUID column has no
index), and the queue jobs own no seat and no user, and lock in the order of the key.
`UnpaidSalesExplained` reads `CountInv` for the payment that
skipped its debit.

`OrdersProofs` proves, for any payments, runs and pool size: `Inductive`,
`NoOrderLost`, `OnlySentProcessed`, `CopiesHaveCause`, `OrdersImplementDelivery`.
`OrderSafe` needs to know what the stages before
`done` have seen to (`SentInv`), `ProcessedWasSent` that a run marks only what it sent
(`MarkInv`). `NoNeedlessCopy` needs a budget (`CopyInv`): while a message is pending,
each copy without its trouble belongs to a run that has yet to mark it; once it is
processed no run finds it again, and those that still hold it send it once each. As a
run holds a message or marks it and never both, their number bounds the copies. Both
invariants together give the refinement: a run that sends or marks a message another
run has been faster with does nothing `Delivery` could see.

`CachesProofs` proves, for any calls, dates, seats, `Ttl` and `CallBound`: `Inductive`,
`ListsAreFresh`, `OnlyFailuresOrphan`, `OnlyExistingAnswered`. The age of a field is
bounded because who fills a list saw it empty: every field in it was stored after
that, so it is no older than the filler's start less one more call (`ListInv`), the
filler ends within `CallBound` (`CallInv`), and the expiry set at its end adds `Ttl`
(`ExpiryInv`).

`WaitingQueueProofs` proves for any tokens, `Limit`, `Ttl` and overlapping runs of both
jobs `TypeCorrect` and `FirstServed`, and, with `SingleActivator` as a hypothesis,
`Inductive`, `ExpiryIsFinal`, `ExpiryForCause` and `QueueImplementsTurns`. First come
first served rests on `OrderInv`: the order of issue holds inside a batch before the
batch is written (`BatchInOrder`), and a token, once handed out, keeps its time and its
history (`EarlierIssued`). It needs no more of a status than that no token waits again
(`AdvanceStep`), which overlapping runs leave true. The lemma `StatusStep` says how a
status moves, and why, when they do not overlap; it needs that what the activation run
found still waits (`BatchWaits`) and what an expiry run found is still due or was paid
(`BatchDue`). The refinement reads both in the terms of `Turns`, with `BatchFits` for
the limit and the date of a turn.

What only TLC checks: liveness (`ExpiredHoldReleased`, `LocksReleased`,
`EveryTokenActivated`, `EveryTokenExpires`, `AnsweredUnlessExhausted`,
`EveryOrderAnnounced`).

## Plan

1. Done: `Seats`, `Accounts`, `WaitingQueue`, `Booking`, `Orders`, `Caches`, each
   with its proofs.
2. Done: abstract specifications of four of the six (`SeatLife`, `Ledger`, `Turns`,
   `Delivery`), with refinement checked and proved; theorems without `SingleSweep` and
   `SingleActivator` where the code needs neither.
3. The token of a payment in `Booking`: `WaitingQueue` as a third side of the
   transaction, with the guard in front of reservations as well.

## Not modelled

* The Kafka consumer only logs. The uncached queries are single reads.
* The HTTP layer maps routes to methods (stated above where it matters), validates
  nothing the models depend on and keeps no state.
* The string key `performances:<concert>:<date>` of the cached reservation: one call
  writes it, later ones read it, and the performance it holds never changes.
* A restart of the server: every call in flight fails, which the models allow at any
  moment; `dropSchema: true` would empty the database with it and is marked as for
  tests. What the Kafka producer had accepted stays on the topic.
* The row `fail` of a payment without enough money: the exception that follows rolls
  it back, so it never exists.
* Readers that meet a seat list in the middle of a fill answer part of it; no doc
  promises more, and `ListedWasFree` says what holds of that part.
* Prices, names and formats of dates are data no property is about. Clocks of
  different instances are taken to agree.
