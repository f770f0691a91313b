------------------------------- MODULE Accounts -------------------------------
(***************************************************************************)
(* The balances in the table user and the calls that change them: charges  *)
(* (three variants in UserService) and the money side of payments (two     *)
(* variants in PaymentService).  Rows are the committed state of MySQL; a  *)
(* transaction that wrote or locked a row owns its row lock until it ends. *)
(***************************************************************************)
EXTENDS Integers, FiniteSets

CONSTANTS
  User,        \* rows of the table user
  Charge,      \* calls of the charge endpoint
  Debit,       \* payments, as far as they concern the balance
  Null,        \* the owner of a free row lock
  ChargeMode,  \* the service methods a charge may reach
  PayMode,     \* the service methods a payment may reach
  Opening,     \* the balances users may start with
  Amount       \* what a call may charge, below zero too, or a seat may cost

ASSUME AccountsAssumption ==
  /\ Null \notin Charge \cup Debit
  /\ Charge \cap Debit = {}
  /\ ChargeMode \subseteq {"optimistic", "pessimistic", "increment"}
  /\ PayMode \subseteq {"routed", "optimistic"}
  /\ Opening \subseteq Nat
  /\ Amount \subseteq Int

VARIABLES
  account,      \* committed rows of the table user
  userLock,     \* which transaction holds the exclusive lock on a user row
  order,        \* the arguments of each call
  pc,           \* how far the call is
  readBalance,  \* the balance it read
  readVersion   \* and the version that came with it

vars == <<account, userLock, order, pc, readBalance, readVersion>>

Call == Charge \cup Debit

Account == [balance : Int, version : Nat]

\* "taken" and "skipped" are the two outcomes of the unrouted payment's UPDATE:
\* the row matched or it did not, which that payment does not look at.
Answered == {"ok", "conflict", "rejected", "failed", "done", "taken", "skipped"}

CallPc == {"start", "read", "locked"} \cup Answered

TypeOK ==
  /\ account \in [User -> Account]
  /\ userLock \in [User -> Call \cup {Null}]
  /\ order \in [Call -> [user : User, amount : Amount, mode : ChargeMode \cup PayMode]]
  /\ pc \in [Call -> CallPc]
  /\ readBalance \in [Call -> Int]
  /\ readVersion \in [Call -> Nat]

\* A price is that of a stored performance.  What is charged comes with the request:
\* the routed charge looks at it no more than its DTO or a pipe does.
Init ==
  /\ account \in [User -> [balance : Opening, version : {1}]]
  /\ userLock = [u \in User |-> Null]
  /\ order \in [Call -> [user : User, amount : Amount, mode : ChargeMode \cup PayMode]]
  /\ \A c \in Charge : order[c].mode \in ChargeMode
  /\ \A d \in Debit : order[d].mode \in PayMode /\ order[d].amount >= 0
  /\ pc = [c \in Call |-> "start"]
  /\ readBalance = [c \in Call |-> 0]
  /\ readVersion = [c \in Call |-> 0]

Unlocked(c) == userLock[order[c].user] = Null

Unlock(c) == [u \in User |-> IF userLock[u] = c THEN Null ELSE userLock[u]]

WrittenUncounted(u, newBalance) == [account EXCEPT ![u].balance = newBalance]

\* Every UPDATE counts in the @VersionColumn, whether or not it names it.
Written(u, newBalance) ==
  [account EXCEPT ![u] = [balance |-> newBalance, version |-> @.version + 1]]

AnyUserVersion(c) == TRUE

NextUserVersion(c) == account[order[c].user].version = readVersion[c] + 1

\* WHERE userId = ... AND version = ... of the two optimistic updates.
UserVersionUnchanged(c) == account[order[c].user].version = readVersion[c]

-----------------------------------------------------------------------------
(* Charges.  Paths through pc:                                               *)
(*   optimistic   start -> read -> ok or conflict                            *)
(*   pessimistic  start -> locked -> ok                                      *)
(*   increment    start -> locked -> ok                                      *)

\* A plain SELECT.
ReadAccount(c) ==
  LET row == account[order[c].user] IN
  /\ order[c].mode = "optimistic" /\ pc[c] = "start"
  /\ pc' = [pc EXCEPT ![c] = "read"]
  /\ readBalance' = [readBalance EXCEPT ![c] = row.balance]
  /\ readVersion' = [readVersion EXCEPT ![c] = row.version]
  /\ UNCHANGED <<account, userLock, order>>

\* One autocommitted UPDATE to the sum computed from the balance read; no
\* matching row is a conflict.
UpdateBalance(c) ==
  LET o == order[c] IN
  /\ o.mode = "optimistic" /\ pc[c] = "read"
  /\ Unlocked(c)
  /\ \/ /\ UserVersionUnchanged(c)
        /\ account' = Written(o.user, readBalance[c] + o.amount)
        /\ pc' = [pc EXCEPT ![c] = "ok"]
     \/ /\ ~UserVersionUnchanged(c)
        /\ pc' = [pc EXCEPT ![c] = "conflict"]
        /\ UNCHANGED account
  /\ UNCHANGED <<userLock, order, readBalance, readVersion>>

\* SELECT ... FOR UPDATE, or the first variant's UPDATE: both own the row until
\* their transaction ends.  Only the first variant refuses an amount.
LockAccount(c) ==
  LET u == order[c].user IN
  /\ order[c].mode \in {"pessimistic", "increment"} /\ pc[c] = "start"
  /\ order[c].mode = "increment" => order[c].amount > 0
  /\ Unlocked(c)
  /\ userLock' = [userLock EXCEPT ![u] = c]
  /\ readBalance' = [readBalance EXCEPT ![c] = account[u].balance]
  /\ pc' = [pc EXCEPT ![c] = "locked"]
  /\ UNCHANGED <<account, order, readVersion>>

\* The commit: balance + amount, added by the database or to the locked row.
CommitCharge(c) ==
  LET o == order[c] IN
  /\ o.mode \in {"pessimistic", "increment"} /\ pc[c] = "locked"
  /\ account' =
       Written(o.user, IF o.mode = "increment" THEN account[o.user].balance + o.amount
                                               ELSE readBalance[c] + o.amount)
  /\ userLock' = Unlock(c)
  /\ pc' = [pc EXCEPT ![c] = "ok"]
  /\ UNCHANGED <<order, readBalance, readVersion>>

-----------------------------------------------------------------------------
(* Payments, money side.  Paths through pc:                                  *)
(*   routed      start -> read -> locked -> done                             *)
(*   optimistic  start -> read -> taken or skipped                           *)

ReadFundsUnchecked(d) ==
  LET row == account[order[d].user] IN
  /\ pc[d] = "start"
  /\ pc' = [pc EXCEPT ![d] = "read"]
  /\ readBalance' = [readBalance EXCEPT ![d] = row.balance]
  /\ readVersion' = [readVersion EXCEPT ![d] = row.version]
  /\ UNCHANGED <<account, userLock, order>>

\* Unlocked read; too small a balance ends the payment.
ReadFunds(d) ==
  LET o == order[d]
      row == account[o.user]
  IN
  /\ pc[d] = "start"
  /\ pc' = [pc EXCEPT ![d] = IF row.balance < o.amount THEN "rejected" ELSE "read"]
  /\ readBalance' = [readBalance EXCEPT ![d] = row.balance]
  /\ readVersion' = [readVersion EXCEPT ![d] = row.version]
  /\ UNCHANGED <<account, userLock, order>>

\* updateBalance(userId, newBalance): by id alone, inside the transaction.
LockFunds(d) ==
  /\ order[d].mode = "routed" /\ pc[d] = "read"
  /\ Unlocked(d)
  /\ userLock' = [userLock EXCEPT ![order[d].user] = d]
  /\ pc' = [pc EXCEPT ![d] = "locked"]
  /\ UNCHANGED <<account, order, readBalance, readVersion>>

\* newBalance was computed from the balance read at the start.
CommitDebit(d) ==
  LET o == order[d] IN
  /\ o.mode = "routed" /\ pc[d] = "locked"
  /\ account' = Written(o.user, readBalance[d] - o.amount)
  /\ userLock' = Unlock(d)
  /\ pc' = [pc EXCEPT ![d] = "done"]
  /\ UNCHANGED <<order, readBalance, readVersion>>

\* The second variant subtracts on another connection, at once, if the version
\* still matches, and goes on either way.
UpdateFunds(d) ==
  LET o == order[d] IN
  /\ o.mode = "optimistic" /\ pc[d] = "read"
  /\ Unlocked(d)
  /\ \/ /\ UserVersionUnchanged(d)
        /\ account' = Written(o.user, account[o.user].balance - o.amount)
        /\ pc' = [pc EXCEPT ![d] = "taken"]
     \/ /\ ~UserVersionUnchanged(d)
        /\ pc' = [pc EXCEPT ![d] = "skipped"]
        /\ UNCHANGED account
  /\ UNCHANGED <<userLock, order, readBalance, readVersion>>

-----------------------------------------------------------------------------
FailKeepingLock(c) ==
  /\ pc[c] \in {"start", "read", "locked"}
  /\ pc' = [pc EXCEPT ![c] = "failed"]
  /\ UNCHANGED <<account, userLock, order, readBalance, readVersion>>

\* Unknown user, refused amount, any error of a statement of this or of another
\* table: the transaction rolls back and its lock is free.
Fail(c) ==
  /\ pc[c] \in {"start", "read", "locked"}
  /\ pc' = [pc EXCEPT ![c] = "failed"]
  /\ userLock' = Unlock(c)
  /\ UNCHANGED <<account, order, readBalance, readVersion>>

ChargeStep(c) ==
  ReadAccount(c) \/ UpdateBalance(c) \/ LockAccount(c) \/ CommitCharge(c) \/ Fail(c)

DebitStep(d) ==
  ReadFunds(d) \/ LockFunds(d) \/ CommitDebit(d) \/ UpdateFunds(d) \/ Fail(d)

\* Every call answered: only then may nothing happen.
Finished == (\A c \in Call : pc[c] \in Answered) /\ UNCHANGED vars

Next ==
  \/ \E c \in Charge : ChargeStep(c)
  \/ \E d \in Debit : DebitStep(d)
  \/ Finished

\* No fairness: what must happen in the end is said in Booking, of whole payments.
Spec == Init /\ [][Next]_vars

-----------------------------------------------------------------------------
(* Properties                                                                *)

\* No mix of charges and payments, of any variant, overdraws an account or overdraws
\* it further, but a charge of a negative amount, which only the first variant
\* (chargeBalance) refuses and the routed one (chargeBalanceWithOptimisticLock) books.
OnlyNegativeChargesOverdraw ==
  [][\A u \in User :
       account'[u].balance < 0 /\ account'[u].balance < account[u].balance =>
         \E c \in Charge :
           /\ order[c].user = u /\ order[c].amount < 0 /\ order[c].mode # "increment"
           /\ pc[c] # "ok" /\ pc'[c] = "ok"]_vars

\* A version identifies a balance: a call whose version still matches acts on the
\* balance it read, so no update in between, versioned or not, goes unnoticed.
VersionPinsBalance ==
  \A c \in Call :
    pc[c] = "read" =>
      /\ readVersion[c] <= account[order[c].user].version
      /\ UserVersionUnchanged(c) => account[order[c].user].balance = readBalance[c]

\* The calls whose update of a balance was committed.
Updates(u) == {x \in Call : order[x].user = u /\ pc[x] \in {"ok", "done", "taken"}}

\* The optimistic charge is refused only because somebody else's update of the
\* account was committed since it read the version: no conflict without progress.
ConflictMeansProgress ==
  \A c \in Charge : pc[c] = "conflict" => Cardinality(Updates(order[c].user)) >= readVersion[c]

\* Each lock of a user row belongs to a transaction under way on that row, and none
\* under way has lost its lock.
UserLocksOwned ==
  \A u \in User, c \in Call : userLock[u] = c <=> order[c].user = u /\ pc[c] = "locked"

\* Accounts no routed payment touches: that one writes back a balance it read
\* without a lock, and what it overwrites is lost.
Ledgered(u) == \A d \in Debit : order[d].user = u => order[d].mode # "routed"

\* Charges that were answered with success and debits that took their money.
Posted == {c \in Call : pc[c] \in {"ok", "taken"} /\ Ledgered(order[c].user)}

TheLedger == INSTANCE Ledger WITH
  Entry   <- Call,
  change  <- [c \in Call |->
                [user |-> order[c].user,
                 by |-> IF c \in Charge THEN order[c].amount ELSE -order[c].amount]],
  Checked <- Debit,
  balance <- [u \in User |-> IF Ledgered(u) THEN account[u].balance ELSE 0],
  posted  <- Posted

\* A charge answered with success is in the balance, once and in full, and one
\* that failed or met a conflict is not; so for the debits of the unrouted
\* payment.  Whatever the variants and the interleaving, as long as no routed
\* payment works on the account.
BalancesFollowLedger == TheLedger!LedgerSpec

\* The same said of single steps, and of the routed payment too: a call that
\* succeeds changes the balance the others left by its own amount.
EachCallItsAmount ==
  [][\A c \in Call :
       pc[c] \notin Answered /\ pc'[c] \in {"ok", "done", "taken"} =>
         account'[order[c].user].balance
           = account[order[c].user].balance
               + (IF c \in Charge THEN order[c].amount ELSE -order[c].amount)]_vars

\* What EachCallItsAmount loses it loses in one way only: a call that succeeds changes
\* the balance by its own amount, unless it is a routed payment and another update of
\* the account was committed after its read.
LossNeedsOvertaking ==
  [][\A c \in Call :
       pc[c] \notin Answered /\ pc'[c] \in {"ok", "done", "taken"} =>
         \/ account'[order[c].user].balance
              = account[order[c].user].balance
                  + (IF c \in Charge THEN order[c].amount ELSE -order[c].amount)
         \/ c \in Debit /\ order[c].mode = "routed" /\ ~UserVersionUnchanged(c)]_vars

-----------------------------------------------------------------------------
(* The inductive invariant behind the safety properties.                     *)

\* A locked account has not changed since its owner read it, unless the owner
\* is a routed payment, which locks later than it reads.
LockInv ==
  \A c \in Call : pc[c] = "locked" =>
    /\ userLock[order[c].user] = c
    /\ c \in Charge => readBalance[c] = account[order[c].user].balance

\* A payment that goes on has seen enough money.
FundsInv == \A d \in Debit : pc[d] \in {"read", "locked"} => readBalance[d] >= order[d].amount

\* Each call keeps to the endings and the amounts of its own kind.
ModesInv ==
  /\ \A c \in Charge :
       /\ order[c].mode \in ChargeMode /\ pc[c] \notin {"done", "taken", "skipped"}
       /\ order[c].mode = "increment" /\ pc[c] \in {"read", "locked", "ok"} => order[c].amount > 0
  /\ \A d \in Debit : order[d].mode \in PayMode /\ order[d].amount >= 0 /\ pc[d] # "ok"

IInv == TypeOK /\ LockInv /\ FundsInv /\ ModesInv /\ VersionPinsBalance
=============================================================================
