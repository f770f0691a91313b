---------------------------- MODULE AccountsProofs ----------------------------
(***************************************************************************)
(* Theorems about Accounts: its types, its inductive invariant, what may   *)
(* overdraw an account, that conflicts mean progress, who owns locks, how  *)
(* an update may be lost, and that it implements Ledger.                   *)
(***************************************************************************)
EXTENDS Accounts, TLAPS, FiniteSetTheorems

USE AccountsAssumption DEF Call, AccountsAssumption

\* An UPDATE changes one row: its balance as told, its version by one.
LEMMA WrittenRow ==
  ASSUME TypeOK, NEW u \in User, NEW b \in Int
  PROVE  /\ Written(u, b) \in [User -> Account]
         /\ Written(u, b)[u].balance = b
         /\ Written(u, b)[u].version = account[u].version + 1
         /\ \A v \in User : v # u => Written(u, b)[v] = account[v]
BY DEF TypeOK, Account, Written

\* Releasing a lock takes it from its owner only.
LEMMA UnlockOnly ==
  ASSUME TypeOK, NEW c \in Call
  PROVE  /\ Unlock(c) \in [User -> Call \cup {Null}]
         /\ \A u \in User : userLock[u] # c => Unlock(c)[u] = userLock[u]
BY DEF TypeOK, Unlock

\* What a call's arguments are.
LEMMA Arguments ==
  ASSUME TypeOK, NEW c \in Call
  PROVE  /\ order[c].user \in User
         /\ order[c].amount \in Int
         /\ account[order[c].user].balance \in Int
         /\ account[order[c].user].version \in Nat
         /\ readBalance[c] \in Int
         /\ readVersion[c] \in Nat
BY DEF TypeOK, Account

\* Every step, whichever action it is, keeps the types.
LEMMA TypeStep == TypeOK /\ [Next]_vars => TypeOK'
<1> SUFFICES ASSUME TypeOK, [Next]_vars PROVE TypeOK'
  OBVIOUS
<1> USE DEF Answered, CallPc
<1>1. ASSUME NEW c \in Call,
             \/ ReadAccount(c) \/ LockAccount(c) \/ ReadFunds(c) \/ LockFunds(c) \/ Fail(c)
      PROVE  TypeOK'
  <2>1. CASE ReadAccount(c)
    BY <2>1, Arguments DEF TypeOK, ReadAccount
  <2>2. CASE LockAccount(c)
    BY <2>2, Arguments DEF TypeOK, LockAccount
  <2>3. CASE ReadFunds(c)
    BY <2>3, Arguments DEF TypeOK, ReadFunds
  <2>4. CASE LockFunds(c)
    BY <2>4, Arguments DEF TypeOK, LockFunds
  <2>5. CASE Fail(c)
    BY <2>5, UnlockOnly DEF TypeOK, Fail
  <2> QED
    BY <1>1, <2>1, <2>2, <2>3, <2>4, <2>5
<1>2. ASSUME NEW c \in Call,
             UpdateBalance(c) \/ CommitCharge(c) \/ CommitDebit(c) \/ UpdateFunds(c)
      PROVE  TypeOK'
  <2> DEFINE o == order[c]
  <2>0. /\ Written(o.user, readBalance[c] + o.amount) \in [User -> Account]
        /\ Written(o.user, account[o.user].balance + o.amount) \in [User -> Account]
        /\ Written(o.user, readBalance[c] - o.amount) \in [User -> Account]
        /\ Written(o.user, account[o.user].balance - o.amount) \in [User -> Account]
    BY Arguments, WrittenRow
  <2>1. CASE UpdateBalance(c)
    BY <2>0, <2>1 DEF TypeOK, UpdateBalance
  <2>2. CASE CommitCharge(c)
    <3>1. account' \in [User -> Account]
      BY <2>0, <2>2 DEF CommitCharge
    <3> QED
      BY <2>2, <3>1, UnlockOnly DEF TypeOK, CommitCharge
  <2>3. CASE CommitDebit(c)
    BY <2>0, <2>3, UnlockOnly DEF TypeOK, CommitDebit
  <2>4. CASE UpdateFunds(c)
    BY <2>0, <2>4 DEF TypeOK, UpdateFunds
  <2> QED
    BY <1>2, <2>1, <2>2, <2>3, <2>4
<1>3. CASE UNCHANGED vars
  BY <1>3 DEF TypeOK, vars
<1> QED
  BY <1>1, <1>2, <1>3 DEF Next, ChargeStep, DebitStep, Finished

-----------------------------------------------------------------------------
(* What a step does to the rows.                                             *)

\* The call c set the balance of its user to b, which a debit had checked.
Settles(c, b) ==
  /\ account' = Written(order[c].user, b)
  /\ c \in Debit => b >= 0
  /\ pc' = [pc EXCEPT ![c] = pc'[c]]
  /\ pc[c] \in {"read", "locked"}
  /\ pc'[c] \in {"ok", "done", "taken"}
  /\ userLock[order[c].user] \in {Null, c}

\* By how much c is to change the balance.
Due(c) == IF c \in Charge THEN order[c].amount ELSE -order[c].amount

\* In every step at most one call settles, and it had the row to itself.  All but
\* the routed payment settle what the row held before.
LEMMA SettleStep ==
  ASSUME IInv, Next
  PROVE  \/ /\ account' = account
            /\ \A c \in Call : pc'[c] \in {"ok", "done", "taken"} => pc'[c] = pc[c]
         \/ \E c \in Call, b \in Int :
              /\ Settles(c, b)
              /\ order[c].mode # "routed" \/ c \in Charge =>
                   b = account[order[c].user].balance + Due(c) /\ pc'[c] # "done"
<1> USE DEF Answered, CallPc
<1>0. TypeOK /\ LockInv /\ FundsInv /\ VersionPinsBalance /\ ModesInv
  BY DEF IInv
<1> DEFINE Quiet == /\ account' = account
                    /\ \A c \in Call : pc'[c] \in {"ok", "done", "taken"} => pc'[c] = pc[c]
           Settled(c) == \E b \in Int :
              /\ Settles(c, b)
              /\ order[c].mode # "routed" \/ c \in Charge =>
                   b = account[order[c].user].balance + Due(c) /\ pc'[c] # "done"
<1>1. ASSUME NEW c \in Call,
             \/ ReadAccount(c) \/ LockAccount(c) \/ ReadFunds(c) \/ LockFunds(c) \/ Fail(c)
      PROVE  Quiet
  BY <1>0, <1>1 DEF TypeOK, ReadAccount, LockAccount, ReadFunds, LockFunds, Fail
<1>2. ASSUME NEW c \in Charge, UpdateBalance(c)
      PROVE  Quiet \/ Settled(c)
  <2> DEFINE b == readBalance[c] + order[c].amount
  <2>1. CASE ~UserVersionUnchanged(c)
    BY <1>0, <1>2, <2>1 DEF TypeOK, UpdateBalance
  <2>2. CASE UserVersionUnchanged(c)
    <3>1. b \in Int /\ b = account[order[c].user].balance + Due(c)
      BY <1>0, <1>2, <2>2, Arguments DEF UpdateBalance, VersionPinsBalance, Due
    <3>2. Settles(c, b)
      BY <1>0, <1>2, <2>2, <3>1 DEF TypeOK, UpdateBalance, Settles, Unlocked
    <3> QED
      BY <1>0, <1>2, <2>2, <3>1, <3>2 DEF TypeOK, UpdateBalance
  <2> QED
    BY <2>1, <2>2
<1>3. ASSUME NEW c \in Charge, CommitCharge(c)
      PROVE  Settled(c)
  <2> DEFINE b == account[order[c].user].balance + order[c].amount
  <2>1. readBalance[c] = account[order[c].user].balance /\ userLock[order[c].user] = c
    BY <1>0, <1>3 DEF LockInv, CommitCharge
  <2>2. b \in Int /\ b = account[order[c].user].balance + Due(c)
    BY <1>0, Arguments DEF Due
  <2>3. Settles(c, b)
    BY <1>0, <1>3, <2>1, <2>2 DEF TypeOK, CommitCharge, Settles
  <2> QED
    BY <1>0, <1>3, <2>2, <2>3 DEF TypeOK, CommitCharge
<1>4. ASSUME NEW d \in Debit, CommitDebit(d)
      PROVE  Settled(d)
  <2> DEFINE b == readBalance[d] - order[d].amount
  <2>1. b \in Int /\ b >= 0 /\ userLock[order[d].user] = d
    BY <1>0, <1>4, Arguments DEF LockInv, FundsInv, CommitDebit
  <2>2. Settles(d, b)
    BY <1>0, <1>4, <2>1 DEF TypeOK, CommitDebit, Settles
  <2> QED
    BY <1>4, <2>1, <2>2 DEF CommitDebit
<1>5. ASSUME NEW d \in Debit, UpdateFunds(d)
      PROVE  Quiet \/ Settled(d)
  <2> DEFINE b == account[order[d].user].balance - order[d].amount
  <2>1. CASE ~UserVersionUnchanged(d)
    BY <1>0, <1>5, <2>1 DEF TypeOK, UpdateFunds
  <2>2. CASE UserVersionUnchanged(d)
    <3>1. b \in Int /\ b = account[order[d].user].balance + Due(d)
      BY Arguments, <1>0 DEF Due
    <3>2. b >= 0
      BY <1>0, <1>5, <2>2, Arguments DEF UpdateFunds, VersionPinsBalance, FundsInv
    <3>3. Settles(d, b)
      BY <1>0, <1>5, <2>2, <3>2 DEF TypeOK, UpdateFunds, Settles, Unlocked
    <3> QED
      BY <1>0, <1>5, <2>2, <3>1, <3>3 DEF TypeOK, UpdateFunds
  <2> QED
    BY <2>1, <2>2
<1>6. CASE UNCHANGED vars
  BY <1>6 DEF vars
<1> QED
  BY <1>1, <1>2, <1>3, <1>4, <1>5, <1>6 DEF Next, ChargeStep, DebitStep, Finished

-----------------------------------------------------------------------------
(* The parts of the inductive invariant, one lemma each.                     *)

\* Opening balances are not negative.
LEMMA OpeningBalances ==
  Init => account \in [User -> Account] /\ \A u \in User : account[u].balance \in Nat
<1> SUFFICES ASSUME Init
             PROVE  account \in [User -> Account] /\ \A u \in User : account[u].balance \in Nat
  OBVIOUS
<1> DEFINE Opened == [balance : Opening, version : {1}]
<1>1. \A a \in Opened : a \in Account /\ a.balance \in Nat
  <2> TAKE a \in Opened
  <2>1. a.balance \in Opening /\ a.version = 1 /\ a = [balance |-> a.balance, version |-> a.version]
    OBVIOUS
  <2>2. a.balance \in Nat
    BY <2>1
  <2> QED
    BY <2>1, <2>2 DEF Account
<1>2. account \in [User -> Opened]
  BY DEF Init
<1> HIDE DEF Opened
<1> QED
  BY <1>1, <1>2

\* In the initial states nobody has read or locked anything.
LEMMA InitIInv == Init => IInv
<1> SUFFICES ASSUME Init PROVE IInv
  OBVIOUS
<1>1. account \in [User -> Account]
  BY OpeningBalances
<1>2. TypeOK
  BY <1>1 DEF Init, TypeOK, CallPc
<1>3. \A c \in Call : pc[c] = "start"
  BY DEF Init
<1> QED
  BY <1>1, <1>2, <1>3
     DEF Init, IInv, LockInv, FundsInv, ModesInv, VersionPinsBalance

\* A step keeps each call's method, and each call on its method's path.
LEMMA ModesStep == IInv /\ Next => ModesInv'
<1> SUFFICES ASSUME IInv, Next PROVE ModesInv'
  OBVIOUS
<1>0. TypeOK /\ ModesInv
  BY DEF IInv
<1> USE <1>0 DEF TypeOK, ModesInv
<1>1. ASSUME NEW c \in Charge, ChargeStep(c)
      PROVE  ModesInv'
  BY <1>1 DEF ChargeStep, ReadAccount, UpdateBalance, LockAccount, CommitCharge, Fail
<1>2. ASSUME NEW d \in Debit, DebitStep(d)
      PROVE  ModesInv'
  BY <1>2 DEF DebitStep, ReadFunds, LockFunds, CommitDebit, UpdateFunds, Fail
<1>3. CASE Finished
  BY <1>3 DEF Finished, vars
<1> QED
  BY <1>1, <1>2, <1>3 DEF Next

\* A payment goes on only if it has seen enough money.
LEMMA FundsStep == IInv /\ Next => FundsInv'
<1> SUFFICES ASSUME IInv, Next PROVE FundsInv'
  OBVIOUS
<1>0. TypeOK /\ FundsInv
  BY DEF IInv
<1> USE <1>0 DEF TypeOK, FundsInv
<1>1. ASSUME NEW c \in Charge, ChargeStep(c)
      PROVE  FundsInv'
  BY <1>1 DEF ChargeStep, ReadAccount, UpdateBalance, LockAccount, CommitCharge, Fail
<1>2. ASSUME NEW d \in Debit, ReadFunds(d)
      PROVE  FundsInv'
  BY <1>2, Arguments DEF ReadFunds
<1>3. ASSUME NEW d \in Debit, LockFunds(d) \/ CommitDebit(d) \/ UpdateFunds(d) \/ Fail(d)
      PROVE  FundsInv'
  BY <1>3 DEF LockFunds, CommitDebit, UpdateFunds, Fail
<1>4. CASE Finished
  BY <1>4 DEF Finished, vars
<1> QED
  BY <1>1, <1>2, <1>3, <1>4 DEF Next, DebitStep

\* The owner of a lock keeps it until it is done, and nobody else writes the row.
LEMMA LockStep == IInv /\ Next => LockInv'
<1> SUFFICES ASSUME IInv, Next, NEW x \in Call, pc'[x] = "locked"
             PROVE  /\ userLock'[order'[x].user] = x
                    /\ x \in Charge => readBalance'[x] = account'[order'[x].user].balance
  BY DEF LockInv
<1>0. TypeOK /\ LockInv
  BY DEF IInv
<1> DEFINE u == order[x].user
<1>1. u \in User /\ order' = order
  BY <1>0, Arguments
     DEF Next, ChargeStep, ReadAccount, UpdateBalance, LockAccount, CommitCharge, Fail,
         DebitStep, ReadFunds, LockFunds, CommitDebit, UpdateFunds, Finished, vars
<1>2. CASE pc[x] = "locked"
  <2>1. userLock[u] = x /\ (x \in Charge => readBalance[x] = account[u].balance)
    BY <1>0, <1>2 DEF LockInv
  <2>2. readBalance'[x] = readBalance[x] /\ userLock'[u] = x
    <3>1. ASSUME NEW c \in Charge, ChargeStep(c)
          PROVE  readBalance'[x] = readBalance[x] /\ userLock'[u] = x
      BY <1>0, <1>1, <1>2, <2>1, <3>1
         DEF TypeOK, ChargeStep, ReadAccount, UpdateBalance, LockAccount, CommitCharge, Fail,
             Unlocked, Unlock
    <3>2. ASSUME NEW d \in Debit, DebitStep(d)
          PROVE  readBalance'[x] = readBalance[x] /\ userLock'[u] = x
      BY <1>0, <1>1, <1>2, <2>1, <3>2
         DEF TypeOK, DebitStep, ReadFunds, LockFunds, CommitDebit, UpdateFunds, Fail,
             Unlocked, Unlock
    <3>3. CASE Finished
      BY <2>1, <3>3 DEF Finished, vars
    <3> QED
      BY <3>1, <3>2, <3>3 DEF Next
  <2>3. account'[u] = account[u]
    <3>1. ASSUME NEW c \in Call, NEW b \in Int, Settles(c, b)
          PROVE  account'[u] = account[u]
      <4>1. c # x
        BY <1>0, <1>2, <3>1 DEF Settles, TypeOK
      <4>2. order[c].user # u
        BY <2>1, <3>1, <4>1, <1>0 DEF Settles, TypeOK
      <4> QED
        BY <1>0, <1>1, <3>1, <4>2, WrittenRow, Arguments DEF Settles
    <3> QED
      BY <3>1, SettleStep
  <2> QED
    BY <1>1, <2>1, <2>2, <2>3
<1>3. CASE pc[x] # "locked"
  <2>1. LockAccount(x) \/ (x \in Debit /\ LockFunds(x))
    BY <1>0, <1>3
       DEF TypeOK, Next, ChargeStep, ReadAccount, UpdateBalance, LockAccount, CommitCharge, Fail,
           DebitStep, ReadFunds, LockFunds, CommitDebit, UpdateFunds, Finished, vars
  <2> QED
    BY <1>0, <1>1, <2>1 DEF TypeOK, LockAccount, LockFunds
<1> QED
  BY <1>2, <1>3

\* Versions only grow, and every write makes them grow.
LEMMA VersionStep == IInv /\ Next => VersionPinsBalance'
<1> SUFFICES ASSUME IInv, Next, NEW x \in Call, pc'[x] = "read"
             PROVE  LET u == order'[x].user IN
                    /\ readVersion'[x] <= account'[u].version
                    /\ account'[u].version = readVersion'[x] => account'[u].balance = readBalance'[x]
  BY DEF VersionPinsBalance, UserVersionUnchanged
<1>0. TypeOK /\ VersionPinsBalance
  BY DEF IInv
<1> DEFINE u == order[x].user
<1>1. /\ u \in User /\ account[u].version \in Nat /\ readVersion[x] \in Nat
      /\ order' = order
  BY <1>0, Arguments
     DEF Next, ChargeStep, ReadAccount, UpdateBalance, LockAccount, CommitCharge, Fail,
         DebitStep, ReadFunds, LockFunds, CommitDebit, UpdateFunds, Finished, vars
<1>2. CASE pc[x] = "read"
  <2>1. /\ readVersion[x] <= account[u].version
        /\ account[u].version = readVersion[x] => account[u].balance = readBalance[x]
    BY <1>0, <1>2 DEF VersionPinsBalance, UserVersionUnchanged
  <2>2. readVersion'[x] = readVersion[x] /\ readBalance'[x] = readBalance[x]
    BY <1>0, <1>2
       DEF TypeOK, Next, ChargeStep, ReadAccount, UpdateBalance, LockAccount, CommitCharge, Fail,
           DebitStep, ReadFunds, LockFunds, CommitDebit, UpdateFunds, Finished, vars
  <2>3. account'[u] = account[u] \/ account'[u].version = account[u].version + 1
    <3>1. ASSUME NEW c \in Call, NEW b \in Int, Settles(c, b)
          PROVE  account'[u] = account[u] \/ account'[u].version = account[u].version + 1
      <4>1. order[c].user \in User
        BY <1>0, Arguments
      <4>2. CASE order[c].user = u
        BY <1>0, <1>1, <3>1, <4>1, <4>2, WrittenRow DEF Settles
      <4>3. CASE order[c].user # u
        BY <1>0, <1>1, <3>1, <4>1, <4>3, WrittenRow DEF Settles
      <4> QED
        BY <4>2, <4>3
    <3> QED
      BY <3>1, SettleStep
  <2> QED
    BY <1>1, <2>1, <2>2, <2>3
<1>3. CASE pc[x] # "read"
  <2>1. ReadAccount(x) \/ ReadFunds(x)
    BY <1>0, <1>3
       DEF TypeOK, Next, ChargeStep, ReadAccount, UpdateBalance, LockAccount, CommitCharge, Fail,
           DebitStep, ReadFunds, LockFunds, CommitDebit, UpdateFunds, Finished, vars
  <2> QED
    BY <1>0, <1>1, <2>1 DEF TypeOK, ReadAccount, ReadFunds
<1> QED
  BY <1>2, <1>3

\* The inductive invariant is inductive.
LEMMA IInvStep == IInv /\ [Next]_vars => IInv'
<1>1. CASE Next
  BY <1>1, TypeStep, LockStep, FundsStep, ModesStep, VersionStep DEF IInv
<1>2. CASE UNCHANGED vars
  BY <1>2 DEF vars, IInv, TypeOK, LockInv, FundsInv, ModesInv, VersionPinsBalance,
              UserVersionUnchanged
<1> QED
  BY <1>1, <1>2

-----------------------------------------------------------------------------
(* The theorems.                                                             *)

\* Every reachable state satisfies the inductive invariant: locked accounts are
\* as their owner read them, versions identify balances, payments have seen
\* enough money (UserService, PaymentService).
THEOREM Inductive == Spec => []IInv
<1> QED
  BY InitIInv, IInvStep, PTL DEF Spec

\* Arguments never change, and an answer is final.
LEMMA AnswersStay ==
  ASSUME TypeOK, Next
  PROVE  order' = order /\ \A c \in Call : pc[c] \in Answered => pc'[c] = pc[c]
BY DEF TypeOK, Answered, Next, ChargeStep, ReadAccount, UpdateBalance, LockAccount, CommitCharge,
       Fail, DebitStep, ReadFunds, LockFunds, CommitDebit, UpdateFunds, Finished, vars

-----------------------------------------------------------------------------
(* What may overdraw an account.                                             *)

\* A balance that falls below zero was set by a charge, and only a charge of a negative
\* amount lowers what it found.
LEMMA OverdraftStep ==
  ASSUME IInv, Next, NEW u \in User,
         account'[u].balance < 0, account'[u].balance < account[u].balance
  PROVE  \E c \in Charge :
           /\ order[c].user = u /\ order[c].amount < 0 /\ order[c].mode # "increment"
           /\ pc[c] # "ok" /\ pc'[c] = "ok"
<1>0. TypeOK /\ ModesInv' /\ order' = order
  BY ModesStep, AnswersStay DEF IInv
<1>1. account' # account
  BY <1>0 DEF TypeOK, Account
<1>2. PICK c \in Call, b \in Int :
        /\ Settles(c, b)
        /\ order[c].mode # "routed" \/ c \in Charge =>
             b = account[order[c].user].balance + Due(c) /\ pc'[c] # "done"
  BY <1>1, SettleStep
<1>3. order[c].user = u /\ account'[u].balance = b
  <2>1. order[c].user \in User
    BY <1>0, Arguments
  <2>2. order[c].user = u
    <3> SUFFICES ASSUME order[c].user # u PROVE FALSE
      OBVIOUS
    <3>1. account'[u] = account[u]
      BY <1>0, <1>2, <2>1, WrittenRow DEF Settles
    <3> QED
      BY <1>0, <3>1 DEF TypeOK, Account
  <2> QED
    BY <1>0, <1>2, <2>1, <2>2, WrittenRow DEF Settles
<1>4. c \in Charge
  BY <1>2, <1>3 DEF Settles
<1>5. order[c].amount < 0
  BY <1>0, <1>2, <1>3, <1>4, Arguments DEF Due
<1>6. pc[c] # "ok" /\ pc'[c] = "ok"
  BY <1>0, <1>2, <1>4 DEF Settles, ModesInv
<1>7. order[c].mode # "increment"
  BY <1>0, <1>4, <1>5, <1>6, Arguments DEF ModesInv
<1> QED
  BY <1>3, <1>4, <1>5, <1>6, <1>7

\* No account is ever overdrawn, whatever charges and payments, of whichever variants,
\* work on it, but by a charge of a negative amount (processPayment,
\* processPaymentWithOptimisticLock, chargeBalanceWithOptimisticLock).
THEOREM NoOverdraft == Spec => OnlyNegativeChargesOverdraw
<1>1. IInv /\ [Next]_vars =>
        [\A u \in User :
           account'[u].balance < 0 /\ account'[u].balance < account[u].balance =>
             \E c \in Charge :
               /\ order[c].user = u /\ order[c].amount < 0 /\ order[c].mode # "increment"
               /\ pc[c] # "ok" /\ pc'[c] = "ok"]_vars
  BY OverdraftStep
<1> QED
  BY <1>1, Inductive, PTL DEF Spec, OnlyNegativeChargesOverdraw

-----------------------------------------------------------------------------
(* No conflict without progress.                                             *)

\* The version counts the updates of the account.
CountInv ==
  \A u \in User :
    /\ IsFiniteSet(Updates(u))
    /\ account[u].version = 1 + Cardinality(Updates(u))

\* A call that found its version gone was overtaken.
OvertakenInv ==
  \A c \in Call :
    /\ pc[c] \in {"read", "conflict", "skipped"} => readVersion[c] >= 1
    /\ pc[c] \in {"conflict", "skipped"} => readVersion[c] < account[order[c].user].version

\* Each update committed is one more call that has settled.
LEMMA CountStep == IInv /\ CountInv /\ [Next]_vars => CountInv'
<1> SUFFICES ASSUME IInv, CountInv, [Next]_vars, NEW u \in User
             PROVE  /\ IsFiniteSet(Updates(u)')
                    /\ account'[u].version = 1 + Cardinality(Updates(u)')
  BY DEF CountInv
<1>0. TypeOK /\ IsFiniteSet(Updates(u)) /\ account[u].version = 1 + Cardinality(Updates(u))
  BY DEF IInv, CountInv
<1>1. CASE UNCHANGED vars
  BY <1>0, <1>1 DEF vars, Updates
<1>2. CASE Next
  <2>0. order' = order /\ \A c \in Call : pc[c] \in Answered => pc'[c] = pc[c]
    BY <1>0, <1>2, AnswersStay
  <2>1. CASE /\ account' = account
             /\ \A c \in Call : pc'[c] \in {"ok", "done", "taken"} => pc'[c] = pc[c]
    <3>1. Updates(u)' = Updates(u)
      BY <2>0, <2>1 DEF Updates, Answered
    <3> QED
      BY <1>0, <2>1, <3>1
  <2>2. ASSUME NEW c \in Call, NEW b \in Int, Settles(c, b)
        PROVE  /\ IsFiniteSet(Updates(u)')
               /\ account'[u].version = 1 + Cardinality(Updates(u)')
    <3>0. /\ order[c].user \in User /\ c \notin Updates(u)
          /\ pc'[c] \in {"ok", "done", "taken"}
          /\ \A x \in Call : x # c => pc'[x] = pc[x]
      BY <1>0, <2>2, Arguments DEF Settles, Updates, TypeOK
    <3>1. CASE order[c].user = u
      <4>1. Updates(u)' = Updates(u) \cup {c}
        BY <2>0, <3>0, <3>1 DEF Updates
      <4>2. /\ IsFiniteSet(Updates(u) \cup {c})
            /\ Cardinality(Updates(u) \cup {c}) = Cardinality(Updates(u)) + 1
        BY <1>0, <3>0, FS_AddElement
      <4>3. account'[u].version = account[u].version + 1
        BY <1>0, <2>2, <3>1, WrittenRow DEF Settles
      <4>4. Cardinality(Updates(u)) \in Nat
        BY <1>0, FS_CardinalityType
      <4> QED
        BY <1>0, <4>1, <4>2, <4>3, <4>4
    <3>2. CASE order[c].user # u
      <4>1. Updates(u)' = Updates(u)
        BY <2>0, <3>0, <3>2 DEF Updates
      <4>2. account'[u] = account[u]
        BY <1>0, <2>2, <3>0, <3>2, WrittenRow DEF Settles
      <4> QED
        BY <1>0, <4>1, <4>2
    <3> QED
      BY <3>1, <3>2
  <2> QED
    BY <1>2, <2>1, <2>2, SettleStep
<1> QED
  BY <1>1, <1>2

\* Versions are read from the row, and never go back.
LEMMA OvertakenStep == IInv /\ CountInv /\ OvertakenInv /\ [Next]_vars => OvertakenInv'
<1> SUFFICES ASSUME IInv, CountInv, OvertakenInv, [Next]_vars, NEW c \in Call
             PROVE  /\ pc'[c] \in {"read", "conflict", "skipped"} => readVersion'[c] >= 1
                    /\ pc'[c] \in {"conflict", "skipped"} =>
                         readVersion'[c] < account'[order'[c].user].version
  BY DEF OvertakenInv
<1> DEFINE u == order[c].user
<1>0. TypeOK /\ VersionPinsBalance /\ u \in User
  BY Arguments DEF IInv
<1>1. CASE UNCHANGED vars
  BY <1>1 DEF vars, OvertakenInv
<1>2. CASE Next
  <2>1. account[u].version >= 1
    <3>1. Cardinality(Updates(u)) \in Nat /\ account[u].version = 1 + Cardinality(Updates(u))
      BY <1>0, FS_CardinalityType DEF CountInv
    <3> QED
      BY <3>1
  <2>2. order' = order /\ account'[u].version >= account[u].version /\ account'[u].version \in Nat
    <3>1. order' = order
      BY <1>0, <1>2, AnswersStay
    <3>2. account' = account
            \/ \E x \in Call, b \in Int : account' = Written(order[x].user, b)
      BY <1>2, SettleStep DEF Settles
    <3>3. ASSUME NEW x \in Call, NEW b \in Int, account' = Written(order[x].user, b)
          PROVE  account'[u].version >= account[u].version /\ account'[u].version \in Nat
      <4>1. order[x].user \in User
        BY <1>0, Arguments
      <4> QED
        <5>1. account'[u].version = account[u].version + 1 \/ account'[u] = account[u]
          BY <1>0, <3>3, <4>1, WrittenRow
        <5> QED
          BY <1>0, <5>1, Arguments
    <3> QED
      BY <1>0, <3>1, <3>2, <3>3, Arguments
  <2>3. CASE pc'[c] = pc[c] /\ readVersion'[c] = readVersion[c]
    BY <1>0, <2>2, <2>3, Arguments DEF OvertakenInv
  <2>4. CASE pc'[c] = "read" /\ readVersion'[c] = account[u].version
    BY <2>1, <2>4
  <2>5. CASE /\ pc[c] = "read" /\ ~UserVersionUnchanged(c)
             /\ readVersion'[c] = readVersion[c]
    BY <1>0, <2>2, <2>5, Arguments DEF OvertakenInv, VersionPinsBalance, UserVersionUnchanged
  <2>6. CASE pc'[c] \notin {"read", "conflict", "skipped"}
    BY <2>6
  <2>7. \/ pc'[c] = pc[c] /\ readVersion'[c] = readVersion[c]
        \/ pc'[c] = "read" /\ readVersion'[c] = account[u].version
        \/ pc[c] = "read" /\ ~UserVersionUnchanged(c) /\ readVersion'[c] = readVersion[c]
        \/ pc'[c] \notin {"read", "conflict", "skipped"}
    <3>1. ASSUME NEW x \in Charge, ReadAccount(x) \/ LockAccount(x) \/ CommitCharge(x) \/ Fail(x)
          PROVE  <2>7!1 \/ <2>7!2 \/ <2>7!4
      BY <1>0, <3>1 DEF TypeOK, ReadAccount, LockAccount, CommitCharge, Fail
    <3>2. ASSUME NEW x \in Charge, UpdateBalance(x)
          PROVE  <2>7!1 \/ <2>7!3 \/ <2>7!4
      BY <1>0, <3>2 DEF TypeOK, UpdateBalance
    <3>3. ASSUME NEW x \in Debit, ReadFunds(x) \/ LockFunds(x) \/ CommitDebit(x) \/ Fail(x)
          PROVE  <2>7!1 \/ <2>7!2 \/ <2>7!4
      BY <1>0, <3>3 DEF TypeOK, ReadFunds, LockFunds, CommitDebit, Fail
    <3>4. ASSUME NEW x \in Debit, UpdateFunds(x)
          PROVE  <2>7!1 \/ <2>7!3 \/ <2>7!4
      BY <1>0, <3>4 DEF TypeOK, UpdateFunds
    <3>5. CASE Finished
      BY <3>5 DEF Finished, vars
    <3> QED
      BY <1>2, <3>1, <3>2, <3>3, <3>4, <3>5 DEF Next, ChargeStep, DebitStep
  <2> QED
    BY <2>3, <2>4, <2>5, <2>6, <2>7
<1> QED
  BY <1>1, <1>2

\* At the start no account has been updated and no call has read one.
LEMMA InitProgress == Init => CountInv /\ OvertakenInv
<1> SUFFICES ASSUME Init PROVE CountInv /\ OvertakenInv
  OBVIOUS
<1>1. \A u \in User : Updates(u) = {}
  BY DEF Init, Updates
<1>2. \A u \in User : account[u].version = 1
  BY DEF Init
<1>3. \A u \in User : IsFiniteSet(Updates(u)) /\ Cardinality(Updates(u)) = 0
  BY <1>1, FS_EmptySet
<1> QED
  BY <1>2, <1>3 DEF CountInv, OvertakenInv, Init

\* A call whose version did not match can name others that got through.
LEMMA OvertakenByUpdates ==
  ASSUME IInv, CountInv, OvertakenInv, NEW c \in Call, pc[c] \in {"conflict", "skipped"}
  PROVE  /\ Cardinality(Updates(order[c].user)) >= readVersion[c]
         /\ Updates(order[c].user) # {}
<1> DEFINE u == order[c].user
<1>1. u \in User /\ readVersion[c] \in Nat /\ account[u].version \in Nat
  BY Arguments DEF IInv
<1>2. /\ Cardinality(Updates(u)) \in Nat
      /\ account[u].version = 1 + Cardinality(Updates(u))
  BY <1>1, FS_CardinalityType DEF CountInv
<1>3. readVersion[c] >= 1 /\ readVersion[c] < account[u].version
  BY DEF OvertakenInv
<1>4. Cardinality(Updates(u)) >= readVersion[c] /\ Cardinality(Updates(u)) # 0
  BY <1>1, <1>2, <1>3
<1> QED
  BY <1>4, FS_EmptySet

\* An optimistic charge is refused only because others committed updates of the
\* account since it read the version (chargeBalanceWithOptimisticLock).
THEOREM ProgressBehindConflict == Spec => []ConflictMeansProgress
<1>1. IInv /\ CountInv /\ OvertakenInv => ConflictMeansProgress
  BY OvertakenByUpdates DEF ConflictMeansProgress
<1> QED
  BY <1>1, InitProgress, CountStep, OvertakenStep, Inductive, PTL DEF Spec

-----------------------------------------------------------------------------
(* Locks and their owners.                                                   *)

\* Owners appear with the lock and are done when they give it back.
LEMMA OwnersStep == IInv /\ UserLocksOwned /\ [Next]_vars => UserLocksOwned'
<1> SUFFICES ASSUME IInv, UserLocksOwned, [Next]_vars PROVE UserLocksOwned'
  OBVIOUS
<1>0. TypeOK /\ TypeOK' /\ LockInv'
  BY TypeStep, IInvStep DEF IInv
<1>1. ASSUME NEW u \in User, NEW x \in Call, order'[x].user = u /\ pc'[x] = "locked"
      PROVE  userLock'[u] = x
  BY <1>0, <1>1 DEF LockInv
<1>2. ASSUME NEW u \in User, NEW x \in Call, userLock'[u] = x
      PROVE  order'[x].user = u /\ pc'[x] = "locked"
  <2> USE <1>0, <1>2 DEF TypeOK
  <2>1. userLock[u] = x => order[x].user = u /\ pc[x] = "locked"
    BY DEF UserLocksOwned
  <2>2. ASSUME NEW c \in Charge, ChargeStep(c)
        PROVE  order'[x].user = u /\ pc'[x] = "locked"
    <3>1. CASE ReadAccount(c)  BY <2>1, <3>1 DEF ReadAccount
    <3>2. CASE UpdateBalance(c)  BY <2>1, <3>2 DEF UpdateBalance
    <3>3. CASE LockAccount(c)  BY <2>1, <3>3 DEF LockAccount, Unlocked
    <3>4. CASE CommitCharge(c)  BY <2>1, <3>4 DEF CommitCharge, Unlock
    <3>5. CASE Fail(c)  BY <2>1, <3>5 DEF Fail, Unlock
    <3> QED  BY <2>2, <3>1, <3>2, <3>3, <3>4, <3>5 DEF ChargeStep
  <2>3. ASSUME NEW d \in Debit, DebitStep(d)
        PROVE  order'[x].user = u /\ pc'[x] = "locked"
    <3>1. CASE ReadFunds(d)  BY <2>1, <3>1 DEF ReadFunds
    <3>2. CASE LockFunds(d)  BY <2>1, <3>2 DEF LockFunds, Unlocked
    <3>3. CASE CommitDebit(d)  BY <2>1, <3>3 DEF CommitDebit, Unlock
    <3>4. CASE UpdateFunds(d)  BY <2>1, <3>4 DEF UpdateFunds
    <3>5. CASE Fail(d)  BY <2>1, <3>5 DEF Fail, Unlock
    <3> QED  BY <2>3, <3>1, <3>2, <3>3, <3>4, <3>5 DEF DebitStep
  <2>4. CASE Finished \/ UNCHANGED vars
    BY <2>1, <2>4 DEF Finished, vars
  <2> QED
    BY <2>2, <2>3, <2>4 DEF Next
<1> QED
  BY <1>1, <1>2 DEF UserLocksOwned

\* No answered call keeps a user row locked.
THEOREM LocksAreOwned == Spec => []UserLocksOwned
<1>1. Init => UserLocksOwned
  BY DEF Init, UserLocksOwned
<1> QED
  BY <1>1, OwnersStep, Inductive, PTL DEF Spec

-----------------------------------------------------------------------------
(* When a routed payment overwrites another call's update.                   *)

\* The balance a payment read is still the row's while its version is, also after
\* the payment has locked the row.
PinnedInv ==
  \A d \in Debit : pc[d] = "locked" /\ UserVersionUnchanged(d) =>
                     account[order[d].user].balance = readBalance[d]

LEMMA PinnedStep == IInv /\ PinnedInv /\ [Next]_vars => PinnedInv'
<1> SUFFICES ASSUME IInv, PinnedInv, [Next]_vars, NEW x \in Debit, pc'[x] = "locked",
                    account'[order'[x].user].version = readVersion'[x]
             PROVE  account'[order'[x].user].balance = readBalance'[x]
  BY DEF PinnedInv, UserVersionUnchanged
<1>0. TypeOK /\ VersionPinsBalance /\ LockInv
  BY DEF IInv
<1>1. CASE UNCHANGED vars
  BY <1>1 DEF vars, PinnedInv, UserVersionUnchanged
<1>2. CASE Next
  <2>0. order' = order /\ order[x].user \in User
    BY <1>0, <1>2, AnswersStay, Arguments
  <2>1. /\ readVersion'[x] = readVersion[x] /\ readBalance'[x] = readBalance[x]
        /\ pc[x] = "locked" \/ (pc[x] = "read" /\ account' = account)
    <3> DEFINE Reads == readVersion'[x] = readVersion[x] /\ readBalance'[x] = readBalance[x]
    <3>1. ASSUME NEW c \in Charge, ChargeStep(c) PROVE Reads /\ pc'[x] = pc[x]
      <4>1. c # x
        OBVIOUS
      <4>2. CASE ReadAccount(c) \/ LockAccount(c)
        BY <1>0, <4>1, <4>2 DEF TypeOK, ReadAccount, LockAccount
      <4>3. CASE UpdateBalance(c)
        BY <1>0, <4>1, <4>3 DEF TypeOK, UpdateBalance
      <4>4. CASE CommitCharge(c) \/ Fail(c)
        BY <1>0, <4>1, <4>4 DEF TypeOK, CommitCharge, Fail
      <4> QED
        BY <3>1, <4>2, <4>3, <4>4 DEF ChargeStep
    <3>2. ASSUME NEW d \in Debit, d # x, DebitStep(d) PROVE Reads /\ pc'[x] = pc[x]
      <4>1. CASE ReadFunds(d)
        BY <1>0, <3>2, <4>1 DEF TypeOK, ReadFunds
      <4>2. CASE UpdateFunds(d)
        BY <1>0, <3>2, <4>2 DEF TypeOK, UpdateFunds
      <4>3. CASE LockFunds(d) \/ CommitDebit(d) \/ Fail(d)
        BY <1>0, <3>2, <4>3 DEF TypeOK, LockFunds, CommitDebit, Fail
      <4> QED
        BY <3>2, <4>1, <4>2, <4>3 DEF DebitStep
    <3>3. CASE DebitStep(x)
      <4>1. LockFunds(x)
        BY <1>0, <3>3 DEF TypeOK, DebitStep, ReadFunds, CommitDebit, UpdateFunds, Fail
      <4> QED
        BY <1>0, <4>1 DEF LockFunds
    <3>4. CASE Finished
      BY <3>4 DEF Finished, vars
    <3> QED
      BY <1>2, <3>1, <3>2, <3>3, <3>4 DEF Next
  <2>2. CASE pc[x] = "locked"
    <3>1. account'[order[x].user] = account[order[x].user]
      <4>1. userLock[order[x].user] = x
        BY <1>0, <2>2 DEF LockInv
      <4>2. ASSUME NEW c \in Call, NEW b \in Int, Settles(c, b)
            PROVE  account'[order[x].user] = account[order[x].user]
        <5>1. c # x
          BY <4>2 DEF Settles
        <5>2. order[c].user # order[x].user /\ order[c].user \in User
          BY <1>0, <4>1, <4>2, <5>1, Arguments DEF Settles
        <5> QED
          BY <1>0, <2>0, <4>2, <5>2, WrittenRow DEF Settles
      <4> QED
        BY <1>2, <4>2, SettleStep
    <3> QED
      BY <2>0, <2>1, <2>2, <3>1 DEF PinnedInv, UserVersionUnchanged
  <2>3. CASE pc[x] # "locked"
    <3>1. pc[x] = "read" /\ account' = account
      BY <2>1, <2>3
    <3> QED
      BY <1>0, <2>0, <2>1, <3>1 DEF VersionPinsBalance, UserVersionUnchanged
  <2> QED
    BY <2>2, <2>3
<1> QED
  BY <1>1, <1>2

\* A call that succeeds changes the balance by its amount or is a routed payment that
\* was overtaken since its read.
LEMMA AmountStep ==
  ASSUME IInv, PinnedInv, Next, NEW c \in Call,
         pc[c] \notin Answered, pc'[c] \in {"ok", "done", "taken"}
  PROVE  \/ account'[order[c].user].balance = account[order[c].user].balance + Due(c)
         \/ c \in Debit /\ order[c].mode = "routed" /\ ~UserVersionUnchanged(c)
<1>0. TypeOK /\ order[c].user \in User
  BY Arguments DEF IInv
<1>1. pc'[c] # pc[c]
  BY DEF Answered
<1>2. PICK x \in Call, b \in Int :
        /\ Settles(x, b)
        /\ order[x].mode # "routed" \/ x \in Charge =>
             b = account[order[x].user].balance + Due(x) /\ pc'[x] # "done"
  BY <1>1, SettleStep
<1>3. x = c
  BY <1>0, <1>1, <1>2 DEF Settles, TypeOK
<1>4. account'[order[c].user].balance = b
  BY <1>0, <1>2, <1>3, WrittenRow DEF Settles
<1>5. CASE order[c].mode # "routed" \/ c \in Charge
  BY <1>2, <1>3, <1>4, <1>5
<1>6. CASE order[c].mode = "routed" /\ c \notin Charge /\ UserVersionUnchanged(c)
  <2>1. CommitDebit(c)
    <3>1. c \in Debit
      BY <1>6
    <3> QED
      BY <1>0, <1>1, <1>6, <3>1
         DEF TypeOK, Next, ChargeStep, ReadAccount, UpdateBalance, LockAccount, CommitCharge, Fail,
             DebitStep, ReadFunds, LockFunds, CommitDebit, UpdateFunds, Finished, vars
  <2>2. account[order[c].user].balance = readBalance[c]
    BY <1>6, <2>1 DEF PinnedInv, CommitDebit
  <2>3. readBalance[c] - order[c].amount \in Int
    BY <1>0, Arguments
  <2>4. account'[order[c].user].balance = readBalance[c] - order[c].amount
    BY <1>0, <2>1, <2>3, WrittenRow DEF CommitDebit
  <2>5. Due(c) = -order[c].amount
    BY <1>6 DEF Due
  <2> QED
    BY <1>0, <2>2, <2>4, <2>5, Arguments
<1> QED
  BY <1>5, <1>6

\* The lost charge of processPayment has one cause: between the payment's unlocked read
\* and its UPDATE another update of the account was committed.
THEOREM LossIsOvertaking == Spec => LossNeedsOvertaking
<1>1. Init => PinnedInv
  BY DEF Init, PinnedInv
<1>2. IInv /\ PinnedInv /\ [Next]_vars =>
        [\A c \in Call :
           pc[c] \notin Answered /\ pc'[c] \in {"ok", "done", "taken"} =>
             \/ account'[order[c].user].balance
                  = account[order[c].user].balance
                      + (IF c \in Charge THEN order[c].amount ELSE -order[c].amount)
             \/ c \in Debit /\ order[c].mode = "routed" /\ ~UserVersionUnchanged(c)]_vars
  BY AmountStep DEF Due
<1> QED
  BY <1>1, <1>2, PinnedStep, Inductive, PTL DEF Spec, LossNeedsOvertaking

-----------------------------------------------------------------------------
(* Accounts implements Ledger.                                               *)

\* The balances and the entries of the ledger that the accounts stand for.
LedgerBalance == [u \in User |-> IF Ledgered(u) THEN account[u].balance ELSE 0]

LedgerChange ==
  [c \in Call |-> [user |-> order[c].user,
                   by |-> IF c \in Charge THEN order[c].amount ELSE -order[c].amount]]

\* A step that settles a call posts its entry, if no routed payment works on the
\* account; every other step leaves the ledger alone.
LEMMA LedgerStep == IInv /\ [Next]_vars => [TheLedger!LedgerNext]_(TheLedger!ledgerVars)
<1> SUFFICES ASSUME IInv, [Next]_vars
             PROVE  TheLedger!LedgerNext \/ UNCHANGED <<LedgerChange, LedgerBalance, Posted>>
  BY DEF TheLedger!ledgerVars, LedgerChange, LedgerBalance
<1>0. TypeOK
  BY DEF IInv
<1>1. CASE UNCHANGED vars
  BY <1>1 DEF vars, LedgerChange, LedgerBalance, Posted, Ledgered
<1>2. CASE Next
  <2>0. order' = order /\ \A c \in Call : pc[c] \in Answered => pc'[c] = pc[c]
    BY <1>0, <1>2, AnswersStay
  <2>1. LedgerChange' = LedgerChange /\ \A u \in User : Ledgered(u)' = Ledgered(u)
    BY <2>0 DEF LedgerChange, Ledgered
  <2>2. ASSUME account' = account,
               \A c \in Call : pc'[c] \in {"ok", "done", "taken"} => pc'[c] = pc[c]
        PROVE  UNCHANGED <<LedgerBalance, Posted>>
    <3>1. LedgerBalance' = LedgerBalance
      BY <2>1, <2>2 DEF LedgerBalance
    <3>2. Posted' = Posted
      BY <1>0, <2>0, <2>1, <2>2, Arguments DEF Posted, Answered
    <3> QED
      BY <3>1, <3>2
  <2>3. ASSUME NEW c \in Call, NEW b \in Int, Settles(c, b),
               order[c].mode # "routed" \/ c \in Charge =>
                 b = account[order[c].user].balance + Due(c) /\ pc'[c] # "done"
        PROVE  TheLedger!Post(c) \/ UNCHANGED <<LedgerBalance, Posted>>
    <3> DEFINE u == order[c].user
    <3>0. u \in User /\ c \notin Posted /\ pc'[c] \in {"ok", "done", "taken"}
      BY <1>0, <2>3, Arguments DEF Settles, Posted
    <3>1. /\ account'[u].balance = b
          /\ \A v \in User : v # u => account'[v] = account[v]
      BY <1>0, <2>3, <3>0, WrittenRow DEF Settles
    <3>2. \A x \in Call : x # c => pc'[x] = pc[x]
      BY <1>0, <2>3 DEF Settles, TypeOK
    <3>3. CASE Ledgered(u)
      <4>1. b = account[u].balance + Due(c) /\ (c \in Debit => b >= 0) /\ pc'[c] \in {"ok", "taken"}
        BY <2>3, <3>0, <3>3 DEF Ledgered, Settles
      <4>2. LedgerBalance[u] = account[u].balance
        BY <3>0, <3>3 DEF LedgerBalance
      <4>3. LedgerChange[c].user = u /\ LedgerChange[c].by = Due(c)
        BY DEF LedgerChange, Due
      <4>4. LedgerBalance' = [LedgerBalance EXCEPT ![u] = @ + Due(c)]
        BY <2>1, <3>0, <3>1, <3>3, <4>1 DEF LedgerBalance
      <4>5. Posted' = Posted \cup {c}
        BY <2>0, <2>1, <3>0, <3>2, <3>3, <4>1, <1>0, Arguments DEF Posted
      <4> QED
        BY <2>1, <3>0, <4>1, <4>2, <4>3, <4>4, <4>5
           DEF TheLedger!Post, LedgerBalance, LedgerChange
    <3>4. CASE ~Ledgered(u)
      <4>1. LedgerBalance' = LedgerBalance
        BY <2>1, <3>0, <3>1, <3>4 DEF LedgerBalance
      <4>2. Posted' = Posted
        BY <2>0, <2>1, <3>0, <3>2, <3>4, <1>0, Arguments DEF Posted
      <4> QED
        BY <4>1, <4>2
    <3> QED
      BY <3>3, <3>4
  <2> QED
    BY <1>2, <2>1, <2>2, <2>3, SettleStep DEF TheLedger!LedgerNext
<1> QED
  BY <1>1, <1>2

\* Nothing is posted before the first call.
LEMMA LedgerStart == Init => TheLedger!LedgerInit
<1> SUFFICES ASSUME Init PROVE TheLedger!LedgerInit
  OBVIOUS
<1>1. TypeOK
  BY InitIInv DEF IInv
<1>2. LedgerChange \in [Call -> [user : User, by : Int]]
  BY <1>1, Arguments DEF LedgerChange
<1>3. LedgerBalance \in [User -> Nat]
  BY OpeningBalances DEF LedgerBalance
<1>4. Posted = {}
  BY DEF Init, Posted
<1> QED
  BY <1>2, <1>3, <1>4 DEF TheLedger!LedgerInit, LedgerChange, LedgerBalance

\* Charges and unrouted debits are in the balance once and in full, those that
\* failed or met a conflict are not (chargeBalance..., processPaymentWith...): each
\* account that no routed payment works on follows the ledger.
THEOREM AccountsImplementLedger == Spec => BalancesFollowLedger
<1> QED
  BY LedgerStart, LedgerStep, Inductive, PTL DEF Spec, BalancesFollowLedger, TheLedger!LedgerSpec
=============================================================================
