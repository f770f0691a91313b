----------------------------- MODULE WaitingQueue -----------------------------
(***************************************************************************)
(* The waiting queue: tokens are issued as WAITING rows, a cron job makes  *)
(* the oldest of them ACTIVE, another expires those that were active too   *)
(* long, a guard lets calls with an ACTIVE token through, and a payment    *)
(* expires the token it was made with.  Rows are the committed state of    *)
(* the table queue; an issuing transaction's row appears when it commits.  *)
(***************************************************************************)
EXTENDS Integers, FiniteSets

CONSTANTS
  Token,               \* calls of issueToken, and the rows they insert
  Activator, Expirer,  \* runs of the two cron jobs that may be in flight at once
  Limit,               \* how many tokens one run activates
  Ttl,                 \* how long a token stays active
  MaxTime              \* bound on the clock, for model checking

ASSUME QueueAssumption ==
  /\ IsFiniteSet(Token)
  /\ Activator \cap Expirer = {}
  /\ Limit \in Nat \ {0}
  /\ Ttl \in Nat
  /\ MaxTime \in Nat

VARIABLES
  now,        \* the clock every process reads with new Date()
  lastOrder,  \* the auto-increment counter of the table
  issuePc,    \* how far the call of issueToken is
  row,        \* the row it inserted: its order and its createdtime
  status,     \* the committed status of the row, "none" before the commit
  activated,  \* its activatedtime
  number,     \* the queue number in the token handed out
  earlier,    \* history: the tokens handed out before this call took its time
  payPc,      \* how far a payment made with the token is
  runPc,      \* how far each run of a cron job is
  batch,      \* the tokens it found
  stamp       \* the activatedtime it will write

tokens == <<lastOrder, issuePc, row, number, earlier>>
jobs == <<runPc, batch, stamp>>
vars == <<now, lastOrder, issuePc, row, status, activated, number, earlier, payPc,
          runPc, batch, stamp>>

Run == Activator \cup Expirer

Status == {"none", "WAITING", "ACTIVE", "EXPIRE"}

IssuePc == {"start", "stamped", "inserted", "numbered", "issued", "failed"}

TypeOK ==
  /\ now \in Nat
  /\ lastOrder \in Nat
  /\ issuePc \in [Token -> IssuePc]
  /\ row \in [Token -> [order : Nat, createdtime : Nat]]
  /\ status \in [Token -> Status]
  /\ activated \in [Token -> Nat]
  /\ number \in [Token -> Nat]
  /\ earlier \in [Token -> SUBSET Token]
  /\ payPc \in [Token -> {"none", "admitted", "paid", "failed"}]
  /\ runPc \in [Run -> {"idle", "found", "stamped"}]
  /\ batch \in [Run -> SUBSET Token]
  /\ stamp \in [Run -> Nat]

\* The orders the seeded rows may have got.
Numbering(seeded) ==
  {f \in [Token -> 0 .. Cardinality(seeded)] :
     /\ \A t \in Token : t \in seeded <=> f[t] # 0
     /\ \A t, u \in seeded : t # u => f[t] # f[u]}

\* onModuleInit seeds some tokens that are ACTIVE from the start.
Init ==
  \E seeded \in SUBSET Token :
  /\ now = 0
  /\ lastOrder = Cardinality(seeded)
  /\ issuePc = [t \in Token |-> IF t \in seeded THEN "issued" ELSE "start"]
  /\ \E f \in Numbering(seeded) : row = [t \in Token |-> [order |-> f[t], createdtime |-> 0]]
  /\ status = [t \in Token |-> IF t \in seeded THEN "ACTIVE" ELSE "none"]
  /\ activated = [t \in Token |-> 0]
  /\ number = [t \in Token |-> 0]
  /\ earlier = [t \in Token |-> {}]
  /\ payPc = [t \in Token |-> "none"]
  /\ runPc = [r \in Run |-> "idle"]
  /\ batch = [r \in Run |-> {}]
  /\ stamp = [r \in Run |-> 0]

-----------------------------------------------------------------------------
(* issueToken: start -> stamped -> inserted -> numbered -> issued            *)

\* createdtime: new Date(), before the INSERT is on its way.
StampToken(t) ==
  /\ issuePc[t] = "start"
  /\ issuePc' = [issuePc EXCEPT ![t] = "stamped"]
  /\ row' = [row EXCEPT ![t].createdtime = now]
  /\ earlier' = [earlier EXCEPT ![t] = {u \in Token : issuePc[u] = "issued"}]
  /\ UNCHANGED <<now, lastOrder, status, activated, number, payPc, jobs>>

\* INSERT: the row gets its number now, and is visible to others later.
InsertToken(t) ==
  /\ issuePc[t] = "stamped"
  /\ issuePc' = [issuePc EXCEPT ![t] = "inserted"]
  /\ lastOrder' = lastOrder + 1
  /\ row' = [row EXCEPT ![t].order = lastOrder + 1]
  /\ UNCHANGED <<now, status, activated, number, earlier, payPc, jobs>>

\* The rows status = 'WAITING' OR status = 'ACTIVE' AND order < :order matches:
\* AND binds stronger.
Counted(t, visible) ==
  {u \in Token : \/ visible[u] = "WAITING"
                 \/ visible[u] = "ACTIVE" /\ row[u].order < row[t].order}

\* The transaction counts the committed rows and its own.
NumberToken(t) ==
  LET visible == [status EXCEPT ![t] = "WAITING"] IN
  /\ issuePc[t] = "inserted"
  /\ issuePc' = [issuePc EXCEPT ![t] = "numbered"]
  /\ number' = [number EXCEPT ![t] = Cardinality(Counted(t, visible)) + 1]
  /\ UNCHANGED <<now, lastOrder, row, status, activated, earlier, payPc, jobs>>

CommitToken(t) ==
  /\ issuePc[t] = "numbered"
  /\ issuePc' = [issuePc EXCEPT ![t] = "issued"]
  /\ status' = [status EXCEPT ![t] = "WAITING"]
  /\ UNCHANGED <<now, lastOrder, row, activated, number, earlier, payPc, jobs>>

\* A database error rolls the row back; its order number is used up.
FailIssue(t) ==
  /\ issuePc[t] \in {"start", "stamped", "inserted", "numbered"}
  /\ issuePc' = [issuePc EXCEPT ![t] = "failed"]
  /\ UNCHANGED <<now, lastOrder, row, status, activated, number, earlier, payPc, jobs>>

Issue(t) ==
  StampToken(t) \/ InsertToken(t) \/ NumberToken(t) \/ CommitToken(t) \/ FailIssue(t)

-----------------------------------------------------------------------------
(* activateQueueTokens, every minute: idle -> found -> stamped -> idle       *)

AnyRow(t) == status[t] # "none"

\* where: { status: 'WAITING' }
Waiting(t) == status[t] = "WAITING"

LatestFirst(t, u) == row[t].createdtime >= row[u].createdtime

\* order: { createdtime: 'ASC' }; MySQL may break ties either way.
NotAfter(t, u) == row[t].createdtime <= row[u].createdtime

\* skip: Limit
SkipOldest(picked, all) ==
  /\ picked \subseteq all
  /\ Cardinality(picked) + Limit = Cardinality(all)
  /\ \A t \in picked, u \in all \ picked : NotAfter(u, t)

AllOfThem(picked, all) == picked = all

\* take: Limit
Oldest(picked, all) ==
  /\ picked \subseteq all
  /\ Cardinality(picked) = IF Cardinality(all) < Limit THEN Cardinality(all) ELSE Limit
  /\ \A t \in picked, u \in all \ picked : NotAfter(t, u)

FindWaiting(a) ==
  /\ runPc[a] = "idle"
  /\ \E picked \in SUBSET Token \ {{}} :
       /\ Oldest(picked, {t \in Token : Waiting(t)})
       /\ batch' = [batch EXCEPT ![a] = picked]
  /\ runPc' = [runPc EXCEPT ![a] = "found"]
  /\ UNCHANGED <<now, tokens, status, activated, payPc, stamp>>

\* activatedtime: new Date(), before the UPDATE is on its way.
StampActivation(a) ==
  /\ runPc[a] = "found"
  /\ runPc' = [runPc EXCEPT ![a] = "stamped"]
  /\ stamp' = [stamp EXCEPT ![a] = now]
  /\ UNCHANGED <<now, tokens, status, activated, payPc, batch>>

\* UPDATE ... WHERE order IN (ids), whatever those rows hold by now.
ActivateTokens(a) ==
  /\ runPc[a] = "stamped"
  /\ status' = [t \in Token |-> IF t \in batch[a] THEN "ACTIVE" ELSE status[t]]
  /\ activated' = [t \in Token |-> IF t \in batch[a] THEN stamp[a] ELSE activated[t]]
  /\ runPc' = [runPc EXCEPT ![a] = "idle"]
  /\ batch' = [batch EXCEPT ![a] = {}]
  /\ UNCHANGED <<now, tokens, payPc, stamp>>

-----------------------------------------------------------------------------
(* expireOldActiveTokens, every minute: idle -> found -> idle                *)

DueWhileFresh(t) == status[t] = "ACTIVE" /\ activated[t] + Ttl > now

DueUnlessExpired(t) == status[t] # "EXPIRE" /\ activated[t] + Ttl < now

\* status = 'ACTIVE' AND activatedtime < now - 5 minutes
Due(t) == status[t] = "ACTIVE" /\ activated[t] + Ttl < now

FindExpired(e) ==
  LET due == {t \in Token : Due(t)} IN
  /\ runPc[e] = "idle"
  /\ due # {}
  /\ runPc' = [runPc EXCEPT ![e] = "found"]
  /\ batch' = [batch EXCEPT ![e] = due]
  /\ UNCHANGED <<now, tokens, status, activated, payPc, stamp>>

ExpireTokens(e) ==
  /\ runPc[e] = "found"
  /\ status' = [t \in Token |-> IF t \in batch[e] THEN "EXPIRE" ELSE status[t]]
  /\ runPc' = [runPc EXCEPT ![e] = "idle"]
  /\ batch' = [batch EXCEPT ![e] = {}]
  /\ UNCHANGED <<now, tokens, activated, payPc, stamp>>

\* Errors are caught and logged; the next run starts over.
FailRun(r) ==
  /\ runPc[r] # "idle"
  /\ runPc' = [runPc EXCEPT ![r] = "idle"]
  /\ batch' = [batch EXCEPT ![r] = {}]
  /\ UNCHANGED <<now, tokens, status, activated, payPc, stamp>>

-----------------------------------------------------------------------------
(* Calls made with a token.                                                  *)

\* TokenStateGuard: isTokenActive, once, before the handler runs.
Admit(t) ==
  /\ payPc[t] = "none"
  /\ status[t] = "ACTIVE"
  /\ payPc' = [payPc EXCEPT ![t] = "admitted"]
  /\ UNCHANGED <<now, tokens, status, activated, jobs>>

\* The payment commits, and with it updateTokenState(uuid, 'EXPIRE').  The UUID has no
\* index, so from this UPDATE to the commit the payment owns every row of the table and
\* nobody else writes in between: one step.
CommitPayment(t) ==
  /\ payPc[t] = "admitted"
  /\ payPc' = [payPc EXCEPT ![t] = "paid"]
  /\ status' = [status EXCEPT ![t] = "EXPIRE"]
  /\ UNCHANGED <<now, tokens, activated, jobs>>

\* The payment rolls back; the token stays as it is.
FailPayment(t) ==
  /\ payPc[t] = "admitted"
  /\ payPc' = [payPc EXCEPT ![t] = "failed"]
  /\ UNCHANGED <<now, tokens, status, activated, jobs>>

-----------------------------------------------------------------------------
Tick ==
  /\ now < MaxTime
  /\ now' = now + 1
  /\ UNCHANGED <<tokens, status, activated, payPc, jobs>>

\* All tokens issued, the clock at its bound, the jobs idle: only then may
\* nothing happen.
Finished ==
  /\ now = MaxTime
  /\ \A t \in Token : issuePc[t] \in {"issued", "failed"}
  /\ \A r \in Run : runPc[r] = "idle"
  /\ UNCHANGED vars

Next ==
  \/ \E t \in Token : Issue(t) \/ Admit(t) \/ CommitPayment(t) \/ FailPayment(t)
  \/ \E a \in Activator : FindWaiting(a) \/ StampActivation(a) \/ ActivateTokens(a) \/ FailRun(a)
  \/ \E e \in Expirer : FindExpired(e) \/ ExpireTokens(e) \/ FailRun(e)
  \/ Tick
  \/ Finished

\* Time passes, and of each job's runs some get through: payments that own the whole
\* table end, and the pool has connections for the jobs.
Fairness ==
  /\ WF_vars(Tick)
  /\ \A a \in Activator :
       WF_vars(FindWaiting(a)) /\ SF_vars(StampActivation(a)) /\ SF_vars(ActivateTokens(a))
  /\ \A e \in Expirer : WF_vars(FindExpired(e)) /\ SF_vars(ExpireTokens(e))

Spec == Init /\ [][Next]_vars /\ Fairness

-----------------------------------------------------------------------------
(* Properties                                                                *)

\* Once expired, by the job or by a payment, a token never opens the guard
\* again, although activateTokens writes by id whatever the row holds by then.
ExpireIsFinal == [][\A t \in Token : status[t] = "EXPIRE" => status'[t] = "EXPIRE"]_vars

\* A token goes from WAITING to ACTIVE before it goes to EXPIRE, and loses its
\* access only when its time is over or its payment committed, never by a run
\* of the job that judged an older state of the row.
ExpiredForCause ==
  [][\A t \in Token :
       status[t] # "EXPIRE" /\ status'[t] = "EXPIRE" =>
         /\ status[t] = "ACTIVE"
         /\ activated[t] + Ttl < now \/ payPc'[t] = "paid"]_vars

\* First come, first served: a token handed out before another call had even
\* taken its time is not left waiting while that other one is let in.
FirstComeFirstServed ==
  \A t, u \in Token :
    /\ t \in earlier[u]
    /\ row[t].createdtime < row[u].createdtime
    /\ status[u] \in {"ACTIVE", "EXPIRE"}
    => status[t] # "WAITING"

\* The tokens that were handed out, and dated, before this one took its time.
Ahead(t) ==
  IF status[t] = "none" THEN {} ELSE {u \in earlier[t] : row[u].createdtime < row[t].createdtime}

TheTurns == INSTANCE Turns WITH
  turn  <- status,
  since <- activated,
  ahead <- [t \in Token |-> Ahead(t)],
  paid  <- {t \in Token : payPc[t] = "paid"}

\* The calls and jobs together are a queue: at most Limit at a time are let in, past
\* nobody who is ahead, on the waiting list as it is and not as it was read, and
\* access is neither prolonged nor cut short.
QueueTakesTurns == TheTurns!TurnsSpec

\* Nobody waits for ever: every token issued becomes ACTIVE, however many others
\* come and however often a run fails.
EveryTokenActivated == \A t \in Token : status[t] = "WAITING" ~> status[t] = "ACTIVE"

\* Access ends: an active token (activated early enough for the bounded clock)
\* is expired in the end.
EveryTokenExpires ==
  \A t \in Token :
    (status[t] = "ACTIVE" /\ activated[t] + Ttl < MaxTime) ~> status[t] = "EXPIRE"

\* The position getMyQueuePosition answers is the number of tokens ahead.
PositionCountsAhead ==
  \A t \in Token :
    status[t] = "WAITING" =>
      Counted(t, status)
        = {u \in Token : status[u] \in {"WAITING", "ACTIVE"} /\ row[u].order < row[t].order}

-----------------------------------------------------------------------------
(* The inductive invariant behind the safety properties.                     *)

\* ExpireIsFinal needs it: of two runs that found the same row, the later one would
\* activate it again after it was expired.
SingleActivator == \A a, b \in Activator : a = b

\* What a run of activateQueueTokens found is waiting until it activates it.
BatchWaits == \A a \in Activator : \A t \in batch[a] : status[t] = "WAITING"

\* What a run of expireOldActiveTokens found is due until it expires it, or paid.
BatchDue ==
  \A e \in Expirer : \A t \in batch[e] :
    \/ status[t] = "ACTIVE" /\ activated[t] + Ttl < now
    \/ status[t] = "EXPIRE"

\* A token has a status from its commit on, and a payment was let in by an
\* ACTIVE one.
StatusInv ==
  \A t \in Token :
    /\ (status[t] = "none") = (issuePc[t] # "issued")
    /\ payPc[t] # "none" => status[t] \in {"ACTIVE", "EXPIRE"}

\* The token a payment was made with is not ACTIVE again.
PaidIsExpired == \A t \in Token : payPc[t] = "paid" => status[t] = "EXPIRE"

\* The jobs find committed rows, expireOldActiveTokens those that were ACTIVE.
FoundInv ==
  /\ \A a \in Activator : \A t \in batch[a] : status[t] # "none"
  /\ \A e \in Expirer : \A t \in batch[e] : status[t] \in {"ACTIVE", "EXPIRE"}

\* The history holds tokens that were handed out, and one never comes back.
EarlierIssued == \A u \in Token : \A t \in earlier[u] : issuePc[t] = "issued"

\* Whoever was handed out earlier also precedes in every batch.
BatchInOrder ==
  \A a \in Activator : \A u \in batch[a] : \A t \in earlier[u] :
    row[t].createdtime < row[u].createdtime /\ status[t] = "WAITING" => t \in batch[a]

\* What keeps the queue in order, however many runs of either job overlap.
OrderInv ==
  TypeOK /\ StatusInv /\ FoundInv /\ EarlierIssued /\ BatchInOrder /\ FirstComeFirstServed

\* A run of activateQueueTokens found no more than it may, and read the clock first.
BatchFits ==
  \A a \in Activator :
    /\ Cardinality(batch[a]) <= Limit
    /\ runPc[a] = "stamped" => stamp[a] <= now

\* What also keeps the access of its tokens, under SingleActivator.
IInv == OrderInv /\ PaidIsExpired /\ BatchWaits /\ BatchDue /\ BatchFits
=============================================================================
