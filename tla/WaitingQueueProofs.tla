-------------------------- MODULE WaitingQueueProofs --------------------------
(***************************************************************************)
(* Theorems about WaitingQueue: its types, its inductive invariant, first  *)
(* come first served, that expiry is for cause and final, and that it      *)
(* implements Turns.                                                       *)
(***************************************************************************)
EXTENDS WaitingQueue, FiniteSetTheorems, TLAPS

USE QueueAssumption DEF QueueAssumption

\* The position query counts finitely many rows.
LEMMA CountType ==
  ASSUME NEW T \in SUBSET Token
  PROVE  Cardinality(T) \in Nat
BY FS_Subset, FS_CardinalityType

\* The initial states are well typed.
LEMMA InitType == Init => TypeOK
<1> SUFFICES ASSUME Init PROVE TypeOK
  OBVIOUS
<1>1. PICK seeded \in SUBSET Token :
        /\ lastOrder = Cardinality(seeded)
        /\ issuePc = [t \in Token |-> IF t \in seeded THEN "issued" ELSE "start"]
        /\ \E f \in Numbering(seeded) : row = [t \in Token |-> [order |-> f[t], createdtime |-> 0]]
        /\ status = [t \in Token |-> IF t \in seeded THEN "ACTIVE" ELSE "none"]
  BY DEF Init
<1>2. row \in [Token -> [order : Nat, createdtime : Nat]]
  <2>1. PICK f \in Numbering(seeded) : row = [t \in Token |-> [order |-> f[t], createdtime |-> 0]]
    BY <1>1
  <2>2. \A t \in Token : f[t] \in Nat
    BY <1>1, CountType DEF Numbering
  <2> QED
    BY <2>1, <2>2
<1>3. lastOrder \in Nat
  BY <1>1, CountType
<1>4. issuePc \in [Token -> IssuePc] /\ status \in [Token -> Status]
  BY <1>1 DEF IssuePc, Status
<1> QED
  BY <1>2, <1>3, <1>4 DEF Init, TypeOK

\* Issuing a token keeps the types.
LEMMA IssueType ==
  ASSUME TypeOK, NEW t \in Token, Issue(t)
  PROVE  TypeOK'
<1> USE DEF TypeOK, IssuePc, Status, jobs
<1>1. CASE StampToken(t)
  BY <1>1 DEF StampToken
<1>2. CASE InsertToken(t)
  BY <1>2 DEF InsertToken
<1>3. CASE NumberToken(t)
  <2> DEFINE visible == [status EXCEPT ![t] = "WAITING"]
  <2>1. Cardinality(Counted(t, visible)) + 1 \in Nat
    BY CountType DEF Counted
  <2> QED
    BY <1>3, <2>1 DEF NumberToken
<1>4. CASE CommitToken(t)
  BY <1>4 DEF CommitToken
<1>5. CASE FailIssue(t)
  BY <1>5 DEF FailIssue
<1> QED
  BY <1>1, <1>2, <1>3, <1>4, <1>5 DEF Issue

\* Every step, whichever action it is, keeps the types.
LEMMA TypeStep == TypeOK /\ [Next]_vars => TypeOK'
<1> SUFFICES ASSUME TypeOK, [Next]_vars PROVE TypeOK'
  OBVIOUS
<1> USE DEF TypeOK, Status, Run, tokens, jobs
<1>1. ASSUME NEW t \in Token, Admit(t) \/ CommitPayment(t) \/ FailPayment(t)
      PROVE  TypeOK'
  BY <1>1 DEF Admit, CommitPayment, FailPayment
<1>2. ASSUME NEW a \in Activator,
             FindWaiting(a) \/ StampActivation(a) \/ ActivateTokens(a) \/ FailRun(a)
      PROVE  TypeOK'
  <2>1. CASE FindWaiting(a)
    BY <2>1 DEF FindWaiting
  <2>2. CASE StampActivation(a)
    BY <2>2 DEF StampActivation
  <2>3. CASE ActivateTokens(a)
    BY <2>3 DEF ActivateTokens
  <2>4. CASE FailRun(a)
    BY <2>4 DEF FailRun
  <2> QED
    BY <1>2, <2>1, <2>2, <2>3, <2>4
<1>3. ASSUME NEW e \in Expirer, FindExpired(e) \/ ExpireTokens(e) \/ FailRun(e)
      PROVE  TypeOK'
  <2>1. CASE FindExpired(e)
    BY <2>1 DEF FindExpired
  <2>2. CASE ExpireTokens(e)
    BY <2>2 DEF ExpireTokens
  <2>3. CASE FailRun(e)
    BY <2>3 DEF FailRun
  <2> QED
    BY <1>3, <2>1, <2>2, <2>3
<1>4. CASE Tick
  BY <1>4 DEF Tick
<1>5. CASE UNCHANGED vars
  BY <1>5 DEF vars
<1> QED
  BY <1>1, <1>2, <1>3, <1>4, <1>5, IssueType DEF Next, Finished

-----------------------------------------------------------------------------
(* What a step does to the status of a token.                                *)

\* However many runs overlap, a token that waits leaves only with a run that found it,
\* and no token waits again.
Advances(t) ==
  \/ status'[t] = status[t]
  \/ status[t] = "none" /\ status'[t] = "WAITING"
  \/ /\ status[t] = "WAITING" /\ status'[t] = "ACTIVE"
     /\ \E a \in Activator : t \in batch[a] /\ ActivateTokens(a)
  \/ status[t] \in {"ACTIVE", "EXPIRE"} /\ status'[t] \in {"ACTIVE", "EXPIRE"}

\* Every step advances each token or leaves its status alone.
LEMMA AdvanceStep ==
  ASSUME OrderInv, Next
  PROVE  \A t \in Token : Advances(t)
<1>0. TypeOK /\ StatusInv /\ FoundInv
  BY DEF OrderInv
<1> USE DEF Advances
<1>1. ASSUME NEW u \in Token, Issue(u)
      PROVE  \A t \in Token : Advances(t)
  BY <1>0, <1>1
     DEF TypeOK, StatusInv, Issue, StampToken, InsertToken, NumberToken, CommitToken, FailIssue
<1>2. ASSUME NEW u \in Token, Admit(u) \/ CommitPayment(u) \/ FailPayment(u)
      PROVE  \A t \in Token : Advances(t)
  BY <1>0, <1>2 DEF TypeOK, StatusInv, Admit, CommitPayment, FailPayment
<1>3. ASSUME NEW a \in Activator, FindWaiting(a) \/ StampActivation(a) \/ FailRun(a)
      PROVE  \A t \in Token : Advances(t)
  BY <1>3 DEF FindWaiting, StampActivation, FailRun
<1>4. ASSUME NEW a \in Activator, ActivateTokens(a)
      PROVE  \A t \in Token : Advances(t)
  <2> SUFFICES ASSUME NEW t \in Token PROVE Advances(t)
    OBVIOUS
  <2>1. status'[t] = IF t \in batch[a] THEN "ACTIVE" ELSE status[t]
    BY <1>4 DEF ActivateTokens
  <2>2. t \in batch[a] => status[t] # "none"
    BY <1>0 DEF FoundInv
  <2>3. status[t] \in Status
    BY <1>0 DEF TypeOK
  <2> QED
    BY <1>4, <2>1, <2>2, <2>3 DEF Status
<1>5. ASSUME NEW e \in Expirer, FindExpired(e) \/ ExpireTokens(e) \/ FailRun(e)
      PROVE  \A t \in Token : Advances(t)
  BY <1>0, <1>5 DEF TypeOK, FoundInv, FindExpired, ExpireTokens, FailRun
<1>6. CASE Tick \/ Finished
  BY <1>6 DEF Tick, Finished, vars
<1> QED
  BY <1>1, <1>2, <1>3, <1>4, <1>5, <1>6 DEF Next

\* From WAITING to ACTIVE to EXPIRE, each for its reason, and never back: with one
\* run of activateQueueTokens at a time, writing by id hits no other row.
Moves(t) ==
  \/ status'[t] = status[t]
  \/ status[t] = "none" /\ status'[t] = "WAITING" /\ issuePc[t] = "numbered"
  \/ status[t] = "WAITING" /\ status'[t] = "ACTIVE"
  \/ /\ status[t] = "ACTIVE" /\ status'[t] = "EXPIRE"
     /\ activated[t] + Ttl < now \/ payPc'[t] = "paid"

\* Every step moves each token's status that way or not at all.
LEMMA StatusStep ==
  ASSUME IInv, Next
  PROVE  \A t \in Token : Moves(t)
<1>0. TypeOK /\ BatchWaits /\ BatchDue /\ StatusInv
  BY DEF IInv, OrderInv
<1> USE DEF Moves
<1>1. ASSUME NEW u \in Token, Issue(u)
      PROVE  \A t \in Token : Moves(t)
  BY <1>0, <1>1
     DEF TypeOK, StatusInv, Issue, StampToken, InsertToken, NumberToken, CommitToken, FailIssue
<1>2. ASSUME NEW u \in Token, Admit(u) \/ CommitPayment(u) \/ FailPayment(u)
      PROVE  \A t \in Token : Moves(t)
  BY <1>0, <1>2 DEF TypeOK, StatusInv, Admit, CommitPayment, FailPayment
<1>3. ASSUME NEW a \in Activator,
             FindWaiting(a) \/ StampActivation(a) \/ ActivateTokens(a) \/ FailRun(a)
      PROVE  \A t \in Token : Moves(t)
  BY <1>0, <1>3
     DEF TypeOK, BatchWaits, FindWaiting, StampActivation, ActivateTokens, FailRun
<1>4. ASSUME NEW e \in Expirer, FindExpired(e) \/ ExpireTokens(e) \/ FailRun(e)
      PROVE  \A t \in Token : Moves(t)
  BY <1>0, <1>4 DEF TypeOK, BatchDue, FindExpired, ExpireTokens, FailRun
<1>5. CASE Tick \/ Finished
  BY <1>5 DEF Tick, Finished, vars
<1> QED
  BY <1>1, <1>2, <1>3, <1>4, <1>5 DEF Next

\* The time and the history of a token are written by StampToken only, before the
\* token has a status.
LEMMA StampStep ==
  ASSUME TypeOK, Next
  PROVE  \A t \in Token :
           \/ earlier'[t] = earlier[t] /\ row'[t].createdtime = row[t].createdtime
           \/ /\ issuePc[t] = "start" /\ issuePc'[t] = "stamped"
              /\ earlier'[t] = {u \in Token : issuePc[u] = "issued"}
              /\ status' = status /\ batch' = batch /\ \A u \in Token : u # t => row'[u] = row[u]
<1>1. ASSUME NEW u \in Token, Issue(u)
      PROVE  \A t \in Token :
           \/ earlier'[t] = earlier[t] /\ row'[t].createdtime = row[t].createdtime
           \/ /\ issuePc[t] = "start" /\ issuePc'[t] = "stamped"
              /\ earlier'[t] = {x \in Token : issuePc[x] = "issued"}
              /\ status' = status /\ batch' = batch /\ \A x \in Token : x # t => row'[x] = row[x]
  BY <1>1 DEF TypeOK, Issue, StampToken, InsertToken, NumberToken, CommitToken, FailIssue, jobs
<1>2. ASSUME \A u \in Token : ~Issue(u)
      PROVE  UNCHANGED <<earlier, row>>
  BY <1>2 DEF Next, Admit, CommitPayment, FailPayment, FindWaiting, StampActivation,
              ActivateTokens, FailRun, FindExpired, ExpireTokens, Tick, Finished, tokens, vars
<1> QED
  BY <1>1, <1>2

\* A token that was handed out stays so.
LEMMA IssuedStays ==
  ASSUME TypeOK, Next
  PROVE  \A t \in Token : issuePc[t] = "issued" => issuePc'[t] = "issued"
BY DEF TypeOK, Next, Issue, StampToken, InsertToken, NumberToken, CommitToken, FailIssue,
       Admit, CommitPayment, FailPayment, FindWaiting, StampActivation, ActivateTokens, FailRun,
       FindExpired, ExpireTokens, Tick, Finished, tokens, vars

-----------------------------------------------------------------------------
(* The parts of the inductive invariant, one lemma each.                     *)

\* Seeded tokens are ACTIVE, nothing is waiting, found or paid for.
LEMMA InitIInv == Init => IInv
<1> SUFFICES ASSUME Init PROVE IInv
  OBVIOUS
<1>1. TypeOK
  BY InitType
<1>2. \A t \in Token : (status[t] = "none") = (issuePc[t] # "issued") /\ status[t] # "WAITING"
  BY DEF Init
<1>3. \A r \in Run : batch[r] = {}
  BY DEF Init
<1>4. \A t \in Token : earlier[t] = {} /\ payPc[t] = "none"
  BY DEF Init
<1>5. BatchFits
  BY <1>3, FS_EmptySet DEF Init, BatchFits, Run
<1> QED
  BY <1>1, <1>2, <1>3, <1>4, <1>5
     DEF IInv, OrderInv, PaidIsExpired, FoundInv, BatchWaits, BatchDue, StatusInv,
         EarlierIssued, BatchInOrder, FirstComeFirstServed, Run

\* A run's batch stays, is dropped, or is what the run just found.
LEMMA BatchStep ==
  ASSUME TypeOK, Next
  PROVE  \A r \in Run :
           \/ batch'[r] = batch[r]
           \/ batch'[r] = {}
           \/ r \in Activator /\ FindWaiting(r)
           \/ r \in Expirer /\ FindExpired(r)
<1> DEFINE Kept(r) ==
      \/ batch'[r] = batch[r]
      \/ batch'[r] = {}
      \/ r \in Activator /\ FindWaiting(r)
      \/ r \in Expirer /\ FindExpired(r)
<1> SUFFICES \A r \in Run : Kept(r)
  OBVIOUS
<1>1. ASSUME NEW u \in Token, Issue(u) \/ Admit(u) \/ CommitPayment(u) \/ FailPayment(u)
      PROVE  batch' = batch
  BY <1>1 DEF Issue, StampToken, InsertToken, NumberToken, CommitToken, FailIssue, Admit,
              CommitPayment, FailPayment, jobs
<1>2. ASSUME NEW a \in Activator,
             FindWaiting(a) \/ StampActivation(a) \/ ActivateTokens(a) \/ FailRun(a)
      PROVE  \A r \in Run : Kept(r)
  BY <1>2 DEF TypeOK, FindWaiting, StampActivation, ActivateTokens, FailRun
<1>3. ASSUME NEW e \in Expirer, FindExpired(e) \/ ExpireTokens(e) \/ FailRun(e)
      PROVE  \A r \in Run : Kept(r)
  BY <1>3 DEF TypeOK, FindExpired, ExpireTokens, FailRun
<1>4. CASE Tick \/ Finished
  BY <1>4 DEF Tick, Finished, jobs, vars
<1> QED
  BY <1>1, <1>2, <1>3, <1>4 DEF Next

\* Time does not run back, and only waiting tokens get an activatedtime.
LEMMA ClockStep ==
  ASSUME TypeOK, BatchWaits, Next
  PROVE  now' >= now /\ \A t \in Token : activated'[t] = activated[t] \/ status[t] = "WAITING"
<1>1. ASSUME NEW u \in Token, Issue(u) \/ Admit(u) \/ CommitPayment(u) \/ FailPayment(u)
      PROVE  UNCHANGED <<now, activated>>
  BY <1>1 DEF Issue, StampToken, InsertToken, NumberToken, CommitToken, FailIssue, Admit,
              CommitPayment, FailPayment
<1>2. ASSUME NEW a \in Activator,
             FindWaiting(a) \/ StampActivation(a) \/ ActivateTokens(a) \/ FailRun(a)
      PROVE  now' = now /\ \A t \in Token : activated'[t] = activated[t] \/ status[t] = "WAITING"
  BY <1>2 DEF TypeOK, BatchWaits, FindWaiting, StampActivation, ActivateTokens, FailRun
<1>3. ASSUME NEW e \in Expirer, FindExpired(e) \/ ExpireTokens(e) \/ FailRun(e)
      PROVE  UNCHANGED <<now, activated>>
  BY <1>3 DEF FindExpired, ExpireTokens, FailRun
<1>4. CASE Tick \/ Finished
  BY <1>4 DEF TypeOK, Tick, Finished, vars
<1> QED
  BY <1>1, <1>2, <1>3, <1>4 DEF Next, TypeOK

\* What an activation run found keeps waiting: only that run activates.
LEMMA BatchWaitsStep ==
  ASSUME SingleActivator, IInv, Next
  PROVE  BatchWaits'
<1> SUFFICES ASSUME NEW a \in Activator, NEW t \in batch'[a] PROVE status'[t] = "WAITING"
  BY DEF BatchWaits
<1>0. TypeOK /\ OrderInv /\ BatchWaits /\ a \in Run /\ a \notin Expirer
  BY DEF IInv, OrderInv, Run
<1>1. t \in Token
  BY <1>0, TypeStep DEF TypeOK
<1>2. CASE FindWaiting(a)
  BY <1>0, <1>1, <1>2 DEF FindWaiting, Oldest, Waiting, TypeOK
<1>3. CASE batch'[a] = batch[a]
  <2>1. status[t] = "WAITING"
    BY <1>0, <1>3 DEF BatchWaits
  <2>2. ASSUME status'[t] = "ACTIVE" PROVE FALSE
    <3>1. PICK b \in Activator : ActivateTokens(b)
      BY <1>0, <1>1, <2>1, <2>2, AdvanceStep DEF Advances
    <3>2. b = a
      BY DEF SingleActivator
    <3> QED
      BY <1>0, <3>1, <3>2 DEF ActivateTokens, TypeOK
  <2> QED
    BY <1>1, <2>1, <2>2, StatusStep DEF Moves
<1> QED
  BY <1>0, <1>2, <1>3, BatchStep

\* What an expiry run found stays due: nobody gives it a later activatedtime.
LEMMA BatchDueStep ==
  ASSUME IInv, Next
  PROVE  BatchDue'
<1> SUFFICES ASSUME NEW e \in Expirer, NEW t \in batch'[e]
             PROVE  \/ status'[t] = "ACTIVE" /\ activated'[t] + Ttl < now'
                    \/ status'[t] = "EXPIRE"
  BY DEF BatchDue
<1>0. TypeOK /\ TypeOK' /\ BatchWaits /\ BatchDue /\ e \in Run /\ e \notin Activator
  BY TypeStep DEF IInv, OrderInv, Run
<1>1. t \in Token
  BY <1>0 DEF TypeOK
<1>2. CASE FindExpired(e)
  BY <1>0, <1>1, <1>2 DEF FindExpired, Due, TypeOK
<1>3. CASE batch'[e] = batch[e]
  <2>1. status'[t] = status[t] \/ status'[t] = "EXPIRE"
    BY <1>0, <1>1, <1>3, StatusStep DEF Moves, BatchDue
  <2>2. CASE status[t] = "ACTIVE"
    <3>1. activated'[t] = activated[t] /\ now' >= now
      BY <1>0, <1>1, <2>2, ClockStep
    <3>2. activated[t] + Ttl < now
      BY <1>0, <1>3, <2>2 DEF BatchDue
    <3>3. activated[t] \in Nat /\ now \in Nat /\ now' \in Nat
      BY <1>0, <1>1 DEF TypeOK
    <3> QED
      BY <2>1, <2>2, <3>1, <3>2, <3>3
  <2> QED
    BY <1>0, <1>3, <2>1, <2>2 DEF BatchDue
<1> QED
  BY <1>0, <1>2, <1>3, BatchStep

\* A status follows the commit, and payments the guard.
LEMMA StatusInvStep ==
  ASSUME OrderInv, Next
  PROVE  StatusInv'
<1>0. TypeOK /\ StatusInv /\ FoundInv
  BY DEF OrderInv
<1>1. ASSUME NEW u \in Token, Issue(u)
      PROVE  StatusInv'
  BY <1>0, <1>1 DEF TypeOK, StatusInv, Issue, StampToken, InsertToken, NumberToken,
                    CommitToken, FailIssue
<1>2. ASSUME NEW u \in Token, Admit(u) \/ CommitPayment(u) \/ FailPayment(u)
      PROVE  StatusInv'
  BY <1>0, <1>2 DEF TypeOK, StatusInv, Admit, CommitPayment, FailPayment, tokens
<1>3. ASSUME NEW a \in Activator,
             FindWaiting(a) \/ StampActivation(a) \/ ActivateTokens(a) \/ FailRun(a)
      PROVE  StatusInv'
  BY <1>0, <1>3 DEF TypeOK, StatusInv, FoundInv, FindWaiting, StampActivation,
                    ActivateTokens, FailRun, tokens
<1>4. ASSUME NEW e \in Expirer, FindExpired(e) \/ ExpireTokens(e) \/ FailRun(e)
      PROVE  StatusInv'
  BY <1>0, <1>4 DEF TypeOK, StatusInv, FoundInv, FindExpired, ExpireTokens, FailRun, tokens
<1>5. CASE Tick \/ Finished
  BY <1>0, <1>5 DEF StatusInv, Tick, Finished, tokens, vars
<1> QED
  BY <1>1, <1>2, <1>3, <1>4, <1>5 DEF Next

\* What a run found has not gone back to another status.
LEMMA FoundInvStep ==
  ASSUME OrderInv, Next
  PROVE  FoundInv'
<1>0. TypeOK /\ FoundInv /\ TypeOK'
  BY TypeStep DEF OrderInv
<1>1. ASSUME NEW a \in Activator, NEW t \in batch'[a]
      PROVE  status'[t] # "none"
  <2>0. a \in Run /\ a \notin Expirer /\ t \in Token
    BY <1>0 DEF TypeOK, Run
  <2>1. CASE FindWaiting(a)
    BY <1>0, <2>0, <2>1 DEF FindWaiting, Oldest, Waiting, TypeOK
  <2>2. CASE batch'[a] = batch[a]
    BY <1>0, <2>0, <2>2, AdvanceStep DEF FoundInv, Advances
  <2> QED
    BY <1>0, <2>0, <2>1, <2>2, BatchStep
<1>2. ASSUME NEW e \in Expirer, NEW t \in batch'[e]
      PROVE  status'[t] \in {"ACTIVE", "EXPIRE"}
  <2>0. e \in Run /\ e \notin Activator /\ t \in Token
    BY <1>0 DEF TypeOK, Run
  <2>1. CASE FindExpired(e)
    BY <1>0, <2>0, <2>1 DEF FindExpired, Due, TypeOK
  <2>2. CASE batch'[e] = batch[e]
    BY <1>0, <2>0, <2>2, AdvanceStep DEF FoundInv, Advances
  <2> QED
    BY <1>0, <2>0, <2>1, <2>2, BatchStep
<1> QED
  BY <1>1, <1>2 DEF FoundInv

\* A payment expires its token, and expired it stays.
LEMMA PaidIsExpiredStep ==
  ASSUME IInv, Next
  PROVE  PaidIsExpired'
<1>0. TypeOK /\ PaidIsExpired
  BY DEF IInv, OrderInv
<1>1. ASSUME NEW t \in Token, payPc'[t] = "paid"
      PROVE  payPc[t] = "paid" \/ status'[t] = "EXPIRE"
  BY <1>0, <1>1 DEF TypeOK, Next, Issue, StampToken, InsertToken, NumberToken, CommitToken,
       FailIssue, Admit, CommitPayment, FailPayment, FindWaiting, StampActivation,
       ActivateTokens, FailRun, FindExpired, ExpireTokens, Tick, Finished, vars
<1> QED
  BY <1>0, <1>1, StatusStep DEF Moves, PaidIsExpired

\* No run finds more than Limit, and the clock it has read does not run ahead.
LEMMA BatchFitsStep ==
  ASSUME IInv, Next
  PROVE  BatchFits'
<1> SUFFICES ASSUME NEW a \in Activator
             PROVE  /\ Cardinality(batch'[a]) <= Limit
                    /\ runPc'[a] = "stamped" => stamp'[a] <= now'
  BY DEF BatchFits
<1>0. TypeOK /\ BatchWaits /\ BatchFits /\ a \in Run /\ a \notin Expirer
  BY DEF IInv, OrderInv, Run
<1>1. Cardinality(batch'[a]) <= Limit
  <2>1. CASE FindWaiting(a)
    <3>1. Oldest(batch'[a], {t \in Token : Waiting(t)})
      BY <1>0, <2>1 DEF FindWaiting, TypeOK
    <3>2. Cardinality({t \in Token : Waiting(t)}) \in Nat
      BY CountType
    <3> QED
      BY <3>1, <3>2 DEF Oldest
  <2>2. CASE batch'[a] = batch[a]
    BY <1>0, <2>2 DEF BatchFits
  <2>3. CASE batch'[a] = {}
    BY <2>3, FS_EmptySet
  <2> QED
    BY <1>0, <2>1, <2>2, <2>3, BatchStep
<1>2. ASSUME runPc'[a] = "stamped"
      PROVE  stamp'[a] = now \/ (stamp'[a] = stamp[a] /\ runPc[a] = "stamped")
  <2>1. ASSUME NEW b \in Activator,
               FindWaiting(b) \/ StampActivation(b) \/ ActivateTokens(b) \/ FailRun(b)
        PROVE  stamp'[a] = now \/ (stamp'[a] = stamp[a] /\ runPc[a] = "stamped")
    BY <1>0, <1>2, <2>1
       DEF TypeOK, Run, FindWaiting, StampActivation, ActivateTokens, FailRun
  <2>2. ASSUME NEW e \in Expirer, FindExpired(e) \/ ExpireTokens(e) \/ FailRun(e)
        PROVE  stamp'[a] = stamp[a] /\ runPc[a] = "stamped"
    BY <1>0, <1>2, <2>2 DEF TypeOK, Run, FindExpired, ExpireTokens, FailRun
  <2>3. ASSUME NEW u \in Token, Issue(u) \/ Admit(u) \/ CommitPayment(u) \/ FailPayment(u)
        PROVE  UNCHANGED <<runPc, stamp>>
    BY <2>3 DEF Issue, StampToken, InsertToken, NumberToken, CommitToken, FailIssue, Admit,
                CommitPayment, FailPayment, jobs
  <2>4. CASE Tick \/ Finished
    BY <1>2, <2>4 DEF Tick, Finished, jobs, vars
  <2> QED
    BY <1>2, <2>1, <2>2, <2>3, <2>4 DEF Next
<1>3. now' >= now /\ now \in Nat /\ now' \in Nat /\ stamp[a] \in Nat
  BY <1>0, ClockStep, TypeStep DEF TypeOK
<1>4. runPc[a] = "stamped" => stamp[a] <= now
  BY <1>0 DEF BatchFits
<1> QED
  BY <1>1, <1>2, <1>3, <1>4

\* The history of a call is fixed when it takes its time, and tokens stay handed out.
LEMMA EarlierIssuedStep ==
  ASSUME OrderInv, Next
  PROVE  EarlierIssued'
<1> SUFFICES ASSUME NEW u \in Token, NEW t \in earlier'[u] PROVE issuePc'[t] = "issued"
  BY DEF EarlierIssued
<1>0. TypeOK /\ EarlierIssued
  BY DEF OrderInv
<1>1. t \in Token /\ issuePc[t] = "issued"
  BY <1>0, StampStep DEF TypeOK, EarlierIssued
<1> QED
  BY <1>0, <1>1, IssuedStays

\* Of a token with a status, neither the time nor the history changes.
LEMMA OrderStep ==
  ASSUME TypeOK, Next, NEW t \in Token, issuePc[t] = "issued"
  PROVE  earlier'[t] = earlier[t] /\ row'[t].createdtime = row[t].createdtime
BY StampStep

\* Of a token handed out, WAITING after a step means WAITING before it.
LEMMA StillWaiting ==
  ASSUME OrderInv, Next, NEW t \in Token, issuePc[t] = "issued", status'[t] = "WAITING"
  PROVE  status[t] = "WAITING"
BY AdvanceStep DEF Advances, OrderInv, StatusInv

\* A run finds the older tokens before the younger ones, and its batch stays whole.
LEMMA BatchInOrderStep ==
  ASSUME OrderInv, Next
  PROVE  BatchInOrder'
<1> SUFFICES ASSUME NEW a \in Activator, NEW u \in batch'[a], NEW t \in earlier'[u],
                    row'[t].createdtime < row'[u].createdtime, status'[t] = "WAITING"
             PROVE  t \in batch'[a]
  BY DEF BatchInOrder
<1>0. TypeOK /\ TypeOK' /\ StatusInv /\ FoundInv /\ EarlierIssued /\ BatchInOrder
  BY TypeStep DEF OrderInv
<1>1. a \in Run /\ a \notin Expirer /\ u \in Token /\ t \in Token
  BY <1>0 DEF TypeOK, Run
<1>2. CASE FindWaiting(a)
  <2>1. UNCHANGED <<row, status, earlier>>
    BY <1>2 DEF FindWaiting, tokens
  <2>2. Oldest(batch'[a], {x \in Token : status[x] = "WAITING"})
    BY <1>0, <1>1, <1>2 DEF FindWaiting, Waiting, TypeOK
  <2>3. ~(row[u].createdtime <= row[t].createdtime)
    BY <1>0, <1>1, <2>1 DEF TypeOK
  <2> QED
    BY <1>1, <2>1, <2>2, <2>3 DEF Oldest, NotAfter
<1>3. CASE batch'[a] = batch[a]
  <2>1. issuePc[u] = "issued"
    BY <1>0, <1>1, <1>3 DEF FoundInv, StatusInv
  <2>2. earlier'[u] = earlier[u] /\ row'[u].createdtime = row[u].createdtime
    BY <1>0, <1>1, <2>1, OrderStep
  <2>3. issuePc[t] = "issued"
    BY <1>0, <1>1, <2>2 DEF EarlierIssued
  <2>4. row'[t].createdtime = row[t].createdtime
    BY <1>0, <1>1, <2>3, OrderStep
  <2>5. status[t] = "WAITING"
    BY <1>1, <2>3, StillWaiting
  <2> QED
    BY <1>0, <1>3, <2>2, <2>4, <2>5 DEF BatchInOrder
<1> QED
  BY <1>0, <1>1, <1>2, <1>3, BatchStep

\* A token is let in by a run only together with, or after, all that precede it.
LEMMA FirstComeFirstServedStep ==
  ASSUME OrderInv, Next
  PROVE  FirstComeFirstServed'
<1> SUFFICES ASSUME NEW t \in Token, NEW u \in Token, t \in earlier'[u],
                    row'[t].createdtime < row'[u].createdtime,
                    status'[u] \in {"ACTIVE", "EXPIRE"}, status'[t] = "WAITING"
             PROVE  FALSE
  BY DEF FirstComeFirstServed
<1>0. /\ TypeOK /\ StatusInv /\ EarlierIssued /\ BatchInOrder /\ FirstComeFirstServed
      /\ Advances(u)
  BY AdvanceStep DEF OrderInv
<1>1. status[u] # "none"
  BY <1>0 DEF Advances
<1>2. earlier'[u] = earlier[u] /\ row'[u].createdtime = row[u].createdtime
  BY <1>0, <1>1, OrderStep DEF StatusInv
<1>3. issuePc[t] = "issued"
  BY <1>0, <1>2 DEF EarlierIssued
<1>4. row'[t].createdtime = row[t].createdtime
  BY <1>0, <1>3, OrderStep
<1>5. status[t] = "WAITING"
  BY <1>3, StillWaiting
<1>6. PICK a \in Activator : u \in batch[a] /\ ActivateTokens(a)
  BY <1>0, <1>2, <1>4, <1>5 DEF Advances, FirstComeFirstServed
<1>7. t \in batch[a]
  BY <1>0, <1>2, <1>4, <1>5, <1>6 DEF BatchInOrder
<1> QED
  BY <1>6, <1>7 DEF ActivateTokens

\* Every step keeps the order, however many runs overlap.
LEMMA OrderInvStep ==
  ASSUME OrderInv, [Next]_vars
  PROVE  OrderInv'
<1>1. TypeOK'
  BY TypeStep DEF OrderInv
<1>2. CASE Next
  BY <1>1, <1>2, StatusInvStep, FoundInvStep, EarlierIssuedStep, BatchInOrderStep,
     FirstComeFirstServedStep DEF OrderInv
<1>3. CASE UNCHANGED vars
  BY <1>1, <1>3 DEF vars, OrderInv, StatusInv, FoundInv, EarlierIssued, BatchInOrder,
                    FirstComeFirstServed
<1> QED
  BY <1>2, <1>3

\* With one activation run at a time, every step keeps the whole invariant.
LEMMA IInvStep ==
  ASSUME SingleActivator, IInv, [Next]_vars
  PROVE  IInv'
<1>1. OrderInv'
  BY OrderInvStep DEF IInv
<1>2. CASE Next
  BY <1>1, <1>2, PaidIsExpiredStep, BatchWaitsStep, BatchDueStep, BatchFitsStep DEF IInv
<1>3. CASE UNCHANGED vars
  BY <1>1, <1>3 DEF vars, IInv, PaidIsExpired, BatchWaits, BatchDue, BatchFits
<1> QED
  BY <1>2, <1>3

-----------------------------------------------------------------------------
(* WaitingQueue implements Turns.                                            *)

\* The seeded tokens are in, the others outside, and nobody is ahead of anybody.
LEMMA TurnsStart == Init => TheTurns!TurnsInit
BY DEF Init, Ahead, TheTurns!TurnsInit

\* Who is ahead of a token is fixed when it is handed out.
LEMMA AheadStays ==
  ASSUME OrderInv, Next, NEW t \in Token, status[t] # "none" \/ status'[t] = "none"
  PROVE  Ahead(t)' = Ahead(t)
<1>0. TypeOK /\ StatusInv /\ EarlierIssued /\ Advances(t)
  BY AdvanceStep DEF OrderInv
<1>1. CASE status[t] = "none"
  BY <1>1 DEF Ahead
<1>2. CASE status[t] # "none"
  <2>1. status'[t] # "none"
    BY <1>0, <1>2 DEF Advances
  <2>2. earlier'[t] = earlier[t] /\ row'[t].createdtime = row[t].createdtime
    BY <1>0, <1>2, OrderStep DEF StatusInv
  <2>3. \A u \in earlier[t] : row'[u].createdtime = row[u].createdtime
    BY <1>0, OrderStep DEF EarlierIssued, TypeOK
  <2> QED
    BY <1>2, <2>1, <2>2, <2>3 DEF Ahead
<1> QED
  BY <1>1, <1>2

\* Only the commit of its call gives a token its status.
LEMMA AheadChanges ==
  ASSUME OrderInv, Next, \A t \in Token : status[t] # "none" \/ status'[t] = "none"
  PROVE  [t \in Token |-> Ahead(t)]' = [t \in Token |-> Ahead(t)]
<1>1. \A t \in Token : Ahead(t)' = Ahead(t)
  BY AheadStays
<1> QED
  BY <1>1

\* A step that touches no status, no activatedtime and no payment is none of Turns.
LEMMA QuietStep ==
  ASSUME OrderInv, Next, UNCHANGED <<now, status, activated, payPc>>
  PROVE  UNCHANGED TheTurns!turnVars
<1>1. [t \in Token |-> Ahead(t)]' = [t \in Token |-> Ahead(t)]
  BY AheadChanges
<1> QED
  BY <1>1 DEF TheTurns!turnVars

\* A call takes its place behind those handed out and dated before.
LEMMA JoinStep ==
  ASSUME OrderInv, Next, NEW u \in Token, CommitToken(u)
  PROVE  TheTurns!Join(u)
<1>0. TypeOK /\ StatusInv /\ EarlierIssued
  BY DEF OrderInv
<1>1. status[u] = "none" /\ status' = [status EXCEPT ![u] = "WAITING"]
  BY <1>0 DEF CommitToken, StatusInv
<1>2. \A t \in Token \ {u} : Ahead(t)' = Ahead(t)
  BY <1>0, <1>1, AheadStays DEF TypeOK
<1>3. Ahead(u)' \subseteq {t \in Token : status[t] # "none"}
  <2>1. earlier' = earlier
    BY DEF CommitToken
  <2>2. earlier[u] \subseteq {t \in Token : status[t] # "none"}
    BY <1>0 DEF TypeOK, EarlierIssued, StatusInv
  <2> QED
    BY <2>1, <2>2 DEF Ahead
<1>4. [t \in Token |-> Ahead(t)]' = [[t \in Token |-> Ahead(t)] EXCEPT ![u] = Ahead(u)']
  BY <1>2
<1>5. UNCHANGED <<now, activated, payPc>>
  BY DEF CommitToken
<1> QED
  BY <1>1, <1>3, <1>4, <1>5 DEF TheTurns!Join

\* A payment ends the turn it was let in by.
LEMMA PayWithStep ==
  ASSUME OrderInv, Next, NEW u \in Token, CommitPayment(u)
  PROVE  TheTurns!PayWith(u)
<1>0. TypeOK /\ StatusInv
  BY DEF OrderInv
<1>1. /\ status[u] \in {"ACTIVE", "EXPIRE"} /\ status' = [status EXCEPT ![u] = "EXPIRE"]
      /\ payPc[u] # "paid" /\ payPc' = [payPc EXCEPT ![u] = "paid"]
      /\ UNCHANGED <<now, activated>>
  BY <1>0 DEF CommitPayment, StatusInv
<1>2. [t \in Token |-> Ahead(t)]' = [t \in Token |-> Ahead(t)]
  <2>1. \A t \in Token : status[t] # "none" \/ status'[t] = "none"
    BY <1>0, <1>1 DEF TypeOK
  <2> QED
    BY <2>1, AheadChanges
<1>3. {t \in Token : payPc[t] = "paid"}' = {t \in Token : payPc[t] = "paid"} \cup {u}
  BY <1>0, <1>1 DEF TypeOK
<1> QED
  BY <1>1, <1>2, <1>3 DEF TheTurns!PayWith

\* A run lets in what it found: all of it still waits, and with all that is ahead.
LEMMA LetInStep ==
  ASSUME IInv, Next, NEW a \in Activator, ActivateTokens(a)
  PROVE  TheTurns!LetIn(batch[a])
<1>0. TypeOK /\ OrderInv /\ BatchInOrder /\ BatchWaits /\ BatchFits /\ a \in Run
  BY DEF IInv, OrderInv, Run
<1>1. Cardinality(batch[a]) <= Limit /\ stamp[a] \in 0 .. now
  BY <1>0 DEF BatchFits, TypeOK, ActivateTokens
<1>2. \A t \in batch[a] : t \in Token /\ status[t] = "WAITING"
  BY <1>0 DEF TypeOK, BatchWaits
<1>3. \A t \in batch[a] : \A u \in Ahead(t) : status[u] = "WAITING" => u \in batch[a]
  BY <1>0, <1>2 DEF Ahead, BatchInOrder
<1>4. \A t \in batch[a] : \A u \in [v \in Token |-> Ahead(v)][t] :
        status[u] = "WAITING" => u \in batch[a]
  BY <1>2, <1>3
<1>5. [t \in Token |-> Ahead(t)]' = [t \in Token |-> Ahead(t)]
  <2>1. \A t \in Token : status[t] # "none" \/ status'[t] = "none"
    BY <1>2 DEF ActivateTokens
  <2> QED
    BY <1>0, <2>1, AheadChanges
<1>6. /\ status' = [t \in Token |-> IF t \in batch[a] THEN "ACTIVE" ELSE status[t]]
      /\ activated' = [t \in Token |-> IF t \in batch[a] THEN stamp[a] ELSE activated[t]]
      /\ UNCHANGED <<now, payPc>>
  BY DEF ActivateTokens
<1>7. \E at \in 0 .. now :
        activated' = [t \in Token |-> IF t \in batch[a] THEN at ELSE activated[t]]
  BY <1>1, <1>6
<1>8. {t \in Token : payPc[t] = "paid"}' = {t \in Token : payPc[t] = "paid"}
  BY <1>6
<1>9. TheTurns!Cardinality(batch[a]) = Cardinality(batch[a])
  BY DEF TheTurns!Cardinality, Cardinality
<1> QED
  BY <1>1, <1>2, <1>4, <1>5, <1>6, <1>7, <1>8, <1>9 DEF TheTurns!LetIn

\* A run ends the turns whose time is over; others in its batch were ended meanwhile.
LEMMA EndTurnsStep ==
  ASSUME IInv, Next, NEW e \in Expirer, ExpireTokens(e)
  PROVE  \E due \in SUBSET Token : TheTurns!EndTurns(due)
<1>0. TypeOK /\ OrderInv /\ BatchDue /\ e \in Run
  BY DEF IInv, OrderInv, Run
<1> DEFINE due == {t \in batch[e] : status[t] = "ACTIVE"}
<1>1. due \in SUBSET Token /\ \A t \in due : status[t] = "ACTIVE" /\ activated[t] + Ttl < now
  BY <1>0 DEF TypeOK, BatchDue
<1>2. status' = [t \in Token |-> IF t \in due THEN "EXPIRE" ELSE status[t]]
  BY <1>0 DEF TypeOK, BatchDue, ExpireTokens
<1>3. [t \in Token |-> Ahead(t)]' = [t \in Token |-> Ahead(t)]
  <2>1. \A t \in Token : status[t] # "none" \/ status'[t] = "none"
    BY <1>2
  <2> QED
    BY <1>0, <2>1, AheadChanges
<1>4. UNCHANGED <<now, activated, payPc>>
  BY DEF ExpireTokens
<1> HIDE DEF due
<1>5. TheTurns!EndTurns(due)
  BY <1>1, <1>2, <1>3, <1>4 DEF TheTurns!EndTurns
<1> QED
  BY <1>1, <1>5

\* Every step of the queue is one of Turns, or of no matter to it.
LEMMA TurnsStep ==
  ASSUME IInv, [Next]_vars
  PROVE  [TheTurns!TurnsNext]_(TheTurns!turnVars)
<1>0. TypeOK /\ OrderInv
  BY DEF IInv, OrderInv
<1>1. ASSUME NEW u \in Token, Next, Issue(u)
      PROVE  TheTurns!TurnsNext \/ UNCHANGED TheTurns!turnVars
  <2>1. CASE CommitToken(u)
    BY <1>0, <1>1, <2>1, JoinStep DEF TheTurns!TurnsNext
  <2>2. CASE ~CommitToken(u)
    <3>1. UNCHANGED <<now, status, activated, payPc>>
      BY <1>1, <2>2 DEF Issue, StampToken, InsertToken, NumberToken, FailIssue
    <3> QED
      BY <1>0, <1>1, <3>1, QuietStep
  <2> QED
    BY <2>1, <2>2
<1>2. ASSUME NEW u \in Token, Next, Admit(u) \/ FailPayment(u)
      PROVE  UNCHANGED TheTurns!turnVars
  <2>1. UNCHANGED <<now, status, activated>>
    BY <1>2 DEF Admit, FailPayment
  <2>2. {t \in Token : payPc[t] = "paid"}' = {t \in Token : payPc[t] = "paid"}
    BY <1>0, <1>2 DEF TypeOK, Admit, FailPayment
  <2>3. [t \in Token |-> Ahead(t)]' = [t \in Token |-> Ahead(t)]
    BY <1>0, <1>2, <2>1, AheadChanges
  <2> QED
    BY <2>1, <2>2, <2>3 DEF TheTurns!turnVars
<1>3. ASSUME NEW u \in Token, Next, CommitPayment(u)
      PROVE  TheTurns!TurnsNext
  BY <1>0, <1>3, PayWithStep DEF TheTurns!TurnsNext
<1>4. ASSUME NEW a \in Activator, Next, ActivateTokens(a)
      PROVE  TheTurns!TurnsNext
  <2>1. batch[a] \in SUBSET Token
    BY <1>0 DEF TypeOK, Run
  <2> QED
    BY <1>4, <2>1, LetInStep DEF TheTurns!TurnsNext
<1>5. ASSUME NEW r \in Run, Next,
             FindWaiting(r) \/ StampActivation(r) \/ FindExpired(r) \/ FailRun(r)
      PROVE  UNCHANGED TheTurns!turnVars
  <2>1. UNCHANGED <<now, status, activated, payPc>>
    BY <1>5 DEF FindWaiting, StampActivation, FindExpired, FailRun
  <2> QED
    BY <1>0, <1>5, <2>1, QuietStep
<1>6. ASSUME NEW e \in Expirer, Next, ExpireTokens(e)
      PROVE  TheTurns!TurnsNext
  BY <1>6, EndTurnsStep DEF TheTurns!TurnsNext
<1>7. CASE Next /\ Tick
  <2>1. UNCHANGED <<status, activated, payPc>> /\ now < MaxTime /\ now' = now + 1
    BY <1>7 DEF Tick
  <2>2. [t \in Token |-> Ahead(t)]' = [t \in Token |-> Ahead(t)]
    BY <1>0, <1>7, <2>1, AheadChanges
  <2>3. TheTurns!Pass
    BY <2>1, <2>2 DEF TheTurns!Pass
  <2> QED
    BY <2>3 DEF TheTurns!TurnsNext
<1>8. CASE UNCHANGED vars
  BY <1>8 DEF vars, Ahead, TheTurns!turnVars
<1> QED
  BY <1>1, <1>2, <1>3, <1>4, <1>5, <1>6, <1>7, <1>8 DEF Next, Run, Finished

-----------------------------------------------------------------------------
(* The theorems.                                                             *)

\* The queue's variables keep their types, however many runs overlap.
THEOREM TypeCorrect == Spec => []TypeOK
<1>1. Init => TypeOK
  BY InitType
<1>2. TypeOK /\ [Next]_vars => TypeOK'
  BY TypeStep
<1> QED
  BY <1>1, <1>2, PTL DEF Spec

\* The inductive invariant holds, with one run of activateQueueTokens at a time.
THEOREM Inductive ==
  ASSUME SingleActivator
  PROVE  Spec => []IInv
<1>1. Init => IInv
  BY InitIInv
<1>2. IInv /\ [Next]_vars => IInv'
  BY IInvStep
<1> QED
  BY <1>1, <1>2, PTL DEF Spec

\* First come, first served, for any number of callers, any batch size and any runs
\* of either job that overlap: who was handed a token before another took its time is
\* not overtaken by it.
THEOREM FirstServed == Spec => []FirstComeFirstServed
<1>1. Init => OrderInv
  BY InitIInv DEF IInv
<1>2. OrderInv /\ [Next]_vars => OrderInv'
  BY OrderInvStep
<1>3. OrderInv => FirstComeFirstServed
  BY DEF OrderInv
<1> QED
  BY <1>1, <1>2, <1>3, PTL DEF Spec

\* No step of a job, a payment or a late call gives an expired token its access back.
THEOREM ExpiryIsFinal ==
  ASSUME SingleActivator
  PROVE  Spec => ExpireIsFinal
<1>1. IInv /\ [Next]_vars =>
        [\A t \in Token : status[t] = "EXPIRE" => status'[t] = "EXPIRE"]_vars
  BY StatusStep DEF Moves
<1> QED
  BY <1>1, Inductive, PTL DEF Spec, ExpireIsFinal

\* A token loses its access only after its time, or to the payment made with it,
\* however many runs of expireOldActiveTokens overlap.
THEOREM ExpiryForCause ==
  ASSUME SingleActivator
  PROVE  Spec => ExpiredForCause
<1>1. IInv /\ [Next]_vars =>
        [\A t \in Token :
           status[t] # "EXPIRE" /\ status'[t] = "EXPIRE" =>
             /\ status[t] = "ACTIVE"
             /\ activated[t] + Ttl < now \/ payPc'[t] = "paid"]_vars
  BY StatusStep DEF Moves
<1> QED
  BY <1>1, Inductive, PTL DEF Spec, ExpiredForCause

\* With one run of activateQueueTokens at a time, calls, jobs and payments together
\* are the queue that Turns describes, however many runs of the expiry job overlap.
THEOREM QueueImplementsTurns ==
  ASSUME SingleActivator
  PROVE  Spec => QueueTakesTurns
<1>1. IInv /\ [Next]_vars => [TheTurns!TurnsNext]_(TheTurns!turnVars)
  BY TurnsStep
<1> QED
  BY <1>1, TurnsStart, Inductive, PTL DEF Spec, QueueTakesTurns, TheTurns!TurnsSpec
=============================================================================
