----------------------------- MODULE OrdersProofs -----------------------------
(***************************************************************************)
(* Theorems about Orders: no order of a successful payment is lost, the    *)
(* outbox calls processed only what was sent, nothing is sent again        *)
(* without a cause, however many runs of the job overlap, and all of it    *)
(* implements Delivery.                                                    *)
(***************************************************************************)
EXTENDS Orders, FiniteSetTheorems, TLAPS

USE OrdersAssumption DEF OrdersAssumption

\* Counting saturates, and never counts down.
LEMMA MoreCounts ==
  ASSUME NEW count \in [Payment -> 0..MaxCount], NEW p \in Payment
  PROVE  /\ More(count, p) \in [Payment -> 0..MaxCount]
         /\ More(count, p)[p] > 0
         /\ \A q \in Payment : count[q] > 0 => More(count, p)[q] > 0
         /\ \A q \in Payment : q # p => More(count, p)[q] = count[q]
BY DEF More

\* Every initial state satisfies the inductive invariant.
LEMMA InitIInv == Init => IInv
BY DEF Init, IInv, TypeOK, PayPc, SentInv, MarkInv, OrderSafe, ProcessedWasSent

\* A step of a payment keeps the inductive invariant.
LEMMA PayStep ==
  ASSUME IInv, NEW p \in Payment, Pay(p)
  PROVE  IInv'
<1>0. TypeOK /\ SentInv /\ MarkInv /\ OrderSafe /\ ProcessedWasSent
  BY DEF IInv
<1> USE DEF IInv, PayPc
<1>1. CASE Begin(p) \/ FindPerformance(p) \/ WriteRows(p) \/ Fail(p)
  BY <1>0, <1>1 DEF TypeOK, SentInv, MarkInv, OrderSafe, ProcessedWasSent, Begin, FindPerformance,
                    WriteRows, Fail, Goto
<1>2. CASE SendOrder(p)
  <2>1. copies' \in [Payment -> 0..MaxCount] /\ troubles' \in [Payment -> 0..MaxCount]
    BY <1>0, <1>2, MoreCounts DEF TypeOK, SendOrder
  <2>2. \A q \in Payment : copies[q] > 0 => copies'[q] > 0
    BY <1>0, <1>2, MoreCounts DEF TypeOK, SendOrder
  <2>3. payPc'[p] = "sent" => copies'[p] > 0
    BY <1>0, <1>2, MoreCounts DEF TypeOK, SendOrder, Goto
  <2> QED
    BY <1>0, <1>2, <2>1, <2>2, <2>3
       DEF TypeOK, SentInv, MarkInv, OrderSafe, ProcessedWasSent, SendOrder, Goto
<1>3. CASE SaveOutbox(p)
  BY <1>0, <1>3
     DEF TypeOK, SentInv, MarkInv, OrderSafe, ProcessedWasSent, SaveOutbox, Goto
<1>4. CASE Commit(p)
  BY <1>0, <1>4 DEF TypeOK, SentInv, MarkInv, OrderSafe, ProcessedWasSent, Commit, Goto
<1> QED
  BY <1>1, <1>2, <1>3, <1>4 DEF Pay

\* A step of the job keeps the inductive invariant.
LEMMA ProcessStep ==
  ASSUME IInv, NEW j \in Job, Process(j)
  PROVE  IInv'
<1>0. TypeOK /\ SentInv /\ MarkInv /\ OrderSafe /\ ProcessedWasSent
  BY DEF IInv
<1> USE DEF IInv
<1>1. CASE FindMessages(j)
  BY <1>0, <1>1 DEF TypeOK, SentInv, MarkInv, OrderSafe, ProcessedWasSent, FindMessages
<1>2. ASSUME NEW p \in Payment, Resend(j, p) \/ ResendFails(j, p) PROVE IInv'
  <2>1. copies' \in [Payment -> 0..MaxCount] /\ troubles' \in [Payment -> 0..MaxCount]
    BY <1>0, <1>2, MoreCounts DEF TypeOK, Resend, ResendFails
  <2>2. \A q \in Payment : copies[q] > 0 => copies'[q] > 0
    BY <1>0, <1>2, MoreCounts DEF TypeOK, Resend, ResendFails
  <2>3. marking' = marking \/ (marking' = [marking EXCEPT ![j] = p] /\ copies'[p] > 0)
    BY <1>0, <1>2, MoreCounts DEF TypeOK, Resend, ResendFails
  <2>4. UNCHANGED <<payPc, outbox>> /\ batch' \in [Job -> SUBSET Payment]
    BY <1>0, <1>2 DEF TypeOK, Resend, ResendFails
  <2>5. TypeOK' /\ MarkInv'
    BY <1>0, <2>1, <2>2, <2>3, <2>4 DEF TypeOK, MarkInv
  <2> QED
    BY <1>0, <2>2, <2>4, <2>5 DEF TypeOK, SentInv, OrderSafe, ProcessedWasSent
<1>3. CASE Mark(j)
  <2>1. marking[j] \in Payment /\ copies[marking[j]] > 0
    BY <1>0, <1>3 DEF TypeOK, MarkInv, Mark
  <2> QED
    BY <1>0, <1>3, <2>1 DEF TypeOK, SentInv, MarkInv, OrderSafe, ProcessedWasSent, Mark
<1>4. CASE MarkFails(j)
  <2>1. troubles' \in [Payment -> 0..MaxCount]
    BY <1>0, <1>4, MoreCounts DEF TypeOK, MarkFails
  <2> QED
    BY <1>0, <1>4, <2>1 DEF TypeOK, SentInv, MarkInv, OrderSafe, ProcessedWasSent, MarkFails
<1> QED
  BY <1>1, <1>2, <1>3, <1>4 DEF Process

\* The inductive invariant is inductive.
LEMMA IInvStep == IInv /\ [Next]_vars => IInv'
<1>1. CASE UNCHANGED vars
  BY <1>1 DEF IInv, TypeOK, SentInv, MarkInv, OrderSafe, ProcessedWasSent, vars
<1> QED
  BY <1>1, PayStep, ProcessStep DEF Next

-----------------------------------------------------------------------------
(* NoNeedlessCopy.                                                           *)

\* Counting adds at most one, and saturates at MaxCount.
LEMMA MoreAddsOne ==
  ASSUME NEW count \in [Payment -> 0..MaxCount], NEW p \in Payment
  PROVE  /\ More(count, p)[p] <= count[p] + 1
         /\ More(count, p)[p] = MaxCount \/ More(count, p)[p] = count[p] + 1
BY DEF More

\* Runs that hold or mark a message are finitely many.
LEMMA RunsFinite ==
  ASSUME NEW p \in Payment
  PROVE  /\ IsFiniteSet(Holding(p)) /\ Cardinality(Holding(p)) \in Nat
         /\ IsFiniteSet(Marking(p)) /\ Cardinality(Marking(p)) \in Nat
         /\ Cardinality(Job) \in Nat /\ Cardinality(Job) >= 1
<1>1. Holding(p) \subseteq Job /\ Marking(p) \subseteq Job
  BY DEF Holding, Marking
<1>2. IsFiniteSet(Holding(p)) /\ IsFiniteSet(Marking(p))
  BY <1>1, FS_Subset
<1>3. Cardinality(Job) \in Nat /\ Cardinality(Job) # 0
  BY FS_CardinalityType, FS_EmptySet
<1> QED
  BY <1>2, <1>3, FS_CardinalityType

\* Each run holds the message or marks it, not both: together at most all runs.
LEMMA RunsShareMessage ==
  ASSUME NEW p \in Payment, Holding(p) \cap Marking(p) = {}
  PROVE  Cardinality(Holding(p)) + Cardinality(Marking(p)) <= Cardinality(Job)
<1>1. Holding(p) \cup Marking(p) \subseteq Job
  BY DEF Holding, Marking
<1>2. Cardinality(Holding(p) \cup Marking(p)) <= Cardinality(Job)
  BY <1>1, FS_Subset
<1>3. Cardinality(Holding(p) \cup Marking(p))
        = Cardinality(Holding(p)) + Cardinality(Marking(p))
          - Cardinality(Holding(p) \cap Marking(p))
  BY RunsFinite, FS_Union
<1>4. Cardinality(Holding(p) \cap Marking(p)) = 0
  BY FS_EmptySet
<1> QED
  BY <1>2, <1>3, <1>4, RunsFinite

\* In the initial states nothing is sent, stored or found.
LEMMA InitCopyInv == Init => CopyInv
BY DEF Init, CopyInv, StageInv, BudgetInv, Holding, Marking

\* A step of a payment keeps the account of its copies.
LEMMA PayCopyStep ==
  ASSUME IInv, CopyInv, NEW q \in Payment, Pay(q)
  PROVE  CopyInv'
<1>0. TypeOK /\ StageInv /\ BudgetInv
  BY DEF IInv, CopyInv
<1>1. \A p \in Payment : Holding(p)' = Holding(p) /\ Marking(p)' = Marking(p)
  BY DEF Pay, Begin, FindPerformance, WriteRows, SendOrder, SaveOutbox, Commit, Fail,
         Holding, Marking
<1>2. CASE Begin(q) \/ FindPerformance(q) \/ WriteRows(q) \/ Commit(q) \/ Fail(q)
  <2>1. StageInv'
    BY <1>0, <1>1, <1>2
       DEF TypeOK, PayPc, StageInv, Begin, FindPerformance, WriteRows, Commit, Fail, Goto
  <2>2. BudgetInv'
    BY <1>0, <1>1, <1>2
       DEF TypeOK, PayPc, BudgetInv, Begin, FindPerformance, WriteRows, Commit, Fail, Goto
  <2> QED
    BY <2>1, <2>2 DEF CopyInv
<1>3. CASE SendOrder(q)
  <2>1. /\ payPc[q] = "written" /\ copies[q] = 0 /\ outbox[q] = "none"
        /\ payPc' = [payPc EXCEPT ![q] = "sent"] \/ payPc' = [payPc EXCEPT ![q] = "unsent"]
        /\ outbox' = outbox
    BY <1>0, <1>3 DEF SendOrder, Goto, StageInv
  <2>2. \A p \in Payment : p # q => copies'[p] = copies[p] /\ troubles'[p] = troubles[p]
    BY <1>0, <1>3, MoreCounts DEF SendOrder, TypeOK
  <2>3. StageInv'
    BY <1>0, <1>1, <2>1, <2>2 DEF TypeOK, PayPc, StageInv
  <2>4. copies'[q] <= 1 /\ (payPc'[q] = "unsent" => copies'[q] <= troubles'[q])
    BY <1>0, <1>3, <2>1, MoreCounts, MoreAddsOne DEF SendOrder, Goto, TypeOK
  <2>5. BudgetInv'
    BY <1>0, <1>1, <2>1, <2>2, <2>4 DEF TypeOK, PayPc, BudgetInv
  <2> QED
    BY <2>3, <2>5 DEF CopyInv
<1>4. CASE SaveOutbox(q)
  <2>1. StageInv'
    BY <1>0, <1>1, <1>4 DEF TypeOK, PayPc, StageInv, SaveOutbox, Goto
  <2>2. outbox[q] = "none"
    BY <1>0, <1>4 DEF StageInv, SaveOutbox
  <2>3. BudgetInv'
    BY <1>0, <1>1, <1>4, <2>2, RunsFinite DEF TypeOK, PayPc, BudgetInv, SaveOutbox, Goto
  <2> QED
    BY <2>1, <2>3 DEF CopyInv
<1> QED
  BY <1>2, <1>3, <1>4 DEF Pay

\* A step of the job keeps the account of the copies.
LEMMA ProcessCopyStep ==
  ASSUME IInv, CopyInv, NEW j \in Job, Process(j)
  PROVE  CopyInv'
<1>0. TypeOK /\ StageInv /\ BudgetInv
  BY DEF IInv, CopyInv
<1>1. CASE FindMessages(j)
  <2>1. \A p \in Payment : /\ Marking(p)' = Marking(p) /\ j \notin Marking(p)
                           /\ outbox[p] # "pending" => Holding(p)' = Holding(p)
                           /\ Holding(p)' \subseteq Holding(p) \cup {j}
    BY <1>0, <1>1 DEF TypeOK, FindMessages, Unprocessed, Holding, Marking
  <2>2. UNCHANGED <<payPc, outbox, copies, troubles>>
    BY <1>1 DEF FindMessages
  <2> QED
    BY <1>0, <2>1, <2>2 DEF CopyInv, StageInv, BudgetInv
<1>2. ASSUME NEW q \in Payment, Resend(j, q) \/ ResendFails(j, q) PROVE CopyInv'
  <2>0. /\ UNCHANGED <<payPc, outbox>> /\ marking[j] = None /\ j \in Holding(q)
        /\ j \notin Marking(q) /\ outbox[q] # "none"
    BY <1>0, <1>2 DEF Resend, ResendFails, Holding, Marking, StageInv
  <2>1. Holding(q)' = Holding(q) \ {j}
    BY <1>0, <1>2 DEF TypeOK, Resend, ResendFails, Holding
  <2>2. \A p \in Payment : p # q =>
          /\ Holding(p)' = Holding(p) /\ Marking(p)' = Marking(p)
          /\ copies'[p] = copies[p] /\ troubles'[p] = troubles[p]
    <3>1. \A p \in Payment : p # q => Holding(p)' = Holding(p) /\ Marking(p)' = Marking(p)
      BY <1>0, <1>2 DEF TypeOK, Resend, ResendFails, Holding, Marking
    <3>2. /\ copies' = copies \/ copies' = More(copies, q)
          /\ troubles' = troubles \/ troubles' = More(troubles, q)
      BY <1>2 DEF Resend, ResendFails
    <3> QED
      BY <1>0, <3>1, <3>2, MoreCounts DEF TypeOK
  <2>3. Marking(q)' = Marking(q) \/ Marking(q)' = Marking(q) \cup {j}
    BY <1>0, <1>2 DEF TypeOK, Resend, ResendFails, Marking
  <2>4. \/ troubles'[q] = MaxCount
        \/ /\ Marking(q)' = Marking(q)
           /\ copies'[q] <= copies[q] + (troubles'[q] - troubles[q])
           /\ troubles'[q] = troubles[q] \/ troubles'[q] = troubles[q] + 1
        \/ /\ Marking(q)' = Marking(q) \cup {j} /\ troubles'[q] = troubles[q]
           /\ copies'[q] <= copies[q] + 1
    BY <1>0, <1>2, MoreAddsOne DEF TypeOK, Resend, ResendFails, Marking
  <2>5. /\ copies[q] \in Nat /\ copies'[q] \in Nat /\ troubles[q] \in Nat /\ troubles'[q] \in Nat
        /\ outbox[q] \in {"pending", "processed"}
        /\ troubles[q] = MaxCount => troubles'[q] = MaxCount
    BY <1>0, <1>2, <2>0, MoreCounts, MoreAddsOne DEF TypeOK, Resend, ResendFails, More
  <2>6. /\ Cardinality(Holding(q) \ {j}) = Cardinality(Holding(q)) - 1
        /\ Cardinality(Marking(q) \cup {j}) = Cardinality(Marking(q)) + 1
    BY <2>0, RunsFinite, FS_RemoveElement, FS_AddElement
  <2>7. BudgetInv'
    <3>1. \/ troubles'[q] = MaxCount
          \/ outbox'[q] = "pending" /\ copies'[q] <= troubles'[q] + Cardinality(Marking(q)')
          \/ /\ outbox'[q] = "processed"
             /\ copies'[q] + Cardinality(Holding(q)') <= troubles'[q] + Cardinality(Job)
      <4>1. CASE outbox[q] = "pending" /\ troubles'[q] # MaxCount
        <5>1. copies[q] <= troubles[q] + Cardinality(Marking(q))
          BY <1>0, <2>5, <4>1 DEF BudgetInv
        <5>2. Cardinality(Marking(q)) \in Nat
          BY RunsFinite
        <5>3. CASE Marking(q)' = Marking(q)
          <6>1. copies'[q] <= copies[q] + (troubles'[q] - troubles[q])
            BY <2>0, <2>4, <4>1, <5>3
          <6> QED
            BY <2>0, <2>5, <4>1, <5>1, <5>2, <5>3, <6>1
        <5>4. CASE Marking(q)' = Marking(q) \cup {j}
          <6>1. copies'[q] <= copies[q] + 1 /\ troubles'[q] = troubles[q]
            BY <2>0, <2>4, <4>1, <5>4
          <6> QED
            BY <2>0, <2>5, <2>6, <4>1, <5>1, <5>2, <5>4, <6>1
        <5> QED
          BY <2>3, <5>3, <5>4
      <4>2. CASE outbox[q] = "processed" /\ troubles'[q] # MaxCount
        <5>1. copies[q] + Cardinality(Holding(q)) <= troubles[q] + Cardinality(Job)
          BY <1>0, <2>5, <4>2 DEF BudgetInv
        <5> QED
          BY <2>0, <2>1, <2>4, <2>5, <2>6, <4>2, <5>1, RunsFinite
      <4> QED
        BY <2>5, <4>1, <4>2
    <3> QED
      BY <1>0, <2>0, <2>2, <3>1 DEF BudgetInv
  <2>8. StageInv'
    BY <1>0, <2>0, <2>1, <2>2, <2>3 DEF StageInv
  <2> QED
    BY <2>7, <2>8 DEF CopyInv
<1>3. ASSUME NEW q \in Payment, q = marking[j], Mark(j) \/ MarkFails(j) PROVE CopyInv'
  <2>0. /\ j \in Marking(q) /\ outbox[q] # "none"
        /\ UNCHANGED <<payPc, copies, batch>>
        /\ \A p \in Payment : Holding(p)' = Holding(p)
    BY <1>0, <1>3 DEF TypeOK, Mark, MarkFails, Holding, Marking, StageInv
  <2>1. /\ Marking(q)' = Marking(q) \ {j}
        /\ \A p \in Payment : p # q =>
             /\ Marking(p)' = Marking(p) /\ troubles'[p] = troubles[p] /\ outbox'[p] = outbox[p]
    BY <1>0, <1>3, <2>0, MoreCounts DEF TypeOK, Mark, MarkFails, Marking
  <2>2. Cardinality(Marking(q) \ {j}) = Cardinality(Marking(q)) - 1
    BY <2>0, RunsFinite, FS_RemoveElement
  <2>3. \/ outbox'[q] = "processed" /\ troubles'[q] = troubles[q]
        \/ /\ outbox'[q] = outbox[q]
           /\ troubles'[q] = MaxCount \/ troubles'[q] = troubles[q] + 1
    BY <1>0, <1>3, <2>0, MoreAddsOne DEF TypeOK, Mark, MarkFails
  <2>4. /\ copies[q] \in Nat /\ troubles[q] \in Nat /\ troubles'[q] \in Nat
        /\ outbox[q] \in {"pending", "processed"}
        /\ troubles[q] = MaxCount => troubles'[q] = MaxCount
    BY <1>0, <1>3, <2>0, MoreCounts DEF TypeOK, Mark, MarkFails, More
  <2>5. Cardinality(Holding(q)) + Cardinality(Marking(q)) <= Cardinality(Job)
    BY <1>0, <2>0, RunsShareMessage DEF StageInv
  <2>6. StageInv'
    <3>1. /\ payPc[q] \in {"stored", "done", "failed"}
          /\ outbox'[q] # "none"
      BY <1>0, <2>0, <2>3 DEF StageInv
    <3> QED
      BY <1>0, <2>0, <2>1, <3>1 DEF StageInv
  <2>7. BudgetInv'
    <3>1. \/ troubles'[q] = MaxCount
          \/ outbox'[q] = "pending" /\ copies[q] <= troubles'[q] + Cardinality(Marking(q)')
          \/ /\ outbox'[q] = "processed"
             /\ copies[q] + Cardinality(Holding(q)) <= troubles'[q] + Cardinality(Job)
      BY <1>0, <2>0, <2>1, <2>2, <2>3, <2>4, <2>5, RunsFinite DEF BudgetInv
    <3> QED
      BY <1>0, <2>0, <2>1, <3>1 DEF BudgetInv
  <2> QED
    BY <2>6, <2>7 DEF CopyInv
<1>4. Mark(j) \/ MarkFails(j) => marking[j] \in Payment
  BY <1>0 DEF TypeOK, Mark, MarkFails
<1> QED
  BY <1>1, <1>2, <1>3, <1>4 DEF Process

\* The account of the copies is kept by every step.
LEMMA CopyStep == IInv /\ CopyInv /\ [Next]_vars => CopyInv'
<1>1. CASE UNCHANGED vars
  BY <1>1 DEF CopyInv, StageInv, BudgetInv, Holding, Marking, vars
<1> QED
  BY <1>1, PayCopyStep, ProcessCopyStep DEF Next

\* The account implies the property.
LEMMA CopyEnough == IInv /\ CopyInv => NoNeedlessCopy
<1> SUFFICES ASSUME IInv, CopyInv, NEW p \in Payment
             PROVE  copies[p] <= troubles[p] + Cardinality(Job) \/ troubles[p] = MaxCount
  BY DEF NoNeedlessCopy
<1>1. copies[p] \in Nat /\ troubles[p] \in Nat
  BY DEF IInv, TypeOK
<1>2. Cardinality(Holding(p)) + Cardinality(Marking(p)) <= Cardinality(Job)
  BY RunsShareMessage DEF CopyInv, StageInv
<1> QED
  BY <1>1, <1>2, RunsFinite DEF CopyInv, BudgetInv

-----------------------------------------------------------------------------
(* The theorems.                                                             *)

\* Every reachable state satisfies the inductive invariant, for any number of
\* payments, runs of the job and connections.
THEOREM Inductive == Spec => []IInv
<1> QED
  BY InitIInv, IInvStep, PTL DEF Spec

\* The order of a payment that succeeded is on the topic or owed by the outbox
\* (processPayment, processOutboxMessages).
THEOREM NoOrderLost == Spec => []OrderSafe
<1>1. IInv => OrderSafe
  BY DEF IInv
<1> QED
  BY <1>1, Inductive, PTL

\* What the outbox calls processed was sent, however many runs of the job overlap
\* (processOutboxMessages, markAsProcessed).
THEOREM OnlySentProcessed == Spec => []ProcessedWasSent
<1>1. IInv => ProcessedWasSent
  BY DEF IInv
<1> QED
  BY <1>1, Inductive, PTL

\* Every reachable state accounts for the copies of each message.
LEMMA CopiesAccounted == Spec => []CopyInv
<1>1. Init => CopyInv
  BY InitCopyInv
<1>2. IInv /\ CopyInv /\ [Next]_vars => CopyInv'
  BY CopyStep
<1> QED
  BY <1>1, <1>2, Inductive, PTL DEF Spec

\* No message is sent again without a cause: however many runs of the job overlap,
\* its copies are at most one per run and one per success that was not acknowledged
\* (processOutboxMessages, saveOutboxMessage).
THEOREM CopiesHaveCause == Spec => []NoNeedlessCopy
<1>1. IInv /\ CopyInv => NoNeedlessCopy
  BY CopyEnough
<1> QED
  BY <1>1, CopiesAccounted, Inductive, PTL

-----------------------------------------------------------------------------
(* Orders implements Delivery.                                               *)

\* An initial state is one of Delivery.
LEMMA DeliveryStarts == Init => TheDelivery!DeliveryInit
BY DEF Init, TheDelivery!DeliveryInit

\* The payment announces its order, or the outbox owes it, before it succeeds.
LEMMA PaymentDelivers ==
  ASSUME IInv, StageInv, NEW p \in Payment, Pay(p)
  PROVE  [TheDelivery!DeliveryNext]_(TheDelivery!deliveryVars)
<1>0. TypeOK /\ SentInv
  BY DEF IInv
<1> USE DEF TheDelivery!deliveryVars, TheDelivery!DeliveryNext, Goto
<1>1. CASE Begin(p) \/ FindPerformance(p)
  <2>1. payPc[p] \in {"start", "begun"} /\ UNCHANGED <<outbox, copies>>
    BY <1>1 DEF Begin, FindPerformance
  <2>2. PICK next \in {"begun", "looked", "failed"} : payPc' = [payPc EXCEPT ![p] = next]
    BY <1>1 DEF Begin, FindPerformance
  <2>3. TheDelivery!GiveUp(p) \/ UNCHANGED TheDelivery!deliveryVars
    BY <1>0, <2>1, <2>2 DEF TypeOK, TheDelivery!GiveUp
  <2> QED
    BY <2>3
<1>2. CASE SendOrder(p)
  <2>1. copies' = copies \/ copies' = More(copies, p)
    BY <1>2 DEF SendOrder
  <2>2. TheDelivery!Announce(p) \/ UNCHANGED TheDelivery!deliveryVars
    BY <1>0, <1>2, <2>1, MoreCounts DEF TypeOK, SendOrder, TheDelivery!Announce
  <2> QED
    BY <2>2
<1>3. CASE SaveOutbox(p)
  <2>1. TheDelivery!Owe(p)
    BY <1>0, <1>3 DEF TypeOK, StageInv, SaveOutbox, TheDelivery!Owe
  <2> QED
    BY <2>1
<1>4. CASE Commit(p)
  <2>1. TheDelivery!Succeed(p)
    BY <1>0, <1>4 DEF TypeOK, SentInv, Commit, TheDelivery!Succeed
  <2> QED
    BY <2>1
<1>5. CASE Fail(p)
  <2>1. TheDelivery!GiveUp(p)
    BY <1>0, <1>5 DEF TypeOK, Fail, TheDelivery!GiveUp
  <2> QED
    BY <2>1
<1>6. CASE WriteRows(p)
  <2>1. UNCHANGED TheDelivery!deliveryVars
    BY <1>0, <1>6 DEF TypeOK, WriteRows
  <2> QED
    BY <2>1
<1> QED
  BY <1>1, <1>2, <1>3, <1>4, <1>5, <1>6 DEF Pay

\* A run announces what the outbox owes and settles what was announced; to send or
\* mark a message of which another run was faster changes nothing.
LEMMA JobDelivers ==
  ASSUME IInv, StageInv, NEW j \in Job, Process(j)
  PROVE  [TheDelivery!DeliveryNext]_(TheDelivery!deliveryVars)
<1>0. TypeOK /\ MarkInv /\ ProcessedWasSent
  BY DEF IInv
<1> USE DEF TheDelivery!deliveryVars, TheDelivery!DeliveryNext
<1>1. CASE FindMessages(j) \/ MarkFails(j)
  BY <1>0, <1>1 DEF FindMessages, MarkFails
<1>2. ASSUME NEW p \in Payment, Resend(j, p) \/ ResendFails(j, p)
      PROVE  [TheDelivery!DeliveryNext]_(TheDelivery!deliveryVars)
  <2>1. copies' = copies \/ copies' = More(copies, p)
    BY <1>2 DEF Resend, ResendFails
  <2>2. UNCHANGED <<payPc, outbox>> /\ outbox[p] # "none"
    BY <1>2 DEF Resend, ResendFails, StageInv, Holding
  <2>3. CASE outbox[p] = "pending"
    <3>1. TheDelivery!Announce(p) \/ UNCHANGED TheDelivery!deliveryVars
      BY <1>0, <2>1, <2>2, <2>3, MoreCounts DEF TypeOK, TheDelivery!Announce
    <3> QED
      BY <3>1
  <2>4. CASE outbox[p] = "processed"
    <3>1. copies[p] > 0
      BY <1>0, <2>4 DEF ProcessedWasSent
    <3>2. copies'[p] > 0 /\ \A q \in Payment \ {p} : copies'[q] = copies[q]
      BY <1>0, <2>1, <3>1, MoreCounts DEF TypeOK
    <3> QED
      BY <2>2, <3>1, <3>2
  <2> QED
    BY <1>0, <2>2, <2>3, <2>4 DEF TypeOK
<1>3. CASE Mark(j)
  <2> DEFINE p == marking[j]
  <2>1. p \in Payment /\ copies[p] > 0 /\ outbox[p] \in {"pending", "processed"}
    BY <1>0, <1>3 DEF TypeOK, MarkInv, Mark, StageInv, Marking
  <2>2. UNCHANGED <<payPc, copies>> /\ outbox' = [outbox EXCEPT ![p] = "processed"]
    BY <1>3 DEF Mark
  <2> HIDE DEF p
  <2>3. CASE outbox[p] = "pending"
    <3>1. TheDelivery!Settle(p)
      BY <1>0, <2>1, <2>2, <2>3 DEF TypeOK, TheDelivery!Settle
    <3> QED
      BY <2>1, <3>1
  <2>4. CASE outbox[p] = "processed"
    <3>1. outbox' = outbox
      BY <1>0, <2>1, <2>2, <2>4 DEF TypeOK
    <3> QED
      BY <2>2, <3>1
  <2> QED
    BY <2>1, <2>3, <2>4
<1> QED
  BY <1>1, <1>2, <1>3 DEF Process

\* Payments and the outbox job deliver orders as Delivery promises, whatever fails
\* and however many runs overlap (processPayment, processOutboxMessages).
THEOREM OrdersImplementDelivery == Spec => OrdersDelivered
<1>1. IInv /\ CopyInv /\ [Next]_vars
        => [TheDelivery!DeliveryNext]_(TheDelivery!deliveryVars)
  <2>1. CASE UNCHANGED vars
    BY <2>1 DEF vars, TheDelivery!deliveryVars
  <2> QED
    BY <2>1, PaymentDelivers, JobDelivers DEF Next, CopyInv
<1> QED
  BY <1>1, DeliveryStarts, CopiesAccounted, Inductive, PTL
     DEF Spec, OrdersDelivered, TheDelivery!DeliverySpec
=============================================================================
