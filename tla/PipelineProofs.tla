--------------------------- MODULE PipelineProofs ---------------------------
(***************************************************************************)
(* What holds of the pipeline with any fault injected: PUBLISHED means on  *)
(* the stream, and only a paid order is deducted.                          *)
(***************************************************************************)
EXTENDS PipelineTypes

-----------------------------------------------------------------------------
(* Publishing                                                              *)

\* After a publish the event is on the stream, and so is all that was.
LEMMA SentIsOnStream ==
    ASSUME TypeOK, NEW e \in Payments, stream' = Append(stream, e)
    PROVE  OnStream(e)' /\ \A x \in Payments : OnStream(x) => OnStream(x)'
<1>1. Len(stream') \in Nat /\ Len(stream) + 1 \in 1 .. Len(stream')
  BY StreamAppended
<1>2. OnStream(e)'
  BY <1>1, StreamAppended DEF OnStream
<1>3. ASSUME NEW x \in Payments, OnStream(x) PROVE OnStream(x)'
  <2>1. PICK m \in 1 .. Len(stream) : stream[m] = x
    BY <1>3 DEF OnStream
  <2>2. m \in 1 .. Len(stream') /\ stream'[m] = x
    BY <2>1, StreamAppended
  <2> QED
    BY <2>2 DEF OnStream
<1> QED
  BY <1>2, <1>3

(* PublishInv is inductive: no step of PublishPending, RetryOutbox, RebuildOutbox or
   InjectDemoFault leaves a PUBLISHED row, or a publisher about to mark one,
   whose event is not on the stream. *)
LEMMA PublishStep ==
    PublishInv /\ [Next]_vars => PublishedIsOnStream' /\ MarkedIsSent'
<1> SUFFICES ASSUME PublishInv, [Next]_vars
             PROVE  PublishedIsOnStream' /\ MarkedIsSent'
  OBVIOUS
<1> USE DEF PublishInv, TypedInv, TypeOK, PublishedIsOnStream, MarkedIsSent, OnStream,
            orderVars, inventoryVars, groupVars, pubVars, conVars, deductVars, injectVars,
            boundVars
<1>1. ASSUME NEW o \in Orders, CreateOrder(o)
      PROVE  PublishedIsOnStream' /\ MarkedIsSent'
  BY <1>1 DEF CreateOrder
<1>2. ASSUME NEW o \in Orders, NEW p \in Payments, Pay(o, p)
      PROVE  PublishedIsOnStream' /\ MarkedIsSent'
  BY <1>2 DEF Pay
<1>3. ASSUME PublisherPoll
      PROVE  PublishedIsOnStream' /\ MarkedIsSent'
  BY <1>3 DEF PublisherPoll, PendingOutbox
<1>4. ASSUME NEW e \in Payments, PublisherCheck(e)
      PROVE  PublishedIsOnStream' /\ MarkedIsSent'
  BY <1>4 DEF PublisherCheck, PublisherDone
<1>5. ASSUME PublisherSend
      PROVE  PublishedIsOnStream' /\ MarkedIsSent'
  <2>1. pubEvent \in Payments /\ stream' = Append(stream, pubEvent)
    BY <1>5 DEF PublisherSend, PublisherHoldsEvent
  <2>2. OnStream(pubEvent)' /\ \A e \in Payments : OnStream(e) => OnStream(e)'
    BY <1>5, <2>1, SentIsOnStream DEF PublisherSend
  <2> QED
    BY <1>5, <2>2 DEF PublisherSend
<1>6. ASSUME PublisherMark
      PROVE  PublishedIsOnStream' /\ MarkedIsSent'
  BY <1>6 DEF PublisherMark, PublisherDone
<1>7. ASSUME PublisherFails
      PROVE  PublishedIsOnStream' /\ MarkedIsSent'
  BY <1>7 DEF PublisherFails
<1>8. ASSUME NEW e \in Payments, RetryOutboxLoad(e)
      PROVE  PublishedIsOnStream' /\ MarkedIsSent'
  BY <1>8 DEF RetryOutboxLoad
<1>9. ASSUME NEW e \in Payments, RetryOutboxClear(e)
      PROVE  PublishedIsOnStream' /\ MarkedIsSent'
  BY <1>9 DEF RetryOutboxClear
<1>10. ASSUME NEW e \in Payments, RetryOutboxSend(e)
       PROVE  PublishedIsOnStream' /\ MarkedIsSent'
  <2>1. OnStream(e)' /\ \A x \in Payments : OnStream(x) => OnStream(x)'
    BY <1>10, SentIsOnStream DEF RetryOutboxSend
  <2> QED
    BY <1>10, <2>1 DEF RetryOutboxSend
<1>11. ASSUME NEW e \in Payments, RetryOutboxMark(e)
       PROVE  PublishedIsOnStream' /\ MarkedIsSent'
  BY <1>11 DEF RetryOutboxMark
<1>12. ASSUME NEW e \in Payments, RetryOutboxClearFails(e)
       PROVE  PublishedIsOnStream' /\ MarkedIsSent'
  BY <1>12 DEF RetryOutboxClearFails
<1>13. ASSUME NEW e \in Payments, RetryOutboxFails(e)
       PROVE  PublishedIsOnStream' /\ MarkedIsSent'
  BY <1>13 DEF RetryOutboxFails
<1>14. ASSUME NEW o \in Orders, RebuildOutbox(o)
       PROVE  PublishedIsOnStream' /\ MarkedIsSent'
  BY <1>14 DEF RebuildOutbox
<1>15. ASSUME PaymentCrash
       PROVE  PublishedIsOnStream' /\ MarkedIsSent'
  BY <1>15 DEF PaymentCrash
<1>16. ASSUME ConsumerStart
       PROVE  PublishedIsOnStream' /\ MarkedIsSent'
  BY <1>16 DEF ConsumerStart
<1>17. ASSUME ReadNew
       PROVE  PublishedIsOnStream' /\ MarkedIsSent'
  BY <1>17 DEF ReadNew
<1>18. ASSUME NEW batch \in Claimable, ClaimPending(batch)
       PROVE  PublishedIsOnStream' /\ MarkedIsSent'
  BY <1>18 DEF ClaimPending
<1>19. ASSUME NEW m \in conBatch, ConsumerCheck(m)
       PROVE  PublishedIsOnStream' /\ MarkedIsSent'
  BY <1>19 DEF ConsumerCheck
<1>20. ASSUME NEW m \in conBatch, ConsumerCommit(m)
       PROVE  PublishedIsOnStream' /\ MarkedIsSent'
  BY <1>20 DEF ConsumerCommit
<1>21. ASSUME NEW m \in conBatch, ConsumerAck(m)
       PROVE  PublishedIsOnStream' /\ MarkedIsSent'
  BY <1>21 DEF ConsumerAck
<1>22. ASSUME NEW m \in conBatch, ConsumerSkips(m)
       PROVE  PublishedIsOnStream' /\ MarkedIsSent'
  BY <1>22 DEF ConsumerSkips
<1>23. ASSUME ConsumerDies
       PROVE  PublishedIsOnStream' /\ MarkedIsSent'
  BY <1>23 DEF ConsumerDies
<1>24. ASSUME NEW e \in Payments, RetryEventLoad(e)
       PROVE  PublishedIsOnStream' /\ MarkedIsSent'
  BY <1>24 DEF RetryEventLoad
<1>25. ASSUME NEW e \in Payments, RetryEventConsume(e)
       PROVE  PublishedIsOnStream' /\ MarkedIsSent'
  BY <1>25 DEF RetryEventConsume
<1>26. ASSUME NEW e \in Payments, RetryEventClear(e)
       PROVE  PublishedIsOnStream' /\ MarkedIsSent'
  BY <1>26 DEF RetryEventClear
<1>27. ASSUME NEW e \in Payments, RetryEventFails(e)
       PROVE  PublishedIsOnStream' /\ MarkedIsSent'
  BY <1>27 DEF RetryEventFails
<1>28. ASSUME NEW o \in Orders, DeductOnceStart(o)
       PROVE  PublishedIsOnStream' /\ MarkedIsSent'
  BY <1>28 DEF DeductOnceStart
<1>29. ASSUME NEW o \in Orders, DeductOnceCheck(o)
       PROVE  PublishedIsOnStream' /\ MarkedIsSent'
  BY <1>29 DEF DeductOnceCheck, DeductOnceReturn
<1>30. ASSUME NEW o \in Orders, DeductOnceCommit(o)
       PROVE  PublishedIsOnStream' /\ MarkedIsSent'
  BY <1>30 DEF DeductOnceCommit, DeductOnceReturn
<1>31. ASSUME InventoryCrash
       PROVE  PublishedIsOnStream' /\ MarkedIsSent'
  BY <1>31 DEF InventoryCrash
<1>32. ASSUME NEW o \in Orders, InjectNoIssue(o)
       PROVE  PublishedIsOnStream' /\ MarkedIsSent'
  BY <1>32 DEF InjectNoIssue
<1>33. ASSUME NEW o \in Orders, NEW f \in InjectableFaults, InjectStart(o, f)
       PROVE  PublishedIsOnStream' /\ MarkedIsSent'
  BY <1>33 DEF InjectStart
<1>34. ASSUME NEW o \in Orders, InjectFinish(o)
       PROVE  PublishedIsOnStream' /\ MarkedIsSent'
  <2>1. \A e \in Payments : outbox'[e] = "PUBLISHED" => outbox[e] = "PUBLISHED"
    BY <1>34 DEF InjectFinish, ResetOutbox
  <2> QED
    BY <1>34, <2>1 DEF InjectFinish
<1>35. ASSUME NEW o \in Orders, InjectAbort(o)
       PROVE  PublishedIsOnStream' /\ MarkedIsSent'
  BY <1>35 DEF InjectAbort
<1>36. CASE UNCHANGED vars
  BY <1>36 DEF vars
<1> QED
  BY <1>1, <1>2, <1>3, <1>4, <1>5, <1>6, <1>7, <1>8, <1>9, <1>10, <1>11,
     <1>12, <1>13, <1>14, <1>15, <1>16, <1>17, <1>18, <1>19, <1>20, <1>21,
     <1>22, <1>23, <1>24, <1>25, <1>26, <1>27, <1>28, <1>29, <1>30, <1>31,
     <1>32, <1>33, <1>34, <1>35, <1>36
  DEF Next, PaymentNext, PublisherStep, InventoryNext, ConsumerStep, Reconcile,
      InjectNext

(* PublishInv holds in every reachable state. *)
THEOREM PublishInvariant == Spec => []PublishInv
<1>1. Init => PublishedIsOnStream /\ MarkedIsSent
  BY DEF Init, PublishedIsOnStream, MarkedIsSent
<1>2. TypedInv /\ PublishedIsOnStream /\ MarkedIsSent /\ [Next]_vars
        => PublishedIsOnStream' /\ MarkedIsSent'
  BY PublishStep DEF PublishInv
<1> QED
  BY <1>1, <1>2, TypedInvariant, PTL DEF Spec, PublishInv

\* An outbox row says PUBLISHED only if its event is on the stream, whatever
\* publisher, retry endpoint, rebuild and fault injection do in between.
THEOREM PublishedIsOnStreamAlways == Spec => []PublishedIsOnStream
<1>1. PublishInv => PublishedIsOnStream
  BY DEF PublishInv
<1> QED
  BY <1>1, PublishInvariant, PTL

-----------------------------------------------------------------------------
(* The order, payment and history tables                                   *)

(* OrderLedgerAgrees is inductive on typed states: only Create and Pay write the
   order, its payment and its history, each in one transaction. *)
LEMMA LedgerStep == TypedInv /\ OrderLedgerAgrees /\ [Next]_vars => OrderLedgerAgrees'
<1> SUFFICES ASSUME TypedInv, OrderLedgerAgrees, [Next]_vars
             PROVE  OrderLedgerAgrees'
  OBVIOUS
<1> USE DEF TypedInv, TypeOK, OrderLedgerAgrees, orderVars, inventoryVars, groupVars,
            pubVars, conVars, deductVars, injectVars, boundVars
<1>1. ASSUME NEW o \in Orders, CreateOrder(o)
      PROVE  OrderLedgerAgrees'
  <2> SUFFICES ASSUME NEW x \in Orders
               PROVE  /\ orderStatus'[x] = "PAID" <=> \E p \in Payments : payments'[p] = x
                      /\ \A p, q \in Payments : payments'[p] = x /\ payments'[q] = x => p = q
                      /\ orderVersion'[x] = Len(history'[x])
                      /\ orderStatus'[x] # "ABSENT"
                            => history'[x][orderVersion'[x]] = orderStatus'[x]
    OBVIOUS
  <2>1. CASE x = o
    <3>1. orderStatus'[x] = "PENDING_PAYMENT" /\ orderVersion'[x] = 1
          /\ history'[x] = <<"PENDING_PAYMENT">> /\ payments' = payments
      BY <1>1, <2>1 DEF CreateOrder
    <3>2. \A p \in Payments : payments[p] # x
      BY <1>1, <2>1 DEF CreateOrder
    <3>3. Len(history'[x]) = 1 /\ history'[x][1] = "PENDING_PAYMENT"
      BY <3>1
    <3> QED
      BY <3>1, <3>2, <3>3
  <2>2. CASE x # o
    BY <1>1, <2>2 DEF CreateOrder
  <2> QED
    BY <2>1, <2>2
<1>2. ASSUME NEW o \in Orders, NEW p \in Payments, Pay(o, p)
      PROVE  OrderLedgerAgrees'
  <2> SUFFICES ASSUME NEW x \in Orders
               PROVE  /\ orderStatus'[x] = "PAID" <=> \E q \in Payments : payments'[q] = x
                      /\ \A q, r \in Payments : payments'[q] = x /\ payments'[r] = x => q = r
                      /\ orderVersion'[x] = Len(history'[x])
                      /\ orderStatus'[x] # "ABSENT"
                            => history'[x][orderVersion'[x]] = orderStatus'[x]
    OBVIOUS
  <2>1. CASE x = o
    <3>1. /\ history[o] \in Seq({"PENDING_PAYMENT", "PAID"})
          /\ history'[o] = Append(history[o], "PAID")
          /\ orderVersion'[o] = orderVersion[o] + 1
          /\ orderStatus'[o] = "PAID"
      BY <1>2 DEF Pay
    <3>2. Len(history'[o]) = orderVersion'[o] /\ history'[o][orderVersion'[o]] = "PAID"
      BY <3>1
    <3> QED
      BY <1>2, <2>1, <3>1, <3>2 DEF Pay
  <2>2. CASE x # o
    <3>1. \A q \in Payments : payments'[q] = x <=> payments[q] = x
      BY <1>2, <2>2, NoneAssumption DEF Pay
    <3> QED
      BY <1>2, <2>2, <3>1 DEF Pay
  <2> QED
    BY <2>1, <2>2
<1>3. ASSUME PublisherPoll
      PROVE  OrderLedgerAgrees'
  BY <1>3 DEF PublisherPoll, PendingOutbox
<1>4. ASSUME NEW e \in Payments, PublisherCheck(e)
      PROVE  OrderLedgerAgrees'
  BY <1>4 DEF PublisherCheck, PublisherDone
<1>5. ASSUME PublisherSend
      PROVE  OrderLedgerAgrees'
  BY <1>5 DEF PublisherSend
<1>6. ASSUME PublisherMark
      PROVE  OrderLedgerAgrees'
  BY <1>6 DEF PublisherMark, PublisherDone
<1>7. ASSUME PublisherFails
      PROVE  OrderLedgerAgrees'
  BY <1>7 DEF PublisherFails
<1>8. ASSUME NEW e \in Payments, RetryOutboxLoad(e)
      PROVE  OrderLedgerAgrees'
  BY <1>8 DEF RetryOutboxLoad
<1>9. ASSUME NEW e \in Payments, RetryOutboxClear(e)
      PROVE  OrderLedgerAgrees'
  BY <1>9 DEF RetryOutboxClear
<1>10. ASSUME NEW e \in Payments, RetryOutboxSend(e)
       PROVE  OrderLedgerAgrees'
  BY <1>10 DEF RetryOutboxSend
<1>11. ASSUME NEW e \in Payments, RetryOutboxMark(e)
       PROVE  OrderLedgerAgrees'
  BY <1>11 DEF RetryOutboxMark
<1>12. ASSUME NEW e \in Payments, RetryOutboxClearFails(e)
       PROVE  OrderLedgerAgrees'
  BY <1>12 DEF RetryOutboxClearFails
<1>13. ASSUME NEW e \in Payments, RetryOutboxFails(e)
       PROVE  OrderLedgerAgrees'
  BY <1>13 DEF RetryOutboxFails
<1>14. ASSUME NEW o \in Orders, RebuildOutbox(o)
       PROVE  OrderLedgerAgrees'
  BY <1>14 DEF RebuildOutbox
<1>15. ASSUME PaymentCrash
       PROVE  OrderLedgerAgrees'
  BY <1>15 DEF PaymentCrash
<1>16. ASSUME ConsumerStart
       PROVE  OrderLedgerAgrees'
  BY <1>16 DEF ConsumerStart
<1>17. ASSUME ReadNew
       PROVE  OrderLedgerAgrees'
  BY <1>17 DEF ReadNew
<1>18. ASSUME NEW batch \in Claimable, ClaimPending(batch)
       PROVE  OrderLedgerAgrees'
  BY <1>18 DEF ClaimPending
<1>19. ASSUME NEW m \in conBatch, ConsumerCheck(m)
       PROVE  OrderLedgerAgrees'
  BY <1>19 DEF ConsumerCheck
<1>20. ASSUME NEW m \in conBatch, ConsumerCommit(m)
       PROVE  OrderLedgerAgrees'
  BY <1>20 DEF ConsumerCommit
<1>21. ASSUME NEW m \in conBatch, ConsumerAck(m)
       PROVE  OrderLedgerAgrees'
  BY <1>21 DEF ConsumerAck
<1>22. ASSUME NEW m \in conBatch, ConsumerSkips(m)
       PROVE  OrderLedgerAgrees'
  BY <1>22 DEF ConsumerSkips
<1>23. ASSUME ConsumerDies
       PROVE  OrderLedgerAgrees'
  BY <1>23 DEF ConsumerDies
<1>24. ASSUME NEW e \in Payments, RetryEventLoad(e)
       PROVE  OrderLedgerAgrees'
  BY <1>24 DEF RetryEventLoad
<1>25. ASSUME NEW e \in Payments, RetryEventConsume(e)
       PROVE  OrderLedgerAgrees'
  BY <1>25 DEF RetryEventConsume
<1>26. ASSUME NEW e \in Payments, RetryEventClear(e)
       PROVE  OrderLedgerAgrees'
  BY <1>26 DEF RetryEventClear
<1>27. ASSUME NEW e \in Payments, RetryEventFails(e)
       PROVE  OrderLedgerAgrees'
  BY <1>27 DEF RetryEventFails
<1>28. ASSUME NEW o \in Orders, DeductOnceStart(o)
       PROVE  OrderLedgerAgrees'
  BY <1>28 DEF DeductOnceStart
<1>29. ASSUME NEW o \in Orders, DeductOnceCheck(o)
       PROVE  OrderLedgerAgrees'
  BY <1>29 DEF DeductOnceCheck, DeductOnceReturn
<1>30. ASSUME NEW o \in Orders, DeductOnceCommit(o)
       PROVE  OrderLedgerAgrees'
  BY <1>30 DEF DeductOnceCommit, DeductOnceReturn
<1>31. ASSUME InventoryCrash
       PROVE  OrderLedgerAgrees'
  BY <1>31 DEF InventoryCrash
<1>32. ASSUME NEW o \in Orders, InjectNoIssue(o)
       PROVE  OrderLedgerAgrees'
  BY <1>32 DEF InjectNoIssue
<1>33. ASSUME NEW o \in Orders, NEW f \in InjectableFaults, InjectStart(o, f)
       PROVE  OrderLedgerAgrees'
  <2>1. UNCHANGED <<orderStatus, orderVersion, history, payments>>
    BY <1>33 DEF InjectStart
  <2> QED
    BY <2>1
<1>34. ASSUME NEW o \in Orders, InjectFinish(o)
       PROVE  OrderLedgerAgrees'
  BY <1>34 DEF InjectFinish
<1>35. ASSUME NEW o \in Orders, InjectAbort(o)
       PROVE  OrderLedgerAgrees'
  BY <1>35 DEF InjectAbort
<1>36. CASE UNCHANGED vars
  BY <1>36 DEF vars
<1> QED
  BY <1>1, <1>2, <1>3, <1>4, <1>5, <1>6, <1>7, <1>8, <1>9, <1>10, <1>11,
     <1>12, <1>13, <1>14, <1>15, <1>16, <1>17, <1>18, <1>19, <1>20, <1>21,
     <1>22, <1>23, <1>24, <1>25, <1>26, <1>27, <1>28, <1>29, <1>30, <1>31,
     <1>32, <1>33, <1>34, <1>35, <1>36
  DEF Next, PaymentNext, PublisherStep, InventoryNext, ConsumerStep, Reconcile,
      InjectNext

\* An order is PAID exactly when it has its one payment row, and its version
\* counts its history, in every reachable state.
THEOREM OrderLedgerAlwaysAgrees == Spec => []OrderLedgerAgrees
<1>1. Init => OrderLedgerAgrees
  BY NoneAssumption DEF Init, OrderLedgerAgrees
<1> QED
  BY <1>1, LedgerStep, TypedInvariant, PTL DEF Spec

-----------------------------------------------------------------------------
(* Deduction only after payment                                            *)

\* A consume transaction touches the deductions of its event's order only.
LEMMA ConsumeTouches ==
    ASSUME TypeOK, NEW e \in Payments, payments[e] # None, ConsumeEvent(e)
    PROVE  \A o \in Orders : deducted'[o] = deducted[o] \/ o = payments[e]
BY DEF TypeOK, ConsumeEvent, EventOrder, Deduct

(* Every deduction, written or about to be written by DeductOnce, is of a paid
   order, and no step breaks that. *)
LEMMA PaidStep == PaidInv /\ [Next]_vars => DeductedIsPaid' /\ CheckedIsPaid'
<1> SUFFICES ASSUME PaidInv, [Next]_vars
             PROVE  DeductedIsPaid' /\ CheckedIsPaid'
  OBVIOUS
<1> USE DEF PaidInv, TypedInv, TypeOK, DeductedIsPaid, CheckedIsPaid,
            orderVars, inventoryVars, groupVars, pubVars, conVars, deductVars, injectVars,
            boundVars
<1>1. ASSUME NEW o \in Orders, CreateOrder(o)
      PROVE  DeductedIsPaid' /\ CheckedIsPaid'
  BY <1>1 DEF CreateOrder
<1>2. ASSUME NEW o \in Orders, NEW p \in Payments, Pay(o, p)
      PROVE  DeductedIsPaid' /\ CheckedIsPaid'
  BY <1>2 DEF Pay
<1>3. ASSUME PublisherPoll
      PROVE  DeductedIsPaid' /\ CheckedIsPaid'
  BY <1>3 DEF PublisherPoll, PendingOutbox
<1>4. ASSUME NEW e \in Payments, PublisherCheck(e)
      PROVE  DeductedIsPaid' /\ CheckedIsPaid'
  BY <1>4 DEF PublisherCheck, PublisherDone
<1>5. ASSUME PublisherSend
      PROVE  DeductedIsPaid' /\ CheckedIsPaid'
  BY <1>5 DEF PublisherSend
<1>6. ASSUME PublisherMark
      PROVE  DeductedIsPaid' /\ CheckedIsPaid'
  BY <1>6 DEF PublisherMark, PublisherDone
<1>7. ASSUME PublisherFails
      PROVE  DeductedIsPaid' /\ CheckedIsPaid'
  BY <1>7 DEF PublisherFails
<1>8. ASSUME NEW e \in Payments, RetryOutboxLoad(e)
      PROVE  DeductedIsPaid' /\ CheckedIsPaid'
  BY <1>8 DEF RetryOutboxLoad
<1>9. ASSUME NEW e \in Payments, RetryOutboxClear(e)
      PROVE  DeductedIsPaid' /\ CheckedIsPaid'
  BY <1>9 DEF RetryOutboxClear
<1>10. ASSUME NEW e \in Payments, RetryOutboxSend(e)
       PROVE  DeductedIsPaid' /\ CheckedIsPaid'
  BY <1>10 DEF RetryOutboxSend
<1>11. ASSUME NEW e \in Payments, RetryOutboxMark(e)
       PROVE  DeductedIsPaid' /\ CheckedIsPaid'
  BY <1>11 DEF RetryOutboxMark
<1>12. ASSUME NEW e \in Payments, RetryOutboxClearFails(e)
       PROVE  DeductedIsPaid' /\ CheckedIsPaid'
  BY <1>12 DEF RetryOutboxClearFails
<1>13. ASSUME NEW e \in Payments, RetryOutboxFails(e)
       PROVE  DeductedIsPaid' /\ CheckedIsPaid'
  BY <1>13 DEF RetryOutboxFails
<1>14. ASSUME NEW o \in Orders, RebuildOutbox(o)
       PROVE  DeductedIsPaid' /\ CheckedIsPaid'
  BY <1>14 DEF RebuildOutbox
<1>15. ASSUME PaymentCrash
       PROVE  DeductedIsPaid' /\ CheckedIsPaid'
  BY <1>15 DEF PaymentCrash
<1>16. ASSUME ConsumerStart
       PROVE  DeductedIsPaid' /\ CheckedIsPaid'
  BY <1>16 DEF ConsumerStart
<1>17. ASSUME ReadNew
       PROVE  DeductedIsPaid' /\ CheckedIsPaid'
  BY <1>17 DEF ReadNew
<1>18. ASSUME NEW batch \in Claimable, ClaimPending(batch)
       PROVE  DeductedIsPaid' /\ CheckedIsPaid'
  BY <1>18 DEF ClaimPending
<1>19. ASSUME NEW m \in conBatch, ConsumerCheck(m)
       PROVE  DeductedIsPaid' /\ CheckedIsPaid'
  BY <1>19 DEF ConsumerCheck
<1>20. ASSUME NEW m \in conBatch, ConsumerCommit(m)
       PROVE  DeductedIsPaid' /\ CheckedIsPaid'
  <2>1. stream[m] \in Payments /\ payments[stream[m]] # None
    BY DEF EventsArePaid
  <2>2. \A o \in Orders : deducted'[o] = deducted[o] \/ o = payments[stream[m]]
    BY <1>20, <2>1, ConsumeTouches DEF ConsumerCommit, ConsumeRejected
  <2>3. orderStatus[payments[stream[m]]] = "PAID"
    BY <2>1 DEF OrderLedgerAgrees
  <2> QED
    BY <1>20, <2>2, <2>3 DEF ConsumerCommit
<1>21. ASSUME NEW m \in conBatch, ConsumerAck(m)
       PROVE  DeductedIsPaid' /\ CheckedIsPaid'
  BY <1>21 DEF ConsumerAck
<1>22. ASSUME NEW m \in conBatch, ConsumerSkips(m)
       PROVE  DeductedIsPaid' /\ CheckedIsPaid'
  BY <1>22 DEF ConsumerSkips
<1>23. ASSUME ConsumerDies
       PROVE  DeductedIsPaid' /\ CheckedIsPaid'
  BY <1>23 DEF ConsumerDies
<1>24. ASSUME NEW e \in Payments, RetryEventLoad(e)
       PROVE  DeductedIsPaid' /\ CheckedIsPaid'
  BY <1>24 DEF RetryEventLoad
<1>25. ASSUME NEW e \in Payments, RetryEventConsume(e)
       PROVE  DeductedIsPaid' /\ CheckedIsPaid'
  <2>1. payments[e] # None
    BY <1>25 DEF RetryEventConsume, EventsArePaid, Known
  <2>2. \A o \in Orders : deducted'[o] = deducted[o] \/ o = payments[e]
    BY <1>25, <2>1, ConsumeTouches DEF RetryEventConsume, ConsumeRejected
  <2>3. orderStatus[payments[e]] = "PAID"
    BY <2>1 DEF OrderLedgerAgrees
  <2> QED
    BY <1>25, <2>2, <2>3 DEF RetryEventConsume
<1>26. ASSUME NEW e \in Payments, RetryEventClear(e)
       PROVE  DeductedIsPaid' /\ CheckedIsPaid'
  BY <1>26 DEF RetryEventClear
<1>27. ASSUME NEW e \in Payments, RetryEventFails(e)
       PROVE  DeductedIsPaid' /\ CheckedIsPaid'
  BY <1>27 DEF RetryEventFails
<1>28. ASSUME NEW o \in Orders, DeductOnceStart(o)
       PROVE  DeductedIsPaid' /\ CheckedIsPaid'
  BY <1>28 DEF DeductOnceStart
<1>29. ASSUME NEW o \in Orders, DeductOnceCheck(o)
       PROVE  DeductedIsPaid' /\ CheckedIsPaid'
  BY <1>29 DEF DeductOnceCheck, DeductOnceReturn
<1>30. ASSUME NEW o \in Orders, DeductOnceCommit(o)
       PROVE  DeductedIsPaid' /\ CheckedIsPaid'
  <2>1. \A x \in Orders : deducted'[x] = deducted[x] \/ x = o
    BY <1>30 DEF DeductOnceCommit, Deduct
  <2>2. \A x \in Orders : deductPc'[x] = "checked" => deductPc[x] = "checked"
    BY <1>30 DEF DeductOnceCommit, DeductOnceReturn
  <2> QED
    BY <1>30, <2>1, <2>2 DEF DeductOnceCommit
<1>31. ASSUME InventoryCrash
       PROVE  DeductedIsPaid' /\ CheckedIsPaid'
  BY <1>31 DEF InventoryCrash
<1>32. ASSUME NEW o \in Orders, InjectNoIssue(o)
       PROVE  DeductedIsPaid' /\ CheckedIsPaid'
  BY <1>32 DEF InjectNoIssue
<1>33. ASSUME NEW o \in Orders, NEW f \in InjectableFaults, InjectStart(o, f)
       PROVE  DeductedIsPaid' /\ CheckedIsPaid'
  BY <1>33 DEF InjectStart
<1>34. ASSUME NEW o \in Orders, InjectFinish(o)
       PROVE  DeductedIsPaid' /\ CheckedIsPaid'
  <2>1. \A x \in Orders : deducted'[x] # NoItems => deducted'[x] = deducted[x]
    BY <1>34 DEF InjectFinish, ResetInventory
  <2> QED
    BY <1>34, <2>1 DEF InjectFinish
<1>35. ASSUME NEW o \in Orders, InjectAbort(o)
       PROVE  DeductedIsPaid' /\ CheckedIsPaid'
  BY <1>35 DEF InjectAbort
<1>36. CASE UNCHANGED vars
  BY <1>36 DEF vars
<1> QED
  BY <1>1, <1>2, <1>3, <1>4, <1>5, <1>6, <1>7, <1>8, <1>9, <1>10, <1>11,
     <1>12, <1>13, <1>14, <1>15, <1>16, <1>17, <1>18, <1>19, <1>20, <1>21,
     <1>22, <1>23, <1>24, <1>25, <1>26, <1>27, <1>28, <1>29, <1>30, <1>31,
     <1>32, <1>33, <1>34, <1>35, <1>36
  DEF Next, PaymentNext, PublisherStep, InventoryNext, ConsumerStep, Reconcile,
      InjectNext

(* PaidInv holds in every reachable state. *)
THEOREM PaidInvariant == Spec => []PaidInv
<1>1. Init => DeductedIsPaid /\ CheckedIsPaid
  BY DEF Init, DeductedIsPaid, CheckedIsPaid
<1>2. TypedInv /\ OrderLedgerAgrees /\ DeductedIsPaid /\ CheckedIsPaid /\ [Next]_vars
        => DeductedIsPaid' /\ CheckedIsPaid'
  BY PaidStep DEF PaidInv
<1> QED
  BY <1>1, <1>2, TypedInvariant, OrderLedgerAlwaysAgrees, PTL DEF Spec, PaidInv

\* Stock leaves only for a paid order, and the stream, the outbox and the
\* consumed table only name events of committed payments.
THEOREM OnlyPaidIsDeductedAlways == Spec => []OnlyPaidIsDeducted
<1>1. PaidInv => OnlyPaidIsDeducted
  BY DEF PaidInv, TypedInv, DeductedIsPaid, EventsArePaid, Known, OnlyPaidIsDeducted
<1> QED
  BY <1>1, PaidInvariant, PTL
=============================================================================
