-------------------------- MODULE RefinementProofs --------------------------
(***************************************************************************)
(* Without fault injection, and with deduct-once called with the order's   *)
(* own items, the pipeline implements ExactlyOnceDeduction.                *)
(***************************************************************************)
EXTENDS EffectivelyOnceProofs

-----------------------------------------------------------------------------
(* Orders are deducted whole                                               *)

\* A deduction of the order's own items finds no row and leaves all of them.
LEMMA DeductWhole ==
    ASSUME TypeOK, NEW o \in Orders, NEW key \in Keys, deducted[o] \in {NoItems, Items[o]},
           CanDeduct(o, Items[o], key), Deduct(o, Items[o], key)
    PROVE  /\ deducted[o] = NoItems
           /\ deducted' = [deducted EXCEPT ![o] = Items[o]]
           /\ \A s \in Skus : stock[s] >= Items[o][s]
           /\ stock' = [s \in Skus |-> stock[s] - Items[o][s]]
<1>1. Items[o] \in [Skus -> Nat] /\ \E s \in Skus : Items[o][s] > 0
  BY ItemsAssumption
<1>2. deducted[o] = NoItems
  BY <1>1 DEF CanDeduct
<1>3. [s \in Skus |-> deducted[o][s] + Items[o][s]] = Items[o]
  BY <1>1, <1>2 DEF NoItems
<1>4. deducted' = [deducted EXCEPT ![o] = Items[o]]
  BY <1>3 DEF Deduct
<1>5. ASSUME NEW s \in Skus PROVE stock[s] >= Items[o][s]
  <2>1. stock[s] \in Nat /\ Items[o][s] \in Nat
    BY <1>1 DEF TypeOK
  <2>2. Items[o][s] > 0 => stock[s] >= Items[o][s]
    BY DEF CanDeduct
  <2> QED
    BY <2>1, <2>2
<1> QED
  BY <1>2, <1>4, <1>5 DEF Deduct

(* consume deducts the whole order its event names, or nothing. *)
LEMMA ConsumeWhole ==
    ASSUME TypedInv, WholeOrders, NEW e \in Payments, payments[e] # None, ConsumeEvent(e)
    PROVE  \A o \in Orders : deducted'[o] \in {NoItems, Items[o]}
<1> DEFINE o == payments[e]
<1>1. o \in Orders /\ o = EventOrder(e) /\ e \in Keys
  BY DEF TypedInv, TypeOK, EventOrder, Keys
<1>2. CASE consumed[e] > 0
  BY <1>2 DEF ConsumeEvent, WholeOrders
<1>3. CASE ~(consumed[e] > 0)
  <2>1. CanDeduct(o, Items[o], e) /\ Deduct(o, Items[o], e)
    BY <1>1, <1>3 DEF ConsumeEvent
  <2>2. deducted' = [deducted EXCEPT ![o] = Items[o]]
    BY <1>1, <2>1, DeductWhole DEF TypedInv, WholeOrders
  <2> QED
    BY <1>1, <2>2 DEF WholeOrders, TypedInv, TypeOK
<1> QED
  BY <1>2, <1>3

(* deduct-once, called with the order's own items, deducts the whole order or nothing. *)
LEMMA OnceWhole ==
    ASSUME TypedInv, WholeOrders, NEW o \in Orders, DeductOnceCommit(o)
    PROVE  \A x \in Orders : deducted'[x] \in {NoItems, Items[x]}
<1>1. deductItems[o] = Items[o] /\ deductKey[o] \in Keys
  BY DEF DeductOnceCommit, WholeOrders, TypedInv, TypeOK, DeductHoldsKey, Keys
<1>2. CASE CanDeduct(o, Items[o], deductKey[o]) /\ Deduct(o, Items[o], deductKey[o])
  <2>1. deducted' = [deducted EXCEPT ![o] = Items[o]]
    BY <1>1, <1>2, DeductWhole DEF TypedInv, WholeOrders
  <2> QED
    BY <2>1 DEF WholeOrders, TypedInv, TypeOK
<1>3. CASE UNCHANGED deducted
  BY <1>3 DEF WholeOrders
<1> QED
  BY <1>1, <1>2, <1>3 DEF DeductOnceCommit

(* Every order is deducted whole or not at all: WholeOrders is inductive. *)
LEMMA WholeStep ==
    ASSUME OwnItemsOnly
    PROVE  TypedInv /\ NoFaults /\ WholeOrders /\ [Next]_vars => WholeOrders'
<1> SUFFICES ASSUME OwnItemsOnly, TypedInv, NoFaults, WholeOrders, [Next]_vars
             PROVE  WholeOrders'
  OBVIOUS
<1> USE DEF orderVars, inventoryVars, groupVars, pubVars, conVars, deductVars, injectVars,
            boundVars
<1>1. ASSUME NEW o \in Orders, CreateOrder(o)
      PROVE  WholeOrders'
  BY <1>1 DEF CreateOrder, WholeOrders
<1>2. ASSUME NEW o \in Orders, NEW p \in Payments, Pay(o, p)
      PROVE  WholeOrders'
  BY <1>2 DEF Pay, WholeOrders
<1>3. ASSUME PublisherPoll
      PROVE  WholeOrders'
  BY <1>3 DEF PublisherPoll, WholeOrders
<1>4. ASSUME NEW e \in Payments, PublisherCheck(e)
      PROVE  WholeOrders'
  BY <1>4 DEF PublisherCheck, WholeOrders
<1>5. ASSUME PublisherSend
      PROVE  WholeOrders'
  BY <1>5 DEF PublisherSend, WholeOrders
<1>6. ASSUME PublisherMark
      PROVE  WholeOrders'
  BY <1>6 DEF PublisherMark, WholeOrders
<1>7. ASSUME PublisherFails
      PROVE  WholeOrders'
  BY <1>7 DEF PublisherFails, WholeOrders
<1>8. ASSUME NEW e \in Payments, RetryOutboxLoad(e)
      PROVE  WholeOrders'
  BY <1>8 DEF RetryOutboxLoad, WholeOrders
<1>9. ASSUME NEW e \in Payments, RetryOutboxClear(e)
      PROVE  WholeOrders'
  BY <1>9 DEF RetryOutboxClear, WholeOrders
<1>10. ASSUME NEW e \in Payments, RetryOutboxSend(e)
       PROVE  WholeOrders'
  BY <1>10 DEF RetryOutboxSend, WholeOrders
<1>11. ASSUME NEW e \in Payments, RetryOutboxMark(e)
       PROVE  WholeOrders'
  BY <1>11 DEF RetryOutboxMark, WholeOrders
<1>12. ASSUME NEW e \in Payments, RetryOutboxClearFails(e)
       PROVE  WholeOrders'
  BY <1>12 DEF RetryOutboxClearFails, WholeOrders
<1>13. ASSUME NEW e \in Payments, RetryOutboxFails(e)
       PROVE  WholeOrders'
  BY <1>13 DEF RetryOutboxFails, WholeOrders
<1>14. ASSUME NEW o \in Orders, RebuildOutbox(o)
       PROVE  WholeOrders'
  BY <1>14 DEF RebuildOutbox, WholeOrders
<1>15. ASSUME PaymentCrash
       PROVE  WholeOrders'
  BY <1>15 DEF PaymentCrash, WholeOrders
<1>16. ASSUME ConsumerStart
       PROVE  WholeOrders'
  BY <1>16 DEF ConsumerStart, WholeOrders
<1>17. ASSUME ReadNew
       PROVE  WholeOrders'
  BY <1>17 DEF ReadNew, WholeOrders
<1>18. ASSUME NEW batch \in Claimable, ClaimPending(batch)
       PROVE  WholeOrders'
  BY <1>18 DEF ClaimPending, WholeOrders
<1>19. ASSUME NEW m \in conBatch, ConsumerCheck(m)
       PROVE  WholeOrders'
  BY <1>19 DEF ConsumerCheck, WholeOrders
<1>20. ASSUME NEW m \in conBatch, ConsumerCommit(m)
       PROVE  WholeOrders'
  <2>1. stream[m] \in Payments /\ payments[stream[m]] # None /\ UNCHANGED <<deductPc, deductItems>>
    BY <1>20 DEF ConsumerCommit, TypedInv, TypeOK, EventsArePaid
  <2>2. CASE ConsumeEvent(stream[m])
    BY <2>1, <2>2, ConsumeWhole DEF WholeOrders
  <2>3. CASE ConsumeRejected(stream[m])
    BY <2>1, <2>3 DEF ConsumeRejected, WholeOrders
  <2> QED
    BY <1>20, <2>2, <2>3 DEF ConsumerCommit
<1>21. ASSUME NEW m \in conBatch, ConsumerAck(m)
       PROVE  WholeOrders'
  BY <1>21 DEF ConsumerAck, WholeOrders
<1>22. ASSUME NEW m \in conBatch, ConsumerSkips(m)
       PROVE  WholeOrders'
  BY <1>22 DEF ConsumerSkips, WholeOrders
<1>23. ASSUME ConsumerDies
       PROVE  WholeOrders'
  BY <1>23 DEF ConsumerDies, WholeOrders
<1>24. ASSUME NEW e \in Payments, RetryEventLoad(e)
       PROVE  WholeOrders'
  BY <1>24 DEF RetryEventLoad, WholeOrders
<1>25. ASSUME NEW e \in Payments, RetryEventConsume(e)
       PROVE  WholeOrders'
  <2>1. e \in Payments /\ payments[e] # None /\ UNCHANGED <<deductPc, deductItems>>
    BY <1>25 DEF RetryEventConsume, TypedInv, EventsArePaid, Known
  <2>2. CASE ConsumeEvent(e)
    BY <2>1, <2>2, ConsumeWhole DEF WholeOrders
  <2>3. CASE ConsumeRejected(e)
    BY <2>1, <2>3 DEF ConsumeRejected, WholeOrders
  <2> QED
    BY <1>25, <2>2, <2>3 DEF RetryEventConsume
<1>26. ASSUME NEW e \in Payments, RetryEventClear(e)
       PROVE  WholeOrders'
  BY <1>26 DEF RetryEventClear, WholeOrders
<1>27. ASSUME NEW e \in Payments, RetryEventFails(e)
       PROVE  WholeOrders'
  BY <1>27 DEF RetryEventFails, WholeOrders
<1>28. ASSUME NEW o \in Orders, DeductOnceStart(o)
       PROVE  WholeOrders'
  <2>1. /\ deducted' = deducted
        /\ deductPc' = [deductPc EXCEPT ![o] = "cleared"]
        /\ deductItems' = [deductItems EXCEPT ![o] = Items[o]]
    BY <1>28 DEF DeductOnceStart, OwnItemsOnly
  <2> QED
    BY <2>1 DEF WholeOrders, TypedInv, TypeOK
<1>29. ASSUME NEW o \in Orders, DeductOnceCheck(o)
       PROVE  WholeOrders'
  <2>1. deducted' = deducted
    BY <1>29 DEF DeductOnceCheck
  <2>2. \A x \in Orders : deductPc'[x] # "idle" =>
           deductPc[x] # "idle" /\ deductItems'[x] = deductItems[x]
    BY <1>29 DEF DeductOnceCheck, DeductOnceReturn, TypedInv, TypeOK
  <2> QED
    BY <2>1, <2>2 DEF WholeOrders
<1>30. ASSUME NEW o \in Orders, DeductOnceCommit(o)
       PROVE  WholeOrders'
  <2>1. \A x \in Orders : deductPc'[x] # "idle" =>
           deductPc[x] # "idle" /\ deductItems'[x] = deductItems[x]
    BY <1>30 DEF DeductOnceCommit, DeductOnceReturn, TypedInv, TypeOK
  <2>2. \A x \in Orders : deducted'[x] \in {NoItems, Items[x]}
    BY <1>30, OnceWhole DEF WholeOrders
  <2> QED
    BY <2>1, <2>2 DEF WholeOrders
<1>31. ASSUME InventoryCrash
       PROVE  WholeOrders'
  BY <1>31 DEF InventoryCrash, WholeOrders
<1>32. ASSUME NEW o \in Orders, InjectNoIssue(o)
       PROVE  WholeOrders'
  BY <1>32 DEF InjectNoIssue, WholeOrders
<1>33. ASSUME NEW o \in Orders, NEW f \in InjectableFaults, InjectStart(o, f)
       PROVE  WholeOrders'
  BY <1>33 DEF InjectStart, WholeOrders
<1>34. ASSUME NEW o \in Orders, InjectFinish(o)
       PROVE  WholeOrders'
  BY <1>34 DEF InjectFinish, NoFaults
<1>35. ASSUME NEW o \in Orders, InjectAbort(o)
       PROVE  WholeOrders'
  BY <1>35 DEF InjectAbort, WholeOrders
<1>36. CASE UNCHANGED vars
  BY <1>36 DEF vars, WholeOrders
<1> QED
  BY <1>1, <1>2, <1>3, <1>4, <1>5, <1>6, <1>7, <1>8, <1>9, <1>10, <1>11,
     <1>12, <1>13, <1>14, <1>15, <1>16, <1>17, <1>18, <1>19, <1>20, <1>21,
     <1>22, <1>23, <1>24, <1>25, <1>26, <1>27, <1>28, <1>29, <1>30, <1>31,
     <1>32, <1>33, <1>34, <1>35, <1>36
  DEF Next, PaymentNext, PublisherStep, InventoryNext, ConsumerStep, Reconcile,
      InjectNext

-----------------------------------------------------------------------------
(* Every step is a step of the promise or none                             *)

(* A step that leaves orders and deductions alone is a stutter of the promise. *)
LEMMA SameOrders ==
    ASSUME UNCHANGED <<deducted, stock>>,
           \A o \in Orders : orderStatus'[o] = "PAID" <=> orderStatus[o] = "PAID"
    PROVE  UNCHANGED Promise!evars
BY DEF Promise!evars

(* Writing the deductions of a paid, undeducted order is a step of the promise. *)
LEMMA DeductIsPromised ==
    ASSUME RefinementInv, NEW o \in Orders, NEW key \in Keys, orderStatus[o] = "PAID",
           orderStatus' = orderStatus, CanDeduct(o, Items[o], key), Deduct(o, Items[o], key)
    PROVE  Promise!DeductOrder(o)
<1>1. /\ deducted[o] = NoItems
      /\ deducted' = [deducted EXCEPT ![o] = Items[o]]
      /\ \A s \in Skus : stock[s] >= Items[o][s]
      /\ stock' = [s \in Skus |-> stock[s] - Items[o][s]]
  BY DeductWhole DEF RefinementInv, PaidInv, TypedInv, WholeOrders
<1>2. Items[o] # NoItems
  BY ItemsAssumption DEF NoItems
<1>3. {x \in Orders : deducted'[x] # NoItems} = {x \in Orders : deducted[x] # NoItems} \cup {o}
  BY <1>1, <1>2 DEF RefinementInv, PaidInv, TypedInv, TypeOK
<1>4. {x \in Orders : orderStatus'[x] = "PAID"} = {x \in Orders : orderStatus[x] = "PAID"}
  OBVIOUS
<1>5. NoItems' = NoItems
  BY DEF NoItems
<1> QED
  BY <1>1, <1>3, <1>4, <1>5 DEF Promise!DeductOrder

(* A successful consume is a deduction the promise allows, or a stutter. *)
LEMMA ConsumeIsPromised ==
    ASSUME RefinementInv, NEW e \in Payments, payments[e] # None,
           orderStatus' = orderStatus, ConsumeEvent(e)
    PROVE  [Promise!Next]_(Promise!evars)
<1>0. PICK o \in Orders : o = payments[e]
  BY DEF RefinementInv, PaidInv, TypedInv, TypeOK
<1>1. o = EventOrder(e) /\ e \in Keys /\ orderStatus[o] = "PAID"
  BY <1>0 DEF RefinementInv, PaidInv, EventOrder, Keys, OrderLedgerAgrees
<1>2. CASE consumed[e] > 0
  BY <1>2, SameOrders DEF ConsumeEvent
<1>3. CASE ~(consumed[e] > 0)
  <2>1. CanDeduct(o, Items[o], e) /\ Deduct(o, Items[o], e)
    BY <1>1, <1>3 DEF ConsumeEvent
  <2>2. Promise!DeductOrder(o)
    BY <1>1, <2>1, DeductIsPromised
  <2> QED
    BY <1>1, <2>2 DEF Promise!Next
<1> QED
  BY <1>2, <1>3

(* Step simulation: every step of the pipeline is a step of ExactlyOnceDeduction or a stutter. *)
LEMMA PromiseStep == RefinementInv /\ [Next]_vars => [Promise!Next]_(Promise!evars)
<1> SUFFICES ASSUME RefinementInv, [Next]_vars
             PROVE  [Promise!Next]_(Promise!evars)
  OBVIOUS
<1> USE DEF orderVars, inventoryVars, groupVars, pubVars, conVars, deductVars, injectVars,
            boundVars
<1>1. ASSUME NEW o \in Orders, CreateOrder(o)
      PROVE  [Promise!Next]_(Promise!evars)
  <2>1. \A x \in Orders : orderStatus'[x] = "PAID" <=> orderStatus[x] = "PAID"
    BY <1>1 DEF CreateOrder, RefinementInv, PaidInv, TypedInv, TypeOK
  <2> QED
    BY <1>1, <2>1, SameOrders DEF CreateOrder
<1>2. ASSUME NEW o \in Orders, NEW p \in Payments, Pay(o, p)
      PROVE  [Promise!Next]_(Promise!evars)
  <2>1. Promise!PayOrder(o)
    BY <1>2 DEF Pay, Promise!PayOrder, RefinementInv, PaidInv, TypedInv, TypeOK
  <2> QED
    BY <2>1 DEF Promise!Next
<1>3. ASSUME PublisherPoll
      PROVE  [Promise!Next]_(Promise!evars)
  BY <1>3, SameOrders DEF PublisherPoll
<1>4. ASSUME NEW e \in Payments, PublisherCheck(e)
      PROVE  [Promise!Next]_(Promise!evars)
  BY <1>4, SameOrders DEF PublisherCheck
<1>5. ASSUME PublisherSend
      PROVE  [Promise!Next]_(Promise!evars)
  BY <1>5, SameOrders DEF PublisherSend
<1>6. ASSUME PublisherMark
      PROVE  [Promise!Next]_(Promise!evars)
  BY <1>6, SameOrders DEF PublisherMark
<1>7. ASSUME PublisherFails
      PROVE  [Promise!Next]_(Promise!evars)
  BY <1>7, SameOrders DEF PublisherFails
<1>8. ASSUME NEW e \in Payments, RetryOutboxLoad(e)
      PROVE  [Promise!Next]_(Promise!evars)
  BY <1>8, SameOrders DEF RetryOutboxLoad
<1>9. ASSUME NEW e \in Payments, RetryOutboxClear(e)
      PROVE  [Promise!Next]_(Promise!evars)
  BY <1>9, SameOrders DEF RetryOutboxClear
<1>10. ASSUME NEW e \in Payments, RetryOutboxSend(e)
       PROVE  [Promise!Next]_(Promise!evars)
  BY <1>10, SameOrders DEF RetryOutboxSend
<1>11. ASSUME NEW e \in Payments, RetryOutboxMark(e)
       PROVE  [Promise!Next]_(Promise!evars)
  BY <1>11, SameOrders DEF RetryOutboxMark
<1>12. ASSUME NEW e \in Payments, RetryOutboxClearFails(e)
       PROVE  [Promise!Next]_(Promise!evars)
  BY <1>12, SameOrders DEF RetryOutboxClearFails
<1>13. ASSUME NEW e \in Payments, RetryOutboxFails(e)
       PROVE  [Promise!Next]_(Promise!evars)
  BY <1>13, SameOrders DEF RetryOutboxFails
<1>14. ASSUME NEW o \in Orders, RebuildOutbox(o)
       PROVE  [Promise!Next]_(Promise!evars)
  BY <1>14, SameOrders DEF RebuildOutbox
<1>15. ASSUME PaymentCrash
       PROVE  [Promise!Next]_(Promise!evars)
  BY <1>15, SameOrders DEF PaymentCrash
<1>16. ASSUME ConsumerStart
       PROVE  [Promise!Next]_(Promise!evars)
  BY <1>16, SameOrders DEF ConsumerStart
<1>17. ASSUME ReadNew
       PROVE  [Promise!Next]_(Promise!evars)
  BY <1>17, SameOrders DEF ReadNew
<1>18. ASSUME NEW batch \in Claimable, ClaimPending(batch)
       PROVE  [Promise!Next]_(Promise!evars)
  BY <1>18, SameOrders DEF ClaimPending
<1>19. ASSUME NEW m \in conBatch, ConsumerCheck(m)
       PROVE  [Promise!Next]_(Promise!evars)
  BY <1>19, SameOrders DEF ConsumerCheck
<1>20. ASSUME NEW m \in conBatch, ConsumerCommit(m)
       PROVE  [Promise!Next]_(Promise!evars)
  <2>1. stream[m] \in Payments /\ payments[stream[m]] # None /\ orderStatus' = orderStatus
    BY <1>20 DEF ConsumerCommit, RefinementInv, PaidInv, TypedInv, TypeOK, EventsArePaid
  <2>2. CASE ConsumeEvent(stream[m])
    BY <2>1, <2>2, ConsumeIsPromised
  <2>3. CASE ConsumeRejected(stream[m])
    BY <2>1, <2>3, SameOrders DEF ConsumeRejected
  <2> QED
    BY <1>20, <2>2, <2>3 DEF ConsumerCommit
<1>21. ASSUME NEW m \in conBatch, ConsumerAck(m)
       PROVE  [Promise!Next]_(Promise!evars)
  BY <1>21, SameOrders DEF ConsumerAck
<1>22. ASSUME NEW m \in conBatch, ConsumerSkips(m)
       PROVE  [Promise!Next]_(Promise!evars)
  BY <1>22, SameOrders DEF ConsumerSkips
<1>23. ASSUME ConsumerDies
       PROVE  [Promise!Next]_(Promise!evars)
  BY <1>23, SameOrders DEF ConsumerDies
<1>24. ASSUME NEW e \in Payments, RetryEventLoad(e)
       PROVE  [Promise!Next]_(Promise!evars)
  BY <1>24, SameOrders DEF RetryEventLoad
<1>25. ASSUME NEW e \in Payments, RetryEventConsume(e)
       PROVE  [Promise!Next]_(Promise!evars)
  <2>1. e \in Payments /\ payments[e] # None /\ orderStatus' = orderStatus
    BY <1>25 DEF RetryEventConsume, RefinementInv, PaidInv, TypedInv, EventsArePaid, Known
  <2>2. CASE ConsumeEvent(e)
    BY <2>1, <2>2, ConsumeIsPromised
  <2>3. CASE ConsumeRejected(e)
    BY <2>1, <2>3, SameOrders DEF ConsumeRejected
  <2> QED
    BY <1>25, <2>2, <2>3 DEF RetryEventConsume
<1>26. ASSUME NEW e \in Payments, RetryEventClear(e)
       PROVE  [Promise!Next]_(Promise!evars)
  BY <1>26, SameOrders DEF RetryEventClear
<1>27. ASSUME NEW e \in Payments, RetryEventFails(e)
       PROVE  [Promise!Next]_(Promise!evars)
  BY <1>27, SameOrders DEF RetryEventFails
<1>28. ASSUME NEW o \in Orders, DeductOnceStart(o)
       PROVE  [Promise!Next]_(Promise!evars)
  BY <1>28, SameOrders DEF DeductOnceStart
<1>29. ASSUME NEW o \in Orders, DeductOnceCheck(o)
       PROVE  [Promise!Next]_(Promise!evars)
  BY <1>29, SameOrders DEF DeductOnceCheck
<1>30. ASSUME NEW o \in Orders, DeductOnceCommit(o)
       PROVE  [Promise!Next]_(Promise!evars)
  <2>1. orderStatus' = orderStatus /\ orderStatus[o] = "PAID"
    BY <1>30 DEF DeductOnceCommit, RefinementInv, PaidInv, CheckedIsPaid
  <2>2. deductItems[o] = Items[o] /\ deductKey[o] \in Keys
    BY <1>30 DEF DeductOnceCommit, RefinementInv, WholeOrders, PaidInv, TypedInv, TypeOK,
              DeductHoldsKey, Keys
  <2>3. CASE CanDeduct(o, Items[o], deductKey[o]) /\ Deduct(o, Items[o], deductKey[o])
    BY <2>1, <2>2, <2>3, DeductIsPromised DEF Promise!Next
  <2>4. CASE UNCHANGED <<stock, deducted>>
    BY <2>1, <2>4, SameOrders
  <2> QED
    BY <1>30, <2>2, <2>3, <2>4 DEF DeductOnceCommit
<1>31. ASSUME InventoryCrash
       PROVE  [Promise!Next]_(Promise!evars)
  BY <1>31, SameOrders DEF InventoryCrash
<1>32. ASSUME NEW o \in Orders, InjectNoIssue(o)
       PROVE  [Promise!Next]_(Promise!evars)
  BY <1>32, SameOrders DEF InjectNoIssue
<1>33. ASSUME NEW o \in Orders, NEW f \in InjectableFaults, InjectStart(o, f)
       PROVE  [Promise!Next]_(Promise!evars)
  BY <1>33, SameOrders DEF InjectStart
<1>34. ASSUME NEW o \in Orders, InjectFinish(o)
       PROVE  [Promise!Next]_(Promise!evars)
  BY <1>34 DEF InjectFinish, RefinementInv, NoFaults
<1>35. ASSUME NEW o \in Orders, InjectAbort(o)
       PROVE  [Promise!Next]_(Promise!evars)
  BY <1>35, SameOrders DEF InjectAbort
<1>36. CASE UNCHANGED vars
  BY <1>36, SameOrders DEF vars
<1> QED
  BY <1>1, <1>2, <1>3, <1>4, <1>5, <1>6, <1>7, <1>8, <1>9, <1>10, <1>11,
     <1>12, <1>13, <1>14, <1>15, <1>16, <1>17, <1>18, <1>19, <1>20, <1>21,
     <1>22, <1>23, <1>24, <1>25, <1>26, <1>27, <1>28, <1>29, <1>30, <1>31,
     <1>32, <1>33, <1>34, <1>35, <1>36
  DEF Next, PaymentNext, PublisherStep, InventoryNext, ConsumerStep, Reconcile,
      InjectNext

\* Crashes, lost answers, duplicated deliveries, retries and racing repairs
\* are invisible: every order is deducted at most once, whole, after it was
\* paid, for every number of orders, skus and payments.
THEOREM PipelineDeductsExactlyOnce ==
    ASSUME InjectableFaults = {}, OwnItemsOnly
    PROVE  Spec => DeductsExactlyOnce
<1>1. Init => WholeOrders /\ Promise!Init
  BY DEF Init, WholeOrders, Promise!Init
<1>2. DeliveryInv => NoFaults
  BY DEF DeliveryInv
<1>3. PaidInv => TypedInv
  BY DEF PaidInv
<1>4. TypedInv /\ NoFaults /\ WholeOrders /\ [Next]_vars => WholeOrders'
  BY WholeStep
<1>5. Spec => []RefinementInv
  BY <1>1, <1>2, <1>3, <1>4, DeliveryInvariant, PaidInvariant, PTL
  DEF Spec, RefinementInv
<1> QED
  BY <1>1, <1>5, PromiseStep, PTL DEF Spec, DeductsExactlyOnce, Promise!Spec
=============================================================================
