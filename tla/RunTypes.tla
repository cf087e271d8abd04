------------------------------ MODULE RunTypes ------------------------------
(***************************************************************************)
(* What every step of InvestigationRun preserves of its tables and of its  *)
(* goroutines' copies, for every value of the constants: the types, that   *)
(* the event feed agrees with the run, and that a remediation tool is      *)
(* called at most once with an idempotency key.                            *)
(***************************************************************************)
EXTENDS InvestigationRun, SequenceTheorems, TLAPS

-----------------------------------------------------------------------------
(* Who writes what                                                         *)

\* A step of a goroutine in RunWorker, of an approve, an execute or an
\* evaluation request changes no copy but its own.
LEMMA CopyActions ==
    ASSUME [Next]_runVars
    PROVE  /\ \/ worker' = worker
              \/ RuntimeCrash
              \/ \E w \in Workers :
                    \/ WorkerProceeds(w) \/ WorkerAbandons(w) \/ WorkerMissesFinish(w)
                    \/ WorkerMissesStart(w) \/ WorkerStops(w)
           /\ \/ approver' = approver
              \/ RuntimeCrash
              \/ \E a \in Approvers : ApproverProceeds(a) \/ ApproverAbandons(a)
           /\ \/ executor' = executor
              \/ RuntimeCrash
              \/ \E x \in Executors :
                    ExecutorProceeds(x) \/ ExecutorMisses(x) \/ ExecutorAbandons(x)
           /\ \/ evaluator' = evaluator
              \/ RuntimeCrash
              \/ \E v \in Evaluators : EvaluatorProceeds(v) \/ EvaluatorAbandons(v)
<1>1. CASE WorkerNext
  <2>1. UNCHANGED <<approver, executor, evaluator>>
    BY <1>1 DEF WorkerNext, WorkerProceeds, CreateRun, WorkerClaims, WorkerStartsStep,
       WorkerAgentAnswers, WorkerDiagnoses, WorkerFinishesStep, WorkerConcludes,
       WorkerObserves, WorkerAbandons, WorkerMissesFinish, WorkerMissesStart, WorkerStops, workerFrame
  <2> QED
    BY <1>1, <2>1 DEF WorkerNext, CreateRun, WorkerObserves
<1>2. CASE EvaluationNext
  <2>1. UNCHANGED <<worker, approver, executor>>
    BY <1>2 DEF EvaluationNext, EvaluatorProceeds, EvaluationStart, EvaluatorCreates,
       EvaluatorLoads, EvaluatorStartsStep, EvaluatorFinishesStep, EvaluatorObserves,
       EvaluatorJudges, EvaluatorCompletes, EvaluatorAbandons, evaluationFrame
  <2> QED
    BY <1>2, <2>1 DEF EvaluationNext, EvaluationStart, EvaluatorObserves
<1>3. CASE \E a \in Approvers : ApproverProceeds(a) \/ ApproverAbandons(a)
  BY <1>3 DEF ApproverProceeds, ApproverLoads, ApproverDecides, ApproverTransits,
       ApproverRecords, ApproverAbandons, approveFrame
<1>4. CASE \E x \in Executors : ExecutorProceeds(x) \/ ExecutorMisses(x) \/ ExecutorAbandons(x)
  BY <1>4 DEF ExecutorProceeds, ExecutorLoads, ExecutorBegins, ExecutorStarts,
       ExecutorCalls, ExecutorSaves, ExecutorTransits, ExecutorWaits, ExecutorAsserts,
       ExecutorMisses, ExecutorAbandons, executeFrame
<1>5. CASE \E r \in Runs : InventoryDeducts(r)
  BY <1>5 DEF InventoryDeducts, executeFrame
<1>6. CASE UNCHANGED runVars
  BY <1>6 DEF runVars
<1> QED
  BY <1>1, <1>2, <1>3, <1>4, <1>5, <1>6 DEF Next, RepairNext

\* Who writes the rows: everybody else leaves them alone.
LEMMA RowActions ==
    ASSUME [Next]_runVars
    PROVE  \/ UNCHANGED rowVars
           \/ \E q \in Runs : InsertRun(q)
           \/ \E w \in Workers : WorkerClaims(w) \/ WorkerConcludes(w)
           \/ \E a \in Approvers : ApproverTransits(a)
           \/ \E x \in Executors : ExecutorBegins(x) \/ ExecutorTransits(x)
           \/ \E v \in Evaluators : EvaluatorCompletes(v)
<1>1. ASSUME NEW w \in Workers,
             \/ WorkerStartsStep(w) \/ WorkerAgentAnswers(w) \/ WorkerDiagnoses(w)
             \/ WorkerFinishesStep(w) \/ WorkerObserves(w) \/ WorkerAbandons(w)
             \/ WorkerMissesFinish(w) \/ WorkerMissesStart(w) \/ WorkerStops(w)
      PROVE  UNCHANGED rowVars
  BY <1>1 DEF WorkerStartsStep, WorkerAgentAnswers, WorkerDiagnoses, WorkerFinishesStep,
       WorkerObserves, WorkerAbandons, WorkerMissesFinish, WorkerMissesStart, WorkerStops
<1>2. ASSUME NEW a \in Approvers,
             \/ ApproverLoads(a) \/ ApproverDecides(a) \/ ApproverRecords(a)
             \/ ApproverAbandons(a)
      PROVE  UNCHANGED rowVars
  BY <1>2 DEF ApproverLoads, ApproverDecides, ApproverRecords, ApproverAbandons
<1>3. ASSUME NEW x \in Executors,
             \/ ExecutorLoads(x) \/ ExecutorStarts(x) \/ ExecutorCalls(x)
             \/ ExecutorSaves(x) \/ ExecutorWaits(x) \/ ExecutorAsserts(x)
             \/ ExecutorMisses(x) \/ ExecutorAbandons(x)
      PROVE  UNCHANGED rowVars
  BY <1>3 DEF ExecutorLoads, ExecutorStarts, ExecutorCalls, ExecutorSaves, ExecutorWaits,
       ExecutorAsserts, ExecutorMisses, ExecutorAbandons
<1>4. ASSUME NEW v \in Evaluators,
             \/ EvaluatorLoads(v) \/ EvaluatorStartsStep(v) \/ EvaluatorFinishesStep(v)
             \/ EvaluatorObserves(v) \/ EvaluatorJudges(v) \/ EvaluatorAbandons(v)
      PROVE  UNCHANGED rowVars
  BY <1>4 DEF EvaluatorLoads, EvaluatorStartsStep, EvaluatorFinishesStep, EvaluatorObserves,
       EvaluatorJudges, EvaluatorAbandons
<1>5. ASSUME \/ RuntimeCrash
             \/ \E r \in Runs : InventoryDeducts(r)
             \/ UNCHANGED runVars
      PROVE  UNCHANGED rowVars
  BY <1>5 DEF RuntimeCrash, InventoryDeducts, runVars, rowVars
<1>6. ASSUME NEW r \in Runs, CreateRun(r) \/ EvaluationStart(r) PROVE InsertRun(r)
  BY <1>6 DEF CreateRun, EvaluationStart
<1>7. ASSUME NEW v \in Evaluators, EvaluatorCreates(v) PROVE \E q \in Runs : InsertRun(q)
  BY <1>7 DEF EvaluatorCreates
<1> QED
  BY <1>1, <1>2, <1>3, <1>4, <1>5, <1>6, <1>7
     DEF Next, WorkerNext, WorkerProceeds, RepairNext, ApproverProceeds, ExecutorProceeds,
         EvaluationNext, EvaluatorProceeds

\* Who writes the steps: everybody else leaves them alone.
LEMMA StepActions ==
    ASSUME [Next]_runVars
    PROVE  \/ UNCHANGED steps
           \/ \E w \in Workers : WorkerStartsStep(w) \/ WorkerFinishesStep(w)
           \/ \E v \in Evaluators : EvaluatorStartsStep(v) \/ EvaluatorFinishesStep(v)
<1>1. ASSUME \/ \E r \in Runs : CreateRun(r) \/ EvaluationStart(r)
             \/ \E w \in Workers :
                   \/ WorkerClaims(w) \/ WorkerAgentAnswers(w) \/ WorkerDiagnoses(w)
                   \/ WorkerConcludes(w) \/ WorkerObserves(w) \/ WorkerAbandons(w)
                   \/ WorkerMissesFinish(w) \/ WorkerMissesStart(w) \/ WorkerStops(w)
             \/ \E v \in Evaluators :
                   \/ EvaluatorCreates(v) \/ EvaluatorLoads(v) \/ EvaluatorObserves(v)
                   \/ EvaluatorJudges(v) \/ EvaluatorCompletes(v) \/ EvaluatorAbandons(v)
             \/ RepairNext \/ RuntimeCrash \/ UNCHANGED runVars
      PROVE  steps' = steps
  <2>1. CASE RepairNext
    BY <2>1 DEF RepairNext, ApproverProceeds, ApproverLoads, ApproverDecides,
       ApproverTransits, ApproverRecords, ApproverAbandons, approveFrame,
       ExecutorProceeds, ExecutorLoads, ExecutorBegins, ExecutorStarts,
       ExecutorCalls, ExecutorSaves, ExecutorTransits, ExecutorWaits, ExecutorAsserts,
       ExecutorMisses, ExecutorAbandons, executeFrame, InventoryDeducts
  <2> QED
    BY <1>1, <2>1 DEF CreateRun, EvaluationStart, WorkerClaims, WorkerAgentAnswers,
       WorkerDiagnoses, WorkerConcludes, WorkerObserves, WorkerAbandons,
       WorkerMissesFinish, WorkerMissesStart, WorkerStops, EvaluatorCreates, EvaluatorLoads,
       EvaluatorObserves, EvaluatorJudges, EvaluatorCompletes, EvaluatorAbandons,
       RuntimeCrash, runVars
<1> QED
  BY <1>1 DEF Next, WorkerNext, WorkerProceeds, EvaluationNext, EvaluatorProceeds

\* Only the agents and the evaluations add evidence.
LEMMA EvidenceActions ==
    ASSUME [Next]_runVars,
           ~ \E w \in Workers : WorkerObserves(w), ~ \E v \in Evaluators : EvaluatorObserves(v)
    PROVE  evidence' = evidence
<1>1. CASE WorkerNext
  BY <1>1 DEF WorkerNext, WorkerProceeds, CreateRun, WorkerClaims, WorkerStartsStep,
     WorkerAgentAnswers, WorkerDiagnoses, WorkerFinishesStep, WorkerConcludes,
     WorkerAbandons, WorkerMissesFinish, WorkerMissesStart, WorkerStops
<1>2. CASE EvaluationNext
  BY <1>2 DEF EvaluationNext, EvaluatorProceeds, EvaluationStart, EvaluatorCreates,
     EvaluatorLoads, EvaluatorStartsStep, EvaluatorFinishesStep, EvaluatorJudges,
     EvaluatorCompletes, EvaluatorAbandons
<1>3. CASE RepairNext \/ RuntimeCrash \/ UNCHANGED runVars
  BY <1>3 DEF RepairNext, ApproverProceeds, ApproverLoads, ApproverDecides,
     ApproverTransits, ApproverRecords, ApproverAbandons, approveFrame,
     ExecutorProceeds, ExecutorLoads, ExecutorBegins, ExecutorStarts, ExecutorCalls,
     ExecutorSaves, ExecutorTransits, ExecutorWaits, ExecutorAsserts, ExecutorMisses,
     ExecutorAbandons, InventoryDeducts, executeFrame, RuntimeCrash, runVars
<1> QED
  BY <1>1, <1>2, <1>3 DEF Next

\* Only the pipeline deducts an order.
LEMMA InventoryActions ==
    ASSUME [Next]_runVars
    PROVE  UNCHANGED inventory \/ \E r \in Runs : InventoryDeducts(r)
<1>1. CASE WorkerNext
  BY <1>1 DEF WorkerNext, WorkerProceeds, CreateRun, WorkerClaims, WorkerStartsStep,
       WorkerAgentAnswers, WorkerDiagnoses, WorkerFinishesStep, WorkerConcludes,
       WorkerObserves, WorkerAbandons, WorkerMissesFinish, WorkerMissesStart, WorkerStops,
     workerFrame
<1>2. CASE EvaluationNext
  BY <1>2 DEF EvaluationNext, EvaluatorProceeds, EvaluationStart, EvaluatorCreates,
       EvaluatorLoads, EvaluatorStartsStep, EvaluatorFinishesStep, EvaluatorObserves,
       EvaluatorJudges, EvaluatorCompletes, EvaluatorAbandons, evaluationFrame
<1>3. CASE \E a \in Approvers : ApproverProceeds(a) \/ ApproverAbandons(a)
  BY <1>3 DEF ApproverProceeds, ApproverLoads, ApproverDecides, ApproverTransits,
       ApproverRecords, ApproverAbandons, approveFrame
<1>4. CASE \E x \in Executors : ExecutorProceeds(x) \/ ExecutorMisses(x) \/ ExecutorAbandons(x)
  BY <1>4 DEF ExecutorProceeds, ExecutorLoads, ExecutorBegins, ExecutorStarts,
       ExecutorCalls, ExecutorSaves, ExecutorTransits, ExecutorWaits, ExecutorAsserts,
       ExecutorMisses, ExecutorAbandons
<1>5. CASE RuntimeCrash \/ UNCHANGED runVars
  BY <1>5 DEF RuntimeCrash, runVars
<1> QED
  BY <1>1, <1>2, <1>3, <1>4, <1>5 DEF Next, RepairNext

-----------------------------------------------------------------------------
(* Rows and events                                                         *)

\* The types of the row and of its events, with what EventsTellTheRun says.
RowsAgree ==
    /\ status \in [Runs -> Statuses \cup {None}]
    /\ version \in [Runs -> Nat]
    /\ events \in [Runs -> Seq(Statuses)]
    /\ EventsTellTheRun

\* transitionTx, Fail and CompleteStatus keep row and events together.
LEMMA AdvanceKeepsRows ==
    ASSUME RowsAgree, NEW copy, NEW to \in Statuses, Advance(copy, to)
    PROVE  RowsAgree'
<1> DEFINE r == copy.run
<1>1. /\ status' = [status EXCEPT ![r] = to]
      /\ version' = [version EXCEPT ![r] = @ + 1]
      /\ events' = [events EXCEPT ![r] = Append(@, to)]
  BY DEF Advance
<1> HIDE DEF r
<1>2. to # None
  BY RunNoneAssumption
<1>3. \A q \in Runs : events[q] \in Seq(Statuses) /\ Append(events[q], to) \in Seq(Statuses)
  BY DEF RowsAgree
<1>4. /\ status' \in [Runs -> Statuses \cup {None}]
      /\ version' \in [Runs -> Nat]
      /\ events' \in [Runs -> Seq(Statuses)]
  <2>1. status' = [q \in Runs |-> IF q = r THEN to ELSE status[q]]
    BY <1>1 DEF RowsAgree
  <2>3. version' = [q \in Runs |-> IF q = r THEN version[q] + 1 ELSE version[q]]
    BY <1>1 DEF RowsAgree
  <2>4. \A q \in Runs : status[q] \in Statuses \cup {None} /\ version[q] \in Nat
    BY DEF RowsAgree
  <2>2. events' = [q \in Runs |-> IF q = r THEN Append(events[q], to) ELSE events[q]]
    BY <1>1 DEF RowsAgree
  <2> QED
    BY <1>3, <2>1, <2>2, <2>3, <2>4
<1>5. ASSUME NEW q \in Runs
      PROVE  /\ Len(events'[q]) = version'[q]
             /\ status'[q] = None <=> events'[q] = <<>>
             /\ status'[q] # None => events'[q][version'[q]] = status'[q]
  <2>1. /\ Len(events[q]) = version[q]
        /\ status[q] = None <=> events[q] = <<>>
        /\ status[q] # None => events[q][version[q]] = status[q]
    BY DEF RowsAgree, EventsTellTheRun
  <2>2. CASE q = r
    <3>1. events'[q] = Append(events[q], to) /\ status'[q] = to /\ version'[q] = version[q] + 1
      BY <1>1, <2>2 DEF RowsAgree
    <3>2. /\ Len(Append(events[q], to)) = Len(events[q]) + 1
          /\ Append(events[q], to)[Len(events[q]) + 1] = to
          /\ Append(events[q], to) # <<>>
      BY <1>3
    <3> QED
      BY <1>2, <2>1, <3>1, <3>2
  <2>3. CASE q # r
    BY <1>1, <2>1, <2>3 DEF RowsAgree
  <2> QED
    BY <2>2, <2>3
<1> QED
  BY <1>4, <1>5 DEF RowsAgree, EventsTellTheRun

\* CreateRun keeps them together.
LEMMA InsertKeepsRows ==
    ASSUME RowsAgree, NEW r \in Runs, InsertRun(r)
    PROVE  RowsAgree'
<1>1. "CREATED" \in Statuses /\ "CREATED" # None
  BY RunNoneAssumption DEF Statuses
<1>2. <<"CREATED">> \in Seq(Statuses) /\ Len(<<"CREATED">>) = 1 /\ <<"CREATED">> # <<>>
      /\ <<"CREATED">>[1] = "CREATED"
  BY <1>1
<1>3. /\ status' \in [Runs -> Statuses \cup {None}]
      /\ version' \in [Runs -> Nat]
      /\ events' \in [Runs -> Seq(Statuses)]
  BY <1>1, <1>2 DEF RowsAgree, InsertRun
<1>4. ASSUME NEW q \in Runs
      PROVE  /\ Len(events'[q]) = version'[q]
             /\ status'[q] = None <=> events'[q] = <<>>
             /\ status'[q] # None => events'[q][version'[q]] = status'[q]
  <2>1. CASE q = r
    BY <1>1, <1>2, <2>1 DEF RowsAgree, InsertRun
  <2>2. CASE q # r
    BY <2>2 DEF RowsAgree, InsertRun, EventsTellTheRun
  <2> QED
    BY <2>1, <2>2
<1> QED
  BY <1>3, <1>4 DEF RowsAgree, EventsTellTheRun

\* A change the table allows leads to a status.
LEMMA AllowedStatus ==
    ASSUME NEW copy, NEW to, Allowed(copy, to)
    PROVE  to \in Statuses
BY DEF Allowed, Transitions, Statuses

\* The same for Transition and Fail.
LEMMA TransitKeepsRows ==
    ASSUME RowsAgree, NEW copy, NEW to, Transit(copy, to)
    PROVE  RowsAgree'
BY AllowedStatus, AdvanceKeepsRows DEF Transit

\* A step that leaves the rows alone.
LEMMA QuietKeepsRows ==
    ASSUME RowsAgree, UNCHANGED rowVars
    PROVE  RowsAgree'
BY DEF RowsAgree, EventsTellTheRun, rowVars

\* Every other step is one of those.
LEMMA RowsStep == RowsAgree /\ [Next]_runVars => RowsAgree'
<1> SUFFICES ASSUME RowsAgree, [Next]_runVars
             PROVE  RowsAgree'
  OBVIOUS
<1>1. ASSUME NEW r \in Runs, InsertRun(r) PROVE RowsAgree'
  BY <1>1, InsertKeepsRows
<1>2. ASSUME NEW w \in Workers, WorkerClaims(w) PROVE RowsAgree'
  BY <1>2, TransitKeepsRows DEF WorkerClaims
<1>3. ASSUME NEW w \in Workers, WorkerConcludes(w) PROVE RowsAgree'
  <2>1. CASE UNCHANGED rowVars
    BY <2>1, QuietKeepsRows
  <2>2. CASE ~UNCHANGED rowVars
    BY <1>3, <2>2, AllowedStatus, AdvanceKeepsRows DEF WorkerConcludes
  <2> QED
    BY <2>1, <2>2
<1>4. ASSUME NEW a \in Approvers, ApproverTransits(a) PROVE RowsAgree'
  BY <1>4, TransitKeepsRows, QuietKeepsRows DEF ApproverTransits
<1>5. ASSUME NEW x \in Executors, ExecutorBegins(x) PROVE RowsAgree'
  BY <1>5, TransitKeepsRows, QuietKeepsRows DEF ExecutorBegins
<1>6. ASSUME NEW x \in Executors, ExecutorTransits(x) PROVE RowsAgree'
  BY <1>6, TransitKeepsRows, QuietKeepsRows DEF ExecutorTransits
<1>7. ASSUME NEW v \in Evaluators, EvaluatorCompletes(v) PROVE RowsAgree'
  <2>1. "EVIDENCE_COLLECTED" \in Statuses /\ "INCONCLUSIVE" \in Statuses
    BY DEF Statuses
  <2>2. CASE UNCHANGED rowVars
    BY <2>2, QuietKeepsRows
  <2>3. CASE ~UNCHANGED rowVars
    <3> DEFINE to == IF evaluator[v].outcome = "ok" THEN "EVIDENCE_COLLECTED"
                     ELSE "INCONCLUSIVE"
    <3>1. Advance(evaluator[v], to)
      BY <1>7, <2>3 DEF EvaluatorCompletes
    <3>2. to \in Statuses
      BY <2>1
    <3> QED
      BY <3>1, <3>2, AdvanceKeepsRows
  <2> QED
    BY <2>2, <2>3
<1> QED
  BY <1>1, <1>2, <1>3, <1>4, <1>5, <1>6, <1>7, QuietKeepsRows, RowActions

\* Initially there is no row and no event.
LEMMA RowsInit == Init => RowsAgree
<1> SUFFICES ASSUME Init PROVE RowsAgree
  OBVIOUS
<1>1. Len(<<>>) = 0 /\ <<>> \in Seq(Statuses)
  OBVIOUS
<1> QED
  BY <1>1 DEF Init, RowsAgree, EventsTellTheRun

\* The events of a run always tell its status and its version: transitionTx,
\* Fail, CompleteStatus and CreateRun write both in one transaction.
THEOREM EventsAlwaysTellTheRun == Spec => []EventsTellTheRun
<1>1. RowsAgree => EventsTellTheRun
  BY DEF RowsAgree
<1> QED
  BY RowsInit, RowsStep, <1>1, PTL DEF Spec

-----------------------------------------------------------------------------
(* Types                                                                   *)

\* A goroutine or request that holds nothing, and one that is somewhere in its
\* work.
LEMMA LocalKinds ==
    /\ Idle \in Local /\ Done \in Local /\ Stopped \in Local
    /\ Busy \subseteq Local
    /\ \A l \in Local : l.at \in Places => l \in Busy
    /\ Idle.at \notin Places /\ Done.at \notin Places /\ Stopped.at \notin Places
BY DEF Idle, Done, Stopped, Local, Places

\* Every place the actions name, and every status they write.
LEMMA Literals ==
    /\ {"start", "agent", "finish", "conclude", "evidence", "reject", "confirm", "healthy",
        "policy", "request", "record", "begin", "call", "save", "verify", "wait", "refuse",
        "assert", "repaired", "judge", "fail", "complete"} \subseteq Places
    /\ {"PLANNING", "EXECUTING", "VERIFYING", "POLICY_CHECK", "AWAITING_APPROVAL",
        "CREATED"} \subseteq Statuses
    /\ {"PLANNER", "INVESTIGATOR", "KNOWLEDGE", "DIAGNOSIS"} \subseteq Agents
    /\ {"ok", "failed", "inconclusive", "error", "conflict", "unsupported"} \subseteq Outcomes
BY DEF Places, Statuses, Agents, Outcomes

\* A copy in one field, and its fields.
LEMMA BusyFields ==
    ASSUME NEW l \in Busy
    PROVE  /\ \A at \in Places : [l EXCEPT !.at = at] \in Busy
           /\ \A k \in IdempotencyKeys : [l EXCEPT !.key = k] \in Busy
           /\ l.run \in Runs /\ l.step \in Nat /\ l.agent \in Agents
           /\ l.cause \in RootCauseCatalog \cup {None} /\ l.key \in IdempotencyKeys \cup {None}
           /\ l.status \in Statuses /\ l.version \in Nat
BY DEF Busy

\* GetRun makes a well-typed copy.
LEMMA CopyTyped ==
    ASSUME TypeOK, NEW r \in Runs, status[r] # None, NEW at \in Places
    PROVE  CopyOf(r, at) \in Busy
<1>1. /\ status[r] \in Statuses
      /\ version[r] \in Nat
      /\ diagnosis[r] \in RootCauseCatalog \cup {None}
  BY DEF TypeOK
<1> QED
  BY <1>1, Literals DEF CopyOf, Idle, Busy

\* A successful update leaves a well-typed copy.
LEMMA MovedTyped ==
    ASSUME NEW copy \in Busy, NEW to \in Statuses, NEW at \in Places
    PROVE  Moved(copy, to, at) \in Busy
<1>1. copy.version + 1 \in Nat
  BY BusyFields
<1>2. Moved(copy, to, at) =
          [copy EXCEPT !.status = to, !.version = copy.version + 1, !.at = at]
  BY DEF Moved, Busy
<1> QED
  BY <1>1, <1>2 DEF Busy

\* Keys an execute request can carry, and the actions behind them.
LEMMA KeysTyped ==
    /\ \A cause : RepairAction(cause) \in Actions \cup {None}
    /\ \A r \in Runs, action \in Actions : DefaultKey(r, action) \in IdempotencyKeys
    /\ CallerKeys \subseteq IdempotencyKeys
<1>1. \A cause : RepairAction(cause) \in Actions \cup {None}
  BY DEF RepairAction, Actions
<1>2. \A r \in Runs, action \in Actions : DefaultKey(r, action) \in IdempotencyKeys
  BY DEF DefaultKey, IdempotencyKeys
<1> QED
  BY <1>1, <1>2 DEF IdempotencyKeys

\* An execute request's new local state.
LEMMA ExecuteTyped ==
    ASSUME executor \in [Executors -> Local], NEW x \in Executors, NEW l \in Local,
           Execute(x, l)
    PROVE  executor' \in [Executors -> Local]
BY DEF Execute

\* Every step keeps the copies of the execute requests well typed.
LEMMA ExecutorsStep ==
    ASSUME TypeOK, [Next]_runVars
    PROVE  executor' \in [Executors -> Local]
<1> USE LocalKinds, Literals
<1>0. executor \in [Executors -> Local]
  BY DEF TypeOK
<1>1. ASSUME NEW x \in Executors, ExecutorLoads(x) PROVE executor' \in [Executors -> Local]
  <2>1. PICK r \in Runs, k \in IdempotencyKeys :
           status[r] = "AWAITING_APPROVAL" /\ Execute(x, [CopyOf(r, "begin") EXCEPT !.key = k])
    BY <1>1, KeysTyped DEF ExecutorLoads
  <2>2. [CopyOf(r, "begin") EXCEPT !.key = k] \in Busy
    <3>1. status[r] # None
      BY <2>1, RunNoneAssumption DEF Statuses
    <3> QED
      BY <3>1, CopyTyped, BusyFields
  <2> QED
    BY <1>0, <2>1, <2>2, ExecuteTyped
<1>2. ASSUME NEW x \in Executors, ExecutorBegins(x) PROVE executor' \in [Executors -> Local]
  BY <1>0, <1>2, ExecuteTyped, MovedTyped DEF ExecutorBegins
<1>3. ASSUME NEW x \in Executors, ExecutorStarts(x) PROVE executor' \in [Executors -> Local]
  BY <1>0, <1>3, ExecuteTyped, BusyFields DEF ExecutorStarts
<1>4. ASSUME NEW x \in Executors, ExecutorCalls(x) PROVE executor' \in [Executors -> Local]
  <2>1. PICK o \in {"ok", "failed"} :
           Execute(x, [executor[x] EXCEPT !.at = "save", !.outcome = o])
    BY <1>4 DEF ExecutorCalls
  <2>2. executor[x] \in Busy
    BY <1>0, <1>4 DEF ExecutorCalls
  <2>3. [executor[x] EXCEPT !.at = "save", !.outcome = o] \in Busy
    BY <2>2 DEF Busy
  <2> QED
    BY <1>0, <2>1, <2>3, ExecuteTyped
<1>5. ASSUME NEW x \in Executors, ExecutorSaves(x) PROVE executor' \in [Executors -> Local]
  BY <1>0, <1>5, ExecuteTyped, BusyFields DEF ExecutorSaves
<1>6. ASSUME NEW x \in Executors, ExecutorTransits(x) PROVE executor' \in [Executors -> Local]
  <2>1. \E l \in {Done, Moved(executor[x], "VERIFYING", "wait"),
                  [executor[x] EXCEPT !.at = "wait"]} : Execute(x, l)
    BY <1>6 DEF ExecutorTransits
  <2>2. executor[x] \in Busy
    BY <1>0, <1>6 DEF ExecutorTransits
  <2>3. /\ Moved(executor[x], "VERIFYING", "wait") \in Busy
        /\ [executor[x] EXCEPT !.at = "wait"] \in Busy
    BY <2>2, MovedTyped, BusyFields
  <2> QED
    BY <1>0, <2>1, <2>3, ExecuteTyped
<1>7. ASSUME NEW x \in Executors, ExecutorWaits(x) PROVE executor' \in [Executors -> Local]
  BY <1>0, <1>7, ExecuteTyped, BusyFields DEF ExecutorWaits
<1>8. ASSUME NEW x \in Executors, ExecutorAsserts(x) PROVE executor' \in [Executors -> Local]
  BY <1>0, <1>8, ExecuteTyped, BusyFields DEF ExecutorAsserts
<1>9. ASSUME NEW x \in Executors, ExecutorMisses(x) PROVE executor' \in [Executors -> Local]
  BY <1>0, <1>9, ExecuteTyped, BusyFields DEF ExecutorMisses
<1>10. ASSUME NEW x \in Executors, ExecutorAbandons(x) PROVE executor' \in [Executors -> Local]
  BY <1>0, <1>10, ExecuteTyped DEF ExecutorAbandons
<1>11. ASSUME RuntimeCrash PROVE executor' \in [Executors -> Local]
  BY <1>11 DEF RuntimeCrash
<1> QED
  BY <1>0, <1>1, <1>2, <1>3, <1>4, <1>5, <1>6, <1>7, <1>8, <1>9, <1>10, <1>11, CopyActions
     DEF ExecutorProceeds

\* An approve request's new local state.
LEMMA ApproveTyped ==
    ASSUME approver \in [Approvers -> Local], NEW a \in Approvers, NEW l \in Local,
           Approve(a, l)
    PROVE  approver' \in [Approvers -> Local]
BY DEF Approve

\* Every step keeps the copies of the approve requests well typed.
LEMMA ApproversStep ==
    ASSUME TypeOK, [Next]_runVars
    PROVE  approver' \in [Approvers -> Local]
<1> USE LocalKinds, Literals
<1>0. approver \in [Approvers -> Local]
  BY DEF TypeOK
<1>1. ASSUME NEW a \in Approvers, ApproverLoads(a) PROVE approver' \in [Approvers -> Local]
  <2>1. PICK r \in Runs : status[r] = "EVIDENCE_COLLECTED" /\ Approve(a, CopyOf(r, "evidence"))
    BY <1>1 DEF ApproverLoads
  <2>2. status[r] # None
    BY <2>1, RunNoneAssumption DEF Statuses
  <2> QED
    BY <1>0, <2>1, <2>2, ApproveTyped, CopyTyped
<1>2. ASSUME NEW a \in Approvers, ApproverDecides(a) PROVE approver' \in [Approvers -> Local]
  <2>1. \E at \in {"reject", "confirm", "policy"} :
           Approve(a, Done) \/ Approve(a, [approver[a] EXCEPT !.at = at])
    BY <1>2 DEF ApproverDecides
  <2>2. approver[a] \in Busy
    BY <1>0, <1>2 DEF ApproverDecides
  <2> QED
    BY <1>0, <2>1, <2>2, ApproveTyped, BusyFields
<1>3. ASSUME NEW a \in Approvers, ApproverTransits(a) PROVE approver' \in [Approvers -> Local]
  <2>1. \E l \in {Done, Moved(approver[a], "POLICY_CHECK", "request"),
                  Moved(approver[a], "AWAITING_APPROVAL", "record")} : Approve(a, l)
    BY <1>3 DEF ApproverTransits
  <2>2. approver[a] \in Busy
    BY <1>0, <1>3 DEF ApproverTransits
  <2> QED
    BY <1>0, <2>1, <2>2, ApproveTyped, MovedTyped
<1>4. ASSUME NEW a \in Approvers, ApproverRecords(a) PROVE approver' \in [Approvers -> Local]
  BY <1>0, <1>4, ApproveTyped, BusyFields DEF ApproverRecords
<1>5. ASSUME NEW a \in Approvers, ApproverAbandons(a) PROVE approver' \in [Approvers -> Local]
  BY <1>0, <1>5, ApproveTyped DEF ApproverAbandons
<1>6. ASSUME RuntimeCrash PROVE approver' \in [Approvers -> Local]
  BY <1>6 DEF RuntimeCrash
<1> QED
  BY <1>0, <1>1, <1>2, <1>3, <1>4, <1>5, <1>6, CopyActions DEF ApproverProceeds

\* An evaluation request's new local state.
LEMMA EvaluateTyped ==
    ASSUME evaluator \in [Evaluators -> Local], NEW v \in Evaluators, NEW l \in Local,
           Evaluate(v, l)
    PROVE  evaluator' \in [Evaluators -> Local]
BY DEF Evaluate

\* Every step keeps the copies of the evaluation requests well typed.
LEMMA EvaluatorsStep ==
    ASSUME TypeOK, [Next]_runVars
    PROVE  evaluator' \in [Evaluators -> Local]
<1> USE LocalKinds, Literals
<1>0. evaluator \in [Evaluators -> Local]
  BY DEF TypeOK
<1>1. ASSUME NEW v \in Evaluators, EvaluatorCreates(v) PROVE evaluator' \in [Evaluators -> Local]
  <2>1. PICK r \in Runs :
           Evaluate(v, [Idle EXCEPT !.at = "start", !.run = r, !.status = "CREATED",
                                    !.version = 1, !.agent = "DIAGNOSIS"])
    BY <1>1 DEF EvaluatorCreates
  <2>2. [Idle EXCEPT !.at = "start", !.run = r, !.status = "CREATED",
                     !.version = 1, !.agent = "DIAGNOSIS"] \in Busy
    BY DEF Idle, Busy
  <2> QED
    BY <1>0, <2>1, <2>2, EvaluateTyped
<1>2. ASSUME NEW v \in Evaluators, EvaluatorLoads(v) PROVE evaluator' \in [Evaluators -> Local]
  <2>1. PICK r \in Runs :
           /\ status[r] # None
           /\ Evaluate(v, [CopyOf(r, "start") EXCEPT !.agent = "DIAGNOSIS", !.cause = None])
    BY <1>2 DEF EvaluatorLoads
  <2>2. CopyOf(r, "start") \in Busy
    BY <2>1, CopyTyped
  <2>3. [CopyOf(r, "start") EXCEPT !.agent = "DIAGNOSIS", !.cause = None] \in Busy
    BY <2>2 DEF Busy
  <2> QED
    BY <1>0, <2>1, <2>3, EvaluateTyped
<1>3. ASSUME NEW v \in Evaluators, EvaluatorStartsStep(v) PROVE evaluator' \in [Evaluators -> Local]
  <2>1. PICK cause \in RootCauses :
           Evaluate(v, [evaluator[v] EXCEPT !.at = "finish",
                           !.step = Len(steps[evaluator[v].run]) + 1, !.cause = cause])
    BY <1>3 DEF EvaluatorStartsStep
  <2>2. evaluator[v] \in Busy /\ evaluator[v].run \in Runs
    BY <1>0, <1>3, BusyFields DEF EvaluatorStartsStep
  <2>3. Len(steps[evaluator[v].run]) + 1 \in Nat
    BY <2>2 DEF TypeOK
  <2>4. [evaluator[v] EXCEPT !.at = "finish", !.step = Len(steps[evaluator[v].run]) + 1,
                             !.cause = cause] \in Busy
    BY <2>2, <2>3, RunBoundAssumption DEF Busy
  <2> QED
    BY <1>0, <2>1, <2>4, EvaluateTyped
<1>4. ASSUME NEW v \in Evaluators, EvaluatorFinishesStep(v) PROVE evaluator' \in [Evaluators -> Local]
  BY <1>0, <1>4, EvaluateTyped, BusyFields DEF EvaluatorFinishesStep
<1>5. ASSUME NEW v \in Evaluators, EvaluatorJudges(v) PROVE evaluator' \in [Evaluators -> Local]
  <2>2. evaluator[v] \in Busy
    BY <1>0, <1>5 DEF EvaluatorJudges
  <2>1. /\ [evaluator[v] EXCEPT !.at = "complete"] \in Busy
        /\ [evaluator[v] EXCEPT !.at = "fail", !.outcome = "unsupported"] \in Busy
    BY <2>2 DEF Busy
  <2> QED
    BY <1>0, <1>5, <2>1, EvaluateTyped DEF EvaluatorJudges
<1>6. ASSUME NEW v \in Evaluators, EvaluatorCompletes(v) \/ EvaluatorAbandons(v)
      PROVE  evaluator' \in [Evaluators -> Local]
  BY <1>0, <1>6, EvaluateTyped DEF EvaluatorCompletes, EvaluatorAbandons
<1>7. ASSUME RuntimeCrash PROVE evaluator' \in [Evaluators -> Local]
  BY <1>7 DEF RuntimeCrash
<1> QED
  BY <1>0, <1>1, <1>2, <1>3, <1>4, <1>5, <1>6, <1>7, CopyActions DEF EvaluatorProceeds

\* Every step keeps the copies of the goroutines in RunWorker well typed.
LEMMA WorkersStep ==
    ASSUME TypeOK, [Next]_runVars
    PROVE  worker' \in [Workers -> Local]
<1> USE LocalKinds, Literals
<1>0. worker \in [Workers -> Local]
  BY DEF TypeOK
<1>1. ASSUME NEW w \in Workers, WorkerClaims(w) PROVE worker' \in [Workers -> Local]
  <2>1. PICK r \in Runs :
           /\ status[r] = "CREATED"
           /\ worker' = [worker EXCEPT ![w] = Moved(CopyOf(r, "start"), "PLANNING", "start")]
    BY <1>1 DEF WorkerClaims
  <2>2. status[r] # None
    BY <2>1, RunNoneAssumption
  <2>3. Moved(CopyOf(r, "start"), "PLANNING", "start") \in Busy
    BY <2>2, CopyTyped, MovedTyped
  <2> QED
    BY <1>0, <2>1, <2>3
<1>2. ASSUME NEW w \in Workers, WorkerStartsStep(w) PROVE worker' \in [Workers -> Local]
  <2>1. worker[w] \in Busy /\ worker[w].run \in Runs
    BY <1>0, <1>2, BusyFields DEF WorkerStartsStep
  <2>2. Len(steps[worker[w].run]) + 1 \in Nat
    BY <2>1 DEF TypeOK
  <2>3. [worker[w] EXCEPT !.at = "agent", !.step = Len(steps[worker[w].run]) + 1] \in Busy
    BY <2>1, <2>2 DEF Busy
  <2>4. worker' = [worker EXCEPT ![w] =
                      [worker[w] EXCEPT !.at = "agent", !.step = Len(steps[worker[w].run]) + 1]]
    BY <1>0, <1>2 DEF WorkerStartsStep
  <2> QED
    BY <1>0, <2>3, <2>4
<1>3. ASSUME NEW w \in Workers, WorkerAgentAnswers(w) PROVE worker' \in [Workers -> Local]
  <2>1. PICK at \in {"finish", "conclude"}, o \in {"ok", "failed", "inconclusive"} :
           worker' = [worker EXCEPT ![w].at = at, ![w].outcome = o]
    BY <1>3 DEF WorkerAgentAnswers, Answers
  <2>2. worker[w] \in Busy
    BY <1>0, <1>3 DEF WorkerAgentAnswers
  <2>3. [worker[w] EXCEPT !.at = at, !.outcome = o] \in Busy
    BY <2>2 DEF Busy
  <2>4. worker' = [worker EXCEPT ![w] = [worker[w] EXCEPT !.at = at, !.outcome = o]]
    BY <1>0, <2>1
  <2> QED
    BY <1>0, <2>3, <2>4
<1>4. ASSUME NEW w \in Workers, WorkerDiagnoses(w) PROVE worker' \in [Workers -> Local]
  <2>1. PICK c \in RootCauseCatalog \cup {None},
             o \in {"error", "conflict", "ok", "unsupported"} :
           worker' = [worker EXCEPT ![w].at = "finish", ![w].outcome = o, ![w].cause = c]
    BY <1>4, RunBoundAssumption DEF WorkerDiagnoses
  <2>2. worker[w] \in Busy
    BY <1>0, <1>4 DEF WorkerDiagnoses
  <2>3. [worker[w] EXCEPT !.at = "finish", !.outcome = o, !.cause = c] \in Busy
    BY <2>2 DEF Busy
  <2>4. worker' = [worker EXCEPT ![w] =
                      [worker[w] EXCEPT !.at = "finish", !.outcome = o, !.cause = c]]
    BY <1>0, <2>1
  <2> QED
    BY <1>0, <2>3, <2>4
<1>5. ASSUME NEW w \in Workers, WorkerFinishesStep(w) \/ WorkerMissesFinish(w)
      PROVE  worker' \in [Workers -> Local]
  <2>1. worker' = [worker EXCEPT ![w] = [worker[w] EXCEPT !.at = "conclude"]]
    BY <1>0, <1>5 DEF WorkerFinishesStep, WorkerMissesFinish
  <2>2. worker[w] \in Busy
    BY <1>0, <1>5 DEF WorkerFinishesStep, WorkerMissesFinish
  <2> QED
    BY <1>0, <2>1, <2>2, BusyFields
<1>6. ASSUME NEW w \in Workers, WorkerMissesStart(w) PROVE worker' \in [Workers -> Local]
  <2>1. worker' = [worker EXCEPT ![w] =
                      [worker[w] EXCEPT !.at = "conclude", !.outcome = "failed"]]
    BY <1>0, <1>6 DEF WorkerMissesStart
  <2>2. worker[w] \in Busy
    BY <1>0, <1>6 DEF WorkerMissesStart
  <2>3. [worker[w] EXCEPT !.at = "conclude", !.outcome = "failed"] \in Busy
    BY <2>2 DEF Busy
  <2> QED
    BY <1>0, <2>1, <2>3
<1>7. ASSUME NEW w \in Workers, WorkerConcludes(w) PROVE worker' \in [Workers -> Local]
  <2> DEFINE me == worker[w]
             to == NextStatus(me)
  <2>1. CASE worker' = [worker EXCEPT ![w] = Idle]
    BY <1>0, <2>1
  <2>2. CASE worker' # [worker EXCEPT ![w] = Idle]
    <3> DEFINE attempt == IF me.agent = "DIAGNOSIS" THEN 1 ELSE me.attempt
    <3>1. Allowed(me, to)
      BY <1>7, <2>2 DEF WorkerConcludes
    <3>2. me \in Busy
      BY <1>0, <1>7 DEF WorkerConcludes
    <3>3. Moved(me, to, "start") \in Busy
      BY <3>1, <3>2, AllowedStatus, MovedTyped
    <3>4. NextAgent(to) \in Agents
      BY DEF NextAgent
    <3>5. attempt \in {0, 1}
      BY <3>2 DEF Busy
    <3>6. [Moved(me, to, "start") EXCEPT
              !.agent = NextAgent(to), !.step = 0, !.outcome = "ok", !.cause = None,
              !.attempt = attempt] \in Busy
      BY <3>3, <3>4, <3>5 DEF Busy
    <3>7. Moved(me, to, "start").attempt = me.attempt
      BY <3>2 DEF Moved, Busy
    <3>8. worker' = [worker EXCEPT ![w] =
             [Moved(me, to, "start") EXCEPT
                 !.agent = NextAgent(to), !.step = 0, !.outcome = "ok", !.cause = None,
                 !.attempt = attempt]]
      BY <1>7, <2>2, <3>7 DEF WorkerConcludes
    <3> HIDE DEF to, attempt
    <3> QED
      BY <1>0, <3>6, <3>8
  <2> QED
    BY <2>1, <2>2
<1>8. ASSUME NEW w \in Workers, WorkerAbandons(w) \/ WorkerStops(w)
      PROVE  worker' \in [Workers -> Local]
  BY <1>0, <1>8 DEF WorkerAbandons, WorkerStops
<1>9. ASSUME RuntimeCrash PROVE worker' \in [Workers -> Local]
  BY <1>9 DEF RuntimeCrash
<1> QED
  BY <1>0, <1>1, <1>2, <1>3, <1>4, <1>5, <1>6, <1>7, <1>8, <1>9, CopyActions
     DEF WorkerProceeds

\* The steps of a run, and what StartStep and FinishStep make of them.
StepRows == [agent : Agents, by : {"runtime", "single_agent"},
             state : {"RUNNING", "SUCCEEDED", "FAILED"}]

LEMMA StartTyped ==
    ASSUME steps \in [Runs -> Seq(StepRows)], NEW r \in Runs, NEW agent \in Agents,
           NEW by \in {"runtime", "single_agent"},
           steps' = [steps EXCEPT ![r] = Started(r, agent, by)]
    PROVE  steps' \in [Runs -> Seq(StepRows)]
<1>1. [agent |-> agent, by |-> by, state |-> "RUNNING"] \in StepRows
  BY DEF StepRows
<1>2. Started(r, agent, by) \in Seq(StepRows)
  BY <1>1 DEF Started
<1> QED
  BY <1>2

LEMMA FinishTyped ==
    ASSUME steps \in [Runs -> Seq(StepRows)], NEW r \in Runs, NEW i \in Nat,
           NEW state \in {"SUCCEEDED", "FAILED"}, FinishStep(r, i, state)
    PROVE  steps' \in [Runs -> Seq(StepRows)]
<1> DEFINE finished == [steps[r] EXCEPT ![i].state = state]
<1>1. steps[r] \in Seq(StepRows) /\ Len(steps[r]) \in Nat
      /\ DOMAIN steps[r] = 1 .. Len(steps[r])
  OBVIOUS
<1>2. \A row \in StepRows : [row EXCEPT !.state = state] \in StepRows
  BY DEF StepRows
<1>3. finished = [j \in 1 .. Len(steps[r]) |->
                     IF j = i THEN [steps[r][j] EXCEPT !.state = state] ELSE steps[r][j]]
  BY <1>1
<1>4. \A j \in 1 .. Len(steps[r]) : steps[r][j] \in StepRows
  BY <1>1
<1>5. \A j \in 1 .. Len(steps[r]) : finished[j] \in StepRows
  BY <1>2, <1>3, <1>4
<1>6. finished \in Seq(StepRows)
  <2>1. finished \in [1 .. Len(steps[r]) -> StepRows]
    BY <1>3, <1>5
  <2> HIDE DEF finished
  <2> QED
    BY <1>1, <2>1, SeqDef
<1>7. CASE steps' = steps
  BY <1>7
<1>8. CASE steps' = [steps EXCEPT ![r][i].state = state]
  <2>1. steps' = [steps EXCEPT ![r] = finished]
    BY <1>8
  <2> HIDE DEF finished
  <2> QED
    BY <1>6, <2>1
<1> QED
  BY <1>7, <1>8 DEF FinishStep

\* Every step keeps the agents' steps well typed.
LEMMA StepsStep ==
    ASSUME TypeOK, [Next]_runVars
    PROVE  steps' \in [Runs -> Seq(StepRows)]
<1> USE LocalKinds, Literals
<1>0. /\ steps \in [Runs -> Seq(StepRows)]
      /\ worker \in [Workers -> Local]
      /\ evaluator \in [Evaluators -> Local]
  BY DEF TypeOK, StepRows
<1>1. ASSUME NEW w \in Workers, WorkerStartsStep(w) PROVE steps' \in [Runs -> Seq(StepRows)]
  <2>1. worker[w] \in Busy
    BY <1>0, <1>1 DEF WorkerStartsStep
  <2>2. worker[w].run \in Runs /\ worker[w].agent \in Agents
    BY <2>1, BusyFields
  <2> QED
    BY <1>0, <1>1, <2>2, StartTyped DEF WorkerStartsStep
<1>2. ASSUME NEW v \in Evaluators, EvaluatorStartsStep(v) PROVE steps' \in [Runs -> Seq(StepRows)]
  <2>1. evaluator[v] \in Busy
    BY <1>0, <1>2 DEF EvaluatorStartsStep
  <2>2. evaluator[v].run \in Runs /\ evaluator[v].agent \in Agents
    BY <2>1, BusyFields
  <2> QED
    BY <1>0, <1>2, <2>2, StartTyped DEF EvaluatorStartsStep
<1>3. ASSUME NEW w \in Workers, WorkerFinishesStep(w) PROVE steps' \in [Runs -> Seq(StepRows)]
  <2>1. worker[w] \in Busy
    BY <1>0, <1>3 DEF WorkerFinishesStep
  <2>2. worker[w].run \in Runs /\ worker[w].step \in Nat
    BY <2>1, BusyFields
  <2> QED
    BY <1>0, <1>3, <2>2, FinishTyped DEF WorkerFinishesStep
<1>4. ASSUME NEW v \in Evaluators, EvaluatorFinishesStep(v) PROVE steps' \in [Runs -> Seq(StepRows)]
  <2>1. evaluator[v] \in Busy
    BY <1>0, <1>4 DEF EvaluatorFinishesStep
  <2>2. evaluator[v].run \in Runs /\ evaluator[v].step \in Nat
    BY <2>1, BusyFields
  <2> QED
    BY <1>0, <1>4, <2>2, FinishTyped DEF EvaluatorFinishesStep
<1> QED
  BY <1>0, <1>1, <1>2, <1>3, <1>4, StepActions

\* Every step keeps the diagnoses well typed.
LEMMA DiagnosisStep ==
    ASSUME TypeOK, [Next]_runVars
    PROVE  diagnosis' \in [Runs -> RootCauseCatalog \cup {None}]
<1> USE LocalKinds, Literals
<1>0. /\ diagnosis \in [Runs -> RootCauseCatalog \cup {None}]
      /\ worker \in [Workers -> Local]
      /\ evaluator \in [Evaluators -> Local]
  BY DEF TypeOK
<1>1. ASSUME NEW w \in Workers, WorkerConcludes(w)
      PROVE  diagnosis' \in [Runs -> RootCauseCatalog \cup {None}]
  <2>1. worker[w] \in Busy
    BY <1>0, <1>1 DEF WorkerConcludes
  <2>2. worker[w].cause \in RootCauseCatalog \cup {None}
    BY <2>1, BusyFields
  <2>3. \/ diagnosis' = diagnosis
        \/ diagnosis' = [diagnosis EXCEPT ![worker[w].run] = worker[w].cause]
    BY <1>1 DEF WorkerConcludes, rowVars
  <2> QED
    BY <1>0, <2>2, <2>3
<1>2. ASSUME NEW v \in Evaluators, EvaluatorCompletes(v)
      PROVE  diagnosis' \in [Runs -> RootCauseCatalog \cup {None}]
  <2>1. evaluator[v] \in Busy
    BY <1>0, <1>2 DEF EvaluatorCompletes
  <2>2. evaluator[v].cause \in RootCauseCatalog \cup {None}
    BY <2>1, BusyFields
  <2>3. \/ diagnosis' = diagnosis
        \/ diagnosis' = [diagnosis EXCEPT ![evaluator[v].run] = evaluator[v].cause]
    BY <1>2 DEF EvaluatorCompletes, rowVars
  <2> QED
    BY <1>0, <2>2, <2>3
<1>3. ASSUME \/ \E r \in Runs : CreateRun(r) \/ EvaluationStart(r)
             \/ \E w \in Workers :
                   \/ WorkerClaims(w) \/ WorkerStartsStep(w) \/ WorkerAgentAnswers(w)
                   \/ WorkerDiagnoses(w) \/ WorkerFinishesStep(w) \/ WorkerObserves(w)
                   \/ WorkerAbandons(w) \/ WorkerMissesFinish(w) \/ WorkerMissesStart(w)
                   \/ WorkerStops(w)
             \/ \E v \in Evaluators :
                   \/ EvaluatorCreates(v) \/ EvaluatorLoads(v) \/ EvaluatorStartsStep(v)
                   \/ EvaluatorFinishesStep(v) \/ EvaluatorObserves(v) \/ EvaluatorJudges(v)
                   \/ EvaluatorAbandons(v)
             \/ RepairNext \/ RuntimeCrash \/ UNCHANGED runVars
      PROVE  diagnosis' = diagnosis
  <2>1. CASE RepairNext
    BY <2>1 DEF RepairNext, ApproverProceeds, ApproverLoads, ApproverDecides,
       ApproverTransits, ApproverRecords, ApproverAbandons, Transit, rowVars,
       ExecutorProceeds, ExecutorLoads, ExecutorBegins, ExecutorStarts,
       ExecutorCalls, ExecutorSaves, ExecutorTransits, ExecutorWaits, ExecutorAsserts,
       ExecutorMisses, ExecutorAbandons, InventoryDeducts
  <2> QED
    BY <1>3, <2>1 DEF CreateRun, EvaluationStart, InsertRun, Transit, rowVars, WorkerClaims,
       WorkerStartsStep, WorkerAgentAnswers, WorkerDiagnoses, WorkerFinishesStep,
       WorkerObserves, WorkerAbandons, WorkerMissesFinish, WorkerMissesStart, WorkerStops,
       EvaluatorCreates, EvaluatorLoads, EvaluatorStartsStep, EvaluatorFinishesStep,
       EvaluatorObserves, EvaluatorJudges, EvaluatorAbandons, RuntimeCrash, runVars
<1> QED
  BY <1>0, <1>1, <1>2, <1>3
     DEF Next, WorkerNext, WorkerProceeds, EvaluationNext, EvaluatorProceeds

\* Who writes the tables of the repair loop: everybody else leaves them alone.
LEMMA RepairTablesAlone ==
    ASSUME [Next]_runVars,
           ~ \E a \in Approvers : ApproverRecords(a),
           ~ \E x \in Executors :
                ExecutorStarts(x) \/ ExecutorCalls(x) \/ ExecutorSaves(x) \/ ExecutorAsserts(x)
    PROVE  UNCHANGED repairVars
<1>1. CASE WorkerNext
  BY <1>1 DEF WorkerNext, WorkerProceeds, CreateRun, WorkerClaims, WorkerStartsStep,
       WorkerAgentAnswers, WorkerDiagnoses, WorkerFinishesStep, WorkerConcludes,
       WorkerObserves, WorkerAbandons, WorkerMissesFinish, WorkerMissesStart, WorkerStops,
     workerFrame
<1>2. CASE EvaluationNext
  BY <1>2 DEF EvaluationNext, EvaluatorProceeds, EvaluationStart, EvaluatorCreates,
       EvaluatorLoads, EvaluatorStartsStep, EvaluatorFinishesStep, EvaluatorObserves,
       EvaluatorJudges, EvaluatorCompletes, EvaluatorAbandons,
     evaluationFrame
<1>3. CASE \E a \in Approvers : ApproverProceeds(a) \/ ApproverAbandons(a)
  BY <1>3 DEF ApproverProceeds, ApproverLoads, ApproverDecides, ApproverTransits,
     ApproverAbandons, approveFrame, repairVars
<1>4. CASE \E x \in Executors : ExecutorProceeds(x) \/ ExecutorMisses(x) \/ ExecutorAbandons(x)
  BY <1>4 DEF ExecutorProceeds, ExecutorLoads, ExecutorBegins, ExecutorTransits,
     ExecutorWaits, ExecutorMisses, ExecutorAbandons, executeFrame, repairVars
<1>5. CASE \/ RuntimeCrash \/ UNCHANGED runVars
           \/ \E r \in Runs : InventoryDeducts(r)
  BY <1>5 DEF RuntimeCrash, InventoryDeducts, executeFrame, repairVars, runVars
<1> QED
  BY <1>1, <1>2, <1>3, <1>4, <1>5 DEF Next, RepairNext

\* What OneCallPerKey rests on.  A request that is about to call, or has
\* called, the tool holds a key that is on record; nobody has called with the
\* key of a request that is about to, and no two of those share one.
CallsInv ==
    /\ \A x \in Executors :
          executor[x].at \in {"begin", "start", "call", "save"} =>
             executor[x].key \in IdempotencyKeys
    /\ \A x \in Executors :
          executor[x].at \in {"call", "save"} => executions[executor[x].key] \in Execution
    /\ \A x \in Executors : executor[x].at = "call" => calls[executor[x].key] = 0
    /\ \A x, y \in Executors :
          /\ executor[x].at = "call" /\ executor[y].at = "call"
          /\ executor[x].key = executor[y].key
          => x = y
    /\ \A k \in IdempotencyKeys : calls[k] <= 1 /\ (calls[k] > 0 => executions[k] \in Execution)

\* Every step keeps the tables of the repair loop well typed.
LEMMA RepairTablesStep ==
    ASSUME TypeOK, CallsInv, [Next]_runVars
    PROVE  /\ approvals' \in [Runs -> [ApprovalTypes -> Nat]]
           /\ executions' \in [IdempotencyKeys -> Execution \cup {None}]
           /\ calls' \in [IdempotencyKeys -> Nat]
           /\ verifications' \in [Runs -> SUBSET {"PASSED", "FAILED"}]
<1> USE LocalKinds, Literals DEF repairVars
<1>0. /\ approvals \in [Runs -> [ApprovalTypes -> Nat]]
      /\ executions \in [IdempotencyKeys -> Execution \cup {None}]
      /\ calls \in [IdempotencyKeys -> Nat]
      /\ verifications \in [Runs -> SUBSET {"PASSED", "FAILED"}]
      /\ executor \in [Executors -> Local]
  BY DEF TypeOK
<1>1. CASE \E a \in Approvers : ApproverRecords(a)
  <2>1. PICK r, type :
           /\ approvals' = [approvals EXCEPT ![r][type] = @ + 1]
           /\ UNCHANGED <<executions, calls, verifications>>
    BY <1>1 DEF ApproverRecords, approveFrame
  <2>2. approvals' = [q \in Runs |->
           IF q = r THEN [t \in ApprovalTypes |-> IF t = type THEN approvals[q][t] + 1
                                                  ELSE approvals[q][t]]
           ELSE approvals[q]]
    BY <1>0, <2>1
  <2>3. \A q \in Runs, t \in ApprovalTypes : approvals[q][t] \in Nat /\ approvals[q][t] + 1 \in Nat
    BY <1>0
  <2>4. \A q \in Runs : approvals'[q] \in [ApprovalTypes -> Nat]
    BY <1>0, <2>2, <2>3
  <2> QED
    BY <1>0, <2>1, <2>2, <2>4
<1>2. CASE \E x \in Executors : ExecutorStarts(x)
  <2>1. PICK x \in Executors : ExecutorStarts(x)
    BY <1>2
  <2>2. executor[x] \in Busy /\ executor[x].run \in Runs
    BY <1>0, <2>1, BusyFields DEF ExecutorStarts
  <2>3. [run |-> executor[x].run, state |-> "STARTED"] \in Execution
    BY <2>2 DEF Execution
  <2> QED
    BY <1>0, <2>1, <2>3 DEF ExecutorStarts, executeFrame
<1>3. CASE \E x \in Executors : ExecutorCalls(x)
  <2>1. PICK x \in Executors : ExecutorCalls(x)
    BY <1>3
  <2>2. calls' = calls \/ calls' = [calls EXCEPT ![executor[x].key] = @ + 1]
    BY <2>1 DEF ExecutorCalls
  <2>3. \A k \in IdempotencyKeys : calls[k] \in Nat /\ calls[k] + 1 \in Nat
    BY <1>0
  <2>4. calls' \in [IdempotencyKeys -> Nat]
    BY <1>0, <2>2, <2>3
  <2> QED
    BY <1>0, <2>1, <2>4 DEF ExecutorCalls, executeFrame
<1>4. CASE \E x \in Executors : ExecutorAsserts(x)
  <2>1. PICK x \in Executors : ExecutorAsserts(x)
    BY <1>4
  <2>2. PICK verdict \in {"PASSED", "FAILED"} :
           verifications' = [verifications EXCEPT ![executor[x].run] = @ \cup {verdict}]
    BY <2>1 DEF ExecutorAsserts
  <2>3. verifications' = [q \in Runs |-> IF q = executor[x].run
                                        THEN verifications[q] \cup {verdict} ELSE verifications[q]]
    BY <1>0, <2>2
  <2>4. verifications' \in [Runs -> SUBSET {"PASSED", "FAILED"}]
    BY <1>0, <2>3
  <2> QED
    BY <1>0, <2>1, <2>4 DEF ExecutorAsserts, executeFrame
<1>5. CASE \E x \in Executors : ExecutorSaves(x)
  <2>1. PICK x \in Executors : ExecutorSaves(x)
    BY <1>5
  <2>2. PICK state \in {"SUCCEEDED", "FAILED"} :
           executions' = [executions EXCEPT ![executor[x].key].state = state]
    BY <2>1 DEF ExecutorSaves
  <2>3. executions[executor[x].key] \in Execution
    BY <2>1 DEF CallsInv, ExecutorSaves
  <2>4. [executions[executor[x].key] EXCEPT !.state = state] \in Execution
    BY <2>3 DEF Execution
  <2> QED
    BY <1>0, <2>1, <2>2, <2>4 DEF ExecutorSaves, executeFrame
<1> QED
  BY <1>0, <1>1, <1>2, <1>3, <1>4, <1>5, RepairTablesAlone

\* A step of an execute request only changes its own copy.
LEMMA OneExecutor ==
    ASSUME TypeOK, NEW x \in Executors,
           NEW l, Execute(x, l)
    PROVE  /\ executor'[x] = l
           /\ \A y \in Executors \ {x} : executor'[y] = executor[y]
BY DEF Execute, TypeOK

\* A request that changes nothing in the tables, and ends up neither before
\* nor after a call, keeps the invariant.
LEMMA QuietExecutor ==
    ASSUME TypeOK, CallsInv, NEW x \in Executors, NEW l, Execute(x, l),
           UNCHANGED <<executions, calls>>,
           \/ l.at \notin {"begin", "start", "call", "save"}
           \/ l.at \in {"begin", "start"} /\ l.key \in IdempotencyKeys
    PROVE  CallsInv'
BY OneExecutor DEF CallsInv

\* Every step keeps the invariant.
LEMMA CallsStep ==
    ASSUME TypeOK, CallsInv, [Next]_runVars
    PROVE  CallsInv'
<1> USE LocalKinds, Literals
<1>0. /\ executor \in [Executors -> Local]
      /\ executions \in [IdempotencyKeys -> Execution \cup {None}]
      /\ calls \in [IdempotencyKeys -> Nat]
  BY DEF TypeOK
<1>d. Done.at = "done" /\ Idle.at = "idle"
  BY DEF Done, Idle
<1>1. ASSUME NEW x \in Executors, ExecutorLoads(x) PROVE CallsInv'
  <2>1. PICK r \in Runs, k \in IdempotencyKeys :
           status[r] = "AWAITING_APPROVAL" /\ Execute(x, [CopyOf(r, "begin") EXCEPT !.key = k])
    BY <1>1, KeysTyped DEF ExecutorLoads
  <2>2. CopyOf(r, "begin") \in Busy
    BY <2>1, CopyTyped, RunNoneAssumption DEF Statuses
  <2>3. /\ [CopyOf(r, "begin") EXCEPT !.key = k].at = "begin"
        /\ [CopyOf(r, "begin") EXCEPT !.key = k].key = k
    BY <2>2 DEF Busy, CopyOf, Idle
  <2> QED
    BY <1>1, <2>1, <2>3, QuietExecutor DEF ExecutorLoads
<1>2. ASSUME NEW x \in Executors, ExecutorBegins(x) PROVE CallsInv'
  <2>1. executor[x] \in Busy /\ executor[x].key \in IdempotencyKeys
    BY <1>0, <1>2 DEF ExecutorBegins, CallsInv
  <2>2. /\ Moved(executor[x], "EXECUTING", "start").at = "start"
        /\ Moved(executor[x], "EXECUTING", "start").key = executor[x].key
    BY <2>1 DEF Moved, Busy
  <2> QED
    BY <1>2, <1>d, <2>1, <2>2, QuietExecutor DEF ExecutorBegins
<1>3. ASSUME NEW x \in Executors, ExecutorStarts(x) PROVE CallsInv'
  <2> DEFINE me == executor[x]
             row == [run |-> me.run, state |-> "STARTED"]
  <2>1. me \in Busy /\ me.key \in IdempotencyKeys /\ me.run \in Runs
    BY <1>0, <1>3, BusyFields DEF ExecutorStarts, CallsInv
  <2>2. CASE executions[me.key] # None
    BY <1>3, <1>d, <2>2, QuietExecutor DEF ExecutorStarts
  <2>3. CASE executions[me.key] = None
    <3>1. /\ executions' = [executions EXCEPT ![me.key] = row]
          /\ Execute(x, [me EXCEPT !.at = "call"])
          /\ calls' = calls
      BY <1>3, <2>3 DEF ExecutorStarts
    <3>2. row \in Execution /\ None \notin Execution
      BY <2>1, RunNoneAssumption DEF Execution
    <3>3. executions'[me.key] = row
          /\ \A k \in IdempotencyKeys \ {me.key} : executions'[k] = executions[k]
      BY <1>0, <2>1, <3>1
    <3>4. /\ executor'[x].at = "call" /\ executor'[x].key = me.key
          /\ \A y \in Executors \ {x} : executor'[y] = executor[y]
      BY <2>1, <3>1, OneExecutor DEF Busy
    <3>5. calls[me.key] = 0
      BY <1>0, <2>1, <2>3, <3>2 DEF CallsInv
    <3>6. \A y \in Executors \ {x} : executor[y].at = "call" => executor[y].key # me.key
      BY <2>3, <3>2 DEF CallsInv
    <3> HIDE DEF me, row
    <3> QED
      BY <2>1, <3>1, <3>2, <3>3, <3>4, <3>5, <3>6 DEF CallsInv
  <2> QED
    BY <2>2, <2>3
<1>4. ASSUME NEW x \in Executors, ExecutorCalls(x) PROVE CallsInv'
  <2> DEFINE me == executor[x]
  <2>1. me \in Busy /\ me.key \in IdempotencyKeys /\ me.at = "call"
        /\ executions[me.key] \in Execution
    BY <1>0, <1>4 DEF ExecutorCalls, CallsInv
  <2>2. PICK o \in {"ok", "failed"} : Execute(x, [me EXCEPT !.at = "save", !.outcome = o])
    BY <1>4 DEF ExecutorCalls
  <2> DEFINE l == [me EXCEPT !.at = "save", !.outcome = o]
  <2>7. l.at = "save" /\ l.key = me.key
    BY <2>1 DEF Busy
  <2>8. Execute(x, l)
    BY <2>2
  <2> HIDE DEF l
  <2>3. /\ executor'[x].at = "save" /\ executor'[x].key = me.key
        /\ \A y \in Executors \ {x} : executor'[y] = executor[y]
    BY <2>7, <2>8, OneExecutor
  <2>4. /\ executions' = executions
        /\ calls' = calls \/ calls' = [calls EXCEPT ![me.key] = @ + 1]
    BY <1>4 DEF ExecutorCalls
  <2>5. /\ \A k \in IdempotencyKeys \ {me.key} : calls'[k] = calls[k]
        /\ calls'[me.key] \in {0, 1}
    BY <1>0, <2>1, <2>4 DEF CallsInv
  <2>6. \A y \in Executors \ {x} : executor[y].at = "call" => executor[y].key # me.key
    BY <2>1 DEF CallsInv
  <2> HIDE DEF me
  <2> QED
    BY <2>1, <2>3, <2>4, <2>5, <2>6 DEF CallsInv
<1>5. ASSUME NEW x \in Executors, ExecutorSaves(x) PROVE CallsInv'
  <2> DEFINE me == executor[x]
  <2>1. me \in Busy /\ me.key \in IdempotencyKeys /\ executions[me.key] \in Execution
    BY <1>0, <1>5 DEF ExecutorSaves, CallsInv
  <2>2. PICK at \in {"verify", "fail"} : Execute(x, [me EXCEPT !.at = at])
    BY <1>5 DEF ExecutorSaves
  <2>3. executor'[x].at \in {"verify", "fail"}
        /\ \A y \in Executors \ {x} : executor'[y] = executor[y]
    BY <2>1, <2>2, OneExecutor DEF Busy
  <2>4. PICK state \in {"SUCCEEDED", "FAILED"} :
           executions' = [executions EXCEPT ![me.key].state = state]
    BY <1>5 DEF ExecutorSaves
  <2>5. [executions[me.key] EXCEPT !.state = state] \in Execution
    BY <2>1 DEF Execution
  <2>6. /\ \A k \in IdempotencyKeys \ {me.key} : executions'[k] = executions[k]
        /\ executions'[me.key] \in Execution
    BY <1>0, <2>1, <2>4, <2>5
  <2>7. calls' = calls
    BY <1>5 DEF ExecutorSaves
  <2> HIDE DEF me
  <2> QED
    BY <2>1, <2>3, <2>6, <2>7 DEF CallsInv
<1>6. ASSUME NEW x \in Executors,
             \/ ExecutorTransits(x) \/ ExecutorWaits(x) \/ ExecutorAsserts(x)
             \/ ExecutorMisses(x) \/ ExecutorAbandons(x)
      PROVE  CallsInv'
  <2>1. /\ UNCHANGED <<executions, calls>>
        /\ \E l \in {Done, Moved(executor[x], "VERIFYING", "wait")}
                    \cup {[executor[x] EXCEPT !.at = at] :
                            at \in {"wait", "assert", "refuse", "repaired", "verify", "fail"}} :
              Execute(x, l)
    BY <1>6 DEF ExecutorTransits, ExecutorWaits, ExecutorAsserts, ExecutorMisses,
       ExecutorAbandons
  <2>2. CASE executor[x] \in Busy
    <3>1. /\ Moved(executor[x], "VERIFYING", "wait").at = "wait"
          /\ \A at : [executor[x] EXCEPT !.at = at].at = at
      BY <2>2 DEF Moved, Busy
    <3> QED
      BY <1>d, <2>1, <3>1, QuietExecutor
  <2>3. CASE executor[x] \notin Busy
    <3>1. ExecutorAbandons(x)
      BY <1>0, <1>6, <2>3 DEF ExecutorTransits, ExecutorWaits, ExecutorAsserts, ExecutorMisses
    <3> QED
      BY <1>d, <3>1, QuietExecutor DEF ExecutorAbandons
  <2> QED
    BY <2>2, <2>3
<1>7. CASE RuntimeCrash
  <2>1. \A x \in Executors : executor'[x] \in {Idle, Done}
    BY <1>7 DEF RuntimeCrash
  <2>2. UNCHANGED <<executions, calls>>
    BY <1>7 DEF RuntimeCrash, repairVars
  <2> QED
    BY <1>d, <2>1, <2>2 DEF CallsInv
<1>8. CASE UNCHANGED <<executor, executions, calls>>
  BY <1>8 DEF CallsInv
<1>9. ASSUME \/ WorkerNext \/ EvaluationNext \/ UNCHANGED runVars
             \/ \E a \in Approvers : ApproverProceeds(a) \/ ApproverAbandons(a)
             \/ \E r \in Runs : InventoryDeducts(r)
      PROVE  UNCHANGED <<executor, executions, calls>>
  <2>1. CASE WorkerNext
    BY <2>1 DEF WorkerNext, WorkerProceeds, CreateRun, WorkerClaims, WorkerStartsStep,
       WorkerAgentAnswers, WorkerDiagnoses, WorkerFinishesStep, WorkerConcludes,
       WorkerObserves, WorkerAbandons, WorkerMissesFinish, WorkerMissesStart, WorkerStops,
       workerFrame, repairVars
  <2>2. CASE EvaluationNext
    BY <2>2 DEF EvaluationNext, EvaluatorProceeds, EvaluationStart, EvaluatorCreates,
       EvaluatorLoads, EvaluatorStartsStep, EvaluatorFinishesStep, EvaluatorObserves,
       EvaluatorJudges, EvaluatorCompletes, EvaluatorAbandons, evaluationFrame, repairVars
  <2>3. CASE \E a \in Approvers : ApproverProceeds(a) \/ ApproverAbandons(a)
    BY <2>3 DEF ApproverProceeds, ApproverLoads, ApproverDecides, ApproverTransits,
       ApproverRecords, ApproverAbandons, approveFrame
  <2> QED
    BY <1>9, <2>1, <2>2, <2>3 DEF InventoryDeducts, runVars
<1> QED
  BY <1>1, <1>2, <1>3, <1>4, <1>5, <1>6, <1>7, <1>8, <1>9
     DEF Next, RepairNext, ExecutorProceeds

-----------------------------------------------------------------------------
(* The invariant of the types and of the calls                             *)

\* Evidence only grows, by what the agents and the evaluations observe.
LEMMA EvidenceStep ==
    ASSUME TypeOK, [Next]_runVars
    PROVE  evidence' \in [Runs -> SUBSET Signals]
<1>0. evidence \in [Runs -> SUBSET Signals] /\ Observations \subseteq Signals
  BY RunBoundAssumption DEF TypeOK
<1>1. ASSUME NEW r, NEW o \in Observations,
             evidence' = [evidence EXCEPT ![r] = @ \cup {o}]
      PROVE  evidence' \in [Runs -> SUBSET Signals]
  <2>1. evidence' = [q \in Runs |-> IF q = r THEN evidence[q] \cup {o} ELSE evidence[q]]
    BY <1>0, <1>1
  <2>2. \A q \in Runs : evidence[q] \subseteq Signals /\ evidence[q] \cup {o} \subseteq Signals
    BY <1>0
  <2> QED
    BY <2>1, <2>2
<1>2. CASE \E w \in Workers : WorkerObserves(w)
  BY <1>1, <1>2 DEF WorkerObserves
<1>3. CASE \E v \in Evaluators : EvaluatorObserves(v)
  BY <1>1, <1>3 DEF EvaluatorObserves
<1> QED
  BY <1>0, <1>2, <1>3, EvidenceActions

\* The pipeline deducts an order once; a shell is made by its endpoint only.
LEMMA RestStep ==
    ASSUME TypeOK, [Next]_runVars
    PROVE  /\ inventory' \in [Runs -> BOOLEAN]
           /\ shells' \subseteq Runs
<1>0. inventory \in [Runs -> BOOLEAN] /\ shells \subseteq Runs
  BY DEF TypeOK
<1>1. ASSUME NEW r \in Runs, EvaluationStart(r)
      PROVE  inventory' = inventory /\ shells' = shells \cup {r}
  BY <1>1 DEF EvaluationStart, evaluationFrame
<1>2. ASSUME NEW r \in Runs, InventoryDeducts(r)
      PROVE  inventory' \in [Runs -> BOOLEAN] /\ shells' = shells
  <2>1. inventory' = [q \in Runs |-> IF q = r THEN TRUE ELSE inventory[q]]
    BY <1>0, <1>2 DEF InventoryDeducts
  <2>2. shells' = shells
    BY <1>2 DEF InventoryDeducts, executeFrame
  <2> QED
    BY <1>0, <2>1, <2>2
<1>3. CASE WorkerNext
  BY <1>0, <1>3 DEF WorkerNext, WorkerProceeds, CreateRun, WorkerClaims, WorkerStartsStep,
     WorkerAgentAnswers, WorkerDiagnoses, WorkerFinishesStep, WorkerConcludes, WorkerObserves,
     WorkerAbandons, WorkerMissesFinish, WorkerMissesStart, WorkerStops, workerFrame
<1>4. CASE \E v \in Evaluators :
             EvaluatorProceeds(v) \/ EvaluatorObserves(v) \/ EvaluatorAbandons(v)
  BY <1>0, <1>4 DEF EvaluatorProceeds, EvaluatorCreates, EvaluatorLoads,
     EvaluatorStartsStep, EvaluatorFinishesStep, EvaluatorJudges, EvaluatorObserves,
     EvaluatorCompletes, EvaluatorAbandons, evaluationFrame
<1>5. CASE \E a \in Approvers : ApproverProceeds(a) \/ ApproverAbandons(a)
  BY <1>0, <1>5 DEF ApproverProceeds, ApproverLoads, ApproverDecides, ApproverTransits,
     ApproverRecords, ApproverAbandons, approveFrame
<1>6. CASE \E x \in Executors : ExecutorProceeds(x) \/ ExecutorMisses(x) \/ ExecutorAbandons(x)
  BY <1>0, <1>6 DEF ExecutorProceeds, ExecutorLoads, ExecutorBegins, ExecutorStarts,
     ExecutorCalls, ExecutorSaves, ExecutorTransits, ExecutorWaits, ExecutorAsserts,
     ExecutorMisses, ExecutorAbandons, executeFrame
<1>7. CASE RuntimeCrash \/ UNCHANGED runVars
  BY <1>0, <1>7 DEF RuntimeCrash, runVars
<1> QED
  BY <1>0, <1>1, <1>2, <1>3, <1>4, <1>5, <1>6, <1>7 DEF Next, RepairNext, EvaluationNext

\* A step counts one failure or none.
LEMMA FailuresStep ==
    ASSUME TypeOK, [Next]_runVars
    PROVE  failures' \in Nat
<1>1. Fails \/ failures' = failures
  <2>1. CASE WorkerNext
    BY <2>1 DEF WorkerNext, WorkerProceeds, CreateRun, WorkerClaims, WorkerStartsStep,
       WorkerAgentAnswers, WorkerDiagnoses, WorkerFinishesStep, WorkerConcludes,
       WorkerObserves, WorkerAbandons, WorkerMissesFinish, WorkerMissesStart, WorkerStops
  <2>2. CASE EvaluationNext
    BY <2>2 DEF EvaluationNext, EvaluatorProceeds, EvaluationStart, EvaluatorCreates,
       EvaluatorLoads, EvaluatorStartsStep, EvaluatorFinishesStep, EvaluatorObserves,
       EvaluatorJudges, EvaluatorCompletes, EvaluatorAbandons
  <2>3. CASE \E a \in Approvers : ApproverProceeds(a) \/ ApproverAbandons(a)
    BY <2>3 DEF ApproverProceeds, ApproverLoads, ApproverDecides, ApproverTransits,
       ApproverRecords, ApproverAbandons
  <2>4. CASE \E x \in Executors :
               ExecutorProceeds(x) \/ ExecutorMisses(x) \/ ExecutorAbandons(x)
    BY <2>4 DEF ExecutorProceeds, ExecutorLoads, ExecutorBegins, ExecutorStarts,
       ExecutorCalls, ExecutorSaves, ExecutorTransits, ExecutorWaits, ExecutorAsserts,
       ExecutorMisses, ExecutorAbandons
  <2>5. CASE \/ RuntimeCrash \/ UNCHANGED runVars
             \/ \E r \in Runs : InventoryDeducts(r)
    BY <2>5 DEF RuntimeCrash, InventoryDeducts, runVars
  <2> QED
    BY <2>1, <2>2, <2>3, <2>4, <2>5 DEF Next, RepairNext
<1> QED
  BY <1>1 DEF Fails, TypeOK

-----------------------------------------------------------------------------
\* The inductive invariant: the types need to know that a saved execution is on
\* record, and that a row exists exactly when its events do.
RunInv == TypeOK /\ RowsAgree /\ CallsInv

\* No run exists, and every goroutine and request is idle.
LEMMA RunInvInit == Init => RunInv
<1> SUFFICES ASSUME Init PROVE RunInv
  OBVIOUS
<1>1. RowsAgree
  BY RowsInit
<1>2. /\ \A r \in Runs : approvals[r] \in [ApprovalTypes -> Nat]
      /\ approvals = [r \in Runs |-> [t \in ApprovalTypes |-> 0]]
  BY DEF Init
<1>3. /\ steps \in [Runs -> Seq([agent : Agents, by : {"runtime", "single_agent"},
                               state : {"RUNNING", "SUCCEEDED", "FAILED"}])]
      /\ evidence \in [Runs -> SUBSET Signals]
      /\ approvals \in [Runs -> [ApprovalTypes -> Nat]]
      /\ verifications \in [Runs -> SUBSET {"PASSED", "FAILED"}]
      /\ diagnosis \in [Runs -> RootCauseCatalog \cup {None}]
  BY <1>2 DEF Init
<1>4. /\ executions \in [IdempotencyKeys -> Execution \cup {None}]
      /\ calls \in [IdempotencyKeys -> Nat]
      /\ inventory \in [Runs -> BOOLEAN]
      /\ shells \subseteq Runs
      /\ failures \in Nat
  BY DEF Init, EarlierExecution, Execution
<1>5. /\ worker \in [Workers -> Local] /\ approver \in [Approvers -> Local]
      /\ executor \in [Executors -> Local] /\ evaluator \in [Evaluators -> Local]
  BY LocalKinds DEF Init
<1>6. TypeOK
  BY <1>1, <1>3, <1>4, <1>5 DEF TypeOK, RowsAgree
<1>7. CallsInv
  <2>1. \A x \in Executors : executor[x].at = "idle"
    BY DEF Init, Idle
  <2>2. \A k \in IdempotencyKeys : calls[k] <= 1 /\ (calls[k] > 0 => executions[k] \in Execution)
    BY DEF Init, EarlierExecution, Execution
  <2> QED
    BY <2>1, <2>2 DEF CallsInv
<1> QED
  BY <1>1, <1>6, <1>7 DEF RunInv

\* Every step of the runtime keeps the invariant.
LEMMA RunInvStep == RunInv /\ [Next]_runVars => RunInv'
<1> SUFFICES ASSUME TypeOK, RowsAgree, CallsInv, [Next]_runVars PROVE RunInv'
  BY DEF RunInv
<1>1. RowsAgree'
  BY RowsStep
<1>2. CallsInv'
  BY CallsStep
<1>3. steps' \in [Runs -> Seq(StepRows)]
  BY StepsStep
<1>4. /\ worker' \in [Workers -> Local] /\ approver' \in [Approvers -> Local]
      /\ executor' \in [Executors -> Local] /\ evaluator' \in [Evaluators -> Local]
  BY WorkersStep, ApproversStep, ExecutorsStep, EvaluatorsStep
<1>5. TypeOK'
  BY <1>1, <1>3, <1>4, DiagnosisStep, EvidenceStep, RepairTablesStep, RestStep,
     FailuresStep DEF TypeOK, RowsAgree, StepRows
<1> QED
  BY <1>1, <1>2, <1>5 DEF RunInv

\* The runtime keeps the invariant.
LEMMA RunInvAlways == Spec => []RunInv
<1>1. Init => RunInv
  BY RunInvInit
<1>2. RunInv /\ [Next]_runVars => RunInv'
  BY RunInvStep
<1> QED
  BY <1>1, <1>2, PTL DEF Spec

\* Whatever the numbers of runs, workers, requests and failures, every table and
\* every copy a goroutine or handler holds has the values of its type.
THEOREM RunTypeCorrect == Spec => []TypeOK
<1>1. RunInv => TypeOK
  BY DEF RunInv
<1> QED
  BY <1>1, RunInvAlways, PTL

\* However many execute requests carry an idempotency key, and wherever the
\* process crashes, the remediation tool is called with it at most once, and
\* only for an execution on record.
THEOREM OneCallPerKeyAlways == Spec => []OneCallPerKey
<1>1. RunInv => OneCallPerKey
  BY RunNoneAssumption DEF RunInv, CallsInv, OneCallPerKey
<1> QED
  BY <1>1, RunInvAlways, PTL
=============================================================================
