------------------------------ MODULE RunProofs ------------------------------
(***************************************************************************)
(* The safety of InvestigationRun for every value of the constants: one    *)
(* worker per run, founded diagnoses, no repair without a policy that      *)
(* passed it, one repair per run, and the transition table.  RunInvariants *)
(* has the inductive invariants, RunTypes the types they build on.         *)
(***************************************************************************)
EXTENDS RunTypes, RunInvariants

-----------------------------------------------------------------------------
(* Who moves a run                                                         *)

\* A goroutine or request that holds a run is somewhere in its work, and one
\* that is somewhere in its work holds a run.
LEMMA Holding ==
    /\ \A l \in Local : l.run # None <=> l \in Busy
    /\ \A l \in Local : l.at \in Places <=> l \in Busy
    /\ Idle.run = None /\ Done.run = None /\ Stopped.run = None
    /\ Idle.at = "idle" /\ Done.at = "done" /\ Stopped.at = "stopped"
    /\ \A l \in Busy : l.run \in Runs /\ l.run # None /\ l.at \in Places
BY RunNoneAssumption DEF Idle, Done, Stopped, Local, Busy, Places

\* What GetRun puts into a copy, and what a successful update leaves in it.
LEMMA CopyFields ==
    /\ \A r, at : /\ CopyOf(r, at).at = at /\ CopyOf(r, at).run = r
                  /\ CopyOf(r, at).status = status[r] /\ CopyOf(r, at).version = version[r]
                  /\ CopyOf(r, at).cause = diagnosis[r]
    /\ \A l \in Busy : \A to, at :
          /\ Moved(l, to, at).at = at /\ Moved(l, to, at).run = l.run
          /\ Moved(l, to, at).status = to /\ Moved(l, to, at).version = l.version + 1
          /\ Moved(l, to, at).cause = l.cause /\ Moved(l, to, at).key = l.key
BY DEF CopyOf, Moved, Idle, Busy

\* The row is left as it is.
RowKept(r) == status'[r] = status[r] /\ version'[r] = version[r] /\ diagnosis'[r] = diagnosis[r]

\* An update moves the row of its copy, and no other.
LEMMA AdvanceMoves ==
    ASSUME TypeOK, NEW copy, NEW to, Advance(copy, to), NEW r \in Runs
    PROVE  /\ r = copy.run => status'[r] = to /\ version'[r] = version[r] + 1
           /\ r # copy.run => status'[r] = status[r] /\ version'[r] = version[r]
BY DEF Advance, TypeOK

\* CreateRun, ClaimCreated, and the updates that check the transition table.
Created(r) ==
    /\ status[r] = None /\ status'[r] = "CREATED"
    /\ version'[r] = 1 /\ diagnosis'[r] = diagnosis[r]

Claimed(r) ==
    /\ status[r] = "CREATED" /\ status'[r] = "PLANNING"
    /\ version'[r] = version[r] + 1 /\ diagnosis'[r] = diagnosis[r]

Updated(r, copy) ==
    /\ copy.run = r /\ Allowed(copy, status'[r])
    /\ version'[r] = version[r] + 1

ConcludedBy(r, w) ==
    /\ worker[w].at = "conclude"
    /\ Updated(r, worker[w])
    /\ status'[r] = NextStatus(worker[w])
    /\ diagnosis'[r] = IF status'[r] = "EVIDENCE_COLLECTED" THEN worker[w].cause
                       ELSE diagnosis[r]
    /\ status'[r] \in {"INVESTIGATING", "KNOWLEDGE_LOOKUP", "DIAGNOSING"} \/ worker'[w] = Idle

ApprovedBy(r, a) ==
    /\ Updated(r, approver[a])
    /\ diagnosis'[r] = diagnosis[r]
    /\ <<approver[a].at, status'[r]>> \in
          {<<"reject", "INCONCLUSIVE">>, <<"healthy", "NO_ANOMALY">>,
           <<"policy", "POLICY_CHECK">>, <<"request", "AWAITING_APPROVAL">>}

ExecutedBy(r, x) ==
    /\ Updated(r, executor[x])
    /\ diagnosis'[r] = diagnosis[r]
    /\ <<executor[x].at, status'[r]>> \in
          {<<"begin", "EXECUTING">>, <<"verify", "VERIFYING">>, <<"fail", "EXECUTION_FAILED">>,
           <<"refuse", "VERIFICATION_FAILED">>, <<"repaired", "REPAIRED">>}

CompletedBy(r, v) ==
    /\ evaluator[v].at = "complete" /\ evaluator[v].run = r
    /\ version'[r] = version[r] + 1
    /\ diagnosis'[r] = evaluator[v].cause
    /\ status'[r] = IF evaluator[v].outcome = "ok" THEN "EVIDENCE_COLLECTED" ELSE "INCONCLUSIVE"

\* A step leaves a run's row alone or is one of those.
LEMMA RowMoves ==
    ASSUME TypeOK, [Next]_runVars, NEW r \in Runs
    PROVE  \/ RowKept(r) \/ Created(r) \/ Claimed(r)
           \/ \E w \in Workers : ConcludedBy(r, w)
           \/ \E a \in Approvers : ApprovedBy(r, a)
           \/ \E x \in Executors : ExecutedBy(r, x)
           \/ \E v \in Evaluators : CompletedBy(r, v)
<1> DEFINE Goal == \/ RowKept(r) \/ Created(r) \/ Claimed(r)
                   \/ \E w \in Workers : ConcludedBy(r, w)
                   \/ \E a \in Approvers : ApprovedBy(r, a)
                   \/ \E x \in Executors : ExecutedBy(r, x)
                   \/ \E v \in Evaluators : CompletedBy(r, v)
<1>0. /\ status \in [Runs -> Statuses \cup {None}]
      /\ version \in [Runs -> Nat]
      /\ diagnosis \in [Runs -> RootCauseCatalog \cup {None}]
      /\ worker \in [Workers -> Local]
      /\ evaluator \in [Evaluators -> Local]
  BY DEF TypeOK
<1>1. ASSUME UNCHANGED rowVars PROVE RowKept(r)
  BY <1>1 DEF RowKept, rowVars
<1>2. ASSUME NEW q \in Runs, InsertRun(q) PROVE RowKept(r) \/ Created(r)
  <2>1. CASE q = r
    BY <1>0, <1>2, <2>1 DEF InsertRun, Created
  <2>2. CASE q # r
    BY <1>0, <1>2, <2>2 DEF InsertRun, RowKept
  <2> QED
    BY <2>1, <2>2
<1>3. ASSUME NEW w \in Workers, WorkerClaims(w) PROVE RowKept(r) \/ Claimed(r)
  <2>1. PICK q \in Runs : status[q] = "CREATED" /\ Transit(CopyOf(q, "start"), "PLANNING")
    BY <1>3 DEF WorkerClaims
  <2>2. Advance(CopyOf(q, "start"), "PLANNING") /\ CopyOf(q, "start").run = q
        /\ diagnosis' = diagnosis
    BY <2>1, CopyFields DEF Transit
  <2> QED
    BY <2>1, <2>2, AdvanceMoves DEF RowKept, Claimed
<1>4. ASSUME NEW w \in Workers, WorkerConcludes(w) PROVE RowKept(r) \/ ConcludedBy(r, w)
  <2> DEFINE me == worker[w]
             to == NextStatus(me)
  <2>1. CASE UNCHANGED rowVars
    BY <1>1, <2>1
  <2>2. CASE ~UNCHANGED rowVars
    <3>1. /\ me.at = "conclude" /\ Allowed(me, to) /\ Advance(me, to)
          /\ diagnosis' = IF to = "EVIDENCE_COLLECTED"
                          THEN [diagnosis EXCEPT ![me.run] = me.cause] ELSE diagnosis
      BY <1>4, <2>2 DEF WorkerConcludes
    <3>2. to \in {"INVESTIGATING", "KNOWLEDGE_LOOKUP", "DIAGNOSING"} \/ worker'[w] = Idle
      BY <1>0, <1>4 DEF WorkerConcludes
    <3>3. CASE me.run = r
      <4>1. status'[r] = to /\ version'[r] = version[r] + 1
        BY <3>1, <3>3, AdvanceMoves
      <4>2. diagnosis'[r] = IF to = "EVIDENCE_COLLECTED" THEN me.cause ELSE diagnosis[r]
        BY <1>0, <3>1, <3>3
      <4> HIDE DEF to
      <4>3. Updated(r, me)
        BY <3>1, <3>3, <4>1 DEF Updated
      <4> QED
        BY <3>1, <3>2, <4>1, <4>2, <4>3 DEF ConcludedBy, to
    <3>4. CASE me.run # r
      <4>1. diagnosis'[r] = diagnosis[r]
        BY <3>1, <3>4
      <4> QED
        BY <3>1, <3>4, <4>1, AdvanceMoves DEF RowKept
    <3> QED
      BY <3>3, <3>4
  <2> QED
    BY <2>1, <2>2
<1>5. ASSUME NEW copy, NEW to, Transit(copy, to)
      PROVE  \/ RowKept(r)
             \/ Updated(r, copy) /\ status'[r] = to /\ diagnosis'[r] = diagnosis[r]
  <2>1. Allowed(copy, to) /\ Advance(copy, to) /\ diagnosis' = diagnosis
    BY <1>5 DEF Transit
  <2> QED
    BY <2>1, AdvanceMoves DEF RowKept, Updated
<1>6. ASSUME NEW a \in Approvers, ApproverTransits(a) PROVE RowKept(r) \/ ApprovedBy(r, a)
  <2>1. CASE UNCHANGED rowVars
    BY <1>1, <2>1
  <2>2. CASE ~UNCHANGED rowVars
    <3>1. PICK to : /\ Transit(approver[a], to)
                    /\ <<approver[a].at, to>> \in
                          {<<"reject", "INCONCLUSIVE">>, <<"healthy", "NO_ANOMALY">>,
                           <<"policy", "POLICY_CHECK">>, <<"request", "AWAITING_APPROVAL">>}
      BY <1>6, <2>2 DEF ApproverTransits
    <3> QED
      BY <1>5, <3>1 DEF ApprovedBy
  <2> QED
    BY <2>1, <2>2
<1>7. ASSUME NEW x \in Executors, ExecutorBegins(x) \/ ExecutorTransits(x)
      PROVE  RowKept(r) \/ ExecutedBy(r, x)
  <2>1. CASE UNCHANGED rowVars
    BY <1>1, <2>1
  <2>2. CASE ~UNCHANGED rowVars
    <3>1. PICK to : /\ Transit(executor[x], to)
                    /\ <<executor[x].at, to>> \in
                          {<<"begin", "EXECUTING">>, <<"verify", "VERIFYING">>,
                           <<"fail", "EXECUTION_FAILED">>,
                           <<"refuse", "VERIFICATION_FAILED">>, <<"repaired", "REPAIRED">>}
      BY <1>7, <2>2 DEF ExecutorBegins, ExecutorTransits
    <3> QED
      BY <1>5, <3>1 DEF ExecutedBy
  <2> QED
    BY <2>1, <2>2
<1>8. ASSUME NEW v \in Evaluators, EvaluatorCompletes(v) PROVE RowKept(r) \/ CompletedBy(r, v)
  <2> DEFINE me == evaluator[v]
             to == IF me.outcome = "ok" THEN "EVIDENCE_COLLECTED" ELSE "INCONCLUSIVE"
  <2>1. CASE UNCHANGED rowVars
    BY <1>1, <2>1
  <2>2. CASE ~UNCHANGED rowVars
    <3>1. /\ me.at = "complete" /\ Advance(me, to)
          /\ diagnosis' = [diagnosis EXCEPT ![me.run] = me.cause]
      BY <1>8, <2>2 DEF EvaluatorCompletes
    <3>2. /\ me.run = r => diagnosis'[r] = me.cause
          /\ me.run # r => diagnosis'[r] = diagnosis[r]
      BY <1>0, <3>1
    <3> HIDE DEF to
    <3>3. /\ me.run = r => status'[r] = to /\ version'[r] = version[r] + 1
          /\ me.run # r => status'[r] = status[r] /\ version'[r] = version[r]
      BY <3>1, AdvanceMoves
    <3> QED
      BY <3>1, <3>2, <3>3 DEF RowKept, CompletedBy, to
  <2> QED
    BY <2>1, <2>2
<1>9. \/ UNCHANGED rowVars
      \/ \E q \in Runs : InsertRun(q)
      \/ \E w \in Workers : WorkerClaims(w) \/ WorkerConcludes(w)
      \/ \E a \in Approvers : ApproverTransits(a)
      \/ \E x \in Executors : ExecutorBegins(x) \/ ExecutorTransits(x)
      \/ \E v \in Evaluators : EvaluatorCompletes(v)
  BY RowActions
<1> QED
  BY <1>1, <1>2, <1>3, <1>4, <1>6, <1>7, <1>8, <1>9

-----------------------------------------------------------------------------
(* What only grows                                                         *)

\* A run's steps are appended to, an evaluation's stay an evaluation's, and a
\* finished one stays as it is.
StepsKept(r) ==
    /\ DOMAIN steps[r] \subseteq DOMAIN steps'[r]
    /\ \A i \in DOMAIN steps[r] :
          /\ steps'[r][i].by = steps[r][i].by
          /\ steps[r][i].state # "RUNNING" => steps'[r][i] = steps[r][i]

\* StartStep keeps them, and marks the run of an evaluation.
LEMMA StartKeepsSteps ==
    ASSUME TypeOK, NEW q \in Runs, NEW agent \in Agents, NEW by \in {"runtime", "single_agent"},
           steps' = [steps EXCEPT ![q] = Started(q, agent, by)], NEW r \in Runs
    PROVE  /\ StepsKept(r)
           /\ q = r /\ by = "single_agent" => Evaluated(r)'
<1> DEFINE row == [agent |-> agent, by |-> by, state |-> "RUNNING"]
<1>1. steps \in [Runs -> Seq(StepRows)] /\ row \in StepRows /\ row.by = by
  BY DEF TypeOK, StepRows
<1> HIDE DEF row
<1>2. steps' = [steps EXCEPT ![q] = Append(steps[q], row)]
  BY DEF Started, row
<1>3. CASE q = r
  <2>1. steps'[r] = Append(steps[r], row) /\ steps[r] \in Seq(StepRows)
    BY <1>1, <1>2, <1>3
  <2>2. /\ DOMAIN steps[r] = 1 .. Len(steps[r]) /\ Len(steps[r]) \in Nat
        /\ DOMAIN steps'[r] = 1 .. Len(steps[r]) + 1
        /\ \A i \in 1 .. Len(steps[r]) : steps'[r][i] = steps[r][i]
        /\ steps'[r][Len(steps[r]) + 1] = row
    BY <1>1, <2>1
  <2> QED
    BY <1>1, <2>2 DEF StepsKept, Evaluated
<1>4. CASE q # r
  <2>1. steps'[r] = steps[r]
    BY <1>1, <1>2, <1>4
  <2> QED
    BY <1>4, <2>1 DEF StepsKept
<1> QED
  BY <1>3, <1>4

\* FinishStep keeps them.
LEMMA FinishKeepsSteps ==
    ASSUME TypeOK, NEW q \in Runs, NEW i \in Nat, NEW state, FinishStep(q, i, state),
           NEW r \in Runs
    PROVE  StepsKept(r)
<1>1. steps \in [Runs -> Seq(StepRows)]
  BY DEF TypeOK, StepRows
<1>2. CASE steps' = steps
  BY <1>2 DEF StepsKept
<1>3. CASE steps' # steps
  <2> DEFINE finished == [steps[q] EXCEPT ![i].state = state]
  <2>1. steps[q][i].state = "RUNNING" /\ steps' = [steps EXCEPT ![q] = finished]
    BY <1>3 DEF FinishStep
  <2>2. \A j \in DOMAIN steps[q] : steps[q][j] \in StepRows
    BY <1>1
  <2>3. /\ DOMAIN finished = DOMAIN steps[q]
        /\ \A j \in DOMAIN steps[q] :
              finished[j] = IF j = i THEN [steps[q][j] EXCEPT !.state = state] ELSE steps[q][j]
    BY <1>1
  <2>4. \A j \in DOMAIN steps[q] : finished[j].by = steps[q][j].by
    BY <2>2, <2>3 DEF StepRows
  <2>5. /\ r = q => steps'[r] = finished
        /\ r # q => steps'[r] = steps[r]
    BY <1>1, <2>1
  <2> HIDE DEF finished
  <2> QED
    BY <2>1, <2>3, <2>4, <2>5 DEF StepsKept
<1> QED
  BY <1>2, <1>3

\* Every step keeps the agents' steps.
LEMMA StepsGrow ==
    ASSUME TypeOK, [Next]_runVars, NEW r \in Runs
    PROVE  StepsKept(r)
<1>0. worker \in [Workers -> Local] /\ evaluator \in [Evaluators -> Local]
  BY DEF TypeOK
<1> USE Holding, Literals
<1>1. CASE UNCHANGED steps
  BY <1>1 DEF StepsKept
<1>2. ASSUME NEW w \in Workers, WorkerStartsStep(w) PROVE StepsKept(r)
  <2>1. worker[w] \in Busy
    BY <1>0, <1>2 DEF WorkerStartsStep
  <2> QED
    BY <1>2, <2>1, BusyFields, StartKeepsSteps DEF WorkerStartsStep
<1>3. ASSUME NEW w \in Workers, WorkerFinishesStep(w) PROVE StepsKept(r)
  <2>1. worker[w] \in Busy
    BY <1>0, <1>3 DEF WorkerFinishesStep
  <2> QED
    BY <1>3, <2>1, BusyFields, FinishKeepsSteps DEF WorkerFinishesStep
<1>4. ASSUME NEW v \in Evaluators, EvaluatorStartsStep(v) PROVE StepsKept(r)
  <2>1. evaluator[v] \in Busy
    BY <1>0, <1>4 DEF EvaluatorStartsStep
  <2> QED
    BY <1>4, <2>1, BusyFields, StartKeepsSteps DEF EvaluatorStartsStep
<1>5. ASSUME NEW v \in Evaluators, EvaluatorFinishesStep(v) PROVE StepsKept(r)
  <2>1. evaluator[v] \in Busy
    BY <1>0, <1>5 DEF EvaluatorFinishesStep
  <2> QED
    BY <1>5, <2>1, BusyFields, FinishKeepsSteps DEF EvaluatorFinishesStep
<1> QED
  BY <1>1, <1>2, <1>3, <1>4, <1>5, StepActions

\* An evaluation's mark on a run stays.
LEMMA EvaluatedStays ==
    ASSUME TypeOK, [Next]_runVars, NEW r \in Runs, Evaluated(r)
    PROVE  Evaluated(r)'
BY StepsGrow DEF StepsKept, Evaluated

\* Evidence of a run grows by what its agents and its evaluations observe, and
\* stays as it is else.
LEMMA EvidenceGrows ==
    ASSUME TypeOK, [Next]_runVars, NEW r \in Runs
    PROVE  /\ evidence[r] \subseteq evidence'[r]
           /\ \/ evidence'[r] = evidence[r]
              \/ \E w \in Workers : worker[w].at = "agent" /\ worker[w].run = r
              \/ \E v \in Evaluators : evaluator[v].at = "judge" /\ evaluator[v].run = r
<1>0. evidence \in [Runs -> SUBSET Signals]
  BY DEF TypeOK
<1>1. ASSUME NEW q, NEW o, evidence' = [evidence EXCEPT ![q] = @ \cup {o}]
      PROVE  evidence[r] \subseteq evidence'[r] /\ (evidence'[r] = evidence[r] \/ q = r)
  BY <1>0, <1>1
<1>2. ASSUME NEW w \in Workers, WorkerObserves(w)
      PROVE  /\ evidence[r] \subseteq evidence'[r]
             /\ evidence'[r] = evidence[r] \/ (worker[w].at = "agent" /\ worker[w].run = r)
  <2>1. PICK o : evidence' = [evidence EXCEPT ![worker[w].run] = @ \cup {o}]
    BY <1>2 DEF WorkerObserves
  <2>2. worker[w].at = "agent"
    BY <1>2 DEF WorkerObserves
  <2>3. evidence[r] \subseteq evidence'[r] /\ (evidence'[r] = evidence[r] \/ worker[w].run = r)
    BY <1>1, <2>1
  <2> QED
    BY <2>2, <2>3
<1>3. ASSUME NEW v \in Evaluators, EvaluatorObserves(v)
      PROVE  /\ evidence[r] \subseteq evidence'[r]
             /\ evidence'[r] = evidence[r] \/ (evaluator[v].at = "judge" /\ evaluator[v].run = r)
  <2>1. PICK o : evidence' = [evidence EXCEPT ![evaluator[v].run] = @ \cup {o}]
    BY <1>3 DEF EvaluatorObserves
  <2>2. evaluator[v].at = "judge"
    BY <1>3 DEF EvaluatorObserves
  <2>3. evidence[r] \subseteq evidence'[r] /\ (evidence'[r] = evidence[r] \/ evaluator[v].run = r)
    BY <1>1, <2>1
  <2> QED
    BY <2>2, <2>3
<1>4. ASSUME ~ \E w \in Workers : WorkerObserves(w), ~ \E v \in Evaluators : EvaluatorObserves(v)
      PROVE  evidence' = evidence
  BY <1>4, EvidenceActions
<1> QED
  BY <1>2, <1>3, <1>4

\* The tables of the repair loop keep what they have, and an order stays
\* deducted: a record is counted once more, a call is made once more, and an
\* execution keeps the run it is of.
RepairKept ==
    /\ \A r \in Runs, type \in ApprovalTypes : approvals'[r][type] >= approvals[r][type]
    /\ \A k \in IdempotencyKeys : calls'[k] >= calls[k]
    /\ \A k \in IdempotencyKeys :
          executions[k] # None => executions'[k] # None /\ executions'[k].run = executions[k].run

\* Every step keeps them.
LEMMA RepairGrows ==
    ASSUME TypeOK, CallsInv, [Next]_runVars
    PROVE  RepairKept
<1>0. /\ approvals \in [Runs -> [ApprovalTypes -> Nat]]
      /\ executions \in [IdempotencyKeys -> Execution \cup {None}]
      /\ calls \in [IdempotencyKeys -> Nat]
      /\ executor \in [Executors -> Local]
  BY DEF TypeOK
<1>n. None \notin Execution
  BY RunNoneAssumption
<1>a. UNCHANGED approvals =>
         \A r \in Runs, type \in ApprovalTypes : approvals'[r][type] >= approvals[r][type]
  BY <1>0
<1>c. UNCHANGED calls => \A k \in IdempotencyKeys : calls'[k] >= calls[k]
  BY <1>0
<1>1. ASSUME NEW a \in Approvers, ApproverRecords(a) PROVE RepairKept
  <2>1. PICK r, type :
           /\ approvals' = [approvals EXCEPT ![r][type] = @ + 1]
           /\ UNCHANGED <<executions, calls>>
    BY <1>1 DEF ApproverRecords, approveFrame
  <2>2. \A q \in Runs, t \in ApprovalTypes :
           /\ approvals[q][t] \in Nat
           /\ approvals'[q][t] \in {approvals[q][t], approvals[q][t] + 1}
    BY <1>0, <2>1
  <2>3. \A q \in Runs, t \in ApprovalTypes : approvals'[q][t] >= approvals[q][t]
    BY <2>2
  <2> QED
    BY <1>a, <1>c, <2>1, <2>3 DEF RepairKept
<1>2. ASSUME UNCHANGED repairVars PROVE RepairKept
  BY <1>a, <1>c, <1>2 DEF RepairKept, repairVars
<1>3. ASSUME NEW x \in Executors, ExecutorStarts(x) PROVE RepairKept
  <2>1. /\ UNCHANGED <<approvals, calls>>
        /\ \/ UNCHANGED executions
           \/ /\ executions[executor[x].key] = None
              /\ \A k \in IdempotencyKeys :
                    k # executor[x].key => executions'[k] = executions[k]
    BY <1>0, <1>3 DEF ExecutorStarts, executeFrame
  <2> QED
    BY <1>a, <1>c, <2>1 DEF RepairKept
<1>4. ASSUME NEW x \in Executors, ExecutorCalls(x) PROVE RepairKept
  <2>1. /\ UNCHANGED <<approvals, executions>>
        /\ calls' = calls \/ calls' = [calls EXCEPT ![executor[x].key] = @ + 1]
    BY <1>4 DEF ExecutorCalls, executeFrame
  <2>2. \A k \in IdempotencyKeys : calls[k] \in Nat /\ calls'[k] \in {calls[k], calls[k] + 1}
    BY <1>0, <2>1
  <2>3. \A k \in IdempotencyKeys : calls'[k] >= calls[k]
    BY <2>2
  <2> QED
    BY <1>a, <1>c, <2>1, <2>3 DEF RepairKept
<1>5. ASSUME NEW x \in Executors, ExecutorSaves(x) PROVE RepairKept
  <2> DEFINE key == executor[x].key
  <2>1. PICK state : executions' = [executions EXCEPT ![key].state = state]
    BY <1>5 DEF ExecutorSaves
  <2>2. UNCHANGED <<approvals, calls>>
    BY <1>5 DEF ExecutorSaves, executeFrame
  <2>3. key \in IdempotencyKeys /\ executions[key] \in Execution
    BY <1>5 DEF ExecutorSaves, CallsInv
  <2>4. /\ executions'[key] = [executions[key] EXCEPT !.state = state]
        /\ \A k \in IdempotencyKeys : k # key => executions'[k] = executions[k]
    BY <1>0, <2>1, <2>3
  <2>5. [executions[key] EXCEPT !.state = state].run = executions[key].run
    BY <2>3 DEF Execution
  <2>6. executions'[key] # None
    <3>1. PICK outcome \in {"SUCCEEDED", "FAILED"} :
             executions' = [executions EXCEPT ![key].state = outcome]
      BY <1>5 DEF ExecutorSaves
    <3>2. executions'[key] = [executions[key] EXCEPT !.state = outcome]
      BY <1>0, <2>3, <3>1
    <3>3. [executions[key] EXCEPT !.state = outcome] \in Execution
      BY <2>3 DEF Execution
    <3> QED
      BY <1>n, <3>2, <3>3
  <2> HIDE DEF key
  <2> QED
    BY <1>a, <1>c, <2>2, <2>4, <2>5, <2>6 DEF RepairKept
<1>6. ASSUME NEW x \in Executors, ExecutorAsserts(x) PROVE RepairKept
  BY <1>a, <1>c, <1>6 DEF ExecutorAsserts, executeFrame, RepairKept
<1> QED
  BY <1>1, <1>2, <1>3, <1>4, <1>5, <1>6, RepairTablesAlone

\* An order stays deducted.
LEMMA InventoryGrows ==
    ASSUME TypeOK, [Next]_runVars, NEW r \in Runs, inventory[r]
    PROVE  inventory'[r]
<1>1. CASE UNCHANGED inventory
  BY <1>1
<1>2. ASSUME NEW q \in Runs, InventoryDeducts(q) PROVE inventory'[r]
  BY <1>2 DEF InventoryDeducts, TypeOK
<1> QED
  BY <1>1, <1>2, InventoryActions

-----------------------------------------------------------------------------
(* Where a run goes                                                        *)

\* What the transition table says of the statuses the properties name.
LEMMA TableFacts ==
    /\ \A s, t : <<s, t>> \in Transitions => s \in Statuses /\ t \in Statuses /\ t # "CREATED"
    /\ \A s, t : <<s, t>> \in Transitions /\ s \notin InFlight \cup {"CRITIC_REVIEW"} =>
          t \notin InFlight \cup {"CRITIC_REVIEW"}
    /\ \A s : <<s, "NO_ANOMALY">> \in Transitions => s \in {"CRITIC_REVIEW", "EVIDENCE_COLLECTED"}
    /\ \A s : <<s, "POLICY_CHECK">> \in Transitions => s = "EVIDENCE_COLLECTED"
    /\ \A s : <<s, "AWAITING_APPROVAL">> \in Transitions => s = "POLICY_CHECK"
    /\ \A s : <<s, "EXECUTING">> \in Transitions => s = "AWAITING_APPROVAL"
    /\ \A s, t : <<s, t>> \in Transitions /\ t \in {"VERIFYING", "EXECUTION_FAILED"} =>
          s = "EXECUTING"
    /\ \A s, t : <<s, t>> \in Transitions /\ t \in {"REPAIRED", "VERIFICATION_FAILED"} =>
          s = "VERIFYING"
    /\ \A s, t : <<s, t>> \in Transitions /\ s \in InRepair => t \in InRepair
BY DEF Transitions, Statuses, InFlight, InRepair

\* What a worker's outcome can lead to, and that only a diagnosis is one.
LEMMA NextStatusFacts ==
    ASSUME NEW l \in Busy
    PROVE  /\ NextStatus(l) \in {"INVESTIGATING", "PLANNING_FAILED", "KNOWLEDGE_LOOKUP",
                                 "INVESTIGATION_FAILED", "INCONCLUSIVE", "DIAGNOSING",
                                 "EVIDENCE_COLLECTED"}
           /\ NextStatus(l) = "EVIDENCE_COLLECTED" => l.agent = "DIAGNOSIS" /\ l.outcome = "ok"
<1>1. l.agent \in {"PLANNER", "INVESTIGATOR", "KNOWLEDGE", "DIAGNOSIS"}
  BY DEF Busy, Agents
<1>2. CASE l.agent = "PLANNER"
  BY <1>2 DEF NextStatus
<1>3. CASE l.agent = "INVESTIGATOR"
  BY <1>3 DEF NextStatus
<1>4. CASE l.agent = "KNOWLEDGE"
  BY <1>4 DEF NextStatus
<1>5. CASE l.agent = "DIAGNOSIS"
  BY <1>5 DEF NextStatus
<1> QED
  BY <1>1, <1>2, <1>3, <1>4, <1>5

\* An update that checks the table follows it, from the row's status.
LEMMA UpdatedFollowsTable ==
    ASSUME NEW r, NEW copy, Updated(r, copy)
    PROVE  <<status[r], status'[r]>> \in Transitions /\ Matches(copy) /\ copy.run = r
BY DEF Updated, Allowed, Matches

\* A worker is at work on a run when it concludes one.
LEMMA ConcluderBusy ==
    ASSUME TypeOK, NEW r, NEW w \in Workers, ConcludedBy(r, w)
    PROVE  worker[w] \in Busy
<1>1. worker[w] \in Local /\ worker[w].at = "conclude"
  BY DEF TypeOK, ConcludedBy
<1> QED
  BY <1>1, Holding, Literals

\* The runtime's own steps follow the table; an evaluation completes a run it
\* has marked.
LEMMA MovesFollowTable ==
    ASSUME TypeOK, HeldByEvaluator, [Next]_runVars, NEW r \in Runs, ~RowKept(r)
    PROVE  \/ status[r] = None /\ status'[r] = "CREATED"
           \/ <<status[r], status'[r]>> \in Transitions
           \/ Evaluated(r) /\ status'[r] \in {"EVIDENCE_COLLECTED", "INCONCLUSIVE"}
<1>1. <<"CREATED", "PLANNING">> \in Transitions
  BY DEF Transitions
<1>2. ASSUME NEW v \in Evaluators, CompletedBy(r, v)
      PROVE  Evaluated(r) /\ status'[r] \in {"EVIDENCE_COLLECTED", "INCONCLUSIVE"}
  BY <1>2 DEF CompletedBy, HeldByEvaluator
<1> QED
  BY <1>1, <1>2, RowMoves, UpdatedFollowsTable
     DEF Created, Claimed, ConcludedBy, ApprovedBy, ExecutedBy

\* A run that was claimed is not created again.
LEMMA ClaimedStays ==
    ASSUME TypeOK, HeldByEvaluator, [Next]_runVars, NEW r \in Runs,
           status[r] \notin {None, "CREATED"}
    PROVE  status'[r] \notin {None, "CREATED"}
<1>1. None \notin Statuses /\ {"EVIDENCE_COLLECTED", "INCONCLUSIVE"} \subseteq Statuses
  BY RunNoneAssumption DEF Statuses
<1> QED
  BY <1>1, MovesFollowTable, TableFacts DEF RowKept

\* A settled run stays settled.
LEMMA SettledStays ==
    ASSUME TypeOK, HeldByEvaluator, [Next]_runVars, NEW r \in Runs, Settled(r)
    PROVE  Settled(r)'
<1>1. /\ None \notin Statuses
      /\ {"EVIDENCE_COLLECTED", "INCONCLUSIVE"} \subseteq
            Statuses \ (InFlight \cup {"CRITIC_REVIEW"})
  BY RunNoneAssumption DEF Statuses, InFlight
<1>2. status[r] \in Statuses /\ status[r] \notin InFlight \cup {"CRITIC_REVIEW"}
  BY DEF Settled
<1>3. status'[r] \in Statuses /\ status'[r] \notin InFlight \cup {"CRITIC_REVIEW"}
  <2>1. CASE RowKept(r)
    BY <1>2, <2>1 DEF RowKept
  <2>2. CASE <<status[r], status'[r]>> \in Transitions
    BY <1>2, <2>2, TableFacts
  <2>3. CASE Evaluated(r) /\ status'[r] \in {"EVIDENCE_COLLECTED", "INCONCLUSIVE"}
    BY <1>1, <2>3
  <2> QED
    BY <1>1, <1>2, <2>1, <2>2, <2>3, MovesFollowTable
<1> QED
  BY <1>3 DEF Settled

\* A settled run is worked by nobody but an evaluation, so its evidence stays
\* as it was when the run was decided on.
LEMMA SettledEvidence ==
    ASSUME TypeOK, WorkerInv, [Next]_runVars, NEW r \in Runs, Settled(r), ~Evaluated(r)
    PROVE  evidence'[r] = evidence[r]
<1>1. \A w \in Workers : worker[w].run # r
  BY RunNoneAssumption DEF WorkerInv, HeldByWorker, Settled
<1>2. \A v \in Evaluators : evaluator[v].at = "judge" => evaluator[v].run # r
  BY DEF WorkerInv, HeldByEvaluator
<1> QED
  BY <1>1, <1>2, EvidenceGrows

\* The version tells a changed row: it never goes back, and a row of the same
\* version is the same row.
LEMMA VersionTells ==
    ASSUME TypeOK, RowsAgree, [Next]_runVars, NEW r \in Runs
    PROVE  /\ version'[r] >= version[r]
           /\ version'[r] = version[r] => RowKept(r)
<1>1. version[r] \in Nat
  BY DEF TypeOK
<1>2. status[r] = None => version[r] = 0
  <2>1. status[r] = None => events[r] = <<>> /\ Len(events[r]) = version[r]
    BY DEF RowsAgree, EventsTellTheRun
  <2> QED
    BY <2>1
<1>3. \/ RowKept(r)
      \/ version'[r] = version[r] + 1
      \/ status[r] = None /\ version'[r] = 1
  BY RowMoves DEF Created, Claimed, ConcludedBy, ApprovedBy, ExecutedBy, CompletedBy, Updated
<1> QED
  BY <1>1, <1>2, <1>3 DEF RowKept

\* A run comes to pass the policy by an approve request that passed it, on the
\* row the request has read, and keeps the diagnosis it passed with.
LEMMA PolicyPassed ==
    ASSUME TypeOK, [Next]_runVars, NEW r \in Runs, status'[r] \in PastPolicy
    PROVE  /\ diagnosis'[r] = diagnosis[r]
           /\ \/ status[r] \in PastPolicy
              \/ /\ status[r] = "EVIDENCE_COLLECTED"
                 /\ \E a \in Approvers : /\ approver[a].at = "policy"
                                         /\ approver[a].run = r
                                         /\ Matches(approver[a])
<1>1. CASE RowKept(r)
  BY <1>1 DEF RowKept
<1>2. CASE Created(r) \/ Claimed(r)
  BY <1>2 DEF Created, Claimed, PastPolicy, InRepair
<1>3. ASSUME NEW w \in Workers, ConcludedBy(r, w) PROVE FALSE
  <2>1. worker[w] \in Busy
    BY <1>3, ConcluderBusy
  <2> QED
    BY <1>3, <2>1, NextStatusFacts DEF ConcludedBy, PastPolicy, InRepair
<1>4. ASSUME NEW v \in Evaluators, CompletedBy(r, v) PROVE FALSE
  BY <1>4 DEF CompletedBy, PastPolicy, InRepair
<1>5. ASSUME NEW x \in Executors, ExecutedBy(r, x)
      PROVE  diagnosis'[r] = diagnosis[r] /\ status[r] \in PastPolicy
  <2>1. /\ <<status[r], status'[r]>> \in Transitions
        /\ status'[r] \in {"EXECUTING", "VERIFYING", "EXECUTION_FAILED", "VERIFICATION_FAILED",
                           "REPAIRED"}
        /\ diagnosis'[r] = diagnosis[r]
    BY <1>5, UpdatedFollowsTable DEF ExecutedBy
  <2>2. status[r] \in {"AWAITING_APPROVAL", "EXECUTING", "VERIFYING"}
    BY <2>1, TableFacts
  <2> QED
    BY <2>1, <2>2 DEF PastPolicy, InRepair
<1>6. ASSUME NEW a \in Approvers, ApprovedBy(r, a)
      PROVE  /\ diagnosis'[r] = diagnosis[r]
             /\ \/ status[r] = "POLICY_CHECK"
                \/ /\ status[r] = "EVIDENCE_COLLECTED" /\ approver[a].at = "policy"
                   /\ approver[a].run = r /\ Matches(approver[a])
  <2>1. /\ <<status[r], status'[r]>> \in Transitions
        /\ \/ approver[a].at = "policy" /\ status'[r] = "POLICY_CHECK"
           \/ status'[r] = "AWAITING_APPROVAL"
        /\ diagnosis'[r] = diagnosis[r] /\ approver[a].run = r /\ Matches(approver[a])
    BY <1>6, UpdatedFollowsTable DEF ApprovedBy, PastPolicy, InRepair
  <2> QED
    BY <2>1, TableFacts
<1>7. "POLICY_CHECK" \in PastPolicy
  BY DEF PastPolicy
<1> QED
  BY <1>1, <1>2, <1>3, <1>4, <1>5, <1>6, <1>7, RowMoves

-----------------------------------------------------------------------------
(* The goroutines                                                          *)

\* A worker that concludes is done with the run or goes on with it.
LEMMA WorkerGoesOn ==
    ASSUME TypeOK, NEW w \in Workers, WorkerConcludes(w)
    PROVE  \/ worker' = [worker EXCEPT ![w] = Idle]
           \/ \E l : /\ worker' = [worker EXCEPT ![w] = l]
                     /\ l.at = "start" /\ l.run = worker[w].run
<1> SUFFICES ASSUME worker' # [worker EXCEPT ![w] = Idle]
             PROVE  \E l : /\ worker' = [worker EXCEPT ![w] = l]
                           /\ l.at = "start" /\ l.run = worker[w].run
  OBVIOUS
<1> DEFINE to == NextStatus(worker[w])
<1>1. worker[w] \in Busy
  BY Holding, Literals DEF WorkerConcludes, TypeOK
<1>2. PICK agent, attempt :
         worker' = [worker EXCEPT ![w] =
            [Moved(worker[w], to, "start") EXCEPT
                !.agent = agent, !.step = 0, !.outcome = "ok", !.cause = None,
                !.attempt = attempt]]
  BY DEF WorkerConcludes
<1> DEFINE l == [Moved(worker[w], to, "start") EXCEPT
                    !.agent = agent, !.step = 0, !.outcome = "ok", !.cause = None,
                    !.attempt = attempt]
<1>3. l.at = "start" /\ l.run = worker[w].run
  BY <1>1 DEF Moved, Busy
<1>4. worker' = [worker EXCEPT ![w] = l]
  BY <1>2
<1> HIDE DEF l
<1> QED
  BY <1>3, <1>4

\* A step leaves every goroutine with the run it had or with none, or one of
\* them claims a CREATED run.
LEMMA WorkersHold ==
    ASSUME TypeOK, [Next]_runVars
    PROVE  \/ \A w \in Workers : worker'[w].run \in {None, worker[w].run}
           \/ \E w \in Workers, r \in Runs :
                 /\ status[r] = "CREATED" /\ status'[r] = "PLANNING"
                 /\ worker'[w].run = r
                 /\ \A v \in Workers \ {w} : worker'[v] = worker[v]
<1>0. worker \in [Workers -> Local]
  BY DEF TypeOK
<1>1. ASSUME NEW w \in Workers, WorkerClaims(w)
      PROVE  \E r \in Runs : /\ status[r] = "CREATED" /\ status'[r] = "PLANNING"
                             /\ worker'[w].run = r
                             /\ \A v \in Workers \ {w} : worker'[v] = worker[v]
  <2>1. PICK r \in Runs :
           /\ status[r] = "CREATED"
           /\ Transit(CopyOf(r, "start"), "PLANNING")
           /\ worker' = [worker EXCEPT ![w] = Moved(CopyOf(r, "start"), "PLANNING", "start")]
    BY <1>1 DEF WorkerClaims
  <2>2. CopyOf(r, "start") \in Busy
    BY <2>1, CopyTyped, RunNoneAssumption, Literals
  <2>3. Moved(CopyOf(r, "start"), "PLANNING", "start").run = r
    BY <2>2, CopyFields
  <2>4. status'[r] = "PLANNING"
    BY <2>1, CopyFields, AdvanceMoves DEF Transit
  <2> QED
    BY <1>0, <2>1, <2>3, <2>4
<1>2. ASSUME NEW w \in Workers, NEW l, worker' = [worker EXCEPT ![w] = l],
             l.run \in {None, worker[w].run}
      PROVE  \A v \in Workers : worker'[v].run \in {None, worker[v].run}
  BY <1>0, <1>2
<1>3. ASSUME NEW w \in Workers,
             \/ WorkerStartsStep(w) \/ WorkerAgentAnswers(w) \/ WorkerDiagnoses(w)
             \/ WorkerFinishesStep(w) \/ WorkerMissesFinish(w) \/ WorkerMissesStart(w)
      PROVE  \A v \in Workers : worker'[v].run \in {None, worker[v].run}
  <2>1. worker[w] \in Busy
    BY <1>0, <1>3, Holding, Literals DEF WorkerStartsStep, WorkerAgentAnswers,
       WorkerDiagnoses, WorkerFinishesStep, WorkerMissesFinish, WorkerMissesStart
  <2>2. CASE WorkerStartsStep(w)
    BY <1>0, <2>1, <2>2 DEF WorkerStartsStep, Busy
  <2>3. CASE WorkerAgentAnswers(w)
    BY <1>0, <2>1, <2>3 DEF WorkerAgentAnswers, Busy
  <2>4. CASE WorkerDiagnoses(w)
    BY <1>0, <2>1, <2>4 DEF WorkerDiagnoses, Busy
  <2>5. CASE WorkerFinishesStep(w) \/ WorkerMissesFinish(w) \/ WorkerMissesStart(w)
    BY <1>0, <2>1, <2>5 DEF WorkerFinishesStep, WorkerMissesFinish, WorkerMissesStart, Busy
  <2> QED
    BY <1>3, <2>2, <2>3, <2>4, <2>5
<1>4. ASSUME NEW w \in Workers, WorkerConcludes(w)
      PROVE  \A v \in Workers : worker'[v].run \in {None, worker[v].run}
  BY <1>2, <1>4, Holding, WorkerGoesOn
<1>5. ASSUME NEW w \in Workers, WorkerAbandons(w) \/ WorkerStops(w)
      PROVE  \A v \in Workers : worker'[v].run \in {None, worker[v].run}
  BY <1>2, <1>5, Holding DEF WorkerAbandons, WorkerStops
<1>6. CASE RuntimeCrash
  BY <1>6, Holding DEF RuntimeCrash
<1> QED
  BY <1>1, <1>3, <1>4, <1>5, <1>6, CopyActions DEF WorkerProceeds

\* Only an evaluation, or the worker that holds it, takes a run out of its
\* investigation, and the worker lets go of it.
LEMMA WorkerLetsGo ==
    ASSUME TypeOK, WorkerInv, HeldByApprover, [Next]_runVars, NEW r \in Runs, ~Evaluated(r),
           status[r] \in InFlight \ {"CREATED"}, status'[r] \notin InFlight
    PROVE  \E w \in Workers : worker[w].run = r /\ worker'[w].run = None
<1>1. CASE RowKept(r) \/ Created(r) \/ Claimed(r)
  BY <1>1, RunNoneAssumption DEF RowKept, Created, Claimed, InFlight, Statuses
<1>2. ASSUME NEW w \in Workers, ConcludedBy(r, w)
      PROVE  worker[w].run = r /\ worker'[w].run = None
  BY <1>2, Holding DEF ConcludedBy, Updated, InFlight
<1>3. ASSUME NEW a \in Approvers, ApprovedBy(r, a) PROVE FALSE
  <2>1. approver[a].run = r /\ r # None
    BY <1>3, RunNoneAssumption DEF ApprovedBy, Updated
  <2> QED
    BY <2>1 DEF HeldByApprover, Settled
<1>4. ASSUME NEW x \in Executors, ExecutedBy(r, x) PROVE FALSE
  <2>1. /\ <<status[r], status'[r]>> \in Transitions
        /\ status'[r] \in {"EXECUTING", "VERIFYING", "EXECUTION_FAILED", "VERIFICATION_FAILED",
                           "REPAIRED"}
    BY <1>4, UpdatedFollowsTable DEF ExecutedBy
  <2>2. status[r] \in {"AWAITING_APPROVAL", "EXECUTING", "VERIFYING"}
    BY <2>1, TableFacts
  <2> QED
    BY <2>2 DEF InFlight
<1>5. ASSUME NEW v \in Evaluators, CompletedBy(r, v) PROVE FALSE
  BY <1>5 DEF CompletedBy, WorkerInv, HeldByEvaluator
<1> QED
  BY <1>1, <1>2, <1>3, <1>4, <1>5, RowMoves

\* Every step keeps a run with one goroutine at most, and in its investigation
\* while a goroutine has it.
LEMMA WorkersKeepApart ==
    ASSUME TypeOK, WorkerInv, HeldByApprover, [Next]_runVars
    PROVE  (OneWorkerPerRun /\ HeldByWorker)'
<1>0. worker' \in [Workers -> Local] /\ worker \in [Workers -> Local]
  BY WorkersStep DEF TypeOK
<1>h. ASSUME \A w \in Workers, r \in Runs : worker'[w].run = r =>
                /\ status'[r] \notin {None, "CREATED"}
                /\ Evaluated(r)' \/ status'[r] \in InFlight
      PROVE  HeldByWorker'
  <2>1. \A w \in Workers : worker'[w].run # None => worker'[w].run \in Runs
    BY <1>0, Holding
  <2> QED
    BY <1>h, <2>1 DEF HeldByWorker, Evaluated
<1>1. ASSUME NEW w \in Workers, NEW r \in Runs, worker[w].run = r, worker'[w].run = r
      PROVE  /\ status'[r] \notin {None, "CREATED"}
             /\ Evaluated(r)' \/ status'[r] \in InFlight
  <2>1. r # None
    BY RunNoneAssumption
  <2>2. status[r] \notin {None, "CREATED"} /\ (Evaluated(r) \/ status[r] \in InFlight)
    BY <1>1, <2>1 DEF WorkerInv, HeldByWorker
  <2>3. status'[r] \notin {None, "CREATED"}
    BY <2>2, ClaimedStays DEF WorkerInv
  <2>4. CASE Evaluated(r)
    BY <2>3, <2>4, EvaluatedStays
  <2>5. CASE ~Evaluated(r)
    <3> SUFFICES ASSUME status'[r] \notin InFlight PROVE FALSE
      BY <2>3
    <3>2. PICK v \in Workers : worker[v].run = r /\ worker'[v].run = None
      BY <2>2, <2>5, WorkerLetsGo
    <3>3. v = w
      BY <1>1, <2>1, <3>2 DEF WorkerInv, OneWorkerPerRun
    <3> QED
      BY <1>1, <2>1, <3>2, <3>3
  <2> QED
    BY <2>4, <2>5
<1>2. CASE \A w \in Workers : worker'[w].run \in {None, worker[w].run}
  <2>1. OneWorkerPerRun'
    BY <1>2 DEF WorkerInv, OneWorkerPerRun
  <2>2. HeldByWorker'
    BY <1>1, <1>2, <1>h, RunNoneAssumption
  <2> QED
    BY <2>1, <2>2
<1>3. ASSUME NEW u \in Workers, NEW q \in Runs,
             status[q] = "CREATED", status'[q] = "PLANNING", worker'[u].run = q,
             \A v \in Workers \ {u} : worker'[v] = worker[v]
      PROVE  (OneWorkerPerRun /\ HeldByWorker)'
  <2>1. \A v \in Workers : worker[v].run # q
    BY <1>3, RunNoneAssumption DEF WorkerInv, HeldByWorker
  <2>2. OneWorkerPerRun'
    BY <1>3, <2>1 DEF WorkerInv, OneWorkerPerRun
  <2>3. ASSUME NEW w \in Workers, NEW r \in Runs, worker'[w].run = r
        PROVE  /\ status'[r] \notin {None, "CREATED"}
               /\ Evaluated(r)' \/ status'[r] \in InFlight
    <3>1. CASE w = u
      BY <1>3, <2>3, <3>1, RunNoneAssumption DEF InFlight, Statuses
    <3>2. CASE w # u
      BY <1>1, <1>3, <2>3, <3>2
    <3> QED
      BY <3>1, <3>2
  <2>4. HeldByWorker'
    BY <1>h, <2>3
  <2> QED
    BY <2>2, <2>4
<1> QED
  BY <1>2, <1>3, WorkersHold

-----------------------------------------------------------------------------
(* The evaluations and the diagnoses                                       *)

\* Where a step leaves an evaluation request: where it was, at a place before
\* or after its work on the run, or one further.
Judged(v) ==
    /\ evaluator'[v].run = evaluator[v].run
    /\ evaluator'[v].run \in Runs
    /\ \/ /\ evaluator[v].at = "start" /\ evaluator'[v].at = "finish"
          /\ evaluator'[v].cause \in RootCauses
          /\ \A r \in Runs : evaluator[v].run = r => Evaluated(r)'
       \/ /\ evaluator[v].at = "finish" /\ evaluator'[v].at = "judge"
          /\ evaluator'[v].cause = evaluator[v].cause
       \/ /\ evaluator[v].at = "judge" /\ evaluator'[v].at = "complete"
          /\ evaluator'[v].cause = evaluator[v].cause
          /\ Supported(evaluator[v].cause, evidence[evaluator[v].run])
       \/ /\ evaluator[v].at = "judge" /\ evaluator'[v].at = "fail"
          /\ evaluator'[v].outcome = "unsupported"
       \/ /\ evaluator[v].at = "fail" /\ evaluator'[v].at = "complete"
          /\ evaluator'[v].outcome = evaluator[v].outcome

\* A step leaves an evaluation request in one of those places.
LEMMA EvaluatorMoves ==
    ASSUME TypeOK, [Next]_runVars, NEW v \in Evaluators
    PROVE  \/ evaluator'[v] = evaluator[v]
           \/ evaluator'[v].at \notin {"finish", "fail", "judge", "complete"}
           \/ Judged(v)
<1> USE Literals
<1>0. evaluator \in [Evaluators -> Local]
  BY DEF TypeOK
<1>1. ASSUME NEW u \in Evaluators, NEW l, Evaluate(u, l)
      PROVE  /\ u = v => evaluator'[v] = l
             /\ u # v => evaluator'[v] = evaluator[v]
  BY <1>0, <1>1 DEF Evaluate
<1> DEFINE me == evaluator[v]
<1>2. CASE EvaluatorCreates(v)
  <2>1. PICK q \in Runs : Evaluate(v, [Idle EXCEPT !.at = "start", !.run = q, !.status = "CREATED",
                                      !.version = 1, !.agent = "DIAGNOSIS"])
    BY <1>2 DEF EvaluatorCreates
  <2>2. [Idle EXCEPT !.at = "start", !.run = q, !.status = "CREATED",
                     !.version = 1, !.agent = "DIAGNOSIS"].at = "start"
    BY DEF Idle
  <2> QED
    BY <1>1, <2>1, <2>2
<1>3. CASE EvaluatorLoads(v)
  <2>1. PICK q \in Runs :
           Evaluate(v, [CopyOf(q, "start") EXCEPT !.agent = "DIAGNOSIS", !.cause = None])
    BY <1>3 DEF EvaluatorLoads
  <2>2. [CopyOf(q, "start") EXCEPT !.agent = "DIAGNOSIS", !.cause = None].at = "start"
    BY DEF CopyOf, Idle
  <2> QED
    BY <1>1, <2>1, <2>2
<1>4. CASE EvaluatorStartsStep(v)
  <2>1. me \in Busy /\ me.at = "start" /\ me.run \in Runs /\ me.agent \in Agents
    BY <1>0, <1>4, Holding, BusyFields DEF EvaluatorStartsStep
  <2>2. PICK cause \in RootCauses :
           Evaluate(v, [me EXCEPT !.at = "finish", !.step = Len(steps[me.run]) + 1, !.cause = cause])
    BY <1>4 DEF EvaluatorStartsStep
  <2>3. evaluator'[v] = [me EXCEPT !.at = "finish", !.step = Len(steps[me.run]) + 1, !.cause = cause]
    BY <1>1, <2>2
  <2>4. evaluator'[v].at = "finish" /\ evaluator'[v].run = me.run /\ evaluator'[v].cause = cause
    BY <2>1, <2>3 DEF Busy
  <2>5. \A r \in Runs : me.run = r => Evaluated(r)'
    <3>1. steps' = [steps EXCEPT ![me.run] = Started(me.run, me.agent, "single_agent")]
      BY <1>4 DEF EvaluatorStartsStep
    <3> QED
      BY <2>1, <3>1, StartKeepsSteps
  <2> QED
    BY <2>1, <2>4, <2>5 DEF Judged
<1>5. CASE EvaluatorFinishesStep(v)
  <2>1. me \in Busy /\ me.run \in Runs /\ me.at \in {"finish", "fail"}
    BY <1>0, <1>5, Holding, BusyFields DEF EvaluatorFinishesStep
  <2>2. evaluator'[v] = [me EXCEPT !.at = IF me.at = "finish" THEN "judge" ELSE "complete"]
    BY <1>1, <1>5 DEF EvaluatorFinishesStep
  <2>3. /\ evaluator'[v].at = IF me.at = "finish" THEN "judge" ELSE "complete"
        /\ evaluator'[v].run = me.run /\ evaluator'[v].cause = me.cause
        /\ evaluator'[v].outcome = me.outcome
    BY <2>1, <2>2 DEF Busy
  <2> QED
    BY <2>1, <2>3 DEF Judged
<1>6. CASE EvaluatorJudges(v)
  <2>1. me \in Busy /\ me.run \in Runs /\ me.at = "judge"
    BY <1>0, <1>6, Holding, BusyFields DEF EvaluatorJudges
  <2>2. \/ /\ Supported(me.cause, evidence[me.run])
           /\ evaluator'[v] = [me EXCEPT !.at = "complete"]
        \/ evaluator'[v] = [me EXCEPT !.at = "fail", !.outcome = "unsupported"]
    BY <1>1, <1>6 DEF EvaluatorJudges
  <2>3. /\ [me EXCEPT !.at = "complete"].at = "complete"
        /\ [me EXCEPT !.at = "complete"].run = me.run
        /\ [me EXCEPT !.at = "complete"].cause = me.cause
        /\ [me EXCEPT !.at = "fail", !.outcome = "unsupported"].at = "fail"
        /\ [me EXCEPT !.at = "fail", !.outcome = "unsupported"].run = me.run
        /\ [me EXCEPT !.at = "fail", !.outcome = "unsupported"].outcome = "unsupported"
    BY <2>1 DEF Busy
  <2> QED
    BY <2>1, <2>2, <2>3 DEF Judged
<1>7. CASE EvaluatorCompletes(v) \/ EvaluatorAbandons(v)
  BY <1>1, <1>7, Holding DEF EvaluatorCompletes, EvaluatorAbandons
<1>8. CASE RuntimeCrash
  BY <1>8, Holding DEF RuntimeCrash
<1>9. ASSUME NEW u \in Evaluators, u # v, EvaluatorProceeds(u) \/ EvaluatorAbandons(u)
      PROVE  evaluator'[v] = evaluator[v]
  <2>1. \E l : Evaluate(u, l)
    BY <1>9 DEF EvaluatorProceeds, EvaluatorCreates, EvaluatorLoads, EvaluatorStartsStep,
       EvaluatorFinishesStep, EvaluatorJudges, EvaluatorCompletes, EvaluatorAbandons
  <2> QED
    BY <1>1, <1>9, <2>1
<1> QED
  BY <1>2, <1>3, <1>4, <1>5, <1>6, <1>7, <1>8, <1>9, CopyActions DEF EvaluatorProceeds

\* Every step keeps an evaluation that works on a run known by its mark.
LEMMA EvaluatorsKeepMarks ==
    ASSUME TypeOK, HeldByEvaluator, [Next]_runVars
    PROVE  HeldByEvaluator'
<1>0. evaluator \in [Evaluators -> Local] /\ evaluator' \in [Evaluators -> Local]
  BY EvaluatorsStep DEF TypeOK
<1>1. ASSUME NEW v \in Evaluators, NEW r \in Runs, evaluator'[v].run = r,
             evaluator'[v].at \in {"finish", "fail", "judge", "complete"}
      PROVE  Evaluated(r)'
  <2>1. CASE evaluator'[v] = evaluator[v]
    <3>1. Evaluated(r)
      BY <1>1, <2>1 DEF HeldByEvaluator
    <3> QED
      BY <3>1, EvaluatedStays
  <2>2. CASE Judged(v)
    <3>1. CASE evaluator[v].at = "start"
      BY <1>1, <2>2, <3>1 DEF Judged
    <3>2. CASE evaluator[v].at \in {"finish", "fail", "judge"}
      <4>1. Evaluated(r)
        BY <1>1, <2>2, <3>2 DEF HeldByEvaluator, Judged
      <4> QED
        BY <4>1, EvaluatedStays
    <3> QED
      BY <2>2, <3>1, <3>2 DEF Judged
  <2> QED
    BY <1>1, <2>1, <2>2, EvaluatorMoves
<1>2. \A v \in Evaluators :
         evaluator'[v].at \in {"finish", "fail", "judge", "complete"} => evaluator'[v].run \in Runs
  BY <1>0, Holding, Literals
<1> QED
  BY <1>1, <1>2 DEF HeldByEvaluator, Evaluated

\* What supports a root cause is evidence.
LEMMA SupportedFounds ==
    ASSUME NEW r, NEW cause, Supported(cause, evidence[r]), cause # None
    PROVE  Founded(r, cause)
BY DEF Supported, Founded

\* A founded cause stays founded, as evidence is never taken back.
LEMMA FoundedStays ==
    ASSUME TypeOK, [Next]_runVars, NEW r \in Runs, NEW cause, Founded(r, cause)
    PROVE  evidence'[r] # {} /\ cause \notin {None, "NO_CONFIRMED_ROOT_CAUSE"}
<1>1. evidence[r] \subseteq evidence'[r]
  BY EvidenceGrows
<1> QED
  BY <1>1 DEF Founded

\* Where a step leaves a worker that is about to write a diagnosis.
LEMMA WorkerDecides ==
    ASSUME TypeOK, [Next]_runVars, NEW w \in Workers,
           worker'[w].at \in {"finish", "conclude"},
           worker'[w].agent = "DIAGNOSIS", worker'[w].outcome = "ok"
    PROVE  /\ worker'[w].run = worker[w].run /\ worker'[w].run \in Runs
           /\ \/ /\ worker[w].at \in {"finish", "conclude"}
                 /\ worker[w].agent = "DIAGNOSIS" /\ worker[w].outcome = "ok"
                 /\ worker'[w].cause = worker[w].cause
              \/ Founded(worker[w].run, worker'[w].cause)
<1> USE Literals
<1>0. worker \in [Workers -> Local] /\ worker' \in [Workers -> Local]
  BY WorkersStep DEF TypeOK
<1>a. worker'[w] \in Busy /\ worker'[w].run \in Runs
  BY <1>0, Holding
<1> DEFINE me == worker[w]
<1>1. ASSUME NEW u \in Workers, NEW l, worker' = [worker EXCEPT ![u] = l]
      PROVE  /\ u = w => worker'[w] = l
             /\ u # w => worker'[w] = me
  BY <1>0, <1>1
<1>2. CASE worker'[w] = me
  BY <1>a, <1>2
<1>3. CASE WorkerClaims(w)
  <2>1. PICK r \in Runs :
           /\ status[r] = "CREATED"
           /\ worker' = [worker EXCEPT ![w] = Moved(CopyOf(r, "start"), "PLANNING", "start")]
    BY <1>3 DEF WorkerClaims
  <2>2. CopyOf(r, "start") \in Busy
    BY <2>1, CopyTyped, RunNoneAssumption
  <2>3. Moved(CopyOf(r, "start"), "PLANNING", "start").at = "start"
    BY <2>2, CopyFields
  <2> QED
    BY <1>1, <2>1, <2>3
<1>4. CASE WorkerStartsStep(w)
  <2>1. me \in Busy
    BY <1>0, <1>4, Holding DEF WorkerStartsStep
  <2>2. worker'[w].at = "agent"
    BY <1>0, <1>4, <2>1 DEF WorkerStartsStep, Busy
  <2> QED
    BY <2>2
<1>5. CASE WorkerAgentAnswers(w)
  <2>1. me \in Busy /\ me.agent # "DIAGNOSIS"
    BY <1>0, <1>5, Holding DEF WorkerAgentAnswers
  <2>2. worker'[w].agent = me.agent
    BY <1>0, <1>5, <2>1 DEF WorkerAgentAnswers, Busy
  <2> QED
    BY <2>1, <2>2
<1>6. CASE WorkerDiagnoses(w)
  <2>1. me \in Busy
    BY <1>0, <1>6, Holding DEF WorkerDiagnoses
  <2>2. PICK cause \in RootCauses, o \in {"error", "conflict", "ok", "unsupported"} :
           /\ o = "ok" => Supported(cause, evidence[me.run])
           /\ worker' = [worker EXCEPT ![w].at = "finish", ![w].outcome = o,
                            ![w].cause = IF o = "ok" THEN cause ELSE None]
    BY <1>6 DEF WorkerDiagnoses
  <2>3. /\ worker'[w].outcome = o /\ worker'[w].run = me.run
        /\ worker'[w].cause = IF o = "ok" THEN cause ELSE None
    BY <1>0, <2>1, <2>2 DEF Busy
  <2>4. cause # None
    BY RunNoneAssumption, RunBoundAssumption
  <2> QED
    BY <1>a, <2>2, <2>3, <2>4, SupportedFounds
<1>7. CASE WorkerFinishesStep(w) \/ WorkerMissesFinish(w)
  <2>1. me \in Busy /\ me.at = "finish"
    BY <1>0, <1>7, Holding DEF WorkerFinishesStep, WorkerMissesFinish
  <2>2. /\ worker'[w].run = me.run /\ worker'[w].agent = me.agent
        /\ worker'[w].outcome = me.outcome /\ worker'[w].cause = me.cause
    BY <1>0, <1>7, <2>1 DEF WorkerFinishesStep, WorkerMissesFinish, Busy
  <2> QED
    BY <1>a, <2>1, <2>2
<1>8. CASE WorkerMissesStart(w)
  <2>1. me \in Busy
    BY <1>0, <1>8, Holding DEF WorkerMissesStart
  <2>2. worker'[w].outcome = "failed"
    BY <1>0, <1>8, <2>1 DEF WorkerMissesStart, Busy
  <2> QED
    BY <2>2
<1>9. CASE WorkerConcludes(w)
  BY <1>1, <1>9, Holding, WorkerGoesOn
<1>10. CASE WorkerAbandons(w) \/ WorkerStops(w)
  BY <1>1, <1>10, Holding DEF WorkerAbandons, WorkerStops
<1>11. CASE RuntimeCrash
  BY <1>11, Holding DEF RuntimeCrash
<1>12. ASSUME NEW u \in Workers, u # w,
              \/ WorkerProceeds(u) \/ WorkerAbandons(u) \/ WorkerMissesFinish(u)
              \/ WorkerMissesStart(u) \/ WorkerStops(u)
       PROVE  worker'[w] = me
  BY <1>0, <1>12 DEF WorkerProceeds, WorkerClaims, WorkerStartsStep, WorkerAgentAnswers,
     WorkerDiagnoses, WorkerFinishesStep, WorkerConcludes, WorkerAbandons,
     WorkerMissesFinish, WorkerMissesStart, WorkerStops
<1> QED
  BY <1>2, <1>3, <1>4, <1>5, <1>6, <1>7, <1>8, <1>9, <1>10, <1>11, <1>12, CopyActions
     DEF WorkerProceeds

\* A diagnosed status, as DiagnosisHasEvidence lists them.
Diagnosed(r) == status[r] \in {"EVIDENCE_COLLECTED", "NO_ANOMALY"} \cup PastPolicy

\* A run comes to be diagnosed by a worker or an evaluation that is about to
\* write a diagnosis; else it keeps the one it had.
LEMMA DiagnosedMoves ==
    ASSUME TypeOK, HeldByApprover, [Next]_runVars, NEW r \in Runs, Diagnosed(r)'
    PROVE  \/ Diagnosed(r) /\ diagnosis'[r] = diagnosis[r]
           \/ \E w \in Workers :
                 /\ worker[w].at = "conclude" /\ worker[w].run = r
                 /\ worker[w].agent = "DIAGNOSIS" /\ worker[w].outcome = "ok"
                 /\ diagnosis'[r] = worker[w].cause
           \/ \E v \in Evaluators :
                 /\ evaluator[v].at = "complete" /\ evaluator[v].run = r
                 /\ evaluator[v].outcome = "ok"
                 /\ diagnosis'[r] = evaluator[v].cause
<1>0. status'[r] \in {"EVIDENCE_COLLECTED", "NO_ANOMALY"} \cup PastPolicy
  BY DEF Diagnosed
<1>1. CASE RowKept(r)
  BY <1>0, <1>1 DEF RowKept, Diagnosed
<1>2. CASE status'[r] \in PastPolicy
  BY <1>2, PolicyPassed DEF Diagnosed
<1>3. CASE status'[r] \in {"EVIDENCE_COLLECTED", "NO_ANOMALY"} /\ ~RowKept(r)
  <2>1. ~Created(r) /\ ~Claimed(r)
    BY <1>3 DEF Created, Claimed
  <2>2. ASSUME NEW x \in Executors, ExecutedBy(r, x) PROVE FALSE
    BY <1>3, <2>2 DEF ExecutedBy
  <2>3. ASSUME NEW w \in Workers, ConcludedBy(r, w)
        PROVE  /\ worker[w].at = "conclude" /\ worker[w].run = r
               /\ worker[w].agent = "DIAGNOSIS" /\ worker[w].outcome = "ok"
               /\ diagnosis'[r] = worker[w].cause
    <3>1. worker[w] \in Busy
      BY <2>3, ConcluderBusy
    <3> QED
      BY <1>3, <2>3, <3>1, NextStatusFacts DEF ConcludedBy, Updated
  <2>4. ASSUME NEW a \in Approvers, ApprovedBy(r, a)
        PROVE  status[r] = "EVIDENCE_COLLECTED" /\ diagnosis'[r] = diagnosis[r]
    <3>1. /\ <<status[r], "NO_ANOMALY">> \in Transitions
          /\ approver[a].run = r /\ diagnosis'[r] = diagnosis[r]
      BY <1>3, <2>4, UpdatedFollowsTable DEF ApprovedBy
    <3>2. Settled(r)
      BY <3>1, RunNoneAssumption DEF HeldByApprover
    <3> QED
      BY <3>1, <3>2, TableFacts DEF Settled
  <2>5. ASSUME NEW v \in Evaluators, CompletedBy(r, v)
        PROVE  /\ evaluator[v].at = "complete" /\ evaluator[v].run = r
               /\ evaluator[v].outcome = "ok" /\ diagnosis'[r] = evaluator[v].cause
    BY <1>3, <2>5 DEF CompletedBy
  <2> QED
    BY <1>3, <2>1, <2>2, <2>3, <2>4, <2>5, RowMoves DEF Diagnosed
<1> QED
  BY <1>0, <1>1, <1>2, <1>3

\* Every step keeps diagnoses founded.
LEMMA DiagnosesStayFounded ==
    ASSUME TypeOK, HeldByApprover, DiagnosisInv, [Next]_runVars
    PROVE  DiagnosisInv'
<1> USE Literals
<1>0. /\ worker \in [Workers -> Local] /\ evaluator \in [Evaluators -> Local]
      /\ evaluator' \in [Evaluators -> Local]
  BY EvaluatorsStep DEF TypeOK
<1>1. ASSUME NEW w \in Workers, worker[w].at \in {"finish", "conclude"},
             worker[w].agent = "DIAGNOSIS", worker[w].outcome = "ok"
      PROVE  worker[w].run \in Runs /\ Founded(worker[w].run, worker[w].cause)
  BY <1>0, <1>1, Holding DEF DiagnosisInv, FoundedDiagnoses
<1>2. ASSUME NEW v \in Evaluators, evaluator[v].at = "complete", evaluator[v].outcome = "ok"
      PROVE  evaluator[v].run \in Runs /\ Founded(evaluator[v].run, evaluator[v].cause)
  BY <1>0, <1>2, Holding DEF DiagnosisInv, FoundedDiagnoses
<1>3. ASSUME NEW r \in Runs, Diagnosed(r)
      PROVE  Founded(r, diagnosis[r])
  BY <1>3 DEF Diagnosed, PastPolicy, DiagnosisInv, DiagnosisHasEvidence, Founded
<1>4. ASSUME NEW r \in Runs, Diagnosed(r)'
      PROVE  evidence'[r] # {} /\ diagnosis'[r] \notin {None, "NO_CONFIRMED_ROOT_CAUSE"}
  <2>1. Founded(r, diagnosis'[r])
    BY <1>1, <1>2, <1>3, <1>4, DiagnosedMoves
  <2> QED
    BY <2>1, FoundedStays
<1>5. DiagnosisHasEvidence'
  BY <1>4 DEF DiagnosisHasEvidence, Diagnosed, PastPolicy
<1>6. ASSUME NEW w \in Workers, worker'[w].at \in {"finish", "conclude"},
             worker'[w].agent = "DIAGNOSIS", worker'[w].outcome = "ok"
      PROVE  /\ evidence'[worker'[w].run] # {}
             /\ worker'[w].cause \notin {None, "NO_CONFIRMED_ROOT_CAUSE"}
  <2>1. worker'[w].run \in Runs /\ Founded(worker'[w].run, worker'[w].cause)
    BY <1>1, <1>6, WorkerDecides
  <2> QED
    BY <2>1, FoundedStays
<1>7. ASSUME NEW v \in Evaluators, evaluator'[v].at = "complete", evaluator'[v].outcome = "ok"
      PROVE  /\ evidence'[evaluator'[v].run] # {}
             /\ evaluator'[v].cause \notin {None, "NO_CONFIRMED_ROOT_CAUSE"}
  <2>1. CASE evaluator'[v] = evaluator[v]
    BY <1>2, <1>7, <2>1, FoundedStays
  <2>2. CASE Judged(v)
    <3>1. /\ evaluator[v].at = "judge" /\ evaluator'[v].run \in Runs
          /\ evaluator'[v].cause = evaluator[v].cause
          /\ Supported(evaluator[v].cause, evidence[evaluator'[v].run])
      BY <1>7, <2>2 DEF Judged, DiagnosisInv, FoundedDiagnoses
    <3>2. evaluator[v].cause # None
      BY <3>1 DEF DiagnosisInv, FoundedDiagnoses
    <3> QED
      BY <3>1, <3>2, SupportedFounds, FoundedStays
  <2> QED
    BY <1>7, <2>1, <2>2, EvaluatorMoves
<1>8. ASSUME NEW v \in Evaluators
      PROVE  /\ evaluator'[v].at \in {"finish", "judge"} => evaluator'[v].cause # None
             /\ evaluator'[v].at = "fail" => evaluator'[v].outcome # "ok"
  <2>1. CASE evaluator'[v] = evaluator[v]
    BY <2>1 DEF DiagnosisInv, FoundedDiagnoses
  <2>2. CASE Judged(v)
    <3>1. \A cause \in RootCauses : cause # None
      BY RunNoneAssumption, RunBoundAssumption
    <3> QED
      BY <2>2, <3>1 DEF Judged, DiagnosisInv, FoundedDiagnoses
  <2> QED
    BY <2>1, <2>2, EvaluatorMoves
<1>9. FoundedDiagnoses'
  BY <1>6, <1>7, <1>8 DEF FoundedDiagnoses, Founded
<1> QED
  BY <1>5, <1>9 DEF DiagnosisInv

-----------------------------------------------------------------------------
(* The approvals                                                           *)

\* Where a step leaves an approve request: with no run, or with its copy of
\* one.  It loads a diagnosed run, goes on with the copy as it is while the
\* row stays, or has moved the row itself.
Loaded(a) ==
    /\ evidence' = evidence
    /\ \E r \in Runs : /\ status[r] = "EVIDENCE_COLLECTED" /\ RowKept(r)
                       /\ approver'[a].run = r /\ approver'[a].version = version[r]
                       /\ approver'[a].cause = diagnosis[r] /\ approver'[a].at = "evidence"

WentOn(a) ==
    /\ approver[a] \in Busy
    /\ approver'[a].run = approver[a].run /\ approver'[a].version = approver[a].version
    /\ approver'[a].cause = approver[a].cause
    /\ \/ approver'[a].at = "reject"
       \/ approver'[a].at = "confirm" /\ approver[a].cause = "NO_ISSUE"
       \/ /\ approver'[a].at = "policy"
          /\ RepairAction(approver[a].cause) # None
          /\ ~Conflicting(evidence[approver[a].run])
          /\ evidence' = evidence
       \/ /\ approver[a].at = "confirm" /\ approver'[a].at = "healthy"
          /\ approvals'[approver[a].run]["NO_ISSUE_CONFIRMATION"] > 0

MovedOn(a) ==
    /\ approver[a] \in Busy
    /\ Matches(approver[a])
    /\ diagnosis' = diagnosis
    /\ approver'[a].run = approver[a].run
    /\ approver'[a].version = approver[a].version + 1
    /\ version'[approver[a].run] = version[approver[a].run] + 1
    /\ approver'[a].cause = approver[a].cause
    /\ approver'[a].at \in {"request", "record"}

\* A step leaves an approve request where it was, without a run, or there.
LEMMA ApproverMoves ==
    ASSUME TypeOK, [Next]_runVars, NEW a \in Approvers
    PROVE  \/ approver'[a] = approver[a]
           \/ approver'[a].run = None /\ approver'[a].at \in {"idle", "done"}
           \/ Loaded(a) \/ WentOn(a) \/ MovedOn(a)
<1> USE Literals
<1>0. approver \in [Approvers -> Local]
  BY DEF TypeOK
<1> DEFINE me == approver[a]
<1>1. ASSUME NEW b \in Approvers, NEW l, Approve(b, l)
      PROVE  /\ b = a => approver'[a] = l
             /\ b # a => approver'[a] = me
  BY <1>0, <1>1 DEF Approve
<1>2. CASE ApproverLoads(a)
  <2>1. PICK r \in Runs : /\ status[r] = "EVIDENCE_COLLECTED"
                          /\ Approve(a, CopyOf(r, "evidence"))
    BY <1>2 DEF ApproverLoads
  <2>2. approver'[a] = CopyOf(r, "evidence")
    BY <1>1, <2>1
  <2>3. UNCHANGED rowVars /\ evidence' = evidence
    BY <1>2 DEF ApproverLoads, approveFrame
  <2>4. RowKept(r)
    BY <2>3 DEF RowKept, rowVars
  <2> QED
    BY <2>1, <2>2, <2>3, <2>4, CopyFields DEF Loaded
<1>3. CASE ApproverDecides(a)
  <2> DEFINE next == IF Conflicting(evidence[me.run]) THEN "reject"
                     ELSE IF me.cause = "NO_ISSUE" THEN "confirm"
                     ELSE IF RepairAction(me.cause) # None THEN "policy" ELSE "done"
  <2>1. me \in Busy
    BY <1>0, <1>3, Holding DEF ApproverDecides
  <2>2. Approve(a, IF next = "done" THEN Done ELSE [me EXCEPT !.at = next])
    BY <1>3 DEF ApproverDecides
  <2>3. approver'[a] = IF next = "done" THEN Done ELSE [me EXCEPT !.at = next]
    BY <1>1, <2>2
  <2>4. \A at : /\ [me EXCEPT !.at = at].at = at /\ [me EXCEPT !.at = at].run = me.run
                /\ [me EXCEPT !.at = at].version = me.version
                /\ [me EXCEPT !.at = at].cause = me.cause
    BY <2>1 DEF Busy
  <2>5. evidence' = evidence
    BY <1>3 DEF ApproverDecides, approveFrame
  <2>6. \/ next = "done"
        \/ next = "reject"
        \/ next = "confirm" /\ me.cause = "NO_ISSUE"
        \/ /\ next = "policy" /\ RepairAction(me.cause) # None
           /\ ~Conflicting(evidence[me.run])
    OBVIOUS
  <2> HIDE DEF next
  <2> QED
    BY <2>1, <2>3, <2>4, <2>5, <2>6, Holding DEF WentOn
<1>4. CASE ApproverTransits(a)
  <2>1. me \in Busy
    BY <1>0, <1>4, Holding DEF ApproverTransits
  <2>2. \/ Approve(a, Done)
        \/ \E to : /\ Transit(me, to)
                   /\ \/ Approve(a, Moved(me, to, "request"))
                      \/ Approve(a, Moved(me, to, "record"))
    BY <1>4 DEF ApproverTransits
  <2>3. CASE Approve(a, Done)
    BY <1>1, <2>3, Holding
  <2>4. ASSUME NEW to, Transit(me, to), NEW at \in {"request", "record"},
               Approve(a, Moved(me, to, at))
        PROVE  MovedOn(a)
    <3>1. approver'[a] = Moved(me, to, at)
      BY <1>1, <2>4
    <3>2. /\ approver'[a].at = at /\ approver'[a].run = me.run
          /\ approver'[a].version = me.version + 1 /\ approver'[a].cause = me.cause
      BY <2>1, <3>1, CopyFields
    <3>3. Matches(me) /\ Advance(me, to) /\ diagnosis' = diagnosis
      BY <2>4 DEF Transit, Allowed
    <3>4. version'[me.run] = version[me.run] + 1
      BY <2>1, <3>3, BusyFields, AdvanceMoves
    <3> QED
      BY <2>1, <3>2, <3>3, <3>4 DEF MovedOn
  <2> QED
    BY <2>2, <2>3, <2>4
<1>5. CASE ApproverRecords(a)
  <2>1. me \in Busy /\ me.run \in Runs /\ me.at \in {"confirm", "record"}
    BY <1>0, <1>5, Holding DEF ApproverRecords
  <2>2. CASE me.at = "record"
    <3>1. approver'[a] = Done
      BY <1>1, <1>5, <2>2 DEF ApproverRecords
    <3> QED
      BY <3>1, Holding
  <2>3. CASE me.at = "confirm"
    <3>1. approver'[a] = [me EXCEPT !.at = "healthy"]
      BY <1>1, <1>5, <2>3 DEF ApproverRecords
    <3>2. /\ approver'[a].at = "healthy" /\ approver'[a].run = me.run
          /\ approver'[a].version = me.version /\ approver'[a].cause = me.cause
      BY <2>1, <3>1 DEF Busy
    <3>3. approvals' = [approvals EXCEPT ![me.run]["NO_ISSUE_CONFIRMATION"] = @ + 1]
      BY <1>5, <2>3 DEF ApproverRecords
    <3>4. /\ approvals \in [Runs -> [ApprovalTypes -> Nat]]
          /\ "NO_ISSUE_CONFIRMATION" \in ApprovalTypes
      BY DEF TypeOK, ApprovalTypes
    <3>5. approvals[me.run]["NO_ISSUE_CONFIRMATION"] \in Nat
      BY <2>1, <3>4
    <3>6. approvals'[me.run]["NO_ISSUE_CONFIRMATION"]
             = approvals[me.run]["NO_ISSUE_CONFIRMATION"] + 1
      BY <2>1, <3>3, <3>4
    <3> QED
      BY <2>1, <2>3, <3>2, <3>5, <3>6 DEF WentOn
  <2> QED
    BY <2>1, <2>2, <2>3
<1>6. CASE ApproverAbandons(a)
  BY <1>1, <1>6, Holding DEF ApproverAbandons
<1>7. CASE RuntimeCrash
  BY <1>7, Holding DEF RuntimeCrash
<1>8. ASSUME NEW b \in Approvers, b # a, ApproverProceeds(b) \/ ApproverAbandons(b)
      PROVE  approver'[a] = me
  <2>1. \E l : Approve(b, l)
    BY <1>8 DEF ApproverProceeds, ApproverLoads, ApproverDecides, ApproverTransits,
       ApproverRecords, ApproverAbandons
  <2> QED
    BY <1>1, <1>8, <2>1
<1> QED
  BY <1>2, <1>3, <1>4, <1>5, <1>6, <1>7, <1>8, CopyActions DEF ApproverProceeds

\* Every step keeps what is known of a run an approve request holds.
LEMMA ApproversStayBehind ==
    ASSUME TypeOK, RowsAgree, HeldByEvaluator, HeldByApprover, [Next]_runVars
    PROVE  HeldByApprover'
<1>0. /\ approver \in [Approvers -> Local] /\ approver' \in [Approvers -> Local]
      /\ \A r \in Runs : version[r] \in Nat
      /\ \A r \in Runs : version'[r] \in Nat
  <2>1. version' \in [Runs -> Nat]
    BY RowsStep DEF RowsAgree
  <2> QED
    BY <2>1, ApproversStep DEF TypeOK
<1>1. ASSUME NEW a \in Approvers, NEW r \in Runs, approver'[a].run = r
      PROVE  /\ Settled(r)'
             /\ approver'[a].version <= version'[r]
             /\ approver'[a].version = version'[r] => approver'[a].cause = diagnosis'[r]
  <2>n. r # None
    BY RunNoneAssumption
  <2>1. CASE approver'[a].cause = approver[a].cause /\ approver[a].run = r
             /\ approver'[a].version = approver[a].version
    <3>1. /\ Settled(r)
          /\ approver[a].version <= version[r]
          /\ approver[a].version = version[r] => approver[a].cause = diagnosis[r]
      BY <2>1, <2>n DEF HeldByApprover
    <3>2. approver[a] \in Busy
      BY <1>0, <2>1, <2>n, Holding
    <3>3. approver[a].version \in Nat
      BY <3>2, BusyFields
    <3>4. version'[r] >= version[r] /\ (version'[r] = version[r] => diagnosis'[r] = diagnosis[r])
      BY VersionTells DEF RowKept
    <3> QED
      BY <1>0, <2>1, <3>1, <3>3, <3>4, SettledStays
  <2>2. CASE Loaded(a)
    <3>1. /\ status[r] = "EVIDENCE_COLLECTED" /\ RowKept(r)
          /\ approver'[a].version = version[r] /\ approver'[a].cause = diagnosis[r]
      BY <1>1, <2>2 DEF Loaded
    <3>2. Settled(r)
      BY <3>1 DEF Settled, Statuses, InFlight
    <3> QED
      BY <1>0, <3>1, <3>2, SettledStays DEF RowKept
  <2>3. CASE MovedOn(a)
    <3>1. /\ approver[a].run = r /\ approver[a].version = version[r]
          /\ approver'[a].version = version[r] + 1 /\ version'[r] = version[r] + 1
          /\ diagnosis'[r] = diagnosis[r] /\ approver'[a].cause = approver[a].cause
      BY <1>1, <2>3 DEF MovedOn, Matches
    <3>2. Settled(r) /\ approver[a].cause = diagnosis[r]
      BY <2>n, <3>1 DEF HeldByApprover
    <3> QED
      BY <1>0, <3>1, <3>2, SettledStays
  <2> QED
    BY <1>1, <2>n, <2>1, <2>2, <2>3, ApproverMoves DEF WentOn
<1>2. \A a \in Approvers : approver'[a].run # None => approver'[a].run \in Runs
  BY <1>0, Holding
<1> QED
  BY <1>1, <1>2 DEF HeldByApprover, Settled

\* The evidence a settled run was decided on stays free of conflicts, unless
\* an evaluation adds to it.
LEMMA ConsistentStays ==
    ASSUME TypeOK, WorkerInv, [Next]_runVars, NEW r \in Runs, Settled(r),
           Evaluated(r) \/ ~Conflicting(evidence[r])
    PROVE  Evaluated(r)' \/ ~Conflicting(evidence'[r])
<1>1. CASE Evaluated(r)
  BY <1>1, EvaluatedStays
<1>2. CASE ~Evaluated(r)
  BY <1>2, SettledEvidence
<1> QED
  BY <1>1, <1>2

\* Every step keeps what an approve request has decided.
LEMMA DecisionsStand ==
    ASSUME TypeOK, CallsInv, WorkerInv, HeldByApprover, DecidedByApprover, [Next]_runVars
    PROVE  DecidedByApprover'
<1> USE Literals
<1>0. /\ approver \in [Approvers -> Local] /\ approver' \in [Approvers -> Local]
      /\ \A r \in Runs : approvals[r]["NO_ISSUE_CONFIRMATION"] \in Nat
      /\ \A r \in Runs : approvals'[r]["NO_ISSUE_CONFIRMATION"] \in Nat
      /\ "NO_ISSUE_CONFIRMATION" \in ApprovalTypes
  BY ApproversStep, RepairTablesStep DEF TypeOK, ApprovalTypes
<1>1. ASSUME NEW a \in Approvers, NEW r \in Runs, approver'[a].run = r
      PROVE  /\ approver'[a].at = "policy" =>
                   /\ RepairAction(approver'[a].cause) # None
                   /\ Evaluated(r)' \/ ~Conflicting(evidence'[r])
             /\ approver'[a].at \in {"confirm", "healthy"} => approver'[a].cause = "NO_ISSUE"
             /\ approver'[a].at = "healthy" => approvals'[r]["NO_ISSUE_CONFIRMATION"] > 0
  <2>n. r # None
    BY RunNoneAssumption
  <2>1. CASE approver'[a] = approver[a]
    <3>1. /\ approver[a].at = "policy" =>
               RepairAction(approver[a].cause) # None
                  /\ (Evaluated(r) \/ ~Conflicting(evidence[r]))
          /\ approver[a].at \in {"confirm", "healthy"} => approver[a].cause = "NO_ISSUE"
          /\ approver[a].at = "healthy" => approvals[r]["NO_ISSUE_CONFIRMATION"] > 0
      BY <1>1, <2>1 DEF DecidedByApprover
    <3>2. Settled(r)
      BY <1>1, <2>1, <2>n DEF HeldByApprover
    <3>3. approvals'[r]["NO_ISSUE_CONFIRMATION"] >= approvals[r]["NO_ISSUE_CONFIRMATION"]
      BY <1>0, RepairGrows DEF RepairKept
    <3> QED
      BY <1>0, <2>1, <3>1, <3>2, <3>3, ConsistentStays
  <2>2. CASE Loaded(a) \/ MovedOn(a)
    BY <2>2 DEF Loaded, MovedOn
  <2>3. CASE WentOn(a)
    <3>1. approver[a].run = r /\ approver'[a].cause = approver[a].cause
      BY <1>1, <2>3 DEF WentOn
    <3>2. approver'[a].at = "policy" =>
             /\ RepairAction(approver[a].cause) # None
             /\ ~Conflicting(evidence[r]) /\ evidence' = evidence
      BY <2>3, <3>1 DEF WentOn
    <3>3. approver'[a].at = "healthy" =>
             approver[a].at = "confirm" /\ approvals'[r]["NO_ISSUE_CONFIRMATION"] > 0
      BY <2>3, <3>1 DEF WentOn
    <3>4. approver[a].at = "confirm" => approver[a].cause = "NO_ISSUE"
      BY DEF DecidedByApprover
    <3>5. approver'[a].at = "confirm" => approver[a].cause = "NO_ISSUE"
      BY <2>3 DEF WentOn
    <3> QED
      BY <3>1, <3>2, <3>3, <3>4, <3>5
  <2> QED
    BY <1>1, <2>n, <2>1, <2>2, <2>3, ApproverMoves
<1>2. \A a \in Approvers : approver'[a].at \in {"policy", "confirm", "healthy"} =>
         approver'[a].run \in Runs
  BY <1>0, Holding
<1> QED
  BY <1>1, <1>2 DEF DecidedByApprover, Evaluated

\* Who passed the policy has settled.
LEMMA PastPolicySettled ==
    ASSUME NEW r, status[r] \in PastPolicy
    PROVE  Settled(r)
BY DEF Settled, PastPolicy, InRepair, Statuses, InFlight

\* Every step keeps a run that passed the policy fit to have passed it, and a
\* healthy run confirmed.
LEMMA ApprovalsStand ==
    ASSUME TypeOK, CallsInv, RowsAgree, WorkerInv, ApprovalInv, [Next]_runVars
    PROVE  ApprovalInv'
<1>0. HeldByApprover /\ DecidedByApprover /\ HeldByEvaluator
  BY DEF ApprovalInv, WorkerInv
<1>a. /\ \A r \in Runs : approvals[r]["NO_ISSUE_CONFIRMATION"] \in Nat
      /\ \A r \in Runs : approvals'[r]["NO_ISSUE_CONFIRMATION"] \in Nat
      /\ "NO_ISSUE_CONFIRMATION" \in ApprovalTypes
  BY RepairTablesStep DEF TypeOK, ApprovalTypes
<1>1. HeldByApprover' /\ DecidedByApprover'
  BY <1>0, ApproversStayBehind, DecisionsStand
<1>2. ASSUME NEW r \in Runs, status'[r] \in PastPolicy
      PROVE  /\ Evaluated(r)' \/ ~Conflicting(evidence'[r])
             /\ RepairAction(diagnosis'[r]) # None
  <2>1. CASE status[r] \in PastPolicy
    <3>1. /\ Evaluated(r) \/ ~Conflicting(evidence[r])
          /\ RepairAction(diagnosis[r]) # None
      BY <2>1 DEF ApprovalInv, PolicyOnConsistent, RepairHasAction, PastPolicy
    <3> QED
      BY <1>2, <2>1, <3>1, PastPolicySettled, ConsistentStays, PolicyPassed
  <2>2. CASE status[r] \notin PastPolicy
    <3>1. diagnosis'[r] = diagnosis[r]
      BY <1>2, PolicyPassed
    <3>2. PICK a \in Approvers : /\ approver[a].at = "policy" /\ approver[a].run = r
                                 /\ Matches(approver[a])
      BY <1>2, <2>2, PolicyPassed
    <3>3. r # None /\ approver[a].version = version[r]
      BY <3>2, RunNoneAssumption DEF Matches
    <3>4. Settled(r) /\ approver[a].cause = diagnosis[r]
      BY <1>0, <3>2, <3>3 DEF HeldByApprover
    <3>5. /\ RepairAction(approver[a].cause) # None
          /\ Evaluated(r) \/ ~Conflicting(evidence[r])
      BY <1>0, <3>2 DEF DecidedByApprover
    <3> QED
      BY <3>1, <3>4, <3>5, ConsistentStays
  <2> QED
    BY <2>1, <2>2
<1>3. PolicyOnConsistent' /\ RepairHasAction'
  BY <1>2 DEF PolicyOnConsistent, RepairHasAction, PastPolicy
<1>4. ASSUME NEW r \in Runs, status'[r] = "NO_ANOMALY"
      PROVE  diagnosis'[r] = "NO_ISSUE" /\ approvals'[r]["NO_ISSUE_CONFIRMATION"] > 0
  <2>1. approvals[r]["NO_ISSUE_CONFIRMATION"] > 0 =>
           approvals'[r]["NO_ISSUE_CONFIRMATION"] > 0
    <3>1. approvals'[r]["NO_ISSUE_CONFIRMATION"] >= approvals[r]["NO_ISSUE_CONFIRMATION"]
      BY <1>a, RepairGrows DEF RepairKept
    <3> QED
      BY <1>a, <3>1
  <2>2. CASE RowKept(r)
    BY <1>4, <2>1, <2>2 DEF RowKept, ApprovalInv, HealthyIsConfirmed
  <2>3. ~Created(r) /\ ~Claimed(r)
    BY <1>4 DEF Created, Claimed
  <2>4. ASSUME NEW w \in Workers, ConcludedBy(r, w) PROVE FALSE
    <3>1. worker[w] \in Busy
      BY <2>4, ConcluderBusy
    <3> QED
      BY <1>4, <2>4, <3>1, NextStatusFacts DEF ConcludedBy
  <2>5. ASSUME NEW x \in Executors, ExecutedBy(r, x) PROVE FALSE
    BY <1>4, <2>5 DEF ExecutedBy
  <2>6. ASSUME NEW v \in Evaluators, CompletedBy(r, v) PROVE FALSE
    BY <1>4, <2>6 DEF CompletedBy
  <2>7. ASSUME NEW a \in Approvers, ApprovedBy(r, a)
        PROVE  diagnosis'[r] = "NO_ISSUE" /\ approvals[r]["NO_ISSUE_CONFIRMATION"] > 0
    <3>1. <<approver[a].at, "NO_ANOMALY">> \in
             {<<"reject", "INCONCLUSIVE">>, <<"healthy", "NO_ANOMALY">>,
              <<"policy", "POLICY_CHECK">>, <<"request", "AWAITING_APPROVAL">>}
      BY <1>4, <2>7 DEF ApprovedBy
    <3>2. approver[a].at = "healthy"
      BY <3>1
    <3>3. diagnosis'[r] = diagnosis[r]
      BY <2>7 DEF ApprovedBy
    <3>4. Updated(r, approver[a])
      BY <2>7 DEF ApprovedBy
    <3>5. approver[a].run = r /\ Matches(approver[a])
      BY <3>4, UpdatedFollowsTable
    <3>6. approver[a].run = r /\ approver[a].version = version[r] /\ r # None
      BY <3>5, RunNoneAssumption DEF Matches
    <3>7. approver[a].cause = diagnosis[r]
      BY <1>0, <3>6 DEF HeldByApprover
    <3>8. approver[a].cause = "NO_ISSUE" /\ approvals[r]["NO_ISSUE_CONFIRMATION"] > 0
      BY <1>0, <3>2, <3>6 DEF DecidedByApprover
    <3> QED
      BY <3>7, <3>8, <3>3
  <2> QED
    BY <2>1, <2>2, <2>3, <2>4, <2>5, <2>6, <2>7, RowMoves
<1>5. HealthyIsConfirmed'
  BY <1>4 DEF HealthyIsConfirmed
<1> QED
  BY <1>1, <1>3, <1>5 DEF ApprovalInv

-----------------------------------------------------------------------------
(* The repair                                                              *)

\* Where a step leaves an execute request that is on its way: the places after
\* which it can repair nothing, or one place further with the same key.
Begun(x) ==
    /\ executor[x].at = "begin" /\ executor'[x].at = "start"
    /\ executor'[x].run \in Runs
    /\ status[executor'[x].run] = "AWAITING_APPROVAL"
    /\ status'[executor'[x].run] = "EXECUTING"
    /\ UNCHANGED executions
    /\ \A y \in Executors \ {x} : executor'[y] = executor[y]

Proceeded(x) ==
    /\ executor[x] \in Busy
    /\ executor'[x].run = executor[x].run /\ executor'[x].key = executor[x].key
    /\ \/ /\ executor[x].at = "start" /\ executor'[x].at = "call"
          /\ executions'[executor[x].key] # None
          /\ executions'[executor[x].key].run = executor[x].run
       \/ /\ executor[x].at = "call" /\ executor'[x].at = "save"
          /\ executor'[x].outcome = "ok" => calls'[executor[x].key] > 0
       \/ /\ executor[x].at = "save" /\ executor'[x].at = "verify"
          /\ executor[x].outcome = "ok"
       \/ executor[x].at = "verify" /\ executor'[x].at = "wait"
       \/ /\ executor[x].at = "wait" /\ executor'[x].at = "assert"
          /\ inventory[executor[x].run]
       \/ executor[x].at = "assert" /\ executor'[x].at = "repaired"

\* A step leaves an execute request where it was or in one of those places.
LEMMA ExecutorMoves ==
    ASSUME TypeOK, CallsInv, [Next]_runVars, NEW x \in Executors
    PROVE  \/ executor'[x] = executor[x]
           \/ executor'[x].at \in {"idle", "done", "begin", "refuse", "fail"}
           \/ Begun(x) \/ Proceeded(x)
<1> USE Literals
<1>0. executor \in [Executors -> Local]
  BY DEF TypeOK
<1> DEFINE me == executor[x]
<1>1. ASSUME NEW y \in Executors, NEW l, Execute(y, l)
      PROVE  /\ y = x => executor'[x] = l
             /\ y # x => executor'[x] = me
  BY <1>1, OneExecutor
<1>2. CASE ExecutorLoads(x)
  <2>1. PICK r \in Runs, k \in IdempotencyKeys : Execute(x, [CopyOf(r, "begin") EXCEPT !.key = k])
    BY <1>2, KeysTyped DEF ExecutorLoads
  <2>2. [CopyOf(r, "begin") EXCEPT !.key = k].at = "begin"
    BY DEF CopyOf, Idle
  <2> QED
    BY <1>1, <2>1, <2>2
<1>b. ASSUME me \in Busy, NEW at, executor'[x] = [me EXCEPT !.at = at]
      PROVE  executor'[x].at = at /\ executor'[x].run = me.run /\ executor'[x].key = me.key
  BY <1>b DEF Busy
<1>3. CASE ExecutorBegins(x)
  <2>1. me \in Busy /\ me.run \in Runs /\ me.at = "begin"
    BY <1>0, <1>3, Holding DEF ExecutorBegins
  <2>2. CASE Execute(x, Done)
    BY <1>1, <2>2, Holding
  <2>3. CASE ~Execute(x, Done)
    <3>1. Transit(me, "EXECUTING") /\ Execute(x, Moved(me, "EXECUTING", "start"))
          /\ UNCHANGED executions
      BY <1>3, <2>3 DEF ExecutorBegins
    <3>2. executor'[x].at = "start" /\ executor'[x].run = me.run
          /\ \A y \in Executors \ {x} : executor'[y] = executor[y]
      BY <2>1, <3>1, OneExecutor, CopyFields
    <3>3. Advance(me, "EXECUTING") /\ <<me.status, "EXECUTING">> \in Transitions
          /\ me.status = status[me.run]
      BY <3>1 DEF Transit, Allowed, Matches
    <3>4. status'[me.run] = "EXECUTING" /\ status[me.run] = "AWAITING_APPROVAL"
      BY <2>1, <3>3, AdvanceMoves, TableFacts
    <3> QED
      BY <2>1, <3>1, <3>2, <3>4 DEF Begun
  <2> QED
    BY <2>2, <2>3
<1>4. CASE ExecutorStarts(x)
  <2>1. me \in Busy /\ me.at = "start" /\ me.key \in IdempotencyKeys /\ me.run \in Runs
    BY <1>0, <1>4, Holding DEF ExecutorStarts, CallsInv
  <2>2. CASE Execute(x, Done)
    BY <1>1, <2>2, Holding
  <2>3. CASE ~Execute(x, Done)
    <3>1. /\ executions' = [executions EXCEPT ![me.key] = [run |-> me.run, state |-> "STARTED"]]
          /\ executor'[x] = [me EXCEPT !.at = "call"]
      BY <1>1, <1>4, <2>3 DEF ExecutorStarts
    <3>2. executions'[me.key] = [run |-> me.run, state |-> "STARTED"]
      BY <2>1, <3>1 DEF TypeOK
    <3>3. [run |-> me.run, state |-> "STARTED"] \in Execution
      BY <2>1 DEF Execution
    <3>4. executions'[me.key] # None /\ executions'[me.key].run = me.run
      BY <3>2, <3>3, RunNoneAssumption
    <3> QED
      BY <1>b, <2>1, <3>1, <3>4 DEF Proceeded
  <2> QED
    BY <2>2, <2>3
<1>5. CASE ExecutorCalls(x)
  <2>1. me \in Busy /\ me.at = "call" /\ me.key \in IdempotencyKeys /\ calls[me.key] \in Nat
    BY <1>0, <1>5, Holding DEF ExecutorCalls, CallsInv, TypeOK
  <2>2. PICK o \in {"ok", "failed"} :
           /\ Execute(x, [me EXCEPT !.at = "save", !.outcome = o])
           /\ o = "ok" => calls' = [calls EXCEPT ![me.key] = @ + 1]
    BY <1>5 DEF ExecutorCalls
  <2>3. executor'[x] = [me EXCEPT !.at = "save", !.outcome = o]
    BY <1>1, <2>2
  <2>4. /\ executor'[x].at = "save" /\ executor'[x].outcome = o
        /\ executor'[x].run = me.run /\ executor'[x].key = me.key
    BY <2>1, <2>3 DEF Busy
  <2>5. o = "ok" => calls'[me.key] > 0
    BY <2>1, <2>2 DEF TypeOK
  <2> QED
    BY <2>1, <2>4, <2>5 DEF Proceeded
<1>6. CASE ExecutorSaves(x)
  <2>1. me \in Busy /\ me.at = "save"
    BY <1>0, <1>6, Holding DEF ExecutorSaves
  <2>2. executor'[x] = [me EXCEPT !.at = IF me.outcome = "ok" THEN "verify" ELSE "fail"]
    BY <1>1, <1>6 DEF ExecutorSaves
  <2> QED
    BY <1>b, <2>1, <2>2 DEF Proceeded
<1>7. CASE ExecutorTransits(x)
  <2>1. me \in Busy
    BY <1>0, <1>7, Holding DEF ExecutorTransits
  <2>2. CASE Execute(x, Done)
    BY <1>1, <2>2, Holding
  <2>3. CASE ~Execute(x, Done)
    <3>1. /\ me.at = "verify"
          /\ \/ Execute(x, Moved(me, "VERIFYING", "wait"))
             \/ Execute(x, [me EXCEPT !.at = "wait"])
      BY <1>7, <2>3 DEF ExecutorTransits
    <3>2. \/ executor'[x] = Moved(me, "VERIFYING", "wait")
          \/ executor'[x] = [me EXCEPT !.at = "wait"]
      BY <1>1, <3>1
    <3>m. /\ Moved(me, "VERIFYING", "wait").at = "wait"
          /\ Moved(me, "VERIFYING", "wait").run = me.run
          /\ Moved(me, "VERIFYING", "wait").key = me.key
      BY <2>1, CopyFields
    <3>3. executor'[x].at = "wait" /\ executor'[x].run = me.run /\ executor'[x].key = me.key
      BY <1>b, <2>1, <3>2, <3>m
    <3> QED
      BY <2>1, <3>1, <3>3 DEF Proceeded
  <2> QED
    BY <2>2, <2>3
<1>8. CASE ExecutorWaits(x)
  <2>1. me \in Busy /\ me.at = "wait"
    BY <1>0, <1>8, Holding DEF ExecutorWaits
  <2>2. \/ inventory[me.run] /\ executor'[x] = [me EXCEPT !.at = "assert"]
        \/ executor'[x] = [me EXCEPT !.at = "refuse"]
    BY <1>1, <1>8 DEF ExecutorWaits
  <2> QED
    BY <1>b, <2>1, <2>2 DEF Proceeded
<1>9. CASE ExecutorAsserts(x)
  <2>1. me \in Busy /\ me.at = "assert"
    BY <1>0, <1>9, Holding DEF ExecutorAsserts
  <2>2. \/ executor'[x] = [me EXCEPT !.at = "repaired"]
        \/ executor'[x] = [me EXCEPT !.at = "refuse"]
    BY <1>1, <1>9 DEF ExecutorAsserts
  <2> QED
    BY <1>b, <2>1, <2>2 DEF Proceeded
<1>10. CASE ExecutorMisses(x)
  <2>1. me \in Busy
    BY <1>0, <1>10, Holding DEF ExecutorMisses
  <2>2. \/ me.at = "save" /\ me.outcome = "ok" /\ executor'[x] = [me EXCEPT !.at = "verify"]
        \/ executor'[x] = [me EXCEPT !.at = "fail"]
        \/ me.at = "verify" /\ executor'[x] = [me EXCEPT !.at = "wait"]
        \/ me.at = "assert" /\ executor'[x] = [me EXCEPT !.at = "repaired"]
        \/ executor'[x] = [me EXCEPT !.at = "refuse"]
    BY <1>1, <1>10 DEF ExecutorMisses
  <2> QED
    BY <1>b, <2>1, <2>2 DEF Proceeded
<1>11. CASE ExecutorAbandons(x)
  BY <1>1, <1>11, Holding DEF ExecutorAbandons
<1>12. CASE RuntimeCrash
  BY <1>12, Holding DEF RuntimeCrash
<1>13. ASSUME NEW y \in Executors, y # x,
              ExecutorProceeds(y) \/ ExecutorMisses(y) \/ ExecutorAbandons(y)
       PROVE  executor'[x] = me
  <2>1. \E l : Execute(y, l)
    BY <1>13 DEF ExecutorProceeds, ExecutorLoads, ExecutorBegins, ExecutorStarts,
       ExecutorCalls, ExecutorSaves, ExecutorTransits, ExecutorWaits, ExecutorAsserts,
       ExecutorMisses, ExecutorAbandons
  <2> QED
    BY <1>1, <1>13, <2>1
<1> QED
  BY <1>2, <1>3, <1>4, <1>5, <1>6, <1>7, <1>8, <1>9, <1>10, <1>11, <1>12, <1>13, CopyActions
     DEF ExecutorProceeds

\* An execution comes on record by a request that was about to start it and
\* goes on to its call.
LEMMA ExecutionStarted ==
    ASSUME TypeOK, CallsInv, [Next]_runVars, NEW k \in IdempotencyKeys,
           executions[k] = None, executions'[k] # None
    PROVE  \E x \in Executors :
              /\ executor[x].at = "start" /\ executor[x].key = k
              /\ executor[x].run \in Runs /\ executions'[k].run = executor[x].run
              /\ executor'[x].at = "call"
<1>0. executor \in [Executors -> Local] /\ executions \in [IdempotencyKeys -> Execution \cup {None}]
  BY DEF TypeOK
<1>1. ASSUME NEW x \in Executors, ExecutorStarts(x)
      PROVE  /\ executor[x].at = "start" /\ executor[x].key = k
             /\ executor[x].run \in Runs /\ executions'[k].run = executor[x].run
             /\ executor'[x].at = "call"
  <2> DEFINE me == executor[x]
  <2>1. me \in Busy /\ me.at = "start" /\ me.run \in Runs
    BY <1>0, <1>1, Holding, Literals DEF ExecutorStarts
  <2>2. /\ executions' = [executions EXCEPT ![me.key] = [run |-> me.run, state |-> "STARTED"]]
        /\ Execute(x, [me EXCEPT !.at = "call"])
    BY <1>1 DEF ExecutorStarts
  <2>3. me.key = k
    BY <1>0, <2>2
  <2>4. executions'[k] = [run |-> me.run, state |-> "STARTED"]
    BY <1>0, <2>2, <2>3
  <2>5. executor'[x] = [me EXCEPT !.at = "call"]
    BY <2>2, OneExecutor
  <2> QED
    BY <2>1, <2>3, <2>4, <2>5 DEF Busy
<1>2. ASSUME NEW x \in Executors, ExecutorSaves(x) PROVE FALSE
  <2>1. executor[x].key \in IdempotencyKeys /\ executions[executor[x].key] \in Execution
    BY <1>2 DEF ExecutorSaves, CallsInv
  <2>2. executor[x].key # k
    BY <2>1, RunNoneAssumption
  <2> QED
    BY <1>0, <1>2, <2>2 DEF ExecutorSaves
<1>3. ASSUME \/ \E a \in Approvers : ApproverRecords(a)
             \/ \E x \in Executors : ExecutorCalls(x) \/ ExecutorAsserts(x)
             \/ UNCHANGED repairVars
      PROVE  FALSE
  BY <1>3 DEF ApproverRecords, approveFrame, ExecutorCalls, ExecutorAsserts, repairVars
<1> QED
  BY <1>1, <1>2, <1>3, RepairTablesAlone

\* A run in repair stays there, unless an evaluation takes it out.
LEMMA InRepairStays ==
    ASSUME TypeOK, HeldByEvaluator, [Next]_runVars, NEW r \in Runs, status[r] \in InRepair
    PROVE  Evaluated(r)' \/ status'[r] \in InRepair
<1>1. status[r] # None
  BY RunNoneAssumption DEF InRepair, Statuses
<1> QED
  BY <1>1, MovesFollowTable, TableFacts, EvaluatedStays DEF RowKept

\* Every step keeps a run to one execution.
LEMMA OneExecutionStays ==
    ASSUME TypeOK, CallsInv, HeldByEvaluator, RepairInv, [Next]_runVars
    PROVE  OneExecution' /\ OneRepairPerRun'
<1>0. executor \in [Executors -> Local] /\ executor' \in [Executors -> Local]
  BY ExecutorsStep DEF TypeOK
<1>a. ASSUME NEW r \in Runs, ~Evaluated(r)'
      PROVE  ~Evaluated(r)
  BY <1>a, EvaluatedStays
<1>1. ASSUME NEW r \in Runs, ~Evaluated(r), NEW k \in IdempotencyKeys, executions[k] = None,
             executions'[k] # None, executions'[k].run = r
      PROVE  /\ status[r] \in InRepair
             /\ \A l \in IdempotencyKeys : ~Executed(r, l)
             /\ \A y \in Executors : executor[y].at = "start" /\ executor[y].run = r =>
                   executor[y].key = k /\ executor'[y].at = "call"
  <2>1. PICK x \in Executors :
           /\ executor[x].at = "start" /\ executor[x].key = k /\ executor[x].run = r
           /\ executor'[x].at = "call"
    BY <1>1, ExecutionStarted
  <2> QED
    BY <1>1, <2>1 DEF RepairInv, OneExecution
<1>2. ASSUME NEW r \in Runs, ~Evaluated(r)', NEW k \in IdempotencyKeys,
             executions'[k] # None, executions'[k].run = r
      PROVE  \/ Executed(r, k) /\ status[r] \in InRepair
             \/ /\ executions[k] = None /\ status[r] \in InRepair
                /\ \A l \in IdempotencyKeys : ~Executed(r, l)
                /\ \A y \in Executors : executor[y].at = "start" /\ executor[y].run = r =>
                      executor[y].key = k /\ executor'[y].at = "call"
                /\ \E y \in Executors : executor[y].at = "start" /\ executor[y].run = r
  <2>1. CASE executions[k] # None
    <3>1. executions[k].run = r
      BY <1>2, <2>1, RepairGrows DEF RepairKept
    <3> QED
      BY <1>2, <1>a, <2>1, <3>1 DEF Executed, RepairInv, OneExecution
  <2>2. CASE executions[k] = None
    BY <1>1, <1>2, <1>a, <2>2, ExecutionStarted
  <2> QED
    BY <2>1, <2>2
<1>3. ASSUME NEW r \in Runs, ~Evaluated(r)', NEW x \in Executors,
             executor'[x].at = "start", executor'[x].run = r
      PROVE  \/ executor'[x] = executor[x] /\ status[r] \in InRepair
             \/ Begun(x) /\ status[r] = "AWAITING_APPROVAL" /\ status'[r] = "EXECUTING"
  <2>1. CASE executor'[x] = executor[x]
    BY <1>3, <1>a, <2>1 DEF RepairInv, OneExecution
  <2>2. CASE Begun(x)
    BY <1>3, <2>2 DEF Begun
  <2> QED
    BY <1>3, <2>1, <2>2, ExecutorMoves DEF Proceeded
<1>4. "AWAITING_APPROVAL" \notin InRepair /\ "EXECUTING" \in InRepair
  BY DEF InRepair
<1>5. ASSUME NEW r \in Runs, ~Evaluated(r)', NEW k \in IdempotencyKeys,
             executions'[k] # None, executions'[k].run = r
      PROVE  status'[r] \in InRepair
  BY <1>2, <1>5, InRepairStays
<1>6. ASSUME NEW r \in Runs, ~Evaluated(r)', NEW x \in Executors,
             executor'[x].at = "start", executor'[x].run = r
      PROVE  /\ status'[r] \in InRepair
             /\ \A k \in IdempotencyKeys : ~(executions'[k] # None /\ executions'[k].run = r)
             /\ \A y \in Executors : executor'[y].at = "start" /\ executor'[y].run = r => x = y
  <2>1. CASE executor'[x] = executor[x] /\ status[r] \in InRepair
    <3>1. /\ executor[x].at = "start" /\ executor[x].run = r
          /\ \A k \in IdempotencyKeys : ~Executed(r, k)
          /\ \A y \in Executors : executor[y].at = "start" /\ executor[y].run = r => x = y
      BY <1>6, <1>a, <2>1 DEF RepairInv, OneExecution
    <3>2. status'[r] \in InRepair
      BY <1>6, <2>1, InRepairStays
    <3>3. ASSUME NEW k \in IdempotencyKeys, executions'[k] # None, executions'[k].run = r
          PROVE  FALSE
      <4>1. executor'[x].at = "call"
        BY <1>2, <1>6, <3>1, <3>3
      <4> QED
        BY <1>6, <4>1
    <3>4. ASSUME NEW y \in Executors, executor'[y].at = "start", executor'[y].run = r
          PROVE  x = y
      BY <1>3, <1>4, <1>6, <2>1, <3>1, <3>4
    <3> QED
      BY <3>2, <3>3, <3>4
  <2>2. CASE Begun(x) /\ status[r] = "AWAITING_APPROVAL" /\ status'[r] = "EXECUTING"
    <3>1. \A k \in IdempotencyKeys : ~(executions'[k] # None /\ executions'[k].run = r)
      BY <1>2, <1>4, <1>6, <2>2
    <3>2. \A y \in Executors \ {x} : executor'[y] = executor[y]
      BY <2>2 DEF Begun
    <3>3. ASSUME NEW y \in Executors \ {x}, executor'[y].at = "start", executor'[y].run = r
          PROVE  FALSE
      <4>1. executor[y].at = "start" /\ executor[y].run = r
        BY <3>2, <3>3
      <4>2. status[r] \in InRepair
        BY <1>6, <1>a, <4>1 DEF RepairInv, OneExecution
      <4> QED
        BY <1>4, <2>2, <4>2
    <3> QED
      BY <1>4, <2>2, <3>1, <3>3
  <2> QED
    BY <1>3, <1>6, <2>1, <2>2
<1>7. OneExecution'
  BY <1>5, <1>6 DEF OneExecution, Executed
<1>8. ASSUME NEW r \in Runs, ~Evaluated(r)',
             NEW k \in IdempotencyKeys, executions'[k] # None, executions'[k].run = r,
             NEW l \in IdempotencyKeys, executions'[l] # None, executions'[l].run = r
      PROVE  k = l
  <2>1. CASE Executed(r, k) /\ Executed(r, l)
    BY <1>8, <1>a, <2>1 DEF Executed, RepairInv, OneRepairPerRun
  <2>2. CASE ~(Executed(r, k) /\ Executed(r, l))
    BY <1>2, <1>8, <2>2
  <2> QED
    BY <2>1, <2>2
<1>9. OneRepairPerRun'
  BY <1>8 DEF OneRepairPerRun
<1> QED
  BY <1>7, <1>9

\* Every step keeps what an execute request has done.
LEMMA ExecutorsKeepWork ==
    ASSUME TypeOK, CallsInv, HeldByExecutor, [Next]_runVars
    PROVE  HeldByExecutor'
<1>0. /\ executor \in [Executors -> Local] /\ executor' \in [Executors -> Local]
      /\ \A k \in IdempotencyKeys : calls[k] \in Nat /\ calls'[k] \in Nat
  BY ExecutorsStep, RepairTablesStep DEF TypeOK
<1>1. ASSUME NEW x \in Executors
      PROVE  /\ executor'[x].at \in {"call", "save", "verify", "wait", "assert", "repaired"} =>
                   /\ executor'[x].key \in IdempotencyKeys
                   /\ executions'[executor'[x].key] # None
                   /\ executions'[executor'[x].key].run = executor'[x].run
             /\ \/ executor'[x].at \in {"verify", "wait", "assert", "repaired"}
                \/ executor'[x].at = "save" /\ executor'[x].outcome = "ok"
                => calls'[executor'[x].key] > 0
             /\ executor'[x].at \in {"assert", "repaired"} => inventory'[executor'[x].run]
  <2> DEFINE me == executor[x]
  <2>1. /\ me.at \in {"call", "save", "verify", "wait", "assert", "repaired"} =>
              /\ me.key \in IdempotencyKeys
              /\ executions[me.key] # None /\ executions[me.key].run = me.run
        /\ \/ me.at \in {"verify", "wait", "assert", "repaired"}
           \/ me.at = "save" /\ me.outcome = "ok"
           => calls[me.key] > 0
        /\ me.at \in {"assert", "repaired"} => inventory[me.run]
    BY DEF HeldByExecutor, Executed
  <2>2. /\ me.at \in {"call", "save", "verify", "wait", "assert", "repaired"} =>
              /\ executions'[me.key] # None /\ executions'[me.key].run = me.run
        /\ \/ me.at \in {"verify", "wait", "assert", "repaired"}
           \/ me.at = "save" /\ me.outcome = "ok"
           => calls'[me.key] > 0
    BY <1>0, <2>1, RepairGrows DEF RepairKept
  <2>3. me.at \in Places => me.run \in Runs
    BY <1>0, Holding
  <2>4. me.at \in Places /\ inventory[me.run] => inventory'[me.run]
    BY <2>3, InventoryGrows
  <2>5. CASE executor'[x] = me
    BY <2>1, <2>2, <2>4, <2>5, Literals
  <2>6. CASE Proceeded(x)
    <3>1. me.at = "start" => me.key \in IdempotencyKeys
      BY DEF CallsInv
    <3>2. inventory[me.run] => inventory'[me.run]
      BY <2>4, <2>6, Holding DEF Proceeded
    <3> QED
      BY <2>1, <2>2, <2>6, <3>1, <3>2 DEF Proceeded
  <2>7. CASE Begun(x)
    BY <2>7 DEF Begun
  <2> QED
    BY <2>5, <2>6, <2>7, ExecutorMoves
<1> QED
  BY <1>1 DEF HeldByExecutor, Executed

\* A run is said to be repaired by a request that has called a tool for it and
\* has seen its order deducted.
LEMMA RepairsStand ==
    ASSUME TypeOK, CallsInv, HeldByExecutor, RepairedIsDeducted, [Next]_runVars
    PROVE  RepairedIsDeducted'
<1>0. \A k \in IdempotencyKeys : calls[k] \in Nat /\ calls'[k] \in Nat
  BY RepairTablesStep DEF TypeOK
<1>1. ASSUME NEW r \in Runs, inventory[r],
             NEW k \in IdempotencyKeys, calls[k] > 0, executions[k] # None,
             executions[k].run = r
      PROVE  /\ inventory'[r]
             /\ calls'[k] > 0 /\ executions'[k] # None /\ executions'[k].run = r
  BY <1>0, <1>1, InventoryGrows, RepairGrows DEF RepairKept
<1>2. ASSUME NEW r \in Runs, status'[r] = "REPAIRED"
      PROVE  /\ inventory[r]
             /\ \E k \in IdempotencyKeys :
                   calls[k] > 0 /\ executions[k] # None /\ executions[k].run = r
  <2>1. CASE RowKept(r)
    BY <1>2, <2>1 DEF RowKept, RepairedIsDeducted
  <2>2. ~Created(r) /\ ~Claimed(r)
    BY <1>2 DEF Created, Claimed
  <2>3. ASSUME NEW w \in Workers, ConcludedBy(r, w) PROVE FALSE
    <3>1. worker[w] \in Busy
      BY <2>3, ConcluderBusy
    <3> QED
      BY <1>2, <2>3, <3>1, NextStatusFacts DEF ConcludedBy
  <2>4. ASSUME NEW a \in Approvers, ApprovedBy(r, a) PROVE FALSE
    BY <1>2, <2>4 DEF ApprovedBy
  <2>5. ASSUME NEW v \in Evaluators, CompletedBy(r, v) PROVE FALSE
    BY <1>2, <2>5 DEF CompletedBy
  <2>6. ASSUME NEW x \in Executors, ExecutedBy(r, x)
        PROVE  /\ inventory[r]
               /\ \E k \in IdempotencyKeys :
                     calls[k] > 0 /\ executions[k] # None /\ executions[k].run = r
    <3>1. <<executor[x].at, "REPAIRED">> \in
             {<<"begin", "EXECUTING">>, <<"verify", "VERIFYING">>, <<"fail", "EXECUTION_FAILED">>,
              <<"refuse", "VERIFICATION_FAILED">>, <<"repaired", "REPAIRED">>}
      BY <1>2, <2>6 DEF ExecutedBy
    <3>2. executor[x].at = "repaired"
      BY <3>1
    <3>3. executor[x].run = r
      BY <2>6 DEF ExecutedBy, Updated
    <3> QED
      BY <3>2, <3>3 DEF HeldByExecutor, Executed
  <2> QED
    BY <1>2, <2>1, <2>2, <2>3, <2>4, <2>5, <2>6, RowMoves
<1> QED
  BY <1>1, <1>2 DEF RepairedIsDeducted

-----------------------------------------------------------------------------
(* Safety                                                                  *)

\* What every reachable state satisfies.
RunSafe == RunInv /\ WorkerInv /\ DiagnosisInv /\ ApprovalInv /\ RepairInv

\* Initially nobody holds a run and no run exists.
LEMMA RunSafeInit == Init => RunSafe
<1> SUFFICES ASSUME Init PROVE RunSafe
  OBVIOUS
<1>1. /\ \A w \in Workers : worker[w].run = None /\ worker[w].at = "idle"
      /\ \A a \in Approvers : approver[a].run = None /\ approver[a].at = "idle"
      /\ \A x \in Executors : executor[x].at = "idle"
      /\ \A v \in Evaluators : evaluator[v].at = "idle"
  BY Holding DEF Init
<1>2. \A r \in Runs : status[r] = None
  BY DEF Init
<1>3. None \notin Statuses
  BY RunNoneAssumption
<1>4. WorkerInv
  BY <1>1 DEF WorkerInv, OneWorkerPerRun, HeldByWorker, HeldByEvaluator
<1>5. DiagnosisInv
  BY <1>1, <1>2, <1>3 DEF DiagnosisInv, DiagnosisHasEvidence, FoundedDiagnoses, Statuses, InRepair
<1>6. ApprovalInv
  BY <1>1, <1>2, <1>3 DEF ApprovalInv, HeldByApprover, DecidedByApprover, PolicyOnConsistent,
     RepairHasAction, HealthyIsConfirmed, PastPolicy, Statuses, InRepair
<1>7. \A k \in IdempotencyKeys : \A r \in Runs : ~Executed(r, k)
  BY RunNoneAssumption DEF Init, EarlierExecution, Executed
<1>8. RepairInv
  BY <1>1, <1>2, <1>3, <1>7 DEF RepairInv, OneRepairPerRun, OneExecution, HeldByExecutor,
     RepairedIsDeducted, Executed, Statuses
<1> QED
  BY <1>4, <1>5, <1>6, <1>8, RunInvInit DEF RunSafe

\* Every step of the runtime keeps it.
LEMMA RunSafeStep == RunSafe /\ [Next]_runVars => RunSafe'
<1> SUFFICES ASSUME RunSafe, [Next]_runVars PROVE RunSafe'
  OBVIOUS
<1>1. /\ RunInv /\ TypeOK /\ RowsAgree /\ CallsInv
      /\ WorkerInv /\ DiagnosisInv /\ ApprovalInv /\ RepairInv
      /\ HeldByApprover /\ HeldByEvaluator /\ HeldByExecutor /\ RepairedIsDeducted
  BY DEF RunSafe, RunInv, WorkerInv, ApprovalInv, RepairInv
<1>2. RunInv'
  BY <1>1, RunInvStep
<1>3. WorkerInv'
  BY <1>1, WorkersKeepApart, EvaluatorsKeepMarks DEF WorkerInv
<1>4. DiagnosisInv'
  BY <1>1, DiagnosesStayFounded
<1>5. ApprovalInv'
  BY <1>1, ApprovalsStand
<1>6. RepairInv'
  BY <1>1, OneExecutionStays, ExecutorsKeepWork, RepairsStand DEF RepairInv
<1> QED
  BY <1>2, <1>3, <1>4, <1>5, <1>6 DEF RunSafe

\* The runtime keeps it.
LEMMA RunSafeAlways == Spec => []RunSafe
BY RunSafeInit, RunSafeStep, PTL DEF Spec

\* However many goroutines, in however many processes, look for created runs,
\* and whatever fails, at most one works on a run (ClaimCreated, RunWorker).
THEOREM OneWorkerPerRunAlways == Spec => []OneWorkerPerRun
<1>1. RunSafe => OneWorkerPerRun
  BY DEF RunSafe, WorkerInv
<1> QED
  BY <1>1, RunSafeAlways, PTL

\* Worker and evaluation write a diagnosis only on evidence of the run, and no
\* later request replaces it by none (Process, CompleteStatus).
THEOREM DiagnosisAlwaysHasEvidence == Spec => []DiagnosisHasEvidence
<1>1. RunSafe => DiagnosisHasEvidence
  BY DEF RunSafe, DiagnosisInv
<1> QED
  BY <1>1, RunSafeAlways, PTL

\* Evidence that conflicts never authorizes a repair, although the policy
\* looks at it long before the repair starts (approveRun, executeRun).
THEOREM NoRepairOnConflictAlways == Spec => []NoRepairOnConflict
<1>1. RunSafe => NoRepairOnConflict
  BY DEF RunSafe, ApprovalInv, PolicyOnConsistent, PastPolicy, NoRepairOnConflict, Conflicting
<1> QED
  BY <1>1, RunSafeAlways, PTL

\* A run that passed the policy keeps a root cause with a repair action, also
\* when evaluations and approvals race (approveRun, CompleteStatus).
THEOREM RepairAlwaysHasAction == Spec => []RepairHasAction
<1>1. RunSafe => RepairHasAction
  BY DEF RunSafe, ApprovalInv
<1> QED
  BY <1>1, RunSafeAlways, PTL

\* NO_ANOMALY is said on a diagnosis of NO_ISSUE with its confirmation on
\* record only (approveRun).
THEOREM HealthyIsAlwaysConfirmed == Spec => []HealthyIsConfirmed
<1>1. RunSafe => HealthyIsConfirmed
  BY DEF RunSafe, ApprovalInv
<1> QED
  BY <1>1, RunSafeAlways, PTL

\* However many requests execute a run, under whatever keys, one of them comes
\* to call a tool (executeRun, StartRepairExecution).
THEOREM OneRepairPerRunAlways == Spec => []OneRepairPerRun
<1>1. RunSafe => OneRepairPerRun
  BY DEF RunSafe, RepairInv
<1> QED
  BY <1>1, RunSafeAlways, PTL

\* REPAIRED is said by a request that has called a tool for the run and has
\* seen its order deducted (executeRun).
THEOREM RepairedIsAlwaysDeducted == Spec => []RepairedIsDeducted
<1>1. RunSafe => RepairedIsDeducted
  BY DEF RunSafe, RepairInv
<1> QED
  BY <1>1, RunSafeAlways, PTL

\* No race of copies gets a run off the transition table, unless an evaluation
\* has written into it (UpdateStatus, ClaimCreated, CompleteStatus).
THEOREM TransitionsAlwaysDeclared == Spec => DeclaredTransitions
<1>1. ASSUME RunSafe, [Next]_runVars
      PROVE  [\A r \in Runs : status'[r] # status[r] /\ ~Evaluated(r) =>
                 <<status[r], status'[r]>> \in Transitions
                    \/ (status[r] = None /\ status'[r] = "CREATED")]_runVars
  <2>1. TypeOK /\ HeldByEvaluator
    BY <1>1 DEF RunSafe, RunInv, WorkerInv
  <2> QED
    BY <1>1, <2>1, MovesFollowTable DEF RowKept
<1> QED
  BY <1>1, RunSafeAlways, PTL DEF Spec, DeclaredTransitions

\* A finished step is never rewritten, whoever else works on the run
\* (StartStep, FinishStep).
THEOREM FinishedStepsAlwaysStay == Spec => FinishedStepsStay
<1>1. ASSUME RunSafe, [Next]_runVars
      PROVE  [\A r \in Runs : \A i \in DOMAIN steps[r] :
                 steps[r][i].state # "RUNNING" =>
                    i \in DOMAIN steps'[r] /\ steps'[r][i] = steps[r][i]]_runVars
  <2>1. TypeOK
    BY <1>1 DEF RunSafe, RunInv
  <2>2. \A r \in Runs : StepsKept(r)
    BY <1>1, <2>1, StepsGrow
  <2> QED
    BY <2>2 DEF StepsKept
<1> QED
  BY <1>1, RunSafeAlways, PTL DEF Spec, FinishedStepsStay
=============================================================================
