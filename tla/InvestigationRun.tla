-------------------------- MODULE InvestigationRun --------------------------
(***************************************************************************)
(* The agent runtime: the worker, the repair requests and the evaluation   *)
(* requests working on the same runs, with crashes of the process that     *)
(* runs them all.                                                          *)
(***************************************************************************)
EXTENDS RunWorker, RunRepair, RunEvaluation

\* The process dies and Compose starts it again: every goroutine and request
\* is gone, RunWorker starts anew.
RuntimeCrash ==
    /\ Fails
    /\ worker' = [w \in Workers |-> Idle]
    /\ approver' = [a \in Approvers |-> IF approver[a].at = "idle" THEN Idle ELSE Done]
    /\ executor' = [x \in Executors |-> IF executor[x].at = "idle" THEN Idle ELSE Done]
    /\ evaluator' = [v \in Evaluators |-> IF evaluator[v].at = "idle" THEN Idle ELSE Done]
    /\ UNCHANGED <<rowVars, steps, evidence, repairVars, inventory, shells>>

Next == WorkerNext \/ RepairNext \/ EvaluationNext \/ RuntimeCrash

Spec == Init /\ [][Next]_runVars

-----------------------------------------------------------------------------
(* Types                                                                   *)

\* Every table and every goroutine's and request's local copy holds what its
\* columns and fields can hold.
TypeOK ==
    /\ status \in [Runs -> Statuses \cup {None}]
    /\ version \in [Runs -> Nat]
    /\ diagnosis \in [Runs -> RootCauseCatalog \cup {None}]
    /\ events \in [Runs -> Seq(Statuses)]
    /\ steps \in [Runs -> Seq([agent : Agents, by : {"runtime", "single_agent"},
                               state : {"RUNNING", "SUCCEEDED", "FAILED"}])]
    /\ evidence \in [Runs -> SUBSET Signals]
    /\ approvals \in [Runs -> [ApprovalTypes -> Nat]]
    /\ executions \in [IdempotencyKeys -> Execution \cup {None}]
    /\ calls \in [IdempotencyKeys -> Nat]
    /\ verifications \in [Runs -> SUBSET {"PASSED", "FAILED"}]
    /\ inventory \in [Runs -> BOOLEAN]
    /\ shells \subseteq Runs
    /\ worker \in [Workers -> Local]
    /\ approver \in [Approvers -> Local]
    /\ executor \in [Executors -> Local]
    /\ evaluator \in [Evaluators -> Local]
    /\ failures \in Nat

-----------------------------------------------------------------------------
(* Safety                                                                  *)

\* The events tell the run: the last status announced is the status, and
\* there is one event per version.  A reader that replays the feed never
\* sees a change that was rolled back, or misses one.
EventsTellTheRun ==
    \A r \in Runs :
        /\ Len(events[r]) = version[r]
        /\ status[r] = None <=> events[r] = <<>>
        /\ status[r] # None => events[r][version[r]] = status[r]

\* A remediation tool is called at most once with one idempotency key, however
\* many execute requests carry it, and only for an execution on record.
OneCallPerKey ==
    \A k \in IdempotencyKeys :
        /\ calls[k] <= 1
        /\ calls[k] > 0 => executions[k] # None

\* An evaluation has written into the run.
Evaluated(r) == \E i \in DOMAIN steps[r] : steps[r][i].by = "single_agent"

InRepair == {"EXECUTING", "VERIFYING", "REPAIRED", "EXECUTION_FAILED", "VERIFICATION_FAILED"}

\* "Conflicting evidence must never authorize a repair": nothing the run's own
\* agents collected conflicts once it is in repair, although a diagnosis may
\* have cited one side of a conflict only.
NoRepairOnConflict ==
    \A r \in Runs : status[r] \in InRepair /\ ~Evaluated(r) =>
        "dirty" \notin evidence[r] /\ ~({"success", "failure"} \subseteq evidence[r])

\* A run that passed the policy is one the policy passed: an evaluation that
\* replaces the diagnosis while an approval or an execution holds an older copy
\* of the run never leads to the repair of a run without a repair action.
RepairHasAction ==
    \A r \in Runs :
        status[r] \in {"POLICY_CHECK", "AWAITING_APPROVAL"} \cup InRepair =>
            RepairAction(diagnosis[r]) # None

\* A diagnosed run rests on evidence, whichever of the worker and the
\* evaluation endpoint diagnosed it, and NO_CONFIRMED_ROOT_CAUSE is no diagnosis.
DiagnosisHasEvidence ==
    \A r \in Runs :
        status[r] \in {"EVIDENCE_COLLECTED", "NO_ANOMALY", "POLICY_CHECK",
                       "AWAITING_APPROVAL"} \cup InRepair =>
            evidence[r] # {} /\ diagnosis[r] \notin {None, "NO_CONFIRMED_ROOT_CAUSE"}

\* One request repairs a run: two execute requests that read the same
\* AWAITING_APPROVAL run never both call a tool, whatever their keys.
OneRepairPerRun ==
    \A r \in Runs : ~Evaluated(r) =>
        \A k, l \in IdempotencyKeys :
            /\ executions[k] # None /\ executions[l] # None
            /\ executions[k].run = r /\ executions[l].run = r
            => k = l

\* REPAIRED is only said of an order that was repaired and is deducted.
RepairedIsDeducted ==
    \A r \in Runs : status[r] = "REPAIRED" =>
        /\ inventory[r]
        /\ \E k \in IdempotencyKeys :
              calls[k] > 0 /\ executions[k] # None /\ executions[k].run = r

\* A healthy order is closed as NO_ANOMALY with its approval on record, and
\* only on a diagnosis of NO_ISSUE.
HealthyIsConfirmed ==
    \A r \in Runs : status[r] = "NO_ANOMALY" =>
        diagnosis[r] = "NO_ISSUE" /\ approvals[r]["NO_ISSUE_CONFIRMATION"] > 0

\* At most one goroutine drives a run, and it drives what it last read.
OneWorkerPerRun ==
    \A v, w \in Workers :
        worker[v].run # None /\ worker[v].run = worker[w].run => v = w

-----------------------------------------------------------------------------
(* Action properties                                                       *)

\* A finished step stays finished as it is: a second FinishStep, another
\* worker or an evaluation never rewrites the outcome of an agent.
FinishedStepsStay ==
    [][\A r \in Runs : \A i \in DOMAIN steps[r] :
          steps[r][i].state # "RUNNING" =>
             i \in DOMAIN steps'[r] /\ steps'[r][i] = steps[r][i]]_runVars

\* The runtime's own steps follow the transition table, whatever races.
DeclaredTransitions ==
    [][\A r \in Runs : status'[r] # status[r] /\ ~Evaluated(r) =>
          <<status[r], status'[r]>> \in Transitions
             \/ (status[r] = None /\ status'[r] = "CREATED")]_runVars

-----------------------------------------------------------------------------
(* What documents and comments say                                         *)

\* README.md: a change to business data must pass the rules and a human
\* approval.  The plan lists "the task has the approval it needs" among the
\* conditions of a write tool: when a tool is called, the approval is on record.
ExecutedIsApproved ==
    \A k \in IdempotencyKeys :
        executions[k] # None /\ executions[k].run \in Runs =>
            approvals[executions[k].run]["REPAIR_APPROVAL"] > 0

\* startSingleAgentEvaluationRun: "creates the Runtime-owned run shell without
\* starting the multi-agent worker".
ShellIsNotWorked == \A w \in Workers : worker[w].run \notin shells

-----------------------------------------------------------------------------
(* Liveness                                                                *)

\* RunWorker loops, and a request that has started runs to its end.
RunFairness ==
    /\ \A w \in Workers : WF_runVars(WorkerProceeds(w))
    /\ \A x \in Executors : WF_runVars(ExecutorProceeds(x) /\ executor[x].at # "idle")

RunFairSpec == Spec /\ RunFairness

InFlight == {"CREATED", "PLANNING", "INVESTIGATING", "KNOWLEDGE_LOOKUP", "DIAGNOSING"}

\* Every investigation ends: with a diagnosis, or with the failure that
\* stopped it, after at most one supplemental investigation.  One that a crash,
\* an expired context or a lost database call cuts off stays where it was: no
\* code takes it up again.
InvestigationEnds ==
    \A r \in Runs : status[r] \in InFlight ~> status[r] \notin InFlight \/ failures > 0

\* An execute request has taken the run and given up on it, because its key was
\* used for another: nothing was executed and nobody is at work on the run.
RefusedForItsKey(r) ==
    /\ status[r] = "EXECUTING"
    /\ \A x \in Executors : executor[x].run # r
    /\ \A k \in IdempotencyKeys : executions[k] # None => executions[k].run # r
    /\ \E k \in CallerKeys : executions[k] # None

\* A repair that begins ends in a verdict, unless a failure cuts it off or its
\* idempotency key turns out to be used.  Either leaves the run where it is:
\* EXECUTING is set before the key is tried, and no code takes it back
\* (executeRun, StartRepairExecution).
RepairEnds ==
    \A r \in Runs : status[r] \in {"EXECUTING", "VERIFYING"} ~>
        \/ status[r] \in {"REPAIRED", "EXECUTION_FAILED", "VERIFICATION_FAILED"}
        \/ RefusedForItsKey(r)
        \/ failures > 0
=============================================================================
