---------------------------- MODULE RunInvariants ----------------------------
(***************************************************************************)
(* The inductive strengthenings the proofs about InvestigationRun need:    *)
(* what is known of a run while a goroutine or a request holds a copy.     *)
(***************************************************************************)
EXTENDS InvestigationRun

\* The investigation is over: no code takes the run back to one, or to the
\* critic's review the table still declares.
Settled(r) == status[r] \in Statuses \ (InFlight \cup {"CRITIC_REVIEW"})

\* The statuses of a run that passed the policy.
PastPolicy == {"POLICY_CHECK", "AWAITING_APPROVAL"} \cup InRepair

-----------------------------------------------------------------------------
(* The goroutines                                                          *)

\* A claimed run is not claimed again, and is in flight until its worker is
\* done with it, unless an evaluation completes it meanwhile.
HeldByWorker ==
    \A w \in Workers : worker[w].run # None =>
        /\ status[worker[w].run] \notin {None, "CREATED"}
        /\ Evaluated(worker[w].run) \/ status[worker[w].run] \in InFlight

\* An evaluation that has started its step has left a mark on the run.
HeldByEvaluator ==
    \A v \in Evaluators :
        evaluator[v].at \in {"finish", "fail", "judge", "complete"} =>
            Evaluated(evaluator[v].run)

WorkerInv == OneWorkerPerRun /\ HeldByWorker /\ HeldByEvaluator

-----------------------------------------------------------------------------
(* The diagnosis                                                           *)

\* A root cause that rests on evidence of the run.
Founded(r, cause) == evidence[r] # {} /\ cause \notin {None, "NO_CONFIRMED_ROOT_CAUSE"}

\* Who is about to write a diagnosis has a founded one; an evaluation judges
\* a root cause, and what it found unsupported is not completed as a diagnosis.
FoundedDiagnoses ==
    /\ \A w \in Workers :
          /\ worker[w].at \in {"finish", "conclude"}
          /\ worker[w].agent = "DIAGNOSIS" /\ worker[w].outcome = "ok"
          => Founded(worker[w].run, worker[w].cause)
    /\ \A v \in Evaluators :
          evaluator[v].at = "complete" /\ evaluator[v].outcome = "ok"
          => Founded(evaluator[v].run, evaluator[v].cause)
    /\ \A v \in Evaluators :
          /\ evaluator[v].at \in {"finish", "judge"} => evaluator[v].cause # None
          /\ evaluator[v].at = "fail" => evaluator[v].outcome # "ok"

DiagnosisInv == DiagnosisHasEvidence /\ FoundedDiagnoses

-----------------------------------------------------------------------------
(* The approval                                                            *)

\* An approve request holds a settled run; its copy is not ahead of the row,
\* and if it is not behind, it has the row's diagnosis.
HeldByApprover ==
    \A a \in Approvers : LET me == approver[a] IN
        me.run # None =>
            /\ Settled(me.run)
            /\ me.version <= version[me.run]
            /\ me.version = version[me.run] => me.cause = diagnosis[me.run]

\* What the request has decided still holds when it acts.
DecidedByApprover ==
    \A a \in Approvers : LET me == approver[a] IN
        /\ me.at = "policy" =>
              /\ RepairAction(me.cause) # None
              /\ Evaluated(me.run) \/ ~Conflicting(evidence[me.run])
        /\ me.at \in {"confirm", "healthy"} => me.cause = "NO_ISSUE"
        /\ me.at = "healthy" => approvals[me.run]["NO_ISSUE_CONFIRMATION"] > 0

\* The policy was passed without a conflict in the evidence.
PolicyOnConsistent ==
    \A r \in Runs : status[r] \in PastPolicy => Evaluated(r) \/ ~Conflicting(evidence[r])

ApprovalInv ==
    /\ HeldByApprover
    /\ DecidedByApprover
    /\ PolicyOnConsistent
    /\ RepairHasAction
    /\ HealthyIsConfirmed

-----------------------------------------------------------------------------
(* The repair                                                              *)

\* The run was executed with this key.
Executed(r, k) == executions[k] # None /\ executions[k].run = r

\* A request that is about to start an execution, and an execution on record,
\* are of a run in repair, and there is one of either kind.
OneExecution ==
    \A r \in Runs : ~Evaluated(r) =>
        /\ \A x \in Executors : executor[x].at = "start" /\ executor[x].run = r =>
              /\ status[r] \in InRepair
              /\ \A k \in IdempotencyKeys : ~Executed(r, k)
              /\ \A y \in Executors : executor[y].at = "start" /\ executor[y].run = r => x = y
        /\ \A k \in IdempotencyKeys : Executed(r, k) => status[r] \in InRepair

\* A request that goes on past its execution has it on record; past a
\* successful call it has called; past its wait the order is deducted.
HeldByExecutor ==
    \A x \in Executors : LET me == executor[x] IN
        /\ me.at \in {"call", "save", "verify", "wait", "assert", "repaired"} =>
              me.key \in IdempotencyKeys /\ Executed(me.run, me.key)
        /\ \/ me.at \in {"verify", "wait", "assert", "repaired"}
           \/ me.at = "save" /\ me.outcome = "ok"
           => calls[me.key] > 0
        /\ me.at \in {"assert", "repaired"} => inventory[me.run]

RepairInv == OneRepairPerRun /\ OneExecution /\ HeldByExecutor /\ RepairedIsDeducted
=============================================================================
