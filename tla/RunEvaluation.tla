--------------------------- MODULE RunEvaluation ---------------------------
(***************************************************************************)
(* The evaluation endpoints: an external single agent creates a shell run  *)
(* and later posts its diagnosis and evidence into a run, which the        *)
(* handler completes with CompleteStatus.                                  *)
(***************************************************************************)
EXTENDS RunState

evaluationFrame == <<repairVars, inventory, worker, approver, executor>>

Evaluate(v, local) == evaluator' = [evaluator EXCEPT ![v] = local]

\* POST .../evaluations/single-agent/start
EvaluationStart(r) ==
    /\ Evaluators # {}
    /\ InsertRun(r)
    /\ shells' = shells \cup {r}
    /\ UNCHANGED <<evaluationFrame, steps, evidence, evaluator, failures>>

\* POST .../evaluations/single-agent/runs without a run_id: CreateRun.
EvaluatorCreates(v) ==
    /\ evaluator[v].at = "idle"
    /\ \E r \in Runs :
          /\ InsertRun(r)
          /\ Evaluate(v, [Idle EXCEPT !.at = "start", !.run = r, !.status = "CREATED",
                                      !.version = 1, !.agent = "DIAGNOSIS"])
    /\ UNCHANGED <<evaluationFrame, steps, evidence, shells, failures>>

\* With a run_id: GetRun, whatever the run's status.
EvaluatorLoads(v) ==
    /\ evaluator[v].at = "idle"
    /\ \E r \in Runs :
          /\ status[r] # None
          /\ Evaluate(v, [CopyOf(r, "start") EXCEPT !.agent = "DIAGNOSIS", !.cause = None])
    /\ UNCHANGED <<evaluationFrame, rowVars, steps, evidence, shells, failures>>

\* StartStep, with the step type the multi-agent diagnosis uses.
EvaluatorStartsStep(v) ==
    LET me == evaluator[v]
    IN /\ me.at = "start"
       /\ steps' = [steps EXCEPT ![me.run] = Started(me.run, me.agent, "single_agent")]
       /\ \E cause \in RootCauses :
             Evaluate(v, [me EXCEPT !.at = "finish", !.step = Len(steps[me.run]) + 1,
                                    !.cause = cause])
       /\ UNCHANGED <<evaluationFrame, rowVars, evidence, shells, failures>>

\* FinishStep, as SUCCEEDED before the diagnosis is validated and as FAILED
\* after; the error of the second is ignored.
EvaluatorFinishesStep(v) ==
    LET me == evaluator[v]
    IN /\ me.at \in {"finish", "fail"}
       /\ FinishStep(me.run, me.step, IF me.at = "finish" THEN "SUCCEEDED" ELSE "FAILED")
       /\ Evaluate(v, [me EXCEPT !.at = IF me.at = "finish" THEN "judge" ELSE "complete"])
       /\ UNCHANGED <<evaluationFrame, rowVars, evidence, shells, failures>>

\* SaveEvidence for each posted item.
EvaluatorObserves(v) ==
    LET me == evaluator[v]
    IN /\ me.at = "judge"
       /\ \E o \in Observations \ evidence[me.run] :
             evidence' = [evidence EXCEPT ![me.run] = @ \cup {o}]
       /\ UNCHANGED <<evaluationFrame, rowVars, steps, evaluator, shells, failures>>

\* ListEvidence and ValidateDiagnosisRootCause.
EvaluatorJudges(v) ==
    LET me == evaluator[v]
    IN /\ me.at = "judge"
       /\ \/ /\ Supported(me.cause, evidence[me.run])
             /\ Evaluate(v, [me EXCEPT !.at = "complete"])
          \/ Evaluate(v, [me EXCEPT !.at = "fail", !.outcome = "unsupported"])
       /\ UNCHANGED <<evaluationFrame, rowVars, steps, evidence, shells, failures>>

\* CompleteStatus: the row must be as it was read, but the transition table
\* is not consulted, and the diagnosis is stored in either case.
EvaluatorCompletes(v) ==
    LET me == evaluator[v]
        to == IF me.outcome = "ok" THEN "EVIDENCE_COLLECTED" ELSE "INCONCLUSIVE"
    IN /\ me.at = "complete"
       /\ Evaluate(v, Done)
       /\ \/ /\ Matches(me)
             /\ Advance(me, to)
             /\ diagnosis' = [diagnosis EXCEPT ![me.run] = me.cause]
          \/ ~Matches(me) /\ UNCHANGED rowVars
       /\ UNCHANGED <<evaluationFrame, steps, evidence, shells, failures>>

\* A returned error, or the client hangs up.
EvaluatorAbandons(v) ==
    /\ evaluator[v].at \notin {"idle", "done"}
    /\ Fails
    /\ Evaluate(v, Done)
    /\ UNCHANGED <<evaluationFrame, rowVars, steps, evidence, shells>>

EvaluatorProceeds(v) ==
    \/ EvaluatorCreates(v) \/ EvaluatorLoads(v) \/ EvaluatorStartsStep(v)
    \/ EvaluatorFinishesStep(v) \/ EvaluatorJudges(v) \/ EvaluatorCompletes(v)

EvaluationNext ==
    \/ \E r \in Runs : EvaluationStart(r)
    \/ \E v \in Evaluators :
          EvaluatorProceeds(v) \/ EvaluatorObserves(v) \/ EvaluatorAbandons(v)
=============================================================================
