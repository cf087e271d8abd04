------------------------- MODULE EvidenceDiagnosis -------------------------
(***************************************************************************)
(* Evidence of an investigation about an order that goes on, and what      *)
(* ValidateDiagnosisRootCause accepts of it.                               *)
(*                                                                         *)
(* Tools read one after the other while the order changes, so no two       *)
(* readings need fit together.  The diagnosis model names a root cause and *)
(* cites evidence, in any order: of several readings of one tool the last  *)
(* cited counts, so any of them may.                                       *)
(***************************************************************************)
EXTENDS ObservedOrder, Naturals, FiniteSetsExt

CONSTANT MaxReads  \* bound on the readings of an investigation

ASSUME ReadsAssumption == MaxReads \in Nat

Tools == {"payment", "outbox", "event", "inventory", "logs", "matching_logs", "trace"}

Causes ==
    {"NO_ISSUE", "PAYMENT_EVENT_NOT_CREATED", "PAYMENT_EVENT_NOT_PUBLISHED",
     "EVENT_NOT_AVAILABLE_AFTER_PUBLISH", "INVENTORY_EVENT_NOT_CONSUMED",
     "INVENTORY_DEDUCTION_FAILED", "INVENTORY_DEDUCTION_NOT_PERSISTED",
     "INVENTORY_CONSUMER_UNAVAILABLE", "NO_CONFIRMED_ROOT_CAUSE"}

Words ==
    {"SUCCESS", "ABSENT", "PENDING", "PUBLISHED", "FOUND", "MISSING", "DEDUCTED",
     "NOT_DEDUCTED", "DIRTY", "received", "success", "failure"}

VARIABLE evidence  \* evidence_snapshots of the run

vars == <<evidence, orderVars>>

-----------------------------------------------------------------------------

OfInventory(signals) == {s \in signals : s.service = "inventory"}

\* observe on a set of signals: without one of the inventory service it
\* finds none of its words; with one, the words of all of them count.
Heard(signals) ==
    IF OfInventory(signals) = {} THEN {}
    ELSE {"received"} \cup UNION {s.says : s \in signals}

\* What tools can observe of the order, and what they would now.
Moment ==
    [paid : BOOLEAN, outbox : {"ABSENT", "PENDING", "PUBLISHED"}, event : BOOLEAN,
     deducted : BOOLEAN, dirty : BOOLEAN, log : SUBSET Signal]

Now == [paid |-> paid, outbox |-> outbox, event |-> event, deducted |-> deducted,
        dirty |-> fault = "TOOL_TIMEOUT_OR_DIRTY_DATA", log |-> log]

\* Mutated form of OutboxAnswer: a missing row is called so, like a payment.
OutboxAnswerNotFound(m) == {{IF m.outbox = "ABSENT" THEN "NOT_FOUND" ELSE m.outbox}}

\* ABSENT stands for found = false.
OutboxAnswer(m) == {{m.outbox}}

\* Mutated form of PaymentAnswer: it is taken for granted.
PaymentAnswerAssumed(m) == {{"SUCCESS"}}

\* A payment that is not there is an error and leaves no evidence.
PaymentAnswer(m) == IF m.paid THEN {{"SUCCESS"}} ELSE {}

EventAnswer(m) == {{IF m.event THEN "FOUND" ELSE "MISSING"}}

InventoryAnswer(m) ==
    {{IF m.dirty THEN "DIRTY" ELSE IF m.deducted THEN "DEDUCTED" ELSE "NOT_DEDUCTED"}}

\* The inventory service's logs; a keyword leaves some of them out.
LogsAnswer(m) == {Heard(OfInventory(m.log))}

\* Of these and of traces, those without a signal are passed over: they
\* support nothing and contradict nothing.
MatchingLogsAnswer(m) == {Heard(part) : part \in SUBSET OfInventory(m.log)} \ {{}}

\* All services' signals.
TraceAnswer(m) == {Heard(m.log)} \ {{}}

\* What each tool may answer at a moment.
Answers(tool, m) ==
    CASE tool = "payment" -> PaymentAnswer(m)
      [] tool = "outbox" -> OutboxAnswer(m)
      [] tool = "event" -> EventAnswer(m)
      [] tool = "inventory" -> InventoryAnswer(m)
      [] tool = "logs" -> LogsAnswer(m)
      [] tool = "matching_logs" -> MatchingLogsAnswer(m)
      [] tool = "trace" -> TraceAnswer(m)

-----------------------------------------------------------------------------

\* Some reading of the tool has the word.
Says(cited, tool, word) == \E r \in cited : r.tool = tool /\ word \in r.saw

\* Log and trace readings add up over all cited ones.
Consumer(cited, word) ==
    \E tool \in {"logs", "matching_logs", "trace"} : Says(cited, tool, word)

Dirty(cited) == Says(cited, "inventory", "DIRTY")

\* evidenceRequiresInconclusive
Conflicting(readings) ==
    \/ Dirty(readings)
    \/ Consumer(readings, "success") /\ Consumer(readings, "failure")

\* What each root cause requires of the cited evidence: readings, words of the
\* consumer, and words the consumer must not have said.
Shown ==
    [cause \in Causes \ {"NO_CONFIRMED_ROOT_CAUSE"} |->
        CASE cause = "NO_ISSUE" ->
                {<<"payment", "SUCCESS">>, <<"outbox", "PUBLISHED">>, <<"inventory", "DEDUCTED">>}
          [] cause = "PAYMENT_EVENT_NOT_CREATED" -> {<<"payment", "SUCCESS">>, <<"outbox", "ABSENT">>}
          [] cause = "PAYMENT_EVENT_NOT_PUBLISHED" ->
                {<<"payment", "SUCCESS">>, <<"outbox", "PENDING">>}
          [] cause = "EVENT_NOT_AVAILABLE_AFTER_PUBLISH" ->
                {<<"outbox", "PUBLISHED">>, <<"event", "MISSING">>}
          [] cause = "INVENTORY_EVENT_NOT_CONSUMED" ->
                {<<"event", "FOUND">>, <<"inventory", "NOT_DEDUCTED">>}
          [] cause \in {"INVENTORY_DEDUCTION_FAILED", "INVENTORY_DEDUCTION_NOT_PERSISTED"} ->
                {<<"inventory", "NOT_DEDUCTED">>}
          [] cause = "INVENTORY_CONSUMER_UNAVAILABLE" ->
                {<<"outbox", "PUBLISHED">>, <<"inventory", "NOT_DEDUCTED">>}]

WordsHeard ==
    [cause \in DOMAIN Shown |->
        CASE cause \in {"INVENTORY_DEDUCTION_FAILED", "INVENTORY_CONSUMER_UNAVAILABLE"} ->
                {"failure"}
          [] cause = "INVENTORY_DEDUCTION_NOT_PERSISTED" -> {"success"}
          [] OTHER -> {}]

\* Mutated form of WordsExcluded: a consumer that has failed has not consumed.
WordsExcludedOnSuccess ==
    [cause \in DOMAIN Shown |->
        CASE cause \in {"NO_ISSUE", "INVENTORY_DEDUCTION_NOT_PERSISTED"} -> {"failure"}
          [] cause = "INVENTORY_EVENT_NOT_CONSUMED" -> {"success"}
          [] OTHER -> {}]

WordsExcluded ==
    [cause \in DOMAIN Shown |->
        CASE cause \in {"NO_ISSUE", "INVENTORY_DEDUCTION_NOT_PERSISTED"} -> {"failure"}
          [] cause = "INVENTORY_EVENT_NOT_CONSUMED" -> {"received", "success", "failure"}
          [] OTHER -> {}]

Requires(cause, cited) ==
    /\ cause \in DOMAIN Shown
    /\ \A pair \in Shown[cause] : Says(cited, pair[1], pair[2])
    /\ \A word \in WordsHeard[cause] : Consumer(cited, word)
    /\ \A word \in WordsExcluded[cause] : ~Consumer(cited, word)

\* ValidateDiagnosisRootCause
Supported(cause, cited) ==
    cited # {} /\ Requires(cause, cited) /\ ~Conflicting(cited)

\* Process completes a run with a diagnosis only if all of its evidence is
\* free of conflicts and the cited evidence supports it.
Confirmed(cause, cited, readings) == Supported(cause, cited) /\ ~Conflicting(readings)

-----------------------------------------------------------------------------

\* What the root causes say of the order: their meaning in RootCauseCatalog, and
\* that what it names as an exclusion is not the case.  An event that is not
\* published has not reached the consumer.
HasHappened(cause, m) ==
    LET logged(word) == \E s \in OfInventory(m.log) : word \in s.says
    IN \/ /\ cause = "NO_ISSUE"
          /\ m.paid /\ m.outbox = "PUBLISHED" /\ m.deducted /\ ~logged("failure")
       \/ /\ cause = "PAYMENT_EVENT_NOT_PUBLISHED"
          /\ m.paid /\ m.outbox = "PENDING" /\ (~m.event \/ OfInventory(m.log) = {})
       \/ cause = "PAYMENT_EVENT_NOT_CREATED" /\ m.paid /\ m.outbox = "ABSENT"
       \/ cause = "EVENT_NOT_AVAILABLE_AFTER_PUBLISH" /\ m.outbox = "PUBLISHED" /\ ~m.event
       \/ /\ cause = "INVENTORY_EVENT_NOT_CONSUMED"
          /\ m.event /\ ~m.deducted /\ ~logged("success") /\ ~logged("failure")
       \/ /\ cause = "INVENTORY_DEDUCTION_FAILED"
          /\ ~m.deducted /\ logged("failure") /\ ~logged("success")
       \/ cause = "INVENTORY_DEDUCTION_NOT_PERSISTED" /\ ~m.deducted /\ logged("success")
       \/ /\ cause = "INVENTORY_CONSUMER_UNAVAILABLE"
          /\ m.outbox = "PUBLISHED" /\ ~m.deducted /\ logged("failure")

\* An evidence row.  of is history: the order as it was read.  at numbers the
\* moments of readings.
Reading == [tool : Tools, saw : SUBSET Words, at : 1 .. MaxReads, of : Moment]

LastAt == Max({0} \cup {r.at : r \in evidence})

\* A tool call succeeds and its answer is saved.
Read(tool) ==
    /\ \E saw \in Answers(tool, Now) :
          LET reading == [tool |-> tool, saw |-> saw, of |-> Now,
                          at |-> IF changed THEN LastAt + 1 ELSE LastAt]
          IN reading \notin evidence /\ evidence' = evidence \cup {reading}
    /\ changed' = FALSE
    /\ UNCHANGED <<injected, fault, paid, outbox, event, delivery, deducted, log, retry>>

Init == evidence = {} /\ OrderInit

\* The order is in a state of its services, the evidence within its bound.
TypeOK ==
    /\ OrderTypeOK
    /\ evidence \subseteq Reading
    /\ Cardinality(evidence) <= MaxReads

Next ==
    \/ OrderNext /\ UNCHANGED evidence
    \/ Cardinality(evidence) < MaxReads /\ \E tool \in Tools : Read(tool)

\* The publisher's ticker, the consumer's loop, and a request that is served.
Fairness ==
    /\ WF_vars((Publish \/ Mark) /\ UNCHANGED evidence)
    /\ WF_vars((\/ ConsumeFindsSwitch \/ ConsumeFails \/ ConsumeConflicts \/ ConsumeSucceeds
                 \/ Acknowledge) /\ UNCHANGED evidence)
    /\ WF_vars(RetryClears /\ UNCHANGED evidence)

Spec == Init /\ [][Next]_vars /\ Fairness

-----------------------------------------------------------------------------

\* Words that an order on its way outlives.
Fleeting == {"ABSENT", "PENDING", "MISSING", "NOT_DEDUCTED"}

\* The tool still says so at the last moment evidence is cited of.
Stands(cited, tool, word) ==
    \E r \in cited :
        /\ r.tool = tool /\ word \in r.saw
        /\ \A later \in cited : later.at >= r.at => r.saw \in Answers(tool, later.of)

\* Nothing the root cause rests on was overtaken while evidence was collected.
Current(cause, cited) ==
    \A pair \in Shown[cause] : pair[2] \in Fleeting => Stands(cited, pair[1], pair[2])

\* The inventory service's logs are cited as a whole and have not grown since.
LogsAreCited(cited) ==
    \E r \in cited :
        /\ r.tool = "logs"
        /\ \A later \in cited : later.at >= r.at => r.saw \in Answers("logs", later.of)

\* What the catalogue asks for and the validation does not: that the event did
\* not reach the consumer, that the consumer did not fail, that it did neither
\* fail nor succeed, that it did not succeed.
ExclusionRuledOut(cause, cited) ==
    CASE cause = "PAYMENT_EVENT_NOT_PUBLISHED" ->
            \/ Stands(cited, "event", "MISSING")
            \/ LogsAreCited(cited) /\ ~Consumer(cited, "received")
      [] cause \in {"NO_ISSUE", "INVENTORY_EVENT_NOT_CONSUMED", "INVENTORY_DEDUCTION_FAILED"} ->
            LogsAreCited(cited)
      [] OTHER -> TRUE

WasTrue(cause, cited) == \E r \in cited : HasHappened(cause, r.of)

\* However the readings interleave with the order, a root cause that passes was
\* true at the moment of one of the cited readings, unless the order overtook a
\* reading it rests on while others were made, or the evidence leaves one of
\* its exclusions open (ValidateDiagnosisRootCause, RootCauseCatalog).
CauseWasTrue ==
    \A cited \in SUBSET evidence : \A cause \in DOMAIN Shown :
        Supported(cause, cited) /\ Current(cause, cited) /\ ExclusionRuledOut(cause, cited)
            => WasTrue(cause, cited)

\* RootCauseCatalog: PAYMENT_EVENT_NOT_CREATED says the order was paid without an
\* outbox event, and "cannot be chosen when an Outbox record exists", and the
\* others accordingly: a root cause that passes was true at some cited reading.
AcceptedCauseWasTrue ==
    \A cited \in SUBSET evidence : \A cause \in DOMAIN Shown :
        Supported(cause, cited) => WasTrue(cause, cited)

\* Nothing but the operator will change the order any more: the services have
\* nothing left to do (no guard of ServicesNext holds).
Settled ==
    /\ paid
    /\ outbox = "PENDING" => fault \in PublishFaults /\ ~event
    /\ delivery \notin {"handled", "failing"} /\ retry # "clearing"
    /\ event /\ delivery = "waiting" =>
          /\ fault \in ReplayFaults \cup {"EVIDENCE_CONFLICT"}
          /\ fault = "INVENTORY_CONSUMER_FAILED" => FailureLogged \in log
          /\ fault = "INVENTORY_DEDUCTION_NOT_PERSISTED" => DeductionLogged \in log
    /\ event /\ delivery \in {"waiting", "conflicting"} =>
          (fault = "EVIDENCE_CONFLICT" => FailureLogged \in log)

\* Readings of the tools, asked now.
AllRead(tools) ==
    UNION {{[tool |-> tool, saw |-> saw, at |-> 1, of |-> Now] : saw \in Answers(tool, Now)} :
              tool \in tools}

\* The root causes that can be confirmed of them.
ConfirmedBy(tools) ==
    LET readings == AllRead(tools) IN {cause \in Causes : Confirmed(cause, readings, readings)}

\* The root causes each fault is to be told by.  A retry leaves the failures
\* it made good in the logs, where they contradict its success.  Of a success
\* in the logs that the stock does not show, RootCauseCatalog says that it was not
\* persisted, scripts/demo_incidents.sh:85 that no cause is confirmed.
ToldBy ==
    CASE injected = "OUTBOX_NOT_CREATED" -> {"PAYMENT_EVENT_NOT_CREATED"}
      [] injected \in PublishFaults -> {"PAYMENT_EVENT_NOT_PUBLISHED"}
      [] injected \in {"EVIDENCE_CONFLICT", "TOOL_TIMEOUT_OR_DIRTY_DATA"} -> {}
      [] injected = "INVENTORY_EVENT_NOT_CONSUMED" /\ ~deducted ->
            {"INVENTORY_EVENT_NOT_CONSUMED"}
      [] injected = "INVENTORY_CONSUMER_FAILED" /\ ~deducted ->
            {"INVENTORY_DEDUCTION_FAILED", "INVENTORY_CONSUMER_UNAVAILABLE"}
      [] injected = "INVENTORY_DEDUCTION_NOT_PERSISTED" /\ ~deducted ->
            {"INVENTORY_DEDUCTION_NOT_PERSISTED"}
      [] OTHER -> IF FailureLogged \in log THEN {} ELSE {"NO_ISSUE"}

StatusTools == {"payment", "outbox", "event", "inventory", "logs"}

\* The trace holds every service's signals: with one of the inventory service
\* among them, a failure any service logged counts as the consumer's, and the
\* success of the payment contradicts it.
TraceConfuses == "failure" \in Heard(log)

\* Of an order at rest the status tools and the logs together confirm exactly
\* the root causes of its fault: faults are told apart, and none is taken for no
\* issue.  With the trace as well, the same, or nothing at all if the consumer
\* or another service failed and the consumer said anything (observe,
\* ValidateDiagnosisRootCause and the demo faults).
FaultIsDiagnosed ==
    Settled =>
        /\ ConfirmedBy(StatusTools) = ToldBy
        /\ ConfirmedBy(StatusTools \cup {"trace"}) = IF TraceConfuses THEN {} ELSE ToldBy

\* A replayed event's delivery, which failed as long as the switch was on, is
\* acknowledged in the end, unless its fault is the one RetryEvent does not
\* clear (RetryEvent, consume).
RetrySettlesDelivery ==
    (retry = "done" /\ event /\ injected # "EVIDENCE_CONFLICT") ~> (delivery = "acked")
=============================================================================
