--------------------------- MODULE DiagnosisProofs ---------------------------
(***************************************************************************)
(* What ValidateDiagnosisRootCause accepts was true of the order, for any  *)
(* number of readings, faults and replays.                                 *)
(*                                                                         *)
(* Readings are told apart by the moments they were made at.  The order    *)
(* only goes forward, so what an earlier reading said of a payment, a      *)
(* published event, a deduction or a log still holds at a later moment.    *)
(* And what each fault leaves behind once it has taken its course.         *)
(***************************************************************************)
EXTENDS EvidenceDiagnosis, FiniteSetTheorems, TLAPS

\* Nothing happens to an order that was not paid, a payment leaves a success
\* signal, and a deduction one of the inventory service.
Consistent(m) ==
    /\ m.outbox # "ABSENT" \/ m.event \/ m.deducted \/ m.log # {} => m.paid
    /\ m.paid => \E s \in m.log : "success" \in s.says
    /\ m.deducted => OfInventory(m.log) # {}
    /\ \A s \in OfInventory(m.log) : s.says # {}

\* What is not taken back between m and n.
Onward(m, n) ==
    /\ m.paid => n.paid
    /\ m.outbox = "PUBLISHED" => n.outbox = "PUBLISHED"
    /\ m.event => n.event
    /\ m.deducted => n.deducted
    /\ OfInventory(m.log) \subseteq OfInventory(n.log)

\* The readings were made at n moments, and each answers truly of its own;
\* nothing has changed since the last of them unless changed says so.
History(n) ==
    /\ n <= Cardinality(evidence)
    /\ n # 0 => \E r \in evidence : r.at = n
    /\ ~changed => n # 0
    /\ \A r \in evidence :
          /\ r.at \in 1 .. n
          /\ r.saw \in Answers(r.tool, r.of)
          /\ Consistent(r.of) /\ Onward(r.of, Now)
          /\ ~changed /\ r.at = n => r.of = Now
    /\ \A r, s \in evidence : r.at <= s.at => Onward(r.of, s.of)

\* Of any readings one is the last.
LastIsAmong(readings) ==
    \A some \in SUBSET readings :
        some # {} => \E l \in some : \A r \in some : r.at <= l.at

EvidenceInv ==
    /\ TypeOK
    /\ IsFiniteSet(evidence)
    /\ Consistent(Now)
    /\ LastIsAmong(evidence)
    /\ \E n \in Nat : History(n)

-----------------------------------------------------------------------------
(* The order                                                               *)

\* The fields of a moment that is now, and its type.
LEMMA NowFields ==
    /\ Now.paid = paid /\ Now.outbox = outbox /\ Now.event = event
    /\ Now.deducted = deducted /\ Now.log = log
    /\ Now.dirty = (fault = "TOOL_TIMEOUT_OR_DIRTY_DATA")
    /\ OrderTypeOK => Now \in Moment
BY DEF Now, OrderTypeOK, Moment

\* Moments go onward over others.
LEMMA OnwardTransitive ==
    ASSUME NEW l, NEW m, NEW n, Onward(l, m), Onward(m, n)
    PROVE  Onward(l, n)
BY DEF Onward

LEMMA OnwardReflexive == \A m : Onward(m, m)
BY DEF Onward

\* The consumer's signals are the inventory service's.
LEMMA InventorySignals ==
    /\ DeductionLogged \in Signal /\ DeductionLogged.service = "inventory"
    /\ DeductionLogged.says = {"success"}
    /\ FailureLogged \in Signal /\ FailureLogged.service = "inventory"
    /\ FailureLogged.says = {"failure"}
BY DEF DeductionLogged, FailureLogged, Logged, Signal

\* A step that adds a signal of the inventory service, or none, to the log and
\* takes nothing back keeps the order consistent.
LEMMA LogGrows ==
    ASSUME Consistent(Now), NEW s,
           s \in {DeductionLogged, FailureLogged}, log' \in {log, log \cup {s}},
           paid, paid' = paid, deducted' => deducted \/ log' = log \cup {s},
           event => event', deducted => deducted',
           outbox = "PUBLISHED" => outbox' = "PUBLISHED"
    PROVE  Consistent(Now)' /\ Onward(Now, Now')
<1>1. /\ Now'.paid = paid' /\ Now'.outbox = outbox' /\ Now'.event = event'
      /\ Now'.deducted = deducted' /\ Now'.log = log'
  BY DEF Now
<1>2. s.service = "inventory" /\ s.says # {}
  BY InventorySignals
<1>3. OfInventory(log) \subseteq OfInventory(log')
  BY DEF OfInventory
<1>4. \A t \in OfInventory(log') : t \in OfInventory(log) \/ t = s
  BY DEF OfInventory
<1>5. s \in log' => s \in OfInventory(log')
  BY <1>2 DEF OfInventory
<1>6. /\ \E t \in log' : "success" \in t.says
      /\ deducted' => OfInventory(log') # {}
      /\ \A t \in OfInventory(log') : t.says # {}
  BY <1>2, <1>3, <1>4, <1>5, NowFields DEF Consistent
<1> QED
  BY <1>1, <1>3, <1>6, NowFields DEF Consistent, Onward

\* Every step of the order keeps it consistent and goes onward, and a step a
\* tool could tell sets changed.
LEMMA OrderStep ==
    ASSUME OrderTypeOK, Consistent(Now), OrderNext
    PROVE  /\ OrderTypeOK'
           /\ Consistent(Now)'
           /\ Onward(Now, Now')
           /\ ~changed' => ~changed /\ Now' = Now
<1>1. CASE Pay
  <2>1. /\ outbox = "ABSENT" /\ ~event /\ ~deducted /\ log = {}
        /\ paid' /\ event' = event /\ deducted' = deducted /\ changed' = TRUE
    BY <1>1, NowFields DEF Consistent, Pay, Shows
  <2>2. /\ \A s \in log' : s \in Signal /\ s.service = "payment"
        /\ \E s \in log' : "success" \in s.says
        /\ outbox' \in {"ABSENT", "PENDING", "PUBLISHED"}
    <3>1. \A says \in SUBSET {"success", "failure"} :
             /\ Logged("payment", says) \in Signal
             /\ Logged("payment", says).service = "payment"
             /\ Logged("payment", says).says = says
      BY DEF Logged, Signal
    <3> DEFINE first == IF fault = "OUTBOX_NOT_CREATED" THEN {"success", "failure"}
                        ELSE {"success"}
    <3>2. first \in SUBSET {"success", "failure"} /\ "success" \in first
      OBVIOUS
    <3>3. log' = {Logged("payment", first)}
                    \cup {Logged("payment", {"failure"}) : f \in {fault} \cap PublishFaults}
      BY <1>1 DEF Pay
    <3>4. outbox' \in {"ABSENT", "PENDING", "PUBLISHED"}
      BY <1>1 DEF Pay
    <3> HIDE DEF first
    <3>5. {"failure"} \in SUBSET {"success", "failure"}
      OBVIOUS
    <3>6. \A s \in log' : s = Logged("payment", first) \/ s = Logged("payment", {"failure"})
      BY <3>3
    <3>7. Logged("payment", first) \in log'
      BY <3>3
    <3> QED
      BY <3>1, <3>2, <3>4, <3>5, <3>6, <3>7
  <2>3. OfInventory(log') = {}
    BY <2>2 DEF OfInventory
  <2>4. OrderTypeOK'
    BY <1>1, <2>1, <2>2 DEF OrderTypeOK, Pay
  <2>5. /\ Now'.paid = paid' /\ Now'.outbox = outbox' /\ Now'.event = event'
        /\ Now'.deducted = deducted' /\ Now'.log = log'
    BY DEF Now
  <2>6. OfInventory(log) = {}
    BY <2>1 DEF OfInventory
  <2> QED
    BY <2>1, <2>2, <2>3, <2>4, <2>5, <2>6, NowFields DEF Consistent, Onward
<1>2. CASE RetryEvent \/ ConsumeSucceeds
  <2>1. /\ paid /\ paid' = paid /\ Deduct /\ outbox' = outbox /\ event' = event
        /\ injected' = injected /\ fault' = fault
    BY <1>2, NowFields DEF RetryEvent, ConsumeSucceeds, Consistent
  <2>2. /\ deducted' /\ log' \in {log, log \cup {DeductionLogged}}
        /\ deducted' => deducted \/ log' = log \cup {DeductionLogged}
        /\ changed' \in BOOLEAN
        /\ ~changed' => ~changed /\ deducted /\ log' = log
    BY <2>1 DEF Deduct, OrderTypeOK
  <2>3. Consistent(Now)' /\ Onward(Now, Now')
    BY <2>1, <2>2, LogGrows
  <2>4. log' \subseteq Signal
    BY <2>2, InventorySignals DEF OrderTypeOK
  <2>5. OrderTypeOK'
    BY <1>2, <2>1, <2>2, <2>4 DEF OrderTypeOK, RetryEvent, ConsumeSucceeds, Deduct
  <2>6. ~changed' => ~changed /\ Now' = Now
    BY <2>1, <2>2 DEF Now, OrderTypeOK, Deduct
  <2> QED
    BY <2>3, <2>5, <2>6
<1>3. CASE Acknowledge \/ RetryClears \/ ConsumeFindsSwitch
  <2>1. /\ Now' = Now /\ changed' = changed
    <3>1. /\ paid' = paid /\ outbox' = outbox /\ event' = event
          /\ deducted' = deducted /\ log' = log /\ changed' = changed
      BY <1>3 DEF Acknowledge, RetryClears, ConsumeFindsSwitch
    <3>2. (fault' = "TOOL_TIMEOUT_OR_DIRTY_DATA") = (fault = "TOOL_TIMEOUT_OR_DIRTY_DATA")
      BY <1>3, FaultAssumption
      DEF Acknowledge, RetryClears, ConsumeFindsSwitch, Faults, ReplayFaults
    <3> QED
      BY <3>1, <3>2 DEF Now
  <2>2. OrderTypeOK'
    BY <1>3 DEF OrderTypeOK, Acknowledge, RetryClears, ConsumeFindsSwitch
  <2>3. Consistent(Now)'
    BY <2>1 DEF Consistent
  <2> QED
    BY <2>1, <2>2, <2>3, OnwardReflexive
<1>4. CASE Publish \/ Mark
  <2>1. /\ paid /\ paid' = paid /\ deducted' = deducted /\ changed' = TRUE
        /\ event => event'
        /\ outbox = "PUBLISHED" => outbox' = "PUBLISHED"
        /\ OfInventory(log') = OfInventory(log)
        /\ log \subseteq log'
        /\ OrderTypeOK'
    <3>1. /\ Logged("payment", {"success"}).service = "payment"
          /\ Logged("payment", {"success"}) \in Signal
      BY DEF Logged, Signal
    <3>2. log' = log \/ log' = log \cup {Logged("payment", {"success"})}
      BY <1>4 DEF Publish, Mark
    <3>3. /\ log \subseteq log' /\ OfInventory(log') = OfInventory(log)
          /\ log \subseteq Signal => log' \subseteq Signal
      BY <3>1, <3>2 DEF OfInventory
    <3>4. paid
      BY <1>4, NowFields DEF Publish, Mark, Consistent
    <3>5. OrderTypeOK'
      BY <1>4, <3>3 DEF OrderTypeOK, Publish, Mark, Shows
    <3>6. /\ paid' = paid /\ deducted' = deducted /\ changed' = TRUE
          /\ event => event'
          /\ outbox = "PUBLISHED" => outbox' = "PUBLISHED"
      BY <1>4 DEF Publish, Mark, Shows
    <3> QED
      BY <3>3, <3>4, <3>5, <3>6
  <2>2. /\ Now'.paid = paid' /\ Now'.outbox = outbox' /\ Now'.event = event'
        /\ Now'.deducted = deducted' /\ Now'.log = log'
    BY DEF Now
  <2> QED
    BY <2>1, <2>2, NowFields DEF Consistent, Onward
<1>5. CASE ConsumeFails \/ ConsumeConflicts
  <2>1. PICK s \in {DeductionLogged, FailureLogged} : log' \in {log, log \cup {s}}
    BY <1>5 DEF ConsumeFails, ConsumeConflicts, Pretended
  <2>2. /\ paid /\ paid' = paid /\ deducted' = deducted /\ event' = event /\ outbox' = outbox
        /\ changed' = TRUE
    BY <1>5, NowFields DEF ConsumeFails, ConsumeConflicts, Consistent, Shows
  <2>3. Consistent(Now)' /\ Onward(Now, Now')
    BY <2>1, <2>2, LogGrows
  <2>4. log' \subseteq Signal
    BY <2>1, InventorySignals DEF OrderTypeOK
  <2>5. OrderTypeOK'
    BY <1>5, <2>2, <2>4 DEF OrderTypeOK, ConsumeFails, ConsumeConflicts
  <2> QED
    BY <2>2, <2>3, <2>5
<1> QED
  BY <1>1, <1>2, <1>3, <1>4, <1>5 DEF OrderNext, ServicesNext

-----------------------------------------------------------------------------
(* The readings                                                            *)

\* A tool answers in the words of its kind.
LEMMA AnswersInWords ==
    ASSUME NEW m \in Moment, NEW tool \in Tools, NEW saw \in Answers(tool, m)
    PROVE  saw \subseteq Words
<1>1. \A part \in SUBSET m.log : Heard(part) \subseteq Words
  <2> SUFFICES ASSUME NEW part \in SUBSET m.log PROVE Heard(part) \subseteq Words
    OBVIOUS
  <2>1. \A s \in part : s.says \subseteq {"success", "failure"}
    BY DEF Moment, Signal
  <2>2. UNION {s.says : s \in part} \subseteq {"success", "failure"}
    BY <2>1
  <2> QED
    BY <2>2 DEF Heard, Words
<1>2. OfInventory(m.log) \subseteq m.log
  BY DEF OfInventory
<1>3. CASE tool = "payment"
  BY <1>3 DEF Answers, PaymentAnswer, Words
<1>4. CASE tool = "outbox"
  BY <1>4 DEF Answers, OutboxAnswer, Words, Moment
<1>5. CASE tool = "event"
  BY <1>5 DEF Answers, EventAnswer, Words
<1>6. CASE tool = "inventory"
  BY <1>6 DEF Answers, InventoryAnswer, Words
<1>7. CASE tool = "logs"
  BY <1>1, <1>2, <1>7 DEF Answers, LogsAnswer
<1>8. CASE tool = "matching_logs"
  BY <1>1, <1>2, <1>8 DEF Answers, MatchingLogsAnswer
<1>9. CASE tool = "trace"
  BY <1>1, <1>9 DEF Answers, TraceAnswer
<1> QED
  BY <1>3, <1>4, <1>5, <1>6, <1>7, <1>8, <1>9 DEF Tools

\* LastAt is the last of the moments.
LEMMA LastMoment ==
    ASSUME NEW n \in Nat, History(n)
    PROVE  LastAt = n
<1> DEFINE ranks == {0} \cup {r.at : r \in evidence}
<1>1. n \in ranks /\ \A i \in ranks : i \in Nat /\ n >= i
  <2>1. \A r \in evidence : r.at \in 1 .. n
    BY DEF History
  <2>2. n # 0 => \E r \in evidence : r.at = n
    BY DEF History
  <2> QED
    BY <2>1, <2>2
<1> HIDE DEF ranks
<1>2. \A i \in ranks : (\A j \in ranks : i >= j) => i = n
  BY <1>1
<1>3. Max(ranks) = n
  BY <1>1, <1>2 DEF Max
<1> QED
  BY <1>3 DEF LastAt, ranks

\* Initially nothing has been read of an order nothing has happened to.
LEMMA EvidenceInvInit == Init => EvidenceInv
<1> SUFFICES ASSUME Init PROVE EvidenceInv
  OBVIOUS
<1>1. IsFiniteSet(evidence) /\ Cardinality(evidence) = 0 /\ evidence = {}
  BY FS_EmptySet DEF Init
<1>2. OrderTypeOK
  BY DEF Init, OrderInit, OrderTypeOK
<1>3. TypeOK
  BY <1>1, <1>2, ReadsAssumption DEF TypeOK
<1>4. Consistent(Now)
  BY NowFields DEF Init, OrderInit, Consistent, OfInventory
<1>5. History(0)
  BY <1>1 DEF Init, OrderInit, History
<1>6. LastIsAmong(evidence)
  BY <1>1 DEF LastIsAmong
<1>7. 0 \in Nat
  OBVIOUS
<1> QED
  BY <1>1, <1>3, <1>4, <1>5, <1>6, <1>7 DEF EvidenceInv

\* While the order goes on, what was read of it stays.
LEMMA OrderKeepsHistory ==
    ASSUME EvidenceInv, OrderNext, UNCHANGED evidence
    PROVE  EvidenceInv'
<1>1. /\ OrderTypeOK'
      /\ Consistent(Now)'
      /\ Onward(Now, Now')
      /\ ~changed' => ~changed /\ Now' = Now
  BY OrderStep DEF EvidenceInv, TypeOK
<1>2. PICK n \in Nat : History(n)
  BY DEF EvidenceInv
<1>3. \A r \in evidence : Onward(r.of, Now')
  BY <1>1, <1>2, OnwardTransitive DEF History
<1>4. History(n)'
  BY <1>1, <1>2, <1>3 DEF History
<1>5. TypeOK' /\ LastIsAmong(evidence)'
  BY <1>1 DEF EvidenceInv, TypeOK, LastIsAmong
<1> QED
  BY <1>1, <1>4, <1>5 DEF EvidenceInv

\* A reading is made now: at a moment of its own, or at the last one if nothing
\* a tool could tell has changed since.
LEMMA ReadKeepsHistory ==
    ASSUME EvidenceInv, Cardinality(evidence) < MaxReads, NEW tool \in Tools, Read(tool)
    PROVE  EvidenceInv'
<1>1. PICK n \in Nat : History(n)
  BY DEF EvidenceInv
<1>2. PICK saw \in Answers(tool, Now) :
         LET reading == [tool |-> tool, saw |-> saw, of |-> Now,
                         at |-> IF changed THEN LastAt + 1 ELSE LastAt]
         IN reading \notin evidence /\ evidence' = evidence \cup {reading}
  BY DEF Read
<1>3. PICK k : k = IF changed THEN n + 1 ELSE n
  OBVIOUS
<1>4. PICK new : new = [tool |-> tool, saw |-> saw, of |-> Now, at |-> k]
  OBVIOUS
<1>5. /\ new \notin evidence /\ evidence' = evidence \cup {new}
      /\ new.tool = tool /\ new.saw = saw /\ new.of = Now /\ new.at = k
  BY <1>1, <1>2, <1>3, <1>4, LastMoment
<1>6. OrderTypeOK /\ OrderTypeOK' /\ changed \in BOOLEAN /\ changed' = FALSE
  BY DEF EvidenceInv, TypeOK, OrderTypeOK, Read
<1>7. Now' = Now /\ Now \in Moment /\ Consistent(Now)
  BY <1>6, NowFields DEF Read, Now, EvidenceInv
<1>8. /\ IsFiniteSet(evidence') /\ Cardinality(evidence') = Cardinality(evidence) + 1
      /\ Cardinality(evidence) \in Nat
  BY <1>5, FS_AddElement, FS_CardinalityType DEF EvidenceInv
<1>9. k \in Nat /\ k # 0 /\ k <= Cardinality(evidence') /\ n <= k
  BY <1>1, <1>3, <1>6, <1>8 DEF History
<1>10. \A r \in evidence : /\ r.at \in 1 .. n /\ r.at <= k
                           /\ r.at >= k => r.at = k /\ r.of = Now
  BY <1>1, <1>3, <1>6 DEF History
<1>11. History(k)'
  <2>1. \A r \in evidence' :
           /\ r.at \in 1 .. k
           /\ r.saw \in Answers(r.tool, r.of)
           /\ Consistent(r.of) /\ Onward(r.of, Now)
           /\ r.at = k => r.of = Now
    <3>1. new.at \in 1 .. k /\ Onward(new.of, Now)
      BY <1>5, <1>9, OnwardReflexive
    <3>2. \A r \in evidence : /\ r.saw \in Answers(r.tool, r.of)
                              /\ Consistent(r.of) /\ Onward(r.of, Now)
      BY <1>1 DEF History
    <3>3. \A r \in evidence : r.at \in 1 .. k /\ (r.at = k => r.of = Now)
      BY <1>9, <1>10
    <3> QED
      BY <1>2, <1>5, <1>7, <3>1, <3>2, <3>3
  <2>2. \A r, s \in evidence' : r.at <= s.at => Onward(r.of, s.of)
    <3> SUFFICES ASSUME NEW r \in evidence', NEW s \in evidence', r.at <= s.at
                 PROVE  Onward(r.of, s.of)
      OBVIOUS
    <3>1. CASE s \in evidence /\ r \in evidence
      BY <1>1, <3>1 DEF History
    <3>2. CASE s = new
      BY <1>5, <2>1, <3>2
    <3>3. CASE s \in evidence /\ r = new
      <4>1. s.of = Now
        BY <1>5, <1>10, <3>3
      <4> QED
        BY <1>5, <3>3, <4>1, OnwardReflexive
    <3> QED
      BY <1>5, <3>1, <3>2, <3>3
  <2>3. \E r \in evidence' : r.at = k
    BY <1>5
  <2> QED
    BY <1>6, <1>7, <1>9, <2>1, <2>2, <2>3 DEF History
<1>12. LastIsAmong(evidence')
  <2> SUFFICES ASSUME NEW some \in SUBSET evidence', some # {}
               PROVE  \E l \in some : \A r \in some : r.at <= l.at
    BY DEF LastIsAmong
  <2>1. CASE new \in some
    <3>1. \A r \in some : r.at <= new.at
      BY <1>5, <1>9, <1>10
    <3> QED
      BY <2>1, <3>1
  <2>2. CASE new \notin some
    <3>1. some \in SUBSET evidence
      BY <1>5, <2>2
    <3> QED
      BY <3>1 DEF EvidenceInv, LastIsAmong
  <2> QED
    BY <2>1, <2>2
<1>13. TypeOK'
  <2>1. /\ Cardinality(evidence') <= MaxReads
        /\ k \in 1 .. MaxReads
    BY <1>8, <1>9, ReadsAssumption
  <2>2. saw \subseteq Words
    BY <1>2, <1>7, AnswersInWords
  <2>3. new \in Reading
    BY <1>4, <1>7, <2>1, <2>2 DEF Reading
  <2> QED
    BY <1>5, <1>6, <2>1, <2>3 DEF TypeOK, EvidenceInv
<1>14. Consistent(Now)' /\ LastIsAmong(evidence)'
  BY <1>7, <1>12 DEF Consistent, LastIsAmong
<1> QED
  BY <1>8, <1>9, <1>11, <1>13, <1>14 DEF EvidenceInv

\* Every step keeps what is known of the readings.
LEMMA EvidenceInvStep == EvidenceInv /\ [Next]_vars => EvidenceInv'
<1> SUFFICES ASSUME EvidenceInv, [Next]_vars PROVE EvidenceInv'
  OBVIOUS
<1>1. CASE Next
  BY <1>1, OrderKeepsHistory, ReadKeepsHistory DEF Next
<1>2. CASE UNCHANGED vars
  <2>1. Now' = Now
    BY <1>2 DEF Now, vars, orderVars
  <2>2. TypeOK' /\ LastIsAmong(evidence)'
    BY <1>2 DEF EvidenceInv, TypeOK, OrderTypeOK, LastIsAmong, vars, orderVars
  <2>3. \A n : History(n) => History(n)'
    BY <1>2, <2>1 DEF History, vars, orderVars
  <2>4. Consistent(Now)' /\ evidence' = evidence
    BY <1>2, <2>1 DEF Consistent, EvidenceInv, vars
  <2> QED
    BY <2>2, <2>3, <2>4 DEF EvidenceInv
<1> QED
  BY <1>1, <1>2

\* The investigation keeps it.
LEMMA EvidenceInvAlways == Spec => []EvidenceInv
BY EvidenceInvInit, EvidenceInvStep, PTL DEF Spec

\* However the readings interleave with the order, its state and the evidence
\* rows are well typed, and the evidence stays within its bound.
THEOREM EvidenceTypeCorrect == Spec => []TypeOK
<1>1. EvidenceInv => TypeOK
  BY DEF EvidenceInv
<1> QED
  BY <1>1, EvidenceInvAlways, PTL

-----------------------------------------------------------------------------
(* The root causes                                                         *)

\* What the words of the logs and of a trace say of the inventory service's
\* signals.  A payment's signals are in a trace too, and one of them always
\* says success: a failure is therefore never told by a trace alone.
LEMMA HeardWords ==
    ASSUME NEW m \in Moment, Consistent(m)
    PROVE  /\ \A part \in SUBSET OfInventory(m.log) : \A word \in {"success", "failure"} :
                 word \in Heard(part) => \E s \in OfInventory(m.log) : word \in s.says
           /\ "failure" \in Heard(m.log) => "success" \in Heard(m.log)
           /\ "success" \in Heard(m.log) /\ "failure" \notin Heard(m.log) =>
                 \E s \in OfInventory(m.log) : "success" \in s.says
<1>1. /\ OfInventory(m.log) \subseteq m.log
      /\ \A s \in m.log : s.says \subseteq {"success", "failure"}
  BY DEF OfInventory, Moment, Signal
<1>3. \A signals, word : word \in {"success", "failure"} =>
         (word \in Heard(signals) <=> OfInventory(signals) # {} /\ \E s \in signals : word \in s.says)
  BY DEF Heard
<1>4. \A part \in SUBSET OfInventory(m.log) : \A word \in {"success", "failure"} :
         word \in Heard(part) => \E s \in OfInventory(m.log) : word \in s.says
  BY <1>3
<1>5. "failure" \in Heard(m.log) => "success" \in Heard(m.log)
  <2>1. OfInventory(m.log) # {} => \E s \in m.log : "success" \in s.says
    BY <1>1 DEF Consistent
  <2> QED
    BY <1>3, <2>1
<1>6. ASSUME "success" \in Heard(m.log), "failure" \notin Heard(m.log)
      PROVE  \E s \in OfInventory(m.log) : "success" \in s.says
  <2>1. PICK s \in OfInventory(m.log) : s.says # {}
    BY <1>3, <1>6 DEF Consistent
  <2>2. "failure" \notin s.says
    BY <1>1, <1>3, <1>6, <2>1
  <2> QED
    BY <1>1, <2>1, <2>2
<1> QED
  BY <1>4, <1>5, <1>6

\* What a tool's answer says of the moment it was given at.
LEMMA AnswerTells ==
    ASSUME NEW m \in Moment, NEW saw
    PROVE  /\ saw \in Answers("payment", m) => m.paid
           /\ saw \in Answers("outbox", m) => saw = {m.outbox}
           /\ saw \in Answers("event", m) => /\ "FOUND" \in saw => m.event
                                             /\ "MISSING" \in saw => ~m.event
           /\ saw \in Answers("inventory", m) => /\ "DEDUCTED" \in saw => m.deducted
                                                 /\ "NOT_DEDUCTED" \in saw => ~m.deducted
           /\ saw \in Answers("logs", m) => saw = Heard(OfInventory(m.log))
           /\ saw \in Answers("matching_logs", m) =>
                 \E part \in SUBSET OfInventory(m.log) : saw = Heard(part)
           /\ saw \in Answers("trace", m) => saw = Heard(m.log)
<1>1. saw \in Answers("payment", m) => m.paid
  BY DEF Answers, PaymentAnswer
<1>2. saw \in Answers("outbox", m) => saw = {m.outbox}
  BY DEF Answers, OutboxAnswer
<1>3. saw \in Answers("event", m) => /\ "FOUND" \in saw => m.event
                                     /\ "MISSING" \in saw => ~m.event
  BY DEF Answers, EventAnswer
<1>4. saw \in Answers("inventory", m) => /\ "DEDUCTED" \in saw => m.deducted
                                         /\ "NOT_DEDUCTED" \in saw => ~m.deducted
  BY DEF Answers, InventoryAnswer
<1>5. saw \in Answers("logs", m) => saw = Heard(OfInventory(m.log))
  BY DEF Answers, LogsAnswer
<1>6. saw \in Answers("matching_logs", m) =>
         \E part \in SUBSET OfInventory(m.log) : saw = Heard(part)
  BY DEF Answers, MatchingLogsAnswer
<1>7. saw \in Answers("trace", m) => saw = Heard(m.log)
  BY DEF Answers, TraceAnswer
<1> QED
  BY <1>1, <1>2, <1>3, <1>4, <1>5, <1>6, <1>7

\* What the consumer is heard to say, without a conflict, a signal of the
\* inventory service said at the moment of one of the readings.
LEMMA ConsumerSaid ==
    ASSUME EvidenceInv, NEW cited \in SUBSET evidence, ~Conflicting(cited),
           NEW word \in {"success", "failure"}, Consumer(cited, word)
    PROVE  \E o \in cited : \E s \in OfInventory(o.of.log) : word \in s.says
<1>1. PICK o \in cited : o.tool \in {"logs", "matching_logs", "trace"} /\ word \in o.saw
  BY DEF Consumer, Says
<1>2. o.of \in Moment /\ Consistent(o.of) /\ o.saw \in Answers(o.tool, o.of)
  BY <1>1 DEF EvidenceInv, TypeOK, Reading, History
<1>3. CASE o.tool \in {"logs", "matching_logs"}
  <2>1. \E part \in SUBSET OfInventory(o.of.log) : o.saw = Heard(part)
    BY <1>2, <1>3, AnswerTells
  <2> QED
    BY <1>1, <1>2, <2>1, HeardWords
<1>4. CASE o.tool = "trace"
  <2>1. o.saw = Heard(o.of.log)
    BY <1>2, <1>4, AnswerTells
  <2>2. ~("success" \in o.saw /\ "failure" \in o.saw)
    BY <1>4 DEF Conflicting, Consumer, Says
  <2>3. word = "success" /\ "failure" \notin o.saw
    BY <1>1, <1>2, <2>1, <2>2, HeardWords
  <2> QED
    BY <1>1, <1>2, <2>1, <2>3, HeardWords
<1> QED
  BY <1>1, <1>3, <1>4

\* What each root cause requires of the cited readings.
LEMMA Requirements ==
    ASSUME NEW cause \in DOMAIN Shown, NEW cited, Requires(cause, cited)
    PROVE  /\ cause = "NO_ISSUE" =>
                 /\ Says(cited, "payment", "SUCCESS") /\ Says(cited, "outbox", "PUBLISHED")
                 /\ Says(cited, "inventory", "DEDUCTED")
           /\ cause = "PAYMENT_EVENT_NOT_CREATED" =>
                 Says(cited, "payment", "SUCCESS") /\ Says(cited, "outbox", "ABSENT")
           /\ cause = "PAYMENT_EVENT_NOT_PUBLISHED" =>
                 Says(cited, "payment", "SUCCESS") /\ Says(cited, "outbox", "PENDING")
           /\ cause = "EVENT_NOT_AVAILABLE_AFTER_PUBLISH" =>
                 Says(cited, "outbox", "PUBLISHED") /\ Says(cited, "event", "MISSING")
           /\ cause = "INVENTORY_EVENT_NOT_CONSUMED" =>
                 /\ Says(cited, "event", "FOUND")
                 /\ ~Consumer(cited, "success") /\ ~Consumer(cited, "failure")
           /\ cause = "INVENTORY_DEDUCTION_FAILED" => Consumer(cited, "failure")
           /\ cause = "INVENTORY_DEDUCTION_NOT_PERSISTED" => Consumer(cited, "success")
           /\ cause = "INVENTORY_CONSUMER_UNAVAILABLE" =>
                 Says(cited, "outbox", "PUBLISHED") /\ Consumer(cited, "failure")
           /\ cause = "NO_ISSUE" => ~Consumer(cited, "failure")
<1>1. /\ \A pair \in Shown[cause] : Says(cited, pair[1], pair[2])
      /\ \A word \in WordsHeard[cause] : Consumer(cited, word)
      /\ \A word \in WordsExcluded[cause] : ~Consumer(cited, word)
  BY DEF Requires
<1>2. \A tool, word : <<tool, word>> \in Shown[cause] => Says(cited, tool, word)
  BY <1>1
<1>3. CASE cause = "NO_ISSUE"
  BY <1>1, <1>2, <1>3 DEF Shown, WordsExcluded
<1>4. CASE cause = "PAYMENT_EVENT_NOT_CREATED"
  BY <1>2, <1>4 DEF Shown
<1>5. CASE cause = "PAYMENT_EVENT_NOT_PUBLISHED"
  BY <1>2, <1>5 DEF Shown
<1>6. CASE cause = "EVENT_NOT_AVAILABLE_AFTER_PUBLISH"
  BY <1>2, <1>6 DEF Shown
<1>7. CASE cause = "INVENTORY_EVENT_NOT_CONSUMED"
  BY <1>1, <1>2, <1>7 DEF Shown, WordsExcluded
<1>8. CASE cause = "INVENTORY_DEDUCTION_FAILED"
  BY <1>1, <1>8 DEF WordsHeard
<1>9. CASE cause = "INVENTORY_DEDUCTION_NOT_PERSISTED"
  BY <1>1, <1>9 DEF WordsHeard
<1>10. CASE cause = "INVENTORY_CONSUMER_UNAVAILABLE"
  BY <1>1, <1>2, <1>10 DEF Shown, WordsHeard
<1> QED
  BY <1>3, <1>4, <1>5, <1>6, <1>7, <1>8, <1>9, <1>10

\* What still stands is what the tool would say at the last cited moment.
LEMMA StandingWords ==
    ASSUME NEW cited, NEW l \in cited, l.of \in Moment, \A r \in cited : r.at <= l.at
    PROVE  /\ Stands(cited, "outbox", "ABSENT") => l.of.outbox = "ABSENT"
           /\ Stands(cited, "outbox", "PENDING") => l.of.outbox = "PENDING"
           /\ Stands(cited, "event", "MISSING") => ~l.of.event
           /\ Stands(cited, "inventory", "NOT_DEDUCTED") => ~l.of.deducted
<1>1. \A tool, word : Stands(cited, tool, word) =>
         \E saw : word \in saw /\ saw \in Answers(tool, l.of)
  <2> SUFFICES ASSUME NEW tool, NEW word, Stands(cited, tool, word)
               PROVE  \E saw : word \in saw /\ saw \in Answers(tool, l.of)
    OBVIOUS
  <2>1. PICK r \in cited :
           /\ word \in r.saw
           /\ \A later \in cited : later.at >= r.at => r.saw \in Answers(tool, later.of)
    BY DEF Stands
  <2>2. l.at >= r.at
    OBVIOUS
  <2> QED
    BY <2>1, <2>2
<1> QED
  BY <1>1, AnswerTells

\* What a current root cause rests on.
LEMMA CurrentStands ==
    ASSUME NEW cause \in DOMAIN Shown, NEW cited, Current(cause, cited)
    PROVE  /\ cause = "PAYMENT_EVENT_NOT_CREATED" => Stands(cited, "outbox", "ABSENT")
           /\ cause = "PAYMENT_EVENT_NOT_PUBLISHED" => Stands(cited, "outbox", "PENDING")
           /\ cause = "EVENT_NOT_AVAILABLE_AFTER_PUBLISH" => Stands(cited, "event", "MISSING")
           /\ cause \in {"INVENTORY_EVENT_NOT_CONSUMED", "INVENTORY_DEDUCTION_FAILED",
                         "INVENTORY_DEDUCTION_NOT_PERSISTED", "INVENTORY_CONSUMER_UNAVAILABLE"} =>
                 Stands(cited, "inventory", "NOT_DEDUCTED")
<1>1. \A tool : \A word \in Fleeting : <<tool, word>> \in Shown[cause] => Stands(cited, tool, word)
  BY DEF Current
<1>2. cause = "PAYMENT_EVENT_NOT_CREATED" => Stands(cited, "outbox", "ABSENT")
  BY <1>1 DEF Shown, Fleeting
<1>3. cause = "PAYMENT_EVENT_NOT_PUBLISHED" => Stands(cited, "outbox", "PENDING")
  BY <1>1 DEF Shown, Fleeting
<1>4. cause = "EVENT_NOT_AVAILABLE_AFTER_PUBLISH" => Stands(cited, "event", "MISSING")
  BY <1>1 DEF Shown, Fleeting
<1>5. ASSUME cause \in {"INVENTORY_EVENT_NOT_CONSUMED", "INVENTORY_DEDUCTION_FAILED",
                        "INVENTORY_DEDUCTION_NOT_PERSISTED", "INVENTORY_CONSUMER_UNAVAILABLE"}
      PROVE  Stands(cited, "inventory", "NOT_DEDUCTED")
  <2>1. <<"inventory", "NOT_DEDUCTED">> \in Shown[cause]
    BY <1>5 DEF Shown
  <2>2. "NOT_DEDUCTED" \in Fleeting
    BY DEF Fleeting
  <2> QED
    BY <1>1, <2>1, <2>2
<1> QED
  BY <1>2, <1>3, <1>4, <1>5

\* A supported root cause that is current, and whose exclusions the evidence
\* rules out, was true of the order when the last of the cited readings was made.
LEMMA SupportedWasTrue ==
    ASSUME EvidenceInv, NEW cited \in SUBSET evidence, NEW cause \in DOMAIN Shown,
           Supported(cause, cited), Current(cause, cited), ExclusionRuledOut(cause, cited)
    PROVE  WasTrue(cause, cited)
<1>1. PICK l \in cited : \A r \in cited : r.at <= l.at
  BY DEF Supported, EvidenceInv, LastIsAmong
<1>2. PICK m \in Moment : m = l.of
  BY <1>1 DEF EvidenceInv, TypeOK, Reading
<1>3. \A o \in cited :
         /\ o.of \in Moment
         /\ o.saw \in Answers(o.tool, o.of)
         /\ Onward(o.of, m)
  BY <1>1, <1>2 DEF EvidenceInv, TypeOK, Reading, History
<1>4. SUFFICES HasHappened(cause, m)
  BY <1>1, <1>2 DEF WasTrue
<1>5. /\ Says(cited, "payment", "SUCCESS") => m.paid
      /\ Says(cited, "outbox", "PUBLISHED") => m.outbox = "PUBLISHED"
      /\ Says(cited, "event", "FOUND") => m.event
      /\ Says(cited, "inventory", "DEDUCTED") => m.deducted
  <2>1. Says(cited, "payment", "SUCCESS") => m.paid
    BY <1>3, AnswerTells DEF Says, Onward
  <2>2. Says(cited, "outbox", "PUBLISHED") => m.outbox = "PUBLISHED"
    BY <1>3, AnswerTells DEF Says, Onward
  <2>3. Says(cited, "event", "FOUND") => m.event
    BY <1>3, AnswerTells DEF Says, Onward
  <2>4. Says(cited, "inventory", "DEDUCTED") => m.deducted
    BY <1>3, AnswerTells DEF Says, Onward
  <2> QED
    BY <2>1, <2>2, <2>3, <2>4
<1>6. ~Conflicting(cited) /\ Requires(cause, cited)
  BY DEF Supported
<1>7. \A word \in {"success", "failure"} :
         Consumer(cited, word) => \E s \in OfInventory(m.log) : word \in s.says
  <2> SUFFICES ASSUME NEW word \in {"success", "failure"}, Consumer(cited, word)
               PROVE  \E s \in OfInventory(m.log) : word \in s.says
    OBVIOUS
  <2>1. PICK o \in cited : \E s \in OfInventory(o.of.log) : word \in s.says
    BY <1>6, ConsumerSaid
  <2> QED
    BY <1>3, <2>1 DEF Onward
<1>8. ~(Consumer(cited, "success") /\ Consumer(cited, "failure"))
  BY <1>6 DEF Conflicting
<1>9. \A word \in {"success", "failure"} :
         LogsAreCited(cited) /\ ~Consumer(cited, word) =>
            \A s \in OfInventory(m.log) : word \notin s.says
  <2> SUFFICES ASSUME NEW word \in {"success", "failure"}, LogsAreCited(cited),
                      NEW s \in OfInventory(m.log), word \in s.says
               PROVE  Consumer(cited, word)
    OBVIOUS
  <2>1. PICK r \in cited : r.tool = "logs" /\ r.saw \in Answers("logs", m)
    BY <1>1, <1>2 DEF LogsAreCited
  <2>2. r.saw = Heard(OfInventory(m.log))
    BY <2>1, AnswerTells
  <2>3. s \in OfInventory(OfInventory(m.log))
    BY DEF OfInventory
  <2>4. word \in r.saw
    BY <2>2, <2>3 DEF Heard
  <2> QED
    BY <2>1, <2>4 DEF Consumer, Says
<1>10. /\ Stands(cited, "outbox", "ABSENT") => m.outbox = "ABSENT"
       /\ Stands(cited, "outbox", "PENDING") => m.outbox = "PENDING"
       /\ Stands(cited, "event", "MISSING") => ~m.event
       /\ Stands(cited, "inventory", "NOT_DEDUCTED") => ~m.deducted
  BY <1>1, <1>2, StandingWords
<1>11. CASE cause = "NO_ISSUE"
  <2>1. \A s \in OfInventory(m.log) : "failure" \notin s.says
    BY <1>6, <1>9, <1>11, Requirements DEF ExclusionRuledOut
  <2> QED
    BY <1>5, <1>6, <1>11, <2>1, Requirements DEF HasHappened
<1>12. CASE cause = "PAYMENT_EVENT_NOT_CREATED"
  BY <1>5, <1>6, <1>10, <1>12, CurrentStands, Requirements DEF HasHappened
<1>13. CASE cause = "PAYMENT_EVENT_NOT_PUBLISHED"
  <2>1. CASE Stands(cited, "event", "MISSING")
    BY <1>5, <1>6, <1>10, <1>13, <2>1, CurrentStands, Requirements DEF HasHappened
  <2>2. ASSUME LogsAreCited(cited), ~Consumer(cited, "received")
        PROVE  OfInventory(m.log) = {}
    <3>1. PICK r \in cited : r.tool = "logs" /\ r.saw \in Answers("logs", m)
      BY <1>1, <1>2, <2>2 DEF LogsAreCited
    <3>2. "received" \notin Heard(OfInventory(m.log))
      BY <2>2, <3>1, AnswerTells DEF Consumer, Says
    <3>3. OfInventory(OfInventory(m.log)) = OfInventory(m.log)
      BY DEF OfInventory
    <3> QED
      BY <3>2, <3>3 DEF Heard
  <2> QED
    BY <1>5, <1>6, <1>10, <1>13, <2>1, <2>2, CurrentStands, Requirements
    DEF HasHappened, ExclusionRuledOut
<1>14. CASE cause = "EVENT_NOT_AVAILABLE_AFTER_PUBLISH"
  BY <1>5, <1>6, <1>10, <1>14, CurrentStands, Requirements DEF HasHappened
<1>15. CASE cause = "INVENTORY_EVENT_NOT_CONSUMED"
  <2>1. \A s \in OfInventory(m.log) : "success" \notin s.says /\ "failure" \notin s.says
    BY <1>6, <1>9, <1>15, Requirements DEF ExclusionRuledOut
  <2> QED
    BY <1>5, <1>6, <1>10, <1>15, <2>1, CurrentStands, Requirements DEF HasHappened
<1>16. CASE cause = "INVENTORY_DEDUCTION_FAILED"
  <2>1. Consumer(cited, "failure")
    BY <1>6, <1>16, Requirements
  <2>2. \A s \in OfInventory(m.log) : "success" \notin s.says
    BY <1>8, <1>9, <1>16, <2>1 DEF ExclusionRuledOut
  <2> QED
    BY <1>7, <1>10, <1>16, <2>1, <2>2, CurrentStands DEF HasHappened
<1>17. CASE cause = "INVENTORY_DEDUCTION_NOT_PERSISTED"
  BY <1>6, <1>7, <1>10, <1>17, CurrentStands, Requirements DEF HasHappened
<1>18. CASE cause = "INVENTORY_CONSUMER_UNAVAILABLE"
  BY <1>5, <1>6, <1>7, <1>10, <1>18, CurrentStands, Requirements DEF HasHappened
<1> QED
  BY <1>11, <1>12, <1>13, <1>14, <1>15, <1>16, <1>17, <1>18 DEF Shown, Causes

\* However many tools are read, in whatever order and however the order goes on
\* meanwhile, with any fault and any replay, a root cause that passes was true
\* as the catalogue states it at the moment of one of the cited readings, unless
\* the order overtook a reading it rests on or the evidence leaves one of its
\* exclusions open (ValidateDiagnosisRootCause, RootCauseCatalog).
THEOREM CauseAlwaysWasTrue == Spec => []CauseWasTrue
<1>1. EvidenceInv => CauseWasTrue
  BY SupportedWasTrue DEF CauseWasTrue
<1> QED
  BY <1>1, EvidenceInvAlways, PTL

-----------------------------------------------------------------------------
(* The faults                                                              *)

\* How far each fault lets the order come, and what the consumer logs on the way.
Course ==
    /\ outbox # "ABSENT" <=> paid /\ injected # "OUTBOX_NOT_CREATED"
    /\ event => outbox # "ABSENT" /\ injected \notin PublishFaults
    /\ deducted => outbox # "ABSENT"
    /\ outbox = "PUBLISHED" => event
    /\ fault = IF retry = "done" /\ injected \in ReplayFaults THEN None ELSE injected
    /\ delivery # "waiting" => event
    /\ delivery = "failing" =>
          injected \in {"INVENTORY_CONSUMER_FAILED", "INVENTORY_DEDUCTION_NOT_PERSISTED"}
    /\ delivery = "conflicting" => injected = "EVIDENCE_CONFLICT" /\ DeductionLogged \in log
    /\ injected = "EVIDENCE_CONFLICT" => delivery \in {"waiting", "conflicting"}
    /\ deducted <=> retry # "none" \/ delivery \in {"handled", "acked"}

ConsumerLog ==
    /\ OfInventory(log) \subseteq {DeductionLogged, FailureLogged}
    /\ deducted => DeductionLogged \in log
    /\ DeductionLogged \in log =>
          deducted \/ injected \in {"INVENTORY_DEDUCTION_NOT_PERSISTED", "EVIDENCE_CONFLICT"}
    /\ FailureLogged \in log =>
          \/ injected = "INVENTORY_CONSUMER_FAILED"
          \/ injected = "EVIDENCE_CONFLICT" /\ DeductionLogged \in log

CourseInv == OrderTypeOK /\ Consistent(Now) /\ Course /\ ConsumerLog

LEMMA CourseInit == Init => CourseInv
<1> SUFFICES ASSUME Init PROVE CourseInv
  OBVIOUS
<1>1. OrderTypeOK /\ Consistent(Now)
  BY EvidenceInvInit DEF EvidenceInv, TypeOK
<1>2. Course
  BY DEF Init, OrderInit, Course, PublishFaults
<1>3. ConsumerLog
  BY DEF Init, OrderInit, ConsumerLog, OfInventory
<1> QED
  BY <1>1, <1>2, <1>3 DEF CourseInv

\* What a step writes into the log of what the consumer writes there.
LEMMA LogsOfConsumer ==
    /\ \A s, t : OfInventory(s \cup t) = OfInventory(s) \cup OfInventory(t)
    /\ OfInventory({DeductionLogged}) = {DeductionLogged}
    /\ OfInventory({FailureLogged}) = {FailureLogged}
    /\ DeductionLogged # FailureLogged
    /\ \A says : /\ OfInventory({Logged("payment", says)}) = {}
                 /\ Logged("payment", says) # DeductionLogged
                 /\ Logged("payment", says) # FailureLogged
<1>1. \A says : Logged("payment", says).service = "payment"
  BY DEF Logged
<1>2. {"success"} # {"failure"}
  OBVIOUS
<1> QED
  BY <1>1, <1>2, InventorySignals DEF OfInventory

\* Paying is the first thing that happens to an order.
LEMMA PayKeepsCourse ==
    ASSUME CourseInv, Pay
    PROVE  Course' /\ ConsumerLog'
<1>1. /\ outbox = "ABSENT" /\ ~event /\ ~deducted /\ log = {}
      /\ paid' /\ event' = event /\ deducted' = deducted
      /\ retry' = retry /\ delivery' = delivery /\ fault' = fault /\ injected' = injected
  BY NowFields DEF CourseInv, Consistent, Pay
<1>2. retry = "none" /\ delivery = "waiting" /\ fault = injected
  BY <1>1 DEF CourseInv, Course, OrderTypeOK
<1>3. outbox' = IF injected = "OUTBOX_NOT_CREATED" THEN "ABSENT" ELSE "PENDING"
  BY <1>2 DEF Pay
<1>4. Course'
  BY <1>1, <1>2, <1>3 DEF Course
<1>5. \A s \in log' : \E says : s = Logged("payment", says)
  BY DEF Pay
<1>6. /\ OfInventory(log') = {}
      /\ DeductionLogged \notin log' /\ FailureLogged \notin log'
  BY <1>5, LogsOfConsumer DEF OfInventory, Logged
<1>7. ConsumerLog'
  BY <1>1, <1>6 DEF ConsumerLog
<1> QED
  BY <1>4, <1>7

\* Publisher and acknowledgement log nothing of the consumer.
LEMMA PublisherKeepsCourse ==
    ASSUME CourseInv, Publish \/ Mark \/ Acknowledge \/ RetryClears
    PROVE  Course' /\ ConsumerLog'
<1>1. /\ OfInventory(log') = OfInventory(log)
      /\ DeductionLogged \in log' <=> DeductionLogged \in log
      /\ FailureLogged \in log' <=> FailureLogged \in log
  <2>1. log' \in {log, log \cup {Logged("payment", {"success"})}}
    BY DEF Publish, Mark, Acknowledge, RetryClears
  <2> QED
    BY <2>1, LogsOfConsumer
<1>2. injected' = injected /\ deducted' = deducted
  BY DEF Publish, Mark, Acknowledge, RetryClears
<1>3. ConsumerLog'
  BY <1>1, <1>2 DEF CourseInv, ConsumerLog
<1>4. CASE Publish
  BY <1>3, <1>4 DEF CourseInv, Course, OrderTypeOK, Publish, PublishFaults, ReplayFaults
<1>5. CASE Mark
  BY <1>1, <1>3, <1>5 DEF CourseInv, Course, OrderTypeOK, Mark
<1>6. CASE Acknowledge
  BY <1>3, <1>6 DEF CourseInv, Course, OrderTypeOK, Acknowledge
<1>7. CASE RetryClears
  BY <1>3, <1>7 DEF CourseInv, Course, OrderTypeOK, RetryClears
<1> QED
  BY <1>3, <1>4, <1>5, <1>6, <1>7 DEF Course

\* The consumer logs a failure of its fault, and a success once it deducts.
LEMMA ConsumerKeepsCourse ==
    ASSUME CourseInv,
           \/ ConsumeFindsSwitch \/ ConsumeFails \/ ConsumeConflicts
           \/ ConsumeSucceeds \/ RetryEvent
    PROVE  Course' /\ ConsumerLog'
<1>0. /\ injected' = injected /\ fault' = fault /\ paid' = paid /\ outbox' = outbox
      /\ event' = event /\ log \subseteq log'
  BY DEF ConsumeFindsSwitch, ConsumeFails, ConsumeConflicts, ConsumeSucceeds, RetryEvent, Deduct
<1>1. CASE ConsumeFindsSwitch \/ ConsumeFails
  <2>1. /\ deducted' = deducted /\ retry' = retry /\ event
        /\ delivery \in {"waiting", "failing"} /\ delivery' \in {"waiting", "failing"}
    BY <1>1 DEF CourseInv, Course, ConsumeFindsSwitch, ConsumeFails
  <2>2. injected \in {"INVENTORY_CONSUMER_FAILED", "INVENTORY_DEDUCTION_NOT_PERSISTED"}
    <3>1. CASE ConsumeFindsSwitch
      <4>1. fault \in {"INVENTORY_CONSUMER_FAILED", "INVENTORY_DEDUCTION_NOT_PERSISTED"}
        BY <3>1 DEF ConsumeFindsSwitch, Pretended
      <4>2. fault # None /\ fault \in {injected, None}
        BY <4>1, FaultAssumption DEF Faults, ReplayFaults, CourseInv, OrderTypeOK
      <4> QED
        BY <4>1, <4>2
    <3>2. CASE ConsumeFails
      BY <3>2 DEF ConsumeFails, CourseInv, Course
    <3> QED
      BY <1>1, <3>1, <3>2
  <2>3. Course'
    BY <1>0, <2>1, <2>2 DEF CourseInv, Course
  <2>4. \/ log' = log
        \/ injected = "INVENTORY_CONSUMER_FAILED" /\ log' = log \cup {FailureLogged}
        \/ injected = "INVENTORY_DEDUCTION_NOT_PERSISTED" /\ log' = log \cup {DeductionLogged}
    BY <1>1, <2>2 DEF ConsumeFindsSwitch, ConsumeFails, Pretended
  <2>5. ConsumerLog'
    BY <1>0, <2>1, <2>4, LogsOfConsumer DEF CourseInv, ConsumerLog
  <2> QED
    BY <2>3, <2>5
<1>2. CASE ConsumeConflicts
  <2>1. /\ deducted' = deducted /\ retry' = retry /\ event
        /\ injected = "EVIDENCE_CONFLICT"
        /\ \/ delivery' = "conflicting" /\ log' = log \cup {DeductionLogged}
           \/ /\ delivery' = "waiting" /\ delivery = "conflicting"
              /\ log' = log \cup {FailureLogged}
    BY <1>2, FaultAssumption DEF ConsumeConflicts, CourseInv, Course, Faults
  <2>2. delivery \in {"waiting", "conflicting"}
    BY <2>1 DEF CourseInv, Course
  <2>3. Course'
    BY <1>0, <2>1, <2>2 DEF CourseInv, Course
  <2>4. ConsumerLog'
    BY <1>0, <2>1, LogsOfConsumer DEF CourseInv, Course, ConsumerLog
  <2> QED
    BY <2>3, <2>4
<1>3. CASE ConsumeSucceeds \/ RetryEvent
  <2>1. /\ deducted' /\ log' = IF deducted THEN log ELSE log \cup {DeductionLogged}
        /\ outbox # "ABSENT"
    BY <1>3 DEF ConsumeSucceeds, RetryEvent, Deduct, CourseInv, Course
  <2>2. ConsumerLog'
    BY <1>0, <2>1, LogsOfConsumer DEF CourseInv, ConsumerLog
  <2>3. CASE ConsumeSucceeds
    BY <1>0, <2>1, <2>2, <2>3, FaultAssumption
    DEF ConsumeSucceeds, CourseInv, Course, OrderTypeOK, ReplayFaults, Faults
  <2>4. CASE RetryEvent
    BY <1>0, <2>1, <2>2, <2>4 DEF RetryEvent, CourseInv, Course, OrderTypeOK
  <2> QED
    BY <1>3, <2>3, <2>4
<1> QED
  BY <1>1, <1>2, <1>3

LEMMA CourseAlways == Spec => []CourseInv
<1>1. CourseInv /\ [Next]_vars => CourseInv'
  <2> SUFFICES ASSUME CourseInv, [Next]_vars PROVE CourseInv'
    OBVIOUS
  <2>1. CASE OrderNext
    <3>1. OrderTypeOK' /\ Consistent(Now)'
      BY <2>1, OrderStep DEF CourseInv
    <3> QED
      BY <2>1, <3>1, PayKeepsCourse, PublisherKeepsCourse, ConsumerKeepsCourse
      DEF CourseInv, OrderNext, ServicesNext
  <2>2. CASE UNCHANGED <<injected, fault, paid, outbox, event, delivery, deducted, log, retry>>
             /\ changed' \in BOOLEAN
    BY <2>2 DEF CourseInv, OrderTypeOK, Consistent, Now, Course, ConsumerLog
  <2> QED
    BY <2>1, <2>2 DEF Next, Read, vars, orderVars, CourseInv, OrderTypeOK
<1> QED
  BY <1>1, CourseInit, PTL DEF Spec

\* Readings of the status tools and of the logs.
StatusRead == AllRead(StatusTools)

\* What one reading of each of some tools says.
LEMMA AllReadSays ==
    ASSUME NEW tools
    PROVE  \A tool, word : Says(AllRead(tools), tool, word) <=>
              tool \in tools /\ \E saw \in Answers(tool, Now) : word \in saw
<1> DEFINE answer(tool, saw) == [tool |-> tool, saw |-> saw, at |-> 1, of |-> Now]
<1>1. \A r : r \in AllRead(tools) <=>
         \E tool \in tools : \E saw \in Answers(tool, Now) : r = answer(tool, saw)
  BY DEF AllRead
<1>2. \A tool, saw : answer(tool, saw).tool = tool /\ answer(tool, saw).saw = saw
  OBVIOUS
<1> HIDE DEF answer
<1> QED
  BY <1>1, <1>2 DEF Says

\* What the status tools and the logs say.
LEMMA StatusReadSays ==
    ASSUME CourseInv, paid
    PROVE  /\ \A tool, word : tool \in {"matching_logs", "trace"} => ~Says(StatusRead, tool, word)
           /\ Says(StatusRead, "payment", "SUCCESS")
           /\ \A word : Says(StatusRead, "outbox", word) <=> word = outbox
           /\ \A word : Says(StatusRead, "event", word) <=>
                 word = IF event THEN "FOUND" ELSE "MISSING"
           /\ \A word : Says(StatusRead, "inventory", word) <=>
                 word = IF fault = "TOOL_TIMEOUT_OR_DIRTY_DATA" THEN "DIRTY"
                        ELSE IF deducted THEN "DEDUCTED" ELSE "NOT_DEDUCTED"
           /\ \A word : Says(StatusRead, "logs", word) <=> word \in Heard(OfInventory(log))
<1>3. \A tool, word : Says(StatusRead, tool, word) <=>
         tool \in StatusTools /\ \E saw \in Answers(tool, Now) : word \in saw
  BY AllReadSays DEF StatusRead
<1>4. /\ Answers("payment", Now) = {{"SUCCESS"}} /\ Answers("outbox", Now) = {{outbox}}
      /\ Answers("event", Now) = {{IF event THEN "FOUND" ELSE "MISSING"}}
      /\ Answers("inventory", Now) =
            {{IF fault = "TOOL_TIMEOUT_OR_DIRTY_DATA" THEN "DIRTY"
              ELSE IF deducted THEN "DEDUCTED" ELSE "NOT_DEDUCTED"}}
      /\ Answers("logs", Now) = {Heard(OfInventory(log))}
  BY NowFields DEF Answers, PaymentAnswer, OutboxAnswer, EventAnswer, InventoryAnswer, LogsAnswer
<1>5. \A tool \in {"matching_logs", "trace"} : tool \notin StatusTools
  BY DEF StatusTools
<1>6. \A tool \in {"payment", "outbox", "event", "inventory", "logs"} : \A saw :
         Answers(tool, Now) = {saw} => \A word : Says(StatusRead, tool, word) <=> word \in saw
  BY <1>3 DEF StatusTools
<1>7. \A tool, word : tool \in {"matching_logs", "trace"} => ~Says(StatusRead, tool, word)
  BY <1>3, <1>5
<1>8. Says(StatusRead, "payment", "SUCCESS")
  BY <1>4, <1>6
<1>9. \A word : Says(StatusRead, "outbox", word) <=> word = outbox
  BY <1>4, <1>6
<1>10. \A word : Says(StatusRead, "event", word) <=> word = IF event THEN "FOUND" ELSE "MISSING"
  <2>1. \A said : Answers("event", Now) = {{said}} =>
           \A word : Says(StatusRead, "event", word) <=> word = said
    BY <1>6
  <2> QED
    BY <1>4, <2>1
<1>11. \A word : Says(StatusRead, "inventory", word) <=>
          word = IF fault = "TOOL_TIMEOUT_OR_DIRTY_DATA" THEN "DIRTY"
                 ELSE IF deducted THEN "DEDUCTED" ELSE "NOT_DEDUCTED"
  BY <1>4, <1>6
<1>12. \A word : Says(StatusRead, "logs", word) <=> word \in Heard(OfInventory(log))
  BY <1>4, <1>6
<1> QED
  BY <1>7, <1>8, <1>9, <1>10, <1>11, <1>12

\* And what it makes the consumer say.
LEMMA StatusReadConsumer ==
    ASSUME CourseInv, paid
    PROVE  /\ Consumer(StatusRead, "success") <=> DeductionLogged \in log
           /\ Consumer(StatusRead, "failure") <=> FailureLogged \in log
           /\ Consumer(StatusRead, "received") <=> DeductionLogged \in log \/ FailureLogged \in log
<1>1. \A word : Consumer(StatusRead, word) <=> word \in Heard(OfInventory(log))
  <2> TAKE word
  <2>1. /\ ~Says(StatusRead, "matching_logs", word) /\ ~Says(StatusRead, "trace", word)
        /\ Says(StatusRead, "logs", word) <=> word \in Heard(OfInventory(log))
    BY StatusReadSays
  <2> QED
    BY <2>1 DEF Consumer
<1>2. \A s \in {DeductionLogged, FailureLogged} : s \in OfInventory(log) <=> s \in log
  BY InventorySignals DEF OfInventory
<1>3. OfInventory(log) \subseteq {DeductionLogged, FailureLogged}
  BY DEF CourseInv, ConsumerLog
<1>4. OfInventory(OfInventory(log)) = OfInventory(log)
  BY DEF OfInventory
<1>5. \A word : word \in Heard(OfInventory(log)) <=>
         /\ OfInventory(log) # {}
         /\ word = "received" \/ \E s \in OfInventory(log) : word \in s.says
  BY <1>4 DEF Heard
<1> QED
  BY <1>1, <1>2, <1>3, <1>5, InventorySignals

\* Which root causes such a reading confirms.
Evident(cause) ==
    LET succeeded == DeductionLogged \in log
        failed == FailureLogged \in log
    IN  /\ fault # "TOOL_TIMEOUT_OR_DIRTY_DATA" /\ ~(succeeded /\ failed)
        /\ \/ cause = "NO_ISSUE" /\ outbox = "PUBLISHED" /\ deducted /\ ~failed
           \/ cause = "PAYMENT_EVENT_NOT_CREATED" /\ outbox = "ABSENT"
           \/ cause = "PAYMENT_EVENT_NOT_PUBLISHED" /\ outbox = "PENDING"
           \/ cause = "EVENT_NOT_AVAILABLE_AFTER_PUBLISH" /\ outbox = "PUBLISHED" /\ ~event
           \/ cause = "INVENTORY_EVENT_NOT_CONSUMED" /\ event /\ ~deducted /\ ~succeeded /\ ~failed
           \/ cause = "INVENTORY_DEDUCTION_FAILED" /\ ~deducted /\ failed
           \/ cause = "INVENTORY_DEDUCTION_NOT_PERSISTED" /\ ~deducted /\ succeeded /\ ~failed
           \/ /\ cause = "INVENTORY_CONSUMER_UNAVAILABLE"
              /\ outbox = "PUBLISHED" /\ ~deducted /\ failed

LEMMA ConfirmedIsEvident ==
    ASSUME CourseInv, paid, NEW cause \in Causes
    PROVE  Confirmed(cause, StatusRead, StatusRead) <=> Evident(cause)
<1>0. deducted \in BOOLEAN /\ event \in BOOLEAN
  BY DEF CourseInv, OrderTypeOK
<1>1. StatusRead # {}
  <2>1. Says(StatusRead, "payment", "SUCCESS")
    BY StatusReadSays
  <2> QED
    BY <2>1 DEF Says
<1>2. Says(StatusRead, "inventory", "DIRTY") <=> fault = "TOOL_TIMEOUT_OR_DIRTY_DATA"
  BY <1>0, StatusReadSays
<1>3. Conflicting(StatusRead) <=> \/ fault = "TOOL_TIMEOUT_OR_DIRTY_DATA"
                                  \/ DeductionLogged \in log /\ FailureLogged \in log
  <2>1. /\ Consumer(StatusRead, "success") <=> DeductionLogged \in log
        /\ Consumer(StatusRead, "failure") <=> FailureLogged \in log
    BY StatusReadConsumer
  <2> QED
    BY <1>2, <2>1 DEF Conflicting, Dirty
<1>4. Confirmed(cause, StatusRead, StatusRead) <=>
         ~Conflicting(StatusRead) /\ Requires(cause, StatusRead)
  BY <1>1 DEF Confirmed, Supported
<1>5. ASSUME fault # "TOOL_TIMEOUT_OR_DIRTY_DATA",
             ~(DeductionLogged \in log /\ FailureLogged \in log)
      PROVE  Requires(cause, StatusRead) <=> Evident(cause)
  <2>1. /\ Says(StatusRead, "payment", "SUCCESS")
        /\ \A word : Says(StatusRead, "outbox", word) <=> outbox = word
        /\ Says(StatusRead, "event", "FOUND") <=> event
        /\ Says(StatusRead, "event", "MISSING") <=> ~event
        /\ Says(StatusRead, "inventory", "DEDUCTED") <=> deducted
        /\ Says(StatusRead, "inventory", "NOT_DEDUCTED") <=> ~deducted
    BY <1>0, <1>5, StatusReadSays
  <2>2. cause \in DOMAIN Shown => (Requires(cause, StatusRead) <=>
           /\ \A pair \in Shown[cause] : Says(StatusRead, pair[1], pair[2])
           /\ \A word \in WordsHeard[cause] : Consumer(StatusRead, word)
           /\ \A word \in WordsExcluded[cause] : ~Consumer(StatusRead, word))
    BY DEF Requires
  <2>3. CASE cause = "NO_ISSUE"
    <3>1. /\ cause \in DOMAIN Shown
          /\ Shown[cause] = {<<"payment", "SUCCESS">>, <<"outbox", "PUBLISHED">>,
                             <<"inventory", "DEDUCTED">>}
          /\ WordsHeard[cause] = {} /\ WordsExcluded[cause] = {"failure"}
      BY <2>3 DEF Shown, WordsHeard, WordsExcluded, Causes
    <3> QED
      BY <1>0, <1>5, <2>1, <2>2, <2>3, <3>1, StatusReadConsumer DEF Evident
  <2>4. CASE cause = "PAYMENT_EVENT_NOT_CREATED"
    <3>1. /\ cause \in DOMAIN Shown
          /\ Shown[cause] = {<<"payment", "SUCCESS">>, <<"outbox", "ABSENT">>}
          /\ WordsHeard[cause] = {} /\ WordsExcluded[cause] = {}
      BY <2>4 DEF Shown, WordsHeard, WordsExcluded, Causes
    <3> QED
      BY <1>0, <1>5, <2>1, <2>2, <2>4, <3>1, StatusReadConsumer DEF Evident
  <2>5. CASE cause = "PAYMENT_EVENT_NOT_PUBLISHED"
    <3>1. /\ cause \in DOMAIN Shown
          /\ Shown[cause] = {<<"payment", "SUCCESS">>, <<"outbox", "PENDING">>}
          /\ WordsHeard[cause] = {} /\ WordsExcluded[cause] = {}
      BY <2>5 DEF Shown, WordsHeard, WordsExcluded, Causes
    <3> QED
      BY <1>0, <1>5, <2>1, <2>2, <2>5, <3>1, StatusReadConsumer DEF Evident
  <2>6. CASE cause = "EVENT_NOT_AVAILABLE_AFTER_PUBLISH"
    <3>1. /\ cause \in DOMAIN Shown
          /\ Shown[cause] = {<<"outbox", "PUBLISHED">>, <<"event", "MISSING">>}
          /\ WordsHeard[cause] = {} /\ WordsExcluded[cause] = {}
      BY <2>6 DEF Shown, WordsHeard, WordsExcluded, Causes
    <3> QED
      BY <1>0, <1>5, <2>1, <2>2, <2>6, <3>1, StatusReadConsumer DEF Evident
  <2>7. CASE cause = "INVENTORY_EVENT_NOT_CONSUMED"
    <3>1. /\ cause \in DOMAIN Shown
          /\ Shown[cause] = {<<"event", "FOUND">>, <<"inventory", "NOT_DEDUCTED">>}
          /\ WordsHeard[cause] = {} /\ WordsExcluded[cause] = {"received", "success", "failure"}
      BY <2>7 DEF Shown, WordsHeard, WordsExcluded, Causes
    <3> QED
      BY <1>0, <1>5, <2>1, <2>2, <2>7, <3>1, StatusReadConsumer DEF Evident
  <2>8. CASE cause = "INVENTORY_DEDUCTION_FAILED"
    <3>1. /\ cause \in DOMAIN Shown
          /\ Shown[cause] = {<<"inventory", "NOT_DEDUCTED">>}
          /\ WordsHeard[cause] = {"failure"} /\ WordsExcluded[cause] = {}
      BY <2>8 DEF Shown, WordsHeard, WordsExcluded, Causes
    <3> QED
      BY <1>0, <1>5, <2>1, <2>2, <2>8, <3>1, StatusReadConsumer DEF Evident
  <2>9. CASE cause = "INVENTORY_DEDUCTION_NOT_PERSISTED"
    <3>1. /\ cause \in DOMAIN Shown
          /\ Shown[cause] = {<<"inventory", "NOT_DEDUCTED">>}
          /\ WordsHeard[cause] = {"success"} /\ WordsExcluded[cause] = {"failure"}
      BY <2>9 DEF Shown, WordsHeard, WordsExcluded, Causes
    <3> QED
      BY <1>0, <1>5, <2>1, <2>2, <2>9, <3>1, StatusReadConsumer DEF Evident
  <2>10. CASE cause = "INVENTORY_CONSUMER_UNAVAILABLE"
    <3>1. /\ cause \in DOMAIN Shown
          /\ Shown[cause] = {<<"outbox", "PUBLISHED">>, <<"inventory", "NOT_DEDUCTED">>}
          /\ WordsHeard[cause] = {"failure"} /\ WordsExcluded[cause] = {}
      BY <2>10 DEF Shown, WordsHeard, WordsExcluded, Causes
    <3> QED
      BY <1>0, <1>5, <2>1, <2>2, <2>10, <3>1, StatusReadConsumer DEF Evident
  <2>11. CASE cause = "NO_CONFIRMED_ROOT_CAUSE"
    BY <2>11 DEF Requires, Shown, Evident
  <2> QED
    BY <2>3, <2>4, <2>5, <2>6, <2>7, <2>8, <2>9, <2>10, <2>11 DEF Causes
<1> QED
  BY <1>3, <1>4, <1>5 DEF Evident

\* An order at rest has come as far as its fault lets it.
LEMMA RestOfCourse ==
    ASSUME CourseInv, Settled
    PROVE  /\ injected = "OUTBOX_NOT_CREATED" =>
                 /\ outbox = "ABSENT" /\ ~event /\ ~deducted
                 /\ DeductionLogged \notin log /\ FailureLogged \notin log
           /\ injected \in PublishFaults =>
                 /\ outbox = "PENDING" /\ ~event /\ FailureLogged \notin log
                 /\ DeductionLogged \in log => deducted
           /\ injected \notin PublishFaults \cup {"OUTBOX_NOT_CREATED"} =>
                 outbox = "PUBLISHED" /\ event
           /\ injected = "EVIDENCE_CONFLICT" => DeductionLogged \in log /\ FailureLogged \in log
           /\ injected = "INVENTORY_EVENT_NOT_CONSUMED" /\ ~deducted =>
                 DeductionLogged \notin log /\ FailureLogged \notin log
           /\ injected = "INVENTORY_CONSUMER_FAILED" /\ ~deducted =>
                 DeductionLogged \notin log /\ FailureLogged \in log
           /\ injected = "INVENTORY_DEDUCTION_NOT_PERSISTED" /\ ~deducted =>
                 DeductionLogged \in log /\ FailureLogged \notin log
           /\ injected = None => deducted /\ FailureLogged \notin log
<1>1. /\ injected \in Faults \cup {None} /\ None \notin Faults
      /\ outbox \in {"ABSENT", "PENDING", "PUBLISHED"}
      /\ delivery \in {"waiting", "failing", "conflicting", "handled", "acked"}
      /\ retry \in {"none", "clearing", "done"}
      /\ deducted \in BOOLEAN /\ event \in BOOLEAN
  BY FaultAssumption DEF CourseInv, OrderTypeOK
<1>2. injected \notin ReplayFaults => fault = injected
  BY DEF CourseInv, Course
<1>3. ~deducted => fault = injected /\ delivery \in {"waiting", "conflicting"}
  BY <1>1 DEF CourseInv, Course, Settled
<1>4. injected \notin PublishFaults \cup {"OUTBOX_NOT_CREATED"} => outbox = "PUBLISHED" /\ event
  <2>1. fault \notin PublishFaults \/ fault = injected
    BY <1>1, <1>2 DEF CourseInv, Course, Faults, PublishFaults
  <2> QED
    BY <1>1, <2>1 DEF CourseInv, Course, Settled
<1>5. injected \in PublishFaults => outbox = "PENDING" /\ ~event
  BY <1>1 DEF CourseInv, Course, PublishFaults, Settled
<1>6. injected = "OUTBOX_NOT_CREATED" => outbox = "ABSENT" /\ ~event
  BY <1>1 DEF CourseInv, Course
<1>7. injected = "OUTBOX_NOT_CREATED" => ~deducted
  BY <1>1, <1>6 DEF CourseInv, Course
<1>8. /\ deducted => DeductionLogged \in log
      /\ DeductionLogged \in log =>
            deducted \/ injected \in {"INVENTORY_DEDUCTION_NOT_PERSISTED", "EVIDENCE_CONFLICT"}
      /\ FailureLogged \in log =>
            \/ injected = "INVENTORY_CONSUMER_FAILED"
            \/ injected = "EVIDENCE_CONFLICT" /\ DeductionLogged \in log
  BY DEF CourseInv, ConsumerLog
<1>9. injected = "EVIDENCE_CONFLICT" => DeductionLogged \in log /\ FailureLogged \in log
  BY <1>2, <1>4, <1>8 DEF CourseInv, Course, Settled, ReplayFaults, PublishFaults
<1>10. ~deducted /\ event => delivery = "waiting" \/ fault = "EVIDENCE_CONFLICT"
  BY <1>3 DEF CourseInv, Course
<1>11. /\ injected = "INVENTORY_CONSUMER_FAILED" /\ ~deducted => FailureLogged \in log
       /\ injected = "INVENTORY_DEDUCTION_NOT_PERSISTED" /\ ~deducted => DeductionLogged \in log
       /\ injected = None => deducted
  BY <1>1, <1>3, <1>4, <1>10 DEF Settled, PublishFaults, ReplayFaults, Faults
<1> QED
  BY <1>1, <1>4, <1>5, <1>6, <1>7, <1>8, <1>9, <1>11 DEF PublishFaults, ReplayFaults, Faults

\* The trace adds nothing to what the consumer says, but for a failure.
LEMMA TraceSays ==
    ASSUME CourseInv, paid
    PROVE  LET traced == AllRead(StatusTools \cup {"trace"})
           IN /\ \A word : Consumer(traced, word) <=> word \in Heard(log)
              /\ \A word : \A tool \in {"payment", "outbox", "event", "inventory"} :
                    Says(traced, tool, word) <=> Says(StatusRead, tool, word)
<1> DEFINE traced == AllRead(StatusTools \cup {"trace"})
<1>1. \A tool, word : Says(traced, tool, word) <=>
         tool \in StatusTools \cup {"trace"} /\ \E saw \in Answers(tool, Now) : word \in saw
  BY AllReadSays
<1>2. \A tool, word : Says(StatusRead, tool, word) <=>
         tool \in StatusTools /\ \E saw \in Answers(tool, Now) : word \in saw
  BY AllReadSays DEF StatusRead
<1> HIDE DEF traced
<1>3. \A word : \A tool \in {"payment", "outbox", "event", "inventory"} :
         Says(traced, tool, word) <=> Says(StatusRead, tool, word)
  BY <1>1, <1>2
<1>4. \A word : Consumer(traced, word) <=> word \in Heard(log)
  <2> TAKE word
  <2>1. Says(traced, "trace", word) <=> word \in Heard(log)
    <3>1. "trace" \in StatusTools \cup {"trace"}
      OBVIOUS
    <3>2. Answers("trace", Now) = {Heard(log)} \ {{}}
      BY NowFields DEF Answers, TraceAnswer
    <3> QED
      BY <1>1, <3>1, <3>2
  <2>2. Says(traced, "logs", word) => word \in Heard(log)
    <3>1. Answers("logs", Now) = {Heard(OfInventory(log))}
      BY NowFields DEF Answers, LogsAnswer
    <3>2. Says(traced, "logs", word) => word \in Heard(OfInventory(log))
      BY <1>1, <3>1
    <3>3. Heard(OfInventory(log)) \subseteq Heard(log)
      BY DEF Heard, OfInventory
    <3> QED
      BY <3>2, <3>3
  <2>3. ~Says(traced, "matching_logs", word)
    BY <1>1 DEF StatusTools
  <2> QED
    BY <2>1, <2>2, <2>3 DEF Consumer
<1> QED
  BY <1>3, <1>4 DEF traced

\* Readings that say the same confirm the same.
LEMMA SameWordsSameCauses ==
    ASSUME NEW some, NEW others, some # {}, others # {},
           \A word : \A tool \in {"payment", "outbox", "event", "inventory"} :
              Says(some, tool, word) <=> Says(others, tool, word),
           \A word \in {"received", "success", "failure"} :
              Consumer(some, word) <=> Consumer(others, word)
    PROVE  \A cause : Confirmed(cause, some, some) <=> Confirmed(cause, others, others)
<1> TAKE cause
<1>1. Conflicting(some) <=> Conflicting(others)
  BY DEF Conflicting, Dirty
<1>2. ASSUME cause \in DOMAIN Shown
      PROVE  /\ \A pair \in Shown[cause] :
                   Says(some, pair[1], pair[2]) <=> Says(others, pair[1], pair[2])
             /\ WordsHeard[cause] \subseteq {"received", "success", "failure"}
             /\ WordsExcluded[cause] \subseteq {"received", "success", "failure"}
  <2>1. \A pair \in Shown[cause] :
           Says(some, pair[1], pair[2]) <=> Says(others, pair[1], pair[2])
    <3>1. \A word : /\ Says(some, "payment", word) <=> Says(others, "payment", word)
                    /\ Says(some, "outbox", word) <=> Says(others, "outbox", word)
                    /\ Says(some, "event", word) <=> Says(others, "event", word)
                    /\ Says(some, "inventory", word) <=> Says(others, "inventory", word)
      OBVIOUS
    <3>2. cause \in Causes \ {"NO_CONFIRMED_ROOT_CAUSE"}
      BY <1>2 DEF Shown
    <3>3. CASE cause = "NO_ISSUE"
      BY <3>1, <3>3 DEF Shown, Causes
    <3>4. CASE cause = "PAYMENT_EVENT_NOT_CREATED"
      BY <3>1, <3>4 DEF Shown, Causes
    <3>5. CASE cause = "PAYMENT_EVENT_NOT_PUBLISHED"
      BY <3>1, <3>5 DEF Shown, Causes
    <3>6. CASE cause = "EVENT_NOT_AVAILABLE_AFTER_PUBLISH"
      BY <3>1, <3>6 DEF Shown, Causes
    <3>7. CASE cause = "INVENTORY_EVENT_NOT_CONSUMED"
      BY <3>1, <3>7 DEF Shown, Causes
    <3>8. CASE cause \in {"INVENTORY_DEDUCTION_FAILED", "INVENTORY_DEDUCTION_NOT_PERSISTED"}
      BY <3>1, <3>8 DEF Shown, Causes
    <3>9. CASE cause = "INVENTORY_CONSUMER_UNAVAILABLE"
      BY <3>1, <3>9 DEF Shown, Causes
    <3> QED
      BY <3>2, <3>3, <3>4, <3>5, <3>6, <3>7, <3>8, <3>9 DEF Causes
  <2>2. /\ WordsHeard[cause] \subseteq {"received", "success", "failure"}
        /\ WordsExcluded[cause] \subseteq {"received", "success", "failure"}
    BY <1>2 DEF WordsHeard, WordsExcluded
  <2> QED
    BY <2>1, <2>2
<1>3. Requires(cause, some) <=> Requires(cause, others)
  BY <1>2 DEF Requires
<1> QED
  BY <1>1, <1>3 DEF Confirmed, Supported

\* With the trace, nothing is confirmed once a failure is heard in it, for the
\* payment's success is in it too; else the same as without.
LEMMA TraceConfirms ==
    ASSUME CourseInv, paid
    PROVE  ConfirmedBy(StatusTools \cup {"trace"}) =
              IF TraceConfuses THEN {} ELSE ConfirmedBy(StatusTools)
<1> DEFINE traced == AllRead(StatusTools \cup {"trace"})
<1>1. /\ \A word : Consumer(traced, word) <=> word \in Heard(log)
      /\ \A word : \A tool \in {"payment", "outbox", "event", "inventory"} :
            Says(traced, tool, word) <=> Says(StatusRead, tool, word)
  BY TraceSays
<1>2. /\ Now \in Moment /\ Consistent(Now) /\ Now.log = log
  BY NowFields DEF CourseInv
<1>3. /\ ConfirmedBy(StatusTools \cup {"trace"}) =
            {cause \in Causes : Confirmed(cause, traced, traced)}
      /\ ConfirmedBy(StatusTools) = {cause \in Causes : Confirmed(cause, StatusRead, StatusRead)}
  BY DEF ConfirmedBy, StatusRead
<1> HIDE DEF traced
<1>4. CASE TraceConfuses
  <2>1. Consumer(traced, "failure") /\ Consumer(traced, "success")
    BY <1>1, <1>2, <1>4, HeardWords DEF TraceConfuses
  <2>2. \A cause : ~Confirmed(cause, traced, traced)
    BY <2>1 DEF Confirmed, Conflicting
  <2> QED
    BY <1>3, <1>4, <2>2
<1>5. CASE ~TraceConfuses
  <2>1. \A word \in {"received", "success", "failure"} :
           Consumer(traced, word) <=> Consumer(StatusRead, word)
    <3>1. \A word : Consumer(StatusRead, word) <=> word \in Heard(OfInventory(log))
      <4> TAKE word
      <4>1. /\ ~Says(StatusRead, "matching_logs", word) /\ ~Says(StatusRead, "trace", word)
            /\ Says(StatusRead, "logs", word) <=> word \in Heard(OfInventory(log))
        BY StatusReadSays
      <4> QED
        BY <4>1 DEF Consumer
    <3>2. OfInventory(OfInventory(log)) = OfInventory(log)
      BY DEF OfInventory
    <3>3. "received" \in Heard(log) <=> "received" \in Heard(OfInventory(log))
      <4>1. OfInventory(log) \subseteq log
        BY DEF OfInventory
      <4>2. \A s \in log : "received" \notin s.says
        BY DEF CourseInv, OrderTypeOK, Signal
      <4> QED
        BY <3>2, <4>1, <4>2 DEF Heard
    <3>4. "success" \in Heard(log) <=> "success" \in Heard(OfInventory(log))
      <4>1. "success" \in Heard(log) => \E s \in OfInventory(log) : "success" \in s.says
        BY <1>2, <1>5, HeardWords DEF TraceConfuses
      <4>2. OfInventory(log) \subseteq log
        BY DEF OfInventory
      <4> QED
        BY <3>2, <4>1, <4>2 DEF Heard
    <3>5. "failure" \notin Heard(log) /\ "failure" \notin Heard(OfInventory(log))
      <4>1. OfInventory(log) \subseteq log
        BY DEF OfInventory
      <4> QED
        BY <1>5, <3>2, <4>1 DEF TraceConfuses, Heard
    <3> QED
      BY <1>1, <3>1, <3>3, <3>4, <3>5
  <2>2. Says(StatusRead, "payment", "SUCCESS") /\ Says(traced, "payment", "SUCCESS")
    BY <1>1, StatusReadSays
  <2>3. StatusRead # {} /\ traced # {}
    BY <2>2 DEF Says
  <2>4. \A cause : Confirmed(cause, traced, traced) <=> Confirmed(cause, StatusRead, StatusRead)
    BY <1>1, <2>1, <2>3, SameWordsSameCauses
  <2> QED
    BY <1>3, <1>5, <2>4
<1> QED
  BY <1>4, <1>5

\* Every fault the demo injects, and every replay of it, ends where the root
\* causes it is to be told by are the ones the status tools and the logs can
\* confirm, and the trace with them, unless a failure in it conflicts with the
\* payment's success (InjectDemoFault, observe, ValidateDiagnosisRootCause).
THEOREM FaultIsAlwaysDiagnosed == Spec => []FaultIsDiagnosed
<1>1. CourseInv => FaultIsDiagnosed
  <2> SUFFICES ASSUME CourseInv, Settled
               PROVE  {cause \in Causes : Confirmed(cause, StatusRead, StatusRead)} = ToldBy
    <3>1. ConfirmedBy(StatusTools) = {cause \in Causes : Confirmed(cause, StatusRead, StatusRead)}
      BY DEF ConfirmedBy, StatusRead
    <3> QED
      BY <3>1, TraceConfirms DEF FaultIsDiagnosed, Settled
  <2>1. paid /\ injected \in Faults \cup {None} /\ None \notin Faults
    BY FaultAssumption DEF Settled, CourseInv, OrderTypeOK
  <2>2. \A cause \in Causes : Confirmed(cause, StatusRead, StatusRead) <=> Evident(cause)
    BY <2>1, ConfirmedIsEvident
  <2>3. {cause \in Causes : Evident(cause)} = ToldBy
    <3>1. /\ fault = "TOOL_TIMEOUT_OR_DIRTY_DATA" <=> injected = "TOOL_TIMEOUT_OR_DIRTY_DATA"
          /\ deducted => DeductionLogged \in log
      BY <2>1 DEF CourseInv, Course, ConsumerLog, ReplayFaults, Faults
    <3>2. ToldBy \subseteq Causes
      BY DEF ToldBy, Causes
    <3>3. \A cause \in Causes : Evident(cause) <=> cause \in ToldBy
      <4> USE <2>1, <3>1, RestOfCourse
      <4>1. CASE injected = "OUTBOX_NOT_CREATED"
        BY <4>1 DEF Evident, ToldBy, Causes, PublishFaults
      <4>2. CASE injected \in PublishFaults
        BY <4>2 DEF Evident, ToldBy, Causes, PublishFaults
      <4>3. CASE injected \in {"EVIDENCE_CONFLICT", "TOOL_TIMEOUT_OR_DIRTY_DATA"}
        BY <4>3 DEF Evident, ToldBy, Causes, PublishFaults
      <4>4. CASE injected = "INVENTORY_EVENT_NOT_CONSUMED"
        BY <4>4 DEF Evident, ToldBy, Causes, PublishFaults
      <4>5. CASE injected = "INVENTORY_CONSUMER_FAILED"
        BY <4>5 DEF Evident, ToldBy, Causes, PublishFaults
      <4>6. CASE injected = "INVENTORY_DEDUCTION_NOT_PERSISTED"
        BY <4>6 DEF Evident, ToldBy, Causes, PublishFaults
      <4>7. CASE injected = None
        BY <4>7 DEF Evident, ToldBy, Causes, PublishFaults, Faults
      <4> QED
        BY <4>1, <4>2, <4>3, <4>4, <4>5, <4>6, <4>7 DEF Faults, ReplayFaults
    <3> QED
      BY <3>2, <3>3
  <2> QED
    BY <2>2, <2>3
<1> QED
  BY <1>1, CourseAlways, PTL
=============================================================================
