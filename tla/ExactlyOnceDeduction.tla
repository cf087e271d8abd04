------------------------ MODULE ExactlyOnceDeduction ------------------------
(***************************************************************************)
(* What the pipeline promises, with no outbox, stream, consumer or retry:  *)
(* an order is paid once, and its items leave the stock once, all of them  *)
(* together, after it was paid.  (README.md: reliable asynchronous chain;  *)
(* ORDERGUARD_MCP_AGENT_PLAN.md, phase 1: deducted exactly once after      *)
(* payment.)                                                               *)
(***************************************************************************)
EXTENDS Naturals

CONSTANTS Orders, Skus, Items, InitialStock

VARIABLES paid, done, available

evars == <<paid, done, available>>

Init ==
    /\ paid = {}
    /\ done = {}
    /\ available = InitialStock

PayOrder(o) ==
    /\ o \notin paid
    /\ paid' = paid \cup {o}
    /\ UNCHANGED <<done, available>>

DeductOrder(o) ==
    /\ o \in paid \ done
    /\ \A s \in Skus : available[s] >= Items[o][s]
    /\ available' = [s \in Skus |-> available[s] - Items[o][s]]
    /\ done' = done \cup {o}
    /\ UNCHANGED paid

Next == \E o \in Orders : PayOrder(o) \/ DeductOrder(o)

Spec == Init /\ [][Next]_evars
=============================================================================
