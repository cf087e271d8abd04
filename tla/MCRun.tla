------------------------------- MODULE MCRun -------------------------------
(* The instances of InvestigationRun that TLC checks.                       *)
EXTENDS RunInvariants, TLC

CONSTANTS r1, r2, a1, a2, x1, x2, v1, v2

RunSymmetry ==
    Permutations(Runs) \cup Permutations(Approvers) \cup Permutations(Executors)
        \cup Permutations(Evaluators)

\* A healthy order, one with a repair that needs the event id, and one whose
\* confirmed cause has no repair action.
MCCauses == {"NO_ISSUE", "PAYMENT_EVENT_NOT_PUBLISHED", "INVENTORY_CONSUMER_UNAVAILABLE"}

\* What an evaluation may post: a healthy order, and a repair that needs no event
\* id.
MCPosted == {"NO_ISSUE", "PAYMENT_EVENT_NOT_CREATED"}
=============================================================================
