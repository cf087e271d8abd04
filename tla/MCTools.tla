------------------------------ MODULE MCTools ------------------------------
(* The instance of InvestigatorStep that TLC checks.                        *)
EXTENDS InvestigatorStep

CONSTANTS run, approve

MCCalls == 1 .. 3
MCWriters == MCCalls \cup {run, approve}
=============================================================================
