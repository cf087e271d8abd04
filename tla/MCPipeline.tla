----------------------------- MODULE MCPipeline -----------------------------
(* The instances of OrderPipeline that TLC checks.                          *)
EXTENDS PipelineInvariants, TLC

CONSTANTS o1, o2, p1, p2, s1, s2, k1

Qty(a, b) == (s1 :> a) @@ (s2 :> b)

\* Two orders with a sku in common.
MCItems == [o \in Orders |-> IF o = o1 THEN Qty(1, 1) ELSE Qty(1, 0)]

MCStock == Qty(2, 1)

\* Two orders that compete for s1: there is enough to deduct one of them, or
\* o1 twice, or o2 and half of o1.
MCScarceItems == [o \in Orders |-> IF o = o1 THEN Qty(1, 1) ELSE Qty(2, 0)]

MCScarceStock == Qty(2, 2)

\* The repair tool passes the order's items; another caller may pass others.
MCRequests == [o \in Orders |-> IF o = o1 THEN {Qty(1, 1), Qty(1, 0)} ELSE {Qty(1, 0)}]

OwnItems == [o \in Orders |-> {Items[o]}]

NoRequests == [o \in Orders |-> {}]

AllFaults == FaultTypes

AllDisruptions == DisruptionKinds

Symmetry == Permutations(Payments)
=============================================================================
