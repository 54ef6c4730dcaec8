----------------------------- MODULE MCProjectSync -----------------------------
(* ProjectSync on small instances.                                         *)
EXTENDS ProjectSync, TLC

CONSTANTS p1, p2

CreatesByRegion == (Cn :> {p1}) @@ (Overseas :> {p2})
NobodyCreates == [r \in Region |-> {}]
===============================================================================
