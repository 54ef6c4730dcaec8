----------------------------- MODULE MCTopologyTask -----------------------------
(* TopologyTask on small instances.  The runs check liveness, so no        *)
(* symmetry is used.                                                       *)
EXTENDS TopologyTask
===============================================================================
