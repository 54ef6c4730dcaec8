---------------------------- MODULE MCRunSupervisor ----------------------------
(* Two attempts that carry one token, beside a token of another run.       *)
EXTENDS RunSupervisor

CONSTANTS r1, r2, t1, t2

MCTokenOf == [r \in Request |-> t1]
MCTimeoutOf == [r \in Request |-> IF r = r1 THEN 2 ELSE 1]
===============================================================================
