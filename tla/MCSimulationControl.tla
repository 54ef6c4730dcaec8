-------------------------- MODULE MCSimulationControl --------------------------
(* SimulationControl on small instances.  Runs are numbers, because the    *)
(* queue order breaks ties by id; owners, requests and queue consumers are *)
(* interchangeable model values, so the safety runs permute them.          *)
EXTENDS SimulationControl, TLC

Symmetry == Permutations(Owner) \cup Permutations(QueueConsumer)
              \cup Permutations(RequestId) \cup Permutations(Fingerprint)
===============================================================================
