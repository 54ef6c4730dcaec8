---------------------------- MODULE ReplicatedStream ----------------------------
(***************************************************************************)
(* What one direction of the replication between two regions promises: the *)
(* producer issues items in order, the holder takes them in order, and     *)
(* while the producer is open whatever it issued and the holder has are    *)
(* the same.  Either side may fall back to an earlier copy of itself; a    *)
(* producer that fell back behind its holder never opens again, as that    *)
(* would issue an item twice.  ProjectSync implements it in both           *)
(* directions.                                                             *)
(***************************************************************************)
EXTENDS Naturals, Sequences

VARIABLES issued,   \* the items of the producer
          held,     \* the items of the holder
          open      \* the producer may issue

Prefix(s, t) == Len(s) <= Len(t) /\ s = SubSeq(t, 1, Len(s))

Init == issued = <<>> /\ held = <<>> /\ open \in BOOLEAN

Issue == /\ open
         /\ Len(issued') = Len(issued) + 1 /\ Prefix(issued, issued')
         /\ UNCHANGED <<held, open>>

Take == /\ Len(held) < Len(issued)
        /\ held' = Append(held, issued[Len(held) + 1])
        /\ UNCHANGED <<issued, open>>

Stop == /\ open' = FALSE
        /\ UNCHANGED <<issued, held>>

Open == /\ Prefix(held, issued)
        /\ open' = TRUE
        /\ UNCHANGED <<issued, held>>

(* The producer, or the holder, continues from an earlier copy.            *)
ProducerFallsBack == /\ Prefix(issued', issued)
                     /\ open' = FALSE
                     /\ UNCHANGED held

HolderFallsBack == /\ Prefix(held', held)
                   /\ UNCHANGED <<issued, open>>

Next == \/ Issue \/ Take \/ Stop \/ Open
        \/ ProducerFallsBack \/ HolderFallsBack

Spec == Init /\ [][Next]_<<issued, held, open>>
===============================================================================
