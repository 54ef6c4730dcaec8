---------------------------- MODULE MCCloudSave ----------------------------
(* One window, its Cloud Projects and the other devices of the account, for TLC. *)
EXTENDS CloudSave, TLC

Permuted == Permutations(Contents \ {Blank})
=============================================================================
