--------------------------- MODULE MCDesktopFiles ---------------------------
(* One file, three contents and one version, for TLC. *)
EXTENDS DesktopFiles, TLC

Permuted == Permutations(Contents)
=============================================================================
