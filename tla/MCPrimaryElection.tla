------------------------- MODULE MCPrimaryElection -------------------------
(* PrimaryElection for TLC: contenders are interchangeable. *)
EXTENDS PrimaryElection, TLC

Symmetry == Permutations(Contenders)
=============================================================================
