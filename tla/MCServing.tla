----------------------------- MODULE MCServing -----------------------------
(* Serving for TLC. *)
EXTENDS Serving, TLC

Symmetry == Permutations(Followers) \cup Permutations(Rests) \cup Permutations(Keyrings)
=============================================================================
