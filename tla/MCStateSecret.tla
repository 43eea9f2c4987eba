--------------------------- MODULE MCStateSecret ---------------------------
(* StateSecret for TLC. *)
EXTENDS StateSecret, TLC

Symmetry ==
    Permutations(Processes) \cup Permutations(Memberships) \cup Permutations(Rests)
      \cup Permutations(Keyrings)
=============================================================================
