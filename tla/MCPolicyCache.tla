--------------------------- MODULE MCPolicyCache ---------------------------
(* Instances of PolicyCache for TLC. *)
EXTENDS PolicyCache, TLC

Symmetry == Permutations(Readers) \cup Permutations(Branches)

=============================================================================
