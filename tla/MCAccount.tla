----------------------------- MODULE MCAccount -----------------------------
(* Instances of Account for TLC. *)
EXTENDS Account, TLC

HandlerSymmetry == Permutations(Handlers)
Symmetry == HandlerSymmetry \cup Permutations(Tokens)

=============================================================================
