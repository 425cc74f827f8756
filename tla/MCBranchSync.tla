--------------------------- MODULE MCBranchSync ----------------------------
(* Instances of BranchSync for TLC. *)
EXTENDS BranchSync

ThreeBranches == <<"b1", "b2", "b3">>
=============================================================================
