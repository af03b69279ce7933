--------------------------- MODULE MCIdentityVault ----------------------------
(* A small instance of IdentityVault for TLC.                              *)
EXTENDS IdentityVault, TLC

CONSTANTS first, second, home, work

(* Processes are alike, and so are contexts.                               *)
Symmetry == Permutations(Processes) \cup Permutations(Contexts)
=============================================================================
