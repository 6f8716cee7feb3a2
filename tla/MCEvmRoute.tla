---------------------------- MODULE MCEvmRoute -----------------------------
(* Instances of EvmRoute for TLC. *)
EXTENDS EvmRoute, TLC

Same == Permutations(Routes) \cup Permutations(Admins)
============================================================================
