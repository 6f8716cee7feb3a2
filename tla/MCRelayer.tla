----------------------------- MODULE MCRelayer -----------------------------
(* Instances of Relayer for TLC. *)
EXTENDS Relayer, TLC

CONSTANTS a, b, m1, m2, m3

\* m1 is an EmitMessage from chain a to chain b, m2 a CallMessage of chain a
\* for itself, m3 an EmitMessage for a chain that is not configured.
OneSrc == [m \in Msgs |-> a]
MixDst == [m \in Msgs |-> CASE m = m1 -> b [] m = m2 -> a [] m = m3 -> "unknown"]
OwnSn  == [m \in Msgs |-> CASE m = m1 -> 1 [] m = m2 -> 2 [] m = m3 -> 3]

Slots == Permutations(Objs) \cup Permutations(Gors)
============================================================================
