---------------------------- MODULE MCFinality -----------------------------
(* Instances of Finality for TLC. *)
EXTENDS Finality, TLC

CONSTANTS m1, m2

OwnSn == [m \in Msgs |-> IF m = m1 THEN 1 ELSE 2]
SameBlock == [m \in Msgs |-> 1]
============================================================================
