------------------------------ MODULE Delivery ------------------------------
(***************************************************************************)
(* What the relayer promises about a message: where it may be and when it  *)
(* may leave.  A message is in memory, on disk, in both or in neither.     *)
(* It leaves the memory only if it is on disk or no longer needed, and it  *)
(* leaves the disk only if it is no longer needed: executed on its         *)
(* destination, or given up by a decision.  A crash empties the memory.    *)
(***************************************************************************)
EXTENDS Naturals

CONSTANT Msgs

VARIABLES
    memory,      \* messages in some message cache
    disk,        \* messages in the message store
    delivered,   \* messages executed on their destination
    dropped,     \* messages given up
    crashes      \* how often the process has died

promise == <<memory, disk, delivered, dropped, crashes>>

Init == memory = {} /\ disk = {} /\ delivered = {} /\ dropped = {} /\ crashes = 0

Done == delivered \cup dropped

Accept(m) == memory' = memory \cup {m} /\ UNCHANGED <<disk, delivered, dropped, crashes>>

Save(m) == disk' = disk \cup {m} /\ UNCHANGED <<memory, delivered, dropped, crashes>>

\* A page of the store is read back.
Load == /\ memory \subseteq memory' /\ memory' \subseteq memory \cup disk
        /\ UNCHANGED <<disk, delivered, dropped, crashes>>

Execute(m) == delivered' = delivered \cup {m} /\ UNCHANGED <<memory, disk, dropped, crashes>>

Release(m) ==
    /\ m \in Done \cup disk
    /\ memory' = memory \ {m}
    /\ UNCHANGED <<disk, delivered, dropped, crashes>>

Delete(m) ==
    /\ m \in Done
    /\ disk' = disk \ {m}
    /\ UNCHANGED <<memory, delivered, dropped, crashes>>

\* Messages for an unknown chain, expired rows, the operator's commands.
GiveUp(S) ==
    /\ dropped' = dropped \cup S
    /\ memory' \in {memory, memory \ S}
    /\ disk' \in {disk, disk \ S}
    /\ UNCHANGED <<delivered, crashes>>

\* A restart; with --fresh everything on disk is given up.
Crash ==
    /\ crashes' = crashes + 1
    /\ memory' = {}
    /\ \/ UNCHANGED <<disk, dropped>>
       \/ disk' = {} /\ dropped' = dropped \cup disk
    /\ UNCHANGED delivered

Next ==
    \/ \E m \in Msgs : Accept(m) \/ Save(m) \/ Execute(m) \/ Release(m) \/ Delete(m)
    \/ \E S \in SUBSET Msgs : GiveUp(S)
    \/ Load \/ Crash

Spec == Init /\ [][Next]_promise
=============================================================================
