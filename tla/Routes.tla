------------------------------- MODULE Routes ------------------------------
(***************************************************************************)
(* The attempts of Attempts at a destination chain of either kind.         *)
(***************************************************************************)
EXTENDS WasmRoute, IconRoute

CONSTANT Kinds      \* kinds of chains: a subset of {"wasm", "icon"}

ASSUME KindsAssumption == Kinds \subseteq {"wasm", "icon"}

VARIABLE kind

allVars == <<vars, kind>>

Init == AttemptsInit /\ kind \in Kinds

Next ==
    /\ \/ kind = "wasm" /\ WasmNext
       \/ kind = "icon" /\ IconNext
    /\ UNCHANGED kind

Spec == Init /\ [][Next]_allVars

\* Attempts are repeated and run to their end, a mutex is fair to waiters, and
\* the chain makes blocks.
Try(c) == processMessage(c) /\ UNCHANGED kind
Lock(c) == kind = "wasm" /\ WasmLock(c) /\ UNCHANGED kind
Run(c) ==
    /\ \/ kind = "wasm" /\ WasmStep(c)
       \/ kind = "icon" /\ IconStep(c)
    /\ UNCHANGED kind
Blocks ==
    /\ \/ kind = "wasm" /\ WasmCommit
       \/ kind = "icon" /\ IconCommit
    /\ UNCHANGED kind

FairSpec ==
    /\ Spec
    /\ \A c \in Callers : WF_allVars(Try(c)) /\ WF_allVars(Run(c)) /\ SF_allVars(Lock(c))
    /\ WF_allVars(Blocks)

----------------------------------------------------------------------------

\* Every variable keeps its type.
TypeOK == AttemptsTypeOK /\ kind \in Kinds

\* A message the relayer takes for relayed, and clears, was executed on the
\* chain: whichever attempt, event or receipt said so, after whatever crashes,
\* time-outs and transactions left behind by earlier attempts.
NoFalseSuccess == \A c \in Msgs : pc[c] = "done" => c \in executed

\* Why: a result a caller can see is that of a transaction of its own; and
\* whoever is past Wallet() finds an account.
ResultOK == \A c \in Callers : result[c] = "ok" => c \in executed
WalletOK ==
    \A c \in Callers :
        pc[c] \in {"lock", "push", "mismatch", "setSequence", "lockAgain", "pushAgain",
                  "sent", "increment"} => seq # NoWallet

RoutesInv == TypeOK /\ ResultOK /\ WalletOK /\ NoFalseSuccess

Deaf(c) == kind = "wasm" /\ WasmDeaf(c)

\* Every message is executed, although the sequence is counted up outside the
\* mutex, read again without the pending transactions, and not counted up by
\* admin calls; unless its attempt waits for an event that has passed.
EventuallyExecuted == \A c \in Msgs : <>(c \in executed \/ Deaf(c))

\* A message the chain has receipts for is cleared in the end, even if the
\* attempt that got through was given up before its result was known.
EventuallyCleared == \A c \in Emits : <>[](pc[c] = "done" \/ Deaf(c))
============================================================================
