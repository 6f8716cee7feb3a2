------------------------------ MODULE IconRoute ----------------------------
(***************************************************************************)
(* Sending transactions to an ICON chain (relayer/chains/icon: route.go,   *)
(* client.go, provider.go).  Transactions have no sequence; their hash     *)
(* covers a timestamp.  The result is polled for, MaxTxRetry times.        *)
(***************************************************************************)
EXTENDS Attempts

\* MakeIconMessage and SendTransaction: keystore, EstimateStep, the limits of
\* the configuration, SignTransaction, icx_sendTransaction.
IconSendTransaction(c) ==
    /\ pc[c] = "call" /\ c \notin executed
    /\ pool' = Abandoned(c) \cup {[by |-> c, seq |-> clock, watched |-> TRUE]}
    /\ clock' = clock + 1
    /\ Goto(c, "waiting")
    /\ UNCHANGED <<result, seq, holds, mutex, committed, executed, fails, crashes>>

\* EstimateStep also fails when the contract would, as it does for a message
\* that was executed before.
IconSendFails(c) ==
    /\ pc[c] = "call"
    /\ IF c \in executed THEN UNCHANGED fails ELSE Fails
    /\ Leave(c)
    /\ UNCHANGED <<result, wallet, chain, crashes>>

\* WaitForTxResult, and the wait at the end of the admin calls.
IconTxResult(c) ==
    /\ pc[c] = "waiting" /\ c \notin SetAdmins
    /\ \/ result[c] = "ok" /\ Goto(c, "done")
       \/ result[c] = "failed" /\ Leave(c)
    /\ result' = [result EXCEPT ![c] = "none"]
    /\ UNCHANGED <<wallet, chain, fails, crashes>>

\* SetAdmin asks for the result of the raw bytes of the hash; no transaction
\* has that hash, and the call ends with an error.
IconSetAdmin(c) ==
    /\ pc[c] = "waiting" /\ c \in SetAdmins
    /\ pool' = Abandoned(c)
    /\ Leave(c)
    /\ result' = [result EXCEPT ![c] = "none"]
    /\ UNCHANGED <<wallet, committed, executed, fails, crashes>>

\* WaitForResults gives up: MaxTxRetry polls found the transaction pending,
\* or a poll failed.  The transaction may still be executed.
IconWaitForResults(c) ==
    /\ pc[c] = "waiting"
    /\ Fails
    /\ pool' = Abandoned(c)
    /\ Leave(c)
    /\ result' = [result EXCEPT ![c] = "none"]
    /\ UNCHANGED <<wallet, committed, executed, crashes>>

IconCommit == \E t \in pool : Commit(t, Callers)

IconStep(c) ==
    \/ IconSendTransaction(c) \/ IconSendFails(c) \/ IconTxResult(c) \/ IconSetAdmin(c)
    \/ IconWaitForResults(c)

IconNext ==
    \/ \E c \in Callers : processMessage(c) \/ Admin(c) \/ IconStep(c)
    \/ IconCommit \/ Restart
============================================================================
