------------------------------ MODULE WasmRoute ----------------------------
(***************************************************************************)
(* Sending transactions to a Wasm chain (relayer/chains/wasm/provider.go): *)
(* the account's sequence is kept in p.wallet; routerMutex is held while a *)
(* transaction is prepared and broadcast, but not while the sequence is    *)
(* counted up or read again, and the result is waited for on a             *)
(* subscription that is made after the broadcast.                          *)
(***************************************************************************)
EXTENDS Attempts

\* The sequence the node's mempool expects next.
Expected == committed + Cardinality(pool)

Locking(c) == pc[c] \in {"lock", "lockAgain"}
Pushing(c) == pc[c] \in {"push", "pushAgain"}

\* Mutant: the transaction is prepared although there is no account.
WasmWalletNil(c) ==
    /\ pc[c] = "call"
    /\ \/ seq' = IF seq = NoWallet THEN committed ELSE seq
       \/ UNCHANGED seq
    /\ Goto(c, "lock")
    /\ UNCHANGED <<result, holds, mutex, clock, chain, fails, crashes>>

\* call: Wallet() asks for the account if there is none, under sdkConfigMutex.
WasmWallet(c) ==
    /\ pc[c] = "call"
    /\ \/ seq # NoWallet /\ Goto(c, "lock") /\ UNCHANGED <<seq, fails>>
       \/ seq = NoWallet /\ seq' = committed /\ Goto(c, "lock") /\ UNCHANGED fails
       \/ seq = NoWallet /\ Fails /\ Goto(c, "unsigned") /\ UNCHANGED seq
    /\ UNCHANGED <<result, holds, mutex, clock, chain, crashes>>

\* The keystore or the account was not to be had, and nobody looked: with
\* p.wallet = nil sendMessage panics; if another caller has set it by now the
\* transaction has no sender and fails.
WasmUnsigned(c) ==
    /\ pc[c] = "unsigned" /\ mutex = NoCaller
    /\ \/ seq = NoWallet /\ ProcessDies
       \/ seq # NoWallet /\ Leave(c) /\ UNCHANGED <<result, wallet, chain>>
    /\ UNCHANGED <<fails, crashes>>

\* sendMessage takes the mutex and reads the sequence.
WasmSendMessage(c) ==
    /\ Locking(c)
    /\ mutex = NoCaller
    /\ mutex' = c
    /\ holds' = [holds EXCEPT ![c] = seq]
    /\ Goto(c, IF pc[c] = "lock" THEN "push" ELSE "pushAgain")
    /\ UNCHANGED <<result, seq, clock, chain, fails, crashes>>

\* prepareAndPushTxToMemPool: the node takes the transaction.  An admin call
\* ends here and leaves the sequence as it is.
WasmPush(c) ==
    /\ Pushing(c)
    /\ holds[c] = Expected /\ c \notin executed
    /\ mutex' = NoCaller /\ Forget(c)
    /\ pool' = Abandoned(c) \cup {[by |-> c, seq |-> holds[c], watched |-> c \in Msgs]}
    /\ Goto(c, IF c \in Admins THEN "done" ELSE "sent")
    /\ UNCHANGED <<result, seq, clock, committed, executed, fails, crashes>>

\* "incorrect account sequence", from the simulation or the broadcast.
WasmWrongSequence(c) ==
    /\ Pushing(c)
    /\ holds[c] # Expected
    /\ mutex' = NoCaller /\ Forget(c)
    /\ IF pc[c] = "push" THEN Goto(c, "mismatch") ELSE Leave(c)
    /\ UNCHANGED <<result, seq, clock, chain, fails, crashes>>

\* Any other error: no connection, a failing simulation, gas out of range, or
\* a sender written with the address prefix another Wasm chain has just set.
\* The simulation of a message that was executed before fails in any case.
WasmPushFails(c) ==
    /\ Pushing(c)
    /\ IF holds[c] = Expected /\ c \in executed THEN UNCHANGED fails ELSE Fails
    /\ mutex' = NoCaller /\ Forget(c)
    /\ Leave(c)
    /\ UNCHANGED <<result, seq, clock, chain, crashes>>

\* handleSequence: the account as of the last block, pending transactions not
\* counted.
WasmGetAccountInfo(c) ==
    /\ pc[c] = "mismatch"
    /\ \/ Goto(c, "setSequence") /\ holds' = [holds EXCEPT ![c] = committed] /\ UNCHANGED fails
       \/ Fails /\ Leave(c) /\ UNCHANGED holds
    /\ UNCHANGED <<result, seq, mutex, clock, chain, crashes>>

\* Mutant: the sequence is read but not set.
WasmSetSequenceNot(c) ==
    /\ pc[c] = "setSequence"
    /\ Forget(c)
    /\ Goto(c, "lockAgain")
    /\ UNCHANGED <<seq, result, mutex, clock, chain, fails, crashes>>

WasmSetSequence(c) ==
    /\ pc[c] = "setSequence"
    /\ seq' = holds[c] /\ Forget(c)
    /\ Goto(c, "lockAgain")
    /\ UNCHANGED <<result, mutex, clock, chain, fails, crashes>>

\* Route: GetSequence() + 1 and SetSequence, with the mutex released.
WasmReadSequence(c) ==
    /\ pc[c] = "sent"
    /\ holds' = [holds EXCEPT ![c] = seq + 1]
    /\ Goto(c, "increment")
    /\ UNCHANGED <<result, seq, mutex, clock, chain, fails, crashes>>

WasmIncrement(c) ==
    /\ pc[c] = "increment"
    /\ seq' = holds[c] /\ Forget(c)
    /\ Goto(c, "subscribe")
    /\ UNCHANGED <<result, mutex, clock, chain, fails, crashes>>

\* subscribeTxResult; an error ends the attempt.
WasmSubscribeTxResult(c) ==
    /\ pc[c] = "subscribe"
    /\ \/ Goto(c, "waiting") /\ UNCHANGED <<fails, pool>>
       \/ Fails /\ Leave(c) /\ pool' = Abandoned(c)
    /\ UNCHANGED <<result, wallet, committed, executed, crashes>>

\* Mutant: the code of the result is not looked at.
WasmTxResultAny(c) ==
    /\ pc[c] = "waiting"
    /\ result[c] # "none"
    /\ Goto(c, "done")
    /\ result' = [result EXCEPT ![c] = "none"]
    /\ UNCHANGED <<wallet, chain, fails, crashes>>

\* The event arrives; one that cannot be encoded or decoded is an error.  There
\* is no other way out: the time-out is on a context nobody selects on.
WasmTxResult(c) ==
    /\ pc[c] = "waiting"
    /\ \/ result[c] = "ok" /\ Goto(c, "done") /\ UNCHANGED fails
       \/ result[c] = "failed" /\ Leave(c) /\ UNCHANGED fails
       \/ result[c] # "none" /\ Fails /\ Leave(c)
    /\ result' = [result EXCEPT ![c] = "none"]
    /\ UNCHANGED <<wallet, chain, crashes>>

\* Transactions are committed in the order of their sequence; the event
\* reaches who is subscribed by then, unless the connection is down.
WasmCommit ==
    \E t \in pool :
        /\ t.seq = committed
        /\ Commit(t, {c \in Callers : pc[c] = "waiting"})

WasmEventLost ==
    \E t \in pool :
        /\ t.seq = committed
        /\ t.watched /\ pc[t.by] = "waiting"
        /\ Fails
        /\ committed' = committed + 1 /\ pool' = pool \ {t}
        /\ executed' \in {executed, executed \cup {t.by}}
        /\ UNCHANGED <<pc, result, wallet, crashes>>

WasmLock(c) == WasmSendMessage(c) \/ WasmUnsigned(c)

WasmStep(c) ==
    \/ WasmWallet(c) \/ WasmPush(c) \/ WasmWrongSequence(c) \/ WasmPushFails(c)
    \/ WasmGetAccountInfo(c) \/ WasmSetSequence(c) \/ WasmReadSequence(c) \/ WasmIncrement(c)
    \/ WasmSubscribeTxResult(c) \/ WasmTxResult(c)

WasmNext ==
    \/ \E c \in Callers : processMessage(c) \/ Admin(c) \/ WasmLock(c) \/ WasmStep(c)
    \/ WasmCommit \/ WasmEventLost \/ Restart

\* The result came before the subscription, or got lost: the attempt waits
\* until the process ends.
WasmDeaf(c) ==
    /\ pc[c] = "waiting" /\ result[c] = "none"
    /\ \A t \in pool : ~(t.watched /\ t.by = c)
============================================================================
