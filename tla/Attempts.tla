------------------------------ MODULE Attempts -----------------------------
(***************************************************************************)
(* What sending transactions to a Wasm and to an ICON chain have in        *)
(* common: the attempts the relayer makes (processMessages and             *)
(* RouteMessage of relay.go, the operator's commands of the socket server), *)
(* the chain's pool of pending transactions, and how a transaction ends.   *)
(***************************************************************************)
EXTENDS Integers, FiniteSets

CONSTANTS
    Msgs,        \* messages for this chain; each is routed until settled
    Emits,       \* those of type EmitMessage: the chain has receipts for them
    Admins,      \* operator transactions (revert, claim fee, set fee, ...)
    SetAdmins,   \* those that set the admin
    NoCaller,
    NoWallet,    \* p.wallet = nil
    MaxFails,    \* bound: failing calls, rejections, slow blocks, lost events
    MaxCrashes   \* bound: process crashes

Callers == Msgs \cup Admins

ASSUME AttemptsAssumption ==
    /\ Emits \subseteq Msgs /\ SetAdmins \subseteq Admins /\ Msgs \cap Admins = {}
    /\ IsFiniteSet(Callers)
    /\ NoCaller \notin Callers /\ NoWallet \notin Int
    /\ MaxFails \in Nat /\ MaxCrashes \in Nat

VARIABLES
    pc,         \* where each caller is
    result,     \* what a waiting caller can learn of its transaction
    seq,        \* Wasm: p.wallet's sequence, or NoWallet
    holds,      \* Wasm: the sequence a caller has read
    mutex,      \* Wasm: the holder of routerMutex
    clock,      \* ICON: the timestamp of the next transaction
    committed,  \* chain: transactions of the wallet in blocks
    pool,       \* chain: pending transactions of the wallet
    executed,   \* chain: callers one of whose transactions has succeeded
    fails, crashes

wallet == <<seq, holds, mutex, clock>>
chain == <<committed, pool, executed>>
vars == <<pc, result, wallet, chain, fails, crashes>>

PCs == {"idle", "call", "unsigned", "lock", "push", "mismatch", "setSequence", "lockAgain",
        "pushAgain", "sent", "increment", "subscribe", "waiting", "done"}

Txs == [by : Callers, seq : Nat, watched : BOOLEAN]

Goto(c, l) == pc' = [pc EXCEPT ![c] = l]

Fails == fails < MaxFails /\ fails' = fails + 1

\* What c has read is not used again.
Forget(c) == holds' = [holds EXCEPT ![c] = 0]

\* Nobody waits for c's transactions any more.
Abandoned(c) ==
    {[by |-> t.by, seq |-> t.seq, watched |-> t.watched /\ t.by # c] : t \in pool}

\* Route or an admin call returns an error.  HandleMessageFailed frees the
\* message for the next attempt; the operator is told.
Leave(c) == Goto(c, IF c \in Admins THEN "done" ELSE "idle")

AttemptsInit ==
    /\ pc = [c \in Callers |-> "idle"]
    /\ result = [c \in Callers |-> "none"]
    /\ seq = NoWallet /\ holds = [c \in Callers |-> 0] /\ mutex = NoCaller /\ clock = 0
    /\ committed = 0 /\ pool = {} /\ executed = {}
    /\ fails = 0 /\ crashes = 0

----------------------------------------------------------------------------
\* Mutant: a receipt is never seen.
MessageReceivedNot(c) == FALSE

\* Both providers return "status, Call(&status)"; the compiler makes the call
\* before it loads the status.
MessageReceived(c) == c \in Emits /\ c \in executed

\* processMessages: a message that was received is cleared, another routed.
processMessage(c) ==
    /\ c \in Msgs /\ pc[c] = "idle"
    /\ Goto(c, IF MessageReceived(c) THEN "done" ELSE "call")
    /\ UNCHANGED <<result, wallet, chain, fails, crashes>>

\* parseEvent: the operator's transactions, once each.
Admin(c) ==
    /\ c \in Admins /\ pc[c] = "idle"
    /\ Goto(c, "call")
    /\ UNCHANGED <<result, wallet, chain, fails, crashes>>

\* A transaction is executed.  A second one for the same message fails, since
\* the contracts keep receipts and remove requests.
Commit(t, heardBy) ==
    /\ committed' = committed + 1
    /\ pool' = pool \ {t}
    /\ \/ /\ t.by \notin executed
          /\ executed' = executed \cup {t.by}
          /\ result' = [c \in Callers |-> IF t.watched /\ c \in {t.by} \cap heardBy
                                          THEN "ok" ELSE result[c]]
          /\ UNCHANGED fails
       \/ /\ result' = [c \in Callers |-> IF t.watched /\ c \in {t.by} \cap heardBy
                                          THEN "failed" ELSE result[c]]
          /\ IF t.by \in executed THEN UNCHANGED fails ELSE Fails
          /\ UNCHANGED executed
    /\ UNCHANGED <<pc, wallet, crashes>>

\* The process dies; the operator's commands die with it.
ProcessDies ==
    /\ pc' = [c \in Callers |-> IF c \in Admins /\ pc[c] # "idle" THEN "done"
                                ELSE IF pc[c] = "done" THEN "done" ELSE "idle"]
    /\ result' = [c \in Callers |-> "none"]
    /\ seq' = NoWallet /\ holds' = [c \in Callers |-> 0] /\ mutex' = NoCaller
    /\ pool' = {[by |-> t.by, seq |-> t.seq, watched |-> FALSE] : t \in pool}
    /\ UNCHANGED <<clock, committed, executed>>

Restart ==
    /\ crashes < MaxCrashes
    /\ crashes' = crashes + 1
    /\ ProcessDies
    /\ UNCHANGED fails

AttemptsTypeOK ==
    /\ pc \in [Callers -> PCs]
    /\ result \in [Callers -> {"none", "ok", "failed"}]
    /\ seq \in Nat \cup {NoWallet} /\ holds \in [Callers -> Nat]
    /\ mutex \in Callers \cup {NoCaller} /\ clock \in Nat
    /\ committed \in Nat /\ pool \subseteq Txs /\ executed \subseteq Callers
    /\ fails \in Nat /\ crashes \in Nat
============================================================================
