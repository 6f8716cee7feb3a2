------------------------------ MODULE EvmRoute ------------------------------
(***************************************************************************)
(* Sending transactions to an EVM chain: Provider.Route, SendTransaction   *)
(* and WaitForTxResult (chains/evm/route.go), Wallet, GetTransationOpts and *)
(* the admin transactions (chains/evm/provider.go), and the NonceTracker   *)
(* (chains/evm/types/types.go).                                            *)
(*                                                                         *)
(* NonceTracker hands out pointers.  Set and the refresh in Get compute    *)
(* Previous with n.Sub(n, 1), which changes n itself and returns it, so    *)
(* Current and Previous are one big.Int; Current > Previous never holds,   *)
(* and Get always adds one, in place, to the very number an earlier caller *)
(* may still hold in its TransactOpts.  opts[c] = Shared says that c holds *)
(* the tracker's own number; a Set or a refresh makes a new number and     *)
(* leaves c with the old one.                                              *)
(***************************************************************************)
EXTENDS Integers, FiniteSets

CONSTANTS
    Routes,      \* messages for this chain; each is routed until executed
    Admins,      \* operator transactions (revert, claim fee, set fee, ...)
    NoCaller,
    Shared,      \* opts.Nonce is the tracker's own number
    FirstNonce,  \* the wallet's nonce when the relayer first starts
    MaxFails,    \* bound: failing RPC calls, rejections and early time-outs
    MaxNonce,    \* bound: no attempt starts once the tracker is there
    MaxCrashes   \* bound: process crashes

Callers == Routes \cup Admins

ASSUME EvmAssumption ==
    /\ NoCaller \notin Callers
    /\ Shared \notin Int
    /\ FirstNonce \in Nat /\ MaxFails \in Nat /\ MaxNonce \in Nat /\ MaxCrashes \in Nat

VARIABLES
    wallet,    \* p.wallet # nil
    entry,     \* NonceTracker.address has the wallet
    current,   \* the number Current and Previous point to
    aged,      \* time.Since(LastUpdated) > NonceUpdateInterval
    mutex,     \* the holder of routerMutex
    pc,        \* where each caller is
    opts,      \* the caller's opts.Nonce
    mined,     \* chain: the wallet's nonce in the latest block
    pool,      \* chain: pending transactions of the wallet
    executed,  \* chain: callers one of whose transactions has succeeded
    reverted,  \* chain: callers whose transaction has failed on chain
    fails, crashes,
    grown,     \* history: the tracker has been old at some time
    handed,    \* history: the number Get returned
    replaced   \* history: pending transactions another one took the place of

tracker == <<wallet, entry, current, aged>>
chain == <<mined, pool, executed, reverted>>
events == <<fails, grown, crashes>>
vars == <<tracker, mutex, pc, opts, chain, events, handed, replaced>>

PCs == {"idle", "wallet", "restored", "get", "send", "mismatch", "waiting", "done"}

----------------------------------------------------------------------------
\* opts.Nonce.Uint64(): of a negative number it is the absolute value.
Uint64(n) == IF n < 0 THEN 0 - n ELSE n

Nonce(c) == IF opts[c] = Shared THEN current ELSE opts[c]

\* The transaction pool counts pending nonces up to the first gap.
IsPendingNonce(n) ==
    /\ n >= mined
    /\ \A t \in pool : t.nonce # n
    /\ \A k \in mined .. n - 1 : \E t \in pool : t.nonce = k

PendingNonceAt == CHOOSE n \in mined .. mined + Cardinality(pool) : IsPendingNonce(n)

Taken(n) == {t \in pool : t.nonce = n}

\* One more RPC failure, rejection or slow block.
Fails == fails < MaxFails /\ fails' = fails + 1

\* A number is replaced by a new one; whoever shared the old one keeps it.
Detached == [c \in Callers |-> IF opts[c] = Shared THEN current ELSE opts[c]]

\* NonceTracker.Set(addr, PendingNonceAt()).
Set ==
    /\ current' = PendingNonceAt - 1
    /\ aged' = FALSE
    /\ entry' = TRUE
    /\ opts' = Detached

\* Mutant: the error path of Route does not unlock.
LeaveLocked(c) ==
    /\ pc' = [pc EXCEPT ![c] = IF c \in Admins THEN "done" ELSE "idle"]
    /\ UNCHANGED mutex

\* Leaving Route or an admin call with an error; Route also unlocks.
Leave(c) ==
    /\ pc' = [pc EXCEPT ![c] = IF c \in Admins THEN "done" ELSE "idle"]
    /\ mutex' = IF mutex = c THEN NoCaller ELSE mutex

Init ==
    /\ wallet = FALSE /\ entry = FALSE /\ current = 0 /\ aged = FALSE
    /\ mutex = NoCaller
    /\ pc = [c \in Callers |-> "idle"]
    /\ opts = [c \in Callers |-> 0]
    /\ mined = FirstNonce /\ pool = {} /\ executed = {} /\ reverted = {}
    /\ fails = 0 /\ grown = FALSE /\ crashes = 0
    /\ handed = [c \in Callers |-> 0]
    /\ replaced = {}

----------------------------------------------------------------------------
\* Mutant: Route does not take the mutex.
RouteUnlocked(c) ==
    /\ c \in Routes /\ pc[c] = "idle" /\ c \notin executed /\ current < MaxNonce
    /\ pc' = [pc EXCEPT ![c] = "wallet"]
    /\ UNCHANGED <<tracker, mutex, opts, chain, events, handed, replaced>>

Route(c) ==
    /\ c \in Routes
    /\ pc[c] = "idle"
    /\ c \notin executed
    /\ current < MaxNonce
    /\ mutex = NoCaller
    /\ mutex' = c
    /\ pc' = [pc EXCEPT ![c] = "wallet"]
    /\ UNCHANGED <<tracker, opts, chain, events, handed, replaced>>

\* RevertMessage, SetFee, ExecuteRollback: no mutex.  (ClaimFee dies before it
\* sends: module Messages.)
Admin(c) ==
    /\ c \in Admins
    /\ pc[c] = "idle"
    /\ pc' = [pc EXCEPT ![c] = "wallet"]
    /\ UNCHANGED <<tracker, mutex, opts, chain, events, handed, replaced>>

\* Wallet(): the first caller restores the key, which may fail, then asks for
\* the nonce.
Wallet(c) ==
    /\ pc[c] = "wallet"
    /\ \/ /\ wallet' = TRUE
          /\ pc' = [pc EXCEPT ![c] = IF wallet THEN "get" ELSE "restored"]
          /\ UNCHANGED <<mutex, fails>>
       \/ /\ ~wallet
          /\ Fails
          /\ Leave(c)
          /\ UNCHANGED wallet
    /\ UNCHANGED <<entry, current, aged, opts, chain, grown, crashes, handed, replaced>>

WalletNonce(c) ==
    /\ pc[c] = "restored"
    /\ \/ /\ Set
          /\ pc' = [pc EXCEPT ![c] = "get"]
          /\ UNCHANGED <<mutex, fails>>
       \/ /\ Fails
          /\ Leave(c)
          /\ UNCHANGED <<entry, current, aged, opts>>
    /\ UNCHANGED <<wallet, chain, grown, crashes, handed, replaced>>

\* Mutant: Get returns the number without moving it.
GetStuck(c) ==
    /\ pc[c] = "get" /\ entry
    /\ opts' = [opts EXCEPT ![c] = Shared]
    /\ handed' = [handed EXCEPT ![c] = current]
    /\ pc' = [pc EXCEPT ![c] = "send"]
    /\ UNCHANGED <<tracker, fails, mutex, chain, grown, crashes, replaced>>

\* NonceTracker.Get: one more, unless the number is old: then one less than
\* the pending nonce, or, if the chain does not answer, the same again.
Get(c) ==
    /\ pc[c] = "get"
    /\ entry
    /\ \/ /\ ~aged
          /\ current' = current + 1
          /\ opts' = [opts EXCEPT ![c] = Shared]
          /\ UNCHANGED <<aged, fails>>
       \/ /\ aged
          /\ current' = PendingNonceAt - 1
          /\ aged' = FALSE
          /\ opts' = [Detached EXCEPT ![c] = Shared]
          /\ UNCHANGED fails
       \/ /\ aged
          /\ Fails
          /\ opts' = [opts EXCEPT ![c] = Shared]
          /\ UNCHANGED <<current, aged>>
    /\ handed' = [handed EXCEPT ![c] = current']
    /\ pc' = [pc EXCEPT ![c] = "send"]
    /\ UNCHANGED <<wallet, entry, mutex, chain, grown, crashes, replaced>>

\* SuggestGasPrice or EstimateGas fails, the gas is out of range, or the node
\* refuses for a reason parseErr does not take for a wrong nonce.
SendTransactionFails(c) ==
    /\ pc[c] = "send"
    /\ Fails
    /\ Leave(c)
    /\ UNCHANGED <<tracker, opts, chain, grown, crashes, handed, replaced>>

\* The node takes the transaction, in place of one with the same nonce if
\* there is one and the price has risen enough.
SendTransaction(c) ==
    LET n == Uint64(Nonce(c))
    IN  /\ pc[c] = "send"
        /\ n >= mined
        /\ pool' = (pool \ Taken(n)) \cup {[nonce |-> n, by |-> c]}
        /\ replaced' = replaced \cup {t \in Taken(n) : t.by # c}
        /\ pc' = [pc EXCEPT ![c] = "waiting"]
        /\ mutex' = IF mutex = c THEN NoCaller ELSE mutex
        /\ reverted' = reverted \ {c}
        /\ UNCHANGED <<tracker, opts, mined, executed, events, handed>>

\* "nonce too low", "replacement transaction underpriced" or plainly
\* "transaction underpriced".
SendTransactionRejected(c) ==
    LET n == Uint64(Nonce(c))
    IN  /\ pc[c] = "send"
        /\ \/ (n < mined \/ Taken(n) # {}) /\ UNCHANGED fails
           \/ Fails
        /\ pc' = [pc EXCEPT ![c] = "mismatch"]
        /\ UNCHANGED <<tracker, mutex, opts, chain, grown, crashes, handed, replaced>>

\* The nonce is read again and the attempt fails.
SetNonce(c) ==
    /\ pc[c] = "mismatch"
    /\ Leave(c)
    /\ \/ Set /\ UNCHANGED fails
       \/ Fails /\ UNCHANGED <<entry, current, aged, opts>>
    /\ UNCHANGED <<wallet, chain, grown, crashes, handed, replaced>>

WaitForTxResult(c) ==
    /\ pc[c] = "waiting"
    /\ c \in executed
    /\ pc' = [pc EXCEPT ![c] = "done"]
    /\ UNCHANGED <<tracker, mutex, opts, chain, events, handed, replaced>>

WaitReverted(c) ==
    /\ pc[c] = "waiting"
    /\ c \in reverted
    /\ c \notin executed
    /\ reverted' = reverted \ {c}
    /\ Leave(c)
    /\ UNCHANGED <<tracker, opts, mined, pool, executed, events, handed, replaced>>

\* c's transaction is in the pool and no nonce is missing before it.
Executable(c) ==
    \E t \in pool : /\ t.by = c
                    /\ \A k \in mined .. t.nonce : Taken(k) # {}

\* No receipt after MaximumPollTry polls.  A transaction that only waits for
\* its block is mined in time, but for a bounded number of slow blocks.  A
\* failing poll ends the wait at once.
WaitTimeout(c) ==
    /\ pc[c] = "waiting"
    /\ c \notin executed
    /\ \/ ~Executable(c) /\ UNCHANGED fails
       \/ Fails
    /\ Leave(c)
    /\ UNCHANGED <<tracker, opts, chain, grown, crashes, handed, replaced>>

----------------------------------------------------------------------------
(* The chain, the clock, and the process.                                  *)

Mine ==
    /\ Taken(mined) # {}
    /\ mined' = mined + 1
    /\ pool' = pool \ Taken(mined)
    /\ LET by == {t.by : t \in Taken(mined)}
       IN  \/ executed' = executed \cup by /\ UNCHANGED <<reverted, fails>>
           \/ reverted' = reverted \cup by /\ Fails /\ UNCHANGED executed
    /\ UNCHANGED <<tracker, mutex, pc, opts, grown, crashes, handed, replaced>>

\* NonceUpdateInterval has passed since the last Set or refresh.  Get and the
\* transactions sent do not move LastUpdated, so this happens every three
\* minutes, with traffic or without.
Tick ==
    /\ entry /\ ~aged
    /\ aged' = TRUE
    /\ grown' = TRUE
    /\ UNCHANGED <<wallet, entry, current, mutex, pc, opts, chain, fails, crashes,
                   handed, replaced>>

\* Memory is lost; every message is routed again, admin calls are not.
ProcessDies ==
    /\ wallet' = FALSE /\ entry' = FALSE /\ current' = 0 /\ aged' = FALSE
    /\ mutex' = NoCaller
    /\ pc' = [c \in Callers |-> IF c \in Admins /\ pc[c] # "idle" THEN "done" ELSE "idle"]
    /\ opts' = [c \in Callers |-> 0]
    /\ UNCHANGED <<chain, grown, handed, replaced>>

Restart ==
    /\ crashes < MaxCrashes
    /\ crashes' = crashes + 1
    /\ ProcessDies
    /\ UNCHANGED fails

\* A wallet without an entry (the first PendingNonceAt failed, or has not
\* come back yet): Get dereferences nil.
GetPanics(c) ==
    /\ pc[c] = "get"
    /\ ~entry
    /\ ProcessDies
    /\ UNCHANGED <<fails, crashes>>

\* A failing SuggestGasTip is only logged: the tip is nil when SendTransaction
\* logs it.
GasTipPanics(c) ==
    /\ pc[c] = "send"
    /\ Fails
    /\ ProcessDies
    /\ UNCHANGED crashes

Step(c) ==
    \/ Wallet(c) \/ WalletNonce(c) \/ Get(c) \/ GetPanics(c) \/ GasTipPanics(c)
    \/ SendTransactionFails(c) \/ SendTransaction(c) \/ SendTransactionRejected(c)
    \/ SetNonce(c) \/ WaitForTxResult(c) \/ WaitReverted(c) \/ WaitTimeout(c)

Next ==
    \/ \E c \in Callers : Route(c) \/ Admin(c) \/ Step(c)
    \/ Mine \/ Tick \/ Restart

Spec == Init /\ [][Next]_vars

\* An attempt runs to its end, because every call to the node returns, and the
\* chain goes on.  Nothing is assumed of how often or how soon a message is
\* tried again.
Fairness ==
    /\ \A c \in Callers : WF_vars(Step(c))
    /\ WF_vars(Mine)

FairSpec == Spec /\ Fairness

----------------------------------------------------------------------------
(* Correctness.                                                            *)

\* Every variable keeps its type.
TypeOK ==
    /\ wallet \in BOOLEAN /\ entry \in BOOLEAN /\ current \in Int /\ aged \in BOOLEAN
    /\ mutex \in Callers \cup {NoCaller}
    /\ pc \in [Callers -> PCs]
    /\ opts \in [Callers -> Int \cup {Shared}]
    /\ mined \in Nat
    /\ pool \subseteq [nonce : Nat, by : Callers]
    /\ executed \subseteq Callers /\ reverted \subseteq Callers
    /\ fails \in Nat /\ grown \in BOOLEAN /\ crashes \in Nat
    /\ handed \in [Callers -> Int]
    /\ replaced \subseteq [nonce : Nat, by : Callers]

Inside(c) == pc[c] \in {"wallet", "restored", "get", "send", "mismatch"}

\* The number a Route was handed is still the one in its TransactOpts when it
\* sends, although Get and Set work on the number in place: between Get and
\* Send routerMutex keeps every other Route away from the tracker.
StableNonce == \A c \in Routes : pc[c] = "send" => Nonce(c) = handed[c]

\* Why: whoever is between Lock and Unlock holds routerMutex.
MutexOK == \A c \in Routes : Inside(c) => mutex = c

\* The three together, types included; inductive without admin calls.
LockInv == TypeOK /\ MutexOK /\ StableNonce

\* route.go, Route: "lock here to prevent transcation replacement".
NoReplacement == replaced = {}

\* What is left of it: as long as no call has failed, the tracker has not been
\* old yet and nobody sends admin transactions, no transaction takes the place
\* of another message's, not even after a crash.
LockPreventsReplacement == (Admins = {} /\ fails = 0 /\ ~grown) => NoReplacement

\* Every attempt ends and does not keep routerMutex, so that no message waits
\* behind it for ever: although failed attempts leave gaps in the nonces, a
\* refresh hands out used ones every three minutes, admin calls move the
\* number, and the process panics on a wallet without a nonce.
AttemptsEnd ==
    \A c \in Callers :
        pc[c] \notin {"idle", "done"} ~> pc[c] \in {"idle", "done"} /\ mutex # c
============================================================================
