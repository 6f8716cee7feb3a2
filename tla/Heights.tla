------------------------------ MODULE Heights ------------------------------
(***************************************************************************)
(* What the three chain listeners share: a source chain whose blocks carry *)
(* contract logs, the channel to the block processor, the height saved in  *)
(* LevelDB, and the relayer process that dies and starts again.            *)
(*                                                                         *)
(* One chain is modelled (the runtimes share nothing), with at most one    *)
(* log per block.  The goroutine running Listener is pc, armed, start,     *)
(* latest and next; the goroutine holding the subscription is sub and buf. *)
(* A full listenerChan only delays its sender, which may take its time     *)
(* here anyway.                                                            *)
(* The operations of a kind of chain are in EvmListener, WasmListener and  *)
(* IconListener; Listeners puts them together.                             *)
(***************************************************************************)
EXTENDS Integers

CONSTANTS
    InitHead,       \* height of the chain when the relayer first starts
    MaxHeight,      \* bound: height of the chain
    LogHeights,     \* blocks with a log of the watched contracts
    BadLogs,        \* those whose log does not parse
    FinalityBlock,  \* cfg.FinalityBlock
    StartHeight,    \* cfg.StartHeight, 0 if not configured
    BlockBatchSize, \* cfg.BlockBatchSize
    Width,          \* heights are unsigned integers below Width (2^64)
    MaxCrashes,     \* bound: process crashes
    MaxErrs         \* bound: failing calls and lost connections

ASSUME HeightsAssumption ==
    /\ InitHead \in Nat \ {0} /\ MaxHeight \in Nat
    /\ LogHeights \subseteq 1..MaxHeight /\ BadLogs \subseteq LogHeights
    /\ FinalityBlock \in Nat /\ StartHeight \in Nat
    /\ BlockBatchSize \in Nat \ {0}
    /\ Width \in Nat \ {0} /\ MaxHeight < Width
    /\ MaxCrashes \in Nat /\ MaxErrs \in Nat

VARIABLES
    head,       \* the chain's latest height
    up,         \* is the relayer process running
    pc,         \* Listener: "select", "latest" (querying), "sync" (fetching)
                \* or "returned"
    armed,      \* tickers of Listener that will fire
    start,      \* startHeight; for ICON the height of the event request
    latest,     \* latestHeight; for ICON the block the node streams next
    next,       \* first block not fetched yet
    sub,        \* subscription: "off", "dialing", "live" or "dead"; with a client
                \* that is not running "stopped" for off, "refused" for dialing
    buf,        \* logs the subscription holds and has not forwarded
    inflight,   \* logs in listenerChan
    heard,      \* logs processBlockInfo has stored
    saved,      \* the height row of the block store, 0 if there is none
    lastSaved,  \* ChainRuntime.LastSavedHeight
    overlooked, \* history: logs the listener has passed over at some time
    errs, crashes

listener == <<pc, armed, start, latest, next, sub, buf>>
store    == <<saved, lastSaved>>
vars == <<head, up, listener, inflight, heard, store, overlooked, errs, crashes>>

Emitted == {h \in LogHeights : h <= head}

\* Logs that are neither stored nor on their way to the block processor.
Unseen == Emitted \ (heard \cup inflight \cup buf)

\* The listener leaves logs behind: they are below the height a sync starts
\* at, in the gap before a subscription begins, in a range that failed, do not
\* parse, or the height could not be queried.
PassOver(logs) == overlooked' = overlooked \cup logs

Min(a, b) == IF a < b THEN a ELSE b

Err == up /\ errs < MaxErrs /\ errs' = errs + 1

HeightsInit ==
    /\ head = InitHead
    /\ up = FALSE
    /\ pc = "select" /\ armed = {}
    /\ start = 0 /\ latest = 0 /\ next = 0
    /\ sub = "off" /\ buf = {} /\ inflight = {}
    /\ heard = {} /\ saved = 0 /\ lastSaved = 0
    /\ overlooked = {} /\ errs = 0 /\ crashes = 0

----------------------------------------------------------------------------

\* The chain grows; a live subscription is given the log of the new block.
NewBlock(pushed) ==
    /\ head < MaxHeight
    /\ head' = head + 1
    /\ buf' = IF pushed /\ sub = "live" THEN buf \cup ({head'} \cap LogHeights) ELSE buf
    /\ UNCHANGED <<up, pc, armed, start, latest, next, sub, inflight, heard, store,
                   overlooked, errs, crashes>>

\* The block store: a row with the height of each chain, here of one, in a
\* LevelDB that can be cleared as a whole.
StoreBlock(h) == saved' = h
GetLastStoredBlock == saved'
ClearStore == saved' = 0

\* NewRelayer, which with --fresh clears the database first, and Start.
Launch ==
    /\ ~up
    /\ \E fresh \in BOOLEAN : IF fresh THEN ClearStore ELSE UNCHANGED saved
    /\ UNCHANGED <<head, next, sub, buf, inflight, heard, crashes>>

\* Listener(LastSavedHeight) knows where to start and enters its loop.
Listen(tickers) ==
    /\ up' = TRUE
    /\ lastSaved' = GetLastStoredBlock
    /\ armed' = tickers
    /\ UNCHANGED <<pc, errs>>

\* The first query of the height fails: Listener returns.  Nobody calls it
\* again, and StartChainListeners reports the error only when the listeners
\* of all chains have returned: the process goes on with the other chains, or
\* it ends because this was the last one.
Return ==
    /\ errs < MaxErrs /\ errs' = errs + 1
    /\ \/ up' = TRUE /\ pc' = "returned" /\ lastSaved' = GetLastStoredBlock
       \/ UNCHANGED <<up, pc, lastSaved>>
    /\ armed' = {}
    /\ UNCHANGED <<start, latest, overlooked>>

\* processBlockInfo takes a log out of the channel, caches and stores it.
processBlockInfo(h) ==
    /\ up
    /\ h \in inflight
    /\ inflight' = inflight \ {h}
    /\ heard' = heard \cup {h}
    /\ UNCHANGED <<head, up, listener, store, overlooked, errs, crashes>>

StartBlockProcessors == \E h \in LogHeights : processBlockInfo(h)

\* SaveChainsBlockHeight: the chain's latest height, not the last one heard.
\* LastSavedHeight is set before StoreBlock, which may fail.
SaveChainsBlockHeight ==
    /\ up
    /\ lastSaved' = head
    /\ \/ StoreBlock(head) /\ UNCHANGED errs
       \/ Err /\ UNCHANGED saved
    /\ UNCHANGED <<head, up, listener, inflight, heard, overlooked, crashes>>

\* The process dies: only the chain and LevelDB are left.
Crash ==
    /\ up
    /\ crashes < MaxCrashes
    /\ crashes' = crashes + 1
    /\ up' = FALSE
    /\ pc' = "select" /\ armed' = {}
    /\ start' = 0 /\ latest' = 0 /\ next' = 0
    /\ sub' = "off" /\ buf' = {} /\ inflight' = {}
    /\ lastSaved' = 0
    /\ UNCHANGED <<head, heard, saved, overlooked, errs>>

----------------------------------------------------------------------------

\* The listener's variables keep their types; heights stay unsigned.
HeightsTypeOK ==
    /\ head \in Nat /\ up \in BOOLEAN
    /\ pc \in {"select", "latest", "sync", "returned"} /\ armed \subseteq {"subscribe", "poll"}
    /\ start \in Nat /\ latest \in Nat /\ next \in Nat
    /\ sub \in {"off", "dialing", "live", "dead", "stopped", "refused"}
    /\ buf \subseteq LogHeights /\ inflight \subseteq LogHeights /\ heard \subseteq LogHeights
    /\ saved \in Nat /\ lastSaved \in Nat
    /\ overlooked \subseteq LogHeights
    /\ errs \in Nat /\ crashes \in Nat
============================================================================
