----------------------------- MODULE Listeners -----------------------------
(***************************************************************************)
(* A relayer's view of one source chain of any kind: the state of Heights  *)
(* with the listener the chain's provider implements.                      *)
(***************************************************************************)
EXTENDS EvmListener, WasmListener, IconListener

CONSTANT Kinds      \* kinds of chains: a subset of {"evm", "wasm", "icon"}

ASSUME KindsAssumption == Kinds \subseteq {"evm", "wasm", "icon"}

VARIABLE kind       \* the kind of this chain

allVars == <<vars, kind>>

Init == HeightsInit /\ kind \in Kinds

Next ==
    /\ \/ kind = "evm" /\ EvmNext
       \/ kind = "wasm" /\ WasmNext
       \/ kind = "icon" /\ IconNext
    /\ UNCHANGED kind

Spec == Init /\ [][Next]_allVars

\* The goroutines of a running process keep running, and a process that died
\* is started again.  A Wasm listener without subscriptions fetches for ever,
\* so its goroutines are fair one by one, and each log leaves the channel in
\* its turn; the ticker that renews the heights is set one second before the
\* other, and select does not for ever pass over a ticker that is due.
EvmStep ==
    kind = "evm" /\ (StartBlockProcessors \/ EvmListenerStep \/ EvmSubscribe \/ EvmForward)
                 /\ UNCHANGED kind
WasmLoop == kind = "wasm" /\ WasmListenerStep /\ UNCHANGED kind
WasmSubscription ==
    kind = "wasm" /\ (WasmSubscribe \/ WasmRefused \/ WasmForward \/ WasmReconnect)
                  /\ UNCHANGED kind
WasmProcessor(h) == kind = "wasm" /\ processBlockInfo(h) /\ UNCHANGED kind
WasmTicker == kind = "wasm" /\ WasmPoll /\ UNCHANGED kind
IconStep ==
    kind = "icon" /\ (StartBlockProcessors \/ IconListenerStep \/ IconMonitor \/ IconEvent
                      \/ IconReconnect)
                  /\ UNCHANGED kind

FairSpec ==
    /\ Spec
    /\ WF_allVars(EvmStep) /\ WF_allVars(IconStep)
    /\ WF_allVars(WasmLoop) /\ WF_allVars(WasmSubscription)
    /\ \A h \in LogHeights : WF_allVars(WasmProcessor(h))
    /\ SF_allVars(WasmTicker)

----------------------------------------------------------------------------

\* Every variable keeps its type; heights are unsigned.
TypeOK == HeightsTypeOK /\ kind \in Kinds

Awaited(h) ==
    \/ kind = "evm" /\ EvmAwaited(h)
    \/ kind = "wasm" /\ WasmAwaited(h)
    \/ kind = "icon" /\ IconAwaited(h)

\* The process runs, but the listener of this chain returned when the process
\* started (its first query of the height failed) and is not called again.
Deaf == up /\ pc = "returned"

\* No log falls between the fetching of old blocks and the subscription to
\* new ones unnoticed: while the listener runs, a log that is neither stored
\* nor on its way is still going to be looked at, unless it was below the
\* start height, in a range that failed, in the gap before the subscription
\* began, did not parse, or the height could not be queried.
Covered == up /\ ~Deaf => \A h \in Unseen \ overlooked : Awaited(h)

\* Why: the tickers and the subscription take turns, the node streams from
\* the height of the request on, and nobody asks for blocks above the head.
TurnsOK ==
    /\ ~up => sub = "off" /\ pc = "select"
    /\ up /\ kind = "evm" /\ pc # "returned" => ("subscribe" \in armed <=> sub = "off")
    /\ up /\ kind = "wasm" => ("subscribe" \in armed => sub \in {"off", "stopped"})
    /\ sub \in {"stopped", "refused"} => kind = "wasm"
    /\ kind = "icon" /\ sub = "live" => start <= latest
    /\ kind = "icon" => start <= head + 1 /\ latest <= head + 1
    /\ kind # "icon" => latest <= head
    /\ kind = "wasm" => next <= head + 1

ListenersInv == TypeOK /\ TurnsOK /\ Covered

\* Every log is eventually stored, or passed over for one of those reasons:
\* no reset, reconnect or restart of a listener leaves the chain unheard.
\* Only a listener that returned does, and for as long as the process goes on
\* without it.
EventuallyHeard ==
    \A h \in LogHeights :
        [](h \in Emitted => <>(h \in heard \cup overlooked) \/ <>[]Deaf)

\* docs/db.md: the database stores "The last block that was processed for all
\* the configured chains": no log of a block before the saved one, where a
\* restart begins, is still on its way to the block processor.
SavedIsProcessed == \A h \in inflight : h >= saved
============================================================================
