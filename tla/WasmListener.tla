---------------------------- MODULE WasmListener ---------------------------
(***************************************************************************)
(* The listener of relayer/chains/wasm/provider.go.  A reset arms two      *)
(* tickers, one that starts the subscriptions and fetches what is missing  *)
(* and one that renews the heights to fetch; select takes them in any      *)
(* order when both are due.  Once the client was replaced no subscription  *)
(* succeeds any more, and the listener is left with fetching.              *)
(*                                                                         *)
(* One pair of contract and event type is modelled.  The goroutines of the *)
(* other pairs call the same resetFunc, which only makes the listener      *)
(* fetch and subscribe once more.                                          *)
(***************************************************************************)
EXTENDS Heights

getStartHeight(s) ==
    IF StartHeight > 0 /\ StartHeight < head THEN StartHeight
    ELSE IF s # 0 /\ s < head THEN s
    ELSE head

\* A saved height above the latest one makes Listener return as well, but the
\* heights saved are heights the chain had.
WasmLaunch ==
    /\ Launch
    /\ \/ /\ Listen({"subscribe"})
          /\ start' = getStartHeight(lastSaved')
          /\ latest' = head
          /\ UNCHANGED overlooked
       \/ Return

\* case <-subscribeStarter.C: go SubscribeMessageEvents, then runBlockQuery
\* if the start height is below the latest one.
WasmTick ==
    /\ up
    /\ pc = "select" /\ "subscribe" \in armed
    /\ armed' = armed \ {"subscribe"}
    /\ sub' = IF sub = "stopped" THEN "refused" ELSE "dialing"
    /\ pc' = IF start < latest THEN "sync" ELSE "select"
    /\ next' = IF start < latest THEN start ELSE latest + 1
    /\ PassOver({h \in Unseen : h <= latest /\ ~(start < latest /\ start <= h)})
    /\ UNCHANGED <<head, up, start, latest, buf, inflight, heard, store, errs, crashes>>

\* getHeightStream: the last range may end above toHeight.
WasmRange == Emitted \cap (next..(next + BlockBatchSize - 1))

\* One range of runBlockQuery.  fetchBlockMessages logs a failing TxSearch and
\* returns what it has without an error; one event that does not parse is an
\* error for the whole range.
WasmFetch ==
    /\ up
    /\ pc = "sync" /\ next <= latest
    /\ next' = Min(next + BlockBatchSize, latest + 1)
    /\ \/ /\ WasmRange \cap BadLogs = {}
          /\ inflight' = inflight \cup WasmRange
          /\ UNCHANGED <<overlooked, errs>>
       \/ /\ WasmRange \cap BadLogs # {}
          /\ PassOver(Unseen \cap WasmRange)
          /\ UNCHANGED <<inflight, errs>>
       \/ /\ Err
          /\ PassOver(Unseen \cap WasmRange)
          /\ UNCHANGED inflight
    /\ UNCHANGED <<head, up, pc, armed, start, latest, sub, buf, heard, store, crashes>>

WasmFetched ==
    /\ up
    /\ pc = "sync" /\ next > latest
    /\ pc' = "select"
    /\ start' = latest + 1
    /\ UNCHANGED <<head, up, armed, latest, next, sub, buf, inflight, heard, store,
                   overlooked, errs, crashes>>

\* case <-pollHeightTicker.C.  A failing query leaves latestHeight 0 and polls
\* again, but the subscriptions may start in between.
WasmPoll ==
    /\ up
    /\ pc = "select" /\ "poll" \in armed
    /\ start' = IF lastSaved = 0 THEN latest ELSE lastSaved
    /\ \/ latest' = head /\ armed' = armed \ {"poll"} /\ UNCHANGED errs
       \/ Err /\ latest' = 0 /\ UNCHANGED armed
    /\ UNCHANGED <<head, up, pc, next, sub, buf, inflight, heard, store, overlooked, crashes>>

\* SubscribeMessageEvents: the query asks for heights from latestHeight on, but
\* a subscription only reports what happens after it began.
WasmSubscribe ==
    /\ up
    /\ sub = "dialing"
    /\ \/ /\ sub' = "live"
          /\ PassOver({h \in Unseen : h >= next /\ (pc = "sync" => h > latest)})
          /\ UNCHANGED <<armed, errs>>
       \/ /\ Err
          /\ sub' = "off"
          /\ armed' = {"subscribe", "poll"}
          /\ UNCHANGED overlooked
    /\ UNCHANGED <<head, up, pc, start, latest, next, buf, inflight, heard, store, crashes>>

\* Subscribe on a client that is not running is an error every time.
WasmRefused ==
    /\ up
    /\ sub = "refused"
    /\ sub' = "stopped"
    /\ armed' = {"subscribe", "poll"}
    /\ UNCHANGED <<head, up, pc, start, latest, next, buf, inflight, heard, store,
                   overlooked, errs, crashes>>

\* case e := <-resultEventChan.
WasmForward ==
    /\ up
    /\ \E h \in buf : /\ buf' = buf \ {h}
                      /\ inflight' = inflight \cup ({h} \ BadLogs)
                      /\ PassOver({h} \cap BadLogs)
    /\ UNCHANGED <<head, up, pc, armed, start, latest, next, sub, heard, store, errs, crashes>>

\* The connection is lost; nobody notices until two minutes without an event
\* have passed, so the events that are buffered still arrive.
WasmDisconnect ==
    /\ sub = "live"
    /\ Err
    /\ sub' = "dead"
    /\ UNCHANGED <<head, up, pc, armed, start, latest, next, buf, inflight, heard, store,
                   overlooked, crashes>>

\* case <-time.After: Reconnect, then resetFunc.  Reconnect puts a new client in
\* the place of the old one and does not start it, as newClient does.
WasmReconnect ==
    /\ up
    /\ sub = "dead" /\ buf = {}
    /\ sub' = "stopped"
    /\ armed' = {"subscribe", "poll"}
    /\ UNCHANGED <<head, up, pc, start, latest, next, buf, inflight, heard, store,
                   overlooked, errs, crashes>>

WasmListenerStep == WasmLaunch \/ WasmTick \/ WasmFetch \/ WasmFetched \/ WasmPoll

WasmNext ==
    \/ NewBlock(TRUE) \/ StartBlockProcessors \/ SaveChainsBlockHeight \/ Crash
    \/ WasmListenerStep
    \/ WasmSubscribe \/ WasmRefused \/ WasmForward \/ WasmDisconnect \/ WasmReconnect

\* A log not yet seen is still going to be looked at.
WasmAwaited(h) ==
    \/ sub \in {"off", "dead", "stopped"}
    \/ sub \in {"dialing", "refused"} /\ h >= next
    \/ pc = "sync" /\ next <= h /\ h <= latest
============================================================================
