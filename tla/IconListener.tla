---------------------------- MODULE IconListener ---------------------------
(***************************************************************************)
(* relayer/chains/icon/listener.go and the websocket of icon/client.go:    *)
(* the node streams the events from the height of the request on, and a    *)
(* progress notification moves that height, so that a reconnect replays    *)
(* from there.                                                             *)
(***************************************************************************)
EXTENDS Heights

StartFromHeight(s) ==
    IF StartHeight # 0 /\ StartHeight < head THEN StartHeight
    ELSE IF s # 0 /\ s < head THEN s
    ELSE head

\* Listener puts a token into reconnectCh.
IconLaunch ==
    /\ Launch
    /\ \/ /\ Listen({"subscribe"})
          /\ start' = StartFromHeight(lastSaved')
          /\ PassOver({h \in Emitted \ heard : h < start'})
          /\ UNCHANGED latest
       \/ Return

\* case <-reconnectCh: go MonitorEvent.
IconMonitorEvent ==
    /\ up
    /\ pc = "select" /\ "subscribe" \in armed
    /\ armed' = {}
    /\ sub' = "dialing"
    /\ UNCHANGED <<head, up, pc, start, latest, next, buf, inflight, heard, store,
                   overlooked, errs, crashes>>

\* Monitor: wsConnect and wsRequest; the node starts at the request's height.
IconMonitor ==
    /\ up
    /\ sub = "dialing"
    /\ \/ sub' = "live" /\ latest' = start /\ UNCHANGED errs
       \/ Err /\ sub' = "dead" /\ UNCHANGED latest
    /\ UNCHANGED <<head, up, pc, armed, start, next, buf, inflight, heard, store,
                   overlooked, crashes>>

\* wsReadJSONLoop and the callback of Listener, for the events of one block.
\* An error of parseMessageEvent is logged by MonitorEvent and forgotten.
IconEvent ==
    /\ up
    /\ sub = "live" /\ latest <= head
    /\ latest' = latest + 1
    /\ inflight' = inflight \cup (({latest} \cap LogHeights) \ BadLogs)
    /\ PassOver({latest} \cap BadLogs)
    /\ UNCHANGED <<head, up, pc, armed, start, next, sub, buf, heard, store, errs, crashes>>

\* A progress notification: the node has sent every event up to this height,
\* and the callback has sent them on, since it runs in the reading loop.
IconProgress ==
    /\ up
    /\ sub = "live" /\ latest > 1
    /\ start' = latest - 1
    /\ UNCHANGED <<head, up, pc, armed, latest, next, sub, buf, inflight, heard, store,
                   overlooked, errs, crashes>>

\* wsRead fails or the node closes the connection: Monitor returns an error.
IconConnectionErr ==
    /\ sub = "live"
    /\ Err
    /\ sub' = "dead"
    /\ UNCHANGED <<head, up, pc, armed, start, latest, next, buf, inflight, heard, store,
                   overlooked, crashes>>

\* Mutant: only a connection that never came up is tried again.
IconReconnectFirst ==
    /\ up
    /\ sub = "dead" /\ latest = 0
    /\ sub' = "off"
    /\ armed' = {"subscribe"}
    /\ UNCHANGED <<head, up, pc, start, latest, next, buf, inflight, heard, store,
                   overlooked, errs, crashes>>

\* Three seconds later the goroutine calls reconnect and ends.
IconReconnect ==
    /\ up
    /\ sub = "dead"
    /\ sub' = "off"
    /\ armed' = {"subscribe"}
    /\ UNCHANGED <<head, up, pc, start, latest, next, buf, inflight, heard, store,
                   overlooked, errs, crashes>>

IconListenerStep == IconLaunch \/ IconMonitorEvent

IconNext ==
    \/ NewBlock(FALSE) \/ StartBlockProcessors \/ SaveChainsBlockHeight \/ Crash
    \/ IconListenerStep
    \/ IconMonitor \/ IconEvent \/ IconProgress \/ IconConnectionErr \/ IconReconnect

\* A log not yet seen is still going to be streamed, by this connection or,
\* if there is none, by the next.
IconAwaited(h) == h >= IF sub = "live" THEN latest ELSE start
============================================================================
