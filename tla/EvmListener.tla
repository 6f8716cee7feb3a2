---------------------------- MODULE EvmListener ----------------------------
(***************************************************************************)
(* relayer/chains/evm/listener.go: a ticker starts a subscription and, in  *)
(* the meantime, fetches the logs from startHeight to the latest height in *)
(* ranges; an error of the subscription starts both again from the height  *)
(* saved last.                                                             *)
(***************************************************************************)
EXTENDS Heights

\* Mutant: heights are signed.
startFromHeightSigned(s) ==
    LET latestQueryHeight == head - FinalityBlock
    IN  IF StartHeight # 0 /\ StartHeight < latestQueryHeight THEN StartHeight
        ELSE IF s # 0 /\ s < latestQueryHeight THEN s
        ELSE latestQueryHeight

\* startFromHeight: the subtraction is unsigned, so on a chain shorter than
\* FinalityBlock it yields a height far above the head.
startFromHeight(s) ==
    LET latestQueryHeight == (head - FinalityBlock) % Width
    IN  IF StartHeight # 0 /\ StartHeight < latestQueryHeight THEN StartHeight
        ELSE IF s # 0 /\ s < latestQueryHeight THEN s
        ELSE latestQueryHeight

EvmLaunch ==
    /\ Launch
    /\ \/ /\ Listen({"subscribe"})
          /\ start' = startFromHeight(lastSaved')
          /\ UNCHANGED <<latest, overlooked>>
       \/ Return

\* case <-subscribeStart.C: go Subscribe; the height is asked for next.
EvmTick ==
    /\ up
    /\ pc = "select" /\ "subscribe" \in armed
    /\ armed' = {}
    /\ sub' = "dialing"
    /\ pc' = "latest"
    /\ UNCHANGED <<head, up, start, latest, next, buf, inflight, heard, store,
                   overlooked, errs, crashes>>

\* latestHeight answers 0 when the query fails: nothing is fetched.
EvmLatest ==
    /\ up
    /\ pc = "latest"
    /\ pc' = "sync"
    /\ \/ /\ latest' = head
          /\ start' = IF start = 0 THEN latest' ELSE start
          /\ PassOver({h \in Unseen : h < start'})
          /\ UNCHANGED errs
       \/ /\ Err
          /\ latest' = 0
          /\ PassOver(Unseen)
          /\ UNCHANGED start
    /\ next' = start'
    /\ UNCHANGED <<head, up, armed, sub, buf, inflight, heard, store, crashes>>

\* The logs of the next range.
EvmRange == Emitted \cap (next..Min(next + BlockBatchSize - 1, latest))

\* Mutant: the ranges do not touch.
EvmFetchApart ==
    /\ up
    /\ pc = "sync" /\ next <= latest
    /\ next' = next + BlockBatchSize + 1
    /\ inflight' = inflight \cup (EvmRange \ BadLogs)
    /\ PassOver(EvmRange \cap BadLogs)
    /\ UNCHANGED <<head, up, pc, armed, start, latest, sub, buf, heard, store, errs, crashes>>

\* One range: getLogsRetry gives up after MaxRetryCount attempts and the range
\* is logged and passed over.
EvmFetch ==
    /\ up
    /\ pc = "sync" /\ next <= latest
    /\ next' = next + BlockBatchSize
    /\ \/ /\ inflight' = inflight \cup (EvmRange \ BadLogs)
          /\ PassOver(EvmRange \cap BadLogs)
          /\ UNCHANGED errs
       \/ /\ Err
          /\ PassOver(Unseen \cap EvmRange)
          /\ UNCHANGED inflight
    /\ UNCHANGED <<head, up, pc, armed, start, latest, sub, buf, heard, store, crashes>>

EvmFetched ==
    /\ up
    /\ pc = "sync" /\ next > latest
    /\ pc' = "select"
    /\ UNCHANGED <<head, up, armed, start, latest, next, sub, buf, inflight, heard, store,
                   overlooked, errs, crashes>>

\* Subscribe reaches the node: from now on new logs are pushed.  Logs of the
\* blocks after the height the sync asked for are in neither.
EvmSubscribe ==
    /\ up
    /\ sub = "dialing"
    /\ \/ /\ sub' = "live"
          /\ PassOver({h \in Unseen : pc # "latest" /\ h > latest})
          /\ UNCHANGED errs
       \/ Err /\ sub' = "dead" /\ UNCHANGED overlooked
    /\ UNCHANGED <<head, up, pc, armed, start, latest, next, buf, inflight, heard, store, crashes>>

\* case log := <-ch.
EvmForward ==
    /\ up
    /\ \E h \in buf : /\ buf' = buf \ {h}
                      /\ inflight' = inflight \cup ({h} \ BadLogs)
                      /\ PassOver({h} \cap BadLogs)
    /\ UNCHANGED <<head, up, pc, armed, start, latest, next, sub, heard, store, errs, crashes>>

\* The subscription ends with an error, or the check after two quiet minutes
\* fails; what is still in ch is lost with it.
EvmSubscriptionErr ==
    /\ sub = "live"
    /\ Err
    /\ sub' = "dead"
    /\ buf' = {}
    /\ UNCHANGED <<head, up, pc, armed, start, latest, next, inflight, heard, store,
                   overlooked, crashes>>

\* case err := <-errChan (unbuffered: Subscribe waits until Listener selects).
\* Reconnecting the client, or failing to, changes nothing here.
EvmReset ==
    /\ up
    /\ pc = "select" /\ sub = "dead"
    /\ sub' = "off"
    /\ start' = lastSaved
    /\ armed' = {"subscribe"}
    /\ UNCHANGED <<head, up, pc, latest, next, buf, inflight, heard, store,
                   overlooked, errs, crashes>>

EvmListenerStep == EvmLaunch \/ EvmTick \/ EvmLatest \/ EvmFetch \/ EvmFetched \/ EvmReset

EvmNext ==
    \/ NewBlock(TRUE) \/ StartBlockProcessors \/ SaveChainsBlockHeight \/ Crash
    \/ EvmListenerStep
    \/ EvmSubscribe \/ EvmForward \/ EvmSubscriptionErr

\* A log not yet seen is still going to be looked at: by the sync in progress,
\* by the sync of a restart, or because no subscription is live yet.
EvmAwaited(h) ==
    \/ "subscribe" \in armed \/ pc = "latest" \/ sub = "dead"
    \/ pc = "sync" /\ next <= h /\ h <= latest
    \/ sub = "dialing" /\ h > latest
============================================================================
