-------------------------- MODULE ListenersProofs --------------------------
(***************************************************************************)
(* For every chain, every configuration and any number of crashes, failing *)
(* calls and lost connections: no listener loses a log except in the ways  *)
(* its actions record.                                                     *)
(***************************************************************************)
EXTENDS Listeners, TLAPS

\* The start heights are unsigned, the one that wraps around included.
LEMMA StartHeights ==
  ASSUME head \in Nat, NEW s \in Nat
  PROVE  startFromHeight(s) \in Nat /\ getStartHeight(s) \in Nat /\ StartFromHeight(s) \in Nat
<1>1. (head - FinalityBlock) % Width \in Nat
  BY HeightsAssumption
<1> QED
  BY <1>1, HeightsAssumption DEF startFromHeight, getStartHeight, StartFromHeight

\* Nothing is emitted and unseen at first.
LEMMA ListenersInit == Init => ListenersInv
<1> SUFFICES ASSUME Init PROVE ListenersInv
  OBVIOUS
<1>1. HeightsTypeOK
  BY HeightsAssumption DEF Init, HeightsInit, HeightsTypeOK
<1>2. TurnsOK
  BY HeightsAssumption DEF Init, HeightsInit, TurnsOK
<1> QED
  BY <1>1, <1>2 DEF Init, HeightsInit, ListenersInv, TypeOK, Covered

----------------------------------------------------------------------------
(* The steps all kinds of chains share.                                    *)

\* The chain, the block processor and the height saver keep types and turns.
LEMMA SharedTypes ==
  ASSUME ListenersInv, UNCHANGED kind,
         (\E p \in BOOLEAN : NewBlock(p)) \/ StartBlockProcessors \/ SaveChainsBlockHeight \/ Crash
  PROVE  TypeOK' /\ TurnsOK'
<1> USE DEF ListenersInv, TypeOK, HeightsTypeOK, TurnsOK, listener, store
<1>1. CASE \E p \in BOOLEAN : NewBlock(p)
  BY <1>1 DEF NewBlock
<1>2. CASE StartBlockProcessors
  BY <1>2 DEF StartBlockProcessors, processBlockInfo
<1>3. CASE SaveChainsBlockHeight
  <2>1. errs' \in Nat /\ saved' \in Nat /\ lastSaved' \in Nat
    BY <1>3 DEF SaveChainsBlockHeight, StoreBlock, Err
  <2>2. UNCHANGED <<head, up, listener, inflight, heard, overlooked, crashes>>
    BY <1>3 DEF SaveChainsBlockHeight, StoreBlock
  <2>3. TypeOK'
    BY <2>1, <2>2
  <2>4. TurnsOK'
    BY <2>2
  <2> QED
    BY <2>3, <2>4
<1>4. CASE Crash
  <2>1. UNCHANGED <<head, heard, saved, overlooked, errs>> /\ crashes' \in Nat
        /\ up' = FALSE /\ pc' = "select" /\ sub' = "off" /\ armed' = {} /\ lastSaved' = 0
        /\ start' = 0 /\ latest' = 0 /\ next' = 0 /\ buf' = {} /\ inflight' = {}
    BY <1>4 DEF Crash
  <2>2. TypeOK'
    BY <2>1
  <2>3. TurnsOK'
    BY <2>1
  <2> QED
    BY <2>2, <2>3
<1> QED
  BY <1>1, <1>2, <1>3, <1>4

\* A step that leaves the listener alone and loses no log keeps the rest
\* awaited.
LEMMA Frame ==
  ASSUME ListenersInv, UNCHANGED <<kind, listener, head, overlooked>>, up' => up,
         heard \cup inflight \subseteq heard' \cup inflight'
  PROVE  Covered'
<1>1. \A h : Awaited(h)' <=> Awaited(h)
  BY DEF Awaited, EvmAwaited, WasmAwaited, IconAwaited, listener
<1>2. Unseen' \subseteq Unseen
  BY DEF Unseen, Emitted, listener
<1> QED
  BY <1>1, <1>2 DEF ListenersInv, Covered, Deaf, listener

\* A listener that returns, with or without its process, loses no log it had
\* to look at.
LEMMA Returned ==
  ASSUME ListenersInv, kind' = kind, Launch, Return
  PROVE  TypeOK' /\ TurnsOK' /\ Covered'
<1> USE DEF ListenersInv, TypeOK, HeightsTypeOK
<1>1. ~up /\ armed' = {} /\ sub = "off" /\ pc = "select"
      /\ UNCHANGED <<head, start, latest, next, sub, buf, inflight, heard, overlooked, crashes>>
  BY DEF Launch, Return, TurnsOK
<1>2. saved' \in Nat /\ errs' \in Nat
  BY DEF Launch, Return, ClearStore
<1>3. \/ up' = TRUE /\ pc' = "returned" /\ lastSaved' = saved'
      \/ up' = FALSE /\ pc' = "select" /\ lastSaved' = lastSaved
  <2>1. up = FALSE
    BY <1>1
  <2> QED
    BY <1>1, <2>1 DEF Return, GetLastStoredBlock
<1>4. lastSaved' \in Nat /\ up' \in BOOLEAN /\ pc' \in {"select", "returned"}
  BY <1>2, <1>3
<1>5. TypeOK'
  BY <1>1, <1>2, <1>4
<1>6. TurnsOK'
  BY <1>1, <1>3 DEF TurnsOK
<1>7. Covered'
  BY <1>3 DEF Covered, Deaf
<1> QED
  BY <1>5, <1>6, <1>7

\* A log of a new block is pushed to a live subscription, or awaited.
LEMMA NewBlockCovered ==
  ASSUME ListenersInv, UNCHANGED kind, NEW p \in BOOLEAN, NewBlock(p),
         kind # "icon" => p
  PROVE  Covered'
<1> SUFFICES ASSUME up', pc' # "returned", NEW h \in Unseen' \ overlooked' PROVE Awaited(h)'
  BY DEF Covered, Deaf
<1> USE DEF ListenersInv, TypeOK, HeightsTypeOK, NewBlock
<1>0. up /\ h \in LogHeights /\ h \in Nat /\ h \notin overlooked
  BY HeightsAssumption DEF Unseen, Emitted
<1>1. CASE h \in Unseen
  <2>1. Awaited(h)
    BY <1>0, <1>1 DEF Covered, Deaf
  <2> QED
    BY <2>1 DEF Awaited, EvmAwaited, WasmAwaited, IconAwaited
<1>2. CASE h \notin Unseen
  <2>1. h = head + 1 /\ (p => sub # "live")
    BY <1>0, <1>2 DEF Unseen, Emitted
  <2> QED
    BY <1>0, <2>1, KindsAssumption
       DEF Awaited, EvmAwaited, WasmAwaited, IconAwaited, TurnsOK
<1> QED
  BY <1>1, <1>2

----------------------------------------------------------------------------
(* EVM.                                                                    *)

\* Every step of an EVM listener keeps the types and the order of its phases.
LEMMA EvmTypes ==
  ASSUME ListenersInv, kind = "evm", kind' = kind,
         EvmListenerStep \/ EvmSubscribe \/ EvmForward \/ EvmSubscriptionErr
  PROVE  TypeOK' /\ TurnsOK'
<1> USE DEF ListenersInv, TypeOK, HeightsTypeOK, TurnsOK, store, Unseen, Emitted, PassOver
<1>1. CASE EvmLaunch
  <2>0. CASE Return
    BY <1>1, <2>0, Returned DEF EvmLaunch
  <2>1. CASE ~Return
    <3>1. saved' \in Nat /\ lastSaved' \in Nat
      BY <1>1, <2>1 DEF EvmLaunch, Launch, Listen, ClearStore, GetLastStoredBlock
    <3>2. start' \in Nat
      BY <1>1, <2>1, <3>1, StartHeights DEF EvmLaunch
    <3> QED
      BY <1>1, <2>1, <3>1, <3>2 DEF EvmLaunch, Launch, Listen, ClearStore, GetLastStoredBlock
  <2> QED
    BY <2>0, <2>1
<1>2. CASE EvmTick
  BY <1>2 DEF EvmTick
<1>3. CASE EvmLatest
  <2>1. errs' \in Nat /\ start' \in Nat /\ latest' \in Nat /\ next' \in Nat /\ latest' <= head
    BY <1>3 DEF EvmLatest, Err
  <2>2. overlooked' \subseteq LogHeights
    BY <1>3 DEF EvmLatest
  <2>3. /\ pc' = "sync"
        /\ UNCHANGED <<head, up, armed, sub, buf, inflight, heard, saved, lastSaved, crashes>>
    BY <1>3 DEF EvmLatest
  <2>4. up /\ pc = "latest"
    BY <1>3 DEF EvmLatest
  <2>5. TypeOK'
    BY <2>1, <2>2, <2>3
  <2>6. TurnsOK'
    BY <2>1, <2>3, <2>4
  <2> QED
    BY <2>5, <2>6
<1>4. CASE EvmFetch
  <2>1. errs' \in Nat /\ next' \in Nat
    BY <1>4, HeightsAssumption DEF EvmFetch, Err
  <2>2. overlooked' \subseteq LogHeights /\ inflight' \subseteq LogHeights
    BY <1>4 DEF EvmFetch, EvmRange
  <2>3. up /\ UNCHANGED <<head, up, pc, armed, start, latest, sub, buf, heard, saved, lastSaved, crashes>>
    BY <1>4 DEF EvmFetch
  <2>4. TypeOK'
    BY <2>1, <2>2, <2>3
  <2>5. TurnsOK'
    BY <2>3
  <2> QED
    BY <2>4, <2>5
<1>5. CASE EvmFetched
  BY <1>5 DEF EvmFetched
<1>6. CASE EvmReset
  BY <1>6 DEF EvmReset
<1>7. CASE EvmSubscribe
  <2>1. errs' \in Nat /\ overlooked' \subseteq LogHeights /\ sub' \in {"live", "dead"}
    BY <1>7 DEF EvmSubscribe, Err
  <2>2. up /\ sub # "off"
        /\ UNCHANGED <<head, up, pc, armed, start, latest, next, buf, inflight, heard, saved, lastSaved, crashes>>
    BY <1>7 DEF EvmSubscribe
  <2>3. TypeOK'
    BY <2>1, <2>2
  <2>4. TurnsOK'
    BY <2>1, <2>2
  <2> QED
    BY <2>3, <2>4
<1>8. CASE EvmForward
  BY <1>8 DEF EvmForward
<1>9. CASE EvmSubscriptionErr
  BY <1>9 DEF EvmSubscriptionErr, Err
<1> QED
  BY <1>1, <1>2, <1>3, <1>4, <1>5, <1>6, <1>7, <1>8, <1>9 DEF EvmListenerStep

\* Every step of an EVM listener leaves no log behind unnoticed.
LEMMA EvmCovered ==
  ASSUME ListenersInv, kind = "evm", kind' = kind,
         EvmListenerStep \/ EvmSubscribe \/ EvmForward \/ EvmSubscriptionErr
  PROVE  Covered'
<1> SUFFICES ASSUME up', pc' # "returned", NEW h \in Unseen' \ overlooked' PROVE Awaited(h)'
  BY DEF Covered, Deaf
<1>t. TypeOK /\ TurnsOK /\ Covered
  BY DEF ListenersInv
<1>h. h \in Nat /\ h \in LogHeights /\ h <= head' /\ h \notin overlooked'
      /\ h \notin heard' /\ h \notin inflight' /\ h \notin buf'
  BY HeightsAssumption DEF Unseen, Emitted
<1>a. ASSUME up, pc # "returned", h <= head, h \notin overlooked, h \notin heard, h \notin inflight, h \notin buf
      PROVE  EvmAwaited(h) /\ h \in Unseen
  BY <1>a, <1>t, <1>h DEF Covered, Deaf, Awaited, Unseen, Emitted
<1>g. ASSUME EvmAwaited(h)' PROVE Awaited(h)'
  BY <1>g DEF Awaited
<1> USE DEF EvmAwaited, TypeOK, HeightsTypeOK, store
<1>1. CASE EvmLaunch
  <2>1. ~Return
    BY <1>1 DEF EvmLaunch, Launch, Return
  <2> QED
    BY <1>1, <2>1, <1>g DEF EvmLaunch, Launch, Listen
<1>2. CASE EvmTick
  BY <1>2, <1>g DEF EvmTick
<1>3. CASE EvmLatest
  <2>1. up /\ UNCHANGED <<head, up, armed, sub, buf, inflight, heard>> /\ pc' = "sync" /\ next' = start'
        /\ pc = "latest"
        /\ overlooked \subseteq overlooked'
    BY <1>3 DEF EvmLatest, PassOver
  <2>2. h \in Unseen
    BY <2>1, <1>h, <1>a
  <2>3. latest' = head /\ h >= start' /\ start' \in Nat
    BY <1>3, <2>2, <1>h, <1>t DEF EvmLatest, PassOver
  <2> QED
    BY <2>1, <2>3, <1>h, <1>g
<1>4. CASE EvmFetch
  <2>1. up /\ UNCHANGED <<head, up, pc, armed, latest, sub, buf, heard>> /\ pc = "sync"
        /\ next' = next + BlockBatchSize /\ inflight \subseteq inflight' /\ overlooked \subseteq overlooked'
    BY <1>4 DEF EvmFetch, PassOver
  <2>2. EvmAwaited(h) /\ h \in Unseen
    BY <2>1, <1>h, <1>a
  <2>3. h \notin EvmRange
    BY <1>4, <2>2, <1>h DEF EvmFetch, PassOver
  <2>4. ~(next <= h /\ h <= latest /\ h < next + BlockBatchSize)
    BY <2>3, <2>1, <1>h, <1>t, HeightsAssumption DEF EvmRange, Min, Emitted
  <2> QED
    BY <2>1, <2>2, <2>4, <1>h, <1>t, <1>g, HeightsAssumption
<1>5. CASE EvmFetched
  BY <1>5, <1>a, <1>h, <1>t, <1>g DEF EvmFetched
<1>6. CASE EvmReset
  BY <1>6, <1>g DEF EvmReset
<1>7. CASE EvmSubscribe
  <2>1. up /\ sub = "dialing" /\ UNCHANGED <<head, up, pc, armed, latest, next, inflight, buf, heard>>
        /\ overlooked \subseteq overlooked'
    BY <1>7 DEF EvmSubscribe, PassOver
  <2>2. EvmAwaited(h) /\ h \in Unseen
    BY <2>1, <1>h, <1>a
  <2>3. sub' = "dead" \/ ~(pc # "latest" /\ h > latest)
    BY <1>7, <2>2, <1>h DEF EvmSubscribe, PassOver
  <2> QED
    BY <2>1, <2>2, <2>3, <1>h, <1>t, <1>g
<1>8. CASE EvmForward
  <2>1. up /\ UNCHANGED <<head, up, pc, armed, latest, next, sub, heard>>
        /\ overlooked \subseteq overlooked' /\ inflight \subseteq inflight'
    BY <1>8 DEF EvmForward, PassOver
  <2>2. h \notin buf
    BY <1>8, <1>h DEF EvmForward, PassOver
  <2> QED
    BY <2>1, <2>2, <1>a, <1>h, <1>g
<1>9. CASE EvmSubscriptionErr
  BY <1>9, <1>g DEF EvmSubscriptionErr
<1> QED
  BY <1>1, <1>2, <1>3, <1>4, <1>5, <1>6, <1>7, <1>8, <1>9 DEF EvmListenerStep

----------------------------------------------------------------------------
(* CosmWasm.                                                               *)

\* Every step of a Wasm listener keeps the types and the order of its phases.
LEMMA WasmTypes ==
  ASSUME ListenersInv, kind = "wasm", kind' = kind,
         WasmListenerStep \/ WasmSubscribe \/ WasmRefused \/ WasmForward \/ WasmDisconnect \/ WasmReconnect
  PROVE  TypeOK' /\ TurnsOK'
<1> USE DEF ListenersInv, TypeOK, HeightsTypeOK, TurnsOK, store, Unseen, Emitted, PassOver
<1>1. CASE WasmLaunch
  <2>0. CASE Return
    BY <1>1, <2>0, Returned DEF WasmLaunch
  <2>1. CASE ~Return
    <3>1. saved' \in Nat /\ lastSaved' \in Nat
      BY <1>1, <2>1 DEF WasmLaunch, Launch, Listen, ClearStore, GetLastStoredBlock
    <3>2. start' \in Nat
      BY <1>1, <2>1, <3>1, StartHeights DEF WasmLaunch
    <3>3. armed' = {"subscribe"} /\ up' = TRUE /\ ~up /\ latest' = head
          /\ UNCHANGED <<head, pc, next, sub, buf, inflight, heard, overlooked, errs, crashes>>
      BY <1>1, <2>1 DEF WasmLaunch, Launch, Listen
    <3>4. TypeOK'
      BY <3>1, <3>2, <3>3
    <3>5. TurnsOK'
      BY <3>3
    <3> QED
      BY <3>4, <3>5
  <2> QED
    BY <2>0, <2>1
<1>2. CASE WasmTick
  <2>1. next' \in Nat /\ next' <= head + 1
    BY <1>2 DEF WasmTick
  <2>2. overlooked' \subseteq LogHeights /\ pc' \in {"select", "sync"} /\ armed' = armed \ {"subscribe"}
    BY <1>2 DEF WasmTick
  <2>3. up /\ sub' \in {"dialing", "refused"}
        /\ UNCHANGED <<head, up, start, latest, buf, inflight, heard, saved, lastSaved, errs, crashes>>
    BY <1>2 DEF WasmTick
  <2>4. TypeOK'
    BY <2>1, <2>2, <2>3
  <2>5. TurnsOK'
    BY <2>1, <2>2, <2>3
  <2> QED
    BY <2>4, <2>5
<1>3. CASE WasmFetch
  <2>1. errs' \in Nat /\ next' \in Nat /\ next' <= head + 1
    BY <1>3, HeightsAssumption DEF WasmFetch, Err, Min
  <2>2. overlooked' \subseteq LogHeights /\ inflight' \subseteq LogHeights
    BY <1>3 DEF WasmFetch, WasmRange
  <2>3. up /\ UNCHANGED <<head, up, pc, armed, start, latest, sub, buf, heard, saved, lastSaved, crashes>>
    BY <1>3 DEF WasmFetch
  <2>4. TypeOK'
    BY <2>1, <2>2, <2>3
  <2>5. TurnsOK'
    BY <2>1, <2>3
  <2> QED
    BY <2>4, <2>5
<1>4. CASE WasmFetched
  BY <1>4 DEF WasmFetched
<1>5. CASE WasmPoll
  <2>1. errs' \in Nat /\ start' \in Nat /\ latest' \in Nat /\ latest' <= head /\ armed' \subseteq armed
    BY <1>5 DEF WasmPoll, Err
  <2>2. up /\ UNCHANGED <<head, up, pc, next, sub, buf, inflight, heard, saved, lastSaved, overlooked, crashes>>
    BY <1>5 DEF WasmPoll
  <2>3. TypeOK'
    BY <2>1, <2>2
  <2>4. TurnsOK'
    BY <2>1, <2>2
  <2> QED
    BY <2>3, <2>4
<1>6. CASE WasmSubscribe
  <2>1. errs' \in Nat /\ overlooked' \subseteq LogHeights
    BY <1>6 DEF WasmSubscribe, Err
  <2>2. \/ sub' = "live" /\ armed' = armed
        \/ sub' = "off" /\ armed' = {"subscribe", "poll"}
    BY <1>6 DEF WasmSubscribe
  <2>3. up /\ sub = "dialing"
        /\ UNCHANGED <<head, up, pc, start, latest, next, buf, inflight, heard, saved, lastSaved, crashes>>
    BY <1>6 DEF WasmSubscribe
  <2>4. TypeOK'
    BY <2>1, <2>2, <2>3
  <2>5. TurnsOK'
    BY <2>1, <2>2, <2>3
  <2> QED
    BY <2>4, <2>5
<1>7. CASE WasmForward
  BY <1>7 DEF WasmForward
<1>8. CASE WasmDisconnect
  BY <1>8 DEF WasmDisconnect, Err
<1>9. CASE WasmReconnect
  BY <1>9 DEF WasmReconnect
<1>10. CASE WasmRefused
  BY <1>10 DEF WasmRefused
<1> QED
  BY <1>1, <1>2, <1>3, <1>4, <1>5, <1>6, <1>7, <1>8, <1>9, <1>10 DEF WasmListenerStep

\* Every step of a Wasm listener leaves no log behind unnoticed.
LEMMA WasmCovered ==
  ASSUME ListenersInv, kind = "wasm", kind' = kind,
         WasmListenerStep \/ WasmSubscribe \/ WasmRefused \/ WasmForward \/ WasmDisconnect \/ WasmReconnect
  PROVE  Covered'
<1> SUFFICES ASSUME up', pc' # "returned", NEW h \in Unseen' \ overlooked' PROVE Awaited(h)'
  BY DEF Covered, Deaf
<1>t. TypeOK /\ TurnsOK /\ Covered
  BY DEF ListenersInv
<1>h. h \in Nat /\ h \in LogHeights /\ h <= head' /\ h \notin overlooked'
      /\ h \notin heard' /\ h \notin inflight' /\ h \notin buf'
  BY HeightsAssumption DEF Unseen, Emitted
<1>a. ASSUME up, pc # "returned", h <= head, h \notin overlooked, h \notin heard, h \notin inflight, h \notin buf
      PROVE  WasmAwaited(h) /\ h \in Unseen
  BY <1>a, <1>t, <1>h DEF Covered, Deaf, Awaited, Unseen, Emitted
<1>g. ASSUME WasmAwaited(h)' PROVE Awaited(h)'
  BY <1>g DEF Awaited
<1> USE DEF WasmAwaited, TypeOK, HeightsTypeOK, store
<1>1. CASE WasmLaunch
  <2>1. ~Return
    BY <1>1 DEF WasmLaunch, Launch, Return
  <2> QED
    BY <1>1, <2>1, <1>t, <1>g DEF WasmLaunch, Launch, Listen, TurnsOK
<1>2. CASE WasmTick
  <2>1. up /\ pc = "select" /\ UNCHANGED <<head, up, start, latest, inflight, buf, heard>>
        /\ sub' \in {"dialing", "refused"}
        /\ overlooked \subseteq overlooked' /\ next' = IF start < latest THEN start ELSE latest + 1
    BY <1>2 DEF WasmTick, PassOver
  <2>2. h \in Unseen
    BY <2>1, <1>h, <1>a
  <2>3. ~(h <= latest /\ ~(start < latest /\ start <= h))
    BY <1>2, <2>2, <1>h DEF WasmTick, PassOver
  <2> QED
    BY <2>1, <2>3, <1>h, <1>t, <1>g
<1>3. CASE WasmFetch
  <2>1. up /\ UNCHANGED <<head, up, pc, armed, latest, sub, buf, heard>> /\ pc = "sync" /\ next <= latest
        /\ next' = Min(next + BlockBatchSize, latest + 1)
        /\ inflight \subseteq inflight' /\ overlooked \subseteq overlooked'
    BY <1>3 DEF WasmFetch, PassOver
  <2>2. WasmAwaited(h) /\ h \in Unseen
    BY <2>1, <1>h, <1>a
  <2>3. h \notin WasmRange
    BY <1>3, <2>2, <1>h DEF WasmFetch, PassOver
  <2>4. ~(next <= h /\ h < next + BlockBatchSize)
    BY <2>3, <2>1, <1>h, <1>t, HeightsAssumption DEF WasmRange, Emitted
  <2> QED
    BY <2>1, <2>2, <2>4, <1>h, <1>t, <1>g, HeightsAssumption DEF Min
<1>4. CASE WasmFetched
  BY <1>4, <1>a, <1>h, <1>t, <1>g DEF WasmFetched
<1>5. CASE WasmPoll
  <2>1. up /\ pc = "select" /\ UNCHANGED <<head, up, pc, next, sub, buf, inflight, heard, overlooked>>
    BY <1>5 DEF WasmPoll
  <2> QED
    BY <2>1, <1>a, <1>h, <1>g
<1>6. CASE WasmSubscribe
  <2>1. up /\ sub = "dialing" /\ UNCHANGED <<head, up, pc, latest, next, inflight, buf, heard>>
        /\ overlooked \subseteq overlooked'
    BY <1>6 DEF WasmSubscribe, PassOver
  <2>2. WasmAwaited(h) /\ h \in Unseen
    BY <2>1, <1>h, <1>a
  <2>3. sub' = "off" \/ ~(h >= next /\ (pc = "sync" => h > latest))
    BY <1>6, <2>2, <1>h DEF WasmSubscribe, PassOver
  <2> QED
    BY <2>1, <2>2, <2>3, <1>h, <1>t, <1>g
<1>7. CASE WasmForward
  <2>1. up /\ UNCHANGED <<head, up, pc, armed, latest, next, sub, heard>>
        /\ overlooked \subseteq overlooked' /\ inflight \subseteq inflight'
    BY <1>7 DEF WasmForward, PassOver
  <2>2. h \notin buf
    BY <1>7, <1>h DEF WasmForward, PassOver
  <2> QED
    BY <2>1, <2>2, <1>a, <1>h, <1>g
<1>8. CASE WasmDisconnect
  BY <1>8, <1>g DEF WasmDisconnect
<1>9. CASE WasmReconnect
  BY <1>9, <1>g DEF WasmReconnect
<1>10. CASE WasmRefused
  BY <1>10, <1>g DEF WasmRefused
<1> QED
  BY <1>1, <1>2, <1>3, <1>4, <1>5, <1>6, <1>7, <1>8, <1>9, <1>10 DEF WasmListenerStep

----------------------------------------------------------------------------
(* ICON.                                                                   *)

\* Every step of an ICON listener keeps the types and the order of its phases.
LEMMA IconTypes ==
  ASSUME ListenersInv, kind = "icon", kind' = kind,
         IconListenerStep \/ IconMonitor \/ IconEvent \/ IconProgress \/ IconConnectionErr
         \/ IconReconnect
  PROVE  TypeOK' /\ TurnsOK'
<1> USE DEF ListenersInv, TypeOK, HeightsTypeOK, TurnsOK, store, Unseen, Emitted, PassOver
<1>1. CASE IconLaunch
  <2>0. CASE Return
    BY <1>1, <2>0, Returned DEF IconLaunch
  <2>1. CASE ~Return
    <3>1. saved' \in Nat /\ lastSaved' \in Nat
      BY <1>1, <2>1 DEF IconLaunch, Launch, Listen, ClearStore, GetLastStoredBlock
    <3>2. start' \in Nat
      BY <1>1, <2>1, <3>1, StartHeights DEF IconLaunch
    <3>3. start' <= head + 1
      BY <1>1, <2>1, <3>1, HeightsAssumption DEF IconLaunch, StartFromHeight
    <3>4. overlooked' \subseteq LogHeights
      BY <1>1, <2>1 DEF IconLaunch
    <3>5. armed' = {"subscribe"} /\ up' = TRUE /\ ~up
          /\ UNCHANGED <<head, pc, latest, next, sub, buf, inflight, heard, errs, crashes>>
      BY <1>1, <2>1 DEF IconLaunch, Launch, Listen
    <3>6. TypeOK'
      BY <3>1, <3>2, <3>4, <3>5
    <3>7. TurnsOK'
      BY <3>3, <3>5
    <3> QED
      BY <3>6, <3>7
  <2> QED
    BY <2>0, <2>1
<1>2. CASE IconMonitorEvent
  BY <1>2 DEF IconMonitorEvent
<1>3. CASE IconMonitor
  BY <1>3 DEF IconMonitor, Err
<1>4. CASE IconEvent
  BY <1>4, HeightsAssumption DEF IconEvent
<1>5. CASE IconProgress
  BY <1>5 DEF IconProgress
<1>6. CASE IconConnectionErr
  BY <1>6 DEF IconConnectionErr, Err
<1>7. CASE IconReconnect
  BY <1>7 DEF IconReconnect
<1> QED
  BY <1>1, <1>2, <1>3, <1>4, <1>5, <1>6, <1>7 DEF IconListenerStep

\* Every step of an ICON listener leaves no log behind unnoticed.
LEMMA IconCovered ==
  ASSUME ListenersInv, kind = "icon", kind' = kind,
         IconListenerStep \/ IconMonitor \/ IconEvent \/ IconProgress \/ IconConnectionErr
         \/ IconReconnect
  PROVE  Covered'
<1> SUFFICES ASSUME up', pc' # "returned", NEW h \in Unseen' \ overlooked' PROVE Awaited(h)'
  BY DEF Covered, Deaf
<1>t. TypeOK /\ TurnsOK /\ Covered
  BY DEF ListenersInv
<1>h. h \in Nat /\ h \in LogHeights /\ h <= head' /\ h \notin overlooked'
      /\ h \notin heard' /\ h \notin inflight' /\ h \notin buf'
  BY HeightsAssumption DEF Unseen, Emitted
<1>a. ASSUME up, pc # "returned", h <= head, h \notin overlooked, h \notin heard, h \notin inflight, h \notin buf
      PROVE  IconAwaited(h)
  BY <1>a, <1>t, <1>h DEF Covered, Deaf, Awaited, Unseen, Emitted
<1>g. ASSUME IconAwaited(h)' PROVE Awaited(h)'
  BY <1>g DEF Awaited
<1> USE DEF IconAwaited, TypeOK, HeightsTypeOK, TurnsOK, store
<1>1. CASE IconLaunch
  <2>0. ~Return
    BY <1>1 DEF IconLaunch, Launch, Return
  <2>1. head' = head /\ heard' = heard /\ sub' = "off" /\ overlooked' = overlooked \cup {x \in Emitted \ heard : x < start'}
    BY <1>1, <1>t, <2>0 DEF IconLaunch, Launch, Listen, PassOver
  <2>2. start' \in Nat
    BY <1>1, <1>t, <2>0, StartHeights DEF IconLaunch, Launch, Listen, ClearStore, GetLastStoredBlock
  <2> QED
    BY <2>1, <2>2, <1>h, <1>g DEF Emitted
<1>2. CASE IconMonitorEvent
  BY <1>2, <1>a, <1>h, <1>t, <1>g DEF IconMonitorEvent
<1>3. CASE IconMonitor
  BY <1>3, <1>a, <1>h, <1>t, <1>g DEF IconMonitor
<1>4. CASE IconEvent
  <2>1. up /\ sub = "live" /\ UNCHANGED <<head, up, pc, buf, sub, heard>> /\ latest' = latest + 1
        /\ overlooked \subseteq overlooked' /\ inflight \subseteq inflight'
    BY <1>4 DEF IconEvent, PassOver
  <2>2. h # latest
    BY <1>4, <1>h DEF IconEvent, PassOver
  <2> QED
    BY <2>1, <2>2, <1>a, <1>h, <1>t, <1>g
<1>5. CASE IconProgress
  BY <1>5, <1>a, <1>h, <1>t, <1>g DEF IconProgress
<1>6. CASE IconConnectionErr
  BY <1>6, <1>a, <1>h, <1>t, <1>g DEF IconConnectionErr, Err
<1>7. CASE IconReconnect
  BY <1>7, <1>a, <1>h, <1>t, <1>g DEF IconReconnect
<1> QED
  BY <1>1, <1>2, <1>3, <1>4, <1>5, <1>6, <1>7 DEF IconListenerStep

----------------------------------------------------------------------------

\* The block processor, the saved height and a crash leave no log behind unnoticed.
LEMMA SharedCovered ==
  ASSUME ListenersInv, kind' = kind, StartBlockProcessors \/ SaveChainsBlockHeight \/ Crash
  PROVE  Covered'
<1>1. CASE StartBlockProcessors
  <2>1. UNCHANGED <<kind, listener, head, overlooked, up>>
        /\ heard \cup inflight \subseteq heard' \cup inflight'
    BY <1>1 DEF StartBlockProcessors, processBlockInfo
  <2> QED
    BY <2>1, Frame
<1>2. CASE SaveChainsBlockHeight
  <2>1. UNCHANGED <<kind, listener, head, overlooked, up, heard, inflight>>
    BY <1>2 DEF SaveChainsBlockHeight, StoreBlock
  <2> QED
    BY <2>1, Frame
<1>3. CASE Crash
  BY <1>3 DEF Crash, Covered
<1> QED
  BY <1>1, <1>2, <1>3

\* Every step keeps the invariant.
LEMMA ListenersStep == ListenersInv /\ [Next]_allVars => ListenersInv'
<1> SUFFICES ASSUME ListenersInv, [Next]_allVars PROVE ListenersInv'
  OBVIOUS
<1>1. CASE UNCHANGED allVars
  <2>1. UNCHANGED <<kind, listener, head, overlooked, up, heard, inflight, store, errs, crashes>>
    BY <1>1 DEF allVars, vars
  <2>2. Covered'
    BY <2>1, Frame
  <2>3. TypeOK' /\ TurnsOK'
    BY <2>1 DEF ListenersInv, TypeOK, HeightsTypeOK, TurnsOK, listener, store
  <2> QED
    BY <2>2, <2>3 DEF ListenersInv
<1>2. ASSUME kind = "evm", EvmNext, kind' = kind PROVE ListenersInv'
  BY <1>2, EvmTypes, EvmCovered, SharedTypes, SharedCovered, NewBlockCovered
     DEF EvmNext, ListenersInv
<1>3. ASSUME kind = "wasm", WasmNext, kind' = kind PROVE ListenersInv'
  BY <1>3, WasmTypes, WasmCovered, SharedTypes, SharedCovered, NewBlockCovered
     DEF WasmNext, ListenersInv
<1>4. ASSUME kind = "icon", IconNext, kind' = kind PROVE ListenersInv'
  BY <1>4, IconTypes, IconCovered, SharedTypes, SharedCovered, NewBlockCovered
     DEF IconNext, ListenersInv
<1> QED
  BY <1>1, <1>2, <1>3, <1>4 DEF Next

\* The variables keep their types: an unsigned height never becomes negative.
THEOREM ListenersTyped == Spec => []TypeOK
<1>1. ListenersInv => TypeOK
  BY DEF ListenersInv
<1> QED
  BY <1>1, ListenersInit, ListenersStep, PTL DEF Spec

\* No listener of any kind loses a log unnoticed, whatever connections are
\* lost, calls fail and crashes happen, for every chain and configuration.
THEOREM NothingUnnoticed == Spec => []Covered
<1>1. ListenersInv => Covered
  BY DEF ListenersInv
<1> QED
  BY <1>1, ListenersInit, ListenersStep, PTL DEF Spec
============================================================================
