--------------------------- MODULE DeliveryProofs ---------------------------
(***************************************************************************)
(* The relayer implements module Delivery: whatever its threads, tickers   *)
(* and operator do, a message leaves the memory and the disk only as the   *)
(* promise allows.                                                         *)
(***************************************************************************)
EXTENDS RelayerProofs

\* The abstract step, or none.
Promised == D!Next \/ UNCHANGED D!promise

\* Objects keep their message: the cached messages are the same.
LEMMA MemorySame ==
  ASSUME cache' = cache, \A x \in cache : obj'[x].msg = obj[x].msg
  PROVE  InMemory' = InMemory
  BY DEF InMemory, Cached

\* One object leaves the cache: its message may have another one.
LEMMA MemoryMinus ==
  ASSUME NEW o \in cache, cache' = cache \ {o}, \A x \in cache' : obj'[x].msg = obj[x].msg
  PROVE  InMemory' \in {InMemory, InMemory \ {obj[o].msg}}
<1> DEFINE n == obj[o].msg
<1>1. \A m \in Msgs \ {n} : Cached(m)' <=> Cached(m)
  BY DEF Cached
<1>2. Cached(n)' => Cached(n)
  BY DEF Cached
<1>3. Cached(n)
  BY DEF Cached
<1> HIDE DEF n
<1>4. InMemory' \subseteq InMemory
  BY <1>1, <1>2, <1>3 DEF InMemory
<1>5. InMemory \ {n} \subseteq InMemory'
  BY <1>1 DEF InMemory
<1>6. InMemory' \in {InMemory, InMemory \ {n}}
  BY <1>4, <1>5
<1> QED
  BY <1>6 DEF n

\* One object enters the cache.
LEMMA MemoryPlus ==
  ASSUME NEW o, NEW m \in Msgs, cache' = cache \cup {o}, obj'[o].msg = m,
         \A x \in cache : obj'[x].msg = obj[x].msg
  PROVE  InMemory' = InMemory \cup {m}
<1>1. \A n \in Msgs : Cached(n)' <=> Cached(n) \/ n = m
  BY DEF Cached
<1> QED
  BY <1>1 DEF InMemory

\* A step that leaves the database alone changes nothing on disk.
LEMMA DiskSame ==
  ASSUME db' = db
  PROVE  OnDisk' = OnDisk
  BY DEF OnDisk, InDb

\* StoreMessage adds its message and DeleteMessage takes its message away.
LEMMA DiskStep ==
  ASSUME TypeInv, KeyInjective, NEW r \in RouteMessageType, NEW n \in Msgs
  PROVE  /\ db' = StoreMessage(r) => OnDisk' = OnDisk \cup {r.msg}
         /\ db' = DeleteMessage(n) => OnDisk' = OnDisk \ {n}
<1>1. ASSUME db' = StoreMessage(r) PROVE OnDisk' = OnDisk \cup {r.msg}
  <2>1. \A m \in Msgs : InDb(m)' => InDb(m) \/ m = r.msg
    BY <1>1 DEF StoreMessage, InDb
  <2>2. \A m \in Msgs : InDb(m) \/ m = r.msg => InDb(m)'
    BY <1>1, RowsKept DEF InDb
  <2>3. r.msg \in Msgs
    BY DEF RouteMessageType
  <2> QED
    BY <2>1, <2>2, <2>3 DEF OnDisk
<1>2. ASSUME db' = DeleteMessage(n) PROVE OnDisk' = OnDisk \ {n}
  <2>1. \A m \in Msgs : InDb(m)' => InDb(m) /\ m # n
    BY <1>2 DEF DeleteMessage, InDb
  <2>2. \A m \in Msgs : InDb(m) /\ m # n => InDb(m)'
    BY <1>2, RowsKept DEF InDb
  <2> QED
    BY <2>1, <2>2 DEF OnDisk
<1> QED
  BY <1>1, <1>2

\* What flushMessages caches has a row.
LEMMA FlushLoads ==
  ASSUME TypeInv, NEW c \in Chains, flushMessages(c)
  PROVE  /\ InMemory \subseteq InMemory'
         /\ InMemory' \subseteq InMemory \cup OnDisk
<1> DEFINE rows == getActiveMessagesFromStore(c)
<1>1. rows \subseteq RouteMessageType /\ rows \subseteq db
  BY DEF TypeInv, TypeOK, getActiveMessagesFromStore, GetMessages
<1>2. PICK slot \in [rows -> Free] :
        /\ \E load \in [rows -> UNION {Loaded(r) : r \in rows}] :
             /\ \A r \in rows : load[r] \in Loaded(r)
             /\ obj' = [o \in Objs |->
                          IF \E r \in rows : slot[r] = o
                          THEN load[CHOOSE r \in rows : slot[r] = o] ELSE obj[o]]
        /\ cache' = cache \cup {slot[r] : r \in rows}
  BY DEF flushMessages
<1>3. PICK load \in [rows -> UNION {Loaded(r) : r \in rows}] :
        /\ \A r \in rows : load[r] \in Loaded(r)
        /\ obj' = [o \in Objs |->
                     IF \E r \in rows : slot[r] = o
                     THEN load[CHOOSE r \in rows : slot[r] = o] ELSE obj[o]]
  BY <1>2
<1> HIDE DEF rows
<1>4. cache \subseteq Objs /\ Free \subseteq Objs /\ cache \cap Free = {}
  BY DEF TypeInv, TypeOK, Free, Referenced
<1>5. \A o \in cache : o \in cache' /\ obj'[o] = obj[o]
  BY <1>2, <1>3, <1>4
<1>6. ASSUME NEW o \in cache', o \notin cache
      PROVE  InDb(obj'[o].msg)
  <2>1. PICK q \in rows : q = (CHOOSE r \in rows : slot[r] = o) /\ slot[q] = o
    BY <1>2, <1>6
  <2>2. obj'[o] = load[q]
    BY <1>2, <1>3, <1>4, <2>1
  <2>3. load[q].msg = q.msg
    BY <1>1, <1>3, LoadedType
  <2> QED
    BY <1>1, <2>2, <2>3 DEF InDb
<1>7. \A m \in Msgs : Cached(m) => Cached(m)'
  BY <1>5 DEF Cached
<1>8. \A m \in Msgs : Cached(m)' => Cached(m) \/ InDb(m)
  BY <1>5, <1>6 DEF Cached
<1> QED
  BY <1>7, <1>8 DEF InMemory, OnDisk

\* Steps that concern neither memory nor disk nor fate.
LEMMA Quiet ==
  ASSUME cache' = cache, \A x \in cache : obj'[x].msg = obj[x].msg,
         UNCHANGED <<db, delivered, dropped, crashes>>
  PROVE  Promised
  BY MemorySame, DiskSame DEF Promised, D!promise

\* Steps that store a row, or fail to.
LEMMA Saving ==
  ASSUME TypeInv, KeyInjective, NEW r \in RouteMessageType,
         cache' = cache, \A x \in cache : obj'[x].msg = obj[x].msg,
         db' = StoreMessage(r) \/ db' = db,
         UNCHANGED <<delivered, dropped, crashes>>
  PROVE  Promised
<1>1. r.msg \in Msgs /\ InMemory' = InMemory
  BY MemorySame DEF RouteMessageType
<1>2. OnDisk' = OnDisk \/ OnDisk' = OnDisk \cup {r.msg}
  BY DiskSame, DiskStep, <1>1
<1> QED
  BY <1>1, <1>2 DEF Promised, D!Next, D!Save, D!promise

\* Steps that delete the row of a message that is done, or fail to.
LEMMA Deleting ==
  ASSUME TypeInv, KeyInjective, NEW n \in Msgs, Gone(n),
         cache' = cache, \A x \in cache : obj'[x].msg = obj[x].msg,
         db' = DeleteMessage(n) \/ db' = db,
         UNCHANGED <<delivered, dropped, crashes>>
  PROVE  Promised
<1>1. InMemory' = InMemory
  BY MemorySame
<1>2. NewRouteMessage(n) \in RouteMessageType
  BY NewType
<1>3. OnDisk' = OnDisk \/ OnDisk' = OnDisk \ {n}
  BY DiskSame, DiskStep, <1>2
<1> QED
  BY <1>1, <1>3 DEF Promised, Gone, D!Next, D!Delete, D!Done, D!promise

\* Steps that take an object of a message out of the cache that is done, or on
\* disk.
LEMMA Releasing ==
  ASSUME NEW o \in cache, obj[o].msg \in Msgs, Gone(obj[o].msg) \/ InDb(obj[o].msg),
         cache' = cache \ {o}, \A x \in cache' : obj'[x].msg = obj[x].msg,
         UNCHANGED <<db, delivered, dropped, crashes>>
  PROVE  Promised
<1>1. InMemory' \in {InMemory, InMemory \ {obj[o].msg}}
  BY MemoryMinus
<1>2. OnDisk' = OnDisk
  BY DiskSame
<1>3. obj[o].msg \in delivered \cup dropped \cup OnDisk
  BY DEF Gone, OnDisk
<1> QED
  BY <1>1, <1>2, <1>3 DEF Promised, D!Next, D!Release, D!Done, D!promise

\* Every step of the relayer is a step of its promise, or none.
LEMMA PromiseKept ==
  ASSUME KeyInjective, TypeInv, LossInv, [Next]_vars
  PROVE  Promised
<1> USE DEF threads, chain, bounds, history, Idle, At
<1>l. ClearOK
  BY DEF LossInv
<1>t. /\ obj \in [Objs -> RouteMessageType] /\ cache \subseteq Objs
      /\ \A g \in Gors : gor[g].pc # "idle" => gor[g].obj \in Objs
      /\ router.pc # "idle" => router.obj \in Objs
      /\ ingest \in [Chains -> Objs \cup {NoObj}]
      /\ db \subseteq RouteMessageType
  BY DEF TypeInv, TypeOK, ThreadsOK
<1>m. \A o \in Objs : obj[o] \in RouteMessageType /\ obj[o].msg \in Msgs
  BY <1>t DEF RouteMessageType
<1>1. ASSUME NEW m \in Msgs, processBlockInfo(m) \/ RelayMessageByHeight(m) PROVE Promised
  <2>1. PICK o \in Free : /\ obj' = [obj EXCEPT ![o] = NewRouteMessage(m)]
                          /\ cache' = cache \cup {o}
    BY <1>1 DEF processBlockInfo, RelayMessageByHeight
  <2>2. o \in Objs /\ o \notin cache
    BY DEF Free, Referenced
  <2>3. obj'[o].msg = m /\ \A x \in cache : obj'[x].msg = obj[x].msg
    BY <1>t, <2>1, <2>2 DEF NewRouteMessage
  <2>4. InMemory' = InMemory \cup {m}
    BY <2>1, <2>3, MemoryPlus
  <2>5. UNCHANGED <<db, delivered, dropped, crashes>>
    BY <1>1 DEF processBlockInfo, RelayMessageByHeight
  <2> QED
    BY <2>4, <2>5, DiskSame DEF Promised, D!Next, D!Accept
<1>2. ASSUME NEW c \in Chains, processBlockInfoStore(c) PROVE Promised
  <2>1. ingest[c] \in Objs
    BY <1>2, <1>t DEF processBlockInfoStore
  <2>2. \A x \in cache : obj'[x].msg = obj[x].msg
    BY <1>2, <1>t DEF processBlockInfoStore, Collected, Referenced
  <2>3. /\ cache' = cache /\ UNCHANGED <<delivered, dropped, crashes>>
        /\ db' = StoreMessage(obj[ingest[c]]) \/ db' = db
    BY <1>2 DEF processBlockInfoStore
  <2> QED
    BY <2>1, <2>2, <2>3, <1>m, Saving
<1>3. ASSUME NEW o \in Objs, processMessages(o) PROVE Promised
  <2>1. \A x \in Objs : obj'[x].msg = obj[x].msg
    BY <1>3, <1>t, ToggleType DEF processMessages
  <2>2. o \in cache /\ UNCHANGED <<db, delivered, crashes>>
    BY <1>3 DEF processMessages
  <2>3. CASE cache' = cache /\ dropped' = dropped
    BY <2>1, <2>2, <2>3, <1>t, Quiet
  <2>4. CASE cache' = cache \ {o} /\ dropped' = dropped \cup {obj[o].msg}
    <3>1. InMemory' \in {InMemory, InMemory \ {obj[o].msg}}
      BY <2>1, <2>2, <2>4, <1>t, MemoryMinus
    <3>2. OnDisk' = OnDisk
      BY <2>2, DiskSame
    <3>3. D!GiveUp({obj[o].msg})
      BY <2>2, <2>4, <3>1, <3>2 DEF D!GiveUp
    <3> QED
      BY <3>3, <1>m DEF Promised, D!Next
  <2> QED
    BY <1>3, <2>3, <2>4 DEF processMessages
<1>4. ASSUME messageReceivedErr PROVE Promised
  <2>1. \A x \in Objs : [obj EXCEPT ![router.obj] = ToggleProcessing(@)][x].msg = obj[x].msg
    BY <1>t, ToggleType
  <2>2. \A x \in cache : obj'[x].msg = obj[x].msg
    BY <1>4, <1>t, <2>1 DEF messageReceivedErr, Collected, Referenced
  <2> QED
    BY <1>4, <2>2, Quiet DEF messageReceivedErr
<1>5. ASSUME messageReceivedTrue PROVE Promised
  <2>1. router.obj \in Objs /\ Gone(obj[router.obj].msg)
    BY <1>5, <1>t DEF messageReceivedTrue, MessageReceived, Gone
  <2>2. cache' = cache \ {router.obj} /\ UNCHANGED <<obj, db, delivered, dropped, crashes>>
    BY <1>5 DEF messageReceivedTrue
  <2>3. CASE router.obj \in cache
    BY <2>1, <2>2, <2>3, <1>m, Releasing
  <2>4. CASE router.obj \notin cache
    BY <2>2, <2>4, Quiet
  <2> QED
    BY <2>3, <2>4
<1>6. ASSUME messageReceivedFalse PROVE Promised
  BY <1>6, Quiet DEF messageReceivedFalse
<1>7. ASSUME processMessagesClear PROVE Promised
  <2>1. router.obj \in Objs /\ Gone(obj[router.obj].msg)
    BY <1>7, <1>t, <1>l DEF processMessagesClear, ClearOK, Gone
  <2>2. \A x \in cache : obj'[x].msg = obj[x].msg
    BY <1>7, <1>t DEF processMessagesClear, Collected, Referenced
  <2>3. /\ cache' = cache /\ UNCHANGED <<delivered, dropped, crashes>>
        /\ db' = DeleteMessage(obj[router.obj].msg) \/ db' = db
    BY <1>7 DEF processMessagesClear
  <2> QED
    BY <2>1, <2>2, <2>3, <1>m, Deleting
<1>8. ASSUME NEW g \in Gors, RouteMessage(g) PROVE Promised
  <2>1. \A x \in Objs : obj'[x].msg = obj[x].msg
    BY <1>8, <1>t, IncrementType DEF RouteMessage
  <2> QED
    BY <1>8, <1>t, <2>1, Quiet DEF RouteMessage
<1>9. ASSUME NEW g \in Gors, ExecuteTx(g) PROVE Promised
  <2>1. MsgOf(g) \in Msgs
    BY <1>9, <1>t, <1>m DEF ExecuteTx, MsgOf
  <2>2. InMemory' = InMemory /\ OnDisk' = OnDisk
    BY <1>9, MemorySame, DiskSame DEF ExecuteTx
  <2>3. /\ UNCHANGED <<dropped, crashes>>
        /\ delivered' = delivered \/ delivered' = delivered \cup {MsgOf(g)}
    BY <1>9 DEF ExecuteTx
  <2> QED
    BY <2>1, <2>2, <2>3 DEF Promised, D!Next, D!Execute, D!promise
<1>10. ASSUME NEW g \in Gors, WaitTimeout(g) \/ WaitForever(g) PROVE Promised
  BY <1>10, Quiet DEF WaitTimeout, WaitForever
<1>11. ASSUME NEW g \in Gors, callback(g) PROVE Promised
  <2>1. gor[g].obj \in Objs /\ Gone(obj[gor[g].obj].msg)
    BY <1>11, <1>t, <1>l DEF callback, ClearOK, MsgOf, Gone
  <2>2. \A x \in cache' : obj'[x].msg = obj[x].msg
    BY <1>11, <1>t DEF callback, Collected, Referenced
  <2>3. UNCHANGED <<db, delivered, dropped, crashes>>
    BY <1>11 DEF callback
  <2>4. CASE cache' = cache
    BY <2>2, <2>3, <2>4, Quiet
  <2>5. CASE gor[g].obj \in cache /\ cache' = cache \ {gor[g].obj}
    BY <2>1, <2>2, <2>3, <2>5, <1>m, Releasing
  <2> QED
    BY <1>11, <2>4, <2>5 DEF callback
<1>12. ASSUME NEW g \in Gors, callbackClear(g) PROVE Promised
  <2>1. gor[g].obj \in Objs /\ Gone(MsgOf(g)) /\ MsgOf(g) \in Msgs
    BY <1>12, <1>t, <1>l, <1>m DEF callbackClear, ClearOK, Gone, MsgOf
  <2>2. \A x \in cache : obj'[x].msg = obj[x].msg
    BY <1>12, <1>t DEF callbackClear, Collected, Referenced
  <2>3. /\ cache' = cache /\ UNCHANGED <<delivered, dropped, crashes>>
        /\ db' = DeleteMessage(MsgOf(g)) \/ db' = db
    BY <1>12 DEF callbackClear
  <2> QED
    BY <2>1, <2>2, <2>3, Deleting
<1>13. ASSUME NEW g \in Gors, HandleMessageFailed(g) PROVE Promised
  <2>1. \A x \in Objs : [obj EXCEPT ![gor[g].obj] = ToggleProcessing(obj[gor[g].obj])][x].msg = obj[x].msg
    BY <1>t, ToggleType
  <2>2. \A x \in cache : obj'[x].msg = obj[x].msg
    BY <1>13, <1>t, <2>1 DEF HandleMessageFailed, Collected, Referenced
  <2> QED
    BY <1>13, <2>2, Quiet DEF HandleMessageFailed
<1>14. ASSUME NEW g \in Gors, HandleMessageFailedStore(g) PROVE Promised
  <2>1. gor[g].obj \in Objs
    BY <1>14, <1>t DEF HandleMessageFailedStore
  <2>2. \A x \in cache : obj'[x].msg = obj[x].msg
    BY <1>14, <1>t DEF HandleMessageFailedStore, Collected, Referenced
  <2>3. /\ cache' = cache /\ UNCHANGED <<delivered, dropped, crashes>>
        /\ db' = StoreMessage(obj[gor[g].obj]) \/ db' = db
    BY <1>14 DEF HandleMessageFailedStore
  <2> QED
    BY <2>1, <2>2, <2>3, <1>m, Saving
<1>15. ASSUME NEW g \in Gors, HandleMessageFailedRemove(g) PROVE Promised
  <2>1. gor[g].obj \in Objs /\ (Gone(obj[gor[g].obj].msg) \/ InDb(obj[gor[g].obj].msg))
    BY <1>15, <1>t, <1>l DEF HandleMessageFailedRemove, ClearOK, Gone, MsgOf
  <2>2. \A x \in cache' : obj'[x].msg = obj[x].msg
    BY <1>15, <1>t DEF HandleMessageFailedRemove, Collected, Referenced
  <2>3. cache' = cache \ {gor[g].obj} /\ UNCHANGED <<db, delivered, dropped, crashes>>
    BY <1>15 DEF HandleMessageFailedRemove
  <2>4. CASE gor[g].obj \in cache
    BY <2>1, <2>2, <2>3, <2>4, <1>m, Releasing
  <2>5. CASE gor[g].obj \notin cache
    BY <2>2, <2>3, <2>5, Quiet
  <2> QED
    BY <2>4, <2>5
<1>16. ASSUME NEW m \in Msgs, ExecuteLateTx(m) PROVE Promised
  <2>1. InMemory' = InMemory /\ OnDisk' = OnDisk
    BY <1>16, MemorySame, DiskSame DEF ExecuteLateTx
  <2> QED
    BY <1>16, <2>1 DEF ExecuteLateTx, Promised, D!Next, D!Execute
<1>17. ASSUME NEW m \in Msgs, CheckFinality(m) PROVE Promised
  BY <1>17, Quiet DEF CheckFinality
<1>19. ASSUME NEW c \in Chains, flushMessages(c) PROVE Promised
  <2>1. UNCHANGED <<db, delivered, dropped, crashes>>
    BY <1>19 DEF flushMessages
  <2> QED
    BY <1>19, <2>1, FlushLoads, DiskSame DEF Promised, D!Next, D!Load
<1>20. ASSUME NEW c \in Chains, cleanExpiredFetch(c) PROVE Promised
  BY <1>20, Quiet DEF cleanExpiredFetch
<1>21. ASSUME NEW o \in Objs, BackoffEnds(o) PROVE Promised
  <2>1. \A x \in Objs : obj'[x].msg = obj[x].msg
    BY <1>21, <1>t DEF BackoffEnds
  <2> QED
    BY <1>21, <1>t, <2>1, Quiet DEF BackoffEnds
<1>22. ASSUME NEW k \in cleaner, cleanExpiredDelete(k) PROVE Promised
  <2> DEFINE S == {m \in Msgs : Key(m) = k /\ InDb(m)}
  <2>1. cache' = cache /\ obj' = obj /\ delivered' = delivered /\ crashes' = crashes
    BY <1>22 DEF cleanExpiredDelete
  <2>2. CASE db' = db /\ dropped' = dropped
    BY <2>1, <2>2, Quiet
  <2>3. CASE db' = {r \in db : Key(r.msg) # k} /\ dropped' = dropped \cup S
    <3>1. \A m \in Msgs : InDb(m)' <=> InDb(m) /\ Key(m) # k
      BY <2>3 DEF InDb
    <3>2. OnDisk' = OnDisk \ S
      BY <3>1 DEF OnDisk
    <3>3. InMemory' = InMemory
      BY <2>1, MemorySame
    <3>4. S \in SUBSET Msgs
      OBVIOUS
    <3> HIDE DEF S
    <3> QED
      BY <2>1, <2>3, <3>2, <3>3, <3>4 DEF Promised, D!Next, D!GiveUp
  <2> QED
    BY <1>22, <2>2, <2>3 DEF cleanExpiredDelete
<1>23. ASSUME NEW r \in db, RelayMessageFromStore(r) PROVE Promised
  <2>1. PICK o \in Free, x \in Loaded(r) : /\ obj' = [obj EXCEPT ![o] = x]
                                           /\ cache' = cache \cup {o}
    BY <1>23 DEF RelayMessageFromStore
  <2>2. o \in Objs /\ o \notin cache
    BY DEF Free, Referenced
  <2>3. r.msg \in Msgs /\ x.msg = r.msg
    BY <1>t, LoadedType DEF RouteMessageType
  <2>4. obj'[o].msg = r.msg /\ \A y \in cache : obj'[y].msg = obj[y].msg
    BY <1>t, <2>1, <2>2, <2>3
  <2>5. InMemory' = InMemory \cup {r.msg}
    BY <2>1, <2>3, <2>4, MemoryPlus
  <2>6. UNCHANGED <<db, delivered, dropped, crashes>>
    BY <1>23 DEF RelayMessageFromStore
  <2> QED
    BY <2>3, <2>5, <2>6, DiskSame DEF Promised, D!Next, D!Accept
<1>24. ASSUME NEW r \in db, MessageRemove(r) PROVE Promised
  <2>1. r \in RouteMessageType /\ r.msg \in Msgs
    BY <1>t DEF RouteMessageType
  <2>2. /\ db' = DeleteMessage(r.msg) /\ dropped' = dropped \cup {r.msg}
        /\ cache' = cache /\ obj' = obj /\ delivered' = delivered /\ crashes' = crashes
    BY <1>24 DEF MessageRemove
  <2>3. OnDisk' = OnDisk \ {r.msg} /\ InMemory' = InMemory
    BY <2>1, <2>2, DiskStep, MemorySame
  <2>4. D!GiveUp({r.msg})
    BY <2>2, <2>3 DEF D!GiveUp
  <2> QED
    BY <2>1, <2>4 DEF Promised, D!Next
<1>25. ASSUME PruneDB PROVE Promised
  <2>1. /\ db' = {} /\ dropped' = dropped \cup {r.msg : r \in db}
        /\ cache' = cache /\ obj' = obj /\ delivered' = delivered /\ crashes' = crashes
    BY <1>25 DEF PruneDB
  <2>2. OnDisk' = {} /\ {r.msg : r \in db} = OnDisk
    BY <2>1, <1>t DEF OnDisk, InDb, RouteMessageType
  <2>3. InMemory' = InMemory /\ OnDisk \in SUBSET Msgs
    BY <2>1, MemorySame DEF OnDisk
  <2>4. D!GiveUp(OnDisk)
    BY <2>1, <2>2, <2>3 DEF D!GiveUp
  <2> QED
    BY <2>3, <2>4 DEF Promised, D!Next
<1>26. ASSUME NEW fresh \in BOOLEAN, Restart(fresh) PROVE Promised
  <2>1. /\ cache' = {} /\ delivered' = delivered /\ crashes' = crashes + 1
        /\ \/ db' = {} /\ dropped' = dropped \cup {r.msg : r \in db}
           \/ db' = db /\ dropped' = dropped
    BY <1>26 DEF Restart
  <2>2. InMemory' = {}
    BY <2>1 DEF InMemory, Cached
  <2>3. {r.msg : r \in db} = OnDisk
    BY <1>t DEF OnDisk, InDb, RouteMessageType
  <2>4. CASE db' = {} /\ dropped' = dropped \cup {r.msg : r \in db}
    <3>1. OnDisk' = {}
      BY <2>4 DEF OnDisk, InDb
    <3> QED
      BY <2>1, <2>2, <2>3, <2>4, <3>1 DEF Promised, D!Next, D!Crash
  <2>5. CASE db' = db /\ dropped' = dropped
    BY <2>1, <2>2, <2>5, DiskSame DEF Promised, D!Next, D!Crash
  <2> QED
    BY <2>1, <2>4, <2>5
<1>27. CASE UNCHANGED vars
  BY <1>27, Quiet DEF vars
<1> QED
  BY <1>1, <1>2, <1>3, <1>4, <1>5, <1>6, <1>7, <1>8, <1>9, <1>10, <1>11, <1>12, <1>13, <1>14,
     <1>15, <1>16, <1>17, <1>19, <1>20, <1>21, <1>22, <1>23, <1>24, <1>25, <1>26, <1>27
  DEF Next

\* relay.go: processBlockInfo, processMessages, the callback, HandleMessageFailed,
\* ClearMessages, the tickers and the socket's commands together implement the
\* promise of module Delivery, if no two messages share the row key.
THEOREM Implementation == KeyInjective => (Spec => KeepsPromise)
<1> SUFFICES ASSUME KeyInjective PROVE Spec => KeepsPromise
  OBVIOUS
<1>1. Init => D!Init
  BY DEF Init, D!Init, InMemory, OnDisk, Cached, InDb
<1>2. Init => LossInv
  BY DEF Init, LossInv, ClearOK, Durable, NoSilentLoss, Idle, At
<1>3. TypeInv /\ TypeInv' /\ LossInv /\ [Next]_vars => LossInv'
  BY LossStep
<1>4. TypeInv /\ LossInv /\ [Next]_vars => [D!Next]_(D!promise)
  BY PromiseKept DEF Promised
<1> QED
  BY <1>1, <1>2, <1>3, <1>4, TypeInit, TypeStep, PTL DEF Spec, KeepsPromise, D!Spec
=============================================================================
