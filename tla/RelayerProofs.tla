--------------------------- MODULE RelayerProofs ---------------------------
(***************************************************************************)
(* Proofs about the relaying core, for every value of the constants: any   *)
(* number of chains, messages, objects and goroutines, any MaxTxRetry and  *)
(* page size, any number of crashes, failing writes and commands.          *)
(***************************************************************************)
EXTENDS Relayer, TLAPS

USE DEF LastTry

----------------------------------------------------------------------------
(* The operators the model is built from stay within RouteMessageType.     *)

\* A free heap slot holds a well-formed RouteMessage.
LEMMA BlankType == Blank \in RouteMessageType
  BY ConstantsAssumption DEF Blank, RouteMessageType

\* NewRouteMessage makes a well-formed RouteMessage of a message.
LEMMA NewType == ASSUME NEW m \in Msgs PROVE NewRouteMessage(m) \in RouteMessageType
  BY DEF NewRouteMessage, RouteMessageType

\* IncrementRetry leaves the message and Processing alone.
LEMMA IncrementType ==
  ASSUME NEW r \in RouteMessageType
  PROVE  /\ IncrementRetry(r) \in RouteMessageType
         /\ IncrementRetry(r).msg = r.msg
         /\ IncrementRetry(r).processing = r.processing
  BY DEF RouteMessageType, IncrementRetry

\* ToggleProcessing leaves the message alone and negates Processing.
LEMMA ToggleType ==
  ASSUME NEW r \in RouteMessageType
  PROVE  /\ ToggleProcessing(r) \in RouteMessageType
         /\ ToggleProcessing(r).msg = r.msg
         /\ ToggleProcessing(r).processing <=> ~r.processing
  BY DEF RouteMessageType, ToggleProcessing

\* An object read back from a row differs from it in LastTry at most.
LEMMA LoadedType ==
  ASSUME NEW r \in RouteMessageType, NEW x \in Loaded(r)
  PROVE  x \in RouteMessageType /\ x.msg = r.msg /\ x.processing = r.processing
  BY DEF RouteMessageType, Loaded, Aged

\* Garbage collection keeps the heap well-formed and every referenced object.
LEMMA CollectedType ==
  ASSUME NEW h \in [Objs -> RouteMessageType], NEW c, NEW g, NEW r, NEW i
  PROVE  /\ Collected(h, c, g, r, i) \in [Objs -> RouteMessageType]
         /\ \A o \in Objs : Referenced(o, c, g, r, i) => Collected(h, c, g, r, i)[o] = h[o]
  BY BlankType DEF Collected

\* The message store stays a set of rows under StoreMessage and DeleteMessage.
LEMMA StoreType ==
  ASSUME TypeOK, NEW r \in RouteMessageType, NEW m \in Msgs
  PROVE  StoreMessage(r) \subseteq RouteMessageType /\ DeleteMessage(m) \subseteq RouteMessageType
  BY DEF TypeOK, StoreMessage, DeleteMessage

\* flushMessages writes free slots only, and what it writes is well-formed.
LEMMA FlushType ==
  ASSUME TypeOK, NEW c \in Chains, flushMessages(c)
  PROVE  /\ obj' \in [Objs -> RouteMessageType]
         /\ cache' \subseteq Objs /\ cache \subseteq cache'
         /\ \A o \in Objs : o \notin Free => obj'[o] = obj[o]
<1> DEFINE rows == getActiveMessagesFromStore(c)
<1>1. rows \subseteq RouteMessageType
  BY DEF TypeOK, getActiveMessagesFromStore, GetMessages
<1>2. PICK slot \in [rows -> Free] :
        /\ \E load \in [rows -> UNION {Loaded(r) : r \in rows}] :
             /\ \A r \in rows : load[r] \in Loaded(r)
             /\ obj' = [o \in Objs |->
                          IF \E r \in rows : slot[r] = o
                          THEN load[CHOOSE r \in rows : slot[r] = o] ELSE obj[o]]
        /\ cache' = cache \cup {slot[r] : r \in rows}
  BY DEF flushMessages
<1>3. PICK load \in [rows -> UNION {Loaded(r) : r \in rows}] :
        /\ \A r \in rows : load[r] \in Loaded(r)
        /\ obj' = [o \in Objs |->
                     IF \E r \in rows : slot[r] = o
                     THEN load[CHOOSE r \in rows : slot[r] = o] ELSE obj[o]]
  BY <1>2
<1> HIDE DEF rows
<1>4. \A r \in rows : load[r] \in RouteMessageType
  BY <1>1, <1>3, LoadedType
<1>5. ASSUME NEW o \in Objs PROVE obj'[o] \in RouteMessageType /\ (o \notin Free => obj'[o] = obj[o])
  <2>1. CASE \E r \in rows : slot[r] = o
    <3>1. PICK q \in rows : q = (CHOOSE r \in rows : slot[r] = o) /\ slot[q] = o
      BY <2>1
    <3>2. obj'[o] = load[q]
      BY <1>3, <2>1, <3>1
    <3>3. o \in Free
      BY <1>2, <3>1
    <3> QED
      BY <1>4, <3>1, <3>2, <3>3
  <2>2. CASE ~\E r \in rows : slot[r] = o
    BY <1>3, <2>2 DEF TypeOK
  <2> QED BY <2>1, <2>2
<1>6. Free \subseteq Objs
  BY DEF Free
<1>7. cache' \subseteq Objs /\ cache \subseteq cache'
  BY <1>2, <1>6 DEF TypeOK
<1>8. obj' = [o \in Objs |-> obj'[o]]
  BY <1>3
<1> QED BY <1>5, <1>7, <1>8

----------------------------------------------------------------------------
(* Type correctness.                                                       *)

TypeInv == TypeOK /\ ThreadsOK

\* The initial state is well-typed and every thread is idle.
LEMMA TypeInit == Init => TypeInv
  BY ConstantsAssumption, BlankType
  DEF Init, TypeInv, TypeOK, ThreadsOK, Idle, At, PCs, RouteMessageType

\* Every step of every thread keeps the types, and every thread that is not
\* idle keeps hold of an object of the heap.
LEMMA TypeStep == TypeInv /\ [Next]_vars => TypeInv'
<1> SUFFICES ASSUME TypeInv, [Next]_vars PROVE TypeInv'
  OBVIOUS
<1> USE ConstantsAssumption, BlankType
<1> USE DEF TypeInv, TypeOK, ThreadsOK, threads, chain, bounds, history, Idle, At, PCs, DbErr
<1>a. \A g \in Gors : gor[g].pc # "idle" => gor[g].obj \in Objs /\ MsgOf(g) \in Msgs
  BY DEF MsgOf, RouteMessageType
<1>b. router.pc # "idle" => router.obj \in Objs /\ obj[router.obj].msg \in Msgs
  BY DEF RouteMessageType
<1>c. Free \subseteq Objs
  BY DEF Free
<1>1. ASSUME NEW m \in Msgs, processBlockInfo(m) PROVE TypeInv'
  BY <1>1, <1>c, NewType DEF processBlockInfo
<1>2. ASSUME NEW c \in Chains, processBlockInfoStore(c) PROVE TypeInv'
  <2>1. obj[ingest[c]] \in RouteMessageType /\ obj[ingest[c]].msg \in Msgs
    BY <1>2 DEF processBlockInfoStore, RouteMessageType
  <2>2. obj' \in [Objs -> RouteMessageType]
    BY <1>2, CollectedType DEF processBlockInfoStore
  <2>3. db' \subseteq RouteMessageType /\ stored' \subseteq Msgs /\ dbErrs' \in Nat
    BY <1>2, <2>1, StoreType DEF processBlockInfoStore
  <2>4. /\ ingest' = [ingest EXCEPT ![c] = NoObj]
        /\ UNCHANGED <<cache, gor, router, cleaner, txObjs, chain,
                       seen, crashes, ops, accepted, dropped>>
    BY <1>2 DEF processBlockInfoStore
  <2> QED
    BY <2>2, <2>3, <2>4
<1>3. ASSUME NEW o \in Objs, processMessages(o) PROVE TypeInv'
  <2>1. obj[o] \in RouteMessageType /\ obj[o].msg \in Msgs
    BY DEF RouteMessageType
  <2> QED
    BY <1>3, <2>1, ToggleType DEF processMessages
<1>4. ASSUME messageReceivedErr PROVE TypeInv'
  <2>1. [obj EXCEPT ![router.obj] = ToggleProcessing(@)] \in [Objs -> RouteMessageType]
    BY ToggleType
  <2>2. obj' \in [Objs -> RouteMessageType]
    BY <1>4, <2>1, CollectedType DEF messageReceivedErr
  <2> QED
    BY <1>4, <2>2 DEF messageReceivedErr
<1>5. ASSUME messageReceivedTrue PROVE TypeInv'
  BY <1>5, <1>b DEF messageReceivedTrue
<1>6. ASSUME messageReceivedFalse PROVE TypeInv'
  BY <1>6, <1>b DEF messageReceivedFalse
<1>7. ASSUME processMessagesClear PROVE TypeInv'
  <2>1. obj' \in [Objs -> RouteMessageType]
    BY <1>7, CollectedType DEF processMessagesClear
  <2>2. db' \subseteq RouteMessageType
    BY <1>7, <1>b DEF processMessagesClear, DeleteMessage
  <2> QED
    BY <1>7, <2>1, <2>2 DEF processMessagesClear
<1>8. ASSUME NEW g \in Gors, RouteMessage(g) PROVE TypeInv'
  BY <1>8, <1>a, IncrementType DEF RouteMessage
<1>9. ASSUME NEW g \in Gors, ExecuteTx(g) PROVE TypeInv'
  <2>1. /\ gor[g].obj \in Objs
        /\ delivered' \subseteq Msgs
        /\ \E pc \in {"succeeded", "failed"} : gor' = [gor EXCEPT ![g] = At(pc, gor[g].obj)]
    BY <1>9, <1>a DEF ExecuteTx
  <2> QED
    BY <1>9, <2>1 DEF ExecuteTx
<1>10. ASSUME NEW g \in Gors, WaitTimeout(g) \/ WaitForever(g) PROVE TypeInv'
  BY <1>10, <1>a DEF WaitTimeout, WaitForever
<1>11. ASSUME NEW g \in Gors, callback(g) PROVE TypeInv'
  <2>1. obj' \in [Objs -> RouteMessageType]
    BY <1>11, CollectedType DEF callback
  <2> QED
    BY <1>11, <1>a, <2>1 DEF callback
<1>12. ASSUME NEW g \in Gors, callbackClear(g) PROVE TypeInv'
  <2>1. obj' \in [Objs -> RouteMessageType]
    BY <1>12, CollectedType DEF callbackClear
  <2>2. db' \subseteq RouteMessageType /\ dbErrs' \in Nat
    BY <1>12 DEF callbackClear, DeleteMessage
  <2>3. gor' = [gor EXCEPT ![g] = Idle]
    BY <1>12 DEF callbackClear
  <2>4. UNCHANGED <<cache, router, ingest, cleaner, txObjs, chain, seen, crashes, ops, history>>
    BY <1>12 DEF callbackClear
  <2> QED
    BY <2>1, <2>2, <2>3, <2>4
<1>13. ASSUME NEW g \in Gors, HandleMessageFailed(g) PROVE TypeInv'
  <2>1. [obj EXCEPT ![gor[g].obj] = ToggleProcessing(obj[gor[g].obj])] \in [Objs -> RouteMessageType]
    BY <1>13, <1>a, ToggleType DEF HandleMessageFailed
  <2>2. obj' \in [Objs -> RouteMessageType]
    BY <1>13, <2>1, CollectedType DEF HandleMessageFailed
  <2> QED
    BY <1>13, <1>a, <2>2 DEF HandleMessageFailed
<1>14. ASSUME NEW g \in Gors, HandleMessageFailedStore(g) PROVE TypeInv'
  <2>1. obj' \in [Objs -> RouteMessageType]
    BY <1>14, CollectedType DEF HandleMessageFailedStore
  <2>2. db' \subseteq RouteMessageType /\ dbErrs' \in Nat
    BY <1>14, <1>a DEF HandleMessageFailedStore, StoreMessage
  <2>3. gor[g].obj \in Objs
    BY <1>14, <1>a DEF HandleMessageFailedStore
  <2>4. \E s \in {At("remove", gor[g].obj), Idle} : gor' = [gor EXCEPT ![g] = s]
    BY <1>14 DEF HandleMessageFailedStore
  <2>5. UNCHANGED <<cache, router, ingest, cleaner, txObjs, chain, seen, crashes, ops, history>>
    BY <1>14 DEF HandleMessageFailedStore
  <2> QED
    BY <2>1, <2>2, <2>3, <2>4, <2>5
<1>15. ASSUME NEW g \in Gors, HandleMessageFailedRemove(g) PROVE TypeInv'
  <2>1. obj' \in [Objs -> RouteMessageType]
    BY <1>15, CollectedType DEF HandleMessageFailedRemove
  <2> QED
    BY <1>15, <2>1 DEF HandleMessageFailedRemove
<1>16. ASSUME NEW m \in Msgs, ExecuteLateTx(m) PROVE TypeInv'
  BY <1>16 DEF ExecuteLateTx
<1>17. ASSUME NEW m \in Msgs, CheckFinality(m) PROVE TypeInv'
  BY <1>17 DEF CheckFinality
<1>18. ASSUME NEW m \in Msgs, RelayMessageByHeight(m) PROVE TypeInv'
  BY <1>18, <1>c, NewType DEF RelayMessageByHeight, Command
<1>19. ASSUME NEW c \in Chains, flushMessages(c) PROVE TypeInv'
  <2>1. obj' \in [Objs -> RouteMessageType] /\ cache' \subseteq Objs
    BY <1>19, FlushType
  <2>2. UNCHANGED <<threads, db, txObjs, chain, bounds, history>>
    BY <1>19 DEF flushMessages
  <2> QED
    BY <2>1, <2>2
<1>20. ASSUME NEW c \in Chains, cleanExpiredFetch(c) PROVE TypeInv'
  <2>1. \A r \in GetMessages(c) : r.msg \in Msgs
    BY DEF GetMessages, RouteMessageType
  <2>2. PICK old \in SUBSET {r \in GetMessages(c) : r.lastTry # "zero"} :
          cleaner' = {Key(r.msg) : r \in old \cup {x \in GetMessages(c) : x.lastTry = "zero"}}
    BY <1>20 DEF cleanExpiredFetch
  <2>3. cleaner' \subseteq {Key(m) : m \in Msgs}
    BY <2>1, <2>2
  <2> QED
    BY <1>20, <2>3 DEF cleanExpiredFetch
<1>21. ASSUME NEW o \in Objs, BackoffEnds(o) PROVE TypeInv'
  BY <1>21 DEF BackoffEnds, RouteMessageType
<1>22. ASSUME NEW k \in cleaner, cleanExpiredDelete(k) PROVE TypeInv'
  BY <1>22 DEF cleanExpiredDelete
<1>23. ASSUME NEW r \in db, RelayMessageFromStore(r) PROVE TypeInv'
  BY <1>23, <1>c, LoadedType DEF RelayMessageFromStore, Command
<1>24. ASSUME NEW r \in db, MessageRemove(r) PROVE TypeInv'
  BY <1>24 DEF MessageRemove, Command, DeleteMessage, RouteMessageType
<1>25. ASSUME PruneDB PROVE TypeInv'
  BY <1>25 DEF PruneDB, Command, RouteMessageType
<1>26. ASSUME NEW fresh \in BOOLEAN, Restart(fresh) PROVE TypeInv'
  <2>1. mempool' \subseteq Msgs
    BY <1>26, <1>a DEF Restart
  <2>2. db' \subseteq RouteMessageType /\ txObjs' \subseteq Msgs /\ dropped' \subseteq Msgs
    BY <1>26 DEF Restart, RouteMessageType
  <2> QED
    BY <1>26, <2>1, <2>2 DEF Restart
<1>27. CASE UNCHANGED vars
  BY <1>27 DEF vars
<1> QED
  BY <1>1, <1>2, <1>3, <1>4, <1>5, <1>6, <1>7, <1>8, <1>9, <1>10, <1>11, <1>12, <1>13, <1>14,
     <1>15, <1>16, <1>17, <1>18, <1>19, <1>20, <1>21, <1>22, <1>23, <1>24, <1>25, <1>26, <1>27
  DEF Next

\* Spec is type-correct: objects, rows and thread states keep their shape
\* under every interleaving of the router, the attempts, the tickers, the
\* operator and crashes.
THEOREM TypeCorrect == Spec => []TypeOK
<1>1. Spec => []TypeInv
  BY TypeInit, TypeStep, PTL DEF Spec
<1> QED
  BY <1>1, PTL DEF TypeInv

----------------------------------------------------------------------------
(* Processing is a lock.                                                   *)

LockInv == LockOK /\ RouteMutex

\* What a thread refers to is not collected.
LEMMA Kept ==
  ASSUME NEW h \in [Objs -> RouteMessageType], NEW c, NEW g, NEW r, NEW i
  PROVE  /\ \A x \in Gors : g[x].obj \in Objs => Collected(h, c, g, r, i)[g[x].obj] = h[g[x].obj]
         /\ r.obj \in Objs => Collected(h, c, g, r, i)[r.obj] = h[r.obj]
         /\ \A o \in Objs : o \in c => Collected(h, c, g, r, i)[o] = h[o]
  BY CollectedType DEF Referenced

\* A free slot belongs to no thread and to no cache.
LEMMA FreeSlot ==
  ASSUME TypeInv, NEW o \in Free
  PROVE  o \in Objs /\ o \notin cache /\ router.obj # o /\ \A g \in Gors : gor[g].obj # o
  BY DEF Free, Referenced

\* A step that gives no object a new owner and releases Processing only of
\* objects that are left without one preserves the lock.
LEMMA LockStable ==
  ASSUME TypeInv, TypeInv', LockInv,
         \A g \in Gors : InRoute(g)' => InRoute(g) /\ gor'[g].obj = gor[g].obj,
         router'.pc = "query" => router' = router,
         \A g \in Gors : InRoute(g)' /\ obj[gor[g].obj].processing => obj'[gor[g].obj].processing,
         router'.pc = "query" /\ obj[router.obj].processing => obj'[router.obj].processing
  PROVE  LockInv'
  BY DEF LockInv, LockOK, RouteMutex, Querying

\* No step of any thread breaks the lock.
LEMMA LockStep == TypeInv /\ TypeInv' /\ LockInv /\ [Next]_vars => LockInv'
<1> SUFFICES ASSUME TypeInv, TypeInv', LockInv, [Next]_vars PROVE LockInv'
  OBVIOUS
<1> USE DEF threads, Idle, At
<1>t. /\ obj \in [Objs -> RouteMessageType]
      /\ \A g \in Gors : gor[g].pc # "idle" => gor[g].obj \in Objs
      /\ router.pc # "idle" => router.obj \in Objs
      /\ router \in [pc : {"idle", "query", "clear"}, obj : Objs \cup {NoObj}]
      /\ gor \in [Gors -> [pc : PCs, obj : Objs \cup {NoObj}]]
  BY DEF TypeInv, TypeOK, ThreadsOK
<1>i. \A g \in Gors : InRoute(g) => gor[g].obj \in Objs
  BY <1>t DEF InRoute
<1>1. ASSUME NEW m \in Msgs, processBlockInfo(m) PROVE LockInv'
  BY <1>1, <1>t, <1>i, FreeSlot, LockStable DEF processBlockInfo, InRoute
<1>2. ASSUME NEW c \in Chains, processBlockInfoStore(c) PROVE LockInv'
  BY <1>2, <1>t, <1>i, Kept, LockStable DEF processBlockInfoStore, InRoute
<1>3. ASSUME NEW o \in Objs, processMessages(o) PROVE LockInv'
  <2>1. CASE router' = At("clear", o) /\ UNCHANGED <<obj, gor>>
    BY <2>1, LockStable DEF InRoute
  <2>2. CASE /\ ~obj[o].processing
             /\ obj' = [obj EXCEPT ![o] = ToggleProcessing(@)]
             /\ router' = At("query", o)
             /\ gor' = gor
    <3>1. obj'[o].processing
      BY <2>2, <1>t, ToggleType
    <3>2. \A g \in Gors : InRoute(g) => gor[g].obj # o /\ obj'[gor[g].obj] = obj[gor[g].obj]
      BY <2>2, <1>t, <1>i DEF LockInv, LockOK
    <3> QED
      BY <2>2, <3>1, <3>2 DEF LockInv, LockOK, RouteMutex, Querying, InRoute
  <2> QED
    BY <1>3, <2>1, <2>2 DEF processMessages, IsProcessing
<1>4. ASSUME messageReceivedErr PROVE LockInv'
  <2> DEFINE h == [obj EXCEPT ![router.obj] = ToggleProcessing(@)]
  <2>1. h \in [Objs -> RouteMessageType]
    BY <1>t, ToggleType
  <2>2. \A g \in Gors : InRoute(g) => obj'[gor[g].obj] = h[gor[g].obj]
    BY <1>4, <1>i, <2>1 DEF messageReceivedErr, Collected, Referenced
  <2>3. \A g \in Gors : InRoute(g) => gor[g].obj # router.obj
    BY <1>4 DEF LockInv, LockOK, Querying, messageReceivedErr
  <2>4. \A g \in Gors : InRoute(g) => obj'[gor[g].obj] = obj[gor[g].obj]
    BY <1>i, <1>t, <2>2, <2>3
  <2> QED
    BY <1>4, <2>4, LockStable DEF messageReceivedErr, InRoute
<1>5. ASSUME messageReceivedTrue PROVE LockInv'
  BY <1>5, LockStable DEF messageReceivedTrue, InRoute
<1>6. ASSUME messageReceivedFalse PROVE LockInv'
  <2>1. PICK x \in Gors : gor' = [gor EXCEPT ![x] = At("start", router.obj)]
    BY <1>6 DEF messageReceivedFalse
  <2>2. obj[router.obj].processing /\ \A g \in Gors : InRoute(g) => gor[g].obj # router.obj
    BY <1>6 DEF messageReceivedFalse, LockInv, LockOK, Querying
  <2>3. \A g \in Gors : InRoute(g)' => IF g = x THEN gor'[g].obj = router.obj
                                      ELSE InRoute(g) /\ gor'[g] = gor[g]
    BY <1>t, <2>1 DEF InRoute
  <2>4. obj' = obj /\ router'.pc = "idle"
    BY <1>6 DEF messageReceivedFalse
  <2> QED
    BY <2>2, <2>3, <2>4 DEF LockInv, LockOK, RouteMutex, Querying
<1>7. ASSUME processMessagesClear PROVE LockInv'
  BY <1>7, <1>t, <1>i, Kept, LockStable DEF processMessagesClear, InRoute
<1>8. ASSUME NEW g \in Gors, RouteMessage(g) PROVE LockInv'
  <2>1. \A o \in Objs : obj[o].processing => obj'[o].processing
    BY <1>8, <1>t, IncrementType DEF RouteMessage
  <2>2. /\ router' = router
        /\ \A x \in Gors : InRoute(x)' => InRoute(x) /\ gor'[x].obj = gor[x].obj
    BY <1>8, <1>t DEF RouteMessage, InRoute
  <2> QED
    BY <1>t, <1>i, <2>1, <2>2, LockStable
<1>9. ASSUME NEW g \in Gors, ExecuteTx(g) PROVE LockInv'
  BY <1>9, <1>t, LockStable DEF ExecuteTx, InRoute
<1>10. ASSUME NEW g \in Gors, WaitTimeout(g) \/ WaitForever(g) PROVE LockInv'
  BY <1>10, <1>t, LockStable DEF WaitTimeout, WaitForever, InRoute
<1>11. ASSUME NEW g \in Gors, callback(g) PROVE LockInv'
  <2>1. /\ router' = router
        /\ \A x \in Gors : InRoute(x)' => InRoute(x) /\ gor'[x].obj = gor[x].obj
    BY <1>11, <1>t DEF callback, InRoute
  <2>2. /\ \A x \in Gors : gor'[x].obj \in Objs => obj'[gor'[x].obj] = obj[gor'[x].obj]
        /\ router.obj \in Objs => obj'[router.obj] = obj[router.obj]
    BY <1>11, <1>t DEF callback, Collected, Referenced
  <2> QED
    BY <1>t, <1>i, <2>1, <2>2, LockStable
<1>12. ASSUME NEW g \in Gors, callbackClear(g) PROVE LockInv'
  <2>1. /\ router' = router
        /\ \A x \in Gors : InRoute(x)' => InRoute(x) /\ gor'[x].obj = gor[x].obj
    BY <1>12, <1>t DEF callbackClear, InRoute
  <2>2. /\ \A x \in Gors : gor'[x].obj \in Objs => obj'[gor'[x].obj] = obj[gor'[x].obj]
        /\ router.obj \in Objs => obj'[router.obj] = obj[router.obj]
    BY <1>12, <1>t DEF callbackClear, Collected, Referenced
  <2> QED
    BY <1>t, <1>i, <2>1, <2>2, LockStable
<1>13. ASSUME NEW g \in Gors, HandleMessageFailed(g) PROVE LockInv'
  <2> DEFINE h == [obj EXCEPT ![gor[g].obj] = ToggleProcessing(obj[gor[g].obj])]
  <2>1. h \in [Objs -> RouteMessageType] /\ InRoute(g)
    BY <1>13, <1>t, ToggleType DEF HandleMessageFailed, InRoute
  <2>2. /\ router' = router
        /\ \A x \in Gors : InRoute(x)' => x # g /\ InRoute(x) /\ gor'[x].obj = gor[x].obj
    BY <1>13, <1>t DEF HandleMessageFailed, InRoute
  <2>3. /\ \A x \in Gors : gor'[x].obj \in Objs => obj'[gor'[x].obj] = h[gor'[x].obj]
        /\ router.obj \in Objs => obj'[router.obj] = h[router.obj]
    BY <1>13, <1>t, <2>1 DEF HandleMessageFailed, Collected, Referenced
  <2>4. \A x \in Gors : InRoute(x)' => gor[x].obj # gor[g].obj
    BY <2>1, <2>2 DEF LockInv, RouteMutex
  <2>5. router.pc = "query" => router.obj # gor[g].obj
    BY <2>1 DEF LockInv, LockOK, Querying
  <2>6. \A o \in Objs : o # gor[g].obj => h[o] = obj[o]
    BY <1>t
  <2> QED
    BY <1>t, <1>i, <2>2, <2>3, <2>4, <2>5, <2>6, LockStable
<1>14. ASSUME NEW g \in Gors, HandleMessageFailedStore(g) PROVE LockInv'
  <2>1. /\ router' = router
        /\ \A x \in Gors : InRoute(x)' => InRoute(x) /\ gor'[x].obj = gor[x].obj
    BY <1>14, <1>t DEF HandleMessageFailedStore, InRoute
  <2>2. /\ \A x \in Gors : gor'[x].obj \in Objs => obj'[gor'[x].obj] = obj[gor'[x].obj]
        /\ router.obj \in Objs => obj'[router.obj] = obj[router.obj]
    BY <1>14, <1>t DEF HandleMessageFailedStore, Collected, Referenced
  <2> QED
    BY <1>t, <1>i, <2>1, <2>2, LockStable
<1>15. ASSUME NEW g \in Gors, HandleMessageFailedRemove(g) PROVE LockInv'
  <2>1. /\ router' = router
        /\ \A x \in Gors : InRoute(x)' => InRoute(x) /\ gor'[x].obj = gor[x].obj
    BY <1>15, <1>t DEF HandleMessageFailedRemove, InRoute
  <2>2. /\ \A x \in Gors : gor'[x].obj \in Objs => obj'[gor'[x].obj] = obj[gor'[x].obj]
        /\ router.obj \in Objs => obj'[router.obj] = obj[router.obj]
    BY <1>15, <1>t DEF HandleMessageFailedRemove, Collected, Referenced
  <2> QED
    BY <1>t, <1>i, <2>1, <2>2, LockStable
<1>16. ASSUME NEW m \in Msgs, ExecuteLateTx(m) PROVE LockInv'
  BY <1>16, LockStable DEF ExecuteLateTx, InRoute
<1>17. ASSUME NEW m \in Msgs, CheckFinality(m) PROVE LockInv'
  BY <1>17, LockStable DEF CheckFinality, InRoute
<1>18. ASSUME NEW m \in Msgs, RelayMessageByHeight(m) PROVE LockInv'
  BY <1>18, <1>t, <1>i, FreeSlot, LockStable DEF RelayMessageByHeight, InRoute
<1>19. ASSUME NEW c \in Chains, flushMessages(c) PROVE LockInv'
  <2>1. \A o \in Objs : o \notin Free => obj'[o] = obj[o]
    BY <1>19, FlushType DEF TypeInv
  <2>2. gor' = gor /\ router' = router
    BY <1>19 DEF flushMessages
  <2> QED
    BY <1>t, <1>i, <2>1, <2>2, FreeSlot, LockStable DEF InRoute
<1>20. ASSUME NEW c \in Chains, cleanExpiredFetch(c) PROVE LockInv'
  BY <1>20, LockStable DEF cleanExpiredFetch, InRoute
<1>21. ASSUME NEW o \in Objs, BackoffEnds(o) PROVE LockInv'
  <2>1. \A x \in Objs : obj[x].processing => obj'[x].processing
    BY <1>21, <1>t DEF BackoffEnds, RouteMessageType
  <2>2. gor' = gor /\ router' = router
    BY <1>21 DEF BackoffEnds
  <2> QED
    BY <1>t, <1>i, <2>1, <2>2, LockStable DEF InRoute
<1>22. ASSUME NEW k \in cleaner, cleanExpiredDelete(k) PROVE LockInv'
  BY <1>22, LockStable DEF cleanExpiredDelete, InRoute
<1>23. ASSUME NEW r \in db, RelayMessageFromStore(r) PROVE LockInv'
  BY <1>23, <1>t, <1>i, FreeSlot, LockStable DEF RelayMessageFromStore, InRoute
<1>24. ASSUME NEW r \in db, MessageRemove(r) PROVE LockInv'
  BY <1>24, LockStable DEF MessageRemove, InRoute
<1>25. ASSUME PruneDB PROVE LockInv'
  BY <1>25, LockStable DEF PruneDB, InRoute
<1>26. ASSUME NEW fresh \in BOOLEAN, Restart(fresh) PROVE LockInv'
  BY <1>26, LockStable DEF Restart, InRoute
<1>27. CASE UNCHANGED vars
  BY <1>27, LockStable DEF vars, InRoute
<1> QED
  BY <1>1, <1>2, <1>3, <1>4, <1>5, <1>6, <1>7, <1>8, <1>9, <1>10, <1>11, <1>12, <1>13, <1>14,
     <1>15, <1>16, <1>17, <1>18, <1>19, <1>20, <1>21, <1>22, <1>23, <1>24, <1>25, <1>26, <1>27
  DEF Next

\* Mutual exclusion of attempts: under every interleaving, crash and failing
\* write, at most one goroutine is inside Route with a RouteMessage object.
THEOREM MutualExclusion == Spec => []RouteMutex
<1>1. Init => LockInv
  BY DEF Init, LockInv, LockOK, RouteMutex, InRoute, Querying, Idle, At
<1>2. Spec => [](TypeInv /\ LockInv)
  BY <1>1, TypeInit, TypeStep, LockStep, PTL DEF Spec
<1> QED
  BY <1>2, PTL DEF LockInv

----------------------------------------------------------------------------
(* No message is lost silently.                                            *)

LossInv == ClearOK /\ Durable /\ NoSilentLoss

Gone(m) == m \in delivered \/ m \in dropped

\* StoreMessage adds the row of its message and displaces no other message's
\* row; DeleteMessage deletes no other message's row.
LEMMA RowsKept ==
  ASSUME TypeInv, KeyInjective, NEW r \in RouteMessageType, NEW n \in Msgs
  PROVE  /\ \E x \in StoreMessage(r) : x.msg = r.msg
         /\ \A m \in Msgs : InDb(m) => \E x \in StoreMessage(r) : x.msg = m
         /\ \A m \in Msgs : InDb(m) /\ m # n => \E x \in DeleteMessage(n) : x.msg = m
<1>1. \A x \in db : x.msg \in Msgs
  BY DEF TypeInv, TypeOK, RouteMessageType
<1>2. r.msg \in Msgs
  BY DEF RouteMessageType
<1>3. \A m, k \in Msgs : m # k => Key(m) # Key(k)
  BY DEF KeyInjective
<1>4. r \in StoreMessage(r)
  BY DEF StoreMessage
<1>5. \A x \in db : x.msg # r.msg => x \in StoreMessage(r)
  BY <1>1, <1>2, <1>3 DEF StoreMessage
<1>6. \A x \in db : x.msg # n => x \in DeleteMessage(n)
  BY <1>1, <1>3 DEF DeleteMessage
<1> QED
  BY <1>4, <1>5, <1>6 DEF InDb

\* What a step must not do: forget an execution or a decision to drop; delete
\* the row of any other message; take from the cache what is nowhere else;
\* promise what it has not put anywhere; send a thread to delete a row, or to
\* leave the cache, without the right to.
SettledKept ==
  \A m \in Msgs : /\ m \in delivered => m \in delivered'
                  /\ m \in dropped => m \in dropped'
RowsStep == \A m \in Msgs : InDb(m) => InDb(m)' \/ Gone(m)'
CacheStep == \A m \in Msgs : Cached(m) => Cached(m)' \/ InDb(m)' \/ Gone(m)'
PromiseStep ==
  /\ \A m \in stored' : m \in stored \/ InDb(m)'
  /\ \A m \in accepted' : m \in accepted \/ m \in stored \/ Cached(m)'
ClearStep ==
  /\ \A g \in Gors : gor'[g].pc \in {"succeeded", "clear"} =>
       \/ gor'[g] = gor[g] /\ obj'[gor[g].obj].msg = obj[gor[g].obj].msg
       \/ obj'[gor'[g].obj].msg \in delivered'
  /\ \A g \in Gors : gor'[g].pc = "remove" =>
       \/ gor'[g] = gor[g] /\ obj'[gor[g].obj].msg = obj[gor[g].obj].msg
       \/ \E r \in db' : r.msg = obj'[gor'[g].obj].msg
  /\ router'.pc = "clear" =>
       \/ router' = router /\ obj'[router.obj].msg = obj[router.obj].msg
       \/ obj'[router'.obj].msg \in delivered' \cup dropped'

\* A step that does none of these preserves Durable and NoSilentLoss.
LEMMA LossStable ==
  ASSUME TypeInv, TypeInv', LossInv, SettledKept, RowsStep, CacheStep, PromiseStep
  PROVE  Durable' /\ NoSilentLoss'
<1>1. stored' \subseteq Msgs /\ accepted' \subseteq Msgs
  BY DEF TypeInv, TypeOK
<1>2. \A m \in Msgs : m \in stored => Gone(m) \/ InDb(m)
  BY DEF LossInv, Durable, Gone
<1>3. \A m \in Msgs : m \in accepted => Gone(m) \/ InDb(m) \/ Cached(m)
  BY DEF LossInv, NoSilentLoss, Gone
<1>4. \A m \in Msgs : Gone(m) => Gone(m)'
  BY DEF SettledKept, Gone
<1>5. \A m \in stored' : Gone(m)' \/ InDb(m)'
  BY <1>1, <1>2, <1>4 DEF RowsStep, PromiseStep
<1>6. \A m \in accepted' : Gone(m)' \/ InDb(m)' \/ Cached(m)'
  BY <1>1, <1>2, <1>3, <1>4 DEF RowsStep, CacheStep, PromiseStep
<1> QED
  BY <1>5, <1>6 DEF Durable, NoSilentLoss, Gone

\* Nor does it let a thread clear what it may not.
LEMMA ClearStable ==
  ASSUME TypeInv, TypeInv', LossInv, SettledKept, RowsStep, ClearStep
  PROVE  ClearOK'
<1>1. \A g \in Gors : gor[g].pc # "idle" => gor[g].obj \in Objs /\ obj[gor[g].obj].msg \in Msgs
  BY DEF TypeInv, TypeOK, ThreadsOK, RouteMessageType
<1>2. router.pc # "idle" => router.obj \in Objs /\ obj[router.obj].msg \in Msgs
  BY DEF TypeInv, TypeOK, ThreadsOK, RouteMessageType
<1>3. ASSUME NEW g \in Gors, gor'[g].pc \in {"succeeded", "clear"} PROVE MsgOf(g)' \in delivered'
  BY <1>1, <1>3 DEF LossInv, ClearOK, MsgOf, SettledKept, ClearStep
<1>4. ASSUME NEW g \in Gors, gor'[g].pc = "remove"
      PROVE  MsgOf(g)' \in delivered' \/ MsgOf(g)' \in dropped' \/ InDb(MsgOf(g))'
  <2>1. CASE gor'[g] = gor[g] /\ obj'[gor[g].obj].msg = obj[gor[g].obj].msg
    <3> DEFINE m == MsgOf(g)
    <3>1. MsgOf(g)' = m /\ m \in Msgs
      BY <1>1, <1>4, <2>1 DEF MsgOf
    <3>2. m \in delivered \/ m \in dropped \/ InDb(m)
      BY <1>4, <2>1 DEF LossInv, ClearOK
    <3>3. m \in delivered' \/ m \in dropped' \/ (\E r \in db' : r.msg = m)
      BY <3>1, <3>2 DEF Gone, InDb, SettledKept, RowsStep
    <3> HIDE DEF m
    <3> QED
      BY <3>1, <3>3 DEF InDb
  <2>2. CASE \E r \in db' : r.msg = obj'[gor'[g].obj].msg
    BY <2>2 DEF InDb, MsgOf
  <2> QED
    BY <1>4, <2>1, <2>2 DEF ClearStep
<1>5. router'.pc = "clear" =>
        obj'[router'.obj].msg \in delivered' \/ obj'[router'.obj].msg \in dropped'
  BY <1>2 DEF LossInv, ClearOK, SettledKept, ClearStep
<1> QED
  BY <1>3, <1>4, <1>5 DEF ClearOK

\* The two together: a step whose effect on rows, cache, promises and clean-up
\* work is harmless preserves all of LossInv.
LEMMA LossFrame ==
  ASSUME TypeInv, TypeInv', LossInv, SettledKept, RowsStep, CacheStep, PromiseStep, ClearStep
  PROVE  LossInv'
  BY LossStable, ClearStable DEF LossInv

\* No step of any thread loses a message.
LEMMA LossStep ==
  ASSUME KeyInjective
  PROVE  TypeInv /\ TypeInv' /\ LossInv /\ [Next]_vars => LossInv'
<1> SUFFICES ASSUME TypeInv, TypeInv', LossInv, [Next]_vars PROVE LossInv'
  OBVIOUS
<1> USE DEF threads, chain, bounds, history, Idle, At
<1>l. ClearOK /\ Durable /\ NoSilentLoss
  BY DEF LossInv
<1>t. /\ obj \in [Objs -> RouteMessageType] /\ cache \subseteq Objs
      /\ \A g \in Gors : gor[g].pc # "idle" => gor[g].obj \in Objs
      /\ router.pc # "idle" => router.obj \in Objs
      /\ router \in [pc : {"idle", "query", "clear"}, obj : Objs \cup {NoObj}]
      /\ gor \in [Gors -> [pc : PCs, obj : Objs \cup {NoObj}]]
      /\ ingest \in [Chains -> Objs \cup {NoObj}]
      /\ db \subseteq RouteMessageType
  BY DEF TypeInv, TypeOK, ThreadsOK
<1>m. \A o \in Objs : obj[o] \in RouteMessageType /\ obj[o].msg \in Msgs
  BY <1>t DEF RouteMessageType
<1>1. ASSUME NEW m \in Msgs, processBlockInfo(m) PROVE LossInv'
  <2>1. \E o \in cache' : obj'[o].msg = m
    BY <1>1, <1>t, FreeSlot DEF processBlockInfo, NewRouteMessage
  <2>2. RowsStep
    BY <1>1 DEF processBlockInfo, RowsStep, InDb
  <2>3. CacheStep
    BY <1>1, <1>t, FreeSlot DEF processBlockInfo, CacheStep, Cached
  <2>4. SettledKept /\ PromiseStep
    BY <1>1, <1>t, <2>1 DEF processBlockInfo, SettledKept, PromiseStep, Cached
  <2>5. ClearStep
    BY <1>1, <1>t, FreeSlot DEF processBlockInfo, ClearStep
  <2> QED
    BY <2>2, <2>3, <2>4, <2>5, LossFrame
<1>2. ASSUME NEW c \in Chains, processBlockInfoStore(c) PROVE LossInv'
  <2>1. ingest[c] \in Objs
    BY <1>2, <1>t DEF processBlockInfoStore
  <2>2. /\ \A x \in cache : obj'[x].msg = obj[x].msg
        /\ \A x \in Gors : gor'[x].obj \in Objs => obj'[gor'[x].obj].msg = obj[gor'[x].obj].msg
        /\ router.obj \in Objs => obj'[router.obj].msg = obj[router.obj].msg
    BY <1>2, <1>t DEF processBlockInfoStore, Collected, Referenced
  <2>3. RowsStep
    BY <1>2, <2>1, <1>m, RowsKept DEF processBlockInfoStore, RowsStep, InDb
  <2>4. CacheStep
    BY <1>2, <1>t, <2>2 DEF processBlockInfoStore, CacheStep, Cached
  <2>5. SettledKept /\ PromiseStep
    BY <1>2, <2>1, <1>m, RowsKept DEF processBlockInfoStore, SettledKept, PromiseStep, InDb
  <2>6. ClearStep
    BY <1>2, <1>t, <2>2 DEF processBlockInfoStore, ClearStep
  <2> QED
    BY <2>3, <2>4, <2>5, <2>6, LossFrame
<1>3. ASSUME NEW o \in Objs, processMessages(o) PROVE LossInv'
  <2>1. \A x \in Objs : obj'[x].msg = obj[x].msg
    BY <1>3, <1>t, ToggleType DEF processMessages
  <2>2. RowsStep
    BY <1>3 DEF processMessages, RowsStep, InDb
  <2>3. CacheStep
    BY <1>3, <1>t, <2>1 DEF processMessages, CacheStep, Cached, Gone
  <2>4. SettledKept /\ PromiseStep
    BY <1>3 DEF processMessages, SettledKept, PromiseStep
  <2>5. ClearStep
    BY <1>3, <1>t, <2>1 DEF processMessages, ClearStep
  <2> QED
    BY <2>2, <2>3, <2>4, <2>5, LossFrame
<1>4. ASSUME messageReceivedErr PROVE LossInv'
  <2>1. \A x \in Objs : [obj EXCEPT ![router.obj] = ToggleProcessing(@)][x].msg = obj[x].msg
    BY <1>t, ToggleType
  <2>2. /\ \A x \in cache : obj'[x].msg = obj[x].msg
        /\ \A x \in Gors : gor[x].obj \in Objs => obj'[gor[x].obj].msg = obj[gor[x].obj].msg
    BY <1>4, <1>t, <2>1 DEF messageReceivedErr, Collected, Referenced
  <2>3. RowsStep
    BY <1>4 DEF messageReceivedErr, RowsStep, InDb
  <2>4. CacheStep
    BY <1>4, <1>t, <2>2 DEF messageReceivedErr, CacheStep, Cached
  <2>5. SettledKept /\ PromiseStep
    BY <1>4 DEF messageReceivedErr, SettledKept, PromiseStep
  <2>6. ClearStep
    BY <1>4, <1>t, <2>2 DEF messageReceivedErr, ClearStep
  <2> QED
    BY <2>3, <2>4, <2>5, <2>6, LossFrame
<1>5. ASSUME messageReceivedTrue PROVE LossInv'
  <2>1. RowsStep
    BY <1>5 DEF messageReceivedTrue, RowsStep, InDb
  <2>2. CacheStep
    BY <1>5, <1>t DEF messageReceivedTrue, MessageReceived, CacheStep, Cached, Gone
  <2>3. SettledKept /\ PromiseStep
    BY <1>5 DEF messageReceivedTrue, SettledKept, PromiseStep
  <2>4. ClearStep
    BY <1>5, <1>t DEF messageReceivedTrue, MessageReceived, ClearStep
  <2> QED
    BY <2>1, <2>2, <2>3, <2>4, LossFrame
<1>6. ASSUME messageReceivedFalse PROVE LossInv'
  <2>1. RowsStep
    BY <1>6 DEF messageReceivedFalse, RowsStep, InDb
  <2>2. CacheStep
    BY <1>6, <1>t DEF messageReceivedFalse, CacheStep, Cached
  <2>3. SettledKept /\ PromiseStep
    BY <1>6 DEF messageReceivedFalse, SettledKept, PromiseStep
  <2>4. ClearStep
    BY <1>6, <1>t DEF messageReceivedFalse, ClearStep
  <2> QED
    BY <2>1, <2>2, <2>3, <2>4, LossFrame
<1>7. ASSUME processMessagesClear PROVE LossInv'
  <2>1. router.obj \in Objs /\ Gone(obj[router.obj].msg)
    BY <1>7, <1>t, <1>l DEF processMessagesClear, ClearOK, Gone
  <2>2. /\ \A x \in cache : obj'[x].msg = obj[x].msg
        /\ \A x \in Gors : gor[x].obj \in Objs => obj'[gor[x].obj].msg = obj[gor[x].obj].msg
    BY <1>7, <1>t DEF processMessagesClear, Collected, Referenced
  <2>3. RowsStep
    BY <1>7, <2>1, <1>m, RowsKept DEF processMessagesClear, RowsStep, InDb, Gone
  <2>4. CacheStep
    BY <1>7, <1>t, <2>2 DEF processMessagesClear, CacheStep, Cached
  <2>5. SettledKept /\ PromiseStep
    BY <1>7 DEF processMessagesClear, SettledKept, PromiseStep
  <2>6. ClearStep
    BY <1>7, <1>t, <2>2 DEF processMessagesClear, ClearStep
  <2> QED
    BY <2>3, <2>4, <2>5, <2>6, LossFrame
<1>8. ASSUME NEW g \in Gors, RouteMessage(g) PROVE LossInv'
  <2>1. \A x \in Objs : obj'[x].msg = obj[x].msg
    BY <1>8, <1>t, IncrementType DEF RouteMessage
  <2>2. RowsStep
    BY <1>8 DEF RouteMessage, RowsStep, InDb
  <2>3. CacheStep
    BY <1>8, <1>t, <2>1 DEF RouteMessage, CacheStep, Cached
  <2>4. SettledKept /\ PromiseStep
    BY <1>8 DEF RouteMessage, SettledKept, PromiseStep
  <2>5. ClearStep
    BY <1>8, <1>t, <2>1 DEF RouteMessage, ClearStep
  <2> QED
    BY <2>2, <2>3, <2>4, <2>5, LossFrame
<1>9. ASSUME NEW g \in Gors, ExecuteTx(g) PROVE LossInv'
  <2>1. RowsStep
    BY <1>9 DEF ExecuteTx, RowsStep, InDb
  <2>2. CacheStep
    BY <1>9, <1>t DEF ExecuteTx, CacheStep, Cached
  <2>3. SettledKept /\ PromiseStep
    BY <1>9 DEF ExecuteTx, SettledKept, PromiseStep
  <2>4. ClearStep
    BY <1>9, <1>t DEF ExecuteTx, ClearStep, MsgOf
  <2> QED
    BY <2>1, <2>2, <2>3, <2>4, LossFrame
<1>10. ASSUME NEW g \in Gors, WaitTimeout(g) \/ WaitForever(g) PROVE LossInv'
  <2>1. RowsStep
    BY <1>10 DEF WaitTimeout, WaitForever, RowsStep, InDb
  <2>2. CacheStep
    BY <1>10, <1>t DEF WaitTimeout, WaitForever, CacheStep, Cached
  <2>3. SettledKept /\ PromiseStep
    BY <1>10 DEF WaitTimeout, WaitForever, SettledKept, PromiseStep
  <2>4. ClearStep
    BY <1>10, <1>t DEF WaitTimeout, WaitForever, ClearStep
  <2> QED
    BY <2>1, <2>2, <2>3, <2>4, LossFrame
<1>11. ASSUME NEW g \in Gors, callback(g) PROVE LossInv'
  <2>1. gor[g].obj \in Objs /\ MsgOf(g) \in delivered
    BY <1>11, <1>t, <1>l DEF callback, ClearOK
  <2>2. /\ \A x \in cache' : obj'[x].msg = obj[x].msg
        /\ \A x \in Gors : gor'[x].obj \in Objs => obj'[gor'[x].obj].msg = obj[gor'[x].obj].msg
        /\ router.obj \in Objs => obj'[router.obj].msg = obj[router.obj].msg
    BY <1>11, <1>t DEF callback, Collected, Referenced
  <2>3. RowsStep
    BY <1>11 DEF callback, RowsStep, InDb
  <2>4. CacheStep
    BY <1>11, <1>t, <2>1, <2>2 DEF callback, CacheStep, Cached, Gone, MsgOf
  <2>5. SettledKept /\ PromiseStep
    BY <1>11 DEF callback, SettledKept, PromiseStep
  <2>6. ClearStep
    BY <1>11, <1>t, <2>1, <2>2 DEF callback, ClearStep, MsgOf
  <2> QED
    BY <2>3, <2>4, <2>5, <2>6, LossFrame
<1>12. ASSUME NEW g \in Gors, callbackClear(g) PROVE LossInv'
  <2>1. gor[g].obj \in Objs /\ MsgOf(g) \in delivered
    BY <1>12, <1>t, <1>l DEF callbackClear, ClearOK
  <2>2. /\ \A x \in cache : obj'[x].msg = obj[x].msg
        /\ \A x \in Gors : gor'[x].obj \in Objs => obj'[gor'[x].obj].msg = obj[gor'[x].obj].msg
        /\ router.obj \in Objs => obj'[router.obj].msg = obj[router.obj].msg
    BY <1>12, <1>t DEF callbackClear, Collected, Referenced
  <2>3. RowsStep
    BY <1>12, <2>1, <1>m, RowsKept DEF callbackClear, RowsStep, InDb, Gone, MsgOf
  <2>4. CacheStep
    BY <1>12, <1>t, <2>2 DEF callbackClear, CacheStep, Cached
  <2>5. SettledKept /\ PromiseStep
    BY <1>12 DEF callbackClear, SettledKept, PromiseStep
  <2>6. ClearStep
    BY <1>12, <1>t, <2>2 DEF callbackClear, ClearStep
  <2> QED
    BY <2>3, <2>4, <2>5, <2>6, LossFrame
<1>13. ASSUME NEW g \in Gors, HandleMessageFailed(g) PROVE LossInv'
  <2>1. \A x \in Objs : [obj EXCEPT ![gor[g].obj] = ToggleProcessing(obj[gor[g].obj])][x].msg = obj[x].msg
    BY <1>t, ToggleType
  <2>2. /\ \A x \in cache : obj'[x].msg = obj[x].msg
        /\ \A x \in Gors : gor'[x].obj \in Objs => obj'[gor'[x].obj].msg = obj[gor'[x].obj].msg
        /\ router.obj \in Objs => obj'[router.obj].msg = obj[router.obj].msg
    BY <1>13, <1>t, <2>1 DEF HandleMessageFailed, Collected, Referenced
  <2>3. RowsStep
    BY <1>13 DEF HandleMessageFailed, RowsStep, InDb
  <2>4. CacheStep
    BY <1>13, <1>t, <2>2 DEF HandleMessageFailed, CacheStep, Cached
  <2>5. SettledKept /\ PromiseStep
    BY <1>13 DEF HandleMessageFailed, SettledKept, PromiseStep
  <2>6. ClearStep
    BY <1>13, <1>t, <2>2 DEF HandleMessageFailed, ClearStep
  <2> QED
    BY <2>3, <2>4, <2>5, <2>6, LossFrame
<1>14. ASSUME NEW g \in Gors, HandleMessageFailedStore(g) PROVE LossInv'
  <2>1. gor[g].obj \in Objs
    BY <1>14, <1>t DEF HandleMessageFailedStore
  <2>2. /\ \A x \in cache : obj'[x].msg = obj[x].msg
        /\ \A x \in Gors : gor'[x].obj \in Objs => obj'[gor'[x].obj].msg = obj[gor'[x].obj].msg
        /\ router.obj \in Objs => obj'[router.obj].msg = obj[router.obj].msg
    BY <1>14, <1>t DEF HandleMessageFailedStore, Collected, Referenced
  <2>3. RowsStep
    BY <1>14, <2>1, <1>m, RowsKept DEF HandleMessageFailedStore, RowsStep, InDb
  <2>4. CacheStep
    BY <1>14, <1>t, <2>2 DEF HandleMessageFailedStore, CacheStep, Cached
  <2>5. SettledKept /\ PromiseStep
    BY <1>14 DEF HandleMessageFailedStore, SettledKept, PromiseStep
  <2>6. ClearStep
    <3>1. CASE /\ db' = StoreMessage(obj[gor[g].obj])
               /\ gor' = [gor EXCEPT ![g] = At("remove", @.obj)]
      <4>1. \E r \in db' : r.msg = obj[gor[g].obj].msg
        BY <3>1 DEF StoreMessage
      <4>2. gor'[g].obj = gor[g].obj /\ gor'[g].pc = "remove"
        BY <3>1, <1>t
      <4>3. obj'[gor'[g].obj].msg = obj[gor[g].obj].msg
        BY <4>2, <2>1, <2>2
      <4>4. \E r \in db' : r.msg = obj'[gor'[g].obj].msg
        BY <4>1, <4>3
      <4>5. \A x \in Gors : x # g => gor'[x] = gor[x]
        BY <3>1, <1>t
      <4> QED
        BY <1>14, <1>t, <2>2, <4>2, <4>4, <4>5 DEF HandleMessageFailedStore, ClearStep
    <3>2. CASE gor' = [gor EXCEPT ![g] = Idle]
      BY <3>2, <1>14, <1>t, <2>2 DEF HandleMessageFailedStore, ClearStep
    <3> QED
      BY <1>14, <3>1, <3>2 DEF HandleMessageFailedStore
  <2> QED
    BY <2>3, <2>4, <2>5, <2>6, LossFrame
<1>15. ASSUME NEW g \in Gors, HandleMessageFailedRemove(g) PROVE LossInv'
  <2>1. gor[g].obj \in Objs /\ (Gone(MsgOf(g)) \/ InDb(MsgOf(g)))
    BY <1>15, <1>t, <1>l DEF HandleMessageFailedRemove, ClearOK, Gone
  <2>2. /\ \A x \in cache' : obj'[x].msg = obj[x].msg
        /\ \A x \in Gors : gor'[x].obj \in Objs => obj'[gor'[x].obj].msg = obj[gor'[x].obj].msg
        /\ router.obj \in Objs => obj'[router.obj].msg = obj[router.obj].msg
    BY <1>15, <1>t DEF HandleMessageFailedRemove, Collected, Referenced
  <2>3. RowsStep
    BY <1>15 DEF HandleMessageFailedRemove, RowsStep, InDb
  <2>4. CacheStep
    <3> DEFINE n == obj[gor[g].obj].msg
    <3>1. /\ cache' = cache \ {gor[g].obj} /\ db' = db
          /\ delivered' = delivered /\ dropped' = dropped
      BY <1>15 DEF HandleMessageFailedRemove
    <3>2. n \in delivered' \/ n \in dropped' \/ \E r \in db' : r.msg = n
      BY <2>1, <3>1 DEF Gone, MsgOf, InDb
    <3>3. ASSUME NEW m \in Msgs, NEW o \in cache, obj[o].msg = m
          PROVE  \/ \E x \in cache' : obj'[x].msg = m
                 \/ m \in delivered' \/ m \in dropped' \/ \E r \in db' : r.msg = m
      <4>1. CASE o = gor[g].obj
        BY <3>2, <3>3, <4>1
      <4>2. CASE o # gor[g].obj
        BY <2>2, <3>1, <3>3, <4>2
      <4> QED
        BY <4>1, <4>2
    <3> HIDE DEF n
    <3> QED
      BY <3>3 DEF CacheStep, Cached, Gone, InDb
  <2>5. SettledKept /\ PromiseStep
    BY <1>15 DEF HandleMessageFailedRemove, SettledKept, PromiseStep
  <2>6. ClearStep
    BY <1>15, <1>t, <2>2 DEF HandleMessageFailedRemove, ClearStep
  <2> QED
    BY <2>3, <2>4, <2>5, <2>6, LossFrame
<1>16. ASSUME NEW m \in Msgs, ExecuteLateTx(m) PROVE LossInv'
  <2>1. RowsStep
    BY <1>16 DEF ExecuteLateTx, RowsStep, InDb
  <2>2. CacheStep
    BY <1>16, <1>t DEF ExecuteLateTx, CacheStep, Cached
  <2>3. SettledKept /\ PromiseStep
    BY <1>16 DEF ExecuteLateTx, SettledKept, PromiseStep
  <2>4. ClearStep
    BY <1>16, <1>t DEF ExecuteLateTx, ClearStep
  <2> QED
    BY <2>1, <2>2, <2>3, <2>4, LossFrame
<1>17. ASSUME NEW m \in Msgs, CheckFinality(m) PROVE LossInv'
  <2>1. RowsStep
    BY <1>17 DEF CheckFinality, RowsStep, InDb
  <2>2. CacheStep
    BY <1>17, <1>t DEF CheckFinality, CacheStep, Cached
  <2>3. SettledKept /\ PromiseStep
    BY <1>17 DEF CheckFinality, SettledKept, PromiseStep
  <2>4. ClearStep
    BY <1>17, <1>t DEF CheckFinality, ClearStep
  <2> QED
    BY <2>1, <2>2, <2>3, <2>4, LossFrame
<1>18. ASSUME NEW m \in Msgs, RelayMessageByHeight(m) PROVE LossInv'
  <2>1. \E o \in cache' : obj'[o].msg = m
    BY <1>18, <1>t, FreeSlot DEF RelayMessageByHeight, NewRouteMessage
  <2>2. RowsStep
    BY <1>18 DEF RelayMessageByHeight, RowsStep, InDb
  <2>3. CacheStep
    BY <1>18, <1>t, FreeSlot DEF RelayMessageByHeight, CacheStep, Cached
  <2>4. SettledKept /\ PromiseStep
    BY <1>18, <1>t, <2>1 DEF RelayMessageByHeight, SettledKept, PromiseStep, Cached
  <2>5. ClearStep
    BY <1>18, <1>t, FreeSlot DEF RelayMessageByHeight, ClearStep
  <2> QED
    BY <2>2, <2>3, <2>4, <2>5, LossFrame
<1>19. ASSUME NEW c \in Chains, flushMessages(c) PROVE LossInv'
  <2>1. /\ cache \subseteq cache'
        /\ \A x \in cache : obj'[x] = obj[x]
        /\ \A x \in Gors : gor[x].obj \in Objs => obj'[gor[x].obj] = obj[gor[x].obj]
        /\ router.obj \in Objs => obj'[router.obj] = obj[router.obj]
    BY <1>19, <1>t, FlushType, FreeSlot DEF TypeInv
  <2>2. UNCHANGED <<threads, db, txObjs, chain, bounds, history>>
    BY <1>19 DEF flushMessages
  <2>3. RowsStep
    BY <2>2 DEF RowsStep, InDb
  <2>4. CacheStep
    BY <2>1 DEF CacheStep, Cached
  <2>5. SettledKept /\ PromiseStep
    BY <2>2 DEF SettledKept, PromiseStep
  <2>6. ClearStep
    BY <1>t, <2>1, <2>2 DEF ClearStep
  <2> QED
    BY <2>3, <2>4, <2>5, <2>6, LossFrame
<1>20. ASSUME NEW c \in Chains, cleanExpiredFetch(c) PROVE LossInv'
  <2>1. RowsStep
    BY <1>20 DEF cleanExpiredFetch, RowsStep, InDb
  <2>2. CacheStep
    BY <1>20, <1>t DEF cleanExpiredFetch, CacheStep, Cached
  <2>3. SettledKept /\ PromiseStep
    BY <1>20 DEF cleanExpiredFetch, SettledKept, PromiseStep
  <2>4. ClearStep
    BY <1>20, <1>t DEF cleanExpiredFetch, ClearStep
  <2> QED
    BY <2>1, <2>2, <2>3, <2>4, LossFrame
<1>21. ASSUME NEW o \in Objs, BackoffEnds(o) PROVE LossInv'
  <2>1. \A x \in Objs : obj'[x].msg = obj[x].msg
    BY <1>21, <1>t DEF BackoffEnds
  <2>2. RowsStep
    BY <1>21 DEF BackoffEnds, RowsStep, InDb
  <2>3. CacheStep
    BY <1>21, <1>t, <2>1 DEF BackoffEnds, CacheStep, Cached
  <2>4. SettledKept /\ PromiseStep
    BY <1>21 DEF BackoffEnds, SettledKept, PromiseStep
  <2>5. ClearStep
    BY <1>21, <1>t, <2>1 DEF BackoffEnds, ClearStep
  <2> QED
    BY <2>2, <2>3, <2>4, <2>5, LossFrame
<1>22. ASSUME NEW k \in cleaner, cleanExpiredDelete(k) PROVE LossInv'
  <2>1. RowsStep
    BY <1>22 DEF cleanExpiredDelete, RowsStep, InDb, Gone
  <2>2. CacheStep
    BY <1>22, <1>t DEF cleanExpiredDelete, CacheStep, Cached
  <2>3. SettledKept /\ PromiseStep
    BY <1>22 DEF cleanExpiredDelete, SettledKept, PromiseStep
  <2>4. ClearStep
    BY <1>22, <1>t DEF cleanExpiredDelete, ClearStep
  <2> QED
    BY <2>1, <2>2, <2>3, <2>4, LossFrame
<1>23. ASSUME NEW r \in db, RelayMessageFromStore(r) PROVE LossInv'
  <2>1. RowsStep
    BY <1>23 DEF RelayMessageFromStore, RowsStep, InDb
  <2>2. CacheStep
    BY <1>23, <1>t, FreeSlot DEF RelayMessageFromStore, CacheStep, Cached
  <2>3. SettledKept /\ PromiseStep
    BY <1>23 DEF RelayMessageFromStore, SettledKept, PromiseStep
  <2>4. ClearStep
    BY <1>23, <1>t, FreeSlot DEF RelayMessageFromStore, ClearStep
  <2> QED
    BY <2>1, <2>2, <2>3, <2>4, LossFrame
<1>24. ASSUME NEW r \in db, MessageRemove(r) PROVE LossInv'
  <2>1. r \in RouteMessageType /\ r.msg \in Msgs
    BY <1>t DEF RouteMessageType
  <2>2. RowsStep
    BY <1>24, <2>1, RowsKept DEF MessageRemove, RowsStep, InDb, Gone
  <2>3. CacheStep
    BY <1>24, <1>t DEF MessageRemove, CacheStep, Cached
  <2>4. SettledKept /\ PromiseStep
    BY <1>24 DEF MessageRemove, SettledKept, PromiseStep
  <2>5. ClearStep
    BY <1>24, <1>t DEF MessageRemove, ClearStep
  <2> QED
    BY <2>2, <2>3, <2>4, <2>5, LossFrame
<1>25. ASSUME PruneDB PROVE LossInv'
  <2>1. RowsStep
    BY <1>25 DEF PruneDB, RowsStep, InDb, Gone
  <2>2. CacheStep
    BY <1>25, <1>t DEF PruneDB, CacheStep, Cached
  <2>3. SettledKept /\ PromiseStep
    BY <1>25 DEF PruneDB, SettledKept, PromiseStep
  <2>4. ClearStep
    BY <1>25, <1>t DEF PruneDB, ClearStep
  <2> QED
    BY <2>1, <2>2, <2>3, <2>4, LossFrame
<1>26. ASSUME NEW fresh \in BOOLEAN, Restart(fresh) PROVE LossInv'
  <2>1. \A m \in stored : Gone(m)' \/ InDb(m)'
    BY <1>26, <1>l DEF Restart, Durable, InDb, Gone
  <2>2. stored' = stored /\ accepted' = stored
    BY <1>26 DEF Restart
  <2>3. Durable' /\ NoSilentLoss'
    BY <2>1, <2>2 DEF Durable, NoSilentLoss, Gone
  <2>4. ClearOK'
    BY <1>26 DEF Restart, ClearOK
  <2> QED
    BY <2>3, <2>4 DEF LossInv
<1>27. CASE UNCHANGED vars
  <2>1. RowsStep
    BY <1>27 DEF vars, RowsStep, InDb
  <2>2. CacheStep
    BY <1>27, <1>t DEF vars, CacheStep, Cached
  <2>3. SettledKept /\ PromiseStep
    BY <1>27 DEF vars, SettledKept, PromiseStep
  <2>4. ClearStep
    BY <1>27, <1>t DEF vars, ClearStep
  <2> QED
    BY <2>1, <2>2, <2>3, <2>4, LossFrame
<1> QED
  BY <1>1, <1>2, <1>3, <1>4, <1>5, <1>6, <1>7, <1>8, <1>9, <1>10, <1>11, <1>12, <1>13, <1>14,
     <1>15, <1>16, <1>17, <1>18, <1>19, <1>20, <1>21, <1>22, <1>23, <1>24, <1>25, <1>26, <1>27
  DEF Next

\* Nothing is lost silently, as long as no two messages share the row key
\* (Src, Sn): a stored message keeps its row until it has been executed or
\* dropped, whatever crashes and failing writes come in between.
THEOREM Durability == KeyInjective => (Spec => []Durable)
<1> SUFFICES ASSUME KeyInjective PROVE Spec => []Durable
  OBVIOUS
<1>1. Init => LossInv
  BY DEF Init, LossInv, ClearOK, Durable, NoSilentLoss, Idle, At
<1>2. TypeInv /\ TypeInv' /\ LossInv /\ [Next]_vars => LossInv'
  BY LossStep
<1>3. Spec => [](TypeInv /\ LossInv)
  BY <1>1, <1>2, TypeInit, TypeStep, PTL DEF Spec
<1> QED
  BY <1>3, PTL DEF LossInv

\* And a message handed to the process is in its cache or in its store until
\* then, under the same condition.
THEOREM NothingLost == KeyInjective => (Spec => []NoSilentLoss)
<1> SUFFICES ASSUME KeyInjective PROVE Spec => []NoSilentLoss
  OBVIOUS
<1>1. Init => LossInv
  BY DEF Init, LossInv, ClearOK, Durable, NoSilentLoss, Idle, At
<1>2. TypeInv /\ TypeInv' /\ LossInv /\ [Next]_vars => LossInv'
  BY LossStep
<1>3. Spec => [](TypeInv /\ LossInv)
  BY <1>1, <1>2, TypeInit, TypeStep, PTL DEF Spec
<1> QED
  BY <1>3, PTL DEF LossInv

\* The invariants of processMessages, RouteMessage, HandleMessageFailed and
\* ClearMessages hold together, threads and locks included.
THEOREM AllSafe == KeyInjective => (Spec => []SafetyInv)
<1> SUFFICES ASSUME KeyInjective PROVE Spec => []SafetyInv
  OBVIOUS
<1>1. Init => LossInv
  BY DEF Init, LossInv, ClearOK, Durable, NoSilentLoss, Idle, At
<1>2. TypeInv /\ TypeInv' /\ LossInv /\ [Next]_vars => LossInv'
  BY LossStep
<1>3. Init => LockInv
  BY DEF Init, LockInv, LockOK, RouteMutex, InRoute, Querying, Idle, At
<1>4. TypeInv /\ LockInv /\ LossInv => SafetyInv
  BY DEF TypeInv, LockInv, LossInv, SafetyInv
<1> QED
  BY <1>1, <1>2, <1>3, <1>4, TypeInit, TypeStep, LockStep, PTL DEF Spec
============================================================================
