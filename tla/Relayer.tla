------------------------------ MODULE Relayer ------------------------------
(***************************************************************************)
(* The relaying core of centralized-relay: relayer/relay.go,               *)
(* relayer/chain_runtime.go, the message types of relayer/types/types.go,  *)
(* the message store and the socket commands that touch messages.          *)
(*                                                                         *)
(* A message observed by a chain listener becomes a RouteMessage object in *)
(* the source chain's in-memory MessageCache and a row in LevelDB.  The    *)
(* router goroutine scans the caches and starts one goroutine per attempt; *)
(* the flush ticker copies rows back into the caches; the cleaner ticker   *)
(* deletes old rows; the operator's socket commands do some of each.       *)
(*                                                                         *)
(* RouteMessage objects have identity here, because they have it in the    *)
(* code: MessageKey holds Sn as a *big.Int, so a map keyed by MessageKey   *)
(* compares the POINTER.  Every message decoded from a log, from a row or  *)
(* from GenerateMessages is a cache entry of its own, and Remove(key) only *)
(* removes the object the key was taken from.  A cache is therefore a set  *)
(* of objects, not a map from (src, sn).                                   *)
(***************************************************************************)
EXTENDS Naturals, FiniteSets

CONSTANTS
    Chains,         \* NIDs of the configured chains (Relayer.chains)
    Msgs,           \* cross-chain messages the source chains have emitted
    Src, Dst, Sn,   \* [Msgs -> NID], [Msgs -> NID], [Msgs -> serial number]
    Deduped,        \* messages MessageReceived answers for (EmitMessage events)
    FinalityChains, \* chains configured with finality-block > 0
    Endless,        \* chains whose wait for a result has no time-out (CosmWasm)
    MaxTxRetry,     \* types.MaxTxRetry
    PageLimit,      \* maxFlushMessage, the page of GetMessages
    Objs, NoObj,    \* heap slots for live RouteMessage objects
    Gors,           \* slots for concurrent RouteMessage goroutines
    MaxIngest,      \* bound: times a listener hands over the same message
    MaxCrashes,     \* bound: process crashes
    MaxDbErrs,      \* bound: failing LevelDB writes
    MaxOps,         \* bound: operator commands on the socket
    CleanerOn       \* does the cleanExpiredMessages ticker fire

ASSUME ConstantsAssumption ==
    /\ Src \in [Msgs -> Chains]
    /\ Sn \in [Msgs -> Nat]
    /\ Msgs # {}
    /\ NoObj \notin Objs
    /\ MaxTxRetry \in Nat \ {0}
    /\ PageLimit \in Nat \ {0}
    /\ MaxIngest \in Nat /\ MaxCrashes \in Nat /\ MaxDbErrs \in Nat /\ MaxOps \in Nat
    /\ CleanerOn \in BOOLEAN

VARIABLES
    obj,        \* the Go heap: slot -> RouteMessage
    cache,      \* objects held by some ChainRuntime.MessageCache
    gor,        \* RouteMessage goroutines: slot -> [pc, obj]
    router,     \* the StartRouter goroutine inside processMessages
    ingest,     \* chain -> object its block processor has cached, not yet stored
    cleaner,    \* keys cleanExpiredMessages has judged expired, not yet deleted
    db,         \* rows of the message store
    txObjs,     \* messages with a row in the finality store
    delivered,  \* messages executed on their destination chain
    mempool,    \* messages with a transaction nobody waits for any more
    seen,       \* message -> times its listener has handed it over
    crashes, dbErrs, ops,
    \* history: what the relayer has promised and what it has given up
    accepted,   \* handed to this process, or stored by an earlier one
    stored,     \* written to the message store on arrival
    dropped     \* removed undelivered by an explicit decision

threads == <<gor, router, ingest, cleaner>>
chain   == <<delivered, mempool>>
bounds  == <<seen, crashes, dbErrs, ops>>
history == <<accepted, stored, dropped>>
vars == <<obj, cache, threads, db, txObjs, chain, bounds, history>>

----------------------------------------------------------------------------
(* Types.  LastTry abstracts a time.Time: "zero" is IsZero(), "future" is  *)
(* a backoff still running, "past" one that has run out.                   *)

LastTry == {"zero", "future", "past"}

RouteMessageType ==
    [msg : Msgs, retry : Nat, processing : BOOLEAN, lastTry : LastTry]

\* What a free heap slot holds.
Blank == [msg |-> CHOOSE m \in Msgs : TRUE, retry |-> 0,
          processing |-> FALSE, lastTry |-> "zero"]

NewRouteMessage(m) ==
    [msg |-> m, retry |-> 0, processing |-> FALSE, lastTry |-> "zero"]

StaleMarkCount == 3 * MaxTxRetry

IsStale(r) == r.retry >= StaleMarkCount

IsProcessing(r) == r.processing \/ r.lastTry = "future"

ToggleProcessing(r) ==
    [msg |-> r.msg, retry |-> r.retry, processing |-> ~r.processing, lastTry |-> r.lastTry]

\* Mutant: the attempt counter runs backwards.
IncrementRetryDown(r) ==
    [msg |-> r.msg, retry |-> r.retry - 1, processing |-> r.processing, lastTry |-> "future"]

\* IncrementRetry also moves LastTry past now by the exponential backoff.
IncrementRetry(r) ==
    [msg |-> r.msg, retry |-> r.retry + 1, processing |-> r.processing, lastTry |-> "future"]

\* What a stored LastTry may have become by the time the row is read.
Aged(t) == IF t = "future" THEN {"future", "past"} ELSE {t}

\* The row key: prefix, Src and Sn.  EventType and Dst are not part of it.
Key(m) == <<Src[m], Sn[m]>>

\* No two messages share a row.  Nothing in the code ensures it: an EmitMessage
\* and a CallMessage observed on one chain may carry the same serial number.
KeyInjective == \A m, n \in Msgs : Key(m) = Key(n) => m = n

----------------------------------------------------------------------------
(* The message store: a set of rows, one per key.                          *)

StoreMessage(r) == {x \in db : Key(x.msg) # Key(r.msg)} \cup {r}

DeleteMessage(m) == {x \in db : Key(x.msg) # Key(m)}

\* GetMessages(nId, p): the first Limit rows of a chain, in key order.
GetMessages(c) ==
    {r \in db : /\ Src[r.msg] = c
                /\ Cardinality({x \in db : /\ Src[x.msg] = c
                                           /\ Sn[x.msg] < Sn[r.msg]}) < PageLimit}

\* Mutant: rows of messages that have failed are not read back.
ActiveUntilFailed(c) == {r \in GetMessages(c) : r.retry < MaxTxRetry}

getActiveMessagesFromStore(c) == {r \in GetMessages(c) : ~IsStale(r)}

----------------------------------------------------------------------------
(* The heap.  A slot is in use while the cache, a goroutine, the router or *)
(* a block processor refers to it; Go's garbage collector frees it after.  *)

Referenced(o, c, g, r, i) ==
    \/ o \in c
    \/ \E x \in Gors : g[x].obj = o
    \/ r.obj = o
    \/ \E n \in Chains : i[n] = o

Free == {o \in Objs : ~Referenced(o, cache, gor, router, ingest)}

Collected(h, c, g, r, i) ==
    [o \in Objs |-> IF Referenced(o, c, g, r, i) THEN h[o] ELSE Blank]

\* Where a thread is and the object it works on.
At(pc, o) == [pc |-> pc, obj |-> o]
Idle == At("idle", NoObj)

MsgOf(g) == obj[gor[g].obj].msg

Cached(m) == \E o \in cache : obj[o].msg = m
InDb(m) == \E r \in db : r.msg = m

DbErr == dbErrs < MaxDbErrs /\ dbErrs' = dbErrs + 1

----------------------------------------------------------------------------
Init ==
    /\ obj = [o \in Objs |-> Blank]
    /\ cache = {}
    /\ gor = [g \in Gors |-> Idle]
    /\ router = Idle
    /\ ingest = [c \in Chains |-> NoObj]
    /\ cleaner = {}
    /\ db = {}
    /\ txObjs = {}
    /\ delivered = {}
    /\ mempool = {}
    /\ seen = [m \in Msgs |-> 0]
    /\ crashes = 0 /\ dbErrs = 0 /\ ops = 0
    /\ accepted = {} /\ stored = {} /\ dropped = {}

----------------------------------------------------------------------------
(* processBlockInfo: the block processor of a source chain caches the      *)
(* message first and stores it afterwards; the router may run in between.  *)

processBlockInfo(m) ==
    /\ ingest[Src[m]] = NoObj
    /\ seen[m] < MaxIngest
    /\ \E o \in Free :
         /\ obj' = [obj EXCEPT ![o] = NewRouteMessage(m)]
         /\ cache' = cache \cup {o}
         /\ ingest' = [ingest EXCEPT ![Src[m]] = o]
    /\ seen' = [seen EXCEPT ![m] = @ + 1]
    /\ accepted' = accepted \cup {m}
    /\ UNCHANGED <<gor, router, cleaner, db, txObjs, chain,
                   crashes, dbErrs, ops, stored, dropped>>

\* The row holds whatever the fields are by now, Processing included.  An
\* error is logged and otherwise ignored.
processBlockInfoStore(c) ==
    /\ ingest[c] # NoObj
    /\ ingest' = [ingest EXCEPT ![c] = NoObj]
    /\ \/ /\ db' = StoreMessage(obj[ingest[c]])
          /\ stored' = stored \cup {obj[ingest[c]].msg}
          /\ UNCHANGED dbErrs
       \/ /\ DbErr
          /\ UNCHANGED <<db, stored>>
    /\ obj' = Collected(obj, cache, gor, router, ingest')
    /\ UNCHANGED <<cache, gor, router, cleaner, txObjs, chain,
                   seen, crashes, ops, accepted, dropped>>

----------------------------------------------------------------------------
(* processMessages: one goroutine, one cached object at a time.            *)

\* Mutant: the router hands the object on without setting Processing.
processMessagesUnlocked(o) ==
    /\ router = Idle
    /\ o \in cache
    /\ Dst[obj[o].msg] \in Chains
    /\ ~IsProcessing(obj[o])
    /\ router' = At("query", o)
    /\ UNCHANGED <<obj, cache, gor, ingest, cleaner, db, txObjs, chain, bounds, history>>

\* Mutant: a message for an unknown chain leaves the cache and keeps its row.
processMessagesRowKept(o) ==
    /\ router = Idle
    /\ o \in cache
    /\ \/ /\ Dst[obj[o].msg] \notin Chains
          /\ cache' = cache \ {o}
          /\ dropped' = dropped \cup {obj[o].msg}
          /\ obj' = Collected(obj, cache', gor, Idle, ingest)
          /\ UNCHANGED router
       \/ /\ Dst[obj[o].msg] \in Chains
          /\ ~IsProcessing(obj[o])
          /\ obj' = [obj EXCEPT ![o] = ToggleProcessing(@)]
          /\ router' = At("query", o)
          /\ UNCHANGED <<cache, dropped>>
    /\ UNCHANGED <<gor, ingest, cleaner, db, txObjs, chain, bounds, accepted, stored>>

\* A message for a chain that is not configured is cleared; one that is
\* being processed or backing off is skipped; any other is marked.
processMessages(o) ==
    /\ router = Idle
    /\ o \in cache
    /\ \/ /\ Dst[obj[o].msg] \notin Chains
          /\ cache' = cache \ {o}
          /\ router' = At("clear", o)
          /\ dropped' = dropped \cup {obj[o].msg}
          /\ UNCHANGED obj
       \/ /\ Dst[obj[o].msg] \in Chains
          /\ ~IsProcessing(obj[o])
          /\ obj' = [obj EXCEPT ![o] = ToggleProcessing(@)]
          /\ router' = At("query", o)
          /\ UNCHANGED <<cache, dropped>>
    /\ UNCHANGED <<gor, ingest, cleaner, db, txObjs, chain, bounds, accepted, stored>>

\* Mutant: EmitMessages are taken for received without asking the chain.
MessageReceivedBlindly(m) == m \in Deduped

\* The answer of dst.MessageReceived: it only ever recognises EmitMessage.
MessageReceived(m) == m \in Deduped /\ m \in delivered

messageReceivedErr ==
    /\ router.pc = "query"
    /\ router' = Idle
    /\ obj' = Collected([obj EXCEPT ![router.obj] = ToggleProcessing(@)],
                        cache, gor, Idle, ingest)
    /\ UNCHANGED <<cache, gor, ingest, cleaner, db, txObjs, chain, bounds, history>>

messageReceivedTrue ==
    /\ router.pc = "query"
    /\ MessageReceived(obj[router.obj].msg)
    /\ cache' = cache \ {router.obj}
    /\ router' = At("clear", router.obj)
    /\ UNCHANGED <<obj, gor, ingest, cleaner, db, txObjs, chain, bounds, history>>

messageReceivedFalse ==
    /\ router.pc = "query"
    /\ ~MessageReceived(obj[router.obj].msg)
    /\ \E g \in Gors :
         /\ gor[g] = Idle
         /\ gor' = [gor EXCEPT ![g] = At("start", router.obj)]
    /\ router' = Idle
    /\ UNCHANGED <<obj, cache, ingest, cleaner, db, txObjs, chain, bounds, history>>

\* The second half of ClearMessages, after the object has left the cache.
processMessagesClear ==
    /\ router.pc = "clear"
    /\ router' = Idle
    /\ \/ db' = DeleteMessage(obj[router.obj].msg) /\ UNCHANGED dbErrs
       \/ DbErr /\ UNCHANGED db
    /\ obj' = Collected(obj, cache, gor, Idle, ingest)
    /\ UNCHANGED <<cache, gor, ingest, cleaner, txObjs, chain,
                   seen, crashes, ops, history>>

----------------------------------------------------------------------------
(* RouteMessage: one goroutine per attempt.                                *)

\* IncrementRetry, then dst.Route up to broadcasting the transaction.
RouteMessage(g) ==
    /\ gor[g].pc = "start"
    /\ obj' = [obj EXCEPT ![gor[g].obj] = IncrementRetry(@)]
    /\ \E pc \in {"pending", "failed"} : gor' = [gor EXCEPT ![g] = At(pc, @.obj)]
    /\ UNCHANGED <<cache, router, ingest, cleaner, db, txObjs, chain, bounds, history>>

\* The destination chain executes the transaction.  A second execution of
\* the same message reverts; a first one may revert too.
ExecuteTx(g) ==
    /\ gor[g].pc = "pending"
    /\ \/ /\ MsgOf(g) \notin delivered
          /\ delivered' = delivered \cup {MsgOf(g)}
          /\ gor' = [gor EXCEPT ![g] = At("succeeded", @.obj)]
       \/ /\ gor' = [gor EXCEPT ![g] = At("failed", @.obj)]
          /\ UNCHANGED delivered
    /\ UNCHANGED <<obj, cache, router, ingest, cleaner, db, txObjs, mempool, bounds, history>>

\* The wait gives up, on an Endless chain only because it could not subscribe;
\* the transaction may still be executed later.
WaitTimeout(g) ==
    /\ gor[g].pc = "pending"
    /\ gor' = [gor EXCEPT ![g] = At("failed", @.obj)]
    /\ mempool' = mempool \cup {MsgOf(g)}
    /\ UNCHANGED <<obj, cache, router, ingest, cleaner, db, txObjs, delivered, bounds, history>>

\* On an Endless chain the event of the result is missed, or never comes: the
\* goroutine stays in Route, Processing set, until the process ends.
WaitForever(g) ==
    /\ gor[g].pc = "pending"
    /\ Dst[MsgOf(g)] \in Endless
    /\ gor' = [gor EXCEPT ![g] = At("deaf", @.obj)]
    /\ mempool' = mempool \cup {MsgOf(g)}
    /\ UNCHANGED <<obj, cache, router, ingest, cleaner, db, txObjs, delivered, bounds, history>>

ExecuteLateTx(m) ==
    /\ m \in mempool
    /\ mempool' = mempool \ {m}
    /\ delivered' = delivered \cup {m}
    /\ UNCHANGED <<obj, cache, threads, db, txObjs, bounds, history>>

\* The callback with Code = Success: the object must still be in the cache;
\* a finality chain gets a transaction object first, and an error storing it
\* leaves the message as it is; then ClearMessages begins.
callback(g) ==
    /\ gor[g].pc = "succeeded"
    /\ \/ /\ gor[g].obj \notin cache
          /\ gor' = [gor EXCEPT ![g] = Idle]
          /\ UNCHANGED <<cache, txObjs, dbErrs>>
       \/ /\ gor[g].obj \in cache
          /\ Dst[MsgOf(g)] \in FinalityChains
          /\ DbErr
          /\ gor' = [gor EXCEPT ![g] = Idle]
          /\ UNCHANGED <<cache, txObjs>>
       \/ /\ gor[g].obj \in cache
          /\ txObjs' = IF Dst[MsgOf(g)] \in FinalityChains
                       THEN txObjs \cup {MsgOf(g)} ELSE txObjs
          /\ cache' = cache \ {gor[g].obj}
          /\ gor' = [gor EXCEPT ![g] = At("clear", @.obj)]
          /\ UNCHANGED dbErrs
    /\ obj' = Collected(obj, cache', gor', router, ingest)
    /\ UNCHANGED <<router, ingest, cleaner, db, chain, seen, crashes, ops, history>>

callbackClear(g) ==
    /\ gor[g].pc = "clear"
    /\ gor' = [gor EXCEPT ![g] = Idle]
    /\ \/ db' = DeleteMessage(MsgOf(g)) /\ UNCHANGED dbErrs
       \/ DbErr /\ UNCHANGED db
    /\ obj' = Collected(obj, cache, gor', router, ingest)
    /\ UNCHANGED <<cache, router, ingest, cleaner, txObjs, chain, seen, crashes, ops, history>>

\* Mutant: the row written on arrival is taken for granted.
HandleMessageFailedNoStore(g) ==
    LET r == ToggleProcessing(obj[gor[g].obj])
    IN  /\ gor[g].pc = "failed"
        /\ gor' = [gor EXCEPT ![g] = IF r.retry >= MaxTxRetry
                                     THEN At("remove", @.obj) ELSE Idle]
        /\ obj' = Collected([obj EXCEPT ![gor[g].obj] = r], cache, gor', router, ingest)
        /\ UNCHANGED <<cache, router, ingest, cleaner, db, txObjs, chain, bounds, history>>

\* HandleMessageFailed: release the object, and at MaxTxRetry attempts move
\* the message from the cache to the store.
HandleMessageFailed(g) ==
    LET r == ToggleProcessing(obj[gor[g].obj])
    IN  /\ gor[g].pc = "failed"
        /\ gor' = [gor EXCEPT ![g] = IF r.retry >= MaxTxRetry
                                     THEN At("store", @.obj) ELSE Idle]
        /\ obj' = Collected([obj EXCEPT ![gor[g].obj] = r], cache, gor', router, ingest)
        /\ UNCHANGED <<cache, router, ingest, cleaner, db, txObjs, chain, bounds, history>>

\* Mutant: a failing StoreMessage does not keep the object in the cache.
HandleMessageFailedStoreAnyway(g) ==
    /\ gor[g].pc = "store"
    /\ gor' = [gor EXCEPT ![g] = At("remove", @.obj)]
    /\ \/ db' = StoreMessage(obj[gor[g].obj]) /\ UNCHANGED dbErrs
       \/ DbErr /\ UNCHANGED db
    /\ UNCHANGED <<obj, cache, router, ingest, cleaner, txObjs, chain, seen, crashes, ops, history>>

HandleMessageFailedStore(g) ==
    /\ gor[g].pc = "store"
    /\ \/ /\ db' = StoreMessage(obj[gor[g].obj])
          /\ gor' = [gor EXCEPT ![g] = At("remove", @.obj)]
          /\ UNCHANGED dbErrs
       \/ /\ DbErr
          /\ gor' = [gor EXCEPT ![g] = Idle]
          /\ UNCHANGED db
    /\ obj' = Collected(obj, cache, gor', router, ingest)
    /\ UNCHANGED <<cache, router, ingest, cleaner, txObjs, chain, seen, crashes, ops, history>>

HandleMessageFailedRemove(g) ==
    /\ gor[g].pc = "remove"
    /\ cache' = cache \ {gor[g].obj}
    /\ gor' = [gor EXCEPT ![g] = Idle]
    /\ obj' = Collected(obj, cache', gor', router, ingest)
    /\ UNCHANGED <<router, ingest, cleaner, db, txObjs, chain, bounds, history>>

----------------------------------------------------------------------------
(* The tickers of StartRouter and StartFinalityProcessor.                  *)

\* An object loaded from a row: a new object, with the row's fields.
Loaded(r) ==
    {[msg |-> r.msg, retry |-> r.retry, processing |-> r.processing, lastTry |-> t]
        : t \in Aged(r.lastTry)}

\* flushMessages: every active row of the page becomes a new cache entry,
\* whether or not the message is cached already.
flushMessages(c) ==
    LET rows == getActiveMessagesFromStore(c)
    IN  /\ rows # {}
        /\ \E slot \in [rows -> Free] :
             /\ \A r1, r2 \in rows : slot[r1] = slot[r2] => r1 = r2
             /\ \E load \in [rows -> UNION {Loaded(r) : r \in rows}] :
                  /\ \A r \in rows : load[r] \in Loaded(r)
                  /\ obj' = [o \in Objs |->
                               IF \E r \in rows : slot[r] = o
                               THEN load[CHOOSE r \in rows : slot[r] = o] ELSE obj[o]]
             /\ cache' = cache \cup {slot[r] : r \in rows}
        /\ UNCHANGED <<threads, db, txObjs, chain, bounds, history>>

\* Time passes: the backoff of an object runs out.
BackoffEnds(o) ==
    /\ obj[o].lastTry = "future"
    /\ obj' = [obj EXCEPT ![o] = [msg |-> @.msg, retry |-> @.retry,
                                  processing |-> @.processing, lastTry |-> "past"]]
    /\ UNCHANGED <<cache, threads, db, txObjs, chain, bounds, history>>

\* cleanExpiredMessages reads a page and judges it by IsElasped.  A message
\* never tried has the zero LastTry, which is elapsed from the start; a tried
\* one elapses with time.
cleanExpiredFetch(c) ==
    /\ CleanerOn
    /\ cleaner = {}
    /\ \E old \in SUBSET {r \in GetMessages(c) : r.lastTry # "zero"} :
         cleaner' = {Key(r.msg) : r \in old \cup
                                 {x \in GetMessages(c) : x.lastTry = "zero"}}
    /\ cleaner' # {}
    /\ UNCHANGED <<obj, cache, gor, router, ingest, db, txObjs, chain, bounds, history>>

\* ClearMessages for one of them.  The key was decoded from the row, so the
\* cache's Remove finds nothing and only the row goes.
cleanExpiredDelete(k) ==
    /\ k \in cleaner
    /\ cleaner' = cleaner \ {k}
    /\ \/ /\ db' = {r \in db : Key(r.msg) # k}
          /\ dropped' = dropped \cup {m \in Msgs : Key(m) = k /\ InDb(m)}
          /\ UNCHANGED dbErrs
       \/ DbErr /\ UNCHANGED <<db, dropped>>
    /\ UNCHANGED <<obj, cache, gor, router, ingest, txObjs, chain,
                   seen, crashes, ops, accepted, stored>>

\* CheckFinality, for a transaction whose receipt is still there.  Receipts
\* that disappear are the subject of module Finality.
CheckFinality(m) ==
    /\ m \in txObjs
    /\ txObjs' = txObjs \ {m}
    /\ UNCHANGED <<obj, cache, threads, db, chain, bounds, history>>

----------------------------------------------------------------------------
(* Operator commands on the unix socket.                                   *)

Command == ops < MaxOps /\ ops' = ops + 1

\* EventRelayMessage with a height: GenerateMessages, cached but not stored.
RelayMessageByHeight(m) ==
    /\ Command
    /\ \E o \in Free : /\ obj' = [obj EXCEPT ![o] = NewRouteMessage(m)]
                      /\ cache' = cache \cup {o}
    /\ accepted' = accepted \cup {m}
    /\ UNCHANGED <<threads, db, txObjs, chain, seen, crashes, dbErrs, stored, dropped>>

\* Mutant: the row is moved to the cache, not copied.
RelayMessageFromStoreMoved(r) ==
    /\ Command
    /\ \E o \in Free, x \in Loaded(r) : /\ obj' = [obj EXCEPT ![o] = x]
                                       /\ cache' = cache \cup {o}
    /\ db' = db \ {r}
    /\ UNCHANGED <<threads, txObjs, chain, seen, crashes, dbErrs, history>>

\* EventRelayMessage without: the row is cached, stale or not.
RelayMessageFromStore(r) ==
    /\ Command
    /\ \E o \in Free, x \in Loaded(r) : /\ obj' = [obj EXCEPT ![o] = x]
                                       /\ cache' = cache \cup {o}
    /\ UNCHANGED <<threads, db, txObjs, chain, seen, crashes, dbErrs, history>>

\* EventMessageRemove: the row only.
MessageRemove(r) ==
    /\ Command
    /\ db' = DeleteMessage(r.msg)
    /\ dropped' = dropped \cup {r.msg}
    /\ UNCHANGED <<obj, cache, threads, txObjs, chain, seen, crashes, dbErrs, accepted, stored>>

\* EventPruneDB: every key of the database, the finality store included.
PruneDB ==
    /\ Command
    /\ db' = {}
    /\ txObjs' = {}
    /\ dropped' = dropped \cup {r.msg : r \in db}
    /\ UNCHANGED <<obj, cache, threads, chain, seen, crashes, dbErrs, accepted, stored>>

----------------------------------------------------------------------------
(* The process dies and NewRelayer starts it again: memory is lost, LevelDB *)
(* and the chains are not, and a broadcast transaction stays in its mempool. *)
(* With --fresh, NewRelayer clears the database first.                      *)

Restart(fresh) ==
    /\ crashes < MaxCrashes
    /\ crashes' = crashes + 1
    /\ obj' = [o \in Objs |-> Blank]
    /\ cache' = {}
    /\ gor' = [g \in Gors |-> Idle]
    /\ router' = Idle
    /\ ingest' = [c \in Chains |-> NoObj]
    /\ cleaner' = {}
    /\ mempool' = mempool \cup {MsgOf(g) : g \in {x \in Gors : gor[x].pc = "pending"}}
    /\ accepted' = stored
    /\ IF fresh THEN /\ db' = {} /\ txObjs' = {}
                     /\ dropped' = dropped \cup {r.msg : r \in db}
                ELSE UNCHANGED <<db, txObjs, dropped>>
    /\ UNCHANGED <<delivered, seen, dbErrs, ops, stored>>

Next ==
    \/ \E m \in Msgs : processBlockInfo(m)
    \/ \E c \in Chains : processBlockInfoStore(c)
    \/ \E o \in Objs : processMessages(o)
    \/ messageReceivedErr \/ messageReceivedTrue \/ messageReceivedFalse
    \/ processMessagesClear
    \/ \E g \in Gors : RouteMessage(g) \/ ExecuteTx(g) \/ WaitTimeout(g) \/ WaitForever(g)
                      \/ callback(g) \/ callbackClear(g) \/ HandleMessageFailed(g)
                      \/ HandleMessageFailedStore(g) \/ HandleMessageFailedRemove(g)
    \/ \E m \in Msgs : ExecuteLateTx(m) \/ CheckFinality(m) \/ RelayMessageByHeight(m)
    \/ \E c \in Chains : flushMessages(c) \/ cleanExpiredFetch(c)
    \/ \E o \in Objs : BackoffEnds(o)
    \/ \E k \in cleaner : cleanExpiredDelete(k)
    \/ \E r \in db : RelayMessageFromStore(r) \/ MessageRemove(r)
    \/ PruneDB
    \/ \E fresh \in BOOLEAN : Restart(fresh)

Spec == Init /\ [][Next]_vars

----------------------------------------------------------------------------
(* Fairness.  Every ticker keeps firing and every goroutine keeps running; *)
(* processMessages visits each cached object in every pass, so an object   *)
(* that is eligible again and again is picked; MessageReceived does not    *)
(* fail for ever.  A chain need not ever execute a transaction, and a wait *)
(* on an Endless chain may come to its "deaf" end, where no step is left.  *)

GoroutineStep(g) ==
    \/ RouteMessage(g) \/ ExecuteTx(g) \/ WaitTimeout(g) \/ WaitForever(g)
    \/ callback(g) \/ callbackClear(g)
    \/ HandleMessageFailed(g) \/ HandleMessageFailedStore(g) \/ HandleMessageFailedRemove(g)

Fairness ==
    /\ \A c \in Chains : WF_vars(processBlockInfoStore(c)) /\ WF_vars(flushMessages(c))
    /\ \A o \in Objs : SF_vars(processMessages(o)) /\ WF_vars(BackoffEnds(o))
    /\ SF_vars(messageReceivedTrue \/ messageReceivedFalse)
    /\ WF_vars(processMessagesClear)
    /\ \A g \in Gors : WF_vars(GoroutineStep(g))

FairSpec == Spec /\ Fairness

----------------------------------------------------------------------------
(* Correctness.                                                            *)

PCs == {"idle", "start", "pending", "deaf", "succeeded", "failed", "store", "remove", "clear"}

\* Every variable keeps its type; Retry never falls below zero.
TypeOK ==
    /\ obj \in [Objs -> RouteMessageType]
    /\ cache \subseteq Objs
    /\ gor \in [Gors -> [pc : PCs, obj : Objs \cup {NoObj}]]
    /\ router \in [pc : {"idle", "query", "clear"}, obj : Objs \cup {NoObj}]
    /\ ingest \in [Chains -> Objs \cup {NoObj}]
    /\ cleaner \subseteq {Key(m) : m \in Msgs}
    /\ db \subseteq RouteMessageType
    /\ txObjs \subseteq Msgs
    /\ delivered \subseteq Msgs
    /\ mempool \subseteq Msgs
    /\ seen \in [Msgs -> Nat]
    /\ crashes \in Nat /\ dbErrs \in Nat /\ ops \in Nat
    /\ accepted \subseteq Msgs /\ stored \subseteq Msgs /\ dropped \subseteq Msgs

\* Inside dst.Route or on the way to HandleMessageFailed's ToggleProcessing.
InRoute(g) == gor[g].pc \in {"start", "pending", "deaf", "succeeded", "failed"}

Querying(o) == router.pc = "query" /\ router.obj = o

\* A thread that is not idle works on an object of the heap.
ThreadsOK ==
    /\ \A g \in Gors : gor[g].pc # "idle" <=> gor[g].obj # NoObj
    /\ router.pc # "idle" <=> router.obj # NoObj

\* Processing is a lock: an object is relayed by one goroutine at a time,
\* although it is a plain field that the router sets and another goroutine
\* clears while HandleMessageFailed of an earlier attempt may still be
\* storing and removing the same object.
RouteMutex ==
    \A g1, g2 \in Gors :
        InRoute(g1) /\ InRoute(g2) /\ gor[g1].obj = gor[g2].obj => g1 = g2

\* Why: the flag is set as long as anybody owns the object, and the router
\* and a goroutine never own it together.
LockOK ==
    /\ \A g \in Gors : InRoute(g) => obj[gor[g].obj].processing /\ ~Querying(gor[g].obj)
    /\ router.pc = "query" => obj[router.obj].processing

\* A message written to the message store on arrival keeps a row there until
\* it has been executed on its destination or somebody decided to drop it,
\* whatever crashes, restarts and failing writes come in between.
Durable == \A m \in stored : m \in delivered \/ m \in dropped \/ InDb(m)

\* A message handed to this process, stored or not, is in the cache or in
\* the store until it has been executed or dropped: no attempt, failure or
\* clean-up loses it between the two.
NoSilentLoss ==
    \A m \in accepted : m \in delivered \/ m \in dropped \/ InDb(m) \/ Cached(m)

\* Why: a row is deleted only for a message that needs none, and an object
\* leaves the cache after a failure only when its row is there.
ClearOK ==
    /\ \A g \in Gors : gor[g].pc \in {"succeeded", "clear"} => MsgOf(g) \in delivered
    /\ \A g \in Gors : gor[g].pc = "remove" =>
          MsgOf(g) \in delivered \/ MsgOf(g) \in dropped \/ InDb(MsgOf(g))
    /\ router.pc = "clear" =>
          obj[router.obj].msg \in delivered \/ obj[router.obj].msg \in dropped

\* The inductive invariant of module RelayerProofs, the lock discipline of
\* Processing and the order of store and remove in HandleMessageFailed included.
SafetyInv == TypeOK /\ ThreadsOK /\ LockOK /\ RouteMutex /\ ClearOK /\ Durable /\ NoSilentLoss

\* Settled: executed, dropped, or flagged for the operator after
\* StaleMarkCount attempts.
Settled(m) == \/ m \in delivered \/ m \in dropped
              \/ \E r \in db : r.msg = m /\ IsStale(r)

\* One of its attempts waits for a result that does not come.
Deaf(m) == \E g \in Gors : gor[g].pc = "deaf" /\ MsgOf(g) = m

\* Every message handed to the relayer is eventually settled, unless an attempt
\* to an Endless chain misses its result and waits for ever, and provided no
\* row is ever written with Processing set: nobody picks up such a row.
EventuallySettled ==
    [](\A r \in db : ~r.processing) =>
        \A m \in Msgs : [](m \in accepted => <>Settled(m) \/ <>[]Deaf(m))

\* A message for a chain that is not configured leaves the cache and the
\* store for good, although the row may be written after processMessages has
\* cleared it, a DeleteMessage may fail, and the operator or a restart may
\* bring it back: flushMessages keeps handing it to processMessages.
UnknownForgotten ==
    \A m \in Msgs : Dst[m] \notin Chains => <>[](~Cached(m) /\ ~InDb(m))

----------------------------------------------------------------------------
(* The promise of module Delivery: a message is where an object or a row   *)
(* of it is, however many there are.                                       *)

InMemory == {m \in Msgs : Cached(m)}
OnDisk == {m \in Msgs : InDb(m)}

D == INSTANCE Delivery WITH memory <- InMemory, disk <- OnDisk

\* No step of any thread takes the last object of a message out of the cache
\* unless its row is there or it is done, or deletes its row before it is done.
KeepsPromise == D!Spec
============================================================================
