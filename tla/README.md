# A verification project for centralized-relay

centralized-relay watches cross-chain contracts on several chains (EVM, ICON,
CosmWasm) and carries every message it sees to the chain the message is for.
This directory holds TLA+ models of its own logic, TLC configurations that
model-check them on small instances, and proofs checked by TLAPS for every
instance. Paths below are relative to the repository's `relayer/`, unless they
begin with `cmd/` or `docs/`.

## 1. The system

| component | state | operations | interacts with |
|---|---|---|---|
| relayer core (`relay.go`, `chain_runtime.go`) | per chain: `MessageCache`, `LastBlockHeight`, `LastSavedHeight`, `listenerChan` | `processBlockInfo`, `processMessages`, `RouteMessage`, `callback`, `HandleMessageFailed`, `flushMessages`, `cleanExpiredMessages`, `CheckFinality`, `SaveChainsBlockHeight` | reads listeners' channels, calls providers, writes the stores |
| message types (`types/types.go`) | `RouteMessage{Retry, Processing, LastTry}`, cache map | `ToggleProcessing`, `IncrementRetry`, `IsProcessing`, `IsStale`, `IsElasped`; `Add`, `Remove`, `Get` | shared by router, attempts, tickers and socket, mostly without locks |
| stores (`store/`, `lvldb/`) | rows of LevelDB: messages, transaction objects, heights | store, get, paged list, delete, clear all | core, socket |
| socket (`socket/`) | the socket file, connections | relay a message by height or from the store, remove, prune, list, revert, fees | core, stores, providers, from a goroutine per connection; `cmd/db.go`, `cmd/contracts.go` |
| EVM provider (`chains/evm`) | `NonceTracker`, `routerMutex`, client | `Listener`, `Subscribe`, `Route`, `SendTransaction`, `WaitForTxResult`, admin transactions, queries | chain node |
| ICON provider (`chains/icon`) | client, event request | `Listener`, `MonitorEvent`, `Route`, `WaitForTxResult`, queries | chain node |
| CosmWasm provider (`chains/wasm`) | account sequence, `routerMutex` | `Listener`, `SubscribeMessageEvents`, `Route`, `call`, `handleSequence`, `subscribeTxResult`, queries | chain node |
| key management (`kms/`, `chains/*/keys.go`, `cmd/keystore.go`) | two files per keystore, the KMS key | new, import, use, restore | AWS KMS, configuration file |
| command line (`cmd/`) | configuration file, its lock | start, config init, chains add and delete, keystore and database commands | socket, database, files |

What is hard: the router goroutine, one goroutine per attempt, a block
processor per chain, three tickers that start goroutines of their own, the
finality processor and the socket all touch the same `RouteMessage` objects and
the same LevelDB rows; `Processing` is a plain field used as a lock; every
attempt may fail, time out, or succeed after it timed out; listeners fetch old
blocks and subscribe to new ones at the same time; nodes drop connections; the
process may stop between any two steps, and LevelDB is all that survives.

What makes each part correct:

* core: no message is lost between cache, store and destination; no object is
  relayed by two attempts at once; every message is settled in the end;
* stores: one row per message, rows found again after a restart;
* routing: no transaction replaces another; no attempt keeps the mutex; sequences
  recover from every failure; a message is cleared only if it was executed;
* listeners: no log is missed between fetching and subscribing;
* messages: the transaction sent is the one the event asks for;
* finality: a transaction that a reorganisation undoes is sent again;
* command line: a command is served by the owner of the database, and files
  that commands write are not damaged by later ones.

## 2. The modules

| module | models | proofs | run |
|---|---|---|---|
| `Delivery` | what the relayer promises about a message (abstract) | `DeliveryProofs` | `relayer_safety` |
| `Relayer` | the core, message types, message store, socket commands on messages | `RelayerProofs` | `relayer_safety`, `relayer_unknown`, `relayer_live` |
| `EvmRoute` | nonces, mutex and mempool of an EVM chain | `EvmRouteProofs` | `evm_locked`, `evm_live`, `evm_refresh` |
| `Finality` | transaction objects and reorganisations | `FinalityProofs` | `finality` |
| `Heights`, `EvmListener`, `WasmListener`, `IconListener`; `Listeners` composes them | listeners, block channel, saved height | `ListenersProofs` | `listeners`, `listeners_saved` |
| `Attempts`, `WasmRoute`, `IconRoute`; `Routes` composes them | sending to Wasm and ICON chains | `RoutesProofs` | `routes` |
| `Messages` | events to messages to transactions, operator requests | `MessagesProofs` | `messages` |
| `Console`, `ConfigFile`, `Keystore`; `Cli` composes them | processes and socket, configuration file, keystores | `CliProofs` | `cli` |

Each composed module takes the kind of chain (or the part of the home
directory) as a variable fixed by `Init`, so that one run covers all of them.
Definitions named as mutants in the modules (`...Blindly`, `...Unlocked` and so
on) are not used by any specification: they are the plausible bugs that show
that a property can fail.

What could still be added, most important first: an instance of `Finality`
whose two messages share a key of the finality store; the listeners, `Relayer`
and the routes composed into one behaviour with several chains; abstract
specifications of a listener and of a route like `Delivery` for the core.

## 3. Module Relayer

`Relayer.tla` models the core, the message types, the message store, and the
socket commands that touch messages.

* `obj` is the Go heap of `RouteMessage` objects. Objects have identity because
  `MessageKey` holds `Sn` as a `*big.Int`: a Go map keyed by it compares the
  pointer, so each decoded copy of a message is a cache entry of its own. A
  cache is a set of slots of `obj`; slots are freed when nothing refers to them.
* `gor` holds the `RouteMessage` goroutines and where they are; `router` the
  `StartRouter` goroutine inside `processMessages` and `ClearMessages`;
  `ingest` the block processors between `Add` and `StoreMessage`; `cleaner`
  the keys `cleanExpiredMessages` has judged and not yet deleted.
* `db` is the message store, a set of rows with at most one per key
  `(Src, Sn)`; `txObjs` the finality store.
* `delivered` and `mempool` are the destination chains (external).
* `accepted`, `stored` and `dropped` are history variables: what the relayer
  was handed, what it wrote on arrival, what it explicitly gave up (unknown
  destination, expiry, operator command, `--fresh`).
* `LastTry` is abstracted to zero, in the future, in the past. A timestamp of
  a row may have passed by the time it is read (`Aged`), a cached one passes by
  `BackoffEnds`; a tried row may or may not be older than 24 hours.

A handler is one action up to the next point where another goroutine can see
its effect: `processBlockInfo` is cache, then store; `HandleMessageFailed` is
release, store, remove; `ClearMessages` is remove, then delete; the cleaner is
read, then delete one by one. `flushMessages` reads and adds in one step: an
object added later than it was read behaves like one that was added at once
and not looked at until then. A fatal runtime error (a concurrent map write,
say) is a crash, and `Restart` may come at any step.

An attempt that waits for its result gets it (`ExecuteTx`), gives up
(`WaitTimeout`), or, on a chain in `Endless`, does neither (`WaitForever`).
`Endless` are the CosmWasm chains: `subscribeTxResult` makes a context with a
time-out and selects on the caller's (wasm/provider.go:342), so an attempt that
misses its event stays in `Route`, with `Processing` set, until the process ends.

### Runs

| run | instance | shows |
|---|---|---|
| `relayer_safety` | 1 message, 2 objects, 2 attempts at a time, 1 crash, 1 failing LevelDB write, a finality chain whose waits may be endless | `TypeOK`, `RouteMutex`, `Durable`, `NoSilentLoss`, `SafetyInv` (the inductive invariant), `KeepsPromise` (the refinement of `Delivery`) |
| `relayer_unknown` | a message for an unknown chain, everything at once | `UnknownForgotten` (liveness) |
| `relayer_live` | 1 message, 2 objects, 1 attempt at a time, cleaner on, 1 operator command, waits may be endless | `Durable`, `NoSilentLoss`, `EventuallySettled` (liveness) |

`MaxTxRetry` is 1 (5 in the code), so `StaleMarkCount` is 3 (15): a message
still goes through retry in the cache, moving to the store, reloading, and
becoming stale. Two object slots are enough for the original and a copy that
`flushMessages` or the operator adds, two goroutine slots for the failing
attempt that is still cleaning up and the next one; the theorems lift both
bounds. With the bounds spent the system may stop, so deadlock is not checked.

Fairness (`FairSpec`): every goroutine and ticker keeps running (weak), every
pass of `processMessages` visits every cached object (strong, since the object
is ineligible while it backs off), `MessageReceived` does not fail for ever
(strong). A waiting attempt takes some step, which on a chain in `Endless` may
be `WaitForever`. Nothing is assumed of the destination: transactions may revert
and time out for ever, and the message is then flagged stale.
`EventuallySettled` is stated for behaviours that never write a row with
`Processing` set (see the limits below), and excepts a message with an attempt
that waits for ever (`Deaf`).

### The promise: Delivery

`Delivery.tla` says what an operator relies on, without threads, objects and
flags: a message leaves the memory only if it is on disk or done, and the disk
only if it is done (executed, or given up by a decision). `Relayer` implements
it under `memory <- InMemory, disk <- OnDisk`: a message is where any object or
row of it is. The property bites where an action takes the last copy away:
`HandleMessageFailedRemove` after a failing store, a delete before execution.

### Limits of the code that the model shows

These are behaviours of the model, and the properties are stated around them:

* `cleanExpiredMessages` deletes by a page it read earlier (relay.go:506). In
  between `HandleMessageFailed` may have written the row and dropped the object;
  the delete then removes the only copy. The cleaner also deletes the rows of
  untried messages, whose zero `LastTry` counts as expired (types.go:116). Both
  count as `dropped` in the model.
* `HandleMessageFailed` releases `Processing` before it stores (relay.go:337);
  if the router sets it again in between, the row says `Processing`, and after
  the object has left the cache nobody picks the row up.
* `(Src, Sn)` is the key of a row (messageStore.go:98), but different events of
  one chain may share it, and the finality store has `(Dst, Sn)`
  (finalityStore.go:51); the theorems assume `KeyInjective` for this reason.
* An attempt to a CosmWasm chain that misses its result is never retried by this
  process, even if its transaction failed.
* A successful callback leaves copies of the message in the cache, and a flush
  loads one page of rows only.

### Proofs

`RelayerProofs.tla` proves, for every value of the constants:

* `TypeCorrect`: `Spec => []TypeOK`, from `TypeInv` (`TypeOK` and `ThreadsOK`:
  a thread that is not idle refers to an object);
* `MutualExclusion`: `Spec => []RouteMutex`. The invariant is not inductive: a
  second attempt starts because `Processing` was clear while a first one runs.
  `LockOK` adds that the flag is set while the router or an attempt owns the
  object, and that they never own it together. `LockStable` is the part all
  actions share;
* `Durability` and `NothingLost`: `KeyInjective => (Spec => []Durable)` and the
  same of `NoSilentLoss`. `ClearOK` is the strengthening: whoever is about to
  delete a row or remove an object holds a message that is delivered, dropped,
  or has a row. `KeyInjective` (no two messages share a row key) is a real
  assumption;
* `AllSafe`: the whole of `SafetyInv`, under the same assumption;
* `Implementation` (in `DeliveryProofs.tla`): `KeyInjective => (Spec =>
  KeepsPromise)`. Every action is shown to be a step of `Delivery` or to leave
  its variables alone, from `SafetyInv`: `ClearOK` gives the guards of
  `Release` and `Delete`. The lemmas `MemorySame`, `MemoryMinus`, `DiskSame`
  and their like say what one object or row more or less does to the sets.

Liveness is model-checked only: fairness is out of the prover's reach.

## 4. Module EvmRoute

`EvmRoute.tla` models how transactions get to an EVM chain: `Provider.Route`,
`SendTransaction`, `WaitForTxResult`, the admin calls, `Wallet`, and
`NonceTracker`.

The tracker hands out pointers. `Set` and the refresh in `Get` compute
`Previous` with `n.Sub(n, 1)`, which changes `n` itself, so `Current` and
`Previous` are one `big.Int`, and `Get` adds one in place to the number an
earlier caller may still hold in its `TransactOpts`. The model keeps this
aliasing: `current` is that number, `opts[c] = Shared` says that caller `c`
holds it, and a `Set` or a refresh (a new number) leaves `c` with the old value.

* `wallet`, `entry`, `aged` are `p.wallet`, the tracker's map entry, and
  whether `LastUpdated` is older than `NonceUpdateInterval`. `mutex` is
  `routerMutex`, `pc` the point each caller has reached.
* `mined`, `pool`, `executed` and `reverted` are the chain (external). A node
  takes a transaction whose nonce is not used up, in place of a pending one
  with the same nonce if the price allows it, or refuses it.
* A handler is cut where another caller can see its effect: around the mutex,
  between restoring the wallet and setting its nonce, between `Get` and the
  send (the gas estimate is there), between a refusal and `Set`, and at the wait.
* `GetPanics` is the nil dereference of `Get` for a wallet without an entry;
  `GasTipPanics` that of a nil gas tip, since a failing `SuggestGasTip` is only
  logged (evm/provider.go:257).
* `Tick` is the passing of `NonceUpdateInterval` since the last `Set` or refresh.
  `Get` and the sends between do not move `LastUpdated` (evm/types/types.go:58),
  so the tracker ages every three minutes whatever the traffic: `Tick` is always
  possible and not bounded.

| run | instance | shows |
|---|---|---|
| `evm_locked` | 2 routes, 2 failures, 1 crash | `StableNonce`, `LockInv` (the inductive invariant), `LockPreventsReplacement` |
| `evm_live` | 1 route, 1 admin call, 2 failures | `AttemptsEnd` |
| `evm_refresh` | 2 routes | refutes route.go: "lock here to prevent transcation replacement": the refreshed nonce is used already |

Two more limits follow from the same model. Admin calls take nonces without the
lock, so a Route and an admin call may send with one nonce. And an attempt that
comes more than `NonceUpdateInterval` after the last refresh, as every retry of a
message does from the fifth on, takes the refresh branch and gets a used nonce.
So it does not hold that every message is executed in the end, and nothing of the
kind is checked. What holds is `AttemptsEnd`: every attempt ends, in whichever
state the tracker and the pool are, and does not keep `routerMutex`.

`MaxFails` and `MaxCrashes` bound what goes wrong, `MaxNonce` the numbers that
the tracker and the pool reach; none bounds how often a message is tried or the
tracker ages. Two routes suffice for every pair of interleaved sends, and the
theorems lift the bounds.

Fairness: a caller that has begun runs on, because every call to the node returns
(weak, per caller), and the chain makes blocks (weak). Nothing is assumed of when
a message is tried again.

`EvmRouteProofs.tla` proves `NonceIsStable`: `Admins = {} => (Spec =>
[]StableNonce)`, for every number of routes. `StableNonce` alone is not
inductive: another Route between `Lock` and `Unlock` would move the number.
`MutexOK` adds that whoever is there holds the mutex. Without `Admins = {}` it
is false: an admin call moves the number. `LockHolds` proves `LockInv`, types
included, under the same assumption. Its types need an argument of their own:
`PendingNonceAt` is a `CHOOSE`, and that there is such a nonce follows from a
finite pool (`SomeFree`, by counting) and the least number principle
(`PendingNonceIsNat`).

`LockPrevents` proves `Spec => []LockPreventsReplacement`, what is left of the
comment at route.go:26: without admin calls, and as long as no call has failed
and the tracker has never been old (`grown`, history), no transaction replaces
another message's, whatever crashes there are. The invariant, `CalmInv`: the pool has no gap
(`NoGap`), `Current + 1` is its next free nonce (`TrackerOK`) unless a Route is
about to use that nonce (`PlaceOK`), and a wallet without an entry is being
restored (`WalletOK`). From it no send is refused, nobody waits behind a gap,
and so no wait times out; `MutexOK` is needed to know that the Route about to send is the only one. Every condition is needed: a
failing estimate leaves a gap, what waits behind it times out and stays in the
pool, and the number it holds is handed out again.

## 5. Module Finality

`Finality.tla` models `CheckFinality`, the finality store, and, for one
destination with a finality block, what the rest of the relayer does to a
message's cache entry and row.

* `head` and `tx` are the destination (external). A block less than
  `FinalityBlock` deep may be replaced (`Reorg`), which leaves a transaction
  without a receipt (`gone`), with a failed one, or in a later block (`moved`).
* `latest` is `LastBlockHeight`: set to the height of any processed log by
  `processBlockInfo`, to the chain's latest by `SaveBlockHeight`, 0 after a
  restart.
* `rows` is the finality store, `page` what the current round has read,
  `regen` the message between `DeleteTxObject` and `GenerateMessages`.
* A transaction is included while its attempt waits (`Execute`, with a receipt for
  the callback) or after the wait has timed out (`ExecuteLate`, without).
* `pruned` (history) are the transactions taken for final; `lapsed` (history) the
  messages that met one of the three lapses below.

The run `finality` has 2 messages of one block, both of known sources, pages of
one row, transactions that disappear or come to fail, 2 reorganisations, a failing
call and a crash. It checks `FinalIsFinal`, `FinalInv` (the inductive invariant),
`UndoneRemembered` and `UndoneGenerated` (liveness).

relay.go:444 says "if receipt donot exist generate message again and send to src
chain". `UndoneRemembered` and `UndoneGenerated` say how far this goes. The code
forgets a message in three ways, each recorded in `lapsed` where it happens:

* `messageReceived`: the message is cached, has been executed, and has no
  transaction object; `MessageReceived` says so and it is cleared (relay.go:247).
  There are three ways to get there. Its transaction was included after the wait
  had timed out. The process died between execution and callback. Or
  `CheckFinality` deleted the object: the page is read once per round and
  `DeleteTxObject` (relay.go:454) deletes by message key. Say the transactions of
  two messages of one block have failed. `CheckFinality` generates one of them,
  which caches the other again, since `GenerateMessages` returns the whole block;
  the other is executed again and recorded; then its old object in the page has a
  failed receipt and makes the delete remove the object of the new transaction.
* `CheckFinalityGenerate`: the object is deleted before `GenerateMessages`
  (relay.go:462), whose failure leaves nothing.
* `Restart`: what was generated again is in the cache only, not in the store.

`UndoneRemembered`: these are all. A message that did not lapse and whose
transactions have all been undone is in the memory of the process or on disk.
`UndoneGenerated` is stated for failed receipts (`Failed`): no receipt is an error
(relay.go:421), errors are skipped in every round, and a transaction that has
disappeared is never sent again. A row that is skipped keeps its place, so a page
of such rows hides the others for ever (`Crowded`), which the property excepts;
with pages of one row the run has this case.

With `moved` in `Fates` a transaction re-included in a later block is judged by
its stored height and pruned too early: hence the assumption of the theorems.

`FinalityBlock` is 2 and the page one row, so that a row may wait behind
another one; `MaxHeight` lets two transactions become final one after the
other, and a transaction is only included where its block can still become final
below the bound. Fairness: blocks are produced up to the
bound, the height is saved again and again, rounds of the finality processor,
callbacks and flushes run to their end. Nothing is assumed of `Execute`.

`FinalityProofs.tla` proves `PrunedIsFinal`: `"moved" \notin Fates => (Spec =>
[]FinalIsFinal)`. The strengthening, `DepthOK`: `latest` never exceeds `head`, a
successful transaction is in the block it was recorded in, and a pruned one is
`FinalityBlock` deep, so no reorganisation reaches it. The second conjunct is
what a moved transaction breaks. `FinalityHolds` proves `FinalInv`, types
included, under the same assumption.

`UndoneAreRemembered` proves `KeysDiffer /\ "moved" \notin Fates => (Spec =>
[]UndoneRemembered)`. `UndoneRemembered` is not inductive: a message that is
executed, and so not `Undone`, must not lose its object either. The strengthening is
`Known`: every message is `Kept`, that is remembered, lapsed, or has a pruned
transaction, which by `PrunedIsFinal` is never undone. `KnownFrame` is the part that all actions share, and there is one lemma for
each action that takes a copy away: the callback, the two deletes, a failing
generation, the cache and the restart. `KeysDiffer` says that different
messages have different keys in the finality store: the key is `(Dst, Sn)`
(finalityStore.go:51), so two sources may share one, and then one object
overwrites the other. The theorem lifts the bounds on messages, blocks, rows and
reorganisations.

## 6. Listeners

`Heights.tla` has what the listeners share: the source chain (`head`,
`LogHeights`, `BadLogs` for logs that do not parse; external), the channel
(`inflight`), what `processBlockInfo` has stored (`heard`), the block store
(`saved`, with `StoreBlock`, `GetLastStoredBlock`, `ClearStore`) and the process
(`up`, `Launch`, `Return`, `Crash`). `pc`, `armed`, `start`, `latest` and `next` are the
local variables and tickers of a `Listener` goroutine, `sub` and `buf` the
goroutine that holds the subscription.

If the first query of the height fails, `Listener` returns (`Return`). Nobody
calls it again, and `errgroup.Wait` (relay.go:127) reports the error only when
the listeners of all chains have returned: either this was the last one and the
process ends, or the process goes on and this chain is not heard (`Deaf`).

* `EvmListener`: a ticker starts the subscription, then the height is queried
  and old blocks are fetched in ranges; an error of the subscription resets
  `start` to `LastSavedHeight`. `startFromHeight` subtracts modulo `Width`.
* `WasmListener`: two tickers that a reset arms together, one for subscription
  and fetching, one that renews the heights; a lost connection is noticed after
  two minutes without an event. `Reconnect` then makes a new client and does not
  start it (wasm/client.go:250, against wasm/config.go:152), so `Subscribe` is
  refused from then on (`sub` is `stopped` or `refused`), and what is left is the
  polling that every reset begins again.
* `IconListener`: the node streams from the height of the request; progress
  notifications move it, a reconnect begins there again.

`overlooked` (history) records each way in which the code passes over a log:
below the start height, in the gap before a subscription, in a failing range, not
parsing, after a failing query of the height. Each is a real limit of the code.
`Covered` says that there is no other: while the listener runs, a log that is
neither stored nor on its way is one the listener is still going to look at.

The run `listeners` has a chain of each kind with three logs, one of them bad, a
batch size that needs two ranges, two errors and a crash, and checks `TypeOK`,
`Covered` and `EventuallyHeard`, which excepts a listener that has returned while
the process goes on. `FinalityBlock` 2 at height 1 makes the EVM start height
wrap. `listeners_saved` refutes docs/db.md:12 ("The last block that was processed
for all the configured chains"): the saved height is the chain's latest
(relay.go:483) while the log of an earlier block is still in `listenerChan`, so a
restart, which begins at the saved height, skips it. Fairness: the goroutines of
a running process keep running and a dead process is started again (weak; for
Wasm per goroutine, since a client that is not started keeps one of them busy,
and strong on the polling ticker, which `select` does not pass over for ever);
`MaxErrs` bounds how often calls fail, so that from some time on they succeed.

`ListenersProofs.tla` proves `ListenersTyped` and `NothingUnnoticed` for every
value of the constants. The inductive invariant `ListenersInv` adds `TurnsOK` to
`Covered`: the tickers and the subscription take turns (an EVM listener without
an armed ticker has a subscription), an ICON request is never above what is
streamed, only a Wasm client is ever stopped, and nobody asks for blocks above
the head. A listener that returned makes `Covered` true at once (lemma `Returned`). There is one lemma per
action, and one per kind of chain that puts them together.

## 7. Routes to Wasm and ICON chains

`Attempts.tla` has what they share: messages that are tried until settled,
operator transactions that are tried once, the pool and the blocks of the chain
(`pool`, `committed`, `executed`; external) and what a waiting caller can learn
(`result`). A second transaction for an executed message fails, as the contracts
keep receipts.

* `WasmRoute`: `Wallet`, the message built before the lock, `sendMessage` under
  `routerMutex`, the retry with the sequence of the chain after a mismatch, the
  sequence that is read, counted up and written outside the mutex, and the
  subscription for the result. `subscribeTxResult` selects on the caller's
  context and not on the one with the time-out, so an attempt that has missed
  its event waits until the process ends (`WasmDeaf`). An event that cannot be
  encoded or decoded ends the attempt with an error (`WasmTxResult`).
* `IconRoute`: estimate, sign, send, and a wait that polls and gives up. `SetAdmin`
  asks for the result under a hash no transaction has, and ends with an error.

`MessageReceived` of both returns `status, Call(&status)`; Go does not fix the
order of a variable and a call in one return, and the model takes that of the
compiler in use, the call first.

The run `routes` has 2 messages (one with receipts), an operator transaction, a
failure and a crash, for each kind, and checks `TypeOK`, `NoFalseSuccess`,
`EventuallyExecuted` and `EventuallyCleared`. Fairness: attempts are repeated and
run on (weak), `sync.Mutex` does not starve a waiter (strong on `Lock`), blocks
are made (weak). `RoutesProofs.tla` proves `RoutesTyped` and `ClearedIsExecuted`
from `RoutesInv`: a result that a caller can see is that of a transaction of its
own (`ResultOK`), and whoever is past `Wallet()` finds an account (`WalletOK`).

## 8. Messages

`Messages.tla` follows the data: an event of a contract becomes a message
(`getRelayMessageFromLog`, `parseMessageEvent`, `ParseMessageFromEvents`), is
found again by `GenerateMessages`, and becomes a transaction (`SendTransaction`
and `EstimateGas`, `MakeIconMessage`, `getRawContractMessage`); a request of the
operator becomes one too. Data is a payload, a text that encodes it a record
`[enc, of]`, so that a conversion made twice, or not at all, is seen. Integers
for ICON go through `Int64` with `Width` bits.

The run `messages` has one chain of each kind, two events or requests, `Width`
3 with serial numbers and request ids that fit and that do not, fields that do
not decode, and searches that fail. It checks

* `Routed`: the transaction is the one the event asks for;
* `Regenerated`: `GenerateMessages` finds a message again as it was;
* `EstimatedIsSent`: gas is estimated for the call that is made;
* `ReceiptAsked`: `MessageReceived` asks for the receipt that the transaction
  leaves, and two messages share one only if they are one;
* `RequestHonoured`: the operator's transactions are what was asked for.

`MessagesProofs.tla` proves all five, for any payloads, numbers, heights, width
and number of inputs: `RoutedAsWanted`, `FoundAgain`, `EstimateMatches`,
`ReceiptsMatch` and `RequestsHonoured`. The invariant `MessagesInv` says where
everything comes from: no contract uses a serial number twice for one kind of
event (`EventsOK`), a message is what the parser of its chain makes of an emitted
event (`MsgsOK`), and a transaction what the provider of its destination makes of
a message (`TxsOK`) or a request (`AskedOK`). The theorems then follow kind by
kind of event and chain, by expanding the parser and the sender against each
other. `SameSwitch` compares `EstimateGas`
with `EvmSendTransaction` case by case. `MessagesAssumption` says that the three networks differ and that
the absent value is neither a number nor a payload.

Two inputs suffice for the run since no definition looks at more than a block,
and every pair of events of one block occurs. What the conditions leave out are limits of
the code: numbers above an int64 are cut on the way to ICON (icon/route.go:34);
a Wasm message from the subscription has height 0, and calls on ICON and Wasm
carry another source, so neither is found again; a relay-by-height request for a
block without messages indexes an empty list (server.go:181); a claim-fee request on an EVM
chain logs a nil serial number and panics before it sends (evm/route.go:77).

The definitions of the senders have the `setAdmin` case, but no request leads
there: its only caller is `keystore use`, which fails before it (section 9). It
would not work: the EVM `SetAdmin` fills `Dst` and the sender reads `Src`
(evm/provider.go:272, evm/route.go:86), Wasm the other way round
(wasm/provider.go:480, 647), and the gas estimate packs a string where the ABI has
an address. A `from` attribute of a Wasm `Message` event would replace the
source of the message (wasm/events.go:60); the contract's event is taken to have
none.

## 9. The command line

* `Console`: `start` and the commands as processes. A command dials the socket;
  if nobody listens it opens the database, listens itself and dials itself. Only
  a database command that got a result closes the socket (`PostRunE`).
* `ConfigFile`: editors that read the file, take a lock whose result nobody
  looks at, read again, change, truncate and write.
* `Keystore`: the key file and the password file of an address, written one
  after the other; `RestoreKeystore` needs both to match.

The run `cli` has 3 processes, 2 editors with 3 edits, and 2 keys with 2
passwords on each kind of chain, with one process killed in each part. It checks
`TypeOK`, `ServedByOwner`, `SocketRemoved`, `EditsKept`, `SignsAsConfigured`,
`Restorable`, and `CommandsEnd` (liveness: processes that run keep running).

`CliProofs.tla` proves `OwnerServes` and `SocketLeftUntidily` from `ConsoleInv`
(the database is opened before the socket, and the socket before its use:
`OpenedFirst`), `KeysRestorable` from `PassOK` (only the keystore being written
may disagree with its password), and `SignerIsConfigured` from `OwnKeys`
(outside EVM chains a key lies under its own address). `CliTyped` proves the
types of all three parts together.

`EditsAreKept` proves `Spec => []EditsKept`. An edit goes through memory and back
to the file, so the invariant `EditInv` follows it: while no two edits have
overlapped and no write was cut short there is one editor at a time (`Alone`),
the file holds everything reported (`FileHolds`), so does what that editor has
read (`ReadHolds`) and, with its own change, what it is about to write
(`ChangeHolds`). The one step that could lose something is `RuntimeConfig`, which
drops disabled chains and all but one with the same network id; `LoadHolds` shows
that it loses nothing reported.

Limits of the code that the conditions mark: overlapping edits lose updates
although appstate.go says "don't want to miss any changes" (`TryLock`'s answer
is ignored, appstate.go:72); a write cut short leaves an empty file; an edit
drops disabled chains and one of two chains with one name; a socket path that is
left over blocks every later start until it is removed by hand; an EVM import
overwrites the key in use (evm/keys.go:82); `keystore use` saves the
configuration to a directory, fails, and never reaches `SetAdmin`.

## 10. External parts and what is not modelled

Chains, nodes, mempools, websockets, AWS KMS, LevelDB and the kernel are modelled
from how the code uses them and marked external in `PROJECT.json`: a mempool
checks nonces or sequences, a contract refuses a message it has a receipt for, a
websocket delivers in order or breaks, LevelDB admits one process and writes a
row whole or not at all.

Every safety property that a passing run checks is also a theorem. Only
model-checked are the liveness properties, since fairness is out of the prover's
reach: `UnknownForgotten`, `EventuallySettled`, `AttemptsEnd`,
`EventuallyExecuted` (of `Routes`), `EventuallyCleared`, `UndoneGenerated`,
`EventuallyHeard` and `CommandsEnd`.

Not modelled: the contract bindings and RPC wrappers (generated code and
forwarding), the mock chain (a test double), gas prices and step limits, JSON,
RLP and protobuf codecs, signing, logging, flags and printed output (no state
that a property speaks of), and the deployment and test directories.
