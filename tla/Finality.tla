------------------------------ MODULE Finality ------------------------------
(***************************************************************************)
(* The finality processor, CheckFinality in relayer/relay.go, and the      *)
(* finality store, for one destination chain with finality-block > 0.      *)
(*                                                                         *)
(* When a message has been executed there, the callback stores a           *)
(* transaction object and forgets the message.  Every FinalityInterval     *)
(* CheckFinality reads a page of these objects and, for each that is       *)
(* FinalityBlock blocks old, asks for its receipt: a successful one ends   *)
(* the matter, a failed one makes the source chain generate the message    *)
(* again, an error is skipped until the next round.  The destination may   *)
(* reorganise blocks that are less than FinalityBlock deep, and include a  *)
(* transaction after the relayer has stopped waiting for it.               *)
(***************************************************************************)
EXTENDS Naturals, FiniteSets

CONSTANTS
    Msgs, NoMsg,   \* messages for this chain
    Sn,            \* [Msgs -> serial number]
    MsgHeight,     \* [Msgs -> its block on the source chain]
    SrcKnown,      \* messages whose source chain is configured
    FinalityBlock, \* finality-block of the destination
    PageLimit,     \* the page of GetTxObjects
    Fates,         \* what a reorganisation may do to a transaction
    MaxHeight,     \* bound: height of the destination; what is executed can get final
    MaxReorgs,     \* bound: reorganisations
    MaxErrs,       \* bound: failing calls and deletes of CheckFinality
    MaxCrashes     \* bound: process crashes

ASSUME FinalityAssumption ==
    /\ NoMsg \notin Msgs
    /\ Sn \in [Msgs -> Nat] /\ MsgHeight \in [Msgs -> Nat]
    /\ SrcKnown \subseteq Msgs
    /\ \A x, y \in Msgs : MsgHeight[x] = MsgHeight[y] /\ x \in SrcKnown => y \in SrcKnown
    /\ FinalityBlock \in Nat \ {0} /\ PageLimit \in Nat \ {0}
    /\ Fates \subseteq {"gone", "failed", "moved"}
    /\ MaxHeight \in Nat /\ MaxReorgs \in Nat /\ MaxErrs \in Nat /\ MaxCrashes \in Nat

VARIABLES
    head,      \* destination: height of its last block
    tx,        \* destination: transaction -> [height, status]
    latest,    \* LastBlockHeight of the destination's runtime
    cached,    \* messages in the cache of their source chain
    stored,    \* messages in the message store
    receipts,  \* transactions whose success the callback has yet to record
    rows,      \* the finality store, by transaction
    page,      \* transaction objects CheckFinality has read and not yet judged
    regen,     \* message whose object is deleted and which is not yet generated
    reorgs, errs, crashes,
    pruned,    \* history: transactions taken for final
    lapsed     \* history: messages one of the three lapses has hit

dest == <<head, tx>>
memory == <<cached, receipts, page, regen>>
bounds == <<reorgs, errs, crashes>>
history == <<pruned, lapsed>>
vars == <<dest, latest, memory, stored, rows, bounds, history>>

\* A transaction is named by its message and the height the receipt gave.
TxIds == [msg : Msgs, height : Nat \ {0}]

Executed(m) == \E i \in DOMAIN tx : i.msg = m /\ tx[i].status = "ok"

\* Rows are keyed by destination and serial number.
Key(i) == Sn[i.msg]
StoreTxObject(i) == {x \in rows : Key(x) # Key(i)} \cup {i}
DeleteTxObject(i) == {x \in rows : Key(x) # Key(i)}
GetTxObjects ==
    {i \in rows : Cardinality({x \in rows : Key(x) < Key(i)}) < PageLimit}

\* GenerateMessages returns every message of the block.
GenerateMessages(m) == {x \in Msgs : MsgHeight[x] = MsgHeight[m]}

\* The message is in the memory of the process: in the cache, about to be
\* generated again, or its success is about to be recorded.
InMemory(m) == m \in cached \/ regen = m \/ \E i \in receipts : i.msg = m

\* The message or an object of one of its transactions is in LevelDB.
HasObject(m) == \E i \in rows : i.msg = m
OnDisk(m) == m \in stored \/ HasObject(m)

Init ==
    /\ head = 1 /\ latest = 1
    /\ tx = [i \in {} |-> [height |-> 0, status |-> "ok"]]
    /\ cached = Msgs /\ stored = Msgs
    /\ receipts = {} /\ rows = {} /\ page = {} /\ regen = NoMsg
    /\ reorgs = 0 /\ errs = 0 /\ crashes = 0
    /\ pruned = {} /\ lapsed = {}

----------------------------------------------------------------------------
(* The destination chain.                                                  *)

NewBlock ==
    /\ head < MaxHeight
    /\ head' = head + 1
    /\ UNCHANGED <<tx, latest, memory, stored, rows, bounds, history>>

\* A transaction of the relayer for m succeeds in the block at the head.
Include(m) ==
    LET i == [msg |-> m, height |-> head]
    IN  /\ ~Executed(m)
        /\ head + FinalityBlock <= MaxHeight
        /\ i \notin DOMAIN tx
        /\ tx' = [j \in DOMAIN tx \cup {i} |->
                    IF j = i THEN [height |-> head, status |-> "ok"] ELSE tx[j]]

\* Its attempt waits for it.  A message has one attempt at a time (RouteMutex
\* of module Relayer).
Execute(m) ==
    /\ m \in cached
    /\ \A i \in receipts : i.msg # m
    /\ Include(m)
    /\ receipts' = receipts \cup {[msg |-> m, height |-> head]}
    /\ UNCHANGED <<head, latest, cached, page, regen, stored, rows, bounds, history>>

\* The wait of its attempt has timed out: there is no callback any more.
ExecuteLate(m) ==
    /\ Include(m)
    /\ UNCHANGED <<head, latest, memory, stored, rows, bounds, history>>

\* A block less than FinalityBlock deep is replaced: the transaction is gone,
\* has failed in the new block, or is in a later block.
Reorg(i) ==
    /\ i \in DOMAIN tx
    /\ tx[i].status = "ok"
    /\ head < tx[i].height + FinalityBlock
    /\ reorgs < MaxReorgs
    /\ reorgs' = reorgs + 1
    /\ \E fate \in Fates :
         tx' = [tx EXCEPT ![i] = IF fate = "moved" THEN [height |-> head, status |-> "ok"]
                                 ELSE [height |-> @.height, status |-> fate]]
    /\ UNCHANGED <<head, latest, memory, stored, rows, errs, crashes, history>>

----------------------------------------------------------------------------
(* The relayer.                                                            *)

\* The callback: a transaction object first, then ClearMessages.  (A failing
\* StoreTxObject is in module Relayer.)
callback(i) ==
    /\ i \in receipts
    /\ receipts' = receipts \ {i}
    /\ rows' = StoreTxObject(i)
    /\ cached' = cached \ {i.msg}
    /\ stored' = stored \ {i.msg}
    /\ UNCHANGED <<dest, latest, page, regen, bounds, history>>

\* A message that is cached although it has been executed: MessageReceived
\* says so, or its attempts fail until it is stale.  No transaction object is
\* stored: a lapse if there is none.
messageReceived(m) ==
    /\ m \in cached
    /\ Executed(m)
    /\ \A i \in receipts : i.msg # m
    /\ cached' = cached \ {m}
    /\ stored' = stored \ {m}
    /\ lapsed' = IF HasObject(m) \/ \E i \in pruned : i.msg = m THEN lapsed
                 ELSE lapsed \cup {m}
    /\ UNCHANGED <<dest, latest, receipts, page, regen, rows, bounds, pruned>>

\* HandleMessageFailed after MaxTxRetry attempts: the message moves to the
\* store, ...
HandleMessageFailed(m) ==
    /\ m \in cached
    /\ ~Executed(m)
    /\ \A i \in receipts : i.msg # m
    /\ cached' = cached \ {m}
    /\ stored' = stored \cup {m}
    /\ UNCHANGED <<dest, latest, receipts, page, regen, rows, bounds, history>>

\* ... from where it is cached again.  (Module Relayer has the page and the
\* flags of the rows.)
flushMessages ==
    /\ ~(stored \subseteq cached)
    /\ cached' = cached \cup stored
    /\ UNCHANGED <<dest, latest, receipts, page, regen, stored, rows, bounds, history>>

\* LastBlockHeight is the height of the last log processed, which may be an
\* old one, ...
processBlockInfo ==
    /\ head < MaxHeight
    /\ latest' \in 1 .. head
    /\ UNCHANGED <<dest, memory, stored, rows, bounds, history>>

\* ... or what the chain reported when the height was last saved.
SaveBlockHeight ==
    /\ latest' = head
    /\ UNCHANGED <<dest, memory, stored, rows, bounds, history>>

\* Mutant: one block too early.
IsFinalEarly(i) == i.height + FinalityBlock <= latest + 1

IsFinal(i) == i.height + FinalityBlock <= latest

\* LastBlockHeight is read once, before the page.  The rows that are not old
\* enough are passed over.  (So would be one with TxHeight 0; a transaction in
\* a block has a height.)
CheckFinality ==
    /\ page = {} /\ regen = NoMsg
    /\ page' = {i \in GetTxObjects : IsFinal(i)}
    /\ UNCHANGED <<dest, latest, cached, receipts, regen, stored, rows, bounds, history>>

\* No receipt (QueryTransactionReceipt reports an error), a failed one of an
\* unknown source chain, or the call or DeleteTxObject fails: next time.
CheckFinalitySkip(i) ==
    /\ regen = NoMsg
    /\ i \in page
    /\ \/ /\ tx[i].status = "gone" \/ (tx[i].status = "failed" /\ i.msg \notin SrcKnown)
          /\ UNCHANGED errs
       \/ errs < MaxErrs /\ errs' = errs + 1
    /\ page' = page \ {i}
    /\ UNCHANGED <<dest, latest, cached, receipts, regen, stored, rows, reorgs, crashes, history>>

CheckFinalityPrune(i) ==
    /\ regen = NoMsg
    /\ i \in page
    /\ tx[i].status = "ok"
    /\ rows' = DeleteTxObject(i)
    /\ page' = page \ {i}
    /\ pruned' = pruned \cup {i}
    /\ UNCHANGED <<dest, latest, cached, receipts, regen, stored, bounds, lapsed>>

\* Mutant: the row is deleted and the message is left to somebody else.
CheckFinalityForget(i) ==
    /\ regen = NoMsg /\ i \in page
    /\ tx[i].status = "failed" /\ i.msg \in SrcKnown
    /\ rows' = DeleteTxObject(i)
    /\ page' = page \ {i}
    /\ UNCHANGED <<dest, latest, cached, receipts, regen, stored, bounds, history>>

\* A failed receipt: the object is deleted first, by its key, which is also
\* that of a later transaction's object if the message was executed again
\* after the page was read.
CheckFinalityDelete(i) ==
    /\ regen = NoMsg
    /\ i \in page
    /\ tx[i].status = "failed"
    /\ i.msg \in SrcKnown
    /\ rows' = DeleteTxObject(i)
    /\ page' = page \ {i}
    /\ regen' = i.msg
    /\ UNCHANGED <<dest, latest, cached, receipts, stored, bounds, history>>

\* Then the block's messages are generated again and merged into the cache,
\* not into the store; or GenerateMessages fails and that is that: a lapse.
CheckFinalityGenerate ==
    /\ regen # NoMsg
    /\ regen' = NoMsg
    /\ \/ cached' = cached \cup GenerateMessages(regen) /\ UNCHANGED <<errs, lapsed>>
       \/ /\ errs < MaxErrs /\ errs' = errs + 1
          /\ lapsed' = lapsed \cup {regen}
          /\ UNCHANGED cached
    /\ UNCHANGED <<dest, latest, receipts, page, stored, rows, reorgs, crashes, pruned>>

\* A crash.  What was generated again is in memory only: a lapse.
Restart ==
    /\ crashes < MaxCrashes
    /\ crashes' = crashes + 1
    /\ cached' = stored
    /\ receipts' = {} /\ page' = {} /\ regen' = NoMsg
    /\ latest' = 0
    /\ lapsed' = lapsed \cup {m \in Msgs : InMemory(m) /\ ~OnDisk(m)}
    /\ UNCHANGED <<dest, stored, rows, reorgs, errs, pruned>>

Next ==
    \/ NewBlock \/ processBlockInfo \/ SaveBlockHeight
    \/ \E m \in Msgs : Execute(m) \/ ExecuteLate(m) \/ messageReceived(m) \/ HandleMessageFailed(m)
    \/ \E i \in DOMAIN tx : Reorg(i)
    \/ \E i \in receipts : callback(i)
    \/ flushMessages \/ CheckFinality
    \/ \E i \in page : CheckFinalitySkip(i) \/ CheckFinalityPrune(i) \/ CheckFinalityDelete(i)
    \/ CheckFinalityGenerate
    \/ Restart

Spec == Init /\ [][Next]_vars

\* The chain goes on up to its bound; nothing is assumed of Execute.  The height
\* is saved again and again; every round of the finality processor ends.
Fairness ==
    /\ WF_vars(NewBlock)
    /\ WF_vars(SaveBlockHeight)
    /\ WF_vars(\E i \in receipts : callback(i))
    /\ WF_vars(flushMessages)
    /\ WF_vars(CheckFinality)
    /\ WF_vars(\E i \in page :
                 CheckFinalitySkip(i) \/ CheckFinalityPrune(i) \/ CheckFinalityDelete(i))
    /\ WF_vars(CheckFinalityGenerate)

FairSpec == Spec /\ Fairness

----------------------------------------------------------------------------
(* Correctness.                                                            *)

\* Every variable keeps its type; rows, receipts and pages name transactions.
TypeOK ==
    /\ head \in Nat /\ latest \in Nat
    /\ DOMAIN tx \subseteq TxIds
    /\ \A i \in DOMAIN tx : tx[i] \in [height : Nat, status : {"ok", "gone", "failed"}]
    /\ cached \subseteq Msgs /\ stored \subseteq Msgs
    /\ receipts \subseteq DOMAIN tx /\ rows \subseteq DOMAIN tx /\ page \subseteq DOMAIN tx
    /\ pruned \subseteq DOMAIN tx
    /\ regen \in Msgs \cup {NoMsg}
    /\ lapsed \subseteq Msgs
    /\ reorgs \in Nat /\ errs \in Nat /\ crashes \in Nat

\* CheckFinality: "transaction still exist after finalized block, deleting
\* txObject".  A transaction object is deleted for good only when no
\* reorganisation can undo its transaction any more.
FinalIsFinal == \A i \in pruned : tx[i].status = "ok"

\* Why: what is judged or was pruned is at least as old as claimed, and a
\* transaction that succeeded is in the block its object names.
DepthOK ==
    /\ latest <= head
    /\ \A i \in DOMAIN tx : tx[i].status = "ok" => tx[i].height = i.height
    /\ \A i \in page \cup pruned : i.height + FinalityBlock <= head

\* The three together; inductive if a transaction never moves to another block.
FinalInv == TypeOK /\ DepthOK /\ FinalIsFinal

\* The transactions of m, if any, have been undone: none stands.
Undone(m) == ~Executed(m) /\ \E i \in DOMAIN tx : i.msg = m

Remembered(m) == InMemory(m) \/ OnDisk(m)

\* relay.go, CheckFinality: "if receipt donot exist generate message again and
\* send to src chain".  A message whose transaction was undone is remembered,
\* except after one of three lapses: it was executed after its wait had timed
\* out, or its object was deleted with that of an earlier transaction, and
\* MessageReceived cleared it; GenerateMessages failed after its object was
\* deleted; or the process died when it was in memory only.
UndoneRemembered == \A m \in Msgs \ lapsed : Undone(m) => Remembered(m)

\* Every transaction of m has a receipt, and the receipt says it failed.
Failed(m) == Undone(m) /\ \A i \in DOMAIN tx : i.msg = m => tx[i].status = "failed"

\* Its object is behind a full page.
Crowded(m) == HasObject(m) /\ \A i \in GetTxObjects : i.msg # m

\* The same sentence as a promise, kept for a failed receipt only: the message
\* is cached again or another transaction succeeds, unless one of the lapses
\* hits it, or rows that are skipped in every round fill the page for ever.
UndoneGenerated ==
    \A m \in SrcKnown :
        [](Failed(m) => \/ <>(m \in cached \/ Executed(m) \/ m \in lapsed)
                        \/ <>[]Crowded(m))
============================================================================
