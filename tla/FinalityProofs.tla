--------------------------- MODULE FinalityProofs ---------------------------
(***************************************************************************)
(* A transaction CheckFinality takes for final stays executed, unless a    *)
(* reorganisation can move it to a later block; and a message whose        *)
(* transaction was undone is forgotten only after one of the three lapses. *)
(***************************************************************************)
EXTENDS Finality, TLAPS

\* What the argument needs: transaction objects name transactions with a
\* height, a successful one is in the block it is named after, the relayer
\* never sees a higher block than the last one, and what it has pruned is
\* FinalityBlock deep.
Named ==
    /\ head \in Nat \ {0} /\ latest \in Nat
    /\ DOMAIN tx \subseteq TxIds
    /\ receipts \subseteq DOMAIN tx /\ rows \subseteq DOMAIN tx /\ page \subseteq DOMAIN tx
    /\ pruned \subseteq DOMAIN tx

PruneInv == Named /\ DepthOK /\ FinalIsFinal

\* There is no transaction yet.
LEMMA PruneInit == Init => PruneInv
  BY DEF Init, PruneInv, Named, DepthOK, FinalIsFinal

\* Steps of the relayer that neither prune nor add objects.
LEMMA PruneFrame ==
  ASSUME PruneInv, UNCHANGED dest, pruned' = pruned, latest' \in Nat, latest' <= head,
         receipts' \subseteq receipts, page' \subseteq page,
         rows' \subseteq rows \cup receipts
  PROVE  PruneInv'
<1>1. Named'
  BY DEF PruneInv, Named, dest
<1>2. DepthOK'
  BY DEF PruneInv, DepthOK, dest
<1>3. FinalIsFinal'
  BY DEF PruneInv, FinalIsFinal, dest
<1> QED
  BY <1>1, <1>2, <1>3 DEF PruneInv

\* Every step keeps the invariant: what is pruned is too deep to be reorganised.
LEMMA PruneStep ==
  ASSUME "moved" \notin Fates
  PROVE  PruneInv /\ [Next]_vars => PruneInv'
<1> SUFFICES ASSUME PruneInv, [Next]_vars PROVE PruneInv'
  OBVIOUS
<1> USE DEF memory, bounds, history
<1>n. Named /\ DepthOK /\ FinalIsFinal /\ FinalityBlock \in Nat
  BY FinalityAssumption DEF PruneInv
<1>l. latest \in Nat /\ latest <= head /\ head \in Nat
  BY <1>n DEF Named, DepthOK
<1>1. CASE NewBlock
  <2>1. \A i \in page \cup pruned : i.height \in Nat
    BY <1>n DEF Named, TxIds
  <2>2. Named' /\ FinalIsFinal'
    BY <1>1, <1>n DEF NewBlock, Named, FinalIsFinal
  <2>3. DepthOK'
    BY <1>1, <1>n, <1>l, <2>1 DEF NewBlock, DepthOK
  <2> QED
    BY <2>2, <2>3 DEF PruneInv
<1>2. ASSUME NEW m \in Msgs, Execute(m) \/ ExecuteLate(m) PROVE PruneInv'
  <2> DEFINE i == [msg |-> m, height |-> head]
  <2>1. /\ i \notin DOMAIN tx
        /\ tx' = [j \in DOMAIN tx \cup {i} |->
                    IF j = i THEN [height |-> head, status |-> "ok"] ELSE tx[j]]
        /\ receipts' \subseteq receipts \cup {i}
        /\ UNCHANGED <<head, latest, rows, page, pruned>>
    BY <1>2 DEF Execute, ExecuteLate, Include
  <2>2. i \in TxIds
    BY <1>n DEF Named, TxIds
  <2>3. Named'
    BY <1>n, <2>1, <2>2 DEF Named
  <2>4. \A j \in DOMAIN tx : tx'[j] = tx[j]
    BY <2>1
  <2>5. tx'[i].height = i.height
    BY <2>1
  <2>6. DepthOK'
    BY <1>n, <2>1, <2>4, <2>5 DEF DepthOK
  <2>7. FinalIsFinal'
    BY <1>n, <2>1, <2>4 DEF FinalIsFinal, Named
  <2> QED
    BY <2>3, <2>6, <2>7 DEF PruneInv
<1>3. ASSUME NEW i \in DOMAIN tx, Reorg(i) PROVE PruneInv'
  <2>1. PICK fate \in Fates :
          tx' = [tx EXCEPT ![i] = [height |-> tx[i].height, status |-> fate]]
    BY <1>3 DEF Reorg
  <2>2. UNCHANGED <<head, latest, receipts, rows, page, pruned>>
    BY <1>3 DEF Reorg
  <2>3. DOMAIN tx' = DOMAIN tx /\ \A j \in DOMAIN tx : j # i => tx'[j] = tx[j]
    BY <2>1
  <2>4. tx'[i].height = tx[i].height
    BY <2>1
  <2>5. tx[i].height = i.height /\ head < i.height + FinalityBlock
    BY <1>3, <1>n DEF Reorg, DepthOK
  <2>6. i \notin pruned
    <3>1. i.height \in Nat
      BY <1>n DEF Named, TxIds
    <3> QED
      BY <1>n, <1>l, <2>5, <3>1 DEF DepthOK
  <2>7. Named' /\ DepthOK' /\ FinalIsFinal'
    BY <1>n, <2>2, <2>3, <2>4, <2>5, <2>6 DEF Named, DepthOK, FinalIsFinal
  <2> QED
    BY <2>7 DEF PruneInv
<1>4. ASSUME NEW i \in page, CheckFinalityPrune(i) PROVE PruneInv'
  <2>1. i.height + FinalityBlock <= head
    BY <1>n DEF DepthOK
  <2>2. tx[i].status = "ok" /\ pruned' = pruned \cup {i} /\ rows' \subseteq rows
        /\ page' \subseteq page /\ UNCHANGED <<dest, latest, receipts>>
    BY <1>4 DEF CheckFinalityPrune, DeleteTxObject
  <2>3. Named'
    BY <1>n, <2>2 DEF Named, dest
  <2>4. DepthOK' /\ FinalIsFinal'
    BY <1>n, <2>1, <2>2 DEF DepthOK, FinalIsFinal, dest
  <2> QED
    BY <2>3, <2>4 DEF PruneInv
<1>5. CASE processBlockInfo \/ SaveBlockHeight
  BY <1>5, <1>l, PruneFrame DEF processBlockInfo, SaveBlockHeight
<1>6. ASSUME NEW m \in Msgs, messageReceived(m) \/ HandleMessageFailed(m) PROVE PruneInv'
  BY <1>6, <1>l, PruneFrame DEF messageReceived, HandleMessageFailed, dest
<1>7. ASSUME NEW i \in receipts, callback(i) PROVE PruneInv'
  BY <1>7, <1>l, PruneFrame DEF callback, StoreTxObject
<1>8. CASE flushMessages \/ CheckFinalityGenerate
  BY <1>8, <1>l, PruneFrame DEF flushMessages, CheckFinalityGenerate
<1>9. ASSUME NEW i \in page, CheckFinalitySkip(i) \/ CheckFinalityDelete(i) PROVE PruneInv'
  BY <1>9, <1>l, PruneFrame DEF CheckFinalitySkip, CheckFinalityDelete, DeleteTxObject
<1>10. CASE Restart
  BY <1>10, <1>l, PruneFrame DEF Restart
<1>11. CASE UNCHANGED vars
  BY <1>11, <1>l, PruneFrame DEF vars
<1>12. CASE CheckFinality
  <2>1. /\ page' \subseteq rows /\ \A i \in page' : i.height + FinalityBlock <= latest
        /\ UNCHANGED <<head, tx, latest, receipts, rows, pruned>>
    BY <1>12 DEF CheckFinality, GetTxObjects, IsFinal, dest
  <2>2. \A i \in page' : i.height \in Nat
    BY <1>n, <2>1 DEF Named, TxIds
  <2>3. \A i \in page' : i.height + FinalityBlock <= head
    BY <1>n, <1>l, <2>1, <2>2
  <2>4. Named' /\ FinalIsFinal'
    BY <1>n, <2>1 DEF Named, FinalIsFinal
  <2>5. DepthOK'
    BY <1>n, <2>1, <2>3 DEF DepthOK
  <2> QED
    BY <2>4, <2>5 DEF PruneInv
<1> QED
  BY <1>1, <1>2, <1>3, <1>4, <1>5, <1>6, <1>7, <1>8, <1>9, <1>10, <1>11, <1>12 DEF Next

\* A transaction whose object CheckFinality deletes as final is never undone,
\* for any finality-block, page size, chain and crashes, provided no
\* reorganisation moves a transaction to another block.
THEOREM PrunedIsFinal == "moved" \notin Fates => (Spec => []FinalIsFinal)
<1> SUFFICES ASSUME "moved" \notin Fates PROVE Spec => []FinalIsFinal
  OBVIOUS
<1>1. PruneInv /\ [Next]_vars => PruneInv'
  BY PruneStep
<1>2. PruneInv => FinalIsFinal
  BY DEF PruneInv
<1> QED
  BY <1>1, <1>2, PruneInit, PTL DEF Spec

\* The steps of the relayer keep the types of what they change.
LEMMA TypeFrame ==
  ASSUME TypeOK, UNCHANGED dest, latest' \in Nat,
         cached' \subseteq Msgs, stored' \subseteq Msgs, regen' \in Msgs \cup {NoMsg},
         receipts' \subseteq receipts, page' \subseteq page \cup rows,
         rows' \subseteq rows \cup receipts, pruned' \subseteq pruned \cup page,
         lapsed' \subseteq Msgs, reorgs' \in Nat, errs' \in Nat, crashes' \in Nat
  PROVE  TypeOK'
<1>1. head' \in Nat /\ DOMAIN tx' \subseteq TxIds
  BY DEF TypeOK, dest
<1>2. \A i \in DOMAIN tx' : tx'[i] \in [height : Nat, status : {"ok", "gone", "failed"}]
  BY DEF TypeOK, dest
<1>3. /\ receipts' \subseteq DOMAIN tx' /\ rows' \subseteq DOMAIN tx'
      /\ page' \subseteq DOMAIN tx' /\ pruned' \subseteq DOMAIN tx'
  BY DEF TypeOK, dest
<1> QED
  BY <1>1, <1>2, <1>3 DEF TypeOK

\* Every step keeps the types; CheckFinality never generates for nobody.
LEMMA TypeStep ==
  ASSUME PruneInv, TypeOK, "moved" \notin Fates, [Next]_vars
  PROVE  TypeOK'
<1> USE DEF memory, bounds, history
<1>n. head \in Nat \ {0} /\ Fates \subseteq {"gone", "failed"}
  BY FinalityAssumption DEF PruneInv, Named
<1>t. /\ latest \in Nat /\ cached \subseteq Msgs /\ stored \subseteq Msgs
      /\ regen \in Msgs \cup {NoMsg}
      /\ reorgs \in Nat /\ errs \in Nat /\ crashes \in Nat
      /\ page \subseteq TxIds /\ receipts \subseteq TxIds /\ lapsed \subseteq Msgs
  BY DEF TypeOK
<1>m. \A i \in TxIds : i.msg \in Msgs
  BY DEF TxIds
<1>1. CASE NewBlock
  BY <1>1, <1>n DEF NewBlock, TypeOK
<1>2. ASSUME NEW m \in Msgs, Execute(m) \/ ExecuteLate(m) PROVE TypeOK'
  <2> DEFINE i == [msg |-> m, height |-> head]
  <2>1. /\ tx' = [j \in DOMAIN tx \cup {i} |->
                    IF j = i THEN [height |-> head, status |-> "ok"] ELSE tx[j]]
        /\ receipts' \subseteq receipts \cup {i}
        /\ UNCHANGED <<head, latest, cached, page, regen, stored, rows, bounds, history>>
    BY <1>2 DEF Execute, ExecuteLate, Include
  <2>2. i \in TxIds
    BY <1>n DEF TxIds
  <2> HIDE DEF i
  <2>3. DOMAIN tx' = DOMAIN tx \cup {i}
    BY <2>1
  <2>4. \A j \in DOMAIN tx' : tx'[j] \in [height : Nat, status : {"ok", "gone", "failed"}]
    BY <2>1, <1>n DEF TypeOK
  <2> QED
    BY <2>1, <2>2, <2>3, <2>4 DEF TypeOK
<1>3. ASSUME NEW i \in DOMAIN tx, Reorg(i) PROVE TypeOK'
  <2>1. PICK fate \in Fates :
          tx' = [tx EXCEPT ![i] = [height |-> tx[i].height, status |-> fate]]
    BY <1>3, <1>n DEF Reorg
  <2>2. /\ UNCHANGED <<head, latest, cached, receipts, page, regen, stored, rows, history>>
        /\ reorgs' = reorgs + 1 /\ UNCHANGED <<errs, crashes>>
    BY <1>3 DEF Reorg
  <2>3. DOMAIN tx' = DOMAIN tx
    BY <2>1
  <2>4. tx[i].height \in Nat /\ fate \in {"ok", "gone", "failed"}
    BY <1>n DEF TypeOK
  <2>5. \A j \in DOMAIN tx' : tx'[j] \in [height : Nat, status : {"ok", "gone", "failed"}]
    BY <2>1, <2>3, <2>4 DEF TypeOK
  <2> QED
    BY <1>t, <2>2, <2>3, <2>5 DEF TypeOK
<1>4. CASE processBlockInfo \/ SaveBlockHeight
  BY <1>4, <1>n, <1>t, TypeFrame DEF processBlockInfo, SaveBlockHeight
<1>5. ASSUME NEW m \in Msgs, messageReceived(m) \/ HandleMessageFailed(m) PROVE TypeOK'
  BY <1>5, <1>t, TypeFrame DEF messageReceived, HandleMessageFailed
<1>6. ASSUME NEW i \in receipts, callback(i) PROVE TypeOK'
  BY <1>6, <1>t, TypeFrame DEF callback, StoreTxObject
<1>7. CASE flushMessages \/ CheckFinality
  BY <1>7, <1>t, TypeFrame DEF flushMessages, CheckFinality, GetTxObjects
<1>8. ASSUME NEW i \in page,
             CheckFinalitySkip(i) \/ CheckFinalityPrune(i) \/ CheckFinalityDelete(i)
      PROVE  TypeOK'
  <2>1. i.msg \in Msgs
    BY <1>t, <1>m
  <2> QED
    BY <1>8, <1>t, <2>1, TypeFrame
       DEF CheckFinalitySkip, CheckFinalityPrune, CheckFinalityDelete, DeleteTxObject
<1>9. CASE CheckFinalityGenerate
  BY <1>9, <1>t, TypeFrame DEF CheckFinalityGenerate, GenerateMessages
<1>10. CASE Restart
  BY <1>10, <1>t, TypeFrame DEF Restart
<1>11. CASE UNCHANGED vars
  BY <1>11, <1>t, TypeFrame DEF vars
<1> QED
  BY <1>1, <1>2, <1>3, <1>4, <1>5, <1>6, <1>7, <1>8, <1>9, <1>10, <1>11 DEF Next

\* Nothing has happened yet.
LEMMA TypeInit == Init => TypeOK
  BY FinalityAssumption DEF Init, TypeOK

\* The whole of FinalInv, for every value of the constants, under the same
\* assumption: what CheckFinality works on are transactions of known messages,
\* and it never takes the head for higher than it is.
THEOREM FinalityHolds == "moved" \notin Fates => (Spec => []FinalInv)
<1> SUFFICES ASSUME "moved" \notin Fates PROVE Spec => []FinalInv
  OBVIOUS
<1>1. Init => PruneInv /\ TypeOK
  BY PruneInit, TypeInit
<1>2. PruneInv /\ TypeOK /\ [Next]_vars => (PruneInv /\ TypeOK)'
  BY PruneStep, TypeStep
<1>3. PruneInv /\ TypeOK => FinalInv
  BY DEF PruneInv, FinalInv
<1> QED
  BY <1>1, <1>2, <1>3, PTL DEF Spec

----------------------------------------------------------------------------
(* What becomes of messages whose transaction is undone.                   *)

\* Messages for the destination differ in their serial numbers, which are the
\* keys of the finality store.
KeysDiffer == \A x, y \in Msgs : Sn[x] = Sn[y] => x = y

\* Every message is remembered, or its transaction was taken for final, or a
\* lapse has hit it.
Kept(m) == m \in lapsed \/ Remembered(m) \/ \E i \in pruned : i.msg = m
Known == \A m \in Msgs : Kept(m)

\* Steps that forget nothing at all.
LEMMA KnownFrame ==
  ASSUME Known, cached \subseteq cached', stored \subseteq stored', rows \subseteq rows',
         receipts \subseteq receipts', regen' = regen, pruned' = pruned, lapsed' = lapsed
  PROVE  Known'
  BY DEF Known, Kept, Remembered, InMemory, OnDisk, HasObject

\* A transaction object is deleted under its key only: it is one of the same
\* message's transactions that goes, none of another message's.
LEMMA KeyOfMessage ==
  ASSUME TypeOK, KeysDiffer, NEW i \in DOMAIN tx, NEW m \in Msgs, m # i.msg, HasObject(m)
  PROVE  \E x \in rows : x.msg = m /\ Key(x) # Key(i)
<1>1. PICK x \in rows : x.msg = m
  BY DEF HasObject
<1>2. i.msg \in Msgs
  BY DEF TypeOK, TxIds
<1>3. Key(x) # Key(i)
  BY <1>1, <1>2 DEF Key, KeysDiffer
<1> QED
  BY <1>1, <1>3

\* The callback: the message leaves the cache and the store for its object.
LEMMA KnownCallback ==
  ASSUME TypeOK, Known, KeysDiffer, NEW i \in receipts, callback(i)
  PROVE  Known'
<1>1. /\ receipts' = receipts \ {i} /\ rows' = {x \in rows : Key(x) # Key(i)} \cup {i}
      /\ cached' = cached \ {i.msg} /\ stored' = stored \ {i.msg}
      /\ UNCHANGED <<regen, pruned, lapsed>>
  BY DEF callback, StoreTxObject, history
<1>2. i \in DOMAIN tx
  BY DEF TypeOK
<1>3. ASSUME NEW m \in Msgs PROVE Kept(m)'
  <2>1. CASE m = i.msg
    BY <1>1, <2>1 DEF Kept, Remembered, OnDisk, HasObject
  <2>2. CASE m # i.msg
    <3>1. HasObject(m) => HasObject(m)'
      BY <1>1, <1>2, <2>2, KeyOfMessage DEF HasObject
    <3>2. InMemory(m) => InMemory(m)'
      BY <1>1, <2>2 DEF InMemory
    <3>3. m \in stored => m \in stored'
      BY <1>1, <2>2
    <3> QED
      BY <1>1, <3>1, <3>2, <3>3 DEF Known, Kept, Remembered, OnDisk
  <2> QED
    BY <2>1, <2>2
<1> QED
  BY <1>3 DEF Known

\* An object is deleted: as final, or to have the message generated again.
LEMMA KnownDelete ==
  ASSUME TypeOK, Known, KeysDiffer, NEW i \in page,
         CheckFinalityPrune(i) \/ CheckFinalityDelete(i)
  PROVE  Known'
<1>1. /\ rows' = {x \in rows : Key(x) # Key(i)} /\ regen = NoMsg
      /\ UNCHANGED <<cached, stored, receipts, lapsed>>
  BY DEF CheckFinalityPrune, CheckFinalityDelete, DeleteTxObject, history
<1>2. i \in DOMAIN tx /\ NoMsg \notin Msgs
  BY FinalityAssumption DEF TypeOK
<1>3. pruned \subseteq pruned' /\ (i \in pruned' \/ regen' = i.msg)
  BY DEF CheckFinalityPrune, CheckFinalityDelete, history
<1>4. ASSUME NEW m \in Msgs PROVE Kept(m)'
  <2>1. CASE m = i.msg
    BY <1>3, <2>1 DEF Kept, Remembered, InMemory
  <2>2. CASE m # i.msg
    <3>1. HasObject(m) => HasObject(m)'
      BY <1>1, <1>2, <2>2, KeyOfMessage DEF HasObject
    <3>2. InMemory(m) => InMemory(m)'
      BY <1>1, <1>2 DEF InMemory
    <3> QED
      BY <1>1, <1>3, <3>1, <3>2 DEF Known, Kept, Remembered, OnDisk
  <2> QED
    BY <2>1, <2>2
<1> QED
  BY <1>4 DEF Known

\* A message that is taken off the cache because it has been executed has an
\* object or lapses; one that has not been is stored.
LEMMA KnownCache ==
  ASSUME Known, NEW m \in Msgs, messageReceived(m) \/ HandleMessageFailed(m)
  PROVE  Known'
<1>1. UNCHANGED <<receipts, rows, regen, pruned>> /\ lapsed \subseteq lapsed'
  BY DEF messageReceived, HandleMessageFailed, history
<1>2. stored \ {m} \subseteq stored' /\ cached \ {m} \subseteq cached'
  BY DEF messageReceived, HandleMessageFailed
<1>3. Kept(m)'
  <2>1. CASE messageReceived(m)
    BY <1>1, <2>1 DEF messageReceived, Kept, Remembered, OnDisk, HasObject
  <2>2. CASE HandleMessageFailed(m)
    BY <2>2 DEF HandleMessageFailed, Kept, Remembered, OnDisk
  <2> QED
    BY <2>1, <2>2
<1>4. ASSUME NEW x \in Msgs, x # m PROVE Kept(x)'
  <2>1. InMemory(x) => InMemory(x)'
    BY <1>1, <1>2, <1>4 DEF InMemory
  <2>2. OnDisk(x) => OnDisk(x)'
    BY <1>1, <1>2, <1>4 DEF OnDisk, HasObject
  <2> QED
    BY <1>1, <2>1, <2>2 DEF Known, Kept, Remembered
<1> QED
  BY <1>3, <1>4 DEF Known

\* The block is generated again, or the generation fails.
LEMMA KnownGenerate ==
  ASSUME TypeOK, Known, CheckFinalityGenerate
  PROVE  Known'
<1>1. /\ UNCHANGED <<receipts, rows, stored, pruned>>
      /\ cached \subseteq cached' /\ lapsed \subseteq lapsed'
  BY DEF CheckFinalityGenerate
<1>2. regen \in Msgs
  BY DEF CheckFinalityGenerate, TypeOK
<1>3. regen \in cached' \/ regen \in lapsed'
  BY <1>2 DEF CheckFinalityGenerate, GenerateMessages
<1>4. ASSUME NEW m \in Msgs PROVE Kept(m)'
  <2>1. CASE m = regen
    BY <1>3, <2>1 DEF Kept, Remembered, InMemory
  <2>2. CASE m # regen
    <3>1. InMemory(m) => InMemory(m)'
      BY <1>1, <2>2 DEF InMemory
    <3>2. OnDisk(m) => OnDisk(m)'
      BY <1>1 DEF OnDisk, HasObject
    <3> QED
      BY <1>1, <3>1, <3>2 DEF Known, Kept, Remembered
  <2> QED
    BY <2>1, <2>2
<1> QED
  BY <1>4 DEF Known

\* A crash: what is on disk stays, what was in memory only lapses.
LEMMA KnownRestart ==
  ASSUME Known, Restart
  PROVE  Known'
<1>1. /\ UNCHANGED <<stored, rows, pruned>>
      /\ lapsed' = lapsed \cup {m \in Msgs : InMemory(m) /\ ~OnDisk(m)}
  BY DEF Restart
<1>2. ASSUME NEW m \in Msgs PROVE Kept(m)'
  <2>1. OnDisk(m) => OnDisk(m)'
    BY <1>1 DEF OnDisk, HasObject
  <2> QED
    BY <1>1, <2>1 DEF Known, Kept, Remembered
<1> QED
  BY <1>2 DEF Known

\* Every step keeps every message known.
LEMMA KnownStep ==
  ASSUME TypeOK, Known, KeysDiffer, [Next]_vars
  PROVE  Known'
<1> USE DEF memory, bounds, history, dest
<1>1. CASE NewBlock \/ processBlockInfo \/ SaveBlockHeight \/ CheckFinality \/ UNCHANGED vars
  BY <1>1, KnownFrame
     DEF NewBlock, processBlockInfo, SaveBlockHeight, CheckFinality, vars
<1>2. ASSUME NEW i \in page, CheckFinalitySkip(i) PROVE Known'
  BY <1>2, KnownFrame DEF CheckFinalitySkip
<1>3. CASE flushMessages
  BY <1>3, KnownFrame DEF flushMessages
<1>4. ASSUME NEW m \in Msgs, Execute(m) \/ ExecuteLate(m) PROVE Known'
  BY <1>4, KnownFrame DEF Execute, ExecuteLate
<1>5. ASSUME NEW i \in DOMAIN tx, Reorg(i) PROVE Known'
  BY <1>5, KnownFrame DEF Reorg
<1> QED
  BY <1>1, <1>2, <1>3, <1>4, <1>5, KnownCallback, KnownDelete, KnownCache, KnownGenerate,
     KnownRestart DEF Next

\* CheckFinality, callback and messageReceived: a message whose transactions
\* were undone is forgotten only after one of the three lapses, for any
\* messages with serial numbers of their own, any finality-block, page and
\* number of reorganisations, late inclusions, failing calls and crashes.
THEOREM UndoneAreRemembered ==
    KeysDiffer /\ "moved" \notin Fates => (Spec => []UndoneRemembered)
<1> SUFFICES ASSUME KeysDiffer, "moved" \notin Fates PROVE Spec => []UndoneRemembered
  OBVIOUS
<1>1. Init => PruneInv /\ TypeOK /\ Known
  <2>1. Init => Known
    BY DEF Init, Known, Kept, Remembered, InMemory
  <2> QED
    BY <2>1, PruneInit, TypeInit
<1>2. PruneInv /\ TypeOK /\ Known /\ [Next]_vars => (PruneInv /\ TypeOK /\ Known)'
  BY PruneStep, TypeStep, KnownStep
<1>3. PruneInv /\ TypeOK /\ Known => UndoneRemembered
  <2> SUFFICES ASSUME PruneInv, TypeOK, Known, NEW m \in Msgs \ lapsed, Undone(m)
               PROVE  Remembered(m)
    BY DEF UndoneRemembered
  <2>1. \A i \in pruned : i.msg # m
    BY DEF PruneInv, FinalIsFinal, Named, Undone, Executed
  <2> QED
    BY <2>1 DEF Known, Kept
<1> QED
  BY <1>1, <1>2, <1>3, PTL DEF Spec
============================================================================
