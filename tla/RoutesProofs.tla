---------------------------- MODULE RoutesProofs ---------------------------
(***************************************************************************)
(* RoutesInv is inductive: TypeOK and NoFalseSuccess hold of every number  *)
(* of messages, operator transactions, failures and crashes.               *)
(***************************************************************************)
EXTENDS Routes, TLAPS

\* The relayer starts with nothing sent.
LEMMA InitInv == Init => RoutesInv
  BY AttemptsAssumption DEF Init, AttemptsInit, RoutesInv, TypeOK, AttemptsTypeOK, ResultOK,
     WalletOK, NoFalseSuccess, PCs, Callers

\* Transactions that are given up or outlive the process keep their type.
LEMMA AbandonedType ==
  ASSUME pool \subseteq Txs
  PROVE  /\ \A c \in Callers : Abandoned(c) \subseteq Txs
         /\ {[by |-> t.by, seq |-> t.seq, watched |-> FALSE] : t \in pool} \subseteq Txs
         /\ \A c \in Callers, n \in Nat, b \in BOOLEAN :
                [by |-> c, seq |-> n, watched |-> b] \in Txs
<1>0. \A t \in pool : t.by \in Callers /\ t.seq \in Nat
  BY DEF Txs
<1>1. ASSUME NEW c \in Callers, NEW t \in pool
      PROVE  [by |-> t.by, seq |-> t.seq, watched |-> t.watched /\ t.by # c] \in Txs
  <2>1. (t.watched /\ t.by # c) \in BOOLEAN
    OBVIOUS
  <2> HIDE <2>1
  <2> DEFINE b == t.watched /\ t.by # c
  <2>2. b \in BOOLEAN BY <2>1
  <2> HIDE DEF b
  <2>3. [by |-> t.by, seq |-> t.seq, watched |-> b] \in Txs
    BY <1>0, <2>2 DEF Txs
  <2> QED BY <2>3 DEF b
<1>2. ASSUME NEW t \in pool
      PROVE  [by |-> t.by, seq |-> t.seq, watched |-> FALSE] \in Txs
  BY <1>0 DEF Txs
<1>3. \A c \in Callers, n \in Nat, b \in BOOLEAN : [by |-> c, seq |-> n, watched |-> b] \in Txs
  BY DEF Txs
<1> QED BY <1>1, <1>2, <1>3 DEF Abandoned

\* processMessage keeps the invariant.
LEMMA processMessageInv ==
  ASSUME RoutesInv, kind' = kind, NEW c \in Callers, processMessage(c)
  PROVE  RoutesInv'
  BY AttemptsAssumption, AbandonedType DEF processMessage, RoutesInv, TypeOK,
     AttemptsTypeOK, ResultOK, WalletOK, NoFalseSuccess, PCs, Callers, vars, wallet, chain,
     Goto, Fails, MessageReceived

\* Admin keeps the invariant.
LEMMA AdminInv ==
  ASSUME RoutesInv, kind' = kind, NEW c \in Callers, Admin(c)
  PROVE  RoutesInv'
  BY AttemptsAssumption, AbandonedType DEF Admin, RoutesInv, TypeOK, AttemptsTypeOK,
     ResultOK, WalletOK, NoFalseSuccess, PCs, Callers, vars, wallet, chain, Goto, Fails

\* WasmWallet keeps the invariant.
LEMMA WasmWalletInv ==
  ASSUME RoutesInv, kind' = kind, NEW c \in Callers, WasmWallet(c)
  PROVE  RoutesInv'
  BY AttemptsAssumption, AbandonedType DEF WasmWallet, RoutesInv, TypeOK, AttemptsTypeOK,
     ResultOK, WalletOK, NoFalseSuccess, PCs, Callers, vars, wallet, chain, Goto, Fails

\* WasmUnsigned keeps the invariant.
LEMMA WasmUnsignedInv ==
  ASSUME RoutesInv, kind' = kind, NEW c \in Callers, WasmUnsigned(c)
  PROVE  RoutesInv'
  BY AttemptsAssumption, AbandonedType DEF WasmUnsigned, RoutesInv, TypeOK, AttemptsTypeOK,
     ResultOK, WalletOK, NoFalseSuccess, PCs, Callers, vars, wallet, chain, Goto, Fails,
     Leave, ProcessDies

\* WasmSendMessage keeps the invariant.
LEMMA WasmSendMessageInv ==
  ASSUME RoutesInv, kind' = kind, NEW c \in Callers, WasmSendMessage(c)
  PROVE  RoutesInv'
  BY AttemptsAssumption, AbandonedType DEF WasmSendMessage, RoutesInv, TypeOK,
     AttemptsTypeOK, ResultOK, WalletOK, NoFalseSuccess, PCs, Callers, vars, wallet, chain,
     Goto, Fails, Locking

\* WasmPush keeps the invariant.
LEMMA WasmPushInv ==
  ASSUME RoutesInv, kind' = kind, NEW c \in Callers, WasmPush(c)
  PROVE  RoutesInv'
<1> DEFINE b == c \in Msgs
<1>1. holds[c] \in Nat /\ pool \subseteq Txs
  BY DEF RoutesInv, TypeOK, AttemptsTypeOK
<1>2. b \in BOOLEAN
  OBVIOUS
<1> HIDE DEF b
<1>3. [by |-> c, seq |-> holds[c], watched |-> b] \in Txs
  BY <1>1, <1>2, AbandonedType
<1>4. pool' \subseteq Txs
  BY <1>1, <1>3, AbandonedType DEF WasmPush, b
<1> QED
  BY <1>4, AttemptsAssumption, AbandonedType DEF WasmPush, RoutesInv, TypeOK,
     AttemptsTypeOK, ResultOK, WalletOK, NoFalseSuccess, PCs, Callers, vars, wallet, chain,
     Goto, Fails, Pushing, Forget

\* WasmWrongSequence keeps the invariant.
LEMMA WasmWrongSequenceInv ==
  ASSUME RoutesInv, kind' = kind, NEW c \in Callers, WasmWrongSequence(c)
  PROVE  RoutesInv'
  BY AttemptsAssumption, AbandonedType DEF WasmWrongSequence, RoutesInv, TypeOK,
     AttemptsTypeOK, ResultOK, WalletOK, NoFalseSuccess, PCs, Callers, vars, wallet, chain,
     Goto, Fails, Pushing, Forget, Leave

\* WasmPushFails keeps the invariant.
LEMMA WasmPushFailsInv ==
  ASSUME RoutesInv, kind' = kind, NEW c \in Callers, WasmPushFails(c)
  PROVE  RoutesInv'
  BY AttemptsAssumption, AbandonedType DEF WasmPushFails, RoutesInv, TypeOK, AttemptsTypeOK,
     ResultOK, WalletOK, NoFalseSuccess, PCs, Callers, vars, wallet, chain, Goto, Fails,
     Pushing, Forget, Leave

\* WasmGetAccountInfo keeps the invariant.
LEMMA WasmGetAccountInfoInv ==
  ASSUME RoutesInv, kind' = kind, NEW c \in Callers, WasmGetAccountInfo(c)
  PROVE  RoutesInv'
  BY AttemptsAssumption, AbandonedType DEF WasmGetAccountInfo, RoutesInv, TypeOK,
     AttemptsTypeOK, ResultOK, WalletOK, NoFalseSuccess, PCs, Callers, vars, wallet, chain,
     Goto, Fails, Leave

\* WasmSetSequence keeps the invariant.
LEMMA WasmSetSequenceInv ==
  ASSUME RoutesInv, kind' = kind, NEW c \in Callers, WasmSetSequence(c)
  PROVE  RoutesInv'
  BY AttemptsAssumption, AbandonedType DEF WasmSetSequence, RoutesInv, TypeOK,
     AttemptsTypeOK, ResultOK, WalletOK, NoFalseSuccess, PCs, Callers, vars, wallet, chain,
     Goto, Fails, Forget

\* WasmReadSequence keeps the invariant.
LEMMA WasmReadSequenceInv ==
  ASSUME RoutesInv, kind' = kind, NEW c \in Callers, WasmReadSequence(c)
  PROVE  RoutesInv'
  BY AttemptsAssumption, AbandonedType DEF WasmReadSequence, RoutesInv, TypeOK,
     AttemptsTypeOK, ResultOK, WalletOK, NoFalseSuccess, PCs, Callers, vars, wallet, chain,
     Goto, Fails

\* WasmIncrement keeps the invariant.
LEMMA WasmIncrementInv ==
  ASSUME RoutesInv, kind' = kind, NEW c \in Callers, WasmIncrement(c)
  PROVE  RoutesInv'
  BY AttemptsAssumption, AbandonedType DEF WasmIncrement, RoutesInv, TypeOK, AttemptsTypeOK,
     ResultOK, WalletOK, NoFalseSuccess, PCs, Callers, vars, wallet, chain, Goto, Fails,
     Forget

\* WasmSubscribeTxResult keeps the invariant.
LEMMA WasmSubscribeTxResultInv ==
  ASSUME RoutesInv, kind' = kind, NEW c \in Callers, WasmSubscribeTxResult(c)
  PROVE  RoutesInv'
  BY AttemptsAssumption, AbandonedType DEF WasmSubscribeTxResult, RoutesInv, TypeOK,
     AttemptsTypeOK, ResultOK, WalletOK, NoFalseSuccess, PCs, Callers, vars, wallet, chain,
     Goto, Fails, Leave

\* WasmTxResult keeps the invariant.
LEMMA WasmTxResultInv ==
  ASSUME RoutesInv, kind' = kind, NEW c \in Callers, WasmTxResult(c)
  PROVE  RoutesInv'
  BY AttemptsAssumption, AbandonedType DEF WasmTxResult, RoutesInv, TypeOK, AttemptsTypeOK,
     ResultOK, WalletOK, NoFalseSuccess, PCs, Callers, vars, wallet, chain, Goto, Fails,
     Leave

\* IconSendTransaction keeps the invariant.
LEMMA IconSendTransactionInv ==
  ASSUME RoutesInv, kind' = kind, NEW c \in Callers, IconSendTransaction(c)
  PROVE  RoutesInv'
<1> DEFINE b == TRUE
<1>1. clock \in Nat /\ pool \subseteq Txs
  BY DEF RoutesInv, TypeOK, AttemptsTypeOK
<1>2. b \in BOOLEAN
  OBVIOUS
<1> HIDE DEF b
<1>3. [by |-> c, seq |-> clock, watched |-> b] \in Txs
  BY <1>1, <1>2, AbandonedType
<1>4. pool' \subseteq Txs
  BY <1>1, <1>3, AbandonedType DEF IconSendTransaction, b
<1> QED
  BY <1>4, AttemptsAssumption, AbandonedType DEF IconSendTransaction, RoutesInv, TypeOK,
     AttemptsTypeOK, ResultOK, WalletOK, NoFalseSuccess, PCs, Callers, vars, wallet, chain,
     Goto, Fails

\* IconSendFails keeps the invariant.
LEMMA IconSendFailsInv ==
  ASSUME RoutesInv, kind' = kind, NEW c \in Callers, IconSendFails(c)
  PROVE  RoutesInv'
  BY AttemptsAssumption, AbandonedType DEF IconSendFails, RoutesInv, TypeOK, AttemptsTypeOK,
     ResultOK, WalletOK, NoFalseSuccess, PCs, Callers, vars, wallet, chain, Goto, Fails,
     Leave

\* IconTxResult keeps the invariant.
LEMMA IconTxResultInv ==
  ASSUME RoutesInv, kind' = kind, NEW c \in Callers, IconTxResult(c)
  PROVE  RoutesInv'
  BY AttemptsAssumption, AbandonedType DEF IconTxResult, RoutesInv, TypeOK, AttemptsTypeOK,
     ResultOK, WalletOK, NoFalseSuccess, PCs, Callers, vars, wallet, chain, Goto, Fails,
     Leave

\* IconSetAdmin keeps the invariant.
LEMMA IconSetAdminInv ==
  ASSUME RoutesInv, kind' = kind, NEW c \in Callers, IconSetAdmin(c)
  PROVE  RoutesInv'
  BY AttemptsAssumption, AbandonedType DEF IconSetAdmin, RoutesInv, TypeOK, AttemptsTypeOK,
     ResultOK, WalletOK, NoFalseSuccess, PCs, Callers, vars, wallet, chain, Goto, Fails,
     Leave

\* IconWaitForResults keeps the invariant.
LEMMA IconWaitForResultsInv ==
  ASSUME RoutesInv, kind' = kind, NEW c \in Callers, IconWaitForResults(c)
  PROVE  RoutesInv'
  BY AttemptsAssumption, AbandonedType DEF IconWaitForResults, RoutesInv, TypeOK,
     AttemptsTypeOK, ResultOK, WalletOK, NoFalseSuccess, PCs, Callers, vars, wallet, chain,
     Goto, Fails, Leave

\* A transaction of the pool is executed, and whoever listens learns how.
LEMMA CommitInv ==
  ASSUME RoutesInv, kind' = kind, NEW t \in pool, NEW H \in SUBSET Callers, Commit(t, H)
  PROVE  RoutesInv'
<1>1. t.by \in Callers
  BY DEF RoutesInv, TypeOK, AttemptsTypeOK, Txs
<1> QED
  BY <1>1, AttemptsAssumption DEF Commit, RoutesInv, TypeOK, AttemptsTypeOK, ResultOK,
     WalletOK, NoFalseSuccess, PCs, Callers, vars, wallet, chain, Goto, Fails

\* An event that gets lost leaves its caller without a result.
LEMMA WasmEventLostInv ==
  ASSUME RoutesInv, kind' = kind, WasmEventLost
  PROVE  RoutesInv'
<1>1. \A t \in pool : t.by \in Callers
  BY DEF RoutesInv, TypeOK, AttemptsTypeOK, Txs
<1> QED
  BY <1>1, AttemptsAssumption DEF WasmEventLost, RoutesInv, TypeOK, AttemptsTypeOK,
     ResultOK, WalletOK, NoFalseSuccess, PCs, Callers, vars, wallet, chain, Goto, Fails

\* The process dies and starts again.
LEMMA RestartInv ==
  ASSUME RoutesInv, kind' = kind, Restart
  PROVE  RoutesInv'
  BY AttemptsAssumption, AbandonedType DEF Restart, ProcessDies, RoutesInv, TypeOK,
     AttemptsTypeOK, ResultOK, WalletOK, NoFalseSuccess, PCs, Callers, vars, wallet, chain,
     Goto, Fails

\* Every step keeps the invariant.
LEMMA StepInv == RoutesInv /\ [Next]_allVars => RoutesInv'
<1> SUFFICES ASSUME RoutesInv, [Next]_allVars PROVE RoutesInv'
  OBVIOUS
<1>1. CASE kind = "wasm" /\ WasmNext /\ UNCHANGED kind
  <2>1. kind' = kind
    BY <1>1
  <2>2. CASE \E c \in Callers : processMessage(c)
    BY <2>1, <2>2, processMessageInv
  <2>3. CASE \E c \in Callers : Admin(c)
    BY <2>1, <2>3, AdminInv
  <2>4. CASE \E c \in Callers : WasmSendMessage(c)
    BY <2>1, <2>4, WasmSendMessageInv
  <2>5. CASE \E c \in Callers : WasmUnsigned(c)
    BY <2>1, <2>5, WasmUnsignedInv
  <2>6. CASE \E c \in Callers : WasmWallet(c)
    BY <2>1, <2>6, WasmWalletInv
  <2>7. CASE \E c \in Callers : WasmPush(c)
    BY <2>1, <2>7, WasmPushInv
  <2>8. CASE \E c \in Callers : WasmWrongSequence(c)
    BY <2>1, <2>8, WasmWrongSequenceInv
  <2>9. CASE \E c \in Callers : WasmPushFails(c)
    BY <2>1, <2>9, WasmPushFailsInv
  <2>10. CASE \E c \in Callers : WasmGetAccountInfo(c)
    BY <2>1, <2>10, WasmGetAccountInfoInv
  <2>11. CASE \E c \in Callers : WasmSetSequence(c)
    BY <2>1, <2>11, WasmSetSequenceInv
  <2>12. CASE \E c \in Callers : WasmReadSequence(c)
    BY <2>1, <2>12, WasmReadSequenceInv
  <2>13. CASE \E c \in Callers : WasmIncrement(c)
    BY <2>1, <2>13, WasmIncrementInv
  <2>14. CASE \E c \in Callers : WasmSubscribeTxResult(c)
    BY <2>1, <2>14, WasmSubscribeTxResultInv
  <2>15. CASE \E c \in Callers : WasmTxResult(c)
    BY <2>1, <2>15, WasmTxResultInv
  <2>16. CASE WasmCommit
    BY <2>1, <2>16, CommitInv DEF WasmCommit
  <2>17. CASE WasmEventLost
    BY <2>1, <2>17, WasmEventLostInv
  <2>18. CASE Restart
    BY <2>1, <2>18, RestartInv
  <2> QED
    BY <1>1, <2>2, <2>3, <2>4, <2>5, <2>6, <2>7, <2>8, <2>9, <2>10, <2>11, <2>12, <2>13,
       <2>14, <2>15, <2>16, <2>17, <2>18 DEF WasmNext, WasmLock, WasmStep
<1>2. CASE kind = "icon" /\ IconNext /\ UNCHANGED kind
  <2>1. kind' = kind
    BY <1>2
  <2>2. CASE \E c \in Callers : processMessage(c)
    BY <2>1, <2>2, processMessageInv
  <2>3. CASE \E c \in Callers : Admin(c)
    BY <2>1, <2>3, AdminInv
  <2>4. CASE \E c \in Callers : IconSendTransaction(c)
    BY <2>1, <2>4, IconSendTransactionInv
  <2>5. CASE \E c \in Callers : IconSendFails(c)
    BY <2>1, <2>5, IconSendFailsInv
  <2>6. CASE \E c \in Callers : IconTxResult(c)
    BY <2>1, <2>6, IconTxResultInv
  <2>7. CASE \E c \in Callers : IconSetAdmin(c)
    BY <2>1, <2>7, IconSetAdminInv
  <2>8. CASE \E c \in Callers : IconWaitForResults(c)
    BY <2>1, <2>8, IconWaitForResultsInv
  <2>9. CASE IconCommit
    BY <2>1, <2>9, CommitInv DEF IconCommit
  <2>10. CASE Restart
    BY <2>1, <2>10, RestartInv
  <2> QED
    BY <1>2, <2>2, <2>3, <2>4, <2>5, <2>6, <2>7, <2>8, <2>9, <2>10 DEF IconNext, IconStep
<1>3. CASE UNCHANGED allVars
  BY <1>3 DEF allVars, RoutesInv, TypeOK, AttemptsTypeOK, ResultOK, WalletOK,
     NoFalseSuccess, PCs, Callers, vars, wallet, chain, Goto, Fails
<1> QED
  BY <1>1, <1>2, <1>3 DEF Next

\* Type correctness: every variable keeps its type, for every set of messages
\* and operator transactions and any number of failures and crashes.
THEOREM RoutesTyped == Spec => []TypeOK
<1>1. RoutesInv => TypeOK
  BY DEF RoutesInv
<1> QED
  BY InitInv, StepInv, <1>1, PTL DEF Spec

\* No message is cleared that the chain has not executed.
THEOREM ClearedIsExecuted == Spec => []NoFalseSuccess
<1>1. RoutesInv => NoFalseSuccess
  BY DEF RoutesInv
<1> QED
  BY InitInv, StepInv, <1>1, PTL DEF Spec
============================================================================
