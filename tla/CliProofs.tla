----------------------------- MODULE CliProofs -----------------------------
(***************************************************************************)
(* For any number of processes, keys and passwords: whoever answers a      *)
(* command has the database open, a socket without a listener is left only *)
(* by a process that did not close it, keystores can be restored, and no   *)
(* edit of the configuration undoes an earlier one.                        *)
(***************************************************************************)
EXTENDS Cli, TLAPS

ConsoleInv == ConsoleTypeOK /\ ServedByOwner /\ OpenedFirst /\ SocketRemoved

\* A process that exits takes the database, its socket and the connections
\* to it along.
LEMMA ExitsInv ==
    ASSUME ConsoleInv, NEW p \in Procs, Exits(p),
           path' \in BOOLEAN, untidy' \in BOOLEAN, runs' \in Nat, kills' \in Nat,
           listener # p => path' = path /\ untidy' = untidy,
           listener = p => untidy' \/ ~path'
    PROVE  ConsoleInv'
<1> USE ConsoleAssumption DEF ConsoleInv, Exits, Goto
<1>1. ConsoleTypeOK'
  BY DEF ConsoleTypeOK, Cmds, PCs, Answers
<1>2. ServedByOwner'
  BY DEF ConsoleTypeOK, ServedByOwner
<1>3. OpenedFirst'
  BY DEF ConsoleTypeOK, OpenedFirst
<1>4. SocketRemoved'
  BY DEF ConsoleTypeOK, SocketRemoved
<1>5. QED
  BY <1>1, <1>2, <1>3, <1>4

\* The console's invariant survives the end of a process, tidy or not.
LEMMA EndsInv ==
    ASSUME ConsoleInv, NEW p \in Procs, Ends(p), kills' \in Nat
    PROVE  ConsoleInv'
<1>1. /\ path' \in BOOLEAN /\ untidy' \in BOOLEAN /\ runs' \in Nat
      /\ path' = path
      /\ Exits(p)
  BY DEF ConsoleInv, ConsoleTypeOK, Ends
<1>2. listener # p => untidy' = untidy
  BY DEF ConsoleInv, ConsoleTypeOK, Ends
<1>3. listener = p => untidy'
  BY DEF Ends
<1>4. QED
  BY <1>1, <1>2, <1>3, ExitsInv

\* The console's invariant survives every other step of a process.
LEMMA StepsInv ==
    ASSUME ConsoleInv, NEW p \in Procs,
           \/ \E k \in Cmds : Execute(p, k)
           \/ ConsoleStep(p) \/ Stop(p) \/ Kill(p)
    PROVE  ConsoleInv'
<1> USE ConsoleAssumption
<1> DEFINE Parts4 == ConsoleTypeOK' /\ ServedByOwner' /\ OpenedFirst' /\ SocketRemoved'
<1>a. Parts4 => ConsoleInv'
  BY DEF ConsoleInv
<1>b. kills \in Nat
  BY DEF ConsoleInv, ConsoleTypeOK
<1> HIDE DEF Parts4
<1>1. CASE \E k \in Cmds : Execute(p, k)
  <2>1. ConsoleTypeOK'
    BY <1>1 DEF ConsoleInv, ConsoleTypeOK, Execute, Goto, PCs
  <2>2. ServedByOwner' /\ SocketRemoved'
    BY <1>1 DEF ConsoleInv, ServedByOwner, SocketRemoved, Execute
  <2>3. OpenedFirst'
    BY <1>1 DEF ConsoleInv, ConsoleTypeOK, OpenedFirst, Execute, Goto
  <2>4. QED
    BY <2>1, <2>2, <2>3, <1>a DEF Parts4
<1>2. CASE NewClient(p)
  <2>1. ConsoleTypeOK'
    BY <1>2 DEF ConsoleInv, ConsoleTypeOK, NewClient, Goto, PCs
  <2>2. ServedByOwner' /\ SocketRemoved'
    BY <1>2 DEF ConsoleInv, ConsoleTypeOK, ServedByOwner, SocketRemoved, NewClient
  <2>3. OpenedFirst'
    BY <1>2 DEF ConsoleInv, ConsoleTypeOK, OpenedFirst, NewClient, Goto
  <2>4. QED
    BY <2>1, <2>2, <2>3, <1>a DEF Parts4
<1>3. CASE NewLvlDB(p) /\ db = NoProc
  <2>1. /\ db' = p /\ Goto(p, "listen")
        /\ UNCHANGED <<cmd, listener, path, conn, answer, untidy, runs, kills>>
    BY <1>3 DEF NewLvlDB
  <2>2. ConsoleTypeOK'
    BY <2>1 DEF ConsoleInv, ConsoleTypeOK, Goto, PCs
  <2>3. ServedByOwner' /\ SocketRemoved'
    BY <2>1, <1>3 DEF ConsoleInv, ConsoleTypeOK, ServedByOwner, SocketRemoved
  <2>4. OpenedFirst'
    BY <2>1, <1>3 DEF ConsoleInv, ConsoleTypeOK, OpenedFirst, Goto
  <2>5. QED
    BY <2>2, <2>3, <2>4, <1>a DEF Parts4
<1>4. CASE NewLvlDB(p) /\ db # NoProc
  BY <1>4, <1>b, EndsInv DEF NewLvlDB
<1>5. CASE NewSocket(p) /\ ~path
  <2>1. /\ path' = TRUE /\ listener' = p /\ pc[p] = "listen"
        /\ Goto(p, IF Client(p) THEN "redial" ELSE "running")
        /\ UNCHANGED <<cmd, db, conn, answer, untidy, runs, kills>>
    BY <1>5 DEF NewSocket
  <2>2. ConsoleTypeOK'
    BY <2>1 DEF ConsoleInv, ConsoleTypeOK, Goto, PCs
  <2>3. ServedByOwner' /\ SocketRemoved'
    BY <2>1 DEF ConsoleInv, ConsoleTypeOK, ServedByOwner, SocketRemoved, OpenedFirst
  <2>4. OpenedFirst'
    BY <2>1, <1>5 DEF ConsoleInv, ConsoleTypeOK, OpenedFirst, ServedByOwner, Goto
  <2>5. QED
    BY <2>2, <2>3, <2>4, <1>a DEF Parts4
<1>6. CASE NewSocket(p) /\ path
  BY <1>6, <1>b, EndsInv DEF NewSocket
<1>7. CASE NewClientAgain(p)
  <2>1. ConsoleTypeOK'
    BY <1>7 DEF ConsoleInv, ConsoleTypeOK, NewClientAgain, Goto, PCs
  <2>2. ServedByOwner' /\ SocketRemoved'
    BY <1>7 DEF ConsoleInv, ConsoleTypeOK, ServedByOwner, SocketRemoved, NewClientAgain
  <2>3. OpenedFirst'
    BY <1>7 DEF ConsoleInv, ConsoleTypeOK, OpenedFirst, NewClientAgain, Goto
  <2>4. QED
    BY <2>1, <2>2, <2>3, <1>a DEF Parts4
<1>8. CASE Send(p) /\ conn[p] # NoProc
  <2>1. ConsoleTypeOK'
    BY <1>8 DEF ConsoleInv, ConsoleTypeOK, Send, Goto, PCs, Answers
  <2>2. ServedByOwner' /\ SocketRemoved'
    BY <1>8 DEF ConsoleInv, ServedByOwner, SocketRemoved, Send
  <2>3. OpenedFirst'
    BY <1>8 DEF ConsoleInv, ConsoleTypeOK, OpenedFirst, Send, Goto
  <2>4. QED
    BY <2>1, <2>2, <2>3, <1>a DEF Parts4
<1>9. CASE Send(p) /\ conn[p] = NoProc
  BY <1>9, <1>b, EndsInv DEF Send
<1>10. CASE Serve(p)
  <2>1. ConsoleTypeOK'
    BY <1>10 DEF ConsoleInv, ConsoleTypeOK, Serve, Answers
  <2>2. ServedByOwner' /\ SocketRemoved' /\ OpenedFirst'
    BY <1>10 DEF ConsoleInv, ServedByOwner, SocketRemoved, OpenedFirst, Serve
  <2>3. QED
    BY <2>1, <2>2, <1>a DEF Parts4
<1>11. CASE ServePanics(p)
  <2>1. conn[p] \in Procs
    BY <1>11 DEF ConsoleInv, ConsoleTypeOK, ServePanics
  <2>2. Ends(conn[p]) /\ kills' = kills
    BY <1>11 DEF ServePanics
  <2>3. QED
    BY <2>1, <2>2, <1>b, EndsInv
<1>12. CASE Read(p)
  <2>1. CASE Ends(p) /\ UNCHANGED kills
    BY <2>1, <1>b, EndsInv
  <2>2. CASE Goto(p, "close") /\ UNCHANGED <<cmd, db, listener, path, conn, answer, untidy, runs, kills>>
    <3>1. ConsoleTypeOK'
      BY <2>2 DEF ConsoleInv, ConsoleTypeOK, Goto, PCs
    <3>2. ServedByOwner' /\ SocketRemoved'
      BY <2>2 DEF ConsoleInv, ServedByOwner, SocketRemoved
    <3>3. OpenedFirst'
      BY <2>2 DEF ConsoleInv, ConsoleTypeOK, OpenedFirst, Goto
    <3>4. QED
      BY <3>1, <3>2, <3>3, <1>a DEF Parts4
  <2>3. QED
    BY <1>12, <2>1, <2>2 DEF Read
<1>13. CASE CloseSocket(p) \/ Stop(p)
  <2>1. /\ Exits(p) /\ path' = (path /\ listener # p)
        /\ UNCHANGED <<untidy, runs, kills>>
    BY <1>13 DEF CloseSocket, Stop
  <2>2. path' \in BOOLEAN /\ untidy' \in BOOLEAN /\ runs' \in Nat /\ kills' \in Nat
    BY <2>1 DEF ConsoleInv, ConsoleTypeOK
  <2>3. listener # p => path' = path /\ untidy' = untidy
    BY <2>1 DEF ConsoleInv, ConsoleTypeOK
  <2>4. listener = p => ~path'
    BY <2>1
  <2>5. QED
    BY <2>1, <2>2, <2>3, <2>4, ExitsInv
<1>14. CASE Kill(p)
  <2>1. Ends(p) /\ kills' \in Nat
    BY <1>14, <1>b DEF Kill
  <2>2. QED
    BY <2>1, EndsInv
<1>15. NewLvlDB(p) \/ NewSocket(p) \/ Send(p) => ConsoleInv'
  BY <1>3, <1>4, <1>5, <1>6, <1>8, <1>9
<1>16. QED
  BY <1>1, <1>2, <1>7, <1>10, <1>11, <1>12, <1>13, <1>14, <1>15 DEF ConsoleStep

\* ConsoleInv is inductive.
LEMMA ConsoleInductive ==
    ASSUME ConsoleInv, [Next]_vars
    PROVE  ConsoleInv'
<1>1. CASE UNCHANGED consoleVars
  BY <1>1 DEF ConsoleInv, ConsoleTypeOK, ServedByOwner, OpenedFirst, SocketRemoved, consoleVars
<1>2. CASE ConsoleNext
  BY <1>2, StepsInv DEF ConsoleNext
<1>3. QED
  BY <1>1, <1>2 DEF Next, ConsolePart, ConfigPart, KeystorePart, vars

\* ConsoleInv holds when nothing runs.
LEMMA ConsoleInitInv ==
    ASSUME Init
    PROVE  ConsoleInv
BY ConsoleAssumption DEF Init, ConsoleInit, ConsoleInv, ConsoleTypeOK, ServedByOwner, OpenedFirst,
   SocketRemoved, Cmds, PCs, Answers

\* getSocket, NewLvlDB and NewSocket: a command is carried out by a process
\* that has the database open, however many processes start, fail, are killed
\* and serve each other.
THEOREM OwnerServes == Spec => []ServedByOwner
<1>1. Init => ConsoleInv
  BY ConsoleInitInv
<1>2. ConsoleInv /\ [Next]_vars => ConsoleInv'
  BY ConsoleInductive
<1>3. ConsoleInv => ServedByOwner
  BY DEF ConsoleInv
<1>4. QED
  BY <1>1, <1>2, <1>3, PTL DEF Spec

\* closeSocket and Close: a path that keeps later processes out is left only
\* by a process that ended without closing its socket.
THEOREM SocketLeftUntidily == Spec => []SocketRemoved
<1>1. Init => ConsoleInv
  BY ConsoleInitInv
<1>2. ConsoleInv /\ [Next]_vars => ConsoleInv'
  BY ConsoleInductive
<1>3. ConsoleInv => SocketRemoved
  BY DEF ConsoleInv
<1>4. QED
  BY <1>1, <1>2, <1>3, PTL DEF Spec

----------------------------------------------------------------------------
KeystoreInv == KeystoreTypeOK /\ PassOK

\* The record of a write in progress.
LEMMA WriteKeyInv ==
    ASSUME KeystoreInv, writing = NoKey, keyOps' \in Nat,
           NEW a \in Keys, NEW k \in Keys, NEW pw \in Passwords, WriteKey(a, k, pw)
    PROVE  KeystoreInv'
<1>1. KeystoreTypeOK'
  BY DEF KeystoreInv, KeystoreTypeOK, WriteKey
<1>2. PassOK'
  <2>1. writing' # NoKey /\ writing'.addr = a /\ writing'.pw = pw
    BY WritingAssumption DEF WriteKey
  <2>2. keyPass \in [Keys -> Passwords \cup {NoKey}] /\ keyFile \in [Keys -> Keys \cup {NoKey}]
    BY DEF KeystoreInv, KeystoreTypeOK
  <2>3. \A b \in Keys : keyPass'[b] = IF b = a THEN pw ELSE keyPass[b]
    BY <2>2 DEF WriteKey
  <2>4. \A b \in Keys : keyFile'[b] = IF b = a THEN k ELSE keyFile[b]
    BY <2>2 DEF WriteKey
  <2>5. cut' = cut /\ passFile' = passFile
    BY DEF WriteKey
  <2>6. ~cut => \A b \in Keys : keyFile[b] # NoKey => keyPass[b] = passFile[b]
    BY DEF KeystoreInv, PassOK
  <2>7. QED
    BY <2>1, <2>3, <2>4, <2>5, <2>6 DEF PassOK
<1>3. QED
  BY <1>1, <1>2 DEF KeystoreInv

\* KeystoreInv is inductive.
LEMMA KeystoreInductive ==
    ASSUME KeystoreInv, [Next]_vars
    PROVE  KeystoreInv'
<1> USE KeystoreAssumption
<1>1. CASE UNCHANGED keyVars
  BY <1>1 DEF KeystoreInv, KeystoreTypeOK, PassOK, keyVars
<1>2. ASSUME NEW k \in Keys, NEW pw \in Passwords, NewKeystore(k, pw) \/ ImportKeystore(k, pw)
      PROVE  KeystoreInv'
  <2>1. writing = NoKey /\ keyOps' \in Nat
    BY <1>2 DEF NewKeystore, ImportKeystore, KeyOp, KeystoreInv, KeystoreTypeOK
  <2>2. PICK a \in Keys : WriteKey(a, k, pw)
    BY <1>2 DEF NewKeystore, ImportKeystore, keystorePath, KeystoreInv, KeystoreTypeOK
  <2>3. QED
    BY <2>1, <2>2, WriteKeyInv
<1>3. CASE WritePass
  <2>1. KeystoreTypeOK'
    BY <1>3 DEF WritePass, KeystoreInv, KeystoreTypeOK
  <2>2. PassOK'
    <3>1. SUFFICES ASSUME ~cut, NEW b \in Keys, keyFile[b] # NoKey
                   PROVE  keyPass[b] = passFile'[b]
      BY <1>3 DEF WritePass, PassOK
    <3>2. keyPass[b] = IF writing.addr = b THEN writing.pw ELSE passFile[b]
      BY <1>3, <3>1 DEF WritePass, KeystoreInv, PassOK
    <3>3. passFile'[b] = IF b = writing.addr THEN writing.pw ELSE passFile[b]
      BY <1>3 DEF WritePass, KeystoreInv, KeystoreTypeOK
    <3>4. QED
      BY <3>2, <3>3
  <2>3. QED
    BY <2>1, <2>2 DEF KeystoreInv
<1>4. CASE CutShort
  BY <1>4 DEF CutShort, KeystoreInv, KeystoreTypeOK, PassOK
<1>5. ASSUME NEW a \in Keys, Use(a)
      PROVE  KeystoreInv'
  BY <1>5 DEF Use, KeyOp, KeystoreInv, KeystoreTypeOK, PassOK
<1>6. CASE RestoreKeystore \/ Forgotten
  BY <1>6 DEF RestoreKeystore, Forgotten, KeystoreInv, KeystoreTypeOK, PassOK
<1>7. CASE KeystoreNext
  BY <1>7, <1>2, <1>3, <1>4, <1>5, <1>6 DEF KeystoreNext
<1>8. QED
  BY <1>1, <1>7 DEF Next, ConsolePart, ConfigPart, KeystorePart, vars

\* KeystoreInv holds of the configured key alone.
LEMMA KeystoreInitInv == Init => KeystoreInv
<1>1. Init => KeystoreInit
  BY DEF Init
<1>2. KeystoreInit => KeystoreTypeOK
  <2>1. SUFFICES ASSUME KeystoreInit
                 PROVE  KeystoreTypeOK
    OBVIOUS
  <2>2. chain \in Chains /\ wallet \in Keys /\ signer \in Keys \cup {NoKey}
    BY <2>1, KeystoreAssumption DEF KeystoreInit
  <2>3. /\ keyFile \in [Keys -> Keys \cup {NoKey}]
        /\ keyPass \in [Keys -> Passwords \cup {NoKey}]
        /\ passFile \in [Keys -> Passwords \cup {NoKey}]
    BY <2>1 DEF KeystoreInit
  <2>4. writing \in [addr : Keys, pw : Passwords] \cup {NoKey}
    BY <2>1 DEF KeystoreInit
  <2>5. cut \in BOOLEAN /\ keyOps \in Nat /\ cuts \in Nat
    BY <2>1 DEF KeystoreInit
  <2>6. QED
    BY <2>2, <2>3, <2>4, <2>5 DEF KeystoreTypeOK
<1>3. KeystoreInit => PassOK
  BY DEF KeystoreInit, PassOK
<1>4. QED
  BY <1>1, <1>2, <1>3 DEF KeystoreInv

\* NewKeystore, ImportKeystore and RestoreKeystore: the password stored for a
\* key decrypts it, in whatever order keys are created and imported again.
THEOREM KeysRestorable == Spec => []Restorable
<1>1. Init => KeystoreInv
  BY KeystoreInitInv
<1>2. KeystoreInv /\ [Next]_vars => KeystoreInv'
  BY KeystoreInductive
<1>3. KeystoreInv => Restorable
  BY DEF KeystoreInv, PassOK, Restorable
<1>4. QED
  BY <1>1, <1>2, <1>3, PTL DEF Spec

\* Except on EVM chains every key file holds the key of its address.
OwnKeys ==
    /\ chain # "evm" => \A a \in Keys : keyFile[a] \in {NoKey, a}
    /\ SignsAsConfigured

\* Away from EVM chains a file holds the key it is named after.
LEMMA OwnKeysInductive ==
    ASSUME KeystoreInv, OwnKeys, [Next]_vars
    PROVE  OwnKeys'
<1>t. keyFile \in [Keys -> Keys \cup {NoKey}] /\ wallet \in Keys
  BY DEF KeystoreInv, KeystoreTypeOK
<1>1. CASE UNCHANGED keyVars
  BY <1>1 DEF OwnKeys, SignsAsConfigured, keyVars
<1>2. ASSUME NEW k \in Keys, NEW pw \in Passwords, NewKeystore(k, pw) \/ ImportKeystore(k, pw)
      PROVE  OwnKeys'
  <2>1. PICK a \in Keys : WriteKey(a, k, pw) /\ (chain # "evm" => a = k)
    BY <1>2, <1>t DEF NewKeystore, ImportKeystore, keystorePath
  <2>2. keyFile' = [keyFile EXCEPT ![a] = k] /\ UNCHANGED <<chain, wallet, signer>>
    BY <2>1 DEF WriteKey
  <2>3. QED
    BY <1>t, <2>1, <2>2 DEF OwnKeys, SignsAsConfigured
<1>3. CASE WritePass \/ CutShort \/ Forgotten \/ \E a \in Keys : Use(a)
  BY <1>3 DEF WritePass, CutShort, Forgotten, Use, OwnKeys, SignsAsConfigured
<1>4. CASE RestoreKeystore
  BY <1>4, <1>t DEF RestoreKeystore, OwnKeys, SignsAsConfigured
<1>5. CASE KeystoreNext
  BY <1>5, <1>2, <1>3, <1>4 DEF KeystoreNext
<1>6. QED
  BY <1>1, <1>5 DEF Next, ConsolePart, ConfigPart, KeystorePart, vars

\* ImportKeystore of ICON and Cosmos chains: whatever is imported or created,
\* RestoreKeystore finds the key of the configured address, or none.
THEOREM SignerIsConfigured == Spec => []SignsAsConfigured
<1>1. Init => KeystoreInv /\ OwnKeys
  <2>1. Init => KeystoreInit
    BY DEF Init
  <2>2. KeystoreInit => OwnKeys
    BY DEF KeystoreInit, OwnKeys, SignsAsConfigured
  <2>3. QED
    BY <2>1, <2>2, KeystoreInitInv
<1>2. KeystoreInv /\ OwnKeys /\ [Next]_vars => (KeystoreInv /\ OwnKeys)'
  BY KeystoreInductive, OwnKeysInductive
<1>3. OwnKeys => SignsAsConfigured
  BY DEF OwnKeys
<1>4. QED
  BY <1>1, <1>2, <1>3, PTL DEF Spec

----------------------------------------------------------------------------
(* The configuration file.                                                 *)

\* What an editor that has ended is left with.
LEMMA QuitsType ==
    ASSUME ConfigTypeOK, NEW e \in Editors, Quits(e)
    PROVE  /\ epc' \in [Editors -> EditPCs]
           /\ edit' \in [Editors -> [op : Ops, chain : ChainCfgs]]
           /\ cfg' \in [Editors -> [chains : SUBSET ChainCfgs, global : Globals]]
           /\ flock' \in Editors \cup {NoEditor}
<1>1. /\ Idle.edit \in [op : Ops, chain : ChainCfgs]
      /\ Idle.cfg \in [chains : SUBSET ChainCfgs, global : Globals]
  BY ConfigAssumption DEF Idle, Ops, Globals
<1>2. QED
  BY <1>1 DEF ConfigTypeOK, Quits, At, EditPCs

\* What an editor reads is a configuration.
LEMMA LoadType ==
    ASSUME ConfigTypeOK, NEW e \in Editors, Load(e)
    PROVE  cfg' \in [Editors -> [chains : SUBSET ChainCfgs, global : Globals]]
<1>1. PICK S \in RuntimeConfig(chains) :
        cfg' = [cfg EXCEPT ![e] = [chains |-> S, global |-> global]]
  BY DEF Load
<1>2. S \subseteq ChainCfgs
  BY DEF RuntimeConfig, OnePerKey, ConfigTypeOK
<1>3. QED
  BY <1>1, <1>2 DEF ConfigTypeOK

\* The types of the file and of its editors.
LEMMA ConfigTypeStep ==
    ASSUME ConfigTypeOK, ConfigNext
    PROVE  ConfigTypeOK'
<1> USE DEF history
<1>t. /\ exists \in BOOLEAN /\ chains \subseteq ChainCfgs /\ global \in Globals
      /\ epc \in [Editors -> EditPCs]
      /\ edit \in [Editors -> [op : Ops, chain : ChainCfgs]]
      /\ cfg \in [Editors -> [chains : SUBSET ChainCfgs, global : Globals]]
      /\ flock \in Editors \cup {NoEditor}
      /\ reported \subseteq ChainCfgs
      /\ edits \in Nat /\ breaks \in Nat
  BY DEF ConfigTypeOK
<1>b. keyed \in BOOLEAN /\ overlapped \in BOOLEAN /\ torn \in BOOLEAN
  BY DEF ConfigTypeOK
<1>p. /\ {"off", "ready", "loaded", "changed", "truncated"} \subseteq EditPCs
      /\ {"missing", "nokey", "key"} \subseteq Globals
  BY DEF EditPCs, Globals
<1>1. CASE configInit
  BY <1>1, <1>p DEF configInit, ConfigTypeOK
<1>2. ASSUME NEW e \in Editors, NEW op \in Ops, NEW c \in ChainCfgs, Begin(e, op, c)
      PROVE  ConfigTypeOK'
  <2>1. cfg' \in [Editors -> [chains : SUBSET ChainCfgs, global : Globals]]
    BY <1>2, LoadType DEF Begin
  <2>2. /\ epc' \in [Editors -> EditPCs] /\ edit' \in [Editors -> [op : Ops, chain : ChainCfgs]]
        /\ edits' \in Nat /\ overlapped' \in BOOLEAN
    BY <1>2, <1>t, <1>p DEF Begin, At
  <2>3. QED
    BY <1>2, <2>1, <2>2 DEF Begin, ConfigTypeOK
<1>3. ASSUME NEW e \in Editors, TryLock(e)
      PROVE  ConfigTypeOK'
  <2>1. cfg' \in [Editors -> [chains : SUBSET ChainCfgs, global : Globals]]
    BY <1>3, LoadType DEF TryLock
  <2>2. epc' \in [Editors -> EditPCs] /\ flock' \in Editors \cup {NoEditor}
    BY <1>3, <1>t, <1>p DEF TryLock, At
  <2>3. QED
    BY <1>3, <2>1, <2>2 DEF TryLock, ConfigTypeOK
<1>4. ASSUME NEW e \in Editors, KmsInit(e) \/ AddChain(e) \/ DeleteChain(e)
      PROVE  ConfigTypeOK'
  <2>1. CASE Quits(e)
    BY <1>4, <2>1, QuitsType DEF KmsInit, AddChain, DeleteChain, ConfigTypeOK
  <2>2. ASSUME At(e, "changed"), UNCHANGED <<edit, flock>>,
               \/ cfg' = [cfg EXCEPT ![e].global = "key"]
               \/ cfg' = [cfg EXCEPT ![e].chains = @ \cup {edit[e].chain}]
               \/ cfg' = [cfg EXCEPT ![e].chains = {d \in @ : d.nid # edit[e].chain.nid}]
        PROVE  ConfigTypeOK'
    <3>1. epc' \in [Editors -> EditPCs]
      BY <2>2, <1>t, <1>p DEF At
    <3>c. /\ cfg[e] \in [chains : SUBSET ChainCfgs, global : Globals]
          /\ edit[e].chain \in ChainCfgs
      BY <1>t
    <3>2. cfg' \in [Editors -> [chains : SUBSET ChainCfgs, global : Globals]]
      <4>1. CASE cfg' = [cfg EXCEPT ![e].global = "key"]
        BY <4>1, <3>c, <1>t, <1>p
      <4>2. CASE cfg' = [cfg EXCEPT ![e].chains = @ \cup {edit[e].chain}]
        BY <4>2, <3>c, <1>t
      <4>3. CASE cfg' = [cfg EXCEPT ![e].chains = {d \in @ : d.nid # edit[e].chain.nid}]
        <5>1. {d \in cfg[e].chains : d.nid # edit[e].chain.nid} \subseteq ChainCfgs
          BY <3>c
        <5>2. QED
          BY <4>3, <5>1, <1>t
      <4>4. QED
        BY <2>2, <4>1, <4>2, <4>3
    <3>3. QED
      BY <1>4, <2>2, <3>1, <3>2 DEF KmsInit, AddChain, DeleteChain, ConfigTypeOK
  <2>3. QED
    BY <1>4, <2>1, <2>2 DEF KmsInit, AddChain, DeleteChain
<1>5. ASSUME NEW e \in Editors, Truncate(e)
      PROVE  ConfigTypeOK'
  BY <1>5, <1>p DEF Truncate, At, ConfigTypeOK
<1>6. ASSUME NEW e \in Editors, WriteFile(e)
      PROVE  ConfigTypeOK'
  <2>1. chains' \subseteq ChainCfgs /\ global' \in Globals
    BY <1>6, <1>t DEF WriteFile, Wrapped, OnePerKey
  <2>2. reported' \subseteq ChainCfgs /\ keyed' \in BOOLEAN
    BY <1>6, <1>t DEF WriteFile
  <2>3. QED
    BY <1>6, <2>1, <2>2, QuitsType DEF WriteFile, ConfigTypeOK
<1>7. ASSUME NEW e \in Editors, Break(e)
      PROVE  ConfigTypeOK'
  <2>1. breaks' \in Nat /\ torn' \in BOOLEAN
    BY <1>7, <1>t DEF Break
  <2>2. QED
    BY <1>7, <2>1, QuitsType DEF Break, ConfigTypeOK
<1>8. QED
  BY <1>1, <1>2, <1>3, <1>4, <1>5, <1>6, <1>7 DEF ConfigNext

\* The types hold of a file written by hand and of none.
LEMMA ConfigInitType == Init => ConfigTypeOK
<1> SUFFICES ASSUME Init PROVE ConfigTypeOK
  OBVIOUS
<1>1. /\ exists \in BOOLEAN /\ chains \subseteq ChainCfgs /\ global \in Globals
      /\ flock \in Editors \cup {NoEditor} /\ reported \subseteq ChainCfgs
      /\ edits \in Nat /\ breaks \in Nat
  BY ConfigAssumption DEF Init, ConfigInit, Globals
<1>2. keyed \in BOOLEAN /\ overlapped \in BOOLEAN /\ torn \in BOOLEAN
  BY Zenon DEF Init, ConfigInit
<1>3. /\ epc \in [Editors -> EditPCs]
      /\ edit \in [Editors -> [op : Ops, chain : ChainCfgs]]
      /\ cfg \in [Editors -> [chains : SUBSET ChainCfgs, global : Globals]]
  BY ConfigAssumption DEF Init, ConfigInit, Idle, EditPCs, Ops, Globals
<1>4. QED
  BY <1>1, <1>2, <1>3 DEF ConfigTypeOK

\* Every variable of the three parts keeps its type.
THEOREM CliTyped == Spec => []TypeOK
<1>1. Init => ConsoleInv /\ KeystoreInv /\ ConfigTypeOK /\ part \in Parts
  BY ConfigInitType, ConsoleInitInv, KeystoreInitInv DEF Init
<1>2. ConfigTypeOK /\ part \in Parts /\ [Next]_vars => (ConfigTypeOK /\ part \in Parts)'
  <2> SUFFICES ASSUME ConfigTypeOK, part \in Parts, [Next]_vars
               PROVE  (ConfigTypeOK /\ part \in Parts)'
    OBVIOUS
  <2>1. UNCHANGED configVars => ConfigTypeOK'
    BY DEF configVars, ConfigTypeOK
  <2>2. QED
    BY <2>1, ConfigTypeStep DEF Next, ConsolePart, ConfigPart, KeystorePart, vars
<1>3. ConsoleInv /\ [Next]_vars => ConsoleInv'
  BY ConsoleInductive
<1>4. KeystoreInv /\ [Next]_vars => KeystoreInv'
  BY KeystoreInductive
<1>5. ConsoleInv /\ KeystoreInv /\ ConfigTypeOK /\ part \in Parts => TypeOK
  BY DEF ConsoleInv, KeystoreInv, TypeOK
<1>6. QED
  BY <1>1, <1>2, <1>3, <1>4, <1>5, PTL DEF Spec

\* Nobody else has this name.
OwnName(c) == \A d \in ChainCfgs : d.name = c.name => d = c

\* The enabled chains of R that have a name of their own are in S, and have
\* their network id there to themselves.
Holds(S, R) ==
    \A c \in R : c.on /\ OwnName(c) => c \in S /\ \A d \in S : d.nid = c.nid => d = c

\* What will have been reported when e has written.
Target(e) ==
    CASE edit[e].op = "add" -> reported \cup {edit[e].chain}
      [] edit[e].op = "delete" -> {c \in reported : c.nid # edit[e].chain.nid}
      [] OTHER -> reported

\* Before there is a file nobody can edit it.
NoFile == ~exists => reported = {} /\ ~keyed /\ \A e \in Editors : epc[e] = "off"

\* One editor at a time ...
Alone == \A e, f \in Editors : epc[e] # "off" /\ epc[f] # "off" => e = f

\* ... finds everything in the file, ...
FileHolds == Settled => Holds(chains, reported) /\ (keyed => global = "key")

\* ... has it in memory after reading, ...
ReadHolds ==
    \A e \in Editors : epc[e] \in {"ready", "loaded"} =>
        Holds(cfg[e].chains, reported) /\ (keyed => cfg[e].global = "key")

\* ... and with its own change, before writing it.
ChangeHolds ==
    \A e \in Editors : epc[e] \in {"changed", "truncated"} =>
        /\ Holds(cfg[e].chains, Target(e))
        /\ keyed \/ edit[e].op = "kms" => cfg[e].global = "key"

Orderly == Alone /\ FileHolds /\ ReadHolds /\ ChangeHolds

EditInv == ConfigTypeOK /\ NoFile /\ (~overlapped /\ ~torn => Orderly)

\* RuntimeConfig drops nothing of what has been reported: the chain is enabled
\* and alone with its network id.
LEMMA LoadHolds ==
    ASSUME NEW S, NEW R, Holds(S, R), NEW T \in RuntimeConfig(S)
    PROVE  Holds(T, R)
<1>1. /\ T \subseteq {c \in S : c.on}
      /\ \A c \in S : c.on => \E d \in T : d.nid = c.nid
  BY DEF RuntimeConfig, OnePerKey
<1>2. QED
  BY <1>1 DEF Holds

\* Nor does Wrapped: nobody shares its name.
LEMMA WrappedHolds ==
    ASSUME NEW S \in SUBSET ChainCfgs, NEW R, Holds(S, R), NEW T \in Wrapped(S)
    PROVE  Holds(T, R)
<1>1. T \subseteq S /\ \A c \in S : \E d \in T : d.name = c.name
  BY DEF Wrapped, OnePerKey
<1>2. QED
  BY <1>1 DEF Holds, OwnName

\* A step of the only editor there is.
LEMMA AloneStep ==
    ASSUME ConfigTypeOK, Alone, NEW e \in Editors, epc[e] # "off",
           NEW l \in EditPCs, At(e, l)
    PROVE  /\ Alone'
           /\ \A f \in Editors : f # e => epc[f] = "off" /\ epc'[f] = "off"
           /\ epc'[e] = l
<1>1. \A f \in Editors : epc'[f] = IF f = e THEN l ELSE epc[f]
  BY DEF ConfigTypeOK, At
<1>2. \A f \in Editors : f # e => epc[f] = "off"
  BY DEF Alone
<1>3. QED
  BY <1>1, <1>2 DEF Alone

\* An editor that ends without having written leaves the file as it was.
LEMMA QuitsOrderly ==
    ASSUME ConfigTypeOK, Orderly, NEW e \in Editors, epc[e] \notin {"off", "truncated"},
           Quits(e), UNCHANGED <<chains, global, reported, keyed>>
    PROVE  Orderly'
<1>1. At(e, "off")
  BY DEF Quits
<1>2. /\ Alone' /\ epc'[e] = "off"
      /\ \A f \in Editors : f # e => epc[f] = "off" /\ epc'[f] = "off"
  BY <1>1, AloneStep DEF Orderly, EditPCs
<1>3. FileHolds'
  <2>1. Settled
    BY <1>2 DEF Settled
  <2>2. Holds(chains, reported) /\ (keyed => global = "key")
    BY <2>1 DEF Orderly, FileHolds
  <2>3. Holds(chains', reported')
    BY <2>2 DEF Holds
  <2>4. keyed' => global' = "key"
    BY <2>2
  <2>5. QED
    BY <2>3, <2>4 DEF FileHolds
<1>4. \A f \in Editors : epc'[f] = "off"
  BY <1>2
<1>5. ReadHolds' /\ ChangeHolds'
  BY <1>4 DEF ReadHolds, ChangeHolds
<1>6. QED
  BY <1>2, <1>3, <1>5 DEF Orderly

\* The editor alone has read the file.
LEMMA LoadOrderly ==
    ASSUME ConfigTypeOK, FileHolds, NEW e \in Editors,
           \A f \in Editors : f # e => epc[f] = "off", epc[e] \in {"off", "ready"},
           NEW l \in {"ready", "loaded"}, At(e, l), Load(e),
           UNCHANGED <<chains, global, reported, keyed>>
    PROVE  Orderly'
<1>1. \A f \in Editors : epc'[f] = IF f = e THEN l ELSE "off"
  BY DEF ConfigTypeOK, At
<1>2. Settled
  BY DEF Settled
<1>3. Holds(chains, reported) /\ (keyed => global = "key")
  BY <1>2 DEF FileHolds
<1>4. PICK S \in RuntimeConfig(chains) :
        cfg' = [cfg EXCEPT ![e] = [chains |-> S, global |-> global]]
  BY DEF Load
<1>5. cfg'[e].chains = S /\ cfg'[e].global = global
  BY <1>4 DEF ConfigTypeOK
<1>6. Holds(S, reported)
  BY <1>3, LoadHolds
<1>7. Holds(cfg'[e].chains, reported') /\ Holds(chains', reported')
  BY <1>3, <1>5, <1>6 DEF Holds
<1>8. keyed' => cfg'[e].global = "key" /\ global' = "key"
  BY <1>3, <1>5
<1>9. Alone' /\ ChangeHolds'
  BY <1>1 DEF Alone, ChangeHolds
<1>10. FileHolds'
  BY <1>7, <1>8 DEF FileHolds
<1>11. ReadHolds'
  BY <1>1, <1>7, <1>8 DEF ReadHolds
<1>12. QED
  BY <1>9, <1>10, <1>11 DEF Orderly

\* The editor alone has changed what it read.
LEMMA ChangeOrderly ==
    ASSUME ConfigTypeOK, Orderly, NEW e \in Editors, epc[e] \in {"ready", "loaded"},
           At(e, "changed"), UNCHANGED <<chains, global, reported, keyed, edit>>,
           Holds(cfg'[e].chains, Target(e)),
           keyed \/ edit[e].op = "kms" => cfg'[e].global = "key"
    PROVE  Orderly'
<1>1. /\ Alone' /\ epc'[e] = "changed"
      /\ \A f \in Editors : f # e => epc[f] = "off" /\ epc'[f] = "off"
  BY AloneStep DEF Orderly, EditPCs
<1>2. FileHolds'
  <2>1. Settled
    BY <1>1 DEF Settled
  <2>2. Holds(chains', reported') /\ (keyed' => global' = "key")
    BY <2>1 DEF Orderly, FileHolds, Holds
  <2>3. QED
    BY <2>2 DEF FileHolds
<1>3. ReadHolds'
  BY <1>1 DEF ReadHolds
<1>4. ChangeHolds'
  <2>1. SUFFICES /\ Holds(cfg'[e].chains, Target(e)')
                 /\ keyed' \/ edit'[e].op = "kms" => cfg'[e].global = "key"
    BY <1>1 DEF ChangeHolds
  <2>2. Target(e)' = Target(e)
    BY DEF Target
  <2>3. keyed' \/ edit'[e].op = "kms" => cfg'[e].global = "key"
    OBVIOUS
  <2>4. QED
    BY <2>2, <2>3
<1>5. QED
  BY <1>1, <1>2, <1>3, <1>4 DEF Orderly

\* Orderly survives a step after which edits have still not overlapped and no
\* write has been cut short.
LEMMA OrderlyStep ==
    ASSUME ConfigTypeOK, NoFile, Orderly, ~overlapped, ~torn, ConfigNext, ~overlapped', ~torn'
    PROVE  Orderly'
<1> USE DEF history
<1>o. Alone /\ FileHolds /\ ReadHolds /\ ChangeHolds
  BY DEF Orderly
<1>t. /\ edit \in [Editors -> [op : Ops, chain : ChainCfgs]]
      /\ cfg \in [Editors -> [chains : SUBSET ChainCfgs, global : Globals]]
  BY DEF ConfigTypeOK
<1>1. CASE configInit
  <2>1. reported = {} /\ ~keyed /\ \A e \in Editors : epc[e] = "off"
    BY <1>1 DEF configInit, NoFile
  <2>2. UNCHANGED <<epc, reported, keyed>>
    BY <1>1 DEF configInit
  <2>3. \A e \in Editors : epc'[e] = "off"
    BY <2>1, <2>2
  <2>4. reported' = {} /\ ~keyed'
    BY <2>1, <2>2
  <2>5. Alone' /\ ReadHolds' /\ ChangeHolds'
    BY <2>3 DEF Alone, ReadHolds, ChangeHolds
  <2>6. FileHolds'
    BY <2>4 DEF FileHolds, Holds
  <2>7. QED
    BY <2>5, <2>6 DEF Orderly
<1>2. ASSUME NEW e \in Editors, NEW op \in Ops, NEW c \in ChainCfgs, Begin(e, op, c)
      PROVE  Orderly'
  <2>1. \A f \in Editors : f # e => epc[f] = "off"
    BY <1>2 DEF Begin
  <2>2. epc[e] = "off" /\ At(e, "ready") /\ Load(e) /\ UNCHANGED <<chains, global, reported, keyed>>
    BY <1>2 DEF Begin
  <2>3. QED
    BY <1>o, <2>1, <2>2, LoadOrderly
<1>3. ASSUME NEW e \in Editors, TryLock(e)
      PROVE  Orderly'
  <2>1. epc[e] = "ready" /\ At(e, "loaded") /\ Load(e) /\ UNCHANGED <<chains, global, reported, keyed>>
    BY <1>3 DEF TryLock
  <2>2. \A f \in Editors : f # e => epc[f] = "off"
    BY <1>o, <2>1 DEF Alone
  <2>3. QED
    BY <1>o, <2>1, <2>2, LoadOrderly
<1>4. ASSUME NEW e \in Editors, KmsInit(e) \/ AddChain(e) \/ DeleteChain(e), Quits(e)
      PROVE  Orderly'
  <2>1. epc[e] \in {"ready", "loaded"} /\ UNCHANGED <<chains, global, reported, keyed>>
    BY <1>4 DEF KmsInit, AddChain, DeleteChain
  <2>2. QED
    BY <1>4, <2>1, QuitsOrderly
<1>5. ASSUME NEW e \in Editors, KmsInit(e), ~Quits(e)
      PROVE  Orderly'
  <2>1. /\ epc[e] = "ready" /\ edit[e].op = "kms" /\ At(e, "changed")
        /\ cfg' = [cfg EXCEPT ![e].global = "key"]
        /\ UNCHANGED <<chains, global, reported, keyed, edit>>
    BY <1>5 DEF KmsInit
  <2>2. cfg'[e].chains = cfg[e].chains /\ cfg'[e].global = "key"
    BY <1>t, <2>1
  <2>3. Target(e) = reported
    BY <2>1 DEF Target
  <2>4. Holds(cfg'[e].chains, Target(e))
    BY <1>o, <2>1, <2>2, <2>3 DEF ReadHolds
  <2>5. QED
    BY <2>1, <2>2, <2>4, ChangeOrderly
<1>6. ASSUME NEW e \in Editors, AddChain(e), ~Quits(e)
      PROVE  Orderly'
  <2>1. /\ epc[e] = "loaded" /\ edit[e].op = "add" /\ At(e, "changed")
        /\ \A d \in cfg[e].chains : d.nid # edit[e].chain.nid
        /\ cfg' = [cfg EXCEPT ![e].chains = @ \cup {edit[e].chain}]
        /\ UNCHANGED <<chains, global, reported, keyed, edit>>
    BY <1>6 DEF AddChain
  <2>2. cfg'[e].chains = cfg[e].chains \cup {edit[e].chain} /\ cfg'[e].global = cfg[e].global
    BY <1>t, <2>1
  <2>3. Target(e) = reported \cup {edit[e].chain}
    BY <2>1 DEF Target
  <2>4. Holds(cfg[e].chains, reported) /\ (keyed => cfg[e].global = "key")
    BY <1>o, <2>1 DEF ReadHolds
  <2>5. Holds(cfg'[e].chains, Target(e))
    BY <2>1, <2>2, <2>3, <2>4 DEF Holds
  <2>6. keyed \/ edit[e].op = "kms" => cfg'[e].global = "key"
    BY <2>1, <2>2, <2>4
  <2>7. QED
    BY <2>1, <2>5, <2>6, ChangeOrderly
<1>7. ASSUME NEW e \in Editors, DeleteChain(e), ~Quits(e)
      PROVE  Orderly'
  <2>1. /\ epc[e] = "loaded" /\ edit[e].op = "delete" /\ At(e, "changed")
        /\ cfg' = [cfg EXCEPT ![e].chains = {d \in @ : d.nid # edit[e].chain.nid}]
        /\ UNCHANGED <<chains, global, reported, keyed, edit>>
    BY <1>7 DEF DeleteChain
  <2>2. /\ cfg'[e].chains = {d \in cfg[e].chains : d.nid # edit[e].chain.nid}
        /\ cfg'[e].global = cfg[e].global
    BY <1>t, <2>1
  <2>3. Target(e) = {d \in reported : d.nid # edit[e].chain.nid}
    BY <2>1 DEF Target
  <2>4. Holds(cfg[e].chains, reported) /\ (keyed => cfg[e].global = "key")
    BY <1>o, <2>1 DEF ReadHolds
  <2>5. Holds(cfg'[e].chains, Target(e))
    BY <2>2, <2>3, <2>4 DEF Holds
  <2>6. keyed \/ edit[e].op = "kms" => cfg'[e].global = "key"
    BY <2>1, <2>2, <2>4
  <2>7. QED
    BY <2>1, <2>5, <2>6, ChangeOrderly
<1>8. ASSUME NEW e \in Editors, Truncate(e)
      PROVE  Orderly'
  <2>1. epc[e] = "changed" /\ At(e, "truncated") /\ UNCHANGED <<edit, cfg, reported, keyed>>
    BY <1>8 DEF Truncate
  <2>2. /\ Alone' /\ epc'[e] = "truncated"
        /\ \A f \in Editors : f # e => epc[f] = "off" /\ epc'[f] = "off"
    BY <1>o, <2>1, AloneStep DEF EditPCs
  <2>3. FileHolds' /\ ReadHolds'
    BY <2>2 DEF FileHolds, Settled, ReadHolds
  <2>4. /\ Holds(cfg[e].chains, Target(e))
        /\ keyed \/ edit[e].op = "kms" => cfg[e].global = "key"
    BY <1>o, <2>1 DEF ChangeHolds
  <2>5. Target(e)' = Target(e)
    BY <2>1 DEF Target
  <2>6. ChangeHolds'
    BY <2>1, <2>2, <2>4, <2>5 DEF ChangeHolds
  <2>7. QED
    BY <2>2, <2>3, <2>6 DEF Orderly
<1>9. ASSUME NEW e \in Editors, WriteFile(e)
      PROVE  Orderly'
  <2>1. /\ epc[e] = "truncated" /\ At(e, "off")
        /\ chains' \in Wrapped(cfg[e].chains) /\ global' = cfg[e].global
    BY <1>9 DEF WriteFile, Quits
  <2>2. reported' = Target(e)
    BY <1>9 DEF WriteFile, Target
  <2>3. keyed' => keyed \/ edit[e].op = "kms"
    BY <1>9 DEF WriteFile
  <2>4. Alone' /\ \A f \in Editors : epc'[f] = "off"
    BY <1>o, <2>1, AloneStep DEF EditPCs
  <2>5. /\ Holds(cfg[e].chains, Target(e))
        /\ keyed \/ edit[e].op = "kms" => cfg[e].global = "key"
    BY <1>o, <2>1 DEF ChangeHolds
  <2>6. cfg[e].chains \subseteq ChainCfgs
    BY <1>t
  <2>7. Holds(chains', Target(e))
    BY <2>1, <2>5, <2>6, WrappedHolds
  <2>8. FileHolds'
    BY <2>1, <2>2, <2>3, <2>5, <2>7 DEF FileHolds
  <2>9. ReadHolds' /\ ChangeHolds'
    BY <2>4 DEF ReadHolds, ChangeHolds
  <2>10. QED
    BY <2>4, <2>8, <2>9 DEF Orderly
<1>10. ASSUME NEW e \in Editors, Break(e)
      PROVE  Orderly'
  <2>1. epc[e] \notin {"off", "truncated"}
    BY <1>10 DEF Break
  <2>2. Quits(e) /\ UNCHANGED <<chains, global, reported, keyed>>
    BY <1>10 DEF Break
  <2>3. QED
    BY <2>1, <2>2, QuitsOrderly
<1>11. QED
  BY <1>1, <1>2, <1>3, <1>4, <1>5, <1>6, <1>7, <1>8, <1>9, <1>10 DEF ConfigNext

\* EditInv is inductive: edits that have overlapped and writes that were cut
\* short stay so.
LEMMA EditInductive ==
    ASSUME EditInv, [Next]_vars
    PROVE  EditInv'
<1> USE DEF history
<1>1. CASE UNCHANGED configVars
  <2>1. ConfigTypeOK' /\ NoFile'
    BY <1>1 DEF configVars, EditInv, ConfigTypeOK, NoFile
  <2>2. UNCHANGED <<chains, global, epc, edit, cfg, reported, keyed, overlapped, torn>>
    BY <1>1 DEF configVars
  <2>3. Orderly => Orderly'
    <3>1. \A e : Target(e)' = Target(e)
      BY <2>2 DEF Target
    <3>2. QED
      BY <2>2, <3>1 DEF Orderly, Alone, FileHolds, Settled, ReadHolds, ChangeHolds, Holds
  <2>4. ~overlapped' /\ ~torn' => Orderly'
    BY <2>2, <2>3 DEF EditInv
  <2>5. QED
    BY <2>1, <2>4 DEF EditInv
<1>2. CASE ConfigNext
  <2>1. ConfigTypeOK'
    BY <1>2, ConfigTypeStep DEF EditInv
  <2>2. NoFile'
    <3>1. exists => exists'
      BY <1>2 DEF ConfigNext, configInit, Begin, TryLock, KmsInit, AddChain, DeleteChain,
         Truncate, WriteFile, Break
    <3>2. CASE exists
      BY <3>1, <3>2 DEF NoFile
    <3>3. CASE ~exists
      <4>1. \A e \in Editors : epc[e] = "off"
        BY <3>3 DEF EditInv, NoFile
      <4>2. configInit
        BY <1>2, <3>3, <4>1 DEF ConfigNext, Begin, TryLock, KmsInit, AddChain, DeleteChain,
           Truncate, WriteFile, Break
      <4>3. exists'
        BY <4>2 DEF configInit
      <4>4. QED
        BY <4>3 DEF NoFile
    <3>4. QED
      BY <3>2, <3>3
  <2>3. (overlapped => overlapped') /\ (torn => torn')
    <3>1. ASSUME NEW e \in Editors, NEW op \in Ops, NEW c \in ChainCfgs, Begin(e, op, c)
          PROVE  (overlapped => overlapped') /\ torn' = torn
      BY <3>1 DEF Begin
    <3>2. ASSUME NEW e \in Editors, Break(e)
          PROVE  overlapped' = overlapped /\ (torn => torn')
      BY <3>2 DEF Break
    <3>3. ASSUME NEW e \in Editors,
                 \/ TryLock(e) \/ KmsInit(e) \/ AddChain(e) \/ DeleteChain(e)
                 \/ Truncate(e) \/ WriteFile(e)
          PROVE  overlapped' = overlapped /\ torn' = torn
      BY <3>3 DEF TryLock, KmsInit, AddChain, DeleteChain, Truncate, WriteFile
    <3>4. configInit => overlapped' = overlapped /\ torn' = torn
      BY DEF configInit
    <3>5. QED
      BY <1>2, <3>1, <3>2, <3>3, <3>4 DEF ConfigNext
  <2>4. ~overlapped' /\ ~torn' => Orderly'
    BY <1>2, <2>3, OrderlyStep DEF EditInv
  <2>5. QED
    BY <2>1, <2>2, <2>4 DEF EditInv
<1>3. QED
  BY <1>1, <1>2 DEF Next, ConsolePart, ConfigPart, KeystorePart, vars

\* performConfigLockingOperation, AddChain, DeleteChain and kms.Init: no edit
\* undoes an earlier one that was reported, for any number of processes, chains
\* and failures before the write, as long as edits do not overlap and no write
\* is cut short.
THEOREM EditsAreKept == Spec => []EditsKept
<1>1. Init => EditInv
  <2> SUFFICES ASSUME Init PROVE EditInv
    OBVIOUS
  <2>1. ConfigTypeOK
    BY ConfigInitType
  <2>2. /\ \A e \in Editors : epc[e] = "off"
        /\ reported = {}
    BY DEF Init, ConfigInit
  <2>3. ~keyed
    BY DEF Init, ConfigInit
  <2>4. NoFile /\ Orderly
    BY <2>2, <2>3 DEF NoFile, Orderly, Alone, FileHolds, ReadHolds, ChangeHolds, Holds
  <2>5. QED
    BY <2>1, <2>4 DEF EditInv
<1>2. EditInv /\ [Next]_vars => EditInv'
  BY EditInductive
<1>3. EditInv => EditsKept
  <2> SUFFICES ASSUME EditInv, Settled, ~overlapped, ~torn PROVE Kept
    BY DEF EditsKept
  <2>1. Holds(chains, reported) /\ (keyed => global = "key")
    BY DEF EditInv, Orderly, FileHolds
  <2>2. QED
    BY <2>1 DEF Holds, OwnName, Kept
<1>4. QED
  BY <1>1, <1>2, <1>3, PTL DEF Spec
============================================================================
