--------------------------- MODULE EvmRouteProofs ---------------------------
(***************************************************************************)
(* Without admin transactions routerMutex keeps the number in a Route's    *)
(* TransactOpts unchanged from Get to Send; and while, besides, no call    *)
(* fails and the tracker does not grow old, no transaction takes the place *)
(* of another message's.                                                   *)
(***************************************************************************)
EXTENDS EvmRoute, FiniteSetTheorems, TLAPS

\* What the argument needs of the types: the per-caller variables are
\* functions on the callers.
Shape ==
    /\ pc \in [Callers -> PCs]
    /\ opts = [c \in Callers |-> opts[c]]
    /\ handed = [c \in Callers |-> handed[c]]

StableInv == Shape /\ MutexOK /\ StableNonce

\* Nobody is between Get and Send at the start.
LEMMA StableInit == Init => StableInv
<1> SUFFICES ASSUME Init PROVE StableInv
  OBVIOUS
<1>1. Shape
  BY DEF Init, Shape, PCs
<1>2. \A c \in Routes : pc[c] = "idle"
  BY DEF Init, Callers
<1> QED
  BY <1>1, <1>2 DEF StableInv, MutexOK, StableNonce, Inside

\* A step that lets nobody reach "send", and that leaves the number of whoever
\* is there alone, keeps it stable.
LEMMA StableFrame ==
  ASSUME StableInv, MutexOK', Shape',
         \A c \in Routes : pc'[c] = "send" =>
            \/ Nonce(c)' = handed'[c]
            \/ pc[c] = "send" /\ Nonce(c)' = Nonce(c) /\ handed'[c] = handed[c]
  PROVE  StableInv'
  BY DEF StableInv, StableNonce

\* Without admin transactions every step of a Route, the chain, the clock and
\* the process keeps the number of the Route that is about to send.
LEMMA StableStep ==
  ASSUME Admins = {}
  PROVE  StableInv /\ [Next]_vars => StableInv'
<1> SUFFICES ASSUME StableInv, [Next]_vars PROVE StableInv'
  OBVIOUS
<1> USE DEF tracker, chain, events, Callers
<1>s. Shape /\ MutexOK /\ StableNonce /\ NoCaller \notin Routes /\ Callers = Routes
  BY EvmAssumption DEF StableInv
<1>1. ASSUME NEW c \in Callers, Route(c) PROVE StableInv'
  <2>1. Shape' /\ MutexOK'
    BY <1>1, <1>s DEF Route, Shape, MutexOK, Inside, PCs
  <2>2. \A x \in Routes : pc'[x] = "send" => pc[x] = "send"
    BY <1>1, <1>s DEF Route, Shape
  <2> QED
    BY <1>1, <2>1, <2>2, StableFrame DEF Route, Nonce
<1>2. ASSUME NEW c \in Callers, Admin(c) PROVE StableInv'
  BY <1>2 DEF Admin
<1>3. ASSUME NEW c \in Callers, Wallet(c) PROVE StableInv'
  <2>1. Shape' /\ MutexOK'
    BY <1>3, <1>s DEF Wallet, Leave, Shape, MutexOK, Inside, PCs
  <2>2. \A x \in Routes : pc'[x] = "send" => pc[x] = "send"
    BY <1>3, <1>s DEF Wallet, Leave, Shape
  <2> QED
    BY <1>3, <2>1, <2>2, StableFrame DEF Wallet, Nonce
<1>4. ASSUME NEW c \in Callers, WalletNonce(c) PROVE StableInv'
  <2>1. Shape' /\ MutexOK'
    BY <1>4, <1>s DEF WalletNonce, Set, Detached, Leave, Shape, MutexOK, Inside, PCs
  <2>2. \A x \in Routes : pc'[x] # "send"
    BY <1>4, <1>s DEF WalletNonce, Leave, Shape, MutexOK, Inside
  <2> QED
    BY <2>1, <2>2, StableFrame
<1>5. ASSUME NEW c \in Callers, Get(c) PROVE StableInv'
  <2>1. Shape' /\ MutexOK'
    BY <1>5, <1>s DEF Get, Detached, Shape, MutexOK, Inside, PCs
  <2>2. \A x \in Routes : pc'[x] = "send" => x = c
    BY <1>5, <1>s DEF Get, Shape, MutexOK, Inside
  <2>3. opts'[c] = Shared /\ handed'[c] = current'
    BY <1>5, <1>s DEF Get, Detached, Shape
  <2> QED
    BY <2>1, <2>2, <2>3, StableFrame DEF Nonce
<1>6. ASSUME NEW c \in Callers, GetPanics(c) PROVE StableInv'
  BY <1>6, <1>s DEF GetPanics, ProcessDies, StableInv, Shape, MutexOK, StableNonce, Inside, PCs
<1>18. ASSUME NEW c \in Callers, GasTipPanics(c) PROVE StableInv'
  BY <1>18, <1>s DEF GasTipPanics, ProcessDies, StableInv, Shape, MutexOK, StableNonce, Inside, PCs
<1>7. ASSUME NEW c \in Callers, SendTransactionFails(c) PROVE StableInv'
  <2>1. Shape' /\ MutexOK'
    BY <1>7, <1>s DEF SendTransactionFails, Leave, Shape, MutexOK, Inside, PCs
  <2>2. \A x \in Routes : pc'[x] = "send" => pc[x] = "send"
    BY <1>7, <1>s DEF SendTransactionFails, Leave, Shape
  <2> QED
    BY <1>7, <2>1, <2>2, StableFrame DEF SendTransactionFails, Nonce
<1>8. ASSUME NEW c \in Callers, SendTransaction(c) PROVE StableInv'
  <2>1. Shape' /\ MutexOK'
    BY <1>8, <1>s DEF SendTransaction, Shape, MutexOK, Inside, PCs
  <2>2. \A x \in Routes : pc'[x] = "send" => pc[x] = "send"
    BY <1>8, <1>s DEF SendTransaction, Shape
  <2> QED
    BY <1>8, <2>1, <2>2, StableFrame DEF SendTransaction, Nonce
<1>9. ASSUME NEW c \in Callers, SendTransactionRejected(c) PROVE StableInv'
  <2>1. Shape' /\ MutexOK'
    BY <1>9, <1>s DEF SendTransactionRejected, Shape, MutexOK, Inside, PCs
  <2>2. \A x \in Routes : pc'[x] = "send" => pc[x] = "send"
    BY <1>9, <1>s DEF SendTransactionRejected, Shape
  <2> QED
    BY <1>9, <2>1, <2>2, StableFrame DEF SendTransactionRejected, Nonce
<1>10. ASSUME NEW c \in Callers, SetNonce(c) PROVE StableInv'
  <2>1. Shape' /\ MutexOK'
    BY <1>10, <1>s DEF SetNonce, Set, Detached, Leave, Shape, MutexOK, Inside, PCs
  <2>2. \A x \in Routes : pc'[x] # "send"
    BY <1>10, <1>s DEF SetNonce, Leave, Shape, MutexOK, Inside
  <2> QED
    BY <2>1, <2>2, StableFrame
<1>11. ASSUME NEW c \in Callers, WaitForTxResult(c) PROVE StableInv'
  <2>1. Shape' /\ MutexOK'
    BY <1>11, <1>s DEF WaitForTxResult, Shape, MutexOK, Inside, PCs
  <2>2. \A x \in Routes : pc'[x] = "send" => pc[x] = "send"
    BY <1>11, <1>s DEF WaitForTxResult, Shape
  <2> QED
    BY <1>11, <2>1, <2>2, StableFrame DEF WaitForTxResult, Nonce
<1>12. ASSUME NEW c \in Callers, WaitTimeout(c) PROVE StableInv'
  <2>1. Shape' /\ MutexOK'
    BY <1>12, <1>s DEF WaitTimeout, Leave, Shape, MutexOK, Inside, PCs
  <2>2. \A x \in Routes : pc'[x] = "send" => pc[x] = "send"
    BY <1>12, <1>s DEF WaitTimeout, Leave, Shape
  <2> QED
    BY <1>12, <2>1, <2>2, StableFrame DEF WaitTimeout, Nonce
<1>17. ASSUME NEW c \in Callers, WaitReverted(c) PROVE StableInv'
  <2>1. Shape' /\ MutexOK'
    BY <1>17, <1>s DEF WaitReverted, Leave, Shape, MutexOK, Inside, PCs
  <2>2. \A x \in Routes : pc'[x] = "send" => pc[x] = "send"
    BY <1>17, <1>s DEF WaitReverted, Leave, Shape
  <2> QED
    BY <1>17, <2>1, <2>2, StableFrame DEF WaitReverted, Nonce
<1>13. CASE Mine
  BY <1>13, <1>s DEF Mine, StableInv, Shape, MutexOK, StableNonce, Nonce, Inside
<1>14. CASE Tick
  BY <1>14, <1>s DEF Tick, StableInv, Shape, MutexOK, StableNonce, Nonce, Inside
<1>15. CASE Restart
  BY <1>15, <1>s DEF Restart, ProcessDies, StableInv, Shape, MutexOK, StableNonce, Inside, PCs
<1>16. CASE UNCHANGED vars
  BY <1>16, <1>s DEF vars, StableInv, Shape, MutexOK, StableNonce, Nonce, Inside
<1> QED
  BY <1>1, <1>2, <1>3, <1>4, <1>5, <1>6, <1>7, <1>8, <1>9, <1>10, <1>11, <1>12,
     <1>13, <1>14, <1>15, <1>16, <1>17, <1>18 DEF Next, Step

\* The number a Route was handed by NonceTracker.Get is the one it sends with,
\* for any number of Routes, failing calls, refreshes and crashes, as long
\* as nobody sends admin transactions.
THEOREM NonceIsStable == Admins = {} => (Spec => []StableNonce)
<1> SUFFICES ASSUME Admins = {} PROVE Spec => []StableNonce
  OBVIOUS
<1>1. StableInv /\ [Next]_vars => StableInv'
  BY StableStep
<1>2. StableInv => StableNonce
  BY DEF StableInv
<1> QED
  BY <1>1, <1>2, StableInit, PTL DEF Spec

----------------------------------------------------------------------------
(* Types.  A transaction pool is finite, so some nonce is the pending one. *)

PoolOK == IsFiniteSet(pool)

\* One of Cardinality(pool) + 1 numbers has no transaction.
LEMMA SomeFree ==
  ASSUME mined \in Nat, IsFiniteSet(pool)
  PROVE  /\ Cardinality(pool) \in Nat
         /\ \E n \in mined .. mined + Cardinality(pool) : \A t \in pool : t.nonce # n
<1> DEFINE N == {t.nonce : t \in pool}
           f == [t \in pool |-> t.nonce]
           I == mined .. mined + Cardinality(pool)
<1>1. Cardinality(pool) \in Nat
  BY FS_CardinalityType
<1>2. f \in Surjection(pool, N)
  BY DEF Surjection
<1>3. IsFiniteSet(N) /\ Cardinality(N) <= Cardinality(pool)
  BY <1>2, FS_Surjection
<1>4. IsFiniteSet(I) /\ Cardinality(I) = Cardinality(pool) + 1
  BY <1>1, FS_Interval
<1>5. Cardinality(N) \in Nat
  BY <1>3, FS_CardinalityType
<1>6. ~(I \subseteq N)
  <2> SUFFICES ASSUME I \subseteq N PROVE FALSE
    OBVIOUS
  <2>1. Cardinality(I) <= Cardinality(N)
    BY <1>3, FS_Subset
  <2> HIDE DEF I, N
  <2> QED
    BY <2>1, <1>1, <1>3, <1>4, <1>5
<1> QED
  BY <1>1, <1>6

\* Hence PendingNonceAt has an answer: the least of them.
LEMMA PendingNonceIsNat ==
  ASSUME mined \in Nat, IsFiniteSet(pool)
  PROVE  PendingNonceAt \in Nat /\ IsPendingNonce(PendingNonceAt)
<1> DEFINE free == {n \in mined .. mined + Cardinality(pool) : \A t \in pool : t.nonce # n}
<1>1. Cardinality(pool) \in Nat /\ free # {} /\ free \subseteq Nat
  BY SomeFree
<1>2. PICK n \in free : \A m \in free : ~(<<m, n>> \in OpToRel(<, Nat))
  BY <1>1, NatLessThanWellFounded, WFMin
<1>3. \A m \in free : ~(m < n)
  BY <1>1, <1>2 DEF OpToRel
<1>4. \A k \in mined .. n - 1 : \E t \in pool : t.nonce = k
  BY <1>1, <1>3
<1>5. IsPendingNonce(n) /\ n \in mined .. mined + Cardinality(pool)
  BY <1>1, <1>4 DEF IsPendingNonce
<1>6. /\ PendingNonceAt \in mined .. mined + Cardinality(pool)
      /\ IsPendingNonce(PendingNonceAt)
  BY <1>5 DEF PendingNonceAt
<1> QED
  BY <1>1, <1>6

TypeInv == TypeOK /\ PoolOK

\* The number in a caller's TransactOpts is an integer, shared or not.
LEMMA NonceIsInt ==
  ASSUME TypeOK, NEW c \in Callers
  PROVE  Nonce(c) \in Int /\ Uint64(Nonce(c)) \in Nat
<1>1. Nonce(c) \in Int
  BY DEF Nonce, TypeOK
<1> QED
  BY <1>1 DEF Uint64

\* What a caller that leaves does to its place and to the mutex.
LEMMA LeaveType ==
  ASSUME TypeOK, NEW c \in Callers, Leave(c)
  PROVE  pc' \in [Callers -> PCs] /\ mutex' \in Callers \cup {NoCaller}
  BY DEF TypeOK, Leave, PCs

\* What Set does to the tracker and to the numbers handed out.
LEMMA SetType ==
  ASSUME TypeInv, Set
  PROVE  /\ current' \in Int /\ aged' \in BOOLEAN /\ entry' \in BOOLEAN
         /\ opts' \in [Callers -> Int \cup {Shared}]
<1>1. PendingNonceAt \in Nat
  BY PendingNonceIsNat DEF TypeInv, TypeOK, PoolOK
<1>2. opts' \in [Callers -> Int \cup {Shared}]
  BY DEF TypeInv, TypeOK, Set, Detached
<1>3. current' = PendingNonceAt - 1 /\ aged' = FALSE /\ entry' = TRUE
  BY DEF Set
<1>4. aged' \in BOOLEAN /\ entry' \in BOOLEAN
  BY <1>3
<1> HIDE DEF PendingNonceAt
<1>5. current' \in Int
  BY <1>1, <1>3
<1> QED
  BY <1>2, <1>4, <1>5

\* A step that leaves the chain alone keeps the pool finite.
LEMMA EvmTypeFrame ==
  ASSUME TypeInv, UNCHANGED <<mined, pool, replaced>>,
         executed' \subseteq Callers, reverted' \subseteq Callers,
         wallet' \in BOOLEAN, entry' \in BOOLEAN, current' \in Int, aged' \in BOOLEAN,
         mutex' \in Callers \cup {NoCaller}, pc' \in [Callers -> PCs],
         opts' \in [Callers -> Int \cup {Shared}],
         fails' \in Nat, grown' \in BOOLEAN, crashes' \in Nat,
         handed' \in [Callers -> Int]
  PROVE  TypeInv'
  BY DEF TypeInv, TypeOK, PoolOK

\* Every step keeps the types, with admin transactions as well.
LEMMA EvmTypeStep ==
  ASSUME TypeInv, [Next]_vars
  PROVE  TypeInv'
<1> USE DEF tracker, chain, events
<1>t. TypeOK /\ PoolOK
  BY DEF TypeInv
<1>k. /\ wallet \in BOOLEAN /\ entry \in BOOLEAN /\ current \in Int /\ aged \in BOOLEAN
      /\ mutex \in Callers \cup {NoCaller} /\ pc \in [Callers -> PCs]
      /\ opts \in [Callers -> Int \cup {Shared}]
      /\ executed \subseteq Callers /\ reverted \subseteq Callers
      /\ fails \in Nat /\ grown \in BOOLEAN /\ crashes \in Nat /\ handed \in [Callers -> Int]
  BY <1>t DEF TypeOK
<1>p. {"idle", "wallet", "restored", "get", "send", "mismatch", "waiting", "done"} \subseteq PCs
  BY DEF PCs
<1>f. Fails => fails' \in Nat
  BY <1>k DEF Fails
<1>1. ASSUME NEW c \in Callers, Route(c) \/ Admin(c) PROVE TypeInv'
  BY <1>1, <1>k, <1>p, EvmTypeFrame DEF Route, Admin
<1>2. ASSUME NEW c \in Callers, Wallet(c) PROVE TypeInv'
  <2>1. CASE Fails /\ Leave(c) /\ UNCHANGED wallet
    BY <1>2, <2>1, <1>t, <1>k, <1>f, LeaveType, EvmTypeFrame DEF Wallet
  <2>2. CASE UNCHANGED <<mutex, fails>> /\ wallet' = TRUE
    BY <1>2, <2>2, <1>k, <1>p, EvmTypeFrame DEF Wallet
  <2> QED
    BY <1>2, <2>1, <2>2 DEF Wallet
<1>3. ASSUME NEW c \in Callers, WalletNonce(c) PROVE TypeInv'
  <2>1. CASE Set /\ pc' = [pc EXCEPT ![c] = "get"] /\ UNCHANGED <<mutex, fails>>
    BY <1>3, <2>1, <1>k, <1>p, SetType, EvmTypeFrame DEF WalletNonce
  <2>2. CASE Fails /\ Leave(c) /\ UNCHANGED <<entry, current, aged, opts>>
    BY <1>3, <2>2, <1>t, <1>k, <1>f, LeaveType, EvmTypeFrame DEF WalletNonce
  <2> QED
    BY <1>3, <2>1, <2>2 DEF WalletNonce
<1>4. ASSUME NEW c \in Callers, Get(c) PROVE TypeInv'
  <2>1. PendingNonceAt \in Nat
    BY <1>t, PendingNonceIsNat DEF TypeOK, PoolOK
  <2>2. Detached \in [Callers -> Int \cup {Shared}]
    BY <1>k DEF Detached
  <2>3. current' \in Int /\ aged' \in BOOLEAN /\ fails' \in Nat
    <3>1. current' \in {current, current + 1, PendingNonceAt - 1}
      BY <1>4 DEF Get
    <3>2. aged' = aged \/ aged' = FALSE
      BY <1>4 DEF Get
    <3>3. fails' \in Nat
      BY <1>4, <1>k, <1>f DEF Get
    <3>4. current' \in Int
      BY <1>k, <2>1, <3>1
    <3>5. aged' \in BOOLEAN
      BY <1>k, <3>2, Zenon
    <3> QED
      BY <3>3, <3>4, <3>5
  <2>4. opts' \in [Callers -> Int \cup {Shared}]
    BY <1>4, <1>k, <2>2 DEF Get
  <2>5. handed' \in [Callers -> Int] /\ pc' \in [Callers -> PCs]
    BY <1>4, <1>k, <1>p, <2>3 DEF Get
  <2> QED
    BY <1>4, <1>k, <2>3, <2>4, <2>5, EvmTypeFrame DEF Get
<1>5. ASSUME ProcessDies, fails' \in Nat, crashes' \in Nat PROVE TypeInv'
  <2>1. pc' \in [Callers -> PCs] /\ opts' \in [Callers -> Int \cup {Shared}]
    BY <1>5, <1>p DEF ProcessDies
  <2>2. wallet' \in BOOLEAN /\ entry' \in BOOLEAN /\ aged' \in BOOLEAN
    BY <1>5, Zenon DEF ProcessDies
  <2>3. current' \in Int /\ mutex' \in Callers \cup {NoCaller}
    BY <1>5 DEF ProcessDies
  <2>4. UNCHANGED <<mined, pool, executed, reverted, grown, handed, replaced>>
    BY <1>5 DEF ProcessDies
  <2> QED
    BY <1>5, <1>k, <2>1, <2>2, <2>3, <2>4, EvmTypeFrame
<1>6. ASSUME NEW c \in Callers, GetPanics(c) PROVE TypeInv'
  BY <1>5, <1>6, <1>k DEF GetPanics
<1>18. ASSUME NEW c \in Callers, GasTipPanics(c) PROVE TypeInv'
  BY <1>5, <1>18, <1>k, <1>f DEF GasTipPanics
<1>7. ASSUME NEW c \in Callers, SendTransactionFails(c) PROVE TypeInv'
  BY <1>7, <1>t, <1>k, <1>f, LeaveType, EvmTypeFrame DEF SendTransactionFails
<1>8. ASSUME NEW c \in Callers, SendTransaction(c) PROVE TypeInv'
  <2> DEFINE n == Uint64(Nonce(c))
  <2>1. n \in Nat
    BY <1>t, NonceIsInt
  <2>2. /\ pool' = (pool \ Taken(n)) \cup {[nonce |-> n, by |-> c]}
        /\ replaced' = replaced \cup {t \in Taken(n) : t.by # c}
        /\ pc' = [pc EXCEPT ![c] = "waiting"]
        /\ mutex' = IF mutex = c THEN NoCaller ELSE mutex
        /\ reverted' = reverted \ {c}
        /\ UNCHANGED <<tracker, opts, mined, executed, events, handed>>
    BY <1>8 DEF SendTransaction
  <2> HIDE DEF n
  <2>3. IsFiniteSet(pool \ Taken(n))
    BY <1>t, FS_Subset DEF PoolOK
  <2>4. IsFiniteSet(pool')
    BY <2>2, <2>3, FS_AddElement
  <2>5. Taken(n) \subseteq pool
    BY DEF Taken
  <2>6. pool' \subseteq [nonce : Nat, by : Callers]
    BY <1>t, <2>1, <2>2 DEF TypeOK
  <2>7. replaced' \subseteq [nonce : Nat, by : Callers]
    BY <1>t, <2>2, <2>5 DEF TypeOK
  <2>8. pc' \in [Callers -> PCs] /\ mutex' \in Callers \cup {NoCaller}
    BY <1>k, <1>p, <2>2
  <2> QED
    BY <1>t, <2>2, <2>4, <2>6, <2>7, <2>8 DEF TypeInv, TypeOK, PoolOK
<1>9. ASSUME NEW c \in Callers, SendTransactionRejected(c) PROVE TypeInv'
  BY <1>9, <1>k, <1>p, <1>f, EvmTypeFrame DEF SendTransactionRejected
<1>10. ASSUME NEW c \in Callers, SetNonce(c) PROVE TypeInv'
  <2>1. CASE Set /\ UNCHANGED fails
    BY <1>10, <2>1, <1>t, <1>k, SetType, LeaveType, EvmTypeFrame DEF SetNonce
  <2>2. CASE Fails /\ UNCHANGED <<entry, current, aged, opts>>
    BY <1>10, <2>2, <1>t, <1>k, <1>f, LeaveType, EvmTypeFrame DEF SetNonce
  <2> QED
    BY <1>10, <2>1, <2>2 DEF SetNonce
<1>11. ASSUME NEW c \in Callers, WaitForTxResult(c) PROVE TypeInv'
  BY <1>11, <1>k, <1>p, EvmTypeFrame DEF WaitForTxResult
<1>12. ASSUME NEW c \in Callers, WaitTimeout(c) PROVE TypeInv'
  BY <1>12, <1>t, <1>k, <1>f, LeaveType, EvmTypeFrame DEF WaitTimeout
<1>13. ASSUME NEW c \in Callers, WaitReverted(c) PROVE TypeInv'
  BY <1>13, <1>t, <1>k, LeaveType, EvmTypeFrame DEF WaitReverted
<1>14. CASE Mine
  <2>1. /\ mined' = mined + 1 /\ pool' = pool \ Taken(mined)
        /\ UNCHANGED <<tracker, mutex, pc, opts, grown, crashes, handed, replaced>>
    BY <1>14 DEF Mine
  <2>2. IsFiniteSet(pool')
    BY <1>t, <2>1, FS_Subset DEF PoolOK
  <2>3. {t.by : t \in Taken(mined)} \subseteq Callers
    BY <1>t DEF Taken, TypeOK
  <2>4. executed' \subseteq Callers /\ reverted' \subseteq Callers /\ fails' \in Nat
    BY <1>14, <1>k, <1>f, <2>3 DEF Mine
  <2> QED
    BY <1>t, <2>1, <2>2, <2>4 DEF TypeInv, TypeOK, PoolOK
<1>15. CASE Tick
  BY <1>15, <1>k, EvmTypeFrame DEF Tick
<1>16. CASE Restart
  BY <1>5, <1>16, <1>k DEF Restart
<1>17. CASE UNCHANGED vars
  BY <1>17, <1>k, EvmTypeFrame DEF vars
<1> QED
  BY <1>1, <1>2, <1>3, <1>4, <1>6, <1>7, <1>8, <1>9, <1>10, <1>11, <1>12, <1>13,
     <1>14, <1>15, <1>16, <1>17, <1>18 DEF Next, Step

\* The types hold at the start: nothing is pending.
LEMMA EvmTypeInit == Init => TypeInv
<1>1. Init => TypeOK
  <2>1. Init => wallet \in BOOLEAN /\ entry \in BOOLEAN /\ aged \in BOOLEAN /\ grown \in BOOLEAN
    BY Zenon DEF Init
  <2>2. Init => /\ current \in Int /\ mined \in Nat /\ mutex \in Callers \cup {NoCaller}
                /\ fails \in Nat /\ crashes \in Nat
    BY EvmAssumption DEF Init
  <2>3. Init => /\ pc \in [Callers -> PCs] /\ opts \in [Callers -> Int \cup {Shared}]
                /\ handed \in [Callers -> Int]
    BY DEF Init, PCs
  <2>4. Init => pool = {} /\ executed = {} /\ reverted = {} /\ replaced = {}
    BY DEF Init
  <2> QED
    BY <2>1, <2>2, <2>3, <2>4 DEF TypeOK
<1>2. Init => PoolOK
  BY FS_EmptySet DEF Init, PoolOK
<1> QED
  BY <1>1, <1>2 DEF TypeInv

\* The whole of LockInv, types included: without admin transactions whoever is
\* between Lock and Unlock holds routerMutex, and the pool always has a pending
\* nonce to hand out.
THEOREM LockHolds == Admins = {} => (Spec => []LockInv)
<1> SUFFICES ASSUME Admins = {} PROVE Spec => []LockInv
  OBVIOUS
<1>1. TypeInv /\ StableInv /\ [Next]_vars => (TypeInv /\ StableInv)'
  BY EvmTypeStep, StableStep
<1>2. TypeInv /\ StableInv => LockInv
  BY DEF TypeInv, StableInv, LockInv
<1> QED
  BY <1>1, <1>2, EvmTypeInit, StableInit, PTL DEF Spec

----------------------------------------------------------------------------
(* Replacement.  As long as nothing fails and the tracker is never old, the *)
(* pool has no gap and Current + 1 is its next free nonce, except while the *)
(* one Route that has taken that number is about to use it.                 *)

NoGap ==
    \A t \in pool : t.nonce >= mined /\ \A k \in mined .. t.nonce : Taken(k) # {}

\* Where a Route is tells what it knows: the tracker, its nonce, its fate.
PlaceOK(c) ==
    /\ pc[c] # "mismatch"
    /\ pc[c] = "get" => entry
    /\ pc[c] = "send" => entry /\ opts[c] = Shared /\ IsPendingNonce(current)
    /\ pc[c] = "waiting" => c \in executed \/ \E t \in pool : t.by = c

WalletOK == wallet => entry \/ \E c \in Routes : pc[c] = "restored"

TrackerOK == (entry /\ \A c \in Routes : pc[c] # "send") => IsPendingNonce(current + 1)

CalmInv ==
    /\ aged = FALSE /\ replaced = {}
    /\ NoGap /\ WalletOK /\ TrackerOK
    /\ \A c \in Routes : PlaceOK(c)

Calm == fails = 0 /\ ~grown

\* At the start there is neither a pending transaction nor a tracker entry.
LEMMA CalmInit == Init => CalmInv
<1> SUFFICES ASSUME Init PROVE CalmInv
  OBVIOUS
<1>1. aged = FALSE /\ entry = FALSE /\ wallet = FALSE /\ replaced = {} /\ pool = {}
  BY DEF Init
<1>2. \A c \in Routes : pc[c] = "idle"
  BY DEF Init, Callers
<1> QED
  BY <1>1, <1>2 DEF CalmInv, NoGap, WalletOK, TrackerOK, PlaceOK

\* Nothing that has failed or grown old is ever forgotten.
LEMMA CalmBefore ==
  ASSUME TypeOK, [Next]_vars, Calm'
  PROVE  Calm /\ ~Fails
<1> USE DEF tracker, chain, events
<1>1. ~Fails
  BY DEF Fails, TypeOK, Calm
<1>2. (fails' = fails /\ grown' = grown) \/ UNCHANGED vars \/ Tick
  BY <1>1 DEF Next, Step, Route, Admin, Wallet, WalletNonce, Get, GetPanics, GasTipPanics, ProcessDies,
     SendTransactionFails, SendTransaction, SendTransactionRejected, SetNonce,
     WaitForTxResult, WaitReverted, WaitTimeout, Mine, Restart
<1>3. ~Tick
  BY DEF Tick, TypeOK, Calm
<1> QED
  BY <1>1, <1>2, <1>3 DEF vars, Calm

\* A step that leaves the chain, the tracker and opts alone keeps what a Route
\* that does not move knows.
LEMMA CalmFrame ==
  ASSUME CalmInv, aged' = FALSE,
         UNCHANGED <<entry, current, opts, mined, pool, executed, replaced>>,
         WalletOK',
         \A x \in Routes : pc'[x] = pc[x] \/ pc'[x] \in {"idle", "wallet", "restored", "done"}
                           \/ (pc'[x] = "get" /\ entry),
         \A x \in Routes : pc[x] = "send" => pc'[x] = "send"
  PROVE  CalmInv'
<1>1. NoGap'
  BY DEF CalmInv, NoGap, Taken
<1>2. \A n : IsPendingNonce(n)' <=> IsPendingNonce(n)
  BY DEF IsPendingNonce
<1>3. ASSUME NEW x \in Routes PROVE PlaceOK(x)'
  BY <1>2 DEF CalmInv, PlaceOK, IsPendingNonce
<1>4. TrackerOK'
  BY <1>2 DEF CalmInv, TrackerOK, IsPendingNonce
<1> QED
  BY <1>1, <1>3, <1>4 DEF CalmInv

\* As long as all is calm, every step of a Route, the chain and the process
\* keeps the pool free of gaps and the tracker in step with it.
LEMMA CalmStep ==
  ASSUME Admins = {}, TypeInv, StableInv, CalmInv, [Next]_vars, Calm'
  PROVE  CalmInv'
<1> USE DEF tracker, chain, events
<1>f. ~Fails /\ Calm
  BY CalmBefore DEF TypeInv
<1>r. Callers = Routes
  BY DEF Callers
<1>k. /\ mined \in Nat /\ current \in Int
      /\ pool \subseteq [nonce : Nat, by : Routes] /\ pc \in [Routes -> PCs]
      /\ opts \in [Routes -> Int \cup {Shared}]
  BY <1>r DEF TypeInv, TypeOK
<1>m. \A x, y \in Routes : Inside(x) /\ Inside(y) => x = y
  BY DEF StableInv, MutexOK
<1>c. /\ aged = FALSE /\ replaced = {} /\ NoGap /\ WalletOK /\ TrackerOK
      /\ \A c \in Routes : PlaceOK(c)
  BY DEF CalmInv
<1>n. /\ PendingNonceAt \in Nat /\ IsPendingNonce(PendingNonceAt)
      /\ PendingNonceAt - 1 + 1 = PendingNonceAt
  <2>1. PendingNonceAt \in Nat /\ IsPendingNonce(PendingNonceAt)
    BY PendingNonceIsNat DEF TypeInv, TypeOK, PoolOK
  <2> HIDE DEF PendingNonceAt
  <2> QED
    BY <2>1
<1>1. ASSUME NEW c \in Routes, Route(c) PROVE CalmInv'
  <2>1. pc' = [pc EXCEPT ![c] = "wallet"] /\ pc[c] = "idle"
    BY <1>1 DEF Route
  <2>2. WalletOK'
    BY <1>1, <1>c, <1>k, <2>1 DEF Route, WalletOK
  <2> QED
    BY <1>1, <1>c, <1>k, <2>1, <2>2, CalmFrame DEF Route
<1>2. ASSUME NEW c \in Routes, Wallet(c) PROVE CalmInv'
  <2>1. pc[c] = "wallet" /\ pc' = [pc EXCEPT ![c] = IF wallet THEN "get" ELSE "restored"]
        /\ wallet' = TRUE
    BY <1>2, <1>f DEF Wallet
  <2>2. wallet => entry
    BY <1>m, <1>c, <2>1 DEF WalletOK, Inside
  <2>3. WalletOK'
    BY <1>2, <1>k, <2>1, <2>2 DEF Wallet, WalletOK
  <2> QED
    BY <1>2, <1>c, <1>k, <2>1, <2>2, <2>3, CalmFrame DEF Wallet
<1>3. ASSUME NEW c \in Routes, WalletNonce(c) PROVE CalmInv'
  <2>1. /\ current' = PendingNonceAt - 1 /\ aged' = FALSE /\ entry' = TRUE
        /\ pc[c] = "restored" /\ pc' = [pc EXCEPT ![c] = "get"]
        /\ UNCHANGED <<mined, pool, executed, replaced>>
    BY <1>3, <1>f DEF WalletNonce, Set
  <2>2. \A x \in Routes : pc'[x] # "send"
    BY <1>k, <1>m, <2>1 DEF Inside
  <2>3. NoGap' /\ WalletOK'
    BY <1>c, <2>1 DEF NoGap, Taken, WalletOK
  <2>4. TrackerOK'
    BY <1>n, <2>1 DEF TrackerOK, IsPendingNonce
  <2>5. \A x \in Routes : PlaceOK(x)'
    BY <1>c, <1>k, <2>1, <2>2 DEF PlaceOK
  <2> QED
    BY <1>c, <2>1, <2>3, <2>4, <2>5 DEF CalmInv
<1>4. ASSUME NEW c \in Routes, Get(c) PROVE CalmInv'
  <2>1. /\ current' = current + 1 /\ opts' = [opts EXCEPT ![c] = Shared]
        /\ aged' = FALSE /\ entry /\ UNCHANGED <<wallet, entry>>
        /\ pc[c] = "get" /\ pc' = [pc EXCEPT ![c] = "send"]
        /\ UNCHANGED <<mined, pool, executed, replaced>>
    BY <1>4, <1>c DEF Get
  <2>2. IsPendingNonce(current + 1)
    BY <1>c, <1>m, <2>1 DEF TrackerOK, Inside
  <2>3. IsPendingNonce(current)'
    BY <2>1, <2>2 DEF IsPendingNonce
  <2>4. NoGap' /\ WalletOK'
    BY <1>c, <2>1 DEF NoGap, Taken, WalletOK
  <2>5. TrackerOK'
    BY <1>k, <2>1 DEF TrackerOK
  <2>6. \A x \in Routes : PlaceOK(x)'
    <3> SUFFICES ASSUME NEW x \in Routes PROVE PlaceOK(x)'
      OBVIOUS
    <3>1. CASE x = c
      BY <1>k, <2>1, <2>3, <3>1 DEF PlaceOK
    <3>2. CASE x # c
      BY <1>c, <1>k, <1>m, <2>1, <3>2 DEF PlaceOK, Inside
    <3> QED
      BY <3>1, <3>2
  <2> QED
    BY <1>c, <2>1, <2>4, <2>5, <2>6 DEF CalmInv
<1>5. ASSUME NEW c \in Routes PROVE ~GetPanics(c) /\ ~GasTipPanics(c) /\ ~SendTransactionFails(c) /\ ~SetNonce(c)
  BY <1>c, <1>f DEF GetPanics, GasTipPanics, SendTransactionFails, SetNonce, PlaceOK
<1>u. \A n : n \in Int /\ IsPendingNonce(n) => n >= mined /\ Taken(n) = {} /\ Uint64(n) = n
  BY <1>k DEF IsPendingNonce, Taken, Uint64
<1>6. ASSUME NEW c \in Routes, SendTransaction(c) PROVE CalmInv'
  <2>1. pc[c] = "send" /\ entry /\ Nonce(c) = current /\ IsPendingNonce(current)
    BY <1>6, <1>c DEF SendTransaction, PlaceOK, Nonce
  <2>2. current >= mined /\ Taken(current) = {} /\ Uint64(Nonce(c)) = current
    BY <1>k, <1>u, <2>1
  <2>3. /\ pool' = pool \cup {[nonce |-> current, by |-> c]}
        /\ replaced' = {} /\ aged' = FALSE
        /\ pc' = [pc EXCEPT ![c] = "waiting"]
        /\ UNCHANGED <<wallet, entry, current, opts, mined, executed>>
    BY <1>6, <1>c, <2>2 DEF SendTransaction
  <2>4. \A x \in Routes : pc'[x] # "send"
    BY <1>k, <1>m, <2>1, <2>3 DEF Inside
  <2>5. \A k : Taken(k) # {} => Taken(k)' # {}
    BY <2>3 DEF Taken
  <2>6. \A k \in mined .. current : Taken(k)' # {}
    <3>1. \A k \in mined .. current - 1 : Taken(k) # {}
      BY <2>1 DEF IsPendingNonce, Taken
    <3>2. [nonce |-> current, by |-> c] \in {t \in pool' : t.nonce = current}
      BY <2>3
    <3>3. \A k \in mined .. current : k \in mined .. current - 1 \/ k = current
      BY <1>k
    <3>4. ASSUME NEW k \in mined .. current, k = current PROVE Taken(k)' # {}
      BY <3>2, <3>4 DEF Taken
    <3> QED
      BY <2>5, <3>1, <3>3, <3>4
  <2>7. NoGap'
    <3> SUFFICES ASSUME NEW t \in pool'
                 PROVE  t.nonce >= mined /\ \A k \in mined .. t.nonce : Taken(k)' # {}
      BY <2>3 DEF NoGap
    <3>1. CASE t \in pool
      BY <1>c, <2>5, <3>1 DEF NoGap
    <3>2. CASE t = [nonce |-> current, by |-> c]
      BY <2>2, <2>6, <3>2
    <3> QED
      BY <2>3, <3>1, <3>2
  <2>8. \A t \in pool : t.nonce < current
    BY <1>c, <1>k, <2>2 DEF NoGap
  <2>9. TrackerOK'
    <3>1. \A t \in pool' : t.nonce # current + 1
      BY <1>k, <2>3, <2>8
    <3>2. \A k \in mined .. (current + 1) - 1 : \E t \in pool' : t.nonce = k
      BY <1>k, <2>6 DEF Taken
    <3> QED
      BY <1>k, <2>2, <2>3, <3>1, <3>2 DEF TrackerOK, IsPendingNonce
  <2>10. \A x \in Routes : PlaceOK(x)'
    <3> SUFFICES ASSUME NEW x \in Routes PROVE PlaceOK(x)'
      OBVIOUS
    <3>1. CASE x = c
      <4>1. \E t \in pool' : t.by = c
        <5>1. [nonce |-> current, by |-> c] \in pool'
          BY <2>3
        <5>2. [nonce |-> current, by |-> c].by = c
          OBVIOUS
        <5> QED
          BY <5>1, <5>2
      <4> QED
        BY <1>k, <2>3, <3>1, <4>1 DEF PlaceOK
    <3>2. CASE x # c
      <4>1. pc'[x] = pc[x] /\ PlaceOK(x)
        BY <1>c, <1>k, <2>3, <3>2
      <4>2. pool \subseteq pool'
        BY <2>3
      <4> QED
        BY <2>3, <2>4, <4>1, <4>2 DEF PlaceOK
    <3> QED
      BY <3>1, <3>2
  <2>11. WalletOK'
    BY <2>1, <2>3 DEF WalletOK
  <2> QED
    BY <2>3, <2>7, <2>9, <2>10, <2>11 DEF CalmInv
<1>7. ASSUME NEW c \in Routes PROVE ~SendTransactionRejected(c)
  <2> SUFFICES ASSUME SendTransactionRejected(c) PROVE FALSE
    OBVIOUS
  <2>1. pc[c] = "send" /\ Nonce(c) = current /\ IsPendingNonce(current)
    BY <1>c DEF SendTransactionRejected, PlaceOK, Nonce
  <2>2. current >= mined /\ Taken(current) = {} /\ Uint64(Nonce(c)) = current
    BY <1>k, <1>u, <2>1
  <2> QED
    BY <1>f, <1>k, <2>2 DEF SendTransactionRejected
<1>8. ASSUME NEW c \in Routes, WaitForTxResult(c) PROVE CalmInv'
  <2>1. pc' = [pc EXCEPT ![c] = "done"] /\ pc[c] = "waiting"
    BY <1>8 DEF WaitForTxResult
  <2>2. WalletOK'
    BY <1>8, <1>c, <1>k, <2>1 DEF WaitForTxResult, WalletOK
  <2> QED
    BY <1>8, <1>c, <1>k, <2>1, <2>2, CalmFrame DEF WaitForTxResult
<1>9. ASSUME NEW c \in Routes, WaitReverted(c) PROVE CalmInv'
  <2>1. pc' = [pc EXCEPT ![c] = "idle"] /\ pc[c] = "waiting"
    BY <1>9 DEF WaitReverted, Leave
  <2>2. WalletOK'
    BY <1>9, <1>c, <1>k, <2>1 DEF WaitReverted, WalletOK
  <2> QED
    BY <1>9, <1>c, <1>k, <2>1, <2>2, CalmFrame DEF WaitReverted
<1>10. ASSUME NEW c \in Routes PROVE ~WaitTimeout(c)
  <2> SUFFICES ASSUME WaitTimeout(c) PROVE FALSE
    OBVIOUS
  <2>1. pc[c] = "waiting" /\ c \notin executed /\ ~Executable(c)
    BY <1>f DEF WaitTimeout
  <2>2. PICK t \in pool : t.by = c
    BY <1>c, <2>1 DEF PlaceOK
  <2> QED
    BY <1>c, <2>1, <2>2 DEF NoGap, Executable
<1>11. CASE Mine
  <2>1. /\ Taken(mined) # {} /\ mined' = mined + 1 /\ pool' = pool \ Taken(mined)
        /\ executed' = executed \cup {t.by : t \in Taken(mined)}
        /\ aged' = FALSE /\ replaced' = {}
        /\ UNCHANGED <<wallet, entry, current, pc, opts>>
    BY <1>11, <1>c, <1>f DEF Mine
  <2>2. \A k \in Int : k # mined => Taken(k)' = Taken(k)
    BY <2>1 DEF Taken
  <2>3. NoGap'
    <3> SUFFICES ASSUME NEW t \in pool'
                 PROVE  t.nonce >= mined + 1 /\ \A k \in mined + 1 .. t.nonce : Taken(k)' # {}
      BY <2>1 DEF NoGap
    <3>1. t \in pool /\ t.nonce # mined /\ t.nonce \in Nat
      BY <1>k, <2>1 DEF Taken
    <3> QED
      BY <1>c, <1>k, <2>2, <3>1 DEF NoGap
  <2>4. \A n \in Int : IsPendingNonce(n) => IsPendingNonce(n)'
    <3> SUFFICES ASSUME NEW n \in Int, IsPendingNonce(n) PROVE IsPendingNonce(n)'
      OBVIOUS
    <3>1. n # mined /\ n >= mined
      BY <2>1 DEF IsPendingNonce, Taken
    <3>2. \A k \in mined + 1 .. n - 1 : \E t \in pool' : t.nonce = k
      BY <1>k, <2>1 DEF IsPendingNonce, Taken
    <3> QED
      BY <1>k, <2>1, <3>1, <3>2 DEF IsPendingNonce
  <2>5. \A x \in Routes : PlaceOK(x)'
    <3> SUFFICES ASSUME NEW x \in Routes PROVE PlaceOK(x)'
      OBVIOUS
    <3>1. PlaceOK(x)
      BY <1>c
    <3>2. pc[x] = "waiting" => x \in executed' \/ \E t \in pool' : t.by = x
      BY <2>1, <3>1 DEF PlaceOK
    <3> QED
      BY <1>k, <2>1, <2>4, <3>1, <3>2 DEF PlaceOK
  <2>6. TrackerOK' /\ WalletOK'
    BY <1>c, <1>k, <2>1, <2>4 DEF TrackerOK, WalletOK
  <2> QED
    BY <2>1, <2>3, <2>5, <2>6 DEF CalmInv
<1>12. CASE Restart
  <2>1. /\ wallet' = FALSE /\ entry' = FALSE /\ aged' = FALSE
        /\ UNCHANGED <<mined, pool, executed, replaced>>
    BY <1>12 DEF Restart, ProcessDies
  <2>2. \A x \in Routes : pc'[x] = "idle"
    BY <1>12, <1>r DEF Restart, ProcessDies
  <2> QED
    BY <1>c, <2>1, <2>2 DEF CalmInv, NoGap, Taken, WalletOK, TrackerOK, PlaceOK
<1>13. CASE UNCHANGED vars
  BY <1>c, <1>13, CalmFrame DEF vars, WalletOK
<1>14. ~Tick
  BY <1>f DEF Tick, Calm
<1>15. \A c \in Callers : ~Admin(c)
  BY DEF Admin
<1> QED
  BY <1>1, <1>2, <1>3, <1>4, <1>5, <1>6, <1>7, <1>8, <1>9, <1>10, <1>11, <1>12, <1>13,
     <1>14, <1>15, <1>r DEF Next, Step

\* The lock of Route prevents replacement (route.go:26) for any number of
\* messages and crashes, as long as no call has failed, the tracker has never
\* grown old and nobody sends admin transactions.
THEOREM LockPrevents == Spec => []LockPreventsReplacement
<1>1. CASE Admins # {}
  <2>1. LockPreventsReplacement
    BY <1>1 DEF LockPreventsReplacement
  <2> QED
    BY <2>1, PTL
<1>2. CASE Admins = {}
  <2> DEFINE Inv == TypeInv /\ StableInv /\ (Calm => CalmInv)
  <2>1. Init => Inv
    BY <1>2, EvmTypeInit, StableInit, CalmInit
  <2>2. Inv /\ [Next]_vars => Inv'
    <3> SUFFICES ASSUME Inv, [Next]_vars PROVE Inv'
      OBVIOUS
    <3>1. TypeInv' /\ StableInv'
      BY <1>2, EvmTypeStep, StableStep
    <3>2. Calm' => CalmInv'
      BY <1>2, CalmBefore, CalmStep DEF TypeInv
    <3> QED
      BY <3>1, <3>2
  <2>3. Inv => LockPreventsReplacement
    BY DEF Calm, CalmInv, LockPreventsReplacement, NoReplacement
  <2> QED
    BY <2>1, <2>2, <2>3, PTL DEF Spec
<1> QED
  BY <1>1, <1>2
============================================================================
