------------------------------ MODULE Keystore -----------------------------
(***************************************************************************)
(* The keystore of one chain: NewKeystore, ImportKeystore and              *)
(* RestoreKeystore of the three providers (keys.go), the commands of       *)
(* cmd/keystore.go.  A keystore is two files, the encrypted key and the    *)
(* encrypted password, under the address; the configuration names the      *)
(* address in use.                                                         *)
(***************************************************************************)
EXTENDS Integers

CONSTANTS
    Keys,        \* keys, each standing for its address as well
    Wallet,      \* the address in the configuration
    Passwords,
    NoKey,
    Chains,      \* kinds of chains: a subset of {"evm", "icon", "cosmos"}
    MaxKeyOps,   \* bound: keystore commands
    MaxCuts      \* bound: commands cut short between the two files

ASSUME KeystoreAssumption ==
    /\ Wallet \in Keys /\ NoKey \notin Keys \cup Passwords
    /\ Chains \subseteq {"evm", "icon", "cosmos"}
    /\ MaxKeyOps \in Nat /\ MaxCuts \in Nat
ASSUME WritingAssumption == NoKey \notin [addr : Keys, pw : Passwords]

VARIABLES
    chain,       \* the kind of the chain
    keyFile,     \* by address: the key in the file
    keyPass,     \* by address: the password that decrypts it
    passFile,    \* by address: the password in the .pass file
    writing,     \* what a command has still to write: [addr, pw], or NoKey
    wallet,      \* the address in the configuration file
    signer,      \* the key the relayer signs with
    cut,         \* history: a command was cut short
    keyOps, cuts

keyVars == <<chain, keyFile, keyPass, passFile, writing, wallet, signer, cut, keyOps, cuts>>

KeystoreInit ==
    /\ chain \in Chains
    /\ keyFile = [a \in Keys |-> NoKey]
    /\ keyPass = [a \in Keys |-> NoKey]
    /\ passFile = [a \in Keys |-> NoKey]
    /\ writing = NoKey /\ wallet = Wallet /\ signer = NoKey /\ cut = FALSE
    /\ keyOps = 0 /\ cuts = 0

----------------------------------------------------------------------------
KeyOp == writing = NoKey /\ keyOps < MaxKeyOps /\ keyOps' = keyOps + 1

\* os.WriteFile of the key.
WriteKey(a, k, pw) ==
    /\ keyFile' = [keyFile EXCEPT ![a] = k]
    /\ keyPass' = [keyPass EXCEPT ![a] = pw]
    /\ writing' = [addr |-> a, pw |-> pw]
    /\ UNCHANGED <<chain, passFile, wallet, signer, cut, cuts>>

\* keystore new: the key is a new one.
NewKeystore(k, pw) ==
    /\ KeyOp
    /\ \A a \in Keys : keyFile[a] # k
    /\ WriteKey(k, k, pw)

\* Mutants: the key goes to the address in use, or to the address of nothing.
keystorePathInUse(k) == wallet
keystorePathEmpty(k) == NoKey

\* Where ImportKeystore writes: p.keystorePath(p.cfg.Address) on an EVM chain.
keystorePath(k) == IF chain = "evm" THEN wallet ELSE k

\* keystore import.
ImportKeystore(k, pw) ==
    /\ KeyOp
    /\ WriteKey(keystorePath(k), k, pw)

\* Mutant: the passwords of existing keystores stay.
WritePassOnce ==
    /\ writing # NoKey
    /\ passFile' = [passFile EXCEPT ![writing.addr] = IF @ = NoKey THEN writing.pw ELSE @]
    /\ writing' = NoKey
    /\ UNCHANGED <<chain, keyFile, keyPass, wallet, signer, cut, keyOps, cuts>>

\* os.WriteFile of the password.
WritePass ==
    /\ writing # NoKey
    /\ passFile' = [passFile EXCEPT ![writing.addr] = writing.pw]
    /\ writing' = NoKey
    /\ UNCHANGED <<chain, keyFile, keyPass, wallet, signer, cut, keyOps, cuts>>

\* The process is killed, or KMS does not encrypt the password.
CutShort ==
    /\ writing # NoKey
    /\ cuts < MaxCuts /\ cuts' = cuts + 1
    /\ writing' = NoKey /\ cut' = TRUE
    /\ UNCHANGED <<chain, keyFile, keyPass, passFile, wallet, signer, keyOps>>

\* keystore use: both files are there, and the address is not in use.  The
\* configuration is saved to a.homePath, which is a directory: the command
\* ends with that error before SetAdmin.
Use(a) ==
    /\ KeyOp
    /\ keyFile[a] # NoKey /\ passFile[a] # NoKey /\ wallet # a
    /\ UNCHANGED <<chain, keyFile, keyPass, passFile, writing, wallet, signer, cut, cuts>>

\* RestoreKeystore, at the relayer's first transaction.
RestoreKeystore ==
    /\ keyFile[wallet] # NoKey
    /\ keyPass[wallet] = passFile[wallet]
    /\ signer' = keyFile[wallet]
    /\ UNCHANGED <<chain, keyFile, keyPass, passFile, writing, wallet, cut, keyOps, cuts>>

\* The relayer is stopped.
Forgotten ==
    /\ signer # NoKey
    /\ signer' = NoKey
    /\ UNCHANGED <<chain, keyFile, keyPass, passFile, writing, wallet, cut, keyOps, cuts>>

KeystoreNext ==
    \/ \E k \in Keys, pw \in Passwords : NewKeystore(k, pw) \/ ImportKeystore(k, pw)
    \/ WritePass \/ CutShort
    \/ \E a \in Keys : Use(a)
    \/ RestoreKeystore \/ Forgotten

----------------------------------------------------------------------------
KeystoreTypeOK ==
    /\ chain \in Chains
    /\ keyFile \in [Keys -> Keys \cup {NoKey}]
    /\ keyPass \in [Keys -> Passwords \cup {NoKey}]
    /\ passFile \in [Keys -> Passwords \cup {NoKey}]
    /\ writing \in [addr : Keys, pw : Passwords] \cup {NoKey}
    /\ wallet \in Keys /\ signer \in Keys \cup {NoKey}
    /\ cut \in BOOLEAN /\ keyOps \in Nat /\ cuts \in Nat

\* docs/config.md, address: "The keystore/wallet for the chain currently being
\* used".  The relayer signs with the key of that address, whatever was created
\* or imported, except on EVM chains, where an import replaces that key.
SignsAsConfigured == chain # "evm" => signer \in {NoKey, wallet}

\* Why: only the keystore being written has another password than its key.
PassOK ==
    ~cut => \A a \in Keys :
        keyFile[a] # NoKey =>
            keyPass[a] = IF writing # NoKey /\ writing.addr = a THEN writing.pw ELSE passFile[a]

\* A keystore can be restored: its password is the one of its key, also after
\* the same key is imported again under another one, unless a command was cut
\* short between the two files.
Restorable ==
    writing = NoKey /\ ~cut => \A a \in Keys : keyFile[a] # NoKey => passFile[a] = keyPass[a]
============================================================================
