----------------------------- MODULE ConfigFile ----------------------------
(***************************************************************************)
(* The configuration file (cmd/appstate.go, cmd/config.go, cmd/chains.go,  *)
(* keystore init of cmd/keystore.go).  Every command reads the file when   *)
(* it starts; chains add and chains delete read it again behind a file     *)
(* lock whose TryLock nobody waits for, change it, and write it back;      *)
(* keystore init writes back what it read at the start.                    *)
(***************************************************************************)
EXTENDS Integers

CONSTANTS
    Editors,     \* processes that edit the file
    NoEditor,
    ChainCfgs,   \* chains that may be configured: [name, nid, on]
    Written,     \* what the operator has written into the file by hand
    MaxEdits,    \* bound: edits
    MaxBreaks    \* bound: processes that are killed or fail while editing

ASSUME ConfigAssumption ==
    /\ NoEditor \notin Editors
    /\ ChainCfgs # {} /\ Written \subseteq ChainCfgs
    /\ MaxEdits \in Nat /\ MaxBreaks \in Nat

VARIABLES
    exists,      \* the file exists
    chains,      \* its chains
    global,      \* its global section: missing, without or with a KMS key
    epc,         \* where each editor is
    edit,        \* what it does: [op, chain]
    cfg,         \* its a.config: [chains, global]
    flock,       \* the holder of config.lock
    reported,    \* history: chains whose adding was reported, not deleted since
    keyed,       \* history: a KMS key was reported
    overlapped,  \* history: two edits overlapped
    torn,        \* history: a write was cut short
    edits, breaks

configVars == <<exists, chains, global, epc, edit, cfg, flock, reported, keyed, overlapped,
                torn, edits, breaks>>
history == <<reported, keyed, overlapped, torn>>

Ops == {"add", "delete", "kms"}
EditPCs == {"off", "ready", "loaded", "changed", "truncated"}
Globals == {"missing", "nokey", "key"}

At(e, l) == epc' = [epc EXCEPT ![e] = l]

\* A map holds one entry per key, and of two with the same key the one that
\* happened to come last.
OnePerKey(S, key) ==
    {T \in SUBSET S : /\ \A c \in S : \E d \in T : d[key] = c[key]
                      /\ \A c, d \in T : c[key] = d[key] => c = d}

\* RuntimeConfig: providers are built for enabled chains only, by NID.
RuntimeConfig(S) == OnePerKey({c \in S : c.on}, "nid")

\* Wrapped: what is written, by name.
Wrapped(S) == OnePerKey(S, "name")

\* RuntimeConfig takes the address of Global.KMSKeyID for each chain.
Loadable == (\E c \in chains : c.on) => global # "missing"

\* loadConfigFile.
Load(e) ==
    \E S \in RuntimeConfig(chains) : cfg' = [cfg EXCEPT ![e] = [chains |-> S, global |-> global]]

\* What an editor that does not run has.
Idle == [edit |-> [op |-> "kms", chain |-> CHOOSE c \in ChainCfgs : TRUE],
         cfg |-> [chains |-> {}, global |-> "missing"]]

\* The process ends; the kernel drops its lock.
Quits(e) ==
    /\ At(e, "off")
    /\ edit' = [edit EXCEPT ![e] = Idle.edit]
    /\ cfg' = [cfg EXCEPT ![e] = Idle.cfg]
    /\ flock' = IF flock = e THEN NoEditor ELSE flock

ConfigInit ==
    /\ exists \in BOOLEAN
    /\ chains = (IF exists THEN Written ELSE {})
    /\ global = (IF exists THEN "nokey" ELSE "missing")
    /\ epc = [e \in Editors |-> "off"]
    /\ edit = [e \in Editors |-> Idle.edit]
    /\ cfg = [e \in Editors |-> Idle.cfg]
    /\ flock = NoEditor
    /\ reported = {} /\ keyed = FALSE /\ overlapped = FALSE /\ torn = FALSE
    /\ edits = 0 /\ breaks = 0

----------------------------------------------------------------------------
\* config init writes the default configuration if there is no file.
configInit ==
    /\ ~exists
    /\ exists' = TRUE /\ chains' = {} /\ global' = "nokey"
    /\ UNCHANGED <<epc, edit, cfg, flock, history, edits, breaks>>

\* PersistentPreRunE reads the file; chains add wants one, and the others
\* have no a.config without it.
Begin(e, op, c) ==
    /\ epc[e] = "off" /\ exists /\ Loadable
    /\ edits < MaxEdits /\ edits' = edits + 1
    /\ edit' = [edit EXCEPT ![e] = [op |-> op, chain |-> c]]
    /\ Load(e)
    /\ At(e, "ready")
    /\ overlapped' = (overlapped \/ \E f \in Editors \ {e} : epc[f] # "off")
    /\ UNCHANGED <<exists, chains, global, flock, reported, keyed, torn, breaks>>

\* performConfigLockingOperation: TryLock returns whether it got the lock, and
\* nobody looks.  The file is read again.
TryLock(e) ==
    /\ epc[e] = "ready" /\ edit[e].op # "kms"
    /\ Loadable
    /\ flock' = IF flock = NoEditor THEN e ELSE flock
    /\ Load(e)
    /\ At(e, "loaded")
    /\ UNCHANGED <<exists, chains, global, edit, history, edits, breaks>>

\* keystore init: kms.Init refuses a second key.
KmsInit(e) ==
    /\ epc[e] = "ready" /\ edit[e].op = "kms"
    /\ IF cfg[e].chains # {} /\ cfg[e].global = "nokey"
       THEN At(e, "changed") /\ cfg' = [cfg EXCEPT ![e].global = "key"] /\ UNCHANGED <<edit, flock>>
       ELSE Quits(e)
    /\ UNCHANGED <<exists, chains, global, history, edits, breaks>>

\* Mutant: the new chain takes the place of the others.
AddChainAlone(e) ==
    /\ epc[e] = "loaded" /\ edit[e].op = "add"
    /\ At(e, "changed")
    /\ cfg' = [cfg EXCEPT ![e].chains = {edit[e].chain}]
    /\ UNCHANGED <<exists, chains, global, edit, flock, history, edits, breaks>>

\* addChainFromFile and AddChain.
AddChain(e) ==
    /\ epc[e] = "loaded" /\ edit[e].op = "add"
    /\ IF \A d \in cfg[e].chains : d.nid # edit[e].chain.nid
       THEN /\ At(e, "changed") /\ UNCHANGED <<edit, flock>>
            /\ cfg' = [cfg EXCEPT ![e].chains = @ \cup {edit[e].chain}]
       ELSE Quits(e)
    /\ UNCHANGED <<exists, chains, global, history, edits, breaks>>

\* chainsDeleteCmd and DeleteChain.
DeleteChain(e) ==
    /\ epc[e] = "loaded" /\ edit[e].op = "delete"
    /\ IF \E d \in cfg[e].chains : d.nid = edit[e].chain.nid
       THEN /\ At(e, "changed") /\ UNCHANGED <<edit, flock>>
            /\ cfg' = [cfg EXCEPT ![e].chains = {d \in @ : d.nid # edit[e].chain.nid}]
       ELSE Quits(e)
    /\ UNCHANGED <<exists, chains, global, history, edits, breaks>>

\* os.WriteFile empties the file and then writes it.
Truncate(e) ==
    /\ epc[e] = "changed"
    /\ chains' = {} /\ global' = "missing"
    /\ At(e, "truncated")
    /\ UNCHANGED <<exists, edit, cfg, flock, history, edits, breaks>>

WriteFile(e) ==
    /\ epc[e] = "truncated"
    /\ chains' \in Wrapped(cfg[e].chains)
    /\ global' = cfg[e].global
    /\ Quits(e)
    /\ reported' = CASE edit[e].op = "add" -> reported \cup {edit[e].chain}
                     [] edit[e].op = "delete" -> {c \in reported : c.nid # edit[e].chain.nid}
                     [] OTHER -> reported
    /\ keyed' = (keyed \/ edit[e].op = "kms")
    /\ UNCHANGED <<exists, overlapped, torn, edits, breaks>>

\* The process is killed, a call fails, or RuntimeConfig dereferences nil.
Break(e) ==
    /\ epc[e] # "off"
    /\ \/ breaks < MaxBreaks /\ breaks' = breaks + 1
       \/ epc[e] = "ready" /\ ~Loadable /\ UNCHANGED breaks
    /\ torn' = (torn \/ epc[e] = "truncated")
    /\ Quits(e)
    /\ UNCHANGED <<exists, chains, global, reported, keyed, overlapped, edits>>

ConfigNext ==
    \/ configInit
    \/ \E e \in Editors :
        \/ \E op \in Ops, c \in ChainCfgs : Begin(e, op, c)
        \/ TryLock(e) \/ KmsInit(e) \/ AddChain(e) \/ DeleteChain(e)
        \/ Truncate(e) \/ WriteFile(e) \/ Break(e)

----------------------------------------------------------------------------
ConfigTypeOK ==
    /\ exists \in BOOLEAN /\ chains \subseteq ChainCfgs /\ global \in Globals
    /\ epc \in [Editors -> EditPCs]
    /\ edit \in [Editors -> [op : Ops, chain : ChainCfgs]]
    /\ cfg \in [Editors -> [chains : SUBSET ChainCfgs, global : Globals]]
    /\ flock \in Editors \cup {NoEditor}
    /\ reported \subseteq ChainCfgs /\ keyed \in BOOLEAN
    /\ overlapped \in BOOLEAN /\ torn \in BOOLEAN
    /\ edits \in Nat /\ breaks \in Nat

\* Nobody has emptied the file and not yet written it.
Settled == \A e \in Editors : epc[e] # "truncated"

\* Every edit that was reported is in the file, but for chains that are
\* disabled, which the next edit drops, or share their name with another one,
\* of which one is written.
Kept ==
    /\ \A c \in reported :
        c.on /\ (\A d \in ChainCfgs : d.name = c.name => d = c) => c \in chains
    /\ keyed => global = "key"

\* performConfigLockingOperation, "don't want to miss any changes": no edit
\* undoes an earlier one, whatever happens to processes before they write, as
\* long as edits come one after the other (nobody waits for the lock) and no
\* write is cut short.
EditsKept == Settled /\ ~overlapped /\ ~torn => Kept
============================================================================
