-------------------------------- MODULE Cli --------------------------------
(***************************************************************************)
(* The command line: three parts of one home directory that commands work  *)
(* on and that have no file in common: the database with its socket, the   *)
(* configuration and a keystore.  A behaviour looks at one of them.        *)
(***************************************************************************)
EXTENDS Console, ConfigFile, Keystore

CONSTANT Parts      \* a subset of {"console", "config", "keystore"}

ASSUME PartsAssumption == Parts \subseteq {"console", "config", "keystore"}

VARIABLE part

vars == <<consoleVars, configVars, keyVars, part>>

Init ==
    /\ ConsoleInit /\ ConfigInit /\ KeystoreInit
    /\ part \in Parts
    /\ part # "config" => ~exists
    /\ part # "keystore" => chain = CHOOSE c \in Chains : TRUE

ConsolePart(A) == part = "console" /\ A /\ UNCHANGED <<configVars, keyVars, part>>
ConfigPart(A) == part = "config" /\ A /\ UNCHANGED <<consoleVars, keyVars, part>>
KeystorePart(A) == part = "keystore" /\ A /\ UNCHANGED <<consoleVars, configVars, part>>

Next == ConsolePart(ConsoleNext) \/ ConfigPart(ConfigNext) \/ KeystorePart(KeystoreNext)

Spec == Init /\ [][Next]_vars

\* Processes that run keep running.
FairSpec == Spec /\ \A p \in Procs : WF_vars(ConsolePart(ConsoleStep(p)))

----------------------------------------------------------------------------

\* Every variable keeps its type.
TypeOK == ConsoleTypeOK /\ ConfigTypeOK /\ KeystoreTypeOK /\ part \in Parts

\* Every command ends, with or without a relayer, even if the process that
\* serves it dies before it answers.
CommandsEnd == \A p \in Procs : pc[p] # "off" /\ Client(p) ~> pc[p] = "off"
============================================================================
