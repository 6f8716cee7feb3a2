------------------------------ MODULE Console ------------------------------
(***************************************************************************)
(* The relayer and the operator's commands as processes (cmd/start.go,     *)
(* cmd/db.go, cmd/contracts.go, relayer/socket).  A command talks to the   *)
(* relayer over a Unix socket; if nobody answers, it opens the database    *)
(* and serves itself.  LevelDB lets one process in at a time, and          *)
(* net.Listen refuses a path that exists.                                  *)
(***************************************************************************)
EXTENDS Integers

CONSTANTS
    Procs,      \* process identifiers, used again after an exit
    NoProc,
    MaxRuns,    \* bound: processes started
    MaxKills    \* bound: processes killed

ASSUME ConsoleAssumption == NoProc \notin Procs /\ MaxRuns \in Nat /\ MaxKills \in Nat

VARIABLES
    cmd,        \* what each process runs
    pc,         \* where it is
    db,         \* the process that has the database open
    listener,   \* the process that listens on the socket
    path,       \* SocketPath exists
    conn,       \* the server a command is connected to
    answer,     \* the answer on its way to a command
    untidy,     \* history: some process ended without closing its socket
    runs, kills

consoleVars == <<cmd, pc, db, listener, path, conn, answer, untidy, runs, kills>>

Cmds == {"start", "db", "relay", "fee"}
PCs == {"off", "dial", "open", "listen", "redial", "send", "read", "close", "running"}
Answers == {"none", "asked", "result", "error"}

Goto(p, l) == pc' = [pc EXCEPT ![p] = l]
Client(p) == cmd[p] # "start"

\* The kernel closes what the process had open; connections to it break.
Exits(p) ==
    /\ Goto(p, "off")
    /\ cmd' = [cmd EXCEPT ![p] = "start"]
    /\ db' = IF db = p THEN NoProc ELSE db
    /\ listener' = IF listener = p THEN NoProc ELSE listener
    /\ conn' = [q \in Procs |-> IF q = p \/ conn[q] = p THEN NoProc ELSE conn[q]]
    /\ answer' = [answer EXCEPT ![p] = "none"]

\* An exit that leaves the socket as it is.
Ends(p) ==
    /\ Exits(p)
    /\ untidy' = (untidy \/ listener = p)
    /\ UNCHANGED <<path, runs>>

ConsoleInit ==
    /\ cmd = [p \in Procs |-> "start"]
    /\ pc = [p \in Procs |-> "off"]
    /\ db = NoProc /\ listener = NoProc /\ path = FALSE
    /\ conn = [p \in Procs |-> NoProc]
    /\ answer = [p \in Procs |-> "none"]
    /\ untidy = FALSE
    /\ runs = 0 /\ kills = 0

----------------------------------------------------------------------------
\* Execute: RunE of the command.
Execute(p, k) ==
    /\ pc[p] = "off"
    /\ runs < MaxRuns /\ runs' = runs + 1
    /\ cmd' = [cmd EXCEPT ![p] = k]
    /\ Goto(p, IF k = "start" THEN "open" ELSE "dial")
    /\ UNCHANGED <<db, listener, path, conn, answer, untidy, kills>>

\* getSocket: NewClient.
NewClient(p) ==
    /\ pc[p] = "dial"
    /\ \/ /\ listener # NoProc
          /\ conn' = [conn EXCEPT ![p] = listener]
          /\ Goto(p, "send")
       \/ listener = NoProc /\ Goto(p, "open") /\ UNCHANGED conn
    /\ UNCHANGED <<cmd, db, listener, path, answer, untidy, runs, kills>>

\* Mutant: the database is opened later.
NewLvlDBLater(p) ==
    /\ pc[p] = "open"
    /\ Goto(p, "listen")
    /\ UNCHANGED <<cmd, db, listener, path, conn, answer, untidy, runs, kills>>

\* NewLvlDB and NewRelayer, of start and of getRelayer.
NewLvlDB(p) ==
    /\ pc[p] = "open"
    /\ \/ db = NoProc /\ db' = p /\ Goto(p, "listen")
          /\ UNCHANGED <<cmd, listener, path, conn, answer, untidy, runs>>
       \/ db # NoProc /\ Ends(p)
    /\ UNCHANGED kills

\* NewSocket; start goes on to serve, a command to dial its own socket.
NewSocket(p) ==
    /\ pc[p] = "listen"
    /\ \/ /\ ~path
          /\ path' = TRUE /\ listener' = p
          /\ Goto(p, IF Client(p) THEN "redial" ELSE "running")
          /\ UNCHANGED <<cmd, db, conn, answer, untidy, runs>>
       \/ path /\ Ends(p)
    /\ UNCHANGED kills

NewClientAgain(p) ==
    /\ pc[p] = "redial"
    /\ conn' = [conn EXCEPT ![p] = listener]
    /\ Goto(p, "send")
    /\ UNCHANGED <<cmd, db, listener, path, answer, untidy, runs, kills>>

\* Client.send.
Send(p) ==
    /\ pc[p] = "send"
    /\ \/ /\ conn[p] # NoProc
          /\ answer' = [answer EXCEPT ![p] = "asked"]
          /\ Goto(p, "read")
          /\ UNCHANGED <<cmd, db, listener, path, conn, untidy, runs>>
       \/ conn[p] = NoProc /\ Ends(p)
    /\ UNCHANGED kills

\* The server's goroutine for p: parseEvent carries the request out, in the
\* process that serves it, and answers; an error may come after the work.
Serve(p) ==
    /\ answer[p] = "asked" /\ conn[p] # NoProc
    /\ \E a \in {"result", "error"} : answer' = [answer EXCEPT ![p] = a]
    /\ UNCHANGED <<cmd, pc, db, listener, path, conn, untidy, runs, kills>>

\* A relay command for a height without messages: msgs[0] of an empty slice.
ServePanics(p) ==
    /\ answer[p] = "asked" /\ conn[p] # NoProc /\ cmd[p] = "relay"
    /\ Ends(conn[p])
    /\ UNCHANGED kills

\* Mutant: a connection that breaks is waited on.
ReadOn(p) ==
    /\ pc[p] = "read" /\ answer[p] # "asked"
    /\ Ends(p)
    /\ UNCHANGED kills

\* Client.read.  Only after a result does the command run PostRunE, and only
\* the database commands have one.
Read(p) ==
    /\ pc[p] = "read"
    /\ \/ /\ answer[p] = "result" /\ cmd[p] # "fee"
          /\ Goto(p, "close")
          /\ UNCHANGED <<cmd, db, listener, path, conn, answer, untidy, runs>>
       \/ answer[p] = "result" /\ cmd[p] = "fee" /\ Ends(p)
       \/ answer[p] = "error" /\ Ends(p)
       \/ answer[p] = "asked" /\ conn[p] = NoProc /\ Ends(p)
    /\ UNCHANGED kills

\* Mutant: the command does not close the socket it opened.
CloseSocketNot(p) ==
    /\ pc[p] = "close"
    /\ Exits(p)
    /\ UNCHANGED <<path, untidy, runs, kills>>

\* PostRunE: closeSocket closes the listener, which removes the path.
CloseSocket(p) ==
    /\ pc[p] = "close"
    /\ Exits(p)
    /\ path' = (path /\ listener # p)
    /\ UNCHANGED <<untidy, runs, kills>>

\* An interrupt, or an error of the relayer: start closes its listener.
Stop(p) ==
    /\ pc[p] = "running" /\ ~Client(p)
    /\ Exits(p)
    /\ path' = (path /\ listener # p)
    /\ UNCHANGED <<untidy, runs, kills>>

\* A signal that is not handled, a second interrupt, a panic.
Kill(p) ==
    /\ pc[p] # "off"
    /\ kills < MaxKills /\ kills' = kills + 1
    /\ Ends(p)

ConsoleStep(p) ==
    \/ NewClient(p) \/ NewLvlDB(p) \/ NewSocket(p) \/ NewClientAgain(p)
    \/ Send(p) \/ Serve(p) \/ ServePanics(p) \/ Read(p) \/ CloseSocket(p)

ConsoleNext ==
    \E p \in Procs :
        \/ \E k \in Cmds : Execute(p, k)
        \/ ConsoleStep(p) \/ Stop(p) \/ Kill(p)

----------------------------------------------------------------------------
ConsoleTypeOK ==
    /\ cmd \in [Procs -> Cmds] /\ pc \in [Procs -> PCs]
    /\ db \in Procs \cup {NoProc} /\ listener \in Procs \cup {NoProc} /\ path \in BOOLEAN
    /\ conn \in [Procs -> Procs \cup {NoProc}] /\ answer \in [Procs -> Answers]
    /\ untidy \in BOOLEAN
    /\ runs \in Nat /\ kills \in Nat

\* Whoever answers commands has the database: no command is carried out on a
\* database another process has open, or on none.
ServedByOwner ==
    /\ listener # NoProc => db = listener /\ path
    /\ \A p \in Procs : conn[p] # NoProc => conn[p] = db

\* Why: the database comes before the socket, and the socket before its use.
OpenedFirst ==
    \A p \in Procs :
        /\ pc[p] \in {"listen", "redial", "running"} => db = p
        /\ pc[p] = "redial" => listener = p

\* A socket nobody listens on, which keeps every later command without a
\* relayer and every relayer from starting, is left behind only by a process
\* that was killed, a command that failed while serving itself, or a fee
\* command that served itself.
SocketRemoved == path /\ listener = NoProc => untidy
============================================================================
