------------------------------ MODULE Messages -----------------------------
(***************************************************************************)
(* What the events of the contracts become: messages in the listeners and  *)
(* in GenerateMessages, and transactions in Route; and what the operator's *)
(* requests become.  One chain of each kind, every one with a connection   *)
(* contract (Message) and an xcall contract (CallMessage and               *)
(* RollbackMessage).                                                       *)
(*                                                                         *)
(* Data is a payload; a text that encodes one is a record [enc, of].       *)
(* Retries, rows and caches are in module Relayer, the order of blocks in  *)
(* module Listeners, nonces and receipts in EvmRoute and Routes.           *)
(***************************************************************************)
EXTENDS Integers, FiniteSets

CONSTANTS
    Evm, Icon, Wasm,   \* network ids
    None,              \* nil, or the empty string
    Payloads,
    Sns,               \* serial numbers, and fees for messages
    ReqIDs,            \* request ids, and fees for responses
    Width,             \* bits of an int64
    Heights,           \* block heights, from 1
    MaxInputs          \* bound: events emitted and requests made

Chains == {Evm, Icon, Wasm}
Sigs == {"Message", "CallMessage", "RollbackMessage"}

ASSUME MessagesAssumption ==
    /\ Evm # Icon /\ Icon # Wasm /\ Wasm # Evm
    /\ None \notin Int /\ None \notin Payloads
    /\ Sns \subseteq Nat /\ ReqIDs \subseteq Nat /\ Heights \subseteq Nat \ {0}
    /\ Width \in Nat \ {0} /\ MaxInputs \in Nat

VARIABLES
    events,     \* what the contracts have emitted
    heard,      \* blocks the listeners have passed on
    msgs,       \* messages that have reached a cache, each with its event
    txs,        \* transactions for them, each with its event and message
    asked,      \* the operator's requests, each with the transaction sent
    up          \* the relayer runs

vars == <<events, heard, msgs, txs, asked, up>>

----------------------------------------------------------------------------
(* Encodings.                                                              *)

Int64(n) == ((n + 2^(Width - 1)) % 2^Width) - 2^(Width - 1)
Fits(n) == n = None \/ Int64(n) = n

HexBytes(b) == [enc |-> "hex", of |-> b]
JsonInts(b) == [enc |-> "json", of |-> b]
Garbled(b) == [enc |-> "garbled", of |-> b]
Value(text) == text.of

\* Contracts and the event types of their events.
eventMap ==
    [connection |-> [Message |-> "emitMessage"],
     xcall |-> [CallMessage |-> "callMessage", RollbackMessage |-> "rollbackMessage"]]

GetEventName(sig) ==
    LET c == CHOOSE c \in DOMAIN eventMap : sig \in DOMAIN eventMap[c]
    IN  eventMap[c][sig]

\* "" for the event types of the operator's requests.
GetAddressByEventType(type) ==
    LET cs == {c \in DOMAIN eventMap : \E sig \in DOMAIN eventMap[c] : eventMap[c][sig] = type}
    IN  IF cs = {} THEN None ELSE CHOOSE c \in cs : TRUE

----------------------------------------------------------------------------
(* Events.  "peer" is the target network of a Message and the network of   *)
(* the caller of a CallMessage; "bad" a field the relayer cannot decode.   *)

Event ==
    UNION {[chain : {c}, height : Heights, sig : {"Message"}, peer : Chains \ {c},
            sn : Sns, req : {None}, data : Payloads, bad : {"no", "number", "data"}]
           \cup
           [chain : {c}, height : Heights, sig : {"CallMessage"}, peer : Chains \ {c},
            sn : Sns, req : ReqIDs, data : Payloads, bad : {"no", "number", "data"}]
           \cup
           [chain : {c}, height : Heights, sig : {"RollbackMessage"}, peer : {None},
            sn : Sns, req : {None}, data : {None}, bad : {"no", "number"}] : c \in Chains}

\* The caller of a CallMessage: a network and an account there.
From(e) == <<e.peer, "account">>
Network(from) == from[1]

\* The data as the chain shows it.
Shown(e) ==
    IF e.chain = Evm \/ e.data = None THEN e.data
    ELSE IF e.bad = "data" THEN Garbled(e.data)
    ELSE IF e.chain = Wasm /\ e.sig = "CallMessage" THEN JsonInts(e.data)
    ELSE HexBytes(e.data)

Block(c, h) == {e \in events : e.chain = c /\ e.height = h}

----------------------------------------------------------------------------
(* From events to messages.                                                *)

Message(e, dst, src, data, height) ==
    [Dst |-> dst, Src |-> src, Sn |-> e.sn, ReqID |-> e.req, Data |-> data,
     EventType |-> GetEventName(e.sig), MessageHeight |-> height]

Error == [err |-> TRUE, found |-> {}]
Found(parsed) ==
    [err |-> FALSE, found |-> {[ev |-> e, msg |-> parsed[e]] : e \in DOMAIN parsed}]

\* Mutant: source and destination the other way round.
getRelayMessageFromLogTurned(e) ==
    Message(e, Evm, IF e.sig = "Message" THEN e.peer ELSE Evm, Shown(e), e.height)

\* EVM: calls and rollbacks are messages from the chain to itself.
getRelayMessageFromLog(e) ==
    Message(e, IF e.sig = "Message" THEN e.peer ELSE Evm, Evm, Shown(e), e.height)

\* One log that does not parse is an error for all.
FindMessages(es) ==
    IF \E e \in es : e.bad # "no" THEN Error ELSE Found([e \in es |-> getRelayMessageFromLog(e)])

EvmGenerateMessages(h) == FindMessages(Block(Evm, h))

parseEmitMessageEvent(e) == Message(e, e.peer, Icon, Value(Shown(e)), e.height)
parseCallMessageEvent(e) == Message(e, Icon, Network(From(e)), Value(Shown(e)), e.height)
parseRollbackMessageEvent(e) == Message(e, Icon, Icon, None, e.height)

parseMessage(e) ==
    CASE e.sig = "Message" -> parseEmitMessageEvent(e)
      [] e.sig = "CallMessage" -> parseCallMessageEvent(e)
      [] e.sig = "RollbackMessage" -> parseRollbackMessageEvent(e)

\* ICON's notifications: one event that does not parse is an error for all.
parseMessageEvent(es) ==
    IF \E e \in es : e.bad # "no" THEN Error ELSE Found([e \in es |-> parseMessage(e)])

\* Mutant: rollbacks are not looked for.
IconGenerateMessagesNoRollback(src, h) ==
    LET es == {e \in Block(Icon, h) : e.bad = "no" /\ e.sig # "RollbackMessage"}
        Parse(e) == IF e.sig = "Message" THEN [parseMessage(e) EXCEPT !.Src = src]
                    ELSE parseMessage(e)
    IN  IF es = {} THEN Error ELSE Found([e \in es |-> Parse(e)])

\* ICON again: here an emitted message that does not parse is skipped, data
\* that does not too, another number is an error for all, and so is nothing.
\* The source of an emitted message is the source of the key.
IconGenerateMessages(src, h) ==
    LET es == {e \in Block(Icon, h) : e.bad = "no"}
        Parse(e) == IF e.sig = "Message" THEN [parseMessage(e) EXCEPT !.Src = src]
                    ELSE parseMessage(e)
    IN  IF es = {} \/ \E e \in Block(Icon, h) : e.sig # "Message" /\ e.bad = "number"
        THEN Error ELSE Found([e \in es |-> Parse(e)])

\* Wasm: a call is from the caller's whole address; data that is no JSON is
\* noticed later.  The height is set by whoever calls.  (A "from" attribute
\* would replace the source of a Message too; the contract's has none.)
ParseMessageFromEvent(e, height) ==
    CASE e.sig = "Message" -> Message(e, e.peer, Wasm, Value(Shown(e)), height)
      [] e.sig = "CallMessage" -> Message(e, Wasm, From(e), Shown(e), height)
      [] e.sig = "RollbackMessage" -> Message(e, Wasm, Wasm, None, height)

ParseMessageFromEvents(es, height) ==
    IF \E e \in es : e.bad = "number" \/ (e.bad = "data" /\ e.sig = "Message")
    THEN Error ELSE Found([e \in es |-> ParseMessageFromEvent(e, height)])

\* One search for each signature; a search that fails is logged and left out.
fetchBlockMessages(h, searches) ==
    ParseMessageFromEvents({e \in Block(Wasm, h) : e.sig \in searches}, h)

\* What the chain c finds at a height for a key with source src.
GenerateMessages(c, src, h, searches) ==
    CASE c = Evm -> EvmGenerateMessages(h)
      [] c = Icon -> IconGenerateMessages(src, h)
      [] c = Wasm -> fetchBlockMessages(h, searches)

----------------------------------------------------------------------------
(* From messages to transactions.                                          *)

Call(chain, contract, method, args) ==
    [chain |-> chain, contract |-> contract, method |-> method, args |-> args]

\* EVM: the call whose gas is estimated, ...  (For setAdmin there is none: the
\* address is packed as a string, which is an error.)
EstimateGas(m) ==
    CASE m.EventType = "emitMessage" -> Call(Evm, "connection", "recvMessage", <<m.Src, m.Sn, m.Data>>)
      [] m.EventType = "setAdmin" -> None
      [] m.EventType = "revertMessage" -> Call(Evm, "connection", "revertMessage", <<m.Sn>>)
      [] m.EventType = "claimFee" -> Call(Evm, "connection", "claimFees", <<>>)
      [] m.EventType = "setFee" -> Call(Evm, "connection", "setFee", <<m.Src, m.Sn, m.ReqID>>)
      [] m.EventType = "callMessage" -> Call(Evm, "xcall", "executeCall", <<m.ReqID, m.Data>>)
      [] m.EventType = "rollbackMessage" -> Call(Evm, "xcall", "executeRollback", <<m.Sn>>)

\* Mutant: a call is executed by its serial number.
EvmSendTransactionBySn(m) ==
    IF m.EventType = "callMessage" THEN Call(Evm, "xcall", "executeCall", <<m.Sn, m.Data>>)
    ELSE EstimateGas(m)

\* ... and the one that is sent.
EvmSendTransaction(m) ==
    CASE m.EventType = "emitMessage" -> Call(Evm, "connection", "recvMessage", <<m.Src, m.Sn, m.Data>>)
      [] m.EventType = "callMessage" -> Call(Evm, "xcall", "executeCall", <<m.ReqID, m.Data>>)
      [] m.EventType = "setAdmin" -> Call(Evm, "connection", "setAdmin", <<m.Src>>)
      [] m.EventType = "revertMessage" -> Call(Evm, "connection", "revertMessage", <<m.Sn>>)
      [] m.EventType = "claimFee" -> Call(Evm, "connection", "claimFees", <<>>)
      [] m.EventType = "setFee" -> Call(Evm, "connection", "setFee", <<m.Src, m.Sn, m.ReqID>>)
      [] m.EventType = "rollbackMessage" -> Call(Evm, "xcall", "executeRollback", <<m.Sn>>)

\* ICON: numbers pass through an int64.
MakeIconMessage(m) ==
    LET to == GetAddressByEventType(m.EventType)
    IN  CASE m.EventType = "emitMessage" ->
               Call(Icon, to, "recvMessage", <<m.Src, Int64(m.Sn), HexBytes(m.Data)>>)
          [] m.EventType = "callMessage" ->
               Call(Icon, to, "executeCall", <<Int64(m.ReqID), HexBytes(m.Data)>>)
          [] m.EventType = "rollbackMessage" ->
               Call(Icon, to, "executeRollback", <<Int64(m.Sn)>>)

\* Wasm: a call's data has to be a list of numbers, or the body is null.
NewExecExecMsg(m) ==
    IF m.Data.enc = "json" THEN <<m.ReqID, Value(m.Data)>> ELSE <<None>>

getRawContractMessage(m) ==
    CASE m.EventType = "emitMessage" -> <<m.Src, m.Sn, HexBytes(m.Data)>>
      [] m.EventType = "callMessage" -> NewExecExecMsg(m)
      [] m.EventType = "revertMessage" -> <<m.Sn>>
      [] m.EventType = "setAdmin" -> <<m.Dst>>
      [] m.EventType = "claimFee" -> <<>>
      [] m.EventType = "setFee" -> <<m.Src, m.Sn, m.ReqID>>
      [] m.EventType = "rollbackMessage" -> <<m.Sn>>

WasmMethod(type) ==
    CASE type = "emitMessage" -> "recvMessage"
      [] type = "callMessage" -> "executeCall"
      [] type = "rollbackMessage" -> "executeRollback"
      [] type = "claimFee" -> "claimFees"
      [] OTHER -> type

WasmCall(m) ==
    Call(Wasm, IF m.EventType \in {"callMessage", "rollbackMessage"} THEN "xcall" ELSE "connection",
         WasmMethod(m.EventType), getRawContractMessage(m))

Transaction(c, m) ==
    CASE c = Evm -> EvmSendTransaction(m)
      [] c = Icon -> MakeIconMessage(m)
      [] c = Wasm -> WasmCall(m)

\* Which receipt MessageReceived asks the destination for before an attempt:
\* the one of source and serial number for an emitted message, else none.
EvmMessageReceived(m) == IF m.EventType = "emitMessage" THEN <<m.Src, m.Sn>> ELSE None

\* Mutant: the receipts of the destination's own messages.
IconMessageReceivedOwn(m) == IF m.EventType = "emitMessage" THEN <<m.Dst, Int64(m.Sn)>> ELSE None

IconMessageReceived(m) == IF m.EventType = "emitMessage" THEN <<m.Src, Int64(m.Sn)>> ELSE None

WasmMessageReceived(m) == IF m.EventType = "emitMessage" THEN <<m.Src, m.Sn>> ELSE None

MessageReceived(c, m) ==
    CASE c = Evm -> EvmMessageReceived(m)
      [] c = Icon -> IconMessageReceived(m)
      [] c = Wasm -> WasmMessageReceived(m)

----------------------------------------------------------------------------
(* The operator's requests.  SetAdmin is none of them: only keystore use   *)
(* calls it, after a Save that fails (module Keystore).  It would send an  *)
(* empty address: EVM fills Dst and reads Src, Wasm the other way round.   *)

Request ==
    [type : {"revertMessage"}, sn : Sns]
    \cup [type : {"setFee"}, net : Chains, msgFee : Sns, resFee : ReqIDs]
    \cup [type : {"claimFee"}]

Blank == [Dst |-> None, Src |-> None, Sn |-> None, ReqID |-> None, Data |-> None,
          EventType |-> None, MessageHeight |-> 0]

\* EVM and Wasm write the request into a message.
EvmRequest(r) ==
    CASE r.type = "revertMessage" -> [Blank EXCEPT !.EventType = r.type, !.Sn = r.sn]
      [] r.type = "claimFee" -> [Blank EXCEPT !.EventType = r.type]
      [] r.type = "setFee" -> [Blank EXCEPT !.EventType = r.type, !.Src = r.net,
                                            !.Sn = r.msgFee, !.ReqID = r.resFee]

WasmRequest(r) ==
    CASE r.type = "revertMessage" -> [Blank EXCEPT !.EventType = r.type, !.Sn = r.sn]
      [] r.type = "setFee" -> [Blank EXCEPT !.EventType = r.type, !.Src = r.net,
                                            !.Sn = r.msgFee, !.ReqID = r.resFee]
      [] r.type = "claimFee" -> [Blank EXCEPT !.EventType = r.type]

\* ICON makes the call itself.
IconRevertMessage(r) == Call(Icon, "connection", r.type, <<Int64(r.sn)>>)

\* Mutant: the two fees the other way round.
IconFeeRequestSwapped(r) ==
    IF r.type = "setFee"
    THEN Call(Icon, "connection", r.type, <<r.net, Int64(r.resFee), Int64(r.msgFee)>>)
    ELSE Call(Icon, "connection", "claimFees", <<>>)

IconFeeRequest(r) ==
    IF r.type = "setFee"
    THEN Call(Icon, "connection", r.type, <<r.net, Int64(r.msgFee), Int64(r.resFee)>>)
    ELSE Call(Icon, "connection", "claimFees", <<>>)

RequestTransaction(c, r) ==
    CASE c = Evm -> EvmSendTransaction(EvmRequest(r))
      [] c = Wasm -> WasmCall(WasmRequest(r))
      [] c = Icon /\ r.type = "revertMessage" -> IconRevertMessage(r)
      [] c = Icon /\ r.type # "revertMessage" -> IconFeeRequest(r)

\* EVM's SendTransaction logs the serial number, and this message has none:
\* nil is dereferenced.
Panics(c, r) == c = Evm /\ EvmRequest(r).Sn = None

----------------------------------------------------------------------------
(* Actions.                                                                *)

Init ==
    /\ events = {} /\ heard = {} /\ msgs = {} /\ txs = {} /\ asked = {}
    /\ up = TRUE

\* A contract never uses a serial number twice, and a request id neither.
Emit(e) ==
    /\ Cardinality(events) + Cardinality(asked) < MaxInputs
    /\ <<e.chain, e.height>> \notin heard
    /\ \A x \in events : x.chain = e.chain /\ x.sig = e.sig => x.sn # e.sn /\ (e.req = None \/ x.req # e.req)
    /\ events' = events \cup {e}
    /\ UNCHANGED <<heard, msgs, txs, asked, up>>

\* A listener passes a block on.
Listen(c, h) ==
    /\ up
    /\ Block(c, h) # {}
    /\ <<c, h>> \notin heard
    /\ heard' = heard \cup {<<c, h>>}
    /\ \/ c = Evm /\ msgs' = msgs \cup FindMessages(Block(c, h)).found
       \/ c = Icon /\ msgs' = msgs \cup parseMessageEvent(Block(c, h)).found
       \/ c = Wasm /\ \E searches \in SUBSET Sigs :
            msgs' = msgs \cup fetchBlockMessages(h, searches).found
    /\ UNCHANGED <<events, txs, asked, up>>

\* Wasm's subscription: one transaction at a time, and no height is set.
SubscribeMessageEvents(e) ==
    /\ up
    /\ e.chain = Wasm
    /\ <<e.chain, e.height>> \notin heard
    /\ msgs' = msgs \cup ParseMessageFromEvents({e}, 0).found
    /\ UNCHANGED <<events, heard, txs, asked, up>>

\* CheckFinality: the source chain of a message finds its block again.
CheckFinality(p) ==
    /\ up
    /\ p.msg.Src \in Chains
    /\ \E searches \in SUBSET Sigs :
         msgs' = msgs \cup
             GenerateMessages(p.msg.Src, p.msg.Src, p.msg.MessageHeight, searches).found
    /\ UNCHANGED <<events, heard, txs, asked, up>>

\* The operator relays the messages of a block; the answer holds the first one,
\* and a list without one is an index out of range.
RelayMessageByHeight(c, h) ==
    /\ up
    /\ \E searches \in SUBSET Sigs :
         LET r == GenerateMessages(c, c, h, searches)
         IN  /\ msgs' = msgs \cup r.found
             /\ up' = (r.err \/ r.found # {})
    /\ UNCHANGED <<events, heard, txs, asked>>

\* A message for an unknown chain is forgotten (module Relayer).
Route(p) ==
    /\ up
    /\ p.msg.Dst \in Chains
    /\ txs' = txs \cup {[ev |-> p.ev, msg |-> p.msg, tx |-> Transaction(p.msg.Dst, p.msg)]}
    /\ UNCHANGED <<events, heard, msgs, asked, up>>

\* A request of the operator.
Ask(c, r) ==
    /\ Cardinality(events) + Cardinality(asked) < MaxInputs
    /\ up
    /\ IF Panics(c, r)
       THEN up' = FALSE /\ UNCHANGED asked
       ELSE /\ asked' = asked \cup {[chain |-> c, req |-> r, tx |-> RequestTransaction(c, r)]}
            /\ UNCHANGED up
    /\ UNCHANGED <<events, heard, msgs, txs>>

Restart == ~up /\ up' = TRUE /\ UNCHANGED <<events, heard, msgs, txs, asked>>

Next ==
    \/ \E e \in Event : Emit(e)
    \/ \E c \in Chains, h \in Heights : Listen(c, h) \/ RelayMessageByHeight(c, h)
    \/ \E e \in events : SubscribeMessageEvents(e)
    \/ \E p \in msgs : CheckFinality(p) \/ Route(p)
    \/ \E c \in Chains, r \in Request : Ask(c, r)
    \/ Restart

Spec == Init /\ [][Next]_vars

----------------------------------------------------------------------------
(* Correctness.                                                            *)

\* The data as a contract of chain c expects it in a call.
Expected(c, data, method) ==
    IF c = Evm \/ (c = Wasm /\ method = "executeCall") THEN data ELSE HexBytes(data)

\* What an event asks for.
Wanted(e) ==
    CASE e.sig = "Message" ->
           Call(e.peer, "connection", "recvMessage",
                <<e.chain, e.sn, Expected(e.peer, e.data, "recvMessage")>>)
      [] e.sig = "CallMessage" ->
           Call(e.chain, "xcall", "executeCall",
                <<e.req, Expected(e.chain, e.data, "executeCall")>>)
      [] e.sig = "RollbackMessage" -> Call(e.chain, "xcall", "executeRollback", <<e.sn>>)

\* getRelayMessageFromLog, parseMessageEvent, ParseMessageFromEvents and
\* GenerateMessages on one side, SendTransaction, MakeIconMessage and
\* getRawContractMessage on the other: whichever way a message was found, the
\* transaction sent for it is the one its event asks for, on that chain and
\* contract and with those arguments, if the numbers fit where they have to.
Routed ==
    \A t \in txs :
        t.ev.bad = "no" /\ (t.tx.chain = Icon => Fits(t.ev.sn) /\ Fits(t.ev.req))
        => t.tx = Wanted(t.ev)

\* GenerateMessages: a message whose source is the chain that emitted it and
\* which knows its height is found again as it was, if the block has nothing
\* undecodable and no search fails.  (A call on ICON or Wasm has another
\* source, and the subscription sets no height: these are not found again.)
Regenerated ==
    \A p \in msgs :
        /\ p.msg.Src = p.ev.chain /\ p.msg.MessageHeight # 0
        /\ \A e \in Block(p.ev.chain, p.ev.height) : e.bad = "no"
        => p \in GenerateMessages(p.msg.Src, p.msg.Src, p.msg.MessageHeight, Sigs).found

\* EstimateGas: the gas limit is estimated for the call that SendTransaction
\* makes, for messages and for requests.
EstimatedIsSent ==
    /\ \A t \in txs : t.tx.chain = Evm => t.tx = EstimateGas(t.msg)
    /\ \A a \in asked : a.chain = Evm => a.tx = EstimateGas(EvmRequest(a.req))

\* MessageReceived and Route must speak of the same receipt, or a delivered
\* message is sent again for ever and another one is taken for delivered: the
\* receipt asked for is the one the transaction of the message leaves behind,
\* and two emitted messages for one chain share it only if they are one event,
\* or their numbers do not fit.
ReceiptAsked ==
    /\ \A t \in txs : t.msg.EventType = "emitMessage" =>
         MessageReceived(t.msg.Dst, t.msg) = <<t.tx.args[1], t.tx.args[2]>>
    /\ \A p, q \in msgs :
         /\ p.msg.EventType = "emitMessage" /\ q.msg.EventType = "emitMessage"
         /\ p.msg.Dst = q.msg.Dst /\ Fits(p.msg.Sn) /\ Fits(q.msg.Sn)
         /\ MessageReceived(p.msg.Dst, p.msg) = MessageReceived(q.msg.Dst, q.msg)
         => p.ev = q.ev

\* What a request asks for.
RequestWanted(c, r) ==
    CASE r.type = "revertMessage" -> Call(c, "connection", r.type, <<r.sn>>)
      [] r.type = "setFee" -> Call(c, "connection", r.type, <<r.net, r.msgFee, r.resFee>>)
      [] r.type = "claimFee" -> Call(c, "connection", "claimFees", <<>>)

\* RevertMessage, SetFee and ClaimFee of the three providers: the transaction
\* sent is the one the operator asked for, if the numbers fit.
RequestHonoured ==
    \A a \in asked :
        (a.chain = Icon =>
            \A f \in DOMAIN a.req \cap {"sn", "msgFee", "resFee"} : Fits(a.req[f]))
        => a.tx = RequestWanted(a.chain, a.req)
============================================================================
