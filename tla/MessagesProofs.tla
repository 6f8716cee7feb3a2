--------------------------- MODULE MessagesProofs ---------------------------
(***************************************************************************)
(* For any payloads, numbers, heights and any width of an int64: whichever *)
(* way a message was found, its transaction is the one its event asks for. *)
(***************************************************************************)
EXTENDS Messages, TLAPS

\* The event types are those of the three signatures.
LEMMA EventNames ==
    /\ GetEventName("Message") = "emitMessage"
    /\ GetEventName("CallMessage") = "callMessage"
    /\ GetEventName("RollbackMessage") = "rollbackMessage"
<1>1. DOMAIN eventMap = {"connection", "xcall"}
  BY DEF eventMap
<1>2. /\ DOMAIN eventMap["connection"] = {"Message"}
      /\ DOMAIN eventMap["xcall"] = {"CallMessage", "RollbackMessage"}
  BY DEF eventMap
<1>3. /\ eventMap["connection"]["Message"] = "emitMessage"
      /\ eventMap["xcall"]["CallMessage"] = "callMessage"
      /\ eventMap["xcall"]["RollbackMessage"] = "rollbackMessage"
  BY DEF eventMap
<1>4. QED
  BY <1>1, <1>2, <1>3 DEF GetEventName

\* Each of them belongs to one contract.
LEMMA Addresses ==
    /\ GetAddressByEventType("emitMessage") = "connection"
    /\ GetAddressByEventType("callMessage") = "xcall"
    /\ GetAddressByEventType("rollbackMessage") = "xcall"
<1>1. DOMAIN eventMap = {"connection", "xcall"}
  BY DEF eventMap
<1>2. /\ DOMAIN eventMap["connection"] = {"Message"}
      /\ DOMAIN eventMap["xcall"] = {"CallMessage", "RollbackMessage"}
  BY DEF eventMap
<1>3. /\ eventMap["connection"]["Message"] = "emitMessage"
      /\ eventMap["xcall"]["CallMessage"] = "callMessage"
      /\ eventMap["xcall"]["RollbackMessage"] = "rollbackMessage"
  BY DEF eventMap
<1>4. QED
  BY <1>1, <1>2, <1>3 DEF GetAddressByEventType

----------------------------------------------------------------------------
(* What an event may be parsed as, by whichever of the ways to a cache.    *)

Decodable(e) ==
    \/ e.bad = "no"
    \/ e.chain = Wasm /\ e.bad = "data" /\ e.sig = "CallMessage"

ParseOf(e, m) ==
    \/ e.chain = Evm /\ m = getRelayMessageFromLog(e)
    \/ e.chain = Icon /\ m = parseMessage(e)
    \/ e.chain = Wasm /\ \E h \in {e.height, 0} : m = ParseMessageFromEvent(e, h)

\* A set of messages that are parses of emitted events.
FoundOK(S) ==
    \A p \in S : /\ p = [ev |-> p.ev, msg |-> p.msg]
                 /\ p.ev \in events /\ Decodable(p.ev) /\ ParseOf(p.ev, p.msg)

\* A contract does not use a serial number twice for the same kind of event.
EventsOK ==
    /\ events \subseteq Event
    /\ \A x, y \in events : x.chain = y.chain /\ x.sig = y.sig /\ x.sn = y.sn => x = y

\* Messages are parses of emitted events, ...
MsgsOK == FoundOK(msgs)

\* ... transactions are made from messages, ...
TxsOK ==
    \A t \in txs :
        /\ [ev |-> t.ev, msg |-> t.msg] \in msgs
        /\ t.msg.Dst \in Chains
        /\ t.tx = Transaction(t.msg.Dst, t.msg)

\* ... and from requests.
AskedOK ==
    \A a \in asked :
        /\ a.chain \in Chains /\ a.req \in Request
        /\ a.tx = RequestTransaction(a.chain, a.req)

MessagesInv == EventsOK /\ MsgsOK /\ TxsOK /\ AskedOK

\* There is nothing yet.
LEMMA MessagesInit == Init => MessagesInv
  BY DEF Init, MessagesInv, EventsOK, MsgsOK, FoundOK, TxsOK, AskedOK

\* What Found returns has one message for each event.
LEMMA FoundIs ==
    ASSUME NEW parsed
    PROVE  \A p \in Found(parsed).found :
             p.ev \in DOMAIN parsed /\ p.msg = parsed[p.ev] /\ p = [ev |-> p.ev, msg |-> p.msg]
  BY DEF Found

\* Nothing comes of an error.
LEMMA ErrorFinds == Error.found = {}
  BY DEF Error

\* Logs of an EVM chain.
LEMMA FindMessagesOK ==
    ASSUME NEW es \in SUBSET events, \A e \in es : e.chain = Evm
    PROVE  FoundOK(FindMessages(es).found)
<1>1. CASE \E e \in es : e.bad # "no"
  BY <1>1, ErrorFinds DEF FindMessages, FoundOK
<1>2. CASE ~ \E e \in es : e.bad # "no"
  <2> DEFINE f == [e \in es |-> getRelayMessageFromLog(e)]
  <2>1. FindMessages(es).found = Found(f).found
    BY <1>2 DEF FindMessages
  <2>2. \A e \in es : ParseOf(e, f[e])
    BY DEF ParseOf
  <2>3. DOMAIN f = es
    OBVIOUS
  <2> HIDE DEF f
  <2>4. QED
    BY <1>2, <2>1, <2>2, <2>3, FoundIs DEF FoundOK, Decodable
<1>3. QED
  BY <1>1, <1>2

\* Notifications of ICON.
LEMMA ParseMessageEventOK ==
    ASSUME NEW es \in SUBSET events, \A e \in es : e.chain = Icon
    PROVE  FoundOK(parseMessageEvent(es).found)
<1>1. CASE \E e \in es : e.bad # "no"
  BY <1>1, ErrorFinds DEF parseMessageEvent, FoundOK
<1>2. CASE ~ \E e \in es : e.bad # "no"
  <2> DEFINE f == [e \in es |-> parseMessage(e)]
  <2>1. parseMessageEvent(es).found = Found(f).found
    BY <1>2 DEF parseMessageEvent
  <2>2. \A e \in es : ParseOf(e, f[e])
    BY DEF ParseOf
  <2>3. DOMAIN f = es
    OBVIOUS
  <2> HIDE DEF f
  <2>4. QED
    BY <1>2, <2>1, <2>2, <2>3, FoundIs DEF FoundOK, Decodable
<1>3. QED
  BY <1>1, <1>2

\* GenerateMessages of ICON for a key with ICON as its source.
LEMMA IconGenerateOK ==
    ASSUME NEW h
    PROVE  FoundOK(IconGenerateMessages(Icon, h).found)
<1> DEFINE es == {e \in Block(Icon, h) : e.bad = "no"}
           f == [e \in es |-> IF e.sig = "Message" THEN [parseMessage(e) EXCEPT !.Src = Icon]
                              ELSE parseMessage(e)]
           bad == es = {} \/ \E e \in Block(Icon, h) : e.sig # "Message" /\ e.bad = "number"
<1>1. IconGenerateMessages(Icon, h) = IF bad THEN Error ELSE Found(f)
  BY DEF IconGenerateMessages
<1>2. \A e \in es : e \in events /\ e.chain = Icon /\ e.bad = "no"
  BY DEF Block
<1>3. \A e \in es : f[e] = parseMessage(e)
  <2>1. \A e : e.sig = "Message" => [parseMessage(e) EXCEPT !.Src = Icon] = parseMessage(e)
    BY DEF parseMessage, parseEmitMessageEvent, Message
  <2>2. QED
    BY <2>1
<1>4. \A e \in es : ParseOf(e, f[e])
  BY <1>2, <1>3 DEF ParseOf
<1>5. DOMAIN f = es
  OBVIOUS
<1> HIDE DEF f, es, bad
<1>6. FoundOK(Found(f).found)
  BY <1>2, <1>4, <1>5, FoundIs DEF FoundOK, Decodable
<1>7. FoundOK(Error.found)
  BY ErrorFinds DEF FoundOK
<1>8. QED
  BY <1>1, <1>6, <1>7

\* Events of a Wasm chain, of a block or of one transaction.
LEMMA ParseMessageFromEventsOK ==
    ASSUME NEW es \in SUBSET events, NEW h, events \subseteq Event,
           \A e \in es : e.chain = Wasm /\ h \in {e.height, 0}
    PROVE  FoundOK(ParseMessageFromEvents(es, h).found)
<1> DEFINE f == [e \in es |-> ParseMessageFromEvent(e, h)]
           bad == \E e \in es : e.bad = "number" \/ (e.bad = "data" /\ e.sig = "Message")
<1>1. ParseMessageFromEvents(es, h) = IF bad THEN Error ELSE Found(f)
  BY DEF ParseMessageFromEvents
<1>2. \A e \in es : ParseOf(e, f[e])
  BY DEF ParseOf
<1>3. ~bad => \A e \in es : Decodable(e)
  BY DEF Decodable, Event
<1>4. DOMAIN f = es
  OBVIOUS
<1> HIDE DEF f, bad
<1>5. ~bad => FoundOK(Found(f).found)
  BY <1>2, <1>3, <1>4, FoundIs DEF FoundOK
<1>6. FoundOK(Error.found)
  BY ErrorFinds DEF FoundOK
<1>7. QED
  BY <1>1, <1>5, <1>6

\* GenerateMessages, whichever chain it is asked of.
LEMMA GenerateMessagesOK ==
    ASSUME EventsOK, NEW c \in Chains, NEW h, NEW searches
    PROVE  FoundOK(GenerateMessages(c, c, h, searches).found)
<1>1. \A d : Block(d, h) \subseteq events /\ \A e \in Block(d, h) : e.chain = d /\ e.height = h
  BY DEF Block
<1>2. CASE c = Evm
  <2>1. GenerateMessages(c, c, h, searches) = FindMessages(Block(Evm, h))
    BY <1>2, MessagesAssumption DEF GenerateMessages, EvmGenerateMessages
  <2>2. QED
    BY <1>1, <2>1, FindMessagesOK
<1>3. CASE c = Icon
  BY <1>3, IconGenerateOK, MessagesAssumption DEF GenerateMessages
<1>4. CASE c = Wasm
  <2> DEFINE es == {e \in Block(Wasm, h) : e.sig \in searches}
  <2>1. es \in SUBSET events /\ \A e \in es : e.chain = Wasm /\ h \in {e.height, 0}
    BY <1>1
  <2>2. GenerateMessages(c, c, h, searches) = ParseMessageFromEvents(es, h)
    BY <1>4, MessagesAssumption DEF GenerateMessages, fetchBlockMessages
  <2> HIDE DEF es
  <2>3. QED
    BY <2>1, <2>2, ParseMessageFromEventsOK DEF EventsOK
<1>5. QED
  BY <1>2, <1>3, <1>4 DEF Chains

\* What has been found stays a parse of an emitted event when more is found
\* and more is emitted.
LEMMA FoundGrows ==
    ASSUME MsgsOK, NEW S, FoundOK(S), msgs' = msgs \cup S, events \subseteq events'
    PROVE  MsgsOK'
  BY DEF MsgsOK, FoundOK

\* Every step keeps the invariant.
LEMMA MessagesStep ==
    ASSUME MessagesInv, [Next]_vars
    PROVE  MessagesInv'
<1>i. EventsOK /\ MsgsOK /\ TxsOK /\ AskedOK
  BY DEF MessagesInv
<1>f. FoundOK({})
  BY DEF FoundOK
<1>1. ASSUME NEW S, FoundOK(S), msgs' = msgs \cup S, UNCHANGED <<events, txs, asked>>
      PROVE  MessagesInv'
  <2>1. MsgsOK'
    BY <1>1, <1>i, FoundGrows
  <2>2. EventsOK' /\ TxsOK' /\ AskedOK'
    BY <1>1, <1>i DEF EventsOK, TxsOK, AskedOK
  <2>3. QED
    BY <2>1, <2>2 DEF MessagesInv
<1>2. ASSUME NEW e \in Event, Emit(e) PROVE MessagesInv'
  <2>1. events' = events \cup {e} /\ UNCHANGED <<msgs, txs, asked>>
    BY <1>2 DEF Emit
  <2>2. \A x \in events : x.chain = e.chain /\ x.sig = e.sig => x.sn # e.sn
    BY <1>2 DEF Emit
  <2>3. EventsOK'
    BY <1>i, <2>1, <2>2 DEF EventsOK
  <2>4. MsgsOK'
    BY <1>i, <1>f, <2>1, FoundGrows
  <2>5. TxsOK' /\ AskedOK'
    BY <1>i, <2>1 DEF TxsOK, AskedOK
  <2>6. QED
    BY <2>3, <2>4, <2>5 DEF MessagesInv
<1>3. ASSUME NEW c \in Chains, NEW h \in Heights, Listen(c, h) PROVE MessagesInv'
  <2>1. Block(c, h) \subseteq events /\ \A e \in Block(c, h) : e.chain = c /\ e.height = h
    BY DEF Block
  <2>2. UNCHANGED <<events, txs, asked>>
    BY <1>3 DEF Listen
  <2>3. CASE c = Evm /\ msgs' = msgs \cup FindMessages(Block(c, h)).found
    BY <1>1, <2>1, <2>2, <2>3, FindMessagesOK
  <2>4. CASE c = Icon /\ msgs' = msgs \cup parseMessageEvent(Block(c, h)).found
    BY <1>1, <2>1, <2>2, <2>4, ParseMessageEventOK
  <2>5. ASSUME c = Wasm, NEW searches \in SUBSET Sigs,
               msgs' = msgs \cup fetchBlockMessages(h, searches).found
        PROVE  MessagesInv'
    <3>1. fetchBlockMessages(h, searches) = GenerateMessages(Wasm, Wasm, h, searches)
      BY MessagesAssumption DEF GenerateMessages
    <3>2. QED
      BY <1>1, <1>i, <2>2, <2>5, <3>1, GenerateMessagesOK
  <2>6. QED
    BY <1>3, <2>3, <2>4, <2>5 DEF Listen
<1>4. ASSUME NEW e \in events, SubscribeMessageEvents(e) PROVE MessagesInv'
  <2>1. /\ e.chain = Wasm /\ UNCHANGED <<events, txs, asked>>
        /\ msgs' = msgs \cup ParseMessageFromEvents({e}, 0).found
    BY <1>4 DEF SubscribeMessageEvents
  <2>2. FoundOK(ParseMessageFromEvents({e}, 0).found)
    BY <1>i, <2>1, ParseMessageFromEventsOK DEF EventsOK
  <2>3. QED
    BY <1>1, <2>1, <2>2
<1>5. ASSUME NEW p \in msgs, CheckFinality(p) PROVE MessagesInv'
  <2>1. PICK searches \in SUBSET Sigs :
          msgs' = msgs \cup
              GenerateMessages(p.msg.Src, p.msg.Src, p.msg.MessageHeight, searches).found
    BY <1>5 DEF CheckFinality
  <2>2. p.msg.Src \in Chains /\ UNCHANGED <<events, txs, asked>>
    BY <1>5 DEF CheckFinality
  <2>3. QED
    BY <1>1, <1>i, <2>1, <2>2, GenerateMessagesOK
<1>6. ASSUME NEW c \in Chains, NEW h \in Heights, RelayMessageByHeight(c, h)
      PROVE  MessagesInv'
  <2>1. PICK searches \in SUBSET Sigs :
          msgs' = msgs \cup GenerateMessages(c, c, h, searches).found
    BY <1>6 DEF RelayMessageByHeight
  <2>2. UNCHANGED <<events, txs, asked>>
    BY <1>6 DEF RelayMessageByHeight
  <2>3. QED
    BY <1>1, <1>i, <2>1, <2>2, GenerateMessagesOK
<1>7. ASSUME NEW p \in msgs, Route(p) PROVE MessagesInv'
  <2> DEFINE t == [ev |-> p.ev, msg |-> p.msg, tx |-> Transaction(p.msg.Dst, p.msg)]
  <2>1. txs' = txs \cup {t} /\ p.msg.Dst \in Chains /\ UNCHANGED <<events, msgs, asked>>
    BY <1>7 DEF Route
  <2>2. [ev |-> t.ev, msg |-> t.msg] = p
    BY <1>i DEF MsgsOK, FoundOK
  <2>3. t.msg.Dst \in Chains /\ t.tx = Transaction(t.msg.Dst, t.msg)
    BY <2>1
  <2> HIDE DEF t
  <2>4. TxsOK'
    BY <1>i, <2>1, <2>2, <2>3 DEF TxsOK
  <2>5. EventsOK' /\ MsgsOK' /\ AskedOK'
    BY <1>i, <2>1 DEF EventsOK, MsgsOK, FoundOK, AskedOK
  <2>6. QED
    BY <2>4, <2>5 DEF MessagesInv
<1>8. ASSUME NEW c \in Chains, NEW r \in Request, Ask(c, r) PROVE MessagesInv'
  <2> DEFINE a == [chain |-> c, req |-> r, tx |-> RequestTransaction(c, r)]
  <2>1. asked' \in {asked, asked \cup {a}} /\ UNCHANGED <<events, msgs, txs>>
    BY <1>8 DEF Ask
  <2>2. a.chain \in Chains /\ a.req \in Request /\ a.tx = RequestTransaction(a.chain, a.req)
    OBVIOUS
  <2> HIDE DEF a
  <2>3. AskedOK'
    BY <1>i, <2>1, <2>2 DEF AskedOK
  <2>4. EventsOK' /\ MsgsOK' /\ TxsOK'
    BY <1>i, <2>1 DEF EventsOK, MsgsOK, FoundOK, TxsOK
  <2>5. QED
    BY <2>3, <2>4 DEF MessagesInv
<1>9. CASE Restart \/ UNCHANGED vars
  BY <1>1, <1>f, <1>9 DEF Restart, vars
<1>10. QED
  BY <1>2, <1>3, <1>4, <1>5, <1>6, <1>7, <1>8, <1>9 DEF Next

----------------------------------------------------------------------------
(* From the invariant to the properties.                                   *)

\* What the fields of an event are.
LEMMA EventFields ==
    ASSUME NEW e \in Event
    PROVE  /\ e.chain \in Chains /\ e.sig \in Sigs /\ e.sn \in Nat /\ e.height \in Nat \ {0}
           /\ e.sig = "Message" => e.peer \in Chains /\ e.peer # e.chain /\ e.data # None
           /\ e.sig = "CallMessage" => /\ e.peer \in Chains /\ e.peer # e.chain
                                       /\ e.req \in Nat /\ e.data # None
           /\ e.sig = "RollbackMessage" => e.data = None
<1> USE MessagesAssumption DEF Sigs
<1>1. PICK c \in Chains :
        \/ e \in [chain : {c}, height : Heights, sig : {"Message"}, peer : Chains \ {c},
                  sn : Sns, req : {None}, data : Payloads, bad : {"no", "number", "data"}]
        \/ e \in [chain : {c}, height : Heights, sig : {"CallMessage"}, peer : Chains \ {c},
                  sn : Sns, req : ReqIDs, data : Payloads, bad : {"no", "number", "data"}]
        \/ e \in [chain : {c}, height : Heights, sig : {"RollbackMessage"}, peer : {None},
                  sn : Sns, req : {None}, data : {None}, bad : {"no", "number"}]
  BY DEF Event
<1>2. CASE e \in [chain : {c}, height : Heights, sig : {"Message"}, peer : Chains \ {c},
                  sn : Sns, req : {None}, data : Payloads, bad : {"no", "number", "data"}]
  BY <1>2
<1>3. CASE e \in [chain : {c}, height : Heights, sig : {"CallMessage"}, peer : Chains \ {c},
                  sn : Sns, req : ReqIDs, data : Payloads, bad : {"no", "number", "data"}]
  BY <1>3
<1>4. CASE e \in [chain : {c}, height : Heights, sig : {"RollbackMessage"}, peer : {None},
                  sn : Sns, req : {None}, data : {None}, bad : {"no", "number"}]
  BY <1>4
<1>5. QED
  BY <1>1, <1>2, <1>3, <1>4

\* What the fields of a parsed message are.
LEMMA ParsedFields ==
    ASSUME NEW e \in Event, NEW m, ParseOf(e, m)
    PROVE  /\ m.Sn = e.sn /\ m.ReqID = e.req /\ m.EventType = GetEventName(e.sig)
           /\ e.sig = "Message" => m.Dst = e.peer /\ m.Src = e.chain
           /\ e.sig # "Message" => m.Dst = e.chain
           /\ m.MessageHeight \in {e.height, 0}
<1>1. e.sig \in Sigs
  BY EventFields
<1>2. CASE e.chain = Evm
  BY <1>1, <1>2, MessagesAssumption DEF ParseOf, getRelayMessageFromLog, Message
<1>3. CASE e.chain = Icon
  BY <1>1, <1>3, MessagesAssumption DEF ParseOf, parseMessage, parseEmitMessageEvent,
     parseCallMessageEvent, parseRollbackMessageEvent, Message, Sigs
<1>4. CASE e.chain = Wasm
  BY <1>1, <1>4, MessagesAssumption DEF ParseOf, ParseMessageFromEvent, Message, Sigs
<1>5. QED
  BY <1>2, <1>3, <1>4 DEF ParseOf

\* The data of a parsed message: the payload, but for calls on a Wasm chain,
\* which keep its text.
LEMMA ParsedData ==
    ASSUME NEW e \in Event, NEW m, ParseOf(e, m), e.bad = "no"
    PROVE  /\ e.sig = "Message" => m.Data = e.data
           /\ e.sig = "CallMessage" /\ e.chain # Wasm => m.Data = e.data
           /\ e.sig = "CallMessage" /\ e.chain = Wasm => m.Data = JsonInts(e.data)
<1>1. e.sig \in {"Message", "CallMessage"} => e.data # None
  BY EventFields
<1>2. Value(HexBytes(e.data)) = e.data
  BY DEF Value, HexBytes
<1>3. CASE e.chain = Evm
  BY <1>1, <1>3, MessagesAssumption DEF ParseOf, getRelayMessageFromLog, Message, Shown
<1>4. CASE e.chain = Icon
  BY <1>1, <1>2, <1>4, MessagesAssumption DEF ParseOf, parseMessage, parseEmitMessageEvent,
     parseCallMessageEvent, Message, Shown
<1>5. CASE e.chain = Wasm
  BY <1>1, <1>2, <1>5, MessagesAssumption DEF ParseOf, ParseMessageFromEvent, Message, Shown
<1>6. QED
  BY <1>3, <1>4, <1>5 DEF ParseOf

\* A number that fits passes through an int64.
LEMMA FitsInt64 ==
    ASSUME NEW n \in Nat, Fits(n)
    PROVE  Int64(n) = n
  BY MessagesAssumption DEF Fits

\* Which kinds of events the event types stand for.
LEMMA EventTypes ==
    ASSUME NEW e \in Event
    PROVE  GetEventName(e.sig) = "emitMessage" <=> e.sig = "Message"
  BY EventNames, EventFields DEF Sigs

\* A message and its transaction, for one event.
LEMMA TransactionWanted ==
    ASSUME NEW e \in Event, NEW m, ParseOf(e, m), e.bad = "no",
           m.Dst = Icon => Fits(e.sn) /\ Fits(e.req)
    PROVE  Transaction(m.Dst, m) = Wanted(e)
<1> USE EventNames, MessagesAssumption
<1>e. e.chain \in Chains /\ e.sig \in Sigs /\ e.sn \in Nat
  BY EventFields
<1>m. m.Sn = e.sn /\ m.ReqID = e.req /\ m.EventType = GetEventName(e.sig)
  BY ParsedFields
<1>1. CASE e.sig = "Message"
  <2>1. /\ m.Dst = e.peer /\ e.peer \in Chains /\ m.Src = e.chain /\ m.Data = e.data
        /\ m.EventType = "emitMessage"
    BY <1>1, <1>m, EventFields, ParsedFields, ParsedData
  <2>2. Wanted(e) = Call(e.peer, "connection", "recvMessage",
                         <<e.chain, e.sn, Expected(e.peer, e.data, "recvMessage")>>)
    BY <1>1 DEF Wanted
  <2>3. CASE e.peer = Evm
    BY <1>m, <2>1, <2>2, <2>3 DEF Transaction, EvmSendTransaction, Expected
  <2>4. CASE e.peer = Icon
    <3>1. Int64(m.Sn) = e.sn
      BY <1>e, <1>m, <2>1, <2>4, FitsInt64
    <3>2. QED
      BY <2>1, <2>2, <2>4, <3>1, Addresses DEF Transaction, MakeIconMessage, Expected
  <2>5. CASE e.peer = Wasm
    BY <1>m, <2>1, <2>2, <2>5
       DEF Transaction, WasmCall, WasmMethod, getRawContractMessage, Expected
  <2>6. QED
    BY <2>1, <2>3, <2>4, <2>5 DEF Chains
<1>2. CASE e.sig = "CallMessage"
  <2>1. m.Dst = e.chain /\ m.EventType = "callMessage" /\ e.req \in Nat
    BY <1>2, <1>m, EventFields, ParsedFields
  <2>2. Wanted(e) = Call(e.chain, "xcall", "executeCall",
                         <<e.req, Expected(e.chain, e.data, "executeCall")>>)
    BY <1>2 DEF Wanted
  <2>3. CASE e.chain = Evm
    <3>1. m.Data = e.data
      BY <1>2, <2>3, ParsedData
    <3>2. QED
      BY <1>m, <2>1, <2>2, <2>3, <3>1 DEF Transaction, EvmSendTransaction, Expected
  <2>4. CASE e.chain = Icon
    <3>1. m.Data = e.data /\ Int64(m.ReqID) = e.req
      BY <1>2, <1>m, <2>1, <2>4, ParsedData, FitsInt64
    <3>2. QED
      BY <2>1, <2>2, <2>4, <3>1, Addresses DEF Transaction, MakeIconMessage, Expected
  <2>5. CASE e.chain = Wasm
    <3>1. m.Data = JsonInts(e.data)
      BY <1>2, <2>5, ParsedData
    <3>2. m.Data.enc = "json" /\ Value(m.Data) = e.data
      BY <3>1 DEF JsonInts, Value
    <3>3. getRawContractMessage(m) = <<e.req, e.data>>
      BY <1>m, <2>1, <3>2 DEF getRawContractMessage, NewExecExecMsg
    <3>4. QED
      BY <2>1, <2>2, <2>5, <3>3 DEF Transaction, WasmCall, WasmMethod, Expected
  <2>6. QED
    BY <1>e, <2>3, <2>4, <2>5 DEF Chains
<1>3. CASE e.sig = "RollbackMessage"
  <2>1. m.Dst = e.chain /\ m.EventType = "rollbackMessage"
    BY <1>3, <1>m, ParsedFields
  <2>2. Wanted(e) = Call(e.chain, "xcall", "executeRollback", <<e.sn>>)
    BY <1>3 DEF Wanted
  <2>3. CASE e.chain = Evm
    BY <1>m, <2>1, <2>2, <2>3 DEF Transaction, EvmSendTransaction
  <2>4. CASE e.chain = Icon
    <3>1. Int64(m.Sn) = e.sn
      BY <1>e, <1>m, <2>1, <2>4, FitsInt64
    <3>2. QED
      BY <2>1, <2>2, <2>4, <3>1, Addresses DEF Transaction, MakeIconMessage
  <2>5. CASE e.chain = Wasm
    BY <1>m, <2>1, <2>2, <2>5 DEF Transaction, WasmCall, WasmMethod, getRawContractMessage
  <2>6. QED
    BY <1>e, <2>3, <2>4, <2>5 DEF Chains
<1>4. QED
  BY <1>1, <1>2, <1>3, <1>e DEF Sigs

\* Transaction writes the chain it is for into the transaction.
LEMMA TransactionChain ==
    ASSUME NEW e \in Event, NEW m, ParseOf(e, m), m.Dst \in Chains
    PROVE  Transaction(m.Dst, m).chain = m.Dst
<1>1. m.EventType \in {"emitMessage", "callMessage", "rollbackMessage"}
  BY EventNames, EventFields, ParsedFields DEF Sigs
<1>2. CASE m.Dst = Evm
  BY <1>1, <1>2, MessagesAssumption DEF Transaction, EvmSendTransaction, Call
<1>3. CASE m.Dst = Icon
  BY <1>1, <1>3, MessagesAssumption DEF Transaction, MakeIconMessage, Call
<1>4. CASE m.Dst = Wasm
  BY <1>4, MessagesAssumption DEF Transaction, WasmCall, Call
<1>5. QED
  BY <1>2, <1>3, <1>4 DEF Chains

\* What a transaction was made from.
LEMMA TxOrigin ==
    ASSUME MessagesInv, NEW t \in txs
    PROVE  /\ t.ev \in Event /\ ParseOf(t.ev, t.msg) /\ t.msg.Dst \in Chains
           /\ t.tx = Transaction(t.msg.Dst, t.msg)
<1>1. [ev |-> t.ev, msg |-> t.msg] \in msgs /\ t.msg.Dst \in Chains
      /\ t.tx = Transaction(t.msg.Dst, t.msg)
  BY DEF MessagesInv, TxsOK
<1>2. t.ev \in events /\ ParseOf(t.ev, t.msg)
  BY <1>1 DEF MessagesInv, MsgsOK, FoundOK
<1>3. QED
  BY <1>1, <1>2 DEF MessagesInv, EventsOK

\* The invariant holds throughout.
LEMMA MessagesAlways == Spec => []MessagesInv
  BY MessagesInit, MessagesStep, PTL DEF Spec

\* Listeners, GenerateMessages and Route of the three providers: whichever way
\* a message was found, its transaction is the one its event asks for, for
\* any payloads and any numbers that fit into the int64 of ICON's client.
THEOREM RoutedAsWanted == Spec => []Routed
<1>1. MessagesInv => Routed
  <2>1. SUFFICES ASSUME MessagesInv, NEW t \in txs, t.ev.bad = "no",
                        t.tx.chain = Icon => Fits(t.ev.sn) /\ Fits(t.ev.req)
                 PROVE  t.tx = Wanted(t.ev)
    BY DEF Routed
  <2>2. t.tx.chain = t.msg.Dst
    BY <2>1, TxOrigin, TransactionChain
  <2>3. QED
    BY <2>1, <2>2, TxOrigin, TransactionWanted
<1>2. QED
  BY <1>1, MessagesAlways, PTL

\* What a block yields for a message that came from it.
LEMMA FoundHas ==
    ASSUME NEW parsed, NEW e \in DOMAIN parsed
    PROVE  [ev |-> e, msg |-> parsed[e]] \in Found(parsed).found
  BY DEF Found

\* GenerateMessages: a message whose source emitted it and which knows its
\* height is found again unchanged, so CheckFinality and the operator can send
\* again what was sent before.
THEOREM FoundAgain == Spec => []Regenerated
<1>1. MessagesInv => Regenerated
  <2>1. SUFFICES ASSUME MessagesInv, NEW p \in msgs,
                        p.msg.Src = p.ev.chain, p.msg.MessageHeight # 0,
                        \A e \in Block(p.ev.chain, p.ev.height) : e.bad = "no"
                 PROVE  p \in GenerateMessages(p.msg.Src, p.msg.Src,
                                               p.msg.MessageHeight, Sigs).found
    BY DEF Regenerated
  <2> DEFINE e == p.ev
             h == p.ev.height
  <2>2. /\ p = [ev |-> e, msg |-> p.msg] /\ e \in events /\ e \in Event /\ ParseOf(e, p.msg)
    BY <2>1 DEF MessagesInv, MsgsOK, FoundOK, EventsOK
  <2>3. p.msg.MessageHeight = h /\ e.chain \in Chains /\ e.sig \in Sigs
    BY <2>1, <2>2, ParsedFields, EventFields
  <2>4. e \in Block(e.chain, h)
    BY <2>2 DEF Block
  <2>5. CASE e.chain = Evm
    <3> DEFINE f == [x \in Block(Evm, h) |-> getRelayMessageFromLog(x)]
    <3>1. GenerateMessages(Evm, Evm, h, Sigs) = Found(f)
      BY <2>1, <2>5, MessagesAssumption DEF GenerateMessages, EvmGenerateMessages, FindMessages
    <3>2. e \in DOMAIN f /\ f[e] = p.msg
      BY <2>2, <2>4, <2>5, MessagesAssumption DEF ParseOf
    <3> HIDE DEF f
    <3>3. QED
      BY <2>1, <2>2, <2>3, <2>5, <3>1, <3>2, FoundHas
  <2>6. CASE e.chain = Icon
    <3> DEFINE es == {x \in Block(Icon, h) : x.bad = "no"}
               f == [x \in es |-> IF x.sig = "Message"
                                  THEN [parseMessage(x) EXCEPT !.Src = Icon]
                                  ELSE parseMessage(x)]
    <3>1. e \in es
      BY <2>1, <2>4, <2>6
    <3>2. GenerateMessages(Icon, Icon, h, Sigs) = Found(f)
      BY <2>1, <2>6, <3>1, MessagesAssumption DEF GenerateMessages, IconGenerateMessages
    <3>3. p.msg = parseMessage(e)
      BY <2>2, <2>6, MessagesAssumption DEF ParseOf
    <3>4. e.sig = "Message" => [parseMessage(e) EXCEPT !.Src = Icon] = parseMessage(e)
      BY DEF parseMessage, parseEmitMessageEvent, Message
    <3>5. e \in DOMAIN f /\ f[e] = p.msg
      BY <3>1, <3>3, <3>4
    <3> HIDE DEF f
    <3>6. QED
      BY <2>1, <2>2, <2>3, <2>6, <3>2, <3>5, FoundHas
  <2>7. CASE e.chain = Wasm
    <3> DEFINE es == {x \in Block(Wasm, h) : x.sig \in Sigs}
               f == [x \in es |-> ParseMessageFromEvent(x, h)]
    <3>1. GenerateMessages(Wasm, Wasm, h, Sigs) = Found(f)
      BY <2>1, <2>7, MessagesAssumption
         DEF GenerateMessages, fetchBlockMessages, ParseMessageFromEvents
    <3>2. p.msg = ParseMessageFromEvent(e, h)
      <4>1. PICK k \in {h, 0} : p.msg = ParseMessageFromEvent(e, k)
        BY <2>2, <2>7, MessagesAssumption DEF ParseOf
      <4>2. p.msg.MessageHeight = k
        BY <2>3, <4>1 DEF ParseMessageFromEvent, Message, Sigs
      <4>3. QED
        BY <2>3, <4>1, <4>2
    <3>3. e \in DOMAIN f /\ f[e] = p.msg
      BY <2>3, <2>4, <2>7, <3>2
    <3> HIDE DEF f
    <3>4. QED
      BY <2>1, <2>2, <2>3, <2>7, <3>1, <3>3, FoundHas
  <2>8. QED
    BY <2>3, <2>5, <2>6, <2>7 DEF Chains
<1>2. QED
  BY <1>1, MessagesAlways, PTL

\* The two switches over the event type, one case after the other: they differ
\* for SetAdmin only.
LEMMA SameSwitch ==
    ASSUME NEW m, m.EventType \in {"emitMessage", "revertMessage", "claimFee", "setFee",
                                   "callMessage", "rollbackMessage"}
    PROVE  EvmSendTransaction(m) = EstimateGas(m)
<1>1. CASE m.EventType = "emitMessage"
  <2> DEFINE call == Call(Evm, "connection", "recvMessage", <<m.Src, m.Sn, m.Data>>)
  <2>1. EvmSendTransaction(m) = call
    BY <1>1 DEF EvmSendTransaction
  <2>2. EstimateGas(m) = call
    BY <1>1 DEF EstimateGas
  <2> QED
    BY <2>1, <2>2
<1>2. CASE m.EventType = "revertMessage"
  <2> DEFINE call == Call(Evm, "connection", "revertMessage", <<m.Sn>>)
  <2>1. EvmSendTransaction(m) = call
    BY <1>2 DEF EvmSendTransaction
  <2>2. EstimateGas(m) = call
    BY <1>2 DEF EstimateGas
  <2> QED
    BY <2>1, <2>2
<1>3. CASE m.EventType = "claimFee"
  <2> DEFINE call == Call(Evm, "connection", "claimFees", <<>>)
  <2>1. EvmSendTransaction(m) = call
    BY <1>3 DEF EvmSendTransaction
  <2>2. EstimateGas(m) = call
    BY <1>3 DEF EstimateGas
  <2> QED
    BY <2>1, <2>2
<1>4. CASE m.EventType = "setFee"
  <2> DEFINE call == Call(Evm, "connection", "setFee", <<m.Src, m.Sn, m.ReqID>>)
  <2>1. EvmSendTransaction(m) = call
    BY <1>4 DEF EvmSendTransaction
  <2>2. EstimateGas(m) = call
    BY <1>4 DEF EstimateGas
  <2> QED
    BY <2>1, <2>2
<1>5. CASE m.EventType = "callMessage"
  <2> DEFINE call == Call(Evm, "xcall", "executeCall", <<m.ReqID, m.Data>>)
  <2>1. EvmSendTransaction(m) = call
    BY <1>5 DEF EvmSendTransaction
  <2>2. EstimateGas(m) = call
    BY <1>5 DEF EstimateGas
  <2> QED
    BY <2>1, <2>2
<1>6. CASE m.EventType = "rollbackMessage"
  <2> DEFINE call == Call(Evm, "xcall", "executeRollback", <<m.Sn>>)
  <2>1. EvmSendTransaction(m) = call
    BY <1>6 DEF EvmSendTransaction
  <2>2. EstimateGas(m) = call
    BY <1>6 DEF EstimateGas
  <2> QED
    BY <2>1, <2>2
<1> QED
  BY <1>1, <1>2, <1>3, <1>4, <1>5, <1>6

\* EstimateGas and SendTransaction make the same call of every message and of
\* every request, although they are two switches over the event type.
THEOREM EstimateMatches == Spec => []EstimatedIsSent
<1>1. MessagesInv => EstimatedIsSent
  <2> SUFFICES ASSUME MessagesInv PROVE EstimatedIsSent
    OBVIOUS
  <2>1. ASSUME NEW t \in txs, t.tx.chain = Evm
        PROVE  t.tx = EstimateGas(t.msg)
    <3>1. t.msg.Dst = Evm
      BY <2>1, TxOrigin, TransactionChain
    <3>2. t.ev \in Event /\ ParseOf(t.ev, t.msg) /\ t.tx = Transaction(t.msg.Dst, t.msg)
      BY TxOrigin
    <3>3. t.msg.EventType = GetEventName(t.ev.sig) /\ t.ev.sig \in Sigs
      BY <3>2, ParsedFields, EventFields
    <3>4. t.msg.EventType \in {"emitMessage", "callMessage", "rollbackMessage"}
      BY <3>3, EventNames DEF Sigs
    <3>5. t.tx = EvmSendTransaction(t.msg)
      BY <3>1, <3>2, MessagesAssumption DEF Transaction
    <3> QED
      BY <3>4, <3>5, SameSwitch
  <2>2. ASSUME NEW a \in asked, a.chain = Evm
        PROVE  a.tx = EstimateGas(EvmRequest(a.req))
    <3>1. a.req \in Request /\ a.tx = RequestTransaction(a.chain, a.req)
      BY DEF MessagesInv, AskedOK
    <3>2. a.tx = EvmSendTransaction(EvmRequest(a.req))
      BY <2>2, <3>1, MessagesAssumption DEF RequestTransaction
    <3>3. a.req.type \in {"revertMessage", "setFee", "claimFee"}
      BY <3>1 DEF Request
    <3>4. EvmRequest(a.req).EventType = a.req.type
      <4>1. CASE a.req.type = "revertMessage"
        BY <4>1 DEF EvmRequest, Blank
      <4>2. CASE a.req.type = "setFee"
        BY <4>2 DEF EvmRequest, Blank
      <4>3. CASE a.req.type = "claimFee"
        BY <4>3 DEF EvmRequest, Blank
      <4> QED
        BY <3>3, <4>1, <4>2, <4>3
    <3> QED
      BY <3>2, <3>3, <3>4, SameSwitch
  <2>3. QED
    BY <2>1, <2>2 DEF EstimatedIsSent
<1>2. QED
  BY <1>1, MessagesAlways, PTL

\* MessageReceived asks for the receipt that the transaction of the message
\* leaves behind, and no two events share one.
THEOREM ReceiptsMatch == Spec => []ReceiptAsked
<1>1. MessagesInv => ReceiptAsked
  <2> SUFFICES ASSUME MessagesInv PROVE ReceiptAsked
    OBVIOUS
  <2>1. ASSUME NEW t \in txs, t.msg.EventType = "emitMessage"
        PROVE  MessageReceived(t.msg.Dst, t.msg) = <<t.tx.args[1], t.tx.args[2]>>
    <3>1. t.msg.Dst \in Chains /\ t.tx = Transaction(t.msg.Dst, t.msg)
      BY TxOrigin
    <3>2. CASE t.msg.Dst = Evm
      BY <2>1, <3>1, <3>2, MessagesAssumption
         DEF MessageReceived, EvmMessageReceived, Transaction, EvmSendTransaction, Call
    <3>3. CASE t.msg.Dst = Icon
      BY <2>1, <3>1, <3>3, MessagesAssumption
         DEF MessageReceived, IconMessageReceived, Transaction, MakeIconMessage, Call
    <3>4. CASE t.msg.Dst = Wasm
      BY <2>1, <3>1, <3>4, MessagesAssumption
         DEF MessageReceived, WasmMessageReceived, Transaction, WasmCall,
             getRawContractMessage, Call
    <3>5. QED
      BY <3>1, <3>2, <3>3, <3>4 DEF Chains
  <2>2. ASSUME NEW p \in msgs, NEW q \in msgs,
               p.msg.EventType = "emitMessage", q.msg.EventType = "emitMessage",
               p.msg.Dst = q.msg.Dst, Fits(p.msg.Sn), Fits(q.msg.Sn),
               MessageReceived(p.msg.Dst, p.msg) = MessageReceived(q.msg.Dst, q.msg)
        PROVE  p.ev = q.ev
    <3>1. \A x \in msgs : x.ev \in events /\ x.ev \in Event /\ ParseOf(x.ev, x.msg)
      BY DEF MessagesInv, MsgsOK, FoundOK, EventsOK
    <3>2. ASSUME NEW x \in {p, q}
          PROVE  /\ x.ev.sig = "Message" /\ x.msg.Src = x.ev.chain /\ x.msg.Sn = x.ev.sn
                 /\ x.msg.Dst \in Chains /\ Int64(x.msg.Sn) = x.msg.Sn
      <4>1. x.ev.sig = "Message"
        BY <2>2, <3>1, <3>2, EventTypes, ParsedFields
      <4>2. QED
        BY <2>2, <3>1, <3>2, <4>1, EventFields, ParsedFields, FitsInt64
    <3>3. /\ MessageReceived(p.msg.Dst, p.msg) = <<p.msg.Src, p.msg.Sn>>
          /\ MessageReceived(q.msg.Dst, q.msg) = <<q.msg.Src, q.msg.Sn>>
      BY <2>2, <3>2, MessagesAssumption
         DEF MessageReceived, EvmMessageReceived, IconMessageReceived, WasmMessageReceived, Chains
    <3>4. p.ev.chain = q.ev.chain /\ p.ev.sn = q.ev.sn /\ p.ev.sig = q.ev.sig
      <4>1. <<p.msg.Src, p.msg.Sn>> = <<q.msg.Src, q.msg.Sn>>
        BY <2>2, <3>3
      <4>2. p.msg.Src = q.msg.Src /\ p.msg.Sn = q.msg.Sn
        BY <4>1
      <4>3. QED
        BY <3>2, <4>2
    <3>5. QED
      BY <3>1, <3>4 DEF MessagesInv, EventsOK
  <2>3. QED
    BY <2>1, <2>2 DEF ReceiptAsked
<1>2. QED
  BY <1>1, MessagesAlways, PTL

\* One request and its transaction.
LEMMA RequestTransactionWanted ==
    ASSUME NEW c \in Chains, NEW r \in Request,
           c = Icon => \A f \in DOMAIN r \cap {"sn", "msgFee", "resFee"} : Fits(r[f])
    PROVE  RequestTransaction(c, r) = RequestWanted(c, r)
<1> USE MessagesAssumption
<1>1. CASE r \in [type : {"revertMessage"}, sn : Sns]
  <2>1. RequestWanted(c, r) = Call(c, "connection", "revertMessage", <<r.sn>>)
    BY <1>1 DEF RequestWanted
  <2>2. CASE c = Evm
    <3>1. EvmRequest(r).EventType = "revertMessage" /\ EvmRequest(r).Sn = r.sn
      BY <1>1 DEF EvmRequest, Blank
    <3>2. QED
      BY <2>1, <2>2, <3>1 DEF RequestTransaction, EvmSendTransaction
  <2>3. CASE c = Wasm
    <3>1. WasmRequest(r).EventType = "revertMessage" /\ WasmRequest(r).Sn = r.sn
      BY <1>1 DEF WasmRequest, Blank
    <3>2. QED
      BY <2>1, <2>3, <3>1 DEF RequestTransaction, WasmCall, WasmMethod, getRawContractMessage
  <2>4. CASE c = Icon
    <3>1. "sn" \in DOMAIN r /\ r.sn \in Nat /\ r.type = "revertMessage"
      BY <1>1
    <3>2. Int64(r.sn) = r.sn
      BY <2>4, <3>1, FitsInt64
    <3>3. QED
      BY <2>1, <2>4, <3>1, <3>2 DEF RequestTransaction, IconRevertMessage
  <2>5. QED
    BY <2>2, <2>3, <2>4 DEF Chains
<1>2. CASE r \in [type : {"setFee"}, net : Chains, msgFee : Sns, resFee : ReqIDs]
  <2>1. RequestWanted(c, r) = Call(c, "connection", "setFee", <<r.net, r.msgFee, r.resFee>>)
    BY <1>2 DEF RequestWanted
  <2>2. CASE c = Evm
    <3>1. /\ EvmRequest(r).EventType = "setFee" /\ EvmRequest(r).Src = r.net
          /\ EvmRequest(r).Sn = r.msgFee /\ EvmRequest(r).ReqID = r.resFee
      BY <1>2 DEF EvmRequest, Blank
    <3>2. QED
      BY <2>1, <2>2, <3>1 DEF RequestTransaction, EvmSendTransaction
  <2>3. CASE c = Wasm
    <3>1. /\ WasmRequest(r).EventType = "setFee" /\ WasmRequest(r).Src = r.net
          /\ WasmRequest(r).Sn = r.msgFee /\ WasmRequest(r).ReqID = r.resFee
      BY <1>2 DEF WasmRequest, Blank
    <3>2. QED
      BY <2>1, <2>3, <3>1 DEF RequestTransaction, WasmCall, WasmMethod, getRawContractMessage
  <2>4. CASE c = Icon
    <3>1. /\ {"msgFee", "resFee"} \subseteq DOMAIN r /\ r.type = "setFee"
          /\ r.msgFee \in Nat /\ r.resFee \in Nat
      BY <1>2
    <3>2. Int64(r.msgFee) = r.msgFee /\ Int64(r.resFee) = r.resFee
      BY <2>4, <3>1, FitsInt64
    <3>3. QED
      BY <2>1, <2>4, <3>1, <3>2 DEF RequestTransaction, IconFeeRequest
  <2>5. QED
    BY <2>2, <2>3, <2>4 DEF Chains
<1>3. CASE r \in [type : {"claimFee"}]
  <2>1. RequestWanted(c, r) = Call(c, "connection", "claimFees", <<>>)
    BY <1>3 DEF RequestWanted
  <2>2. CASE c = Evm
    <3>1. EvmRequest(r).EventType = "claimFee"
      BY <1>3 DEF EvmRequest, Blank
    <3>2. QED
      BY <2>1, <2>2, <3>1 DEF RequestTransaction, EvmSendTransaction
  <2>3. CASE c = Wasm
    <3>1. WasmRequest(r).EventType = "claimFee"
      BY <1>3 DEF WasmRequest, Blank
    <3>2. QED
      BY <2>1, <2>3, <3>1 DEF RequestTransaction, WasmCall, WasmMethod, getRawContractMessage
  <2>4. CASE c = Icon
    BY <1>3, <2>1, <2>4 DEF RequestTransaction, IconFeeRequest
  <2>5. QED
    BY <2>2, <2>3, <2>4 DEF Chains
<1>4. QED
  BY <1>1, <1>2, <1>3 DEF Request

\* RevertMessage, SetFee and ClaimFee send what the operator asked for, on all
\* three kinds of chains.
THEOREM RequestsHonoured == Spec => []RequestHonoured
<1>1. MessagesInv => RequestHonoured
  <2>1. SUFFICES ASSUME MessagesInv, NEW a \in asked,
                        a.chain = Icon =>
                          \A f \in DOMAIN a.req \cap {"sn", "msgFee", "resFee"} : Fits(a.req[f])
                 PROVE  a.tx = RequestWanted(a.chain, a.req)
    BY DEF RequestHonoured
  <2>2. /\ a.chain \in Chains /\ a.req \in Request
        /\ a.tx = RequestTransaction(a.chain, a.req)
    BY <2>1 DEF MessagesInv, AskedOK
  <2>3. QED
    BY <2>1, <2>2, RequestTransactionWanted
<1>2. QED
  BY <1>1, MessagesAlways, PTL
============================================================================
