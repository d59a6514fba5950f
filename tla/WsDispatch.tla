----------------------------- MODULE WsDispatch -----------------------------
(***************************************************************************)
(* What becomes of the messages that the read loop returns.  Each message  *)
(* gets a goroutine of its own, which decides from the message's type and  *)
(* error which of the user's handlers to call, and calls them one by one.  *)
(* The goroutines of different messages run in any order.                  *)
(*                                                                         *)
(* client is which of the three clients dispatches: "book", "tx" or        *)
(* "account".  A message is abstracted to what the decisions depend on:    *)
(*   type     its "type" field                                             *)
(*   error    its "error" field: absent, not an object, or the code of it  *)
(*   code     its "code" field (0 when absent)                             *)
(*   fits     whether the rest of it decodes into the typed structure      *)
(*   channel  the numbers after the first ':' and the first '/' of         *)
(*            "channel" (None when there is none), for order books         *)
(*   parts    the non-empty parts of an account market update              *)
(***************************************************************************)
EXTENDS Integers, Sequences

CONSTANTS Traffic,      \* the messages the server may send
          Registered,   \* the choices of handlers a user may register
          MaxMessages   \* bound: messages read

\* Values outside the numbers: no number, no error field, one that is no object.
None == -1
Absent == -1
Malformed == -2

VARIABLES client,       \* which client this is
          handlers,     \* the handlers that are not nil
          read,         \* history: the messages read so far, in order
          pending,      \* the calls that every goroutine still has to make
          calls         \* history: <<message number, call>> in order

vars == <<client, handlers, read, pending, calls>>
-----------------------------------------------------------------------------
(* From a message to the calls it causes *)

\* Fault: a handler is called whether or not it is nil.
CallUnchecked(handler, arg) == <<[handler |-> handler, arg |-> arg]>>

Call(handler, arg) == IF handler \in handlers THEN <<[handler |-> handler, arg |-> arg]>>
                                              ELSE <<>>

\* strconv.ParseUint(_, 10, 16)
MaxUint16 == 65535
IsUint16(n) == n \in 0 .. MaxUint16

NoMarket == MaxUint16

extractMarketIDColonOnly(channel) ==
  IF IsUint16(channel.colon) THEN channel.colon ELSE NoMarket

extractMarketID(channel) ==
  CASE IsUint16(channel.colon) -> channel.colon
    [] ~IsUint16(channel.colon) /\ IsUint16(channel.slash) -> channel.slash
    [] OTHER -> NoMarket

\* The account market client looks into the nested error first; the others
\* decode the message's own code, which a nested error does not set.
handleError(m) ==
  IF client = "account" /\ m.error \notin {Absent, Malformed, 0}
  THEN Call("onError", m.error)
  ELSE IF m.fits THEN Call("onError", m.code) ELSE <<>>

handleOrderBook(m, handler) ==
  IF m.fits /\ extractMarketID(m.channel) # NoMarket
  THEN Call(handler, extractMarketID(m.channel)) ELSE <<>>

handleDecoded(m, handler) == IF m.fits THEN Call(handler, None) ELSE <<>>

\* The general handler, then one handler for each part that is present.
handleUpdateAccountMarket(m) ==
  LET Part(p) == IF p \in m.parts THEN Call(p, None) ELSE <<>>
  IN  IF m.fits
      THEN Call("onUpdate", None) \o Part("onAssetUpdate") \o Part("onOrderUpdate")
             \o Part("onPositionUpdate") \o Part("onTradeUpdate")
             \o Part("onFundingUpdate")
      ELSE <<>>

bookCalls(m) ==
  CASE m.type = "subscribed/order_book" -> handleOrderBook(m, "onSnapshot")
    [] m.type = "update/order_book" -> handleOrderBook(m, "onUpdate")
    [] m.type = "error" -> handleError(m)
    [] OTHER -> <<>>

txCalls(m) ==
  CASE m.type \in {"jsonapi/sendtx", "response/jsonapi/sendtx"} ->
         handleDecoded(m, "onTxResponse")
    [] m.type \in {"jsonapi/sendtxbatch", "response/jsonapi/sendtxbatch"} ->
         handleDecoded(m, "onBatchTxResponse")
    [] m.type = "error" -> handleError(m)
    [] OTHER -> <<>>

accountCalls(m) ==
  CASE m.type = "subscribed/account_market" -> handleDecoded(m, "onSnapshot")
    [] m.type = "update/account_market" -> handleUpdateAccountMarket(m)
    [] m.type = "error" -> handleError(m)
    [] OTHER -> <<>>

typedCalls(m) ==
  CASE client = "book" -> bookCalls(m)
    [] client = "tx" -> txCalls(m)
    [] client = "account" -> accountCalls(m)

\* Fault: no return after an error.
processMessageGoesOn(m) ==
  IF m.error = Malformed THEN <<>>
  ELSE (IF m.error # Absent THEN handleError(m) ELSE <<>>)
         \o Call("onMessage", None) \o typedCalls(m)

\* An error field that is no object fails the first decoding.
processMessage(m) ==
  IF m.error = Malformed THEN <<>>
  ELSE IF m.error # Absent THEN handleError(m)
  ELSE Call("onMessage", None) \o typedCalls(m)
-----------------------------------------------------------------------------
Init ==
  /\ client \in {"book", "tx", "account"} /\ handlers \in Registered
  /\ read = <<>> /\ pending = <<>> /\ calls = <<>>

\* Fault: the read loop calls processMessage itself.
ReadsInTurn(m) ==
  /\ Len(read) < MaxMessages
  /\ \A i \in DOMAIN pending : pending[i] = <<>>
  /\ read' = Append(read, m)
  /\ pending' = Append(pending, processMessage(m))
  /\ UNCHANGED <<client, handlers, calls>>

\* ReadMessage returned m: `go c.processMessage(m)'.
Reads(m) ==
  /\ Len(read) < MaxMessages
  /\ read' = Append(read, m)
  /\ pending' = Append(pending, processMessage(m))
  /\ UNCHANGED <<client, handlers, calls>>

\* The goroutine of message i calls its next handler.
Calls(i) ==
  /\ pending[i] # <<>>
  /\ calls' = Append(calls, <<i, Head(pending[i])>>)
  /\ pending' = [pending EXCEPT ![i] = Tail(@)]
  /\ UNCHANGED <<client, handlers, read>>

ReadsAny == \E m \in Traffic : Reads(m)

Next == ReadsAny \/ \E i \in DOMAIN pending : Calls(i)

Spec == Init /\ [][Next]_vars

\* The server sends and the read loop runs; a user's handler may block.
ReadSpec == Spec /\ WF_vars(ReadsAny)
-----------------------------------------------------------------------------
(* Properties *)

\* Every variable keeps its type: there is a goroutine for every message
\* read, and it never calls a handler that is not registered.
TypeOK ==
  /\ client \in {"book", "tx", "account"} /\ handlers \in Registered
  /\ read \in Seq(Traffic) /\ Len(pending) = Len(read)
  /\ \A i \in DOMAIN calls : /\ calls[i][1] \in DOMAIN read
                             /\ calls[i][2].handler \in handlers

\* The calls that the goroutine of message i has made.
CallsOf(i) == {calls[k][2] : k \in {j \in DOMAIN calls : calls[j][1] = i}}

\* A message that carries an error is never taken for data, and is reported
\* once: it reaches the error handler, by one call, or none.
ErrorsAreNotData ==
  \A k \in DOMAIN calls : read[calls[k][1]].error # Absent =>
    /\ calls[k][2].handler = "onError"
    /\ \A l \in DOMAIN calls : calls[l][1] = calls[k][1] => l = k

Markets == 0 .. NoMarket - 1

\* A well-formed order book message whose channel names a market below 65535,
\* after ':' or after '/', is handed over with that market.
BookReachesItsMarket ==
  \A i \in DOMAIN read :
    LET m == read[i] IN
    (/\ client = "book" /\ pending[i] = <<>> /\ "onUpdate" \in handlers
     /\ m.type = "update/order_book" /\ m.error = Absent /\ m.fits
     /\ \E n \in Markets : n \in {m.channel.colon, m.channel.slash}
     /\ NoMarket \notin {m.channel.colon, m.channel.slash})
    => \E c \in CallsOf(i) :
         c.handler = "onUpdate" /\ c.arg \in {m.channel.colon, m.channel.slash}

\* A handler that blocks does not keep the read loop from reading on.
ReadsOn == <>(Len(read) = MaxMessages)
=============================================================================
