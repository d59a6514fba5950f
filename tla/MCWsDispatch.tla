---------------------------- MODULE MCWsDispatch ----------------------------
(* Small instances of WsDispatch: every kind of message, in pairs.         *)
EXTENDS WsDispatch

AllHandlers ==
  {"onMessage", "onError", "onSnapshot", "onUpdate", "onTxResponse", "onBatchTxResponse",
   "onAssetUpdate", "onOrderUpdate", "onPositionUpdate", "onTradeUpdate", "onFundingUpdate"}

MCRegistered == {AllHandlers, AllHandlers \ {"onMessage"}, {"onUpdate", "onTradeUpdate"}, {}}
MCAllRegistered == {AllHandlers}

Types == {"connected", "subscribed", "subscribed/order_book", "update/order_book",
          "subscribed/account_market", "update/account_market", "jsonapi/sendtx",
          "response/jsonapi/sendtx", "jsonapi/sendtxbatch", "response/jsonapi/sendtxbatch",
          "error", "ping", ""}

NoChannel == [colon |-> None, slash |-> None]

Message(t, e, c, f, ch, ps) ==
  [type |-> t, error |-> e, code |-> c, fits |-> f, channel |-> ch, parts |-> ps]

Plain(t) == Message(t, Absent, 0, TRUE, NoChannel, {})
AtMarket(a, b) == [Plain("update/order_book") EXCEPT !.channel = [colon |-> a, slash |-> b]]

\* Every type; what a type that carries data does with every kind of error and
\* with data that does not decode; channels with and without a market; and
\* account updates with one part, two and all.
MCTraffic ==
  {Plain(t) : t \in Types}
  \cup {[Plain(t) EXCEPT !.error = e] : e \in {Malformed, 21},
          t \in {"subscribed/order_book", "update/account_market", "jsonapi/sendtx", ""}}
  \cup {[Plain("update/order_book") EXCEPT !.error = 0], [Plain("error") EXCEPT !.code = 30]}
  \cup {[Plain(t) EXCEPT !.fits = FALSE] : t \in {"subscribed/order_book", "jsonapi/sendtxbatch"}}
  \cup {AtMarket(7, None), AtMarket(None, 0), AtMarket(65535, None), AtMarket(65536, 7)}
  \cup {[Plain("update/account_market") EXCEPT !.parts = ps] :
          ps \in {{"onTradeUpdate"}, {"onOrderUpdate", "onFundingUpdate"},
                  {"onAssetUpdate", "onOrderUpdate", "onPositionUpdate", "onTradeUpdate",
                   "onFundingUpdate"}}}

MCBookTraffic ==
  {Plain("subscribed/order_book"), Plain("update/order_book"),
   [Plain("error") EXCEPT !.error = 21]}
=============================================================================
