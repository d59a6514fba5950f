--------------------------- MODULE MCTransactions ---------------------------
(* A small instance of Transactions: of every type a valid call, and calls *)
(* that differ from it in one field, or in two that share a rule; and the  *)
(* groups of orders, of each kind, that keep the rules or break them.      *)
EXTENDS Transactions, TLC

MCMax == 2

Base == [market |-> 0, clientOrderIndex |-> 0, baseAmount |-> 0, price |-> 1, isAsk |-> 0,
         type |-> 0, timeInForce |-> 0, reduceOnly |-> 1, triggerPrice |-> 0,
         orderExpiry |-> 0]

\* One field out of range or unlike the other order's.
Odd == {[Base EXCEPT !.market = 1], [Base EXCEPT !.clientOrderIndex = 1],
        [Base EXCEPT !.clientOrderIndex = -1], [Base EXCEPT !.baseAmount = MCMax + 1],
        [Base EXCEPT !.baseAmount = -1], [Base EXCEPT !.price = 0],
        [Base EXCEPT !.timeInForce = 3], [Base EXCEPT !.reduceOnly = 2],
        [Base EXCEPT !.orderExpiry = -1], [Base EXCEPT !.type = 6],
        [Base EXCEPT !.type = 7]}

\* Amount and reduceOnly, together.
Amounts == {<<0, 1>>, <<1, 1>>, <<2, 1>>, <<1, 0>>, <<0, 0>>}

OrdersOver(types, times, expiries, triggers, asks, amounts) ==
  {[Base EXCEPT !.baseAmount = a[1], !.reduceOnly = a[2], !.isAsk = s, !.type = y,
                !.timeInForce = f, !.triggerPrice = g, !.orderExpiry = e] :
     a \in amounts, s \in asks, y \in types, f \in times, g \in triggers, e \in expiries}

Group(g, os) == [header |-> TRUE, grouping |-> g, orders |-> os]

Parents == OrdersOver({0, 1}, {0, 1}, {0, 1}, {0}, {0, 1, 2}, {<<1, 0>>})
Triggered == OrdersOver({2, 3}, {0, 1}, {0, 1, 2}, {0, 1}, {0, 1}, {<<0, 1>>, <<0, 0>>, <<1, 0>>})
Siblings == OrdersOver(2 .. 4, {0, 1}, {1, 2}, {1}, {0, 1}, {<<1, 1>>, <<2, 1>>, <<1, 0>>})

\* A parent with one child, two siblings, and a parent with two siblings.
MCTriggers == {Group(1, <<o, p>>) : o \in Parents, p \in Triggered}
MCCancels == {Group(2, <<o, p>>) : o \in Siblings, p \in Siblings}
MCTriples ==
  {Group(3, <<o, p, q>>) :
     o \in OrdersOver({0}, {0, 1}, {0, 1}, {0}, {0, 1}, {<<1, 0>>}),
     p \in OrdersOver({2, 5}, {0}, {1, 2}, {1}, {0, 1}, {<<0, 0>>, <<0, 1>>}),
     q \in OrdersOver({2, 5}, {0}, {1, 2}, {1}, {0, 1}, {<<0, 0>>, <<0, 1>>})}

\* An odd order first or second under every grouping, and groups of no order.
Plain == OrdersOver({0, 4}, {0}, {0, 1}, {0, 1}, {1}, Amounts)
MCOdd ==
  {Group(g, <<o, p>>) : g \in 0 .. 4, o \in Odd, p \in Plain}
  \cup {Group(g, <<p, o>>) : g \in 0 .. 4, o \in Odd, p \in Plain}
MCEmpty == {[Group(2, <<>>) EXCEPT !.header = h] : h \in BOOLEAN}

MCSubmissions == MCTriggers \cup MCCancels \cup MCTriples \cup MCOdd \cup MCEmpty
-----------------------------------------------------------------------------
Header == [account |-> 1, apiKey |-> 0, nonce |-> 0, expiredAt |-> 0]

Key(n) == <<n, 0, 0, 0, 1>>

\* Every type's base, and the values of a field that are tried in its place:
\* both sides of each bound, and the ends of its Go type.
Bases ==
  LET Call(kind, args) == [kind |-> kind] @@ Header @@ args
  IN {Call("ChangePubKey", [pubKey |-> Key(1)]), Call("CreateSubAccount", Header),
      Call("CreatePublicPool", [operatorFee |-> 0, initialTotalShares |-> 1, minOperatorShareRate |-> 0]),
      Call("UpdatePublicPool", [publicPoolIndex |-> 0, status |-> 0, operatorFee |-> 0,
                                minOperatorShareRate |-> 0]),
      Call("Transfer", [toAccountIndex |-> 2, usdcAmount |-> 1, fee |-> 0, memo |-> "m1"]),
      Call("Withdraw", [usdcAmount |-> 1]),
      Call("CreateOrder", [Base EXCEPT !.baseAmount = 1]),
      Call("CreateOrder", [Base EXCEPT !.type = 2, !.triggerPrice = 1, !.orderExpiry = 1]),
      Call("CancelOrder", [market |-> 0, index |-> 1]),
      Call("CancelAllOrders", [timeInForce |-> 0, time |-> 0]),
      Call("CancelAllOrders", [timeInForce |-> 1, time |-> 1]),
      Call("ModifyOrder", [market |-> 0, index |-> 1, baseAmount |-> 0, price |-> 1, triggerPrice |-> 0]),
      Call("MintShares", [publicPoolIndex |-> 0, shareAmount |-> 1]),
      Call("BurnShares", [publicPoolIndex |-> 0, shareAmount |-> 1]),
      Call("UpdateLeverage", [market |-> 0, initialMarginFraction |-> 1, marginMode |-> 0]),
      Call("UpdateMargin", [market |-> 0, usdcAmount |-> 1, direction |-> 0])}

Amounts64 == {-512, -1, 0, 1, 31, 32, 33, 62, 63, 64, 65, 100, 101, 200, 201, 264, 272, 400, 401, 511}
Longs == {"account", "nonce", "expiredAt", "operatorFee", "initialTotalShares",
          "minOperatorShareRate", "publicPoolIndex", "toAccountIndex", "usdcAmount", "fee",
          "index", "time", "shareAmount", "clientOrderIndex", "baseAmount", "orderExpiry"}

Values(f) ==
  CASE f \in Longs -> Amounts64 \cup {-511, 2, 254, 255, 482}
    [] f \in {"apiKey", "market", "initialMarginFraction"} -> {-1, 0, 1, 6, 7, 8, 10, 11, 15, 16, 17}
    [] f \in {"price", "triggerPrice"} -> {-1, 0, 1, 31, 32, 33}
    [] f = "memo" -> {"m1", "m2", "short"}
    [] f = "pubKey" -> {Key(n) : n \in {0, 1, 992, 993, 1023}} \cup {<<0, 0, 0, 0, 0>>, <<1>>}
    [] OTHER -> {-1, 0, 1, 2, 3, 6, 7, 8, 9}

Changed(b, f) == {[b EXCEPT ![f] = v] : v \in Values(f)}
Pairs == {<<"usdcAmount", "fee">>, <<"usdcAmount", "direction">>, <<"timeInForce", "time">>,
          <<"type", "timeInForce">>, <<"timeInForce", "orderExpiry">>, <<"baseAmount", "reduceOnly">>}

MCCalls ==
  UNION {UNION {Changed(b, f) : f \in DOMAIN b \ {"kind"}} : b \in Bases}
  \cup UNION {UNION {UNION {Changed(c, p[2]) : c \in Changed(b, p[1])} :
                        p \in {q \in Pairs : {q[1], q[2]} \subseteq DOMAIN b}} : b \in Bases}

\* The last of these keys is the nil key, which no group may have.
MCGroupCalls ==
  {[kind |-> "CreateGroupedOrders"] @@ h :
     h \in {Header, [Header EXCEPT !.account = 0], [Header EXCEPT !.nonce = 1],
            [Header EXCEPT !.expiredAt = 1], [Header EXCEPT !.apiKey = 1],
            [Header EXCEPT !.apiKey = 7]}}
=============================================================================
