--------------------------- MODULE GroupedOrders ----------------------------
(***************************************************************************)
(* Which orders are signed: the validation of a single order and of a      *)
(* group of two or three orders that trigger or cancel each other.  An     *)
(* order is what the rules look at.  The fields of the transaction itself  *)
(* (account, API key, nonce, expiry of the transaction) are checked alike  *)
(* for both kinds, and are one field here, `header'.  Bounds that the      *)
(* width of a Go type enforces anyway (prices, trigger prices, markets,    *)
(* the largest expiry) are not repeated.                                   *)
(***************************************************************************)
EXTENDS Integers, Sequences

CONSTANTS Submissions,          \* the groups that callers submit
          MaxOrderBaseAmount

LimitOrder == 0
MarketOrder == 1
StopLoss == {2, 3}              \* StopLossOrder, StopLossLimitOrder
TakeProfit == {4, 5}            \* TakeProfitOrder, TakeProfitLimitOrder
AtMarket == {2, 4}              \* StopLossOrder, TakeProfitOrder
TWAPOrder == 6

ImmediateOrCancel == 0
GoodTillTime == 1
PostOnly == 2

OneTriggersTheOther == 1
OneCancelsTheOther == 2
OneTriggersAOneCancelsTheOther == 3

Nil == 0                        \* of a client index, amount, expiry, trigger price

Order == [market : Nat, clientOrderIndex : Int, baseAmount : Int, price : Nat,
          isAsk : Nat, type : Nat, timeInForce : Nat, reduceOnly : Nat,
          triggerPrice : Nat, orderExpiry : Int]

ASSUME MaxAssumption == MaxOrderBaseAmount \in Nat \ {0}
ASSUME SubmissionAssumption ==
  Submissions \subseteq [header : BOOLEAN, grouping : Nat, orders : Seq(Order)]
-----------------------------------------------------------------------------
(* The rules of an order's type *)

TypedAsParent(o) ==
  \/ /\ o.type = MarketOrder
     /\ o.timeInForce = ImmediateOrCancel /\ o.orderExpiry = Nil /\ o.triggerPrice = Nil
  \/ /\ o.type = LimitOrder
     /\ o.triggerPrice = Nil
     /\ (o.timeInForce = ImmediateOrCancel) <=> (o.orderExpiry = Nil)

\* Faults: the time in force of a child at market goes unchecked; a child may
\* be without an expiry.
TypedAsChildAnyTime(o) ==
  /\ o.type \in StopLoss \cup TakeProfit
  /\ o.triggerPrice # Nil /\ o.orderExpiry # Nil

TypedAsChildNoExpiry(o) ==
  /\ o.type \in StopLoss \cup TakeProfit
  /\ o.type \in AtMarket => o.timeInForce = ImmediateOrCancel
  /\ o.triggerPrice # Nil

TypedAsChild(o) ==
  /\ o.type \in StopLoss \cup TakeProfit
  /\ o.type \in AtMarket => o.timeInForce = ImmediateOrCancel
  /\ o.triggerPrice # Nil /\ o.orderExpiry # Nil

\* The same rules again, as the validation of a single order writes them.
TypedAlone(o) ==
  \/ /\ o.type \in {MarketOrder} \cup AtMarket
     /\ o.timeInForce = ImmediateOrCancel
     /\ IF o.type = MarketOrder THEN o.orderExpiry = Nil /\ o.triggerPrice = Nil
                               ELSE o.orderExpiry # Nil /\ o.triggerPrice # Nil
  \/ /\ o.type = LimitOrder /\ o.triggerPrice = Nil
     /\ IF o.timeInForce = ImmediateOrCancel THEN o.orderExpiry = Nil ELSE o.orderExpiry # Nil
  \/ /\ o.type \in (StopLoss \cup TakeProfit) \ AtMarket
     /\ o.triggerPrice # Nil /\ o.orderExpiry # Nil
  \/ /\ o.type = TWAPOrder /\ o.timeInForce = GoodTillTime
     /\ o.triggerPrice = Nil /\ o.orderExpiry # Nil
-----------------------------------------------------------------------------
(* The rules of an order alone, and of an order in a group *)

AmountInRange(o) ==
  /\ o.reduceOnly # 1 => o.baseAmount # Nil
  /\ o.baseAmount = Nil \/ o.baseAmount >= 1
  /\ o.baseAmount <= MaxOrderBaseAmount

FlagsInRange(o) ==
  /\ o.isAsk \in {0, 1} /\ o.reduceOnly \in {0, 1}
  /\ o.timeInForce \in {ImmediateOrCancel, GoodTillTime, PostOnly}

OrderInRange(o) ==
  /\ AmountInRange(o) /\ FlagsInRange(o)
  /\ o.price >= 1
  /\ o.orderExpiry >= 1 \/ o.orderExpiry = Nil

\* L2CreateOrderTxInfo.Validate.  A client index is at most 2^48 - 1, which no
\* group reaches: theirs is nil.
ValidateOrder(o) ==
  /\ o.clientOrderIndex >= Nil
  /\ OrderInRange(o)
  /\ TypedAlone(o)

GroupedInRange(o, first) ==
  /\ o.market = first.market /\ o.clientOrderIndex = Nil
  /\ OrderInRange(o)
-----------------------------------------------------------------------------
(* The rules of a group *)

ValidateSiblingOrders(a, b) ==
  /\ TypedAsChild(a) /\ TypedAsChild(b)
  /\ a.type \in StopLoss \/ b.type \in StopLoss
  /\ a.type \in TakeProfit \/ b.type \in TakeProfit

ValidateOCO(orders) ==
  /\ Len(orders) = 2
  /\ orders[1].baseAmount = orders[2].baseAmount
  /\ orders[1].isAsk = orders[2].isAsk
  /\ orders[1].reduceOnly = 1 /\ orders[2].reduceOnly = 1
  /\ orders[1].orderExpiry = orders[2].orderExpiry
  /\ ValidateSiblingOrders(orders[1], orders[2])

\* Fault: the amount of the child goes unchecked.
ValidateOTOAnyAmount(orders) ==
  /\ Len(orders) = 2
  /\ orders[1].isAsk # orders[2].isAsk
  /\ orders[1].orderExpiry \in {Nil, orders[2].orderExpiry}
  /\ TypedAsParent(orders[1]) /\ TypedAsChild(orders[2])

ValidateOTO(orders) ==
  /\ Len(orders) = 2
  /\ orders[2].baseAmount = Nil
  /\ orders[1].isAsk # orders[2].isAsk
  /\ orders[1].orderExpiry \in {Nil, orders[2].orderExpiry}
  /\ TypedAsParent(orders[1]) /\ TypedAsChild(orders[2])

ValidateOTOCO(orders) ==
  /\ Len(orders) = 3
  /\ orders[2].baseAmount = Nil /\ orders[3].baseAmount = Nil
  /\ orders[1].isAsk # orders[2].isAsk /\ orders[1].isAsk # orders[3].isAsk
  /\ orders[2].orderExpiry = orders[3].orderExpiry
  /\ orders[1].orderExpiry \in {Nil, orders[2].orderExpiry}
  /\ TypedAsParent(orders[1]) /\ ValidateSiblingOrders(orders[2], orders[3])

\* The length is checked before the first order is looked at.
Validate(g) ==
  /\ g.header /\ Len(g.orders) \in 1 .. 3
  /\ \A i \in DOMAIN g.orders : GroupedInRange(g.orders[i], g.orders[1])
  /\ \/ g.grouping = OneCancelsTheOther /\ ValidateOCO(g.orders)
     \/ g.grouping = OneTriggersTheOther /\ ValidateOTO(g.orders)
     \/ g.grouping = OneTriggersAOneCancelsTheOther /\ ValidateOTOCO(g.orders)
-----------------------------------------------------------------------------
VARIABLES tx,      \* the group that a caller submits
          verdict  \* "none" before it is validated

vars == <<tx, verdict>>

Init == tx \in Submissions /\ verdict = "none"

\* ConstructL2CreateGroupedOrdersTx: an error, or hash and sign.
Construct == /\ verdict = "none"
             /\ verdict' = IF Validate(tx) THEN "signed" ELSE "error"
             /\ UNCHANGED tx

Next == Construct

Spec == Init /\ [][Next]_vars
-----------------------------------------------------------------------------
(* Properties *)

\* Every variable keeps its type, and only groups of two or three are signed.
TypeOK == /\ tx \in [header : BOOLEAN, grouping : Nat, orders : Seq(Order)]
          /\ verdict \in {"none", "signed", "error"}
          /\ verdict = "signed" => Len(tx.orders) \in 2 .. 3

Signed == verdict = "signed"
HasParent == tx.grouping # OneCancelsTheOther
Parent == tx.orders[1]
Children == {tx.orders[i] : i \in {j \in DOMAIN tx.orders : HasParent => j # 1}}

\* The rule on top of the file: whatever the primary order is, the orders that
\* it triggers, and those that cancel each other, only reduce a position.
\* Nothing checks that for a triggered order: it follows from its nil amount.
ChildrenReduceOnly == Signed => \A o \in Children : o.reduceOnly = 1

\* The children of a group expire together and not never, and with the parent
\* when that expires.
OneExpiry ==
  Signed => /\ \A o, p \in Children : o.orderExpiry = p.orderExpiry
            /\ \A o \in Children :
                 /\ o.orderExpiry > 0
                 /\ HasParent => Parent.orderExpiry \in {Nil, o.orderExpiry}

\* The children of a group are on one side, the parent on the other.
ChildrenOnOtherSide ==
  Signed => /\ \A o, p \in Children : o.isAsk = p.isAsk
            /\ HasParent => \A o \in Children : o.isAsk = 1 - Parent.isAsk

\* The two validators agree: every order of a signed group would be accepted
\* as an order by itself.
AcceptedAlone == Signed => \A i \in DOMAIN tx.orders : ValidateOrder(tx.orders[i])
=============================================================================
