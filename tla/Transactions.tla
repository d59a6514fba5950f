---------------------------- MODULE Transactions -----------------------------
(***************************************************************************)
(* From the arguments of a signing call to what the exchange verifies.     *)
(* The C library narrows its arguments to the fields of a transaction; the *)
(* transaction is validated, hashed as a sequence of field elements,       *)
(* signed, and returned as JSON; the exchange reads the JSON and hashes    *)
(* what it reads.  A signature is the elements that were hashed: that the  *)
(* hash has no collisions is the premise of all of it.  The id of the      *)
(* chain, the first element, is one.  Groups of orders come from           *)
(* GroupedOrders; the C library has no function for them, and the one it   *)
(* has for margins never returns a transaction: the Go interface does.     *)
(***************************************************************************)
EXTENDS GroupedOrders

CONSTANTS Calls,       \* calls of the signing functions but the group's
          GroupCalls,  \* account, key, nonce and expiry of the groups
          Memos,       \* the memos of 32 bytes
          Uint8, Uint16, Uint32,  \* how many numbers these types have
          Mantissa,    \* and the digits of a float64
          DefaultOrderExpiry,            \* of an order, for the C library's -1
          MaxAccountIndex, MaxMasterAccountIndex, MaxTimestamp,
          MaxClientOrderIndex, MaxOrderIndex,
          MaxExchangeUSDC,   \* the largest amount, and number of shares
          MaxInitialTotalShares, FeeTick, ShareTick, MarginFractionTick

\* A uint64 has two words of 32 bits.
Uint64 == Uint32 * Uint32
MaxInt64 == Uint64 \div 2 - 1
Int64 == -(MaxInt64 + 1) .. MaxInt64

\* In the code 2^8, 2^16, 2^32 and 2^53; no less than the types have to tell apart.
ASSUME WidthAssumption ==
  /\ {Uint8, Uint16, Uint32, Mantissa} \subseteq Nat
  /\ 8 <= Uint8 /\ Uint8 <= Uint16 /\ Uint16 <= Uint32 /\ Uint32 % 2 = 0
  /\ Mantissa \in 1 .. MaxInt64 /\ Mantissa % 2 = 0
ASSUME LimitAssumption ==
  /\ {MaxAccountIndex, MaxMasterAccountIndex, MaxTimestamp, MaxClientOrderIndex,
      MaxOrderIndex, MaxExchangeUSDC, MaxInitialTotalShares, FeeTick, ShareTick,
      DefaultOrderExpiry, MaxOrderBaseAmount} \subseteq 1 .. MaxInt64
  /\ {MaxAccountIndex, MaxMasterAccountIndex, MaxTimestamp} \subseteq 1 .. Mantissa - 1
  /\ MaxClientOrderIndex < MaxOrderIndex /\ MarginFractionTick \in 1 .. Uint16 - 1

MaxApiKeyIndex == Uint8 - 2
NilApiKeyIndex == MaxApiKeyIndex + 1
-----------------------------------------------------------------------------
(* The C library's arguments *)

\* The arguments of every function, beside account, key, nonce and expiry.
ArgsOf == [ChangePubKey |-> {"pubKey"}, CreateSubAccount |-> {},
  CreatePublicPool |-> {"operatorFee", "initialTotalShares", "minOperatorShareRate"},
  UpdatePublicPool |-> {"publicPoolIndex", "status", "operatorFee", "minOperatorShareRate"},
  Transfer |-> {"toAccountIndex", "usdcAmount", "fee", "memo"}, Withdraw |-> {"usdcAmount"},
  CreateOrder |-> {"market", "clientOrderIndex", "baseAmount", "price", "isAsk", "type",
                   "timeInForce", "reduceOnly", "triggerPrice", "orderExpiry"},
  CancelOrder |-> {"market", "index"}, CancelAllOrders |-> {"timeInForce", "time"},
  ModifyOrder |-> {"market", "index", "baseAmount", "price", "triggerPrice"},
  MintShares |-> {"publicPoolIndex", "shareAmount"},
  BurnShares |-> {"publicPoolIndex", "shareAmount"},
  UpdateLeverage |-> {"market", "initialMarginFraction", "marginMode"},
  UpdateMargin |-> {"market", "usdcAmount", "direction"}]

HeaderArgs == {"account", "apiKey", "nonce", "expiredAt"}

\* A number comes as a C longlong or a narrower C type.
Numbers(t) == DOMAIN t \ {"kind", "memo", "pubKey"}

ASSUME CallAssumption ==
  \A c \in Calls :
    /\ c.kind \in DOMAIN ArgsOf
    /\ c = [f \in {"kind"} \cup HeaderArgs \cup ArgsOf[c.kind] |-> c[f]]
    /\ \A f \in Numbers(c) : c[f] \in Int64
    /\ c.kind = "ChangePubKey" => c.pubKey \in Seq(Nat)

ASSUME GroupAssumption ==
  /\ \A c \in GroupCalls :
       /\ c = [f \in {"kind"} \cup HeaderArgs |-> c[f]] /\ c.kind = "CreateGroupedOrders"
       /\ c.apiKey \in 0 .. Uint8 - 1 /\ \A f \in HeaderArgs : c[f] \in Int64
  /\ \A g \in Submissions : \A i \in DOMAIN g.orders :
       \A f \in DOMAIN g.orders[i] : g.orders[i][f] <= MaxInt64

\* The fields that are narrower than their C arguments.
Widths ==
  [apiKey |-> Uint8, isAsk |-> Uint8, type |-> Uint8, timeInForce |-> Uint8,
   reduceOnly |-> Uint8, status |-> Uint8, marginMode |-> Uint8, direction |-> Uint8,
   market |-> Uint16, initialMarginFraction |-> Uint16,
   price |-> Uint32, triggerPrice |-> Uint32]

Narrow(f, n) == IF f \in DOMAIN Widths THEN n % Widths[f] ELSE n

\* A withdrawal's amount is the only unsigned one; -1 stands for an order's
\* default expiry.
Narrowed(c) ==
  LET t == [f \in DOMAIN c |-> Narrow(f, c[f])]
  IN CASE c.kind = "Withdraw" -> [t EXCEPT !.usdcAmount = @ % Uint64]
       [] c.kind = "CreateOrder" /\ c.orderExpiry = -1 ->
            [t EXCEPT !.orderExpiry = DefaultOrderExpiry]
       [] OTHER -> t
-----------------------------------------------------------------------------
(* Validation: the rules of each transaction *)

HeaderInRange(t) ==
  /\ t.account \in 0 .. MaxAccountIndex
  /\ t.apiKey <= MaxApiKeyIndex
  /\ t.nonce >= 0 /\ t.expiredAt \in 0 .. MaxTimestamp

PublicPoolInRange(t) ==
  /\ HeaderInRange(t) /\ t.publicPoolIndex \in 0 .. MaxAccountIndex

\* Forty bytes, five numbers, not all of them zero.
ChangePubKeyInRange(t) ==
  /\ HeaderInRange(t)
  /\ Len(t.pubKey) = 5 /\ \E i \in 1 .. 5 : t.pubKey[i] # 0

CreateSubAccountInRange(t) == HeaderInRange(t)

CreatePublicPoolInRange(t) ==
  /\ HeaderInRange(t) /\ t.account <= MaxMasterAccountIndex
  /\ t.operatorFee \in 0 .. FeeTick
  /\ t.initialTotalShares \in 1 .. MaxInitialTotalShares
  /\ t.minOperatorShareRate \in 0 .. ShareTick

UpdatePublicPoolInRange(t) ==
  /\ PublicPoolInRange(t)
  /\ t.status \in {0, 1}
  /\ t.operatorFee \in 0 .. FeeTick /\ t.minOperatorShareRate \in 0 .. ShareTick

\* Both accounts of a transfer are above the treasury's.
TransferInRange(t) ==
  /\ HeaderInRange(t) /\ t.account >= 1
  /\ t.toAccountIndex \in 1 .. MaxAccountIndex
  /\ t.usdcAmount \in 1 .. MaxExchangeUSDC /\ t.fee \in 0 .. MaxExchangeUSDC

\* Fault: only the nil amount is refused.
WithdrawUpToAnything(t) == HeaderInRange(t) /\ t.usdcAmount # 0

WithdrawInRange(t) == HeaderInRange(t) /\ t.usdcAmount \in 1 .. MaxExchangeUSDC

CreateOrderInRange(t) ==
  HeaderInRange(t) /\ ValidateOrder(t) /\ t.clientOrderIndex <= MaxClientOrderIndex

\* A client's index or an order's.
CancelOrderInRange(t) == HeaderInRange(t) /\ t.index \in 1 .. MaxOrderIndex

\* Of all keys or of one, now, at a time, or no longer at that time.
CancelAllOrdersInRange(t) ==
  /\ HeaderInRange([t EXCEPT !.apiKey = IF @ = NilApiKeyIndex THEN 0 ELSE @])
  /\ \/ t.timeInForce \in {0, 2} /\ t.time = 0
     \/ t.timeInForce = 1 /\ t.time >= 1

ModifyOrderInRange(t) ==
  /\ HeaderInRange(t) /\ t.index \in 1 .. MaxOrderIndex
  /\ t.baseAmount \in 0 .. MaxOrderBaseAmount /\ t.price >= 1

MintSharesInRange(t) == PublicPoolInRange(t) /\ t.shareAmount \in 1 .. MaxExchangeUSDC

BurnSharesInRange(t) == PublicPoolInRange(t) /\ t.shareAmount \in 1 .. MaxExchangeUSDC

UpdateLeverageInRange(t) ==
  /\ HeaderInRange(t) /\ t.marginMode \in {0, 1}
  /\ t.initialMarginFraction \in 1 .. MarginFractionTick

UpdateMarginInRange(t) ==
  /\ HeaderInRange(t) /\ t.direction \in {0, 1}
  /\ t.usdcAmount \in 1 .. MaxExchangeUSDC

InRange(t) ==
  \/ t.kind = "ChangePubKey" /\ ChangePubKeyInRange(t)
  \/ t.kind = "CreateSubAccount" /\ CreateSubAccountInRange(t)
  \/ t.kind = "CreatePublicPool" /\ CreatePublicPoolInRange(t)
  \/ t.kind = "UpdatePublicPool" /\ UpdatePublicPoolInRange(t)
  \/ t.kind = "Transfer" /\ TransferInRange(t)
  \/ t.kind = "Withdraw" /\ WithdrawInRange(t)
  \/ t.kind = "CreateOrder" /\ CreateOrderInRange(t)
  \/ t.kind = "CancelOrder" /\ CancelOrderInRange(t)
  \/ t.kind = "CancelAllOrders" /\ CancelAllOrdersInRange(t)
  \/ t.kind = "ModifyOrder" /\ ModifyOrderInRange(t)
  \/ t.kind = "MintShares" /\ MintSharesInRange(t)
  \/ t.kind = "BurnShares" /\ BurnSharesInRange(t)
  \/ t.kind = "UpdateLeverage" /\ UpdateLeverageInRange(t)
  \/ t.kind = "UpdateMargin" /\ UpdateMarginInRange(t)
-----------------------------------------------------------------------------
(* The hash: type and fields of each transaction, as field elements *)

\* The order of the Goldilocks field.
Modulus == Uint64 - Uint32 + 1
Element(n) == n % Modulus

Words(n) == <<n % Uint32, (n \div Uint32) % Uint32>>

TxType == [ChangePubKey |-> 8, CreateSubAccount |-> 9, CreatePublicPool |-> 10,
           UpdatePublicPool |-> 11, Transfer |-> 12, Withdraw |-> 13, CreateOrder |-> 14,
           CancelOrder |-> 15, CancelAllOrders |-> 16, ModifyOrder |-> 17, MintShares |-> 18,
           BurnShares |-> 19, UpdateLeverage |-> 20, CreateGroupedOrders |-> 28,
           UpdateMargin |-> 29]

ChangePubKeyHash(t) == t.pubKey
CreateSubAccountHash(t) == <<>>
CreatePublicPoolHash(t) == <<t.operatorFee, t.initialTotalShares, t.minOperatorShareRate>>
UpdatePublicPoolHash(t) == <<t.publicPoolIndex, t.status, t.operatorFee, t.minOperatorShareRate>>
TransferHash(t) == <<t.toAccountIndex>> \o Words(t.usdcAmount) \o Words(t.fee)
WithdrawHash(t) == Words(t.usdcAmount)
CreateOrderHash(t) ==
  <<t.market, t.clientOrderIndex, t.baseAmount, t.price, t.isAsk, t.type, t.timeInForce,
    t.reduceOnly, t.triggerPrice, t.orderExpiry>>
CancelOrderHash(t) == <<t.market, t.index>>
CancelAllOrdersHash(t) == <<t.timeInForce, t.time>>
ModifyOrderHash(t) == <<t.market, t.index, t.baseAmount, t.price, t.triggerPrice>>
MintSharesHash(t) == <<t.publicPoolIndex, t.shareAmount>>
BurnSharesHash(t) == <<t.publicPoolIndex, t.shareAmount>>
UpdateLeverageHash(t) == <<t.market, t.initialMarginFraction, t.marginMode>>
UpdateMarginHash(t) == <<t.market>> \o Words(t.usdcAmount) \o <<t.direction>>

FieldsHash(t) ==
  CASE t.kind = "CreateSubAccount" -> CreateSubAccountHash(t)
    [] t.kind = "CreatePublicPool" -> CreatePublicPoolHash(t)
    [] t.kind = "UpdatePublicPool" -> UpdatePublicPoolHash(t)
    [] t.kind = "Transfer" -> TransferHash(t)
    [] t.kind = "Withdraw" -> WithdrawHash(t)
    [] t.kind = "CreateOrder" -> CreateOrderHash(t)
    [] t.kind = "CancelOrder" -> CancelOrderHash(t)
    [] t.kind = "CancelAllOrders" -> CancelAllOrdersHash(t)
    [] t.kind = "ModifyOrder" -> ModifyOrderHash(t)
    [] t.kind = "MintShares" -> MintSharesHash(t)
    [] t.kind = "BurnShares" -> BurnSharesHash(t)
    [] t.kind = "UpdateLeverage" -> UpdateLeverageHash(t)
    [] t.kind = "UpdateMargin" -> UpdateMarginHash(t)

HeaderHash(t) == <<TxType[t.kind], t.nonce, t.expiredAt, t.account, t.apiKey>>

Elements(s) == [i \in DOMAIN s |-> Element(s[i])]

\* A public key is not reduced: one whose numbers are no elements is refused.
Hash(t) ==
  Elements(HeaderHash(t))
    \o (IF t.kind = "ChangePubKey" THEN ChangePubKeyHash(t) ELSE Elements(FieldsHash(t)))

Hashes(t) == t.kind = "ChangePubKey" => \A i \in DOMAIN t.pubKey : t.pubKey[i] < Modulus

\* Fault: the nonce is forgotten.
GroupHashNoNonce(t, g) ==
  LET hash(i) == Elements(CreateOrderHash(g.orders[i]))
      pair == <<hash(1), hash(2)>>
  IN Append(Elements(<<TxType[t.kind], t.expiredAt, t.account, t.apiKey, g.grouping>>),
            IF Len(g.orders) = 2 THEN pair ELSE <<pair, hash(3)>>)

\* The orders' hashes are chained, and hashed with the group's own fields; a
\* group that is hashed is of two or three.
GroupHash(t, g) ==
  LET hash(i) == Elements(CreateOrderHash(g.orders[i]))
      pair == <<hash(1), hash(2)>>
  IN Append(Elements(HeaderHash(t) \o <<g.grouping>>),
            IF Len(g.orders) = 2 THEN pair ELSE <<pair, hash(3)>>)
-----------------------------------------------------------------------------
(* The JSON that is returned, and what the exchange reads *)

\* The float64 nearest to a number, the even one of two.
Float(n) ==
  LET e == CHOOSE i \in 0 .. n : n < Mantissa * 2 ^ i /\ \A j \in 0 .. i - 1 : n >= Mantissa * 2 ^ j
      q == n \div 2 ^ e
      r == 2 * (n % 2 ^ e)
  IN (IF r > 2 ^ e \/ (r = 2 ^ e /\ q % 2 = 1) THEN q + 1 ELSE q) * 2 ^ e

\* A float64 is printed with the fewest digits that tell it from the others,
\* the rest of them zeros.
Printed(x) ==
  LET Zeros(m) == CHOOSE k \in 0 .. m : m % 10 ^ k = 0 /\ m % 10 ^ (k + 1) # 0
      same == {m \in 1 .. Uint64 : Float(m) = x}
      most == {m \in same : \A l \in same : Zeros(l) <= Zeros(m)}
  IN IF x <= Mantissa THEN x
     ELSE CHOOSE m \in most : \A l \in most : (l - x) * (l - x) >= (m - x) * (m - x)

\* Fault: the result of every function goes through the map.
ThroughTheMap(t) == [f \in DOMAIN t |-> IF f \in Numbers(t) THEN Printed(Float(t[f])) ELSE t[f]]

\* To add MessageToSign the transaction is decoded into a map[string]interface{}
\* and encoded again: each of its numbers becomes a float64 in between.  The
\* memo is an array of small numbers, and the key a string.
ViaMap == {"Transfer", "ChangePubKey"}

ReadBack(t) ==
  IF t.kind \in ViaMap
  THEN [f \in DOMAIN t |-> IF f \in Numbers(t) THEN Printed(Float(t[f])) ELSE t[f]]
  ELSE t
-----------------------------------------------------------------------------
VARIABLES call,    \* the call
          answer   \* its result: what the exchange reads, and what was signed

txVars == <<tx, verdict, call, answer>>

NoGroup == [header |-> FALSE, grouping |-> 0, orders |-> <<>>]
Nothing == [kind |-> "none"]
Err == [kind |-> "error"]

TxInit ==
  /\ \/ call \in Calls /\ tx = NoGroup
     \/ call \in GroupCalls /\ tx \in Submissions /\ tx.header = HeaderInRange(call)
  /\ verdict = "none" /\ answer = Nothing

Answers(t, hash) == [kind |-> "tx", tx |-> t, sig |-> hash]

\* The functions refuse a memo that is not of 32 bytes; then the transaction is
\* validated, hashed and signed.  A margin is updated through the Go interface:
\* the C library's function for it panics on every call (SharedLib).
Sign ==
  /\ call.kind # "CreateGroupedOrders" /\ answer = Nothing
  /\ LET t == Narrowed(call) IN
     answer' = IF (call.kind = "Transfer" => call.memo \in Memos) /\ InRange(t) /\ Hashes(t)
               THEN Answers(ReadBack(t), Hash(t)) ELSE Err
  /\ UNCHANGED <<tx, verdict, call>>

SignGroup ==
  /\ call.kind = "CreateGroupedOrders" /\ Construct
  /\ answer' = IF verdict' = "signed" THEN Answers(call, GroupHash(call, tx)) ELSE Err
  /\ UNCHANGED call

TxNext == Sign \/ SignGroup

TxSpec == TxInit /\ [][TxNext]_txVars
-----------------------------------------------------------------------------
(* Properties *)

Answered == answer.kind = "tx"

Hashed(t) == [f \in DOMAIN t \ {"memo"} |-> t[f]]

\* What can be signed, each with its hash: the accepted calls, and the groups,
\* under every header that is accepted.
Signable == {t \in {Narrowed(c) : c \in Calls} : InRange(t) /\ Hashes(t)}
SignedCalls == {<<Hash(t), Hashed(t)>> : t \in Signable}

Headers == {c \in GroupCalls : HeaderInRange(c)}
ValidGroups == {g \in Submissions : g.header /\ Validate(g)}
SignedGroups ==
  {<<GroupHash(c, g), [header |-> c, group |-> g]>> : c \in Headers, g \in ValidGroups}

SignedTransactions == SignedCalls \cup SignedGroups

Contents == IF verdict = "signed" THEN [header |-> call, group |-> tx]
                                  ELSE Hashed(Narrowed(call))

\* A signature holds for one transaction only: whatever else could be signed,
\* a call of any type or a group under any header, has another hash, although
\* numbers are reduced to elements, amounts split into words, and orders
\* chained.  The memo of a transfer is not hashed, only part of the message for
\* the layer-1 signature.
BoundBySignature ==
  Answered => \A s \in SignedTransactions : s[1] = answer.sig => s[2] = Contents

\* The exchange computes the hash that was signed from what it reads
\* ("if the value differs than the one computed by the server, it'll result in
\* an invalid signature"); for the two functions that go through a map, if
\* their numbers are those that a float64 holds exactly.
ReturnedVerifies ==
  (Answered /\ verdict = "none"
   /\ (call.kind \in ViaMap => \A f \in Numbers(call) : Narrowed(call)[f] <= Mantissa)) =>
    Hash(answer.tx) = answer.sig

\* A number for a field of 64 bits is signed as it was passed, or refused, even
\* where the field is unsigned and the number is not; one for a narrower field
\* is signed as it was passed if the field can hold it.
SignedAsAsked ==
  (Answered /\ verdict = "none") =>
    \A f \in Numbers(call) :
      \/ Narrowed(call)[f] = call[f]
      \/ f \in DOMAIN Widths /\ call[f] \notin 0 .. Widths[f] - 1
      \/ f = "orderExpiry" /\ call[f] = -1
=============================================================================
