------------------------ MODULE Transactions_proofs ------------------------
(***************************************************************************)
(* Proofs about what is signed, for any calls and groups of orders, any    *)
(* widths of the numeric types and any limits.  First what a hash is made  *)
(* of: the rules keep every number within a field element, so that nothing *)
(* is lost when it is reduced or split into words, and header and contents *)
(* can be told from their concatenation.  Then the invariant.              *)
(***************************************************************************)
EXTENDS Transactions, GroupedOrders_proofs, SequenceTheorems

Field == 0 .. Modulus - 1

\* A field element holds every number of 63 bits and every word, and every
\* narrower number.
LEMMA Sizes ==
  /\ Uint32 \in Nat /\ Uint64 \in Nat /\ MaxInt64 \in Nat /\ Modulus \in Nat
  /\ Uint64 = Uint32 * Uint32 /\ Uint64 = 2 * (MaxInt64 + 1)
  /\ 29 < Modulus /\ MaxInt64 < Modulus /\ Uint32 <= MaxInt64
  /\ Uint8 \in Nat /\ Uint16 \in Nat /\ 8 <= Uint8 /\ Uint8 <= Uint16 /\ Uint16 <= Uint32
<1>1. PICK k \in Nat : Uint32 = 2 * k /\ k >= 4
  <2>1. PICK q \in Int, r \in Int : q = Uint32 \div 2 /\ r = Uint32 % 2
    BY WidthAssumption
  <2>2. Uint32 = 2 * q + r /\ r = 0
    BY <2>1, WidthAssumption
  <2> QED BY <2>2, WidthAssumption
<1>2. PICK s \in Nat : s = k * k
  BY <1>1
<1>3. Uint64 = 4 * s
  BY <1>1, <1>2 DEF Uint64
<1>4. s >= 4 * k
  BY <1>1, <1>2
<1>5. MaxInt64 = 2 * s - 1
  BY <1>2, <1>3 DEF MaxInt64
<1>6. Modulus = 4 * s - 2 * k + 1
  BY <1>1, <1>3 DEF Modulus
<1> QED BY <1>1, <1>2, <1>3, <1>4, <1>5, <1>6, WidthAssumption DEF Uint64

\* What is reduced to an element and was one before is what it was.
LEMMA ElementIsItself ==
  ASSUME NEW n \in Field
  PROVE  Element(n) = n
<1>1. Modulus \in Nat /\ Modulus > 0
  BY Sizes
<1> HIDE DEF Modulus
<1> QED BY <1>1 DEF Field, Element

LEMMA ElementsBind ==
  ASSUME NEW a, NEW b, Elements(a) = Elements(b),
         NEW i \in DOMAIN a, a[i] \in Field, b[i] \in Field
  PROVE  a[i] = b[i]
<1>1. DOMAIN Elements(a) = DOMAIN a /\ DOMAIN Elements(b) = DOMAIN b
  BY DEF Elements
<1>2. Elements(a)[i] = Element(a[i]) /\ Elements(b)[i] = Element(b[i])
  BY <1>1 DEF Elements
<1> QED BY <1>2, ElementIsItself

LEMMA ElementsSeq ==
  ASSUME NEW s \in Seq(Int)
  PROVE  Elements(s) \in Seq(Field) /\ Len(Elements(s)) = Len(s)
<1>1. Len(s) \in Nat /\ DOMAIN s = 1 .. Len(s)
  OBVIOUS
<1>2. \A i \in 1 .. Len(s) : Element(s[i]) \in Field
  <2>1. Modulus \in Nat /\ Modulus > 0
    BY Sizes
  <2> HIDE DEF Modulus
  <2>2. \A i \in 1 .. Len(s) : s[i] \in Int
    OBVIOUS
  <2> QED BY <2>1, <2>2 DEF Element, Field
<1>3. Elements(s) \in [1 .. Len(s) -> Field]
  BY <1>1, <1>2 DEF Elements
<1>4. Elements(s) \in Seq(Field)
  BY <1>1, <1>3, SeqDef
<1> QED BY <1>1, <1>3, <1>4, LenProperties

\* Equal concatenations of sequences whose first parts are of one length.
LEMMA ConcatSplits ==
  ASSUME NEW S, NEW a \in Seq(S), NEW b \in Seq(S), NEW c \in Seq(S), NEW d \in Seq(S),
         Len(a) = Len(c), a \o b = c \o d
  PROVE  a = c /\ b = d
<1>1. Len(b) = Len(d) /\ Len(a) \in Nat /\ Len(b) \in Nat
  BY ConcatProperties, LenProperties
<1>2. ASSUME NEW i \in 1 .. Len(a) PROVE a[i] = c[i]
  <2>1. i \in 1 .. Len(a) + Len(b) /\ i <= Len(a)
    BY <1>1
  <2>2. (a \o b)[i] = a[i] /\ (c \o d)[i] = c[i]
    BY <1>1, <2>1, ConcatProperties
  <2> QED BY <2>2
<1>3. ASSUME NEW i \in 1 .. Len(b) PROVE b[i] = d[i]
  <2>1. /\ Len(a) + i \in 1 .. Len(a) + Len(b) /\ ~(Len(a) + i <= Len(a))
        /\ (Len(a) + i) - Len(a) = i
    BY <1>1
  <2>2. (a \o b)[Len(a) + i] = b[i]
    BY <2>1, ConcatProperties
  <2>3. (c \o d)[Len(a) + i] = d[i]
    BY <1>1, <2>1, ConcatProperties
  <2> QED BY <2>2, <2>3
<1>4. a = c
  BY <1>2, SeqEqual
<1>5. b = d
  BY <1>1, <1>3, SeqEqual
<1> QED BY <1>4, <1>5

\* An amount is the two words that stand for it.
LEMMA WordsBind ==
  ASSUME NEW n \in 0 .. Uint64 - 1, NEW m \in 0 .. Uint64 - 1, Words(n) = Words(m)
  PROVE  n = m
<1> DEFINE W == Uint32
<1>1. W \in Nat /\ W > 0 /\ n \in Nat /\ m \in Nat /\ n < W * W /\ m < W * W
  BY Sizes
<1>2. n % W = m % W /\ (n \div W) % W = (m \div W) % W
  BY DEF Words
<1> HIDE DEF W
<1>3. n \div W \in Nat /\ m \div W \in Nat
  BY <1>1
<1>4. n \div W < W /\ m \div W < W
  BY <1>1
<1>5. n \div W = m \div W
  BY <1>1, <1>2, <1>3, <1>4
<1> QED BY <1>1, <1>2, <1>5

LEMMA WordsAreElements ==
  ASSUME NEW n \in Nat
  PROVE  n % Uint32 \in Field /\ (n \div Uint32) % Uint32 \in Field
<1> DEFINE W == Uint32
<1>1. W \in Nat /\ W > 0 /\ W < Modulus /\ Modulus \in Nat
  BY Sizes
<1> HIDE DEF W, Modulus
<1>2. n \div W \in Nat
  BY <1>1
<1>3. n % W \in 0 .. W - 1 /\ (n \div W) % W \in 0 .. W - 1
  BY <1>1, <1>2
<1> QED BY <1>1, <1>3 DEF Field, W
-----------------------------------------------------------------------------
(* Calls and their fields *)

FieldsOf(kind) == {"kind"} \cup HeaderArgs \cup ArgsOf[kind]

\* Where a field of the transaction comes from.
LEMMA NarrowedFields ==
  ASSUME NEW c \in Calls
  PROVE  /\ c.kind \in DOMAIN ArgsOf
         /\ DOMAIN c = FieldsOf(c.kind) /\ DOMAIN Narrowed(c) = FieldsOf(c.kind)
         /\ Narrowed(c).kind = c.kind
         /\ c.kind = "ChangePubKey" => Narrowed(c).pubKey = c.pubKey
<1>1. /\ c.kind \in DOMAIN ArgsOf /\ c = [f \in FieldsOf(c.kind) |-> c[f]]
  BY CallAssumption DEF FieldsOf
<1>2. DOMAIN c = FieldsOf(c.kind)
  BY <1>1
<1> DEFINE t == [f \in DOMAIN c |-> Narrow(f, c[f])]
<1>3. t = [f \in FieldsOf(c.kind) |-> Narrow(f, c[f])]
  BY <1>2
<1>4. \/ Narrowed(c) = t
      \/ c.kind = "Withdraw" /\ Narrowed(c) = [t EXCEPT !.usdcAmount = @ % Uint64]
      \/ c.kind = "CreateOrder" /\ Narrowed(c) = [t EXCEPT !.orderExpiry = DefaultOrderExpiry]
  BY DEF Narrowed
<1>5. t.kind = c.kind
  <2>1. "kind" \in FieldsOf(c.kind) /\ "kind" \notin DOMAIN Widths
    BY DEF FieldsOf, Widths
  <2> QED BY <1>3, <2>1 DEF Narrow
<1>6. c.kind = "ChangePubKey" => t.pubKey = c.pubKey
  <2>1. c.kind = "ChangePubKey" => "pubKey" \in FieldsOf(c.kind)
    BY DEF FieldsOf, ArgsOf
  <2>2. "pubKey" \notin DOMAIN Widths
    BY DEF Widths
  <2> QED BY <1>3, <2>1, <2>2 DEF Narrow
<1>7. DOMAIN t = FieldsOf(c.kind)
  BY <1>2
<1> HIDE DEF t
<1>8. DOMAIN Narrowed(c) = FieldsOf(c.kind) /\ Narrowed(c).kind = c.kind
  <2>1. DOMAIN Narrowed(c) = DOMAIN t
    BY <1>4
  <2>2. "kind" \in DOMAIN t
    BY <1>7 DEF FieldsOf
  <2>3. Narrowed(c)["kind"] = t["kind"]
    BY <1>4, <2>2
  <2> QED BY <1>5, <1>7, <2>1, <2>3
<1>9. c.kind = "ChangePubKey" => Narrowed(c).pubKey = c.pubKey
  BY <1>4, <1>6
<1> QED BY <1>1, <1>2, <1>8, <1>9

LEMMA NarrowedNumbers ==
  ASSUME NEW c \in Calls, NEW f \in Numbers(c)
  PROVE  /\ f \in FieldsOf(c.kind) /\ c[f] \in Int64
         /\ \/ /\ f \in DOMAIN Widths /\ Narrowed(c)[f] = c[f] % Widths[f]
            \/ /\ f \notin DOMAIN Widths /\ Narrowed(c)[f] = c[f]
            \/ /\ c.kind = "Withdraw" /\ f = "usdcAmount"
               /\ Narrowed(c)[f] = c[f] % Uint64
            \/ /\ c.kind = "CreateOrder" /\ f = "orderExpiry" /\ c[f] = -1
               /\ Narrowed(c)[f] = DefaultOrderExpiry
<1>1. f \in FieldsOf(c.kind) /\ c[f] \in Int64 /\ DOMAIN c = FieldsOf(c.kind)
  BY NarrowedFields, CallAssumption DEF Numbers
<1> DEFINE t == [g \in DOMAIN c |-> Narrow(g, c[g])]
<1>2. \/ Narrowed(c) = t
      \/ c.kind = "Withdraw" /\ Narrowed(c) = [t EXCEPT !.usdcAmount = @ % Uint64]
      \/ c.kind = "CreateOrder" /\ c.orderExpiry = -1
         /\ Narrowed(c) = [t EXCEPT !.orderExpiry = DefaultOrderExpiry]
  BY DEF Narrowed
<1>3. t[f] = (IF f \in DOMAIN Widths THEN c[f] % Widths[f] ELSE c[f])
  BY <1>1 DEF Narrow
<1>4. DOMAIN t = DOMAIN c
  OBVIOUS
<1>5. "usdcAmount" \notin DOMAIN Widths /\ "orderExpiry" \notin DOMAIN Widths
  BY DEF Widths
<1> HIDE DEF t
<1>6. CASE Narrowed(c) = t
  BY <1>1, <1>3, <1>6
<1>7. CASE c.kind = "Withdraw" /\ Narrowed(c) = [t EXCEPT !.usdcAmount = @ % Uint64]
  BY <1>1, <1>3, <1>4, <1>5, <1>7
<1>8. CASE c.kind = "CreateOrder" /\ c.orderExpiry = -1
           /\ Narrowed(c) = [t EXCEPT !.orderExpiry = DefaultOrderExpiry]
  BY <1>1, <1>3, <1>4, <1>5, <1>8
<1> QED BY <1>1, <1>2, <1>6, <1>7, <1>8

\* A field of a width holds numbers from zero up.
LEMMA NarrowIsNat ==
  ASSUME NEW f \in DOMAIN Widths, NEW n \in Int
  PROVE  /\ Widths[f] \in 1 .. MaxInt64 /\ n % Widths[f] \in 0 .. Widths[f] - 1
         /\ n \in 0 .. Widths[f] - 1 => n % Widths[f] = n
<1>1. Widths[f] \in {Uint8, Uint16, Uint32}
  BY DEF Widths
<1>2. Widths[f] \in 1 .. MaxInt64
  BY <1>1, Sizes
<1> DEFINE W == Widths[f]
<1> HIDE DEF W
<1>3. W \in Nat /\ W > 0
  BY <1>2, Sizes DEF W
<1>4. n % W \in 0 .. W - 1 /\ (n \in 0 .. W - 1 => n % W = n)
  BY <1>3
<1> QED BY <1>2, <1>4 DEF W

\* The rules leave no negative number in a field, of whatever width.
LEMMA HeaderInField ==
  ASSUME NEW t, InRange(t), HeaderArgs \subseteq DOMAIN t
  PROVE  t.account \in 0 .. MaxAccountIndex /\ t.nonce >= 0 /\ t.expiredAt \in 0 .. MaxTimestamp
<1>1. CASE HeaderInRange(t)
  BY <1>1 DEF HeaderInRange
<1>2. CASE t.kind = "CancelAllOrders" /\ CancelAllOrdersInRange(t)
  <2>1. {"account", "nonce", "expiredAt"} \subseteq DOMAIN t
    BY DEF HeaderArgs
  <2> DEFINE u == [t EXCEPT !.apiKey = IF @ = NilApiKeyIndex THEN 0 ELSE @]
  <2>2. HeaderInRange(u)
    BY <1>2 DEF CancelAllOrdersInRange
  <2>3. u.account = t.account /\ u.nonce = t.nonce /\ u.expiredAt = t.expiredAt
    BY <2>1
  <2> HIDE DEF u
  <2> QED BY <2>2, <2>3 DEF HeaderInRange
<1> QED
  BY <1>1, <1>2 DEF InRange, ChangePubKeyInRange, CreateSubAccountInRange,
     CreatePublicPoolInRange, UpdatePublicPoolInRange, PublicPoolInRange, TransferInRange,
     WithdrawInRange, CreateOrderInRange, CancelOrderInRange, ModifyOrderInRange,
     MintSharesInRange, BurnSharesInRange, UpdateLeverageInRange, UpdateMarginInRange

LEMMA ArgsInField ==
  ASSUME NEW t, InRange(t), NEW f \in ArgsOf[t.kind] \ (DOMAIN Widths \cup {"memo", "pubKey"}),
         t[f] \in Int
  PROVE  t[f] >= 0 /\ (f = "usdcAmount" => t[f] <= MaxExchangeUSDC)
<1>0. MaxExchangeUSDC \in Int
  BY LimitAssumption, Sizes
<1>1. CASE t.kind = "ChangePubKey"
  BY <1>1 DEF ArgsOf
<1>2. CASE t.kind = "CreateSubAccount"
  BY <1>2 DEF ArgsOf
<1>3. CASE t.kind = "CreatePublicPool"
  BY <1>3 DEF ArgsOf, InRange, CreatePublicPoolInRange
<1>4. CASE t.kind = "UpdatePublicPool"
  BY <1>4 DEF ArgsOf, Widths, InRange, UpdatePublicPoolInRange, PublicPoolInRange
<1>5. CASE t.kind = "Transfer"
  BY <1>0, <1>5 DEF ArgsOf, InRange, TransferInRange
<1>6. CASE t.kind = "Withdraw"
  BY <1>0, <1>6 DEF ArgsOf, InRange, WithdrawInRange
<1>7. CASE t.kind = "CreateOrder"
  BY <1>7 DEF ArgsOf, Widths, InRange, CreateOrderInRange, ValidateOrder, OrderInRange,
     AmountInRange, Nil
<1>8. CASE t.kind = "CancelOrder"
  BY <1>8 DEF ArgsOf, Widths, InRange, CancelOrderInRange
<1>9. CASE t.kind = "CancelAllOrders"
  BY <1>9 DEF ArgsOf, Widths, InRange, CancelAllOrdersInRange
<1>10. CASE t.kind = "ModifyOrder"
  BY <1>10 DEF ArgsOf, Widths, InRange, ModifyOrderInRange
<1>11. CASE t.kind = "MintShares"
  BY <1>11 DEF ArgsOf, InRange, MintSharesInRange, PublicPoolInRange
<1>12. CASE t.kind = "BurnShares"
  BY <1>12 DEF ArgsOf, InRange, BurnSharesInRange, PublicPoolInRange
<1>13. CASE t.kind = "UpdateLeverage"
  BY <1>13 DEF ArgsOf, Widths
<1>14. CASE t.kind = "UpdateMargin"
  BY <1>0, <1>14 DEF ArgsOf, Widths, InRange, UpdateMarginInRange
<1> QED
  BY <1>1, <1>2, <1>3, <1>4, <1>5, <1>6, <1>7, <1>8, <1>9, <1>10, <1>11, <1>12, <1>13, <1>14
     DEF InRange

\* The numbers of what is signed are natural numbers of 63 bits.
LEMMA AcceptedNumbers ==
  ASSUME NEW c \in Calls, InRange(Narrowed(c)), NEW f \in Numbers(c)
  PROVE  Narrowed(c)[f] \in 0 .. MaxInt64
<1> DEFINE t == Narrowed(c)
<1>1. /\ c.kind \in DOMAIN ArgsOf /\ t.kind = c.kind
      /\ DOMAIN t = FieldsOf(c.kind) /\ DOMAIN c = FieldsOf(c.kind)
  BY NarrowedFields
<1>2. /\ f \in FieldsOf(c.kind) /\ f \notin {"kind", "memo", "pubKey"}
      /\ c[f] \in Int /\ c[f] <= MaxInt64 /\ MaxInt64 \in Nat
  BY NarrowedNumbers, Sizes DEF Numbers, Int64
<1>3. /\ HeaderArgs \subseteq DOMAIN t
      /\ f \in HeaderArgs \/ f \in ArgsOf[t.kind]
  BY <1>1, <1>2 DEF FieldsOf
<1>4. CASE f \in DOMAIN Widths
  <2>1. t[f] = c[f] % Widths[f]
    BY <1>4, NarrowedNumbers DEF Widths
  <2> QED BY <1>2, <1>4, <2>1, NarrowIsNat
<1>5. CASE f \notin DOMAIN Widths /\ f \in HeaderArgs
  <2>1. t[f] = c[f] /\ f \in {"account", "nonce", "expiredAt"}
    BY <1>5, NarrowedNumbers DEF HeaderArgs, Widths
  <2>2. t[f] >= 0
    BY <1>2, <1>3, <2>1, HeaderInField
  <2> QED BY <1>2, <2>1, <2>2
<1>6. CASE f \notin DOMAIN Widths /\ f \in ArgsOf[t.kind]
  <2>1. \/ t[f] = c[f]
        \/ f = "usdcAmount" /\ t[f] = c[f] % Uint64
        \/ t[f] = DefaultOrderExpiry
    BY <1>6, NarrowedNumbers
  <2>2. DefaultOrderExpiry \in 1 .. MaxInt64 /\ MaxExchangeUSDC \in 1 .. MaxInt64
    BY LimitAssumption
  <2>3. Uint64 \in Nat /\ Uint64 > 0
    BY Sizes
  <2>4. c[f] % Uint64 \in Int
    <3> HIDE DEF Uint64
    <3> QED BY <1>2, <2>3
  <2>5. t[f] \in Int
    BY <1>2, <2>1, <2>2, <2>4
  <2>6. t[f] >= 0 /\ (f = "usdcAmount" => t[f] <= MaxExchangeUSDC)
    BY <1>2, <1>6, <2>5, ArgsInField
  <2> QED BY <1>2, <2>1, <2>2, <2>5, <2>6
<1> QED BY <1>3, <1>4, <1>5, <1>6

\* A number of 64 bits that is within 63 bits as an unsigned one is not negative.
LEMMA UnsignedIsSigned ==
  ASSUME NEW m \in Nat, NEW u \in Nat, u = 2 * (m + 1), NEW n \in -(m + 1) .. m, n % u <= m
  PROVE  n % u = n
<1>1. CASE n >= 0
  BY <1>1
<1>2. CASE n < 0
  <2>1. n + u \in 0 .. u - 1
    BY <1>2
  <2>2. n % u = n + u
    BY <2>1
  <2> QED BY <1>2, <2>2
<1> QED BY <1>1, <1>2

\* What is signed of a call is what was asked, but for what a field cannot hold
\* and for the default of an order's expiry.
LEMMA NumberAsAsked ==
  ASSUME NEW c \in Calls, InRange(Narrowed(c)), NEW f \in Numbers(c)
  PROVE  \/ Narrowed(c)[f] = c[f]
         \/ f \in DOMAIN Widths /\ c[f] \notin 0 .. Widths[f] - 1
         \/ f = "orderExpiry" /\ c[f] = -1
<1>1. c[f] \in Int64 /\ MaxInt64 \in Nat /\ Uint64 = 2 * (MaxInt64 + 1)
  BY NarrowedNumbers, Sizes
<1>2. c[f] \in Int
  BY <1>1 DEF Int64
<1>3. CASE f \in DOMAIN Widths /\ Narrowed(c)[f] = c[f] % Widths[f]
  BY <1>2, <1>3, NarrowIsNat
<1>4. CASE f = "usdcAmount" /\ Narrowed(c)[f] = c[f] % Uint64
  <2>1. Narrowed(c)[f] \in 0 .. MaxInt64
    BY AcceptedNumbers
  <2> QED BY <1>1, <1>4, <2>1, UnsignedIsSigned, Sizes DEF Int64
<1> QED BY <1>3, <1>4, NarrowedNumbers
-----------------------------------------------------------------------------
(* The hash of a call binds its fields *)

\* The elements of what fits into elements are the numbers themselves.
LEMMA ElementsAreSelf ==
  ASSUME NEW s \in Seq(Field)
  PROVE  Elements(s) = s
<1>1. Field \subseteq Int /\ s \in Seq(Int)
  <2>1. Modulus \in Int
    BY Sizes
  <2>2. Field \subseteq Int
    BY <2>1 DEF Field
  <2> QED BY <2>2, SeqMonotonic
<1>2. Elements(s) \in Seq(Field) /\ Len(Elements(s)) = Len(s)
  BY <1>1, ElementsSeq
<1>3. ASSUME NEW i \in 1 .. Len(s) PROVE Elements(s)[i] = s[i]
  <2>1. s[i] \in Field /\ DOMAIN s = 1 .. Len(s)
    BY LenProperties
  <2>2. Elements(s)[i] = Element(s[i])
    BY <2>1 DEF Elements
  <2> QED BY <2>1, <2>2, ElementIsItself
<1> QED BY <1>2, <1>3, SeqEqual

LEMMA WordsSeq ==
  ASSUME NEW n \in Nat
  PROVE  Words(n) \in Seq(Field) /\ Len(Words(n)) = 2
<1>1. n % Uint32 \in Field /\ (n \div Uint32) % Uint32 \in Field
  BY WordsAreElements
<1> QED BY <1>1 DEF Words

\* Amounts as the rules allow them.
LEMMA AmountBinds ==
  ASSUME NEW n \in 0 .. MaxInt64, NEW m \in 0 .. MaxInt64, Words(n) = Words(m)
  PROVE  n = m
<1>1. n \in 0 .. Uint64 - 1 /\ m \in 0 .. Uint64 - 1
  BY Sizes
<1> QED BY <1>1, WordsBind

LEMMA SignableTyped ==
  ASSUME NEW t \in Signable
  PROVE  /\ t.kind \in DOMAIN ArgsOf /\ DOMAIN t = FieldsOf(t.kind)
         /\ \A f \in Numbers(t) : t[f] \in 0 .. MaxInt64 /\ t[f] \in Field
         /\ t.kind = "ChangePubKey" => t.pubKey \in Seq(Field)
<1>1. PICK c \in Calls : t = Narrowed(c) /\ InRange(t) /\ Hashes(t)
  BY DEF Signable
<1>2. /\ c.kind = t.kind /\ t.kind \in DOMAIN ArgsOf
      /\ DOMAIN t = FieldsOf(t.kind) /\ DOMAIN c = DOMAIN t
      /\ t.kind = "ChangePubKey" => t.pubKey = c.pubKey
  BY <1>1, NarrowedFields
<1>3. ASSUME NEW f \in Numbers(t) PROVE t[f] \in 0 .. MaxInt64 /\ t[f] \in Field
  <2>1. t[f] \in 0 .. MaxInt64
    BY <1>1, <1>2, AcceptedNumbers DEF Numbers
  <2> QED BY <2>1, Sizes DEF Field
<1>4. ASSUME t.kind = "ChangePubKey" PROVE t.pubKey \in Seq(Field)
  <2>1. t.pubKey \in Seq(Nat) /\ \A i \in DOMAIN t.pubKey : t.pubKey[i] < Modulus
    BY <1>1, <1>2, <1>4, CallAssumption DEF Hashes
  <2>2. Len(t.pubKey) \in Nat /\ DOMAIN t.pubKey = 1 .. Len(t.pubKey)
        /\ \A i \in 1 .. Len(t.pubKey) : t.pubKey[i] \in Nat
    BY <2>1, LenProperties, ElementOfSeq
  <2>3. \A i \in 1 .. Len(t.pubKey) : t.pubKey[i] \in Field
    BY <2>1, <2>2, Sizes DEF Field
  <2>4. t.pubKey \in [1 .. Len(t.pubKey) -> Field]
    BY <2>1, <2>2, <2>3, LenProperties
  <2> QED BY <2>2, <2>4, SeqDef
<1> QED BY <1>2, <1>3, <1>4

\* The part of the hash after the header.
Content(t) == IF t.kind = "ChangePubKey" THEN ChangePubKeyHash(t) ELSE FieldsHash(t)

LEMMA NumberIsField ==
  ASSUME NEW t \in Signable, NEW f \in ArgsOf[t.kind] \cup HeaderArgs,
         f \notin {"kind", "memo", "pubKey"}
  PROVE  t[f] \in 0 .. MaxInt64 /\ t[f] \in Field
BY SignableTyped DEF Numbers, FieldsOf

LEMMA ContentTyped ==
  ASSUME NEW t \in Signable
  PROVE  Content(t) \in Seq(Field)
<1>0. t.kind \in DOMAIN ArgsOf /\ MaxInt64 \in Nat
  BY SignableTyped, Sizes
<1> USE DEF Content, FieldsHash
<1>1. CASE t.kind = "ChangePubKey"
  BY <1>1, SignableTyped DEF ChangePubKeyHash
<1>2. CASE t.kind = "CreateSubAccount"
  BY <1>2 DEF CreateSubAccountHash
<1>3. CASE t.kind = "CreatePublicPool"
  <2>1. \A f \in {"operatorFee", "initialTotalShares", "minOperatorShareRate"} : t[f] \in Field
    BY <1>3, NumberIsField DEF ArgsOf
  <2> QED BY <1>3, <2>1 DEF CreatePublicPoolHash
<1>4. CASE t.kind = "UpdatePublicPool"
  <2>1. \A f \in {"publicPoolIndex", "status", "operatorFee", "minOperatorShareRate"} : t[f] \in Field
    BY <1>4, NumberIsField DEF ArgsOf
  <2> QED BY <1>4, <2>1 DEF UpdatePublicPoolHash
<1>5. CASE t.kind = "Transfer"
  <2>1. t.toAccountIndex \in Field /\ t.usdcAmount \in Nat /\ t.fee \in Nat
    BY <1>0, <1>5, NumberIsField DEF ArgsOf
  <2>2. <<t.toAccountIndex>> \in Seq(Field)
    BY <2>1
  <2>3. <<t.toAccountIndex>> \o Words(t.usdcAmount) \in Seq(Field)
    BY <2>1, <2>2, WordsSeq, ConcatProperties
  <2>4. TransferHash(t) \in Seq(Field)
    BY <2>1, <2>3, WordsSeq, ConcatProperties DEF TransferHash
  <2> QED BY <1>5, <2>4
<1>6. CASE t.kind = "Withdraw"
  <2>1. t.usdcAmount \in Nat
    BY <1>0, <1>6, NumberIsField DEF ArgsOf
  <2> QED BY <1>6, <2>1, WordsSeq DEF WithdrawHash
<1>7. CASE t.kind = "CreateOrder"
  <2>1. \A f \in {"market", "clientOrderIndex", "baseAmount", "price", "isAsk", "type",
                  "timeInForce", "reduceOnly", "triggerPrice", "orderExpiry"} : t[f] \in Field
    BY <1>7, NumberIsField DEF ArgsOf
  <2> QED BY <1>7, <2>1 DEF CreateOrderHash
<1>8. CASE t.kind = "CancelOrder"
  <2>1. t.market \in Field /\ t.index \in Field
    BY <1>8, NumberIsField DEF ArgsOf
  <2> QED BY <1>8, <2>1 DEF CancelOrderHash
<1>9. CASE t.kind = "CancelAllOrders"
  <2>1. t.timeInForce \in Field /\ t.time \in Field
    BY <1>9, NumberIsField DEF ArgsOf
  <2> QED BY <1>9, <2>1 DEF CancelAllOrdersHash
<1>10. CASE t.kind = "ModifyOrder"
  <2>1. \A f \in {"market", "index", "baseAmount", "price", "triggerPrice"} : t[f] \in Field
    BY <1>10, NumberIsField DEF ArgsOf
  <2> QED BY <1>10, <2>1 DEF ModifyOrderHash
<1>11. CASE t.kind = "MintShares"
  <2>1. t.publicPoolIndex \in Field /\ t.shareAmount \in Field
    BY <1>11, NumberIsField DEF ArgsOf
  <2> QED BY <1>11, <2>1 DEF MintSharesHash
<1>12. CASE t.kind = "BurnShares"
  <2>1. t.publicPoolIndex \in Field /\ t.shareAmount \in Field
    BY <1>12, NumberIsField DEF ArgsOf
  <2> QED BY <1>12, <2>1 DEF BurnSharesHash
<1>13. CASE t.kind = "UpdateLeverage"
  <2>1. \A f \in {"market", "initialMarginFraction", "marginMode"} : t[f] \in Field
    BY <1>13, NumberIsField DEF ArgsOf
  <2> QED BY <1>13, <2>1 DEF UpdateLeverageHash
<1>14. CASE t.kind = "UpdateMargin"
  <2>1. t.market \in Field /\ t.usdcAmount \in Nat /\ t.direction \in Field
    BY <1>0, <1>14, NumberIsField DEF ArgsOf
  <2>2. <<t.market>> \in Seq(Field) /\ <<t.direction>> \in Seq(Field)
    BY <2>1
  <2>3. <<t.market>> \o Words(t.usdcAmount) \in Seq(Field)
    BY <2>1, <2>2, WordsSeq, ConcatProperties
  <2>4. UpdateMarginHash(t) \in Seq(Field)
    BY <2>2, <2>3, ConcatProperties DEF UpdateMarginHash
  <2> QED BY <1>14, <2>4
<1> QED
  BY <1>0, <1>1, <1>2, <1>3, <1>4, <1>5, <1>6, <1>7, <1>8, <1>9, <1>10, <1>11, <1>12, <1>13,
     <1>14 DEF ArgsOf

\* Equal contents are of equal fields.
LEMMA ContentBinds ==
  ASSUME NEW t \in Signable, NEW u \in Signable, t.kind = u.kind, Content(t) = Content(u),
         NEW f \in ArgsOf[t.kind] \ {"memo"}
  PROVE  t[f] = u[f]
<1>0. t.kind \in DOMAIN ArgsOf /\ MaxInt64 \in Nat
  BY SignableTyped, Sizes
<1>15. \A g \in ArgsOf[t.kind] \ {"kind", "memo", "pubKey"} :
         t[g] \in 0 .. MaxInt64 /\ t[g] \in Field /\ u[g] \in 0 .. MaxInt64 /\ u[g] \in Field
  BY NumberIsField
<1> USE DEF Content, FieldsHash
<1>1. CASE t.kind = "ChangePubKey"
  BY <1>1 DEF ChangePubKeyHash, ArgsOf
<1>2. CASE t.kind = "CreateSubAccount"
  BY <1>2 DEF ArgsOf
<1>3. CASE t.kind = "CreatePublicPool"
  BY <1>3 DEF CreatePublicPoolHash, ArgsOf
<1>4. CASE t.kind = "UpdatePublicPool"
  BY <1>4 DEF UpdatePublicPoolHash, ArgsOf
<1>5. CASE t.kind = "Transfer"
  <2>1. /\ t.toAccountIndex \in Field /\ u.toAccountIndex \in Field
        /\ t.usdcAmount \in 0 .. MaxInt64 /\ u.usdcAmount \in 0 .. MaxInt64
        /\ t.fee \in 0 .. MaxInt64 /\ u.fee \in 0 .. MaxInt64
    BY <1>5, <1>15 DEF ArgsOf
  <2>2. /\ t.usdcAmount \in Nat /\ u.usdcAmount \in Nat /\ t.fee \in Nat /\ u.fee \in Nat
    BY <1>0, <2>1
  <2> DEFINE a == <<t.toAccountIndex>>  b == <<u.toAccountIndex>>
             v == Words(t.usdcAmount)  w == Words(u.usdcAmount)
             x == Words(t.fee)  y == Words(u.fee)
  <2>3. /\ a \in Seq(Field) /\ b \in Seq(Field) /\ Len(a) = 1 /\ Len(b) = 1
        /\ a = b => t.toAccountIndex = u.toAccountIndex
    BY <2>1
  <2>4. /\ v \in Seq(Field) /\ w \in Seq(Field) /\ Len(v) = 2 /\ Len(w) = 2
        /\ x \in Seq(Field) /\ y \in Seq(Field)
    BY <2>2, WordsSeq
  <2>5. (a \o v) \o x = (b \o w) \o y
    BY <1>5 DEF TransferHash
  <2>6. v = w => t.usdcAmount = u.usdcAmount
    BY <2>1, AmountBinds
  <2>7. x = y => t.fee = u.fee
    BY <2>1, AmountBinds
  <2> HIDE DEF a, b, v, w, x, y
  <2>8. /\ a \o v \in Seq(Field) /\ b \o w \in Seq(Field) /\ Len(a \o v) = Len(b \o w)
    <3>1. a \o v \in Seq(Field) /\ Len(a \o v) = Len(a) + Len(v)
      BY <2>3, <2>4, ConcatProperties
    <3>2. b \o w \in Seq(Field) /\ Len(b \o w) = Len(b) + Len(w)
      BY <2>3, <2>4, ConcatProperties
    <3> QED BY <2>3, <2>4, <3>1, <3>2
  <2>9. a \o v = b \o w /\ x = y
    BY <2>4, <2>5, <2>8, ConcatSplits
  <2>10. a = b /\ v = w
    BY <2>3, <2>4, <2>9, ConcatSplits
  <2> QED BY <1>5, <2>3, <2>6, <2>7, <2>9, <2>10 DEF ArgsOf
<1>6. CASE t.kind = "Withdraw"
  <2>1. t.usdcAmount \in 0 .. MaxInt64 /\ u.usdcAmount \in 0 .. MaxInt64
    BY <1>6, <1>15 DEF ArgsOf
  <2>2. Words(t.usdcAmount) = Words(u.usdcAmount)
    BY <1>6 DEF WithdrawHash
  <2> QED BY <1>6, <2>1, <2>2, AmountBinds DEF ArgsOf
<1>7. CASE t.kind = "CreateOrder"
  BY <1>7 DEF CreateOrderHash, ArgsOf
<1>8. CASE t.kind = "CancelOrder"
  BY <1>8 DEF CancelOrderHash, ArgsOf
<1>9. CASE t.kind = "CancelAllOrders"
  BY <1>9 DEF CancelAllOrdersHash, ArgsOf
<1>10. CASE t.kind = "ModifyOrder"
  BY <1>10 DEF ModifyOrderHash, ArgsOf
<1>11. CASE t.kind = "MintShares"
  BY <1>11 DEF MintSharesHash, ArgsOf
<1>12. CASE t.kind = "BurnShares"
  BY <1>12 DEF BurnSharesHash, ArgsOf
<1>13. CASE t.kind = "UpdateLeverage"
  BY <1>13 DEF UpdateLeverageHash, ArgsOf
<1>14. CASE t.kind = "UpdateMargin"
  <2>1. /\ t.market \in Field /\ u.market \in Field /\ t.direction \in Field /\ u.direction \in Field
        /\ t.usdcAmount \in 0 .. MaxInt64 /\ u.usdcAmount \in 0 .. MaxInt64
    BY <1>14, <1>15 DEF ArgsOf
  <2>2. t.usdcAmount \in Nat /\ u.usdcAmount \in Nat
    BY <1>0, <2>1
  <2> DEFINE a == <<t.market>>  b == <<u.market>>
             v == Words(t.usdcAmount)  w == Words(u.usdcAmount)
             x == <<t.direction>>  y == <<u.direction>>
  <2>3. /\ a \in Seq(Field) /\ b \in Seq(Field) /\ Len(a) = 1 /\ Len(b) = 1
        /\ x \in Seq(Field) /\ y \in Seq(Field)
        /\ a = b => t.market = u.market
        /\ x = y => t.direction = u.direction
    BY <2>1
  <2>4. v \in Seq(Field) /\ w \in Seq(Field) /\ Len(v) = 2 /\ Len(w) = 2
    BY <2>2, WordsSeq
  <2>5. (a \o v) \o x = (b \o w) \o y
    BY <1>14 DEF UpdateMarginHash
  <2>6. v = w => t.usdcAmount = u.usdcAmount
    BY <2>1, AmountBinds
  <2> HIDE DEF a, b, v, w, x, y
  <2>7. /\ a \o v \in Seq(Field) /\ b \o w \in Seq(Field) /\ Len(a \o v) = Len(b \o w)
    <3>1. a \o v \in Seq(Field) /\ Len(a \o v) = Len(a) + Len(v)
      BY <2>3, <2>4, ConcatProperties
    <3>2. b \o w \in Seq(Field) /\ Len(b \o w) = Len(b) + Len(w)
      BY <2>3, <2>4, ConcatProperties
    <3> QED BY <2>3, <2>4, <3>1, <3>2
  <2>8. a \o v = b \o w /\ x = y
    BY <2>3, <2>5, <2>7, ConcatSplits
  <2>9. a = b /\ v = w
    BY <2>3, <2>4, <2>8, ConcatSplits
  <2> QED BY <1>14, <2>3, <2>6, <2>8, <2>9 DEF ArgsOf
<1> QED
  BY <1>0, <1>1, <1>2, <1>3, <1>4, <1>5, <1>6, <1>7, <1>8, <1>9, <1>10, <1>11, <1>12, <1>13,
     <1>14 DEF ArgsOf

LEMMA TypesDiffer ==
  /\ DOMAIN TxType = DOMAIN ArgsOf \cup {"CreateGroupedOrders"}
  /\ \A k \in DOMAIN TxType : TxType[k] \in 8 .. 29
  /\ \A k, l \in DOMAIN TxType : TxType[k] = TxType[l] => k = l
BY DEF TxType, ArgsOf

LEMMA HeaderTyped ==
  ASSUME NEW t \in Signable
  PROVE  HeaderHash(t) \in Seq(Field) /\ Len(HeaderHash(t)) = 5
<1>1. \A f \in HeaderArgs : t[f] \in Field
  BY NumberIsField DEF HeaderArgs
<1>2. TxType[t.kind] \in Field
  BY SignableTyped, TypesDiffer, Sizes DEF Field
<1> QED BY <1>1, <1>2 DEF HeaderHash, HeaderArgs

\* What can be signed is hashed as it is: reducing to elements changes nothing.
LEMMA HashIs ==
  ASSUME NEW t \in Signable
  PROVE  Hash(t) = HeaderHash(t) \o Content(t)
<1>1. Elements(HeaderHash(t)) = HeaderHash(t)
  BY HeaderTyped, ElementsAreSelf
<1>2. t.kind # "ChangePubKey" => Elements(FieldsHash(t)) = FieldsHash(t)
  BY ContentTyped, ElementsAreSelf DEF Content
<1> QED BY <1>1, <1>2 DEF Hash, Content

LEMMA HashBinds ==
  ASSUME NEW t \in Signable, NEW u \in Signable, Hash(t) = Hash(u)
  PROVE  Hashed(t) = Hashed(u)
<1>1. HeaderHash(t) = HeaderHash(u) /\ Content(t) = Content(u)
  BY HashIs, HeaderTyped, ContentTyped, ConcatSplits
<1>2. /\ TxType[t.kind] = TxType[u.kind]
      /\ t.nonce = u.nonce /\ t.expiredAt = u.expiredAt
      /\ t.account = u.account /\ t.apiKey = u.apiKey
  BY <1>1 DEF HeaderHash
<1>3. t.kind = u.kind
  BY <1>2, SignableTyped, TypesDiffer
<1>4. DOMAIN t = DOMAIN u /\ DOMAIN t = FieldsOf(t.kind)
  BY <1>3, SignableTyped
<1>5. ASSUME NEW f \in DOMAIN t \ {"memo"} PROVE t[f] = u[f]
  <2>1. CASE f = "kind"
    BY <1>3, <2>1
  <2>2. CASE f \in HeaderArgs
    BY <1>2, <2>2 DEF HeaderArgs
  <2>3. CASE f \in ArgsOf[t.kind]
    BY <1>1, <1>3, <2>3, ContentBinds
  <2> QED BY <1>4, <2>1, <2>2, <2>3 DEF FieldsOf
<1> QED BY <1>4, <1>5 DEF Hashed
-----------------------------------------------------------------------------
(* The hash of a group binds its orders *)

LEMMA AppendSplits ==
  ASSUME NEW S, NEW a \in Seq(S), NEW b \in Seq(S), NEW x, NEW y,
         Len(a) = Len(b), Append(a, x) = Append(b, y)
  PROVE  a = b /\ x = y
<1> DEFINE T == S \cup {x, y}
<1>1. a \in Seq(T) /\ b \in Seq(T) /\ x \in T /\ y \in T
  BY SeqMonotonic
<1> HIDE DEF T
<1>2. /\ \A i \in 1 .. Len(a) : Append(a, x)[i] = a[i]
      /\ Append(a, x)[Len(a) + 1] = x
  BY <1>1, AppendProperties
<1>3. /\ \A i \in 1 .. Len(b) : Append(b, y)[i] = b[i]
      /\ Append(b, y)[Len(b) + 1] = y
  BY <1>1, AppendProperties
<1>4. a = b
  BY <1>2, <1>3, SeqEqual
<1> QED BY <1>2, <1>3, <1>4

\* The orders of a group that can be signed.
LEMMA GroupOrders ==
  ASSUME NEW g \in ValidGroups
  PROVE  /\ g.header = TRUE /\ g.grouping \in 1 .. 3
         /\ Len(g.orders) = (IF g.grouping = 3 THEN 3 ELSE 2)
         /\ g = [header |-> g.header, grouping |-> g.grouping, orders |-> g.orders]
         /\ g.orders \in Seq(Order)
         /\ \A i \in 1 .. Len(g.orders) : CreateOrderHash(g.orders[i]) \in Seq(Field)
<1>1. /\ g \in Submissions /\ Validate(g)
      /\ g \in [header : BOOLEAN, grouping : Nat, orders : Seq(Order)]
      /\ g.header = TRUE
  BY SubmissionAssumption DEF ValidGroups
<1>2. /\ g.grouping \in 1 .. 3
      /\ Len(g.orders) = (IF g.grouping = 3 THEN 3 ELSE 2)
  BY <1>1 DEF Validate, ValidateOCO, ValidateOTO, ValidateOTOCO, OneCancelsTheOther,
              OneTriggersTheOther, OneTriggersAOneCancelsTheOther
<1>3. ASSUME NEW i \in 1 .. Len(g.orders) PROVE CreateOrderHash(g.orders[i]) \in Seq(Field)
  <2>1. i \in DOMAIN g.orders /\ g.orders[i] \in Order
    BY <1>1, <1>3, LenProperties, ElementOfSeq
  <2> DEFINE o == g.orders[i]
  <2>2. \A f \in DOMAIN o : o[f] <= MaxInt64
    BY <1>1, <2>1, GroupAssumption
  <2>3. o.clientOrderIndex = 0 /\ o.baseAmount >= 0 /\ o.orderExpiry >= 0
    <3>1. GroupedInRange(o, g.orders[1])
      BY <1>1, <2>1 DEF Validate
    <3>2. o.baseAmount \in Int /\ o.orderExpiry \in Int
      BY <2>1 DEF Order
    <3> QED BY <3>1, <3>2 DEF GroupedInRange, OrderInRange, AmountInRange, Nil
  <2> HIDE DEF o
  <2>4. o \in Order
    BY <2>1 DEF o
  <2>5. \A f \in {"market", "clientOrderIndex", "baseAmount", "price", "isAsk", "type",
                  "timeInForce", "reduceOnly", "triggerPrice", "orderExpiry"} : o[f] \in Field
    <3>1. \A f \in {"market", "clientOrderIndex", "baseAmount", "price", "isAsk", "type",
                    "timeInForce", "reduceOnly", "triggerPrice", "orderExpiry"} :
            f \in DOMAIN o /\ o[f] \in Nat
      BY <2>3, <2>4 DEF Order
    <3> QED BY <2>2, <3>1, Sizes DEF Field
  <2> QED BY <2>5 DEF CreateOrderHash, o
<1> QED BY <1>1, <1>2, <1>3

LEMMA OrderBinds ==
  ASSUME NEW o \in Order, NEW p \in Order, CreateOrderHash(o) = CreateOrderHash(p)
  PROVE  o = p
BY DEF Order, CreateOrderHash

\* The first part of a group's hash, and the chain of its orders' hashes.
GroupOwn(c, g) == Elements(HeaderHash(c) \o <<g.grouping>>)

OrderHash(g, i) == Elements(CreateOrderHash(g.orders[i]))

Chain(g) ==
  IF Len(g.orders) = 2 THEN <<OrderHash(g, 1), OrderHash(g, 2)>>
  ELSE <<<<OrderHash(g, 1), OrderHash(g, 2)>>, OrderHash(g, 3)>>

LEMMA GroupHashIs ==
  ASSUME NEW c, NEW g
  PROVE  GroupHash(c, g) = Append(GroupOwn(c, g), Chain(g))
BY DEF GroupHash, GroupOwn, Chain, OrderHash

\* An accepted header's numbers are elements of the field.
LEMMA GroupHeaderTyped ==
  ASSUME NEW c \in Headers
  PROVE  /\ c.kind = "CreateGroupedOrders"
         /\ c = [f \in {"kind"} \cup HeaderArgs |-> c[f]]
         /\ HeaderHash(c) \in Seq(Field) /\ Len(HeaderHash(c)) = 5
         /\ HeaderHash(c)[1] = 28
<1>1. /\ c \in GroupCalls /\ HeaderInRange(c) /\ c.kind = "CreateGroupedOrders"
      /\ c = [f \in {"kind"} \cup HeaderArgs |-> c[f]]
      /\ c.apiKey \in 0 .. Uint8 - 1 /\ \A f \in HeaderArgs : c[f] \in Int64
  BY GroupAssumption DEF Headers
<1>2. MaxAccountIndex \in 1 .. MaxInt64 /\ MaxTimestamp \in 1 .. MaxInt64
  BY LimitAssumption
<1>3. c.account \in Int64 /\ c.nonce \in Int64 /\ c.expiredAt \in Int64
  BY <1>1 DEF HeaderArgs
<1>4. /\ c.account \in 0 .. MaxInt64 /\ c.nonce \in 0 .. MaxInt64
      /\ c.expiredAt \in 0 .. MaxInt64 /\ c.apiKey \in 0 .. MaxInt64
  BY <1>1, <1>2, <1>3, Sizes DEF HeaderInRange, Int64
<1>5. 0 .. MaxInt64 \subseteq Field /\ 28 \in Field
  BY Sizes DEF Field
<1>6. HeaderHash(c) = <<28, c.nonce, c.expiredAt, c.account, c.apiKey>>
  BY <1>1 DEF HeaderHash, TxType
<1>7. HeaderHash(c) \in Seq(Field) /\ Len(HeaderHash(c)) = 5 /\ HeaderHash(c)[1] = 28
  <2>1. /\ 28 \in Field /\ c.nonce \in Field /\ c.expiredAt \in Field
        /\ c.account \in Field /\ c.apiKey \in Field
    BY <1>4, <1>5
  <2> QED BY <1>6, <2>1
<1> QED BY <1>1, <1>7

LEMMA GroupOwnTyped ==
  ASSUME NEW c \in Headers, NEW g \in ValidGroups
  PROVE  /\ GroupOwn(c, g) \in Seq(Field) /\ Len(GroupOwn(c, g)) = 6
         /\ GroupOwn(c, g) = HeaderHash(c) \o <<g.grouping>>
         /\ <<g.grouping>> \in Seq(Field)
<1>1. HeaderHash(c) \in Seq(Field) /\ Len(HeaderHash(c)) = 5
  BY GroupHeaderTyped
<1>2. <<g.grouping>> \in Seq(Field) /\ Len(<<g.grouping>>) = 1
  <2>1. g.grouping \in 1 .. 3
    BY GroupOrders
  <2>2. Modulus \in Nat /\ 29 < Modulus
    BY Sizes
  <2> QED BY <2>1, <2>2 DEF Field
<1> DEFINE x == HeaderHash(c)
           y == <<g.grouping>>
<1>3. x \in Seq(Field) /\ y \in Seq(Field) /\ Len(x) = 5 /\ Len(y) = 1
  BY <1>1, <1>2
<1>4. GroupOwn(c, g) = Elements(x \o y)
  BY DEF GroupOwn
<1> HIDE DEF x, y
<1>5. x \o y \in Seq(Field) /\ Len(x \o y) = 6
  <2>1. x \o y \in Seq(Field) /\ Len(x \o y) = Len(x) + Len(y)
    BY <1>3, ConcatProperties, Zenon
  <2> QED BY <1>3, <2>1
<1>6. Elements(x \o y) = x \o y
  BY <1>5, ElementsAreSelf
<1>7. GroupOwn(c, g) \in Seq(Field) /\ Len(GroupOwn(c, g)) = 6 /\ GroupOwn(c, g) = x \o y
  BY <1>4, <1>5, <1>6
<1>8. GroupOwn(c, g) = HeaderHash(c) \o <<g.grouping>>
  BY <1>7, Zenon DEF x, y
<1> QED BY <1>2, <1>7, <1>8

LEMMA PairBinds ==
  ASSUME NEW a, NEW b, NEW x, NEW y, <<a, b>> = <<x, y>>
  PROVE  a = x /\ b = y
OBVIOUS

\* Header and orders of a group follow from its hash.
LEMMA GroupBinds ==
  ASSUME NEW c \in Headers, NEW d \in Headers, NEW g \in ValidGroups, NEW h \in ValidGroups,
         GroupHash(c, g) = GroupHash(d, h)
  PROVE  c = d /\ g = h
<1>1. GroupOwn(c, g) = GroupOwn(d, h) /\ Chain(g) = Chain(h)
  <2>1. Append(GroupOwn(c, g), Chain(g)) = Append(GroupOwn(d, h), Chain(h))
    BY GroupHashIs
  <2>2. /\ GroupOwn(c, g) \in Seq(Field) /\ GroupOwn(d, h) \in Seq(Field)
        /\ Len(GroupOwn(c, g)) = Len(GroupOwn(d, h))
    BY GroupOwnTyped
  <2> QED BY <2>1, <2>2, AppendSplits
<1>2. HeaderHash(c) = HeaderHash(d) /\ g.grouping = h.grouping
  <2>1. HeaderHash(c) \o <<g.grouping>> = HeaderHash(d) \o <<h.grouping>>
    BY <1>1, GroupOwnTyped
  <2> DEFINE a == HeaderHash(c)
             b == HeaderHash(d)
             x == <<g.grouping>>
             y == <<h.grouping>>
  <2>2. a \in Seq(Field) /\ b \in Seq(Field) /\ Len(a) = Len(b)
    BY GroupHeaderTyped
  <2>3. x \in Seq(Field) /\ y \in Seq(Field)
    BY GroupOwnTyped
  <2>4. a \o x = b \o y
    BY <2>1
  <2> HIDE DEF a, b, x, y
  <2>5. a = b /\ x = y
    BY <2>2, <2>3, <2>4, ConcatSplits
  <2>6. HeaderHash(c) = HeaderHash(d) /\ <<g.grouping>> = <<h.grouping>>
    BY <2>5 DEF a, b, x, y
  <2> QED BY <2>6
<1>3. Len(g.orders) = Len(h.orders) /\ Len(g.orders) \in 2 .. 3
  <2>1. Len(g.orders) = (IF g.grouping = 3 THEN 3 ELSE 2)
    BY GroupOrders
  <2>2. Len(h.orders) = (IF h.grouping = 3 THEN 3 ELSE 2)
    BY GroupOrders
  <2> QED BY <1>2, <2>1, <2>2
<1>4. ASSUME NEW i \in 1 .. Len(g.orders) PROVE OrderHash(g, i) = OrderHash(h, i)
  <2>1. CASE Len(g.orders) = 2
    <3>1. /\ Chain(g) = <<OrderHash(g, 1), OrderHash(g, 2)>>
          /\ Chain(h) = <<OrderHash(h, 1), OrderHash(h, 2)>>
      BY <1>3, <2>1 DEF Chain
    <3>2. OrderHash(g, 1) = OrderHash(h, 1) /\ OrderHash(g, 2) = OrderHash(h, 2)
      <4>1. <<OrderHash(g, 1), OrderHash(g, 2)>> = <<OrderHash(h, 1), OrderHash(h, 2)>>
        BY <1>1, <3>1
      <4> QED BY <4>1, PairBinds
    <3>3. i = 1 \/ i = 2
      BY <2>1
    <3> QED BY <3>2, <3>3
  <2>2. CASE Len(g.orders) = 3
    <3>1. /\ Chain(g) = <<<<OrderHash(g, 1), OrderHash(g, 2)>>, OrderHash(g, 3)>>
          /\ Chain(h) = <<<<OrderHash(h, 1), OrderHash(h, 2)>>, OrderHash(h, 3)>>
      BY <1>3, <2>2 DEF Chain
    <3>2. /\ <<OrderHash(g, 1), OrderHash(g, 2)>> = <<OrderHash(h, 1), OrderHash(h, 2)>>
          /\ OrderHash(g, 3) = OrderHash(h, 3)
      <4>1. <<<<OrderHash(g, 1), OrderHash(g, 2)>>, OrderHash(g, 3)>>
              = <<<<OrderHash(h, 1), OrderHash(h, 2)>>, OrderHash(h, 3)>>
        BY <1>1, <3>1
      <4> QED BY <4>1, PairBinds
    <3>3. OrderHash(g, 1) = OrderHash(h, 1) /\ OrderHash(g, 2) = OrderHash(h, 2)
      BY <3>2, PairBinds
    <3>4. i = 1 \/ i = 2 \/ i = 3
      BY <2>2
    <3> QED BY <3>2, <3>3, <3>4
  <2> QED BY <1>3, <2>1, <2>2
<1>5. ASSUME NEW i \in 1 .. Len(g.orders) PROVE g.orders[i] = h.orders[i]
  <2>1. OrderHash(g, i) = CreateOrderHash(g.orders[i])
    BY GroupOrders, ElementsAreSelf DEF OrderHash
  <2>2. OrderHash(h, i) = CreateOrderHash(h.orders[i])
    BY <1>3, GroupOrders, ElementsAreSelf DEF OrderHash
  <2>3. g.orders[i] \in Order /\ h.orders[i] \in Order
    BY <1>3, GroupOrders, ElementOfSeq
  <2> QED BY <1>4, <2>1, <2>2, <2>3, OrderBinds
<1>6. g.orders = h.orders
  BY <1>3, <1>5, GroupOrders, SeqEqual
<1>7. c = d
  <2>1. /\ c.nonce = d.nonce /\ c.expiredAt = d.expiredAt
        /\ c.account = d.account /\ c.apiKey = d.apiKey
    BY <1>2 DEF HeaderHash
  <2>2. c.kind = d.kind
    BY GroupHeaderTyped
  <2>3. \A f \in {"kind"} \cup HeaderArgs : c[f] = d[f]
    BY <2>1, <2>2 DEF HeaderArgs
  <2>4. /\ c = [f \in {"kind"} \cup HeaderArgs |-> c[f]]
        /\ d = [f \in {"kind"} \cup HeaderArgs |-> d[f]]
    BY GroupHeaderTyped
  <2> QED BY <2>3, <2>4
<1> QED BY <1>2, <1>6, <1>7, GroupOrders

\* No call has the hash of a group: the type is the first element of both.
LEMMA GroupIsNoCall ==
  ASSUME NEW c \in Headers, NEW g \in ValidGroups, NEW t \in Signable
  PROVE  GroupHash(c, g) # Hash(t)
<1>1. GroupHash(c, g)[1] = 28
  <2>1. HeaderHash(c) \in Seq(Field) /\ Len(HeaderHash(c)) = 5 /\ HeaderHash(c)[1] = 28
    BY GroupHeaderTyped
  <2>2. /\ GroupOwn(c, g) \in Seq(Field) /\ Len(GroupOwn(c, g)) = 6
        /\ GroupOwn(c, g) = HeaderHash(c) \o <<g.grouping>> /\ <<g.grouping>> \in Seq(Field)
    BY GroupOwnTyped
  <2>3. GroupOwn(c, g)[1] = HeaderHash(c)[1]
    BY <2>1, <2>2, ConcatProperties
  <2> DEFINE own == GroupOwn(c, g)  T == Field \cup {Chain(g)}
  <2>4. own \in Seq(T) /\ Chain(g) \in T /\ Len(own) = 6
    BY <2>2, SeqMonotonic
  <2> HIDE DEF own, T
  <2>5. Append(own, Chain(g))[1] = own[1]
    BY <2>4, AppendProperties
  <2> QED BY <2>1, <2>3, <2>5, GroupHashIs DEF own
<1>2. Hash(t)[1] = TxType[t.kind]
  <2>1. HeaderHash(t) \in Seq(Field) /\ Len(HeaderHash(t)) = 5 /\ Content(t) \in Seq(Field)
    BY HeaderTyped, ContentTyped
  <2>2. (HeaderHash(t) \o Content(t))[1] = HeaderHash(t)[1]
    BY <2>1, ConcatProperties, LenProperties
  <2> QED BY <2>2, HashIs DEF HeaderHash
<1>3. t.kind \in DOMAIN ArgsOf
  BY SignableTyped
<1>4. TxType[t.kind] # 28
  BY <1>3, TypesDiffer DEF TxType, ArgsOf
<1> QED BY <1>1, <1>2, <1>4
-----------------------------------------------------------------------------
(* What was answered *)

\* The group, if there is one, is as GroupedOrders says; a result carries the hash
\* of the call, or of its group, that passed validation.
TxIInv ==
  /\ IInv
  /\ \/ call \in Calls /\ verdict = "none"
     \/ call \in GroupCalls /\ tx \in Submissions /\ tx.header = HeaderInRange(call)
  /\ Answered =>
       \/ /\ verdict = "none" /\ call \in Calls /\ Narrowed(call) \in Signable
          /\ answer.sig = Hash(Narrowed(call)) /\ answer.tx = ReadBack(Narrowed(call))
       \/ /\ verdict = "signed" /\ call \in Headers /\ tx \in ValidGroups
          /\ answer.sig = GroupHash(call, tx)

LEMMA KindsDiffer ==
  /\ \A c \in Calls : c.kind # "CreateGroupedOrders"
  /\ \A c \in GroupCalls : c.kind = "CreateGroupedOrders"
BY CallAssumption, GroupAssumption DEF ArgsOf

LEMMA TxInitInv == TxInit => TxIInv
<1> SUFFICES ASSUME TxInit PROVE TxIInv
  OBVIOUS
<1>1. ~Answered /\ verdict = "none"
  BY DEF TxInit, Nothing, Answered
<1>2. tx \in Groups
  <2>1. NoGroup \in Groups
    BY DEF NoGroup, Groups
  <2> QED BY <2>1, SubmissionAssumption DEF TxInit, Groups
<1> QED BY <1>1, <1>2 DEF TxInit, TxIInv, IInv, Signed

LEMMA TxNextInv == TxIInv /\ [TxNext]_txVars => TxIInv'
<1> SUFFICES ASSUME TxIInv, [TxNext]_txVars PROVE TxIInv'
  OBVIOUS
<1>1. CASE Sign
  <2>1. call \in Calls /\ UNCHANGED <<tx, verdict, call>> /\ verdict = "none"
    BY <1>1, KindsDiffer DEF Sign, TxIInv
  <2>2. IInv'
    BY <2>1 DEF TxIInv, IInv, Signed, Validate
  <2>3. ASSUME Answered'
        PROVE  /\ Narrowed(call) \in Signable
               /\ answer'.sig = Hash(Narrowed(call)) /\ answer'.tx = ReadBack(Narrowed(call))
    <3> DEFINE t == Narrowed(call)
    <3>1. InRange(t) /\ Hashes(t) /\ answer' = Answers(ReadBack(t), Hash(t))
      BY <1>1, <2>3 DEF Sign, Answered, Err
    <3>2. t \in Signable
      BY <2>1, <3>1 DEF Signable
    <3> HIDE DEF t
    <3> QED BY <3>1, <3>2 DEF Answers, t
  <2> QED BY <2>1, <2>2, <2>3 DEF TxIInv
<1>2. CASE SignGroup
  <2>1. /\ call \in GroupCalls /\ tx \in Submissions /\ tx.header = HeaderInRange(call)
        /\ UNCHANGED <<tx, call>>
    BY <1>2, KindsDiffer DEF SignGroup, Construct, TxIInv
  <2>2. IInv'
    BY <1>2, Inductive DEF SignGroup, Next, TxIInv
  <2>3. ASSUME Answered'
        PROVE  /\ verdict' = "signed" /\ call \in Headers /\ tx \in ValidGroups
               /\ answer'.sig = GroupHash(call, tx)
    <3>1. verdict' = "signed" /\ answer' = Answers(call, GroupHash(call, tx))
      BY <1>2, <2>3 DEF SignGroup, Answered, Err
    <3>2. Validate(tx)
      BY <1>2, <3>1 DEF SignGroup, Construct
    <3>3. tx.header
      BY <3>2 DEF Validate
    <3>4. tx \in ValidGroups
      BY <2>1, <3>2, <3>3 DEF ValidGroups
    <3>5. call \in Headers
      BY <2>1, <3>3 DEF Headers
    <3> QED BY <3>1, <3>4, <3>5 DEF Answers
  <2> QED BY <2>1, <2>2, <2>3 DEF TxIInv
<1>3. CASE UNCHANGED txVars
  BY <1>3 DEF txVars, TxIInv, IInv, Signed, Validate, Answered
<1> QED BY <1>1, <1>2, <1>3 DEF TxNext

\* The inductive invariant of the signing calls: what is answered carries the hash
\* of what was validated, and groups keep the invariant of GroupedOrders.
THEOREM TxInductive == TxSpec => []TxIInv
BY TxInitInv, TxNextInv, PTL DEF TxSpec

\* A float64 holds every number as far as its digits reach, the first with one
\* digit more among them.
LEMMA FloatIsExact ==
  ASSUME NEW n \in 0 .. Mantissa
  PROVE  Float(n) = n
<1>0. Mantissa \in Nat /\ Mantissa >= 1 /\ Mantissa % 2 = 0
  BY WidthAssumption, Sizes
<1> DEFINE Least(i) == n < Mantissa * 2 ^ i /\ \A j \in 0 .. i - 1 : n >= Mantissa * 2 ^ j
           e == CHOOSE i \in 0 .. n : Least(i)
           q == n \div 2 ^ e
           r == 2 * (n % 2 ^ e)
<1>1. 2 ^ 0 = 1 /\ 2 ^ 1 = 2
  OBVIOUS
<1>2. Float(n) = (IF r > 2 ^ e \/ (r = 2 ^ e /\ q % 2 = 1) THEN q + 1 ELSE q) * 2 ^ e
  BY DEF Float
<1>3. CASE n < Mantissa
  <2>1. 0 \in 0 .. n /\ Least(0)
    BY <1>0, <1>1, <1>3
  <2>2. e \in 0 .. n /\ Least(e)
    BY <2>1
  <2>3. e = 0
    <3> HIDE DEF e
    <3>1. ASSUME e # 0 PROVE FALSE
      <4>1. 0 \in 0 .. e - 1
        BY <2>2, <3>1
      <4>2. n >= Mantissa * 2 ^ 0
        BY <2>2, <4>1
      <4> QED BY <1>0, <1>1, <1>3, <4>2
    <3> QED BY <3>1
  <2>4. q = n /\ r = 0
    <3> HIDE DEF e
    <3> QED BY <1>1, <2>3
  <2> HIDE DEF e, q, r
  <2> QED BY <1>1, <1>2, <2>3, <2>4
<1>4. CASE n = Mantissa
  <2>1. 1 \in 0 .. n /\ Least(1)
    BY <1>0, <1>1, <1>4
  <2>2. e \in 0 .. n /\ Least(e)
    BY <2>1
  <2>3. e = 1
    <3> HIDE DEF e
    <3>1. ASSUME e = 0 PROVE FALSE
      <4>1. n < Mantissa * 2 ^ 0
        BY <2>2, <3>1
      <4> QED BY <1>0, <1>1, <1>4, <4>1
    <3>2. ASSUME e >= 2 PROVE FALSE
      <4>1. 1 \in 0 .. e - 1
        BY <2>2, <3>2
      <4>2. n >= Mantissa * 2 ^ 1
        BY <2>2, <4>1
      <4> QED BY <1>0, <1>1, <1>4, <4>2
    <3> QED BY <2>2, <3>1, <3>2
  <2>4. r = 0 /\ q * 2 = n /\ q \in Nat
    <3> HIDE DEF e
    <3> QED BY <1>0, <1>1, <1>4, <2>3
  <2> HIDE DEF e, q, r
  <2> QED BY <1>1, <1>2, <2>3, <2>4
<1> QED BY <1>3, <1>4, <1>0

\* What the exchange reads of a transaction with such numbers is what was signed.
LEMMA ReadBackExact ==
  ASSUME NEW t \in Signable,
         t.kind \in ViaMap => \A f \in Numbers(t) : t[f] \in 0 .. Mantissa
  PROVE  Hash(ReadBack(t)) = Hash(t)
<1>1. PICK c \in Calls : t = Narrowed(c)
  BY DEF Signable
<1>2. t = [f \in DOMAIN t |-> t[f]]
  <2> DEFINE u == [f \in DOMAIN c |-> Narrow(f, c[f])]
  <2>1. \/ t = u
        \/ t = [u EXCEPT !.usdcAmount = @ % Uint64]
        \/ t = [u EXCEPT !.orderExpiry = DefaultOrderExpiry]
    BY <1>1 DEF Narrowed
  <2>2. u = [f \in DOMAIN u |-> u[f]]
    OBVIOUS
  <2> HIDE DEF u
  <2> QED BY <2>1, <2>2
<1>3. CASE t.kind \in ViaMap
  <2>1. ASSUME NEW f \in Numbers(t) PROVE Printed(Float(t[f])) = t[f]
    <3>1. t[f] \in 0 .. Mantissa
      BY <1>3
    <3>2. Float(t[f]) = t[f]
      BY <3>1, FloatIsExact
    <3> QED BY <3>1, <3>2, WidthAssumption, Sizes DEF Printed
  <2>2. ReadBack(t) = [f \in DOMAIN t |-> t[f]]
    BY <1>3, <2>1 DEF ReadBack
  <2> QED BY <1>2, <2>2
<1>4. CASE t.kind \notin ViaMap
  BY <1>4 DEF ReadBack
<1> QED BY <1>3, <1>4

\* A signature binds: for every set of calls, headers and groups, every width of
\* the types and every limit, no two transactions that can be signed, of one type
\* or of two, groups among them, have one hash, unless they differ in the memo
\* alone.
THEOREM SignatureBinds == TxSpec => []BoundBySignature
<1>1. TxIInv => BoundBySignature
  <2> SUFFICES ASSUME TxIInv, Answered, NEW s \in SignedTransactions, s[1] = answer.sig
               PROVE  s[2] = Contents
    BY DEF BoundBySignature
  <2>1. CASE verdict = "signed"
    <3>1. /\ call \in Headers /\ tx \in ValidGroups /\ answer.sig = GroupHash(call, tx)
          /\ Contents = [header |-> call, group |-> tx]
      BY <2>1 DEF TxIInv, Contents
    <3>2. CASE s \in SignedCalls
      <4>1. PICK t \in Signable : s = <<Hash(t), Hashed(t)>>
        BY <3>2 DEF SignedCalls
      <4> QED BY <3>1, <4>1, GroupIsNoCall
    <3>3. CASE s \in SignedGroups
      <4>1. PICK c \in Headers, g \in ValidGroups :
              s = <<GroupHash(c, g), [header |-> c, group |-> g]>>
        BY <3>3 DEF SignedGroups
      <4>2. c = call /\ g = tx
        BY <3>1, <4>1, GroupBinds
      <4> QED BY <3>1, <4>1, <4>2
    <3> QED BY <3>2, <3>3 DEF SignedTransactions
  <2>2. CASE verdict # "signed"
    <3>1. /\ Narrowed(call) \in Signable /\ answer.sig = Hash(Narrowed(call))
          /\ Contents = Hashed(Narrowed(call))
      BY <2>2 DEF TxIInv, Contents
    <3>2. CASE s \in SignedCalls
      <4>1. PICK t \in Signable : s = <<Hash(t), Hashed(t)>>
        BY <3>2 DEF SignedCalls
      <4> QED BY <3>1, <4>1, HashBinds
    <3>3. CASE s \in SignedGroups
      <4>1. PICK c \in Headers, g \in ValidGroups :
              s = <<GroupHash(c, g), [header |-> c, group |-> g]>>
        BY <3>3 DEF SignedGroups
      <4> QED BY <3>1, <4>1, GroupIsNoCall
    <3> QED BY <3>2, <3>3 DEF SignedTransactions
  <2> QED BY <2>1, <2>2
<1> QED BY <1>1, TxInductive, PTL

\* No number that a call passes is signed as another one, except where a field is
\* too narrow for it and for an order's default expiry: a negative amount for the
\* unsigned field of a withdrawal is refused, whatever the widths are.
THEOREM AskedIsSigned == TxSpec => []SignedAsAsked
<1>1. TxIInv => SignedAsAsked
  <2> SUFFICES ASSUME TxIInv, Answered, verdict = "none" PROVE SignedAsAsked
    BY DEF SignedAsAsked
  <2>1. call \in Calls /\ Narrowed(call) \in Signable
    BY DEF TxIInv
  <2>2. InRange(Narrowed(call))
    BY <2>1 DEF Signable
  <2> QED BY <2>1, <2>2, NumberAsAsked DEF SignedAsAsked
<1> QED BY <1>1, TxInductive, PTL

\* The exchange computes the hash that was signed from the JSON it reads, also of
\* the two functions whose numbers have been through a float64, for all numbers
\* up to the first that has one digit more than a float64: for every number of
\* digits and all limits.
THEOREM ReturnedIsSigned == TxSpec => []ReturnedVerifies
<1>1. TxIInv => ReturnedVerifies
  <2> SUFFICES ASSUME TxIInv, Answered, verdict = "none",
                      call.kind \in ViaMap =>
                        \A f \in Numbers(call) : Narrowed(call)[f] <= Mantissa
               PROVE  Hash(answer.tx) = answer.sig
    BY DEF ReturnedVerifies
  <2> DEFINE t == Narrowed(call)
  <2>1. /\ call \in Calls /\ t \in Signable
        /\ answer.sig = Hash(t) /\ answer.tx = ReadBack(t)
    BY DEF TxIInv
  <2>2. t.kind = call.kind /\ Numbers(t) = Numbers(call)
    BY <2>1, NarrowedFields DEF Numbers
  <2>3. ASSUME t.kind \in ViaMap, NEW f \in Numbers(t) PROVE t[f] \in 0 .. Mantissa
    <3>1. t[f] <= Mantissa
      BY <2>2, <2>3
    <3>2. t[f] \in 0 .. MaxInt64
      BY <2>1, <2>2, AcceptedNumbers DEF Signable
    <3> HIDE DEF t
    <3> QED BY <3>1, <3>2, WidthAssumption, Sizes
  <2> HIDE DEF t
  <2> QED BY <2>1, <2>3, ReadBackExact
<1> QED BY <1>1, TxInductive, PTL

\* The rules between the orders of a group hold when groups are signed beside all
\* other transactions.
THEOREM GroupsKeepRules == TxSpec => [](ChildrenReduceOnly /\ OneExpiry /\ AcceptedAlone)
<1>1. TxIInv => ChildrenReduceOnly /\ OneExpiry /\ AcceptedAlone
  BY Reduces, Expires, Agrees DEF TxIInv
<1> QED BY <1>1, TxInductive, PTL
=============================================================================
