------------------------ MODULE GroupedOrders_proofs ------------------------
(***************************************************************************)
(* What the validation of a group guarantees, for every group of orders    *)
(* and every largest amount.  The inductive invariant says that a signed   *)
(* group passed Validate; the properties then follow from its rules, for   *)
(* one kind of group at a time.                                            *)
(***************************************************************************)
EXTENDS GroupedOrders, TLAPS

Groups == [header : BOOLEAN, grouping : Nat, orders : Seq(Order)]

IInv == /\ tx \in Groups
        /\ verdict \in {"none", "signed", "error"}
        /\ Signed => Validate(tx)

\* An accepted group is of two or three orders.
LEMMA Shape ==
  ASSUME tx \in Groups, Validate(tx)
  PROVE  /\ Len(tx.orders) \in 2 .. 3
         /\ DOMAIN tx.orders = 1 .. Len(tx.orders)
         /\ \A i \in DOMAIN tx.orders : tx.orders[i] \in Order
  BY DEF Groups, Validate, ValidateOCO, ValidateOTO, ValidateOTOCO

\* The children of each kind of group.
LEMMA ChildrenOf ==
  ASSUME tx \in Groups, Validate(tx), NEW o \in Children
  PROVE  \/ /\ tx.grouping = OneCancelsTheOther /\ ValidateOCO(tx.orders)
            /\ o \in {tx.orders[1], tx.orders[2]}
         \/ /\ tx.grouping = OneTriggersTheOther /\ ValidateOTO(tx.orders)
            /\ o = tx.orders[2]
         \/ /\ tx.grouping = OneTriggersAOneCancelsTheOther /\ ValidateOTOCO(tx.orders)
            /\ o \in {tx.orders[2], tx.orders[3]}
  <1>1. PICK i \in DOMAIN tx.orders : o = tx.orders[i] /\ (HasParent => i # 1)
    BY DEF Children
  <1>2. DOMAIN tx.orders = 1 .. Len(tx.orders)
    BY Shape
  <1>3. CASE tx.grouping = OneCancelsTheOther /\ ValidateOCO(tx.orders)
    BY <1>1, <1>2, <1>3 DEF ValidateOCO
  <1>4. CASE tx.grouping = OneTriggersTheOther /\ ValidateOTO(tx.orders)
    BY <1>1, <1>2, <1>4 DEF ValidateOTO, HasParent, OneTriggersTheOther, OneCancelsTheOther
  <1>5. CASE tx.grouping = OneTriggersAOneCancelsTheOther /\ ValidateOTOCO(tx.orders)
    BY <1>1, <1>2, <1>5 DEF ValidateOTOCO, HasParent, OneTriggersAOneCancelsTheOther,
                            OneCancelsTheOther
  <1> QED
    BY <1>3, <1>4, <1>5 DEF Validate

\* An order of an accepted group is in range.
LEMMA MemberInRange ==
  ASSUME tx \in Groups, Validate(tx), NEW i \in DOMAIN tx.orders
  PROVE  tx.orders[i] \in Order /\ OrderInRange(tx.orders[i])
         /\ tx.orders[i].clientOrderIndex = Nil
  BY Shape DEF Validate, GroupedInRange

LEMMA ChildReduces ==
  ASSUME tx \in Groups, Validate(tx), NEW o \in Children
  PROVE  o.reduceOnly = 1
  <1>1. OrderInRange(o)
    BY MemberInRange DEF Children
  <1>2. CASE ValidateOCO(tx.orders) /\ o \in {tx.orders[1], tx.orders[2]}
    BY <1>2 DEF ValidateOCO
  <1>3. CASE o.baseAmount = Nil
    BY <1>1, <1>3 DEF OrderInRange, AmountInRange
  <1> QED
    BY <1>2, <1>3, ChildrenOf DEF ValidateOTO, ValidateOTOCO

LEMMA ChildTyped ==
  ASSUME tx \in Groups, Validate(tx), NEW o \in Children
  PROVE  TypedAsChild(o)
  BY ChildrenOf DEF ValidateOCO, ValidateOTO, ValidateOTOCO, ValidateSiblingOrders

LEMMA ParentTyped ==
  ASSUME tx \in Groups, Validate(tx), HasParent
  PROVE  TypedAsParent(Parent)
  BY DEF Validate, HasParent, Parent, ValidateOTO, ValidateOTOCO

LEMMA SameExpiry ==
  ASSUME tx \in Groups, Validate(tx), NEW o \in Children, NEW p \in Children
  PROVE  /\ o.orderExpiry = p.orderExpiry
         /\ HasParent => Parent.orderExpiry \in {Nil, o.orderExpiry}
  BY ChildrenOf DEF ValidateOCO, ValidateOTO, ValidateOTOCO, HasParent, Parent,
     OneCancelsTheOther, OneTriggersTheOther, OneTriggersAOneCancelsTheOther

LEMMA SameSide ==
  ASSUME tx \in Groups, Validate(tx), NEW o \in Children, NEW p \in Children
  PROVE  /\ o.isAsk = p.isAsk
         /\ HasParent => o.isAsk = 1 - Parent.isAsk
  <1>1. o.isAsk \in {0, 1} /\ p.isAsk \in {0, 1}
    BY MemberInRange DEF Children, OrderInRange, FlagsInRange
  <1>2. Parent.isAsk \in {0, 1}
    BY MemberInRange, Shape DEF Parent, OrderInRange, FlagsInRange
  <1>3. CASE tx.grouping = OneCancelsTheOther
    BY <1>3, ChildrenOf DEF ValidateOCO, HasParent,
       OneCancelsTheOther, OneTriggersTheOther, OneTriggersAOneCancelsTheOther
  <1>4. CASE tx.grouping # OneCancelsTheOther
    <2>1. o.isAsk # Parent.isAsk /\ p.isAsk # Parent.isAsk
      BY <1>4, ChildrenOf DEF ValidateOTO, ValidateOTOCO, Parent
    <2> QED
      BY <1>1, <1>2, <2>1
  <1> QED
    BY <1>3, <1>4
-----------------------------------------------------------------------------
LEMMA InitOK == Init => IInv
  BY SubmissionAssumption DEF Init, IInv, Signed, Groups

LEMMA Inductive == IInv /\ [Next]_vars => IInv'
  <1> SUFFICES ASSUME IInv, [Next]_vars PROVE IInv'
    OBVIOUS
  <1>1. CASE Construct
    BY <1>1 DEF IInv, Construct, Signed, Validate
  <1>2. CASE UNCHANGED vars
    BY <1>2 DEF IInv, vars, Signed, Validate
  <1> QED
    BY <1>1, <1>2 DEF Next

LEMMA Invariant == Spec => []IInv
  BY InitOK, Inductive, PTL DEF Spec

\* The properties of a group follow from the invariant.
LEMMA Reduces == IInv => ChildrenReduceOnly
  BY ChildReduces DEF IInv, ChildrenReduceOnly

LEMMA Expires == IInv => OneExpiry
  <1> SUFFICES ASSUME IInv, Signed PROVE OneExpiry
    BY DEF OneExpiry
  <1>1. tx \in Groups /\ Validate(tx)
    BY DEF IInv
  <1>2. ASSUME NEW o \in Children
        PROVE  o.orderExpiry > 0
    <2>1. o \in Order /\ OrderInRange(o) /\ TypedAsChild(o)
      BY <1>1, MemberInRange, ChildTyped DEF Children
    <2> QED
      BY <2>1 DEF OrderInRange, TypedAsChild, Order, Nil
  <1> QED
    BY <1>1, <1>2, SameExpiry DEF OneExpiry

LEMMA Agrees == IInv => AcceptedAlone
  <1> SUFFICES ASSUME IInv, Signed, NEW i \in DOMAIN tx.orders
               PROVE  ValidateOrder(tx.orders[i])
    BY DEF AcceptedAlone
  <1>1. tx \in Groups /\ Validate(tx)
    BY DEF IInv
  <1>2. OrderInRange(tx.orders[i]) /\ tx.orders[i].clientOrderIndex >= Nil
    BY <1>1, MemberInRange DEF Nil
  <1>3. TypedAsParent(tx.orders[i]) \/ TypedAsChild(tx.orders[i])
    <2>1. CASE HasParent /\ i = 1
      BY <1>1, <2>1, ParentTyped DEF Parent
    <2>2. CASE ~(HasParent /\ i = 1)
      BY <1>1, <2>2, ChildTyped DEF Children
    <2> QED
      BY <2>1, <2>2
  <1>4. TypedAlone(tx.orders[i])
    BY <1>3 DEF TypedAlone, TypedAsParent, TypedAsChild, StopLoss, TakeProfit, AtMarket,
       MarketOrder, LimitOrder, TWAPOrder
  <1> QED
    BY <1>2, <1>4 DEF ValidateOrder
-----------------------------------------------------------------------------
\* The verdict and the group keep their types; a signed group is of two or
\* three orders.
THEOREM TypeCorrect == Spec => []TypeOK
  <1>1. IInv => TypeOK
    BY Shape DEF IInv, TypeOK, Groups, Signed
  <1> QED
    BY <1>1, Invariant, PTL

\* In no group that is signed a triggered or cancelling order opens a position.
THEOREM ChildrenReduce == Spec => []ChildrenReduceOnly
  BY Reduces, Invariant, PTL

\* The children of a signed group have one expiry, after which no part of the
\* group is left.
THEOREM ExpireTogether == Spec => []OneExpiry
  BY Expires, Invariant, PTL

\* The children of a signed group close what its parent opens.
THEOREM OtherSide == Spec => []ChildrenOnOtherSide
  <1>1. IInv => ChildrenOnOtherSide
    BY SameSide DEF IInv, ChildrenOnOtherSide
  <1> QED
    BY <1>1, Invariant, PTL

\* Whatever is signed in a group would be signed alone: the two validators,
\* written apart, agree.
THEOREM ValidatorsAgree == Spec => []AcceptedAlone
  BY Agrees, Invariant, PTL
=============================================================================
