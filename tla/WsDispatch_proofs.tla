------------------------- MODULE WsDispatch_proofs -------------------------
(***************************************************************************)
(* Proofs about the dispatch of messages, for any traffic, any choice of   *)
(* handlers, any of the three clients and any number of messages.          *)
(***************************************************************************)
EXTENDS WsDispatch, TLAPS

\* The calls that message i causes, in order.
Plan(i) == processMessage(read[i])

\* The goroutine of message i has made the first n calls of its plan: the j-th
\* is entry f[j] of the history, and the rest is pending.
Follows(i, n, f) ==
  /\ Len(pending[i]) + n = Len(Plan(i))
  /\ \A j \in 1 .. Len(pending[i]) : pending[i][j] = Plan(i)[n + j]
  /\ \A j \in 1 .. n : calls[f[j]] = <<i, Plan(i)[j]>>
  /\ \A j, l \in 1 .. n : j < l => f[j] < f[l]
  /\ \A k \in DOMAIN calls : calls[k][1] = i => \E j \in 1 .. n : k = f[j]

CallsFollowPlan ==
  \A i \in DOMAIN read :
    \E n \in 0 .. Len(Plan(i)) : \E f \in [1 .. n -> DOMAIN calls] : Follows(i, n, f)

\* What a handler may be given, and a call.
Args == {None} \cup {m.error : m \in Traffic} \cup {m.code : m \in Traffic}
          \cup {extractMarketID(m.channel) : m \in Traffic}
CallRecord == [handler : handlers, arg : Args]

TypeIInv ==
  /\ client \in {"book", "tx", "account"} /\ handlers \in Registered
  /\ read \in Seq(Traffic) /\ pending \in Seq(Seq(CallRecord))
  /\ Len(pending) = Len(read)
  /\ calls \in Seq(Nat \X CallRecord)
  /\ \A k \in DOMAIN calls : calls[k][1] \in DOMAIN read

IInv == TypeIInv /\ CallsFollowPlan
-----------------------------------------------------------------------------
(* What processMessage decides *)

LEMMA CallIsTyped ==
  ASSUME NEW h, NEW a \in Args
  PROVE  Call(h, a) \in Seq(CallRecord)
<1>1. CASE h \in handlers
  <2>1. [handler |-> h, arg |-> a] \in CallRecord
    BY <1>1 DEF CallRecord
  <2> QED
    BY <1>1, <2>1 DEF Call
<1>2. CASE h \notin handlers
  BY <1>2 DEF Call
<1> QED
  BY <1>1, <1>2

LEMMA ErrorIsTyped ==
  ASSUME NEW m \in Traffic
  PROVE  handleError(m) \in Seq(CallRecord)
<1>1. m.error \in Args /\ m.code \in Args
  BY DEF Args
<1> QED
  BY <1>1, CallIsTyped DEF handleError

LEMMA BookIsTyped ==
  ASSUME NEW m \in Traffic
  PROVE  bookCalls(m) \in Seq(CallRecord)
<1>1. extractMarketID(m.channel) \in Args
  BY DEF Args
<1>2. \A h : handleOrderBook(m, h) \in Seq(CallRecord)
  BY <1>1, CallIsTyped DEF handleOrderBook
<1> QED
  BY <1>2, ErrorIsTyped DEF bookCalls

LEMMA DecodedIsTyped ==
  ASSUME NEW m, NEW h
  PROVE  handleDecoded(m, h) \in Seq(CallRecord)
<1>1. None \in Args
  BY DEF Args
<1> QED
  BY <1>1, CallIsTyped DEF handleDecoded

LEMMA AccountIsTyped ==
  ASSUME NEW m \in Traffic
  PROVE  accountCalls(m) \in Seq(CallRecord)
<1>1. \A h : Call(h, None) \in Seq(CallRecord)
  BY CallIsTyped DEF Args
<1>2. handleUpdateAccountMarket(m) \in Seq(CallRecord)
  BY <1>1 DEF handleUpdateAccountMarket
<1> QED
  BY <1>2, ErrorIsTyped, DecodedIsTyped DEF accountCalls

LEMMA PlanIsTyped ==
  ASSUME NEW m \in Traffic, client \in {"book", "tx", "account"}
  PROVE  processMessage(m) \in Seq(CallRecord)
<1>1. txCalls(m) \in Seq(CallRecord)
  BY ErrorIsTyped, DecodedIsTyped DEF txCalls
<1>2. typedCalls(m) \in Seq(CallRecord)
  BY <1>1, BookIsTyped, AccountIsTyped DEF typedCalls
<1>3. Call("onMessage", None) \in Seq(CallRecord)
  BY CallIsTyped DEF Args
<1> QED
  BY <1>2, <1>3, ErrorIsTyped DEF processMessage

\* A message with an error causes at most one call, of the error handler.
LEMMA ErrorCallsOnError ==
  ASSUME NEW m, m.error # Absent
  PROVE  /\ Len(processMessage(m)) <= 1
         /\ \A j \in DOMAIN processMessage(m) : processMessage(m)[j].handler = "onError"
BY DEF processMessage, handleError, Call

\* The decisions depend on the client and its handlers only.
LEMMA PlanIsStable ==
  ASSUME UNCHANGED <<client, handlers>>, NEW m
  PROVE  processMessage(m)' = processMessage(m)
BY DEF processMessage, typedCalls, bookCalls, txCalls, accountCalls, handleError,
       handleOrderBook, handleDecoded, handleUpdateAccountMarket, Call
-----------------------------------------------------------------------------
(* The invariant *)

LEMMA InitIInv == Init => IInv
<1> SUFFICES ASSUME Init PROVE IInv
  OBVIOUS
<1>1. DOMAIN read = {} /\ DOMAIN calls = {}
  BY DEF Init
<1> QED
  BY <1>1 DEF Init, IInv, TypeIInv, CallsFollowPlan

LEMMA ReadsIInv ==
  ASSUME IInv, NEW m \in Traffic, Reads(m)
  PROVE  IInv'
<1> USE DEF IInv
<1>1. /\ read \in Seq(Traffic) /\ pending \in Seq(Seq(CallRecord)) /\ Len(pending) = Len(read)
      /\ calls \in Seq(Nat \X CallRecord) /\ \A k \in DOMAIN calls : calls[k][1] \in DOMAIN read
  BY DEF TypeIInv
<1>2. processMessage(m) \in Seq(CallRecord)
  BY PlanIsTyped DEF TypeIInv
<1>3. /\ read' = Append(read, m) /\ pending' = Append(pending, processMessage(m))
      /\ UNCHANGED <<client, handlers, calls>>
  BY DEF Reads
<1>4. TypeIInv'
  <2>1. CallRecord' = CallRecord
    BY <1>3 DEF CallRecord
  <2>2. pending' \in Seq(Seq(CallRecord)) /\ read' \in Seq(Traffic)
    BY <1>1, <1>2, <1>3
  <2> QED
    BY <1>1, <1>3, <2>1, <2>2 DEF TypeIInv
<1>5. CallsFollowPlan'
  <2> SUFFICES ASSUME NEW i \in 1 .. Len(read) + 1
               PROVE  \E n \in 0 .. Len(Plan(i)') : \E f \in [1 .. n -> DOMAIN calls'] : Follows(i, n, f)'
    BY <1>1, <1>3 DEF CallsFollowPlan
  <2>1. \A x : processMessage(x)' = processMessage(x)
    BY <1>3, PlanIsStable
  <2>2. CASE i = Len(read) + 1
    <3>1. Plan(i)' = processMessage(m) /\ pending'[i] = processMessage(m)
      <4>1. read'[i] = m /\ pending'[i] = processMessage(m)
        BY <1>1, <1>2, <1>3, <2>2
      <4> QED
        BY <2>1, <4>1 DEF Plan
    <3>2. PICK f \in [1 .. 0 -> DOMAIN calls] : TRUE
      <4>1. [j \in 1 .. 0 |-> 0] \in [1 .. 0 -> DOMAIN calls]
        OBVIOUS
      <4> QED
        BY <4>1
    <3>3. Follows(i, 0, f)'
      BY <1>1, <1>2, <1>3, <2>2, <3>1 DEF Follows
    <3>4. 0 \in 0 .. Len(Plan(i)') /\ f \in [1 .. 0 -> DOMAIN calls']
      BY <1>2, <1>3, <3>1, <3>2
    <3> QED
      BY <3>3, <3>4
  <2>3. CASE i \in DOMAIN read
    <3>1. PICK n \in 0 .. Len(Plan(i)) : \E f \in [1 .. n -> DOMAIN calls] : Follows(i, n, f)
      BY <2>3 DEF CallsFollowPlan
    <3>2. PICK f \in [1 .. n -> DOMAIN calls] : Follows(i, n, f)
      BY <3>1
    <3>3. Plan(i)' = Plan(i) /\ pending'[i] = pending[i] /\ calls' = calls
      BY <1>1, <1>3, <2>1, <2>3 DEF Plan
    <3>4. Follows(i, n, f)'
      BY <3>2, <3>3 DEF Follows
    <3> QED
      BY <3>2, <3>3, <3>4
  <2> QED
    BY <1>1, <2>2, <2>3
<1> QED
  BY <1>4, <1>5

LEMMA CallsIInv ==
  ASSUME IInv, NEW i \in DOMAIN pending, Calls(i)
  PROVE  IInv'
<1> USE DEF IInv
<1>1. /\ read \in Seq(Traffic) /\ pending \in Seq(Seq(CallRecord)) /\ Len(pending) = Len(read)
      /\ calls \in Seq(Nat \X CallRecord) /\ \A k \in DOMAIN calls : calls[k][1] \in DOMAIN read
  BY DEF TypeIInv
<1>2. /\ pending[i] # <<>> /\ calls' = Append(calls, <<i, Head(pending[i])>>)
      /\ pending' = [pending EXCEPT ![i] = Tail(@)]
      /\ UNCHANGED <<client, handlers, read>>
  BY DEF Calls
<1>3. /\ i \in DOMAIN read /\ i \in Nat /\ pending[i] \in Seq(CallRecord) /\ Len(pending[i]) > 0
      /\ Head(pending[i]) \in CallRecord /\ Head(pending[i]) = pending[i][1]
      /\ Tail(pending[i]) \in Seq(CallRecord)
  BY <1>1, <1>2
<1>4. TypeIInv'
  <2>1. CallRecord' = CallRecord
    BY <1>2 DEF CallRecord
  <2>2. pending' \in Seq(Seq(CallRecord)) /\ Len(pending') = Len(pending)
    BY <1>1, <1>2, <1>3
  <2>3. calls' \in Seq(Nat \X CallRecord)
    BY <1>1, <1>2, <1>3
  <2>4. \A k \in DOMAIN calls' : calls'[k][1] \in DOMAIN read
    BY <1>1, <1>2, <1>3
  <2> QED
    BY <1>2, <2>1, <2>2, <2>3, <2>4 DEF TypeIInv
<1>5. CallsFollowPlan'
  <2> SUFFICES ASSUME NEW h \in DOMAIN read
               PROVE  \E n \in 0 .. Len(Plan(h)') : \E f \in [1 .. n -> DOMAIN calls'] : Follows(h, n, f)'
    BY <1>2 DEF CallsFollowPlan
  <2>1. Plan(h)' = Plan(h)
    BY <1>2, PlanIsStable DEF Plan
  <2>2. PICK n \in 0 .. Len(Plan(h)) : \E f \in [1 .. n -> DOMAIN calls] : Follows(h, n, f)
    BY DEF CallsFollowPlan
  <2>3. PICK f \in [1 .. n -> DOMAIN calls] : Follows(h, n, f)
    BY <2>2
  <2>4. /\ DOMAIN calls = 1 .. Len(calls) /\ DOMAIN calls' = 1 .. Len(calls) + 1
        /\ \A k \in 1 .. Len(calls) : calls'[k] = calls[k]
        /\ calls'[Len(calls) + 1] = <<i, pending[i][1]>>
        /\ Len(calls) \in Nat
    BY <1>1, <1>2, <1>3
  <2>5. CASE h # i
    <3>1. pending'[h] = pending[h]
      BY <1>1, <1>2, <2>5
    <3>2. f \in [1 .. n -> DOMAIN calls']
      BY <2>4
    <3>3. Follows(h, n, f)'
      <4>1. \A j \in 1 .. n : f[j] \in 1 .. Len(calls) /\ calls'[f[j]] = calls[f[j]]
        BY <2>4
      <4>2. \A k \in DOMAIN calls' : calls'[k][1] = h => k \in 1 .. Len(calls) /\ calls[k][1] = h
        BY <2>4, <2>5
      <4> QED
        BY <2>1, <2>3, <2>4, <3>1, <4>1, <4>2 DEF Follows
    <3> QED
      BY <2>1, <3>2, <3>3
  <2>6. CASE h = i
    <3> DEFINE extended == [j \in 1 .. n + 1 |-> IF j = n + 1 THEN Len(calls) + 1 ELSE f[j]]
    <3>0. PICK g : g = extended
      OBVIOUS
    <3>1. /\ Len(Plan(i)) = Len(pending[i]) + n /\ n + 1 \in 0 .. Len(Plan(i))
          /\ pending[i][1] = Plan(i)[n + 1] /\ Len(pending[i]) \in Nat
      BY <1>1, <1>3, <2>3, <2>6 DEF Follows
    <3>2. /\ Len(pending'[i]) = Len(pending[i]) - 1
          /\ \A j \in 1 .. Len(pending[i]) - 1 : pending'[i][j] = pending[i][j + 1]
      BY <1>1, <1>2, <1>3
    <3>3. /\ g \in [1 .. n + 1 -> DOMAIN calls']
          /\ g[n + 1] = Len(calls) + 1 /\ \A j \in 1 .. n : g[j] = f[j]
      BY <2>4, <3>0
    <3>4. \A j \in 1 .. Len(pending'[i]) : pending'[i][j] = Plan(i)[(n + 1) + j]
      <4> SUFFICES ASSUME NEW j \in 1 .. Len(pending[i]) - 1
                   PROVE  pending'[i][j] = Plan(i)[(n + 1) + j]
        BY <3>2
      <4>1. pending[i][j + 1] = Plan(i)[n + (j + 1)]
        BY <1>3, <2>3, <2>6, <3>1 DEF Follows
      <4> QED
        BY <3>2, <4>1
    <3>5. \A j \in 1 .. n + 1 : calls'[g[j]] = <<i, Plan(i)[j]>>
      <4>1. calls'[g[n + 1]] = <<i, Plan(i)[n + 1]>>
        BY <2>4, <3>1, <3>3
      <4>2. ASSUME NEW j \in 1 .. n PROVE calls'[g[j]] = <<i, Plan(i)[j]>>
        <5>1. f[j] \in 1 .. Len(calls) /\ g[j] = f[j]
          BY <2>4, <3>3
        <5>2. calls[f[j]] = <<i, Plan(i)[j]>>
          BY <2>3, <2>6 DEF Follows
        <5> QED
          BY <2>4, <5>1, <5>2
      <4>3. \A j \in 1 .. n + 1 : j \in 1 .. n \/ j = n + 1
        OBVIOUS
      <4> QED
        BY <4>1, <4>2, <4>3
    <3>6. \A j, l \in 1 .. n + 1 : j < l => g[j] < g[l]
      <4>1. \A j \in 1 .. n : f[j] < Len(calls) + 1
        BY <2>4
      <4>2. \A j, l \in 1 .. n : j < l => f[j] < f[l]
        BY <2>3 DEF Follows
      <4> QED
        BY <3>3, <4>1, <4>2
    <3>7. \A k \in DOMAIN calls' : calls'[k][1] = i => \E j \in 1 .. n + 1 : k = g[j]
      <4> SUFFICES ASSUME NEW k \in 1 .. Len(calls) + 1, calls'[k][1] = i
                   PROVE  \E j \in 1 .. n + 1 : k = g[j]
        BY <2>4
      <4>1. CASE k = Len(calls) + 1
        BY <3>3, <4>1
      <4>2. CASE k \in 1 .. Len(calls)
        <5>1. PICK j \in 1 .. n : k = f[j]
          BY <2>3, <2>4, <2>6, <4>2 DEF Follows
        <5> QED
          BY <3>3, <5>1
      <4> QED
        BY <4>1, <4>2
    <3>8. Follows(i, n + 1, g)'
      <4>1. Plan(i)' = Plan(i)
        BY <1>2, PlanIsStable DEF Plan
      <4>2. Len(pending'[i]) + (n + 1) = Len(Plan(i)')
        BY <3>1, <3>2, <4>1
      <4> QED
        BY <3>4, <3>5, <3>6, <3>7, <4>1, <4>2 DEF Follows
    <3> QED
      BY <2>1, <2>6, <3>1, <3>3, <3>8
  <2> QED
    BY <2>5, <2>6
<1> QED
  BY <1>4, <1>5

LEMMA NextIInv == IInv /\ [Next]_vars => IInv'
<1> SUFFICES ASSUME IInv, [Next]_vars PROVE IInv'
  OBVIOUS
<1>1. CASE ReadsAny
  BY <1>1, ReadsIInv DEF ReadsAny
<1>2. CASE \E i \in DOMAIN pending : Calls(i)
  BY <1>2, CallsIInv
<1>3. CASE UNCHANGED vars
  <2>1. CallRecord' = CallRecord
    BY <1>3 DEF CallRecord, vars
  <2>2. \A i : Plan(i)' = Plan(i)
    BY <1>3, PlanIsStable DEF Plan, vars
  <2>3. \A i, n, f : Follows(i, n, f)' = Follows(i, n, f)
    BY <1>3, <2>2 DEF Follows, vars
  <2> QED
    BY <1>3, <2>1, <2>2, <2>3 DEF IInv, TypeIInv, CallsFollowPlan, vars
<1> QED
  BY <1>1, <1>2, <1>3 DEF Next

\* The inductive invariant of the dispatch: beside the types, every goroutine
\* has made the first calls that processMessage decides for its message, in
\* that order, each once, and no others, and has the rest before it.
THEOREM Inductive == Spec => []IInv
BY InitIInv, NextIInv, PTL DEF Spec

-----------------------------------------------------------------------------
(* Results *)

\* Every variable keeps its type, every message read has its goroutine, and no
\* handler is called that is not registered.
THEOREM TypeCorrect == Spec => []TypeOK
<1>1. IInv => TypeOK
  BY DEF IInv, TypeIInv, TypeOK, CallRecord
<1> QED
  BY <1>1, Inductive, PTL

\* However the goroutines of the messages interleave, each makes exactly the
\* calls that its own message causes, in their order and without repeating one.
THEOREM GoroutinesFollowPlan == Spec => []CallsFollowPlan
BY Inductive, PTL DEF IInv

\* What a goroutine called belongs to its message's plan.
LEMMA CalledIsPlanned ==
  ASSUME IInv, NEW i \in DOMAIN read, NEW c \in CallsOf(i)
  PROVE  \E j \in DOMAIN Plan(i) : c = Plan(i)[j]
<1>1. PICK k \in DOMAIN calls : calls[k][1] = i /\ c = calls[k][2]
  BY DEF CallsOf
<1>2. PICK n \in 0 .. Len(Plan(i)) : \E f \in [1 .. n -> DOMAIN calls] : Follows(i, n, f)
  BY DEF IInv, CallsFollowPlan
<1>3. PICK f \in [1 .. n -> DOMAIN calls] : Follows(i, n, f)
  BY <1>2
<1>4. PICK j \in 1 .. n : k = f[j]
  BY <1>1, <1>3 DEF Follows
<1>5. calls[k] = <<i, Plan(i)[j]>>
  BY <1>3, <1>4 DEF Follows
<1>6. Plan(i) \in Seq(CallRecord)
  BY PlanIsTyped DEF IInv, TypeIInv, Plan
<1> QED
  BY <1>1, <1>4, <1>5, <1>6

\* A message that carries an error is never handed over as data: no handler but
\* onError sees it, at most once, and none if its error field is no object.
THEOREM ErrorsNeverData == Spec => []ErrorsAreNotData
<1>1. IInv => ErrorsAreNotData
  <2> SUFFICES ASSUME IInv, NEW k \in DOMAIN calls, read[calls[k][1]].error # Absent
               PROVE  /\ calls[k][2].handler = "onError"
                      /\ \A l \in DOMAIN calls : calls[l][1] = calls[k][1] => l = k
    BY DEF ErrorsAreNotData
  <2> DEFINE i == calls[k][1]
  <2>1. i \in DOMAIN read /\ calls[k][2] \in CallsOf(i)
    BY DEF IInv, TypeIInv, CallsOf
  <2>2. Len(Plan(i)) <= 1 /\ \A j \in DOMAIN Plan(i) : Plan(i)[j].handler = "onError"
    BY ErrorCallsOnError DEF Plan
  <2>3. calls[k][2].handler = "onError"
    BY <2>1, <2>2, CalledIsPlanned
  <2>4. PICK n \in 0 .. Len(Plan(i)) : \E f \in [1 .. n -> DOMAIN calls] : Follows(i, n, f)
    BY <2>1 DEF IInv, CallsFollowPlan
  <2>5. PICK f \in [1 .. n -> DOMAIN calls] : Follows(i, n, f)
    BY <2>4
  <2>6. \A l \in DOMAIN calls : calls[l][1] = i => \E j \in 1 .. n : l = f[j]
    BY <2>5 DEF Follows
  <2>7. Len(Plan(i)) \in Nat
    <3>1. Plan(i) \in Seq(CallRecord)
      BY <2>1, PlanIsTyped DEF IInv, TypeIInv, Plan
    <3> QED
      BY <3>1
  <2>8. \A j \in 1 .. n : j = 1
    BY <2>2, <2>4, <2>7
  <2> QED
    BY <2>3, <2>6, <2>8
<1> QED
  BY <1>1, Inductive, PTL

\* What processMessage decides for a well-formed update of a book.
LEMMA UpdatePlan ==
  ASSUME NEW m, client = "book", "onUpdate" \in handlers,
         m.type = "update/order_book", m.error = Absent, m.fits,
         \E n \in Markets : n \in {m.channel.colon, m.channel.slash},
         NoMarket \notin {m.channel.colon, m.channel.slash}
  PROVE  \E j \in DOMAIN processMessage(m) :
           /\ processMessage(m)[j].handler = "onUpdate"
           /\ processMessage(m)[j].arg \in {m.channel.colon, m.channel.slash}
<1> DEFINE market == extractMarketID(m.channel)
           first == Call("onMessage", None)
<1>1. market \in {m.channel.colon, m.channel.slash} /\ market # NoMarket
  <2>1. MaxUint16 \in Nat
    BY SMT DEF MaxUint16
  <2> QED
    BY <2>1 DEF extractMarketID, IsUint16, NoMarket, Markets
<1>2. processMessage(m) = first \o Call("onUpdate", market)
  BY <1>1 DEF processMessage, typedCalls, bookCalls, handleOrderBook, Absent, Malformed
<1>3. Call("onUpdate", market) = <<[handler |-> "onUpdate", arg |-> market]>>
  BY DEF Call
<1> HIDE DEF market
<1>4. \/ first = <<>>
      \/ first = <<[handler |-> "onMessage", arg |-> None]>>
  BY DEF Call
<1>5. CASE first = <<>>
  BY <1>1, <1>2, <1>3, <1>5
<1>6. CASE first = <<[handler |-> "onMessage", arg |-> None]>>
  <2>1. /\ 2 \in DOMAIN processMessage(m)
        /\ processMessage(m)[2] = [handler |-> "onUpdate", arg |-> market]
    BY <1>2, <1>3, <1>6
  <2> QED
    BY <1>1, <2>1
<1> QED
  BY <1>4, <1>5, <1>6

\* A well-formed update of a book whose channel names a market below 65535, after
\* ':' or after '/', is handed over with that market once its goroutine is done.
THEOREM UpdatesReachTheirBook == Spec => []BookReachesItsMarket
<1>1. IInv => BookReachesItsMarket
  <2> SUFFICES ASSUME IInv, NEW i \in DOMAIN read, client = "book", pending[i] = <<>>,
                      NEW m, m = read[i], "onUpdate" \in handlers,
                      m.type = "update/order_book", m.error = Absent, m.fits,
                      \E n \in Markets : n \in {m.channel.colon, m.channel.slash},
                      NoMarket \notin {m.channel.colon, m.channel.slash}
               PROVE  \E c \in CallsOf(i) :
                        c.handler = "onUpdate" /\ c.arg \in {m.channel.colon, m.channel.slash}
    BY DEF BookReachesItsMarket
  <2>1. PICK j \in DOMAIN Plan(i) :
          /\ Plan(i)[j].handler = "onUpdate"
          /\ Plan(i)[j].arg \in {m.channel.colon, m.channel.slash}
    BY UpdatePlan DEF Plan
  <2>2. PICK n \in 0 .. Len(Plan(i)) : \E f \in [1 .. n -> DOMAIN calls] : Follows(i, n, f)
    BY DEF IInv, CallsFollowPlan
  <2>3. PICK f \in [1 .. n -> DOMAIN calls] : Follows(i, n, f)
    BY <2>2
  <2>4. Plan(i) \in Seq(CallRecord)
    BY PlanIsTyped DEF IInv, TypeIInv, Plan
  <2>5. n = Len(Plan(i)) /\ j \in 1 .. n
    BY <2>3, <2>4 DEF Follows
  <2>6. f[j] \in DOMAIN calls /\ calls[f[j]][1] = i /\ calls[f[j]][2] = Plan(i)[j]
    BY <2>3, <2>5 DEF Follows
  <2>7. Plan(i)[j] \in CallsOf(i)
    BY <2>6 DEF CallsOf
  <2> QED
    BY <2>1, <2>7
<1> QED
  BY <1>1, Inductive, PTL
=============================================================================
