-------------------------- MODULE SharedLib_proofs --------------------------
(***************************************************************************)
(* Proofs about the C library, for any callers and any number of threads:  *)
(* however they race on the two globals, a signature belongs to one client *)
(* as a whole, and a nonce that was asked for was current during the call. *)
(* For a caller with one thread the library implements OneSigner.          *)
(***************************************************************************)
EXTENDS SharedLib, TLAPS

Requests == [client : Clients, nonce : Int, asked : BOOLEAN, floor : Int]

\* What a thread keeps between the steps of a call, and what it returned.
LocalOK(t) ==
  /\ pc[t] \in {"store", "check"} => local[t] \in [client : Clients]
  /\ pc[t] = "switched" => local[t] \in [index : ApiKeys]
  /\ pc[t] = "sign" => local[t] \in [nonce : CNonces]
  /\ pc[t] \in {"ask", "construct"} =>
       /\ local[t] \in Requests
       /\ local[t].floor <= nextNonce[Owner(local[t].client)]
  /\ pc[t] = "construct" /\ local[t].asked =>
       /\ local[t].floor <= local[t].nonce
       /\ local[t].nonce <= nextNonce[Owner(local[t].client)]

ReplyOK(t) ==
  Signed(reply[t]) =>
    /\ \E c \in Clients : reply[t].owner = Owner(c) /\ reply[t].key = c.key
    /\ reply[t].asked => /\ reply[t].nonce \in Int
                         /\ reply[t].floor <= reply[t].nonce
                         /\ reply[t].nonce <= nextNonce[reply[t].owner]

ThreadsOK == \A t \in Threads : LocalOK(t) /\ ReplyOK(t)

IInv == TypeOK /\ ThreadsOK

-----------------------------------------------------------------------------
\* A client has an owner and an index among those of the instance.
LEMMA ClientParts ==
  ASSUME NEW c \in Clients
  PROVE  Owner(c) \in Owners /\ c.apiKeyIndex \in ApiKeys /\ c # None
<1>1. PICK l \in {m \in Logins : m.key # BadKey /\ m.account > 0} : c = NewTxClient(l)
  BY DEF Clients
<1>2. c.apiKeyIndex = uint8(l.index)
  BY <1>1 DEF NewTxClient
<1> QED
  BY <1>1, <1>2, NoneAssumption DEF Owners, ApiKeys

\* CreateClient makes a client for a valid account unless the key is bad.
LEMMA NewClient ==
  ASSUME NEW l \in Logins, l.account > 0, NewTxClient(l) # None
  PROVE  NewTxClient(l) \in Clients
<1>1. l.key # BadKey
  BY DEF NewTxClient
<1> QED
  BY <1>1 DEF Clients

\* The library starts with no client and no call.
LEMMA InitOK == Init => IInv
<1> SUFFICES ASSUME Init PROVE IInv
  OBVIOUS
<1>1. TypeOK
  BY IntAssumption DEF Init, TypeOK, OptClients
<1>2. ThreadsOK
  BY DEF Init, ThreadsOK, LocalOK, ReplyOK, Signed
<1> QED
  BY <1>1, <1>2 DEF IInv

\* A step of one thread that leaves the exchange's nonces alone disturbs only
\* what is said of this thread.
LEMMA OthersKeep ==
  ASSUME IInv, NEW t \in Threads, UNCHANGED nextNonce,
         \A u \in Threads \ {t} : /\ pc'[u] = pc[u] /\ local'[u] = local[u]
                                  /\ reply'[u] = reply[u],
         LocalOK(t)', ReplyOK(t)'
  PROVE  ThreadsOK'
<1> SUFFICES ASSUME NEW u \in Threads, u # t PROVE LocalOK(u)' /\ ReplyOK(u)'
  BY DEF ThreadsOK
<1>1. LocalOK(u) /\ ReplyOK(u)
  BY DEF IInv, ThreadsOK
<1> QED
  BY <1>1 DEF LocalOK, ReplyOK, Signed

\* Calls that begin, and those that return at once.
LEMMA CallsKeep ==
  ASSUME IInv, NEW t \in Threads, Calls(t)
  PROVE  IInv'
<1> USE DEF IInv
<1>0. /\ Err.kind = "err" /\ Ok.kind = "ok" /\ Empty.kind = "empty"
      /\ nextNonce' = nextNonce /\ pc[t] = "idle"
  BY DEF Err, Ok, Empty, Calls, CreateRefuses, CreateFails, CreateAssigns, SwitchAssigns,
         CheckRefuses, CheckAsks, SignStarts, SignRefuses, TokenStarts, MarginStarts,
         exchange, Refuses, Begins
<1>1. ASSUME NEW r, Refuses(t, r), r = Err
      PROVE  /\ pc' \in [Threads -> {"idle", "store", "switched", "check", "sign", "ask",
                                     "construct", "token", "margin"}]
             /\ DOMAIN local' = Threads /\ DOMAIN reply' = Threads
             /\ ThreadsOK'
  <2>1. LocalOK(t)' /\ ReplyOK(t)'
    BY <1>0, <1>1 DEF Refuses, LocalOK, ReplyOK, Signed, TypeOK
  <2>2. \A u \in Threads \ {t} : /\ pc'[u] = pc[u] /\ local'[u] = local[u]
                                 /\ reply'[u] = reply[u]
    BY <1>1 DEF Refuses, TypeOK
  <2> QED
    BY <2>1, <2>2, <1>0, <1>1, OthersKeep DEF Refuses, TypeOK
<1>2. ASSUME NEW p \in {"store", "switched", "check", "sign", "token", "margin"}, NEW l,
             Begins(t, p, l),
             p \in {"store", "check"} => l \in [client : Clients],
             p = "switched" => l \in [index : ApiKeys],
             p = "sign" => l \in [nonce : CNonces]
      PROVE  /\ pc' \in [Threads -> {"idle", "store", "switched", "check", "sign", "ask",
                                     "construct", "token", "margin"}]
             /\ DOMAIN local' = Threads /\ DOMAIN reply' = Threads
             /\ ThreadsOK'
  <2>1. pc'[t] = p /\ local'[t] = l /\ reply'[t] = None
    BY <1>2 DEF Begins, TypeOK
  <2>2. LocalOK(t)' /\ ReplyOK(t)'
    BY <2>1, <1>2 DEF LocalOK, ReplyOK, Signed
  <2>3. \A u \in Threads \ {t} : /\ pc'[u] = pc[u] /\ local'[u] = local[u]
                                 /\ reply'[u] = reply[u]
    BY <1>2 DEF Begins, TypeOK
  <2> QED
    BY <2>2, <2>3, <1>0, <1>2, OthersKeep DEF Begins, TypeOK
<1>3. ASSUME NEW l \in Logins, CreateRefuses(t, l) PROVE IInv'
  BY <1>1, <1>3 DEF CreateRefuses, TypeOK, globals, exchange, history
<1>4. ASSUME NEW l \in Logins, CreateFails(t, l) PROVE IInv'
  BY <1>1, <1>4 DEF CreateFails, TypeOK, globals, exchange, history, OptClients
<1>5. ASSUME NEW l \in Logins, CreateAssigns(t, l) PROVE IInv'
  BY <1>2, <1>5, NewClient DEF CreateAssigns, TypeOK, exchange, history, OptClients
<1>6. ASSUME NEW n \in CInts, SwitchAssigns(t, n) PROVE IInv'
  <2>1. uint8(n) \in ApiKeys
    BY DEF ApiKeys
  <2> QED
    BY <1>2, <1>6, <2>1 DEF SwitchAssigns, TypeOK, exchange, history
<1>7. ASSUME NEW n \in CInts, NEW l \in Logins, CheckRefuses(t, n, l.account) PROVE IInv'
  BY <1>1, <1>7 DEF CheckRefuses, TypeOK, globals, exchange, history
<1>8. ASSUME NEW n \in CInts, NEW l \in Logins, CheckAsks(t, n, l.account) PROVE IInv'
  <2>1. backupTxClients[uint8(n)] \in Clients
    BY <1>8 DEF CheckAsks, Checkable, TypeOK, ApiKeys, OptClients
  <2> QED
    BY <1>2, <1>8, <2>1 DEF CheckAsks, TypeOK, globals, exchange, history
<1>9. ASSUME NEW n \in CNonces, SignStarts(t, n) PROVE IInv'
  BY <1>2, <1>9 DEF SignStarts, TypeOK, globals, exchange, history
<1>10. ASSUME SignRefuses(t) PROVE IInv'
  BY <1>1, <1>10 DEF SignRefuses, TypeOK, globals, exchange, history
<1>11. ASSUME TokenStarts(t) PROVE IInv'
  BY <1>2, <1>11 DEF TokenStarts, TypeOK, globals, exchange, history
<1>12. ASSUME MarginStarts(t) PROVE IInv'
  BY <1>2, <1>12 DEF MarginStarts, TypeOK, globals, exchange, history
<1> QED
  BY <1>3, <1>4, <1>5, <1>6, <1>7, <1>8, <1>9, <1>10, <1>11, <1>12 DEF Calls

\* Calls that go on.
LEMMA ContinuesKeep ==
  ASSUME IInv, NEW t \in Threads, Continues(t)
  PROVE  IInv'
<1> USE DEF IInv
<1>0. /\ Err.kind = "err" /\ Ok.kind = "ok" /\ Empty.kind = "empty"
      /\ nextNonce' = nextNonce /\ LocalOK(t)
  BY DEF Err, Ok, Empty, Continues, CreateStores, SwitchReturns, CheckAnswers, RequestFails,
         FullFillDefaultOps, GetNextNonce, Constructs, GetAuthToken, MarginPanics,
         exchange, ThreadsOK
<1>1. ASSUME NEW r, Returns(t, r),
             Signed(r) => /\ \E c \in Clients : r.owner = Owner(c) /\ r.key = c.key
                          /\ r.asked => /\ r.nonce \in Int
                                        /\ r.floor <= r.nonce
                                        /\ r.nonce <= nextNonce[r.owner]
      PROVE  /\ pc' \in [Threads -> {"idle", "store", "switched", "check", "sign", "ask",
                                     "construct", "token", "margin"}]
             /\ DOMAIN local' = Threads /\ DOMAIN reply' = Threads
             /\ ThreadsOK'
  <2>1. pc'[t] = "idle" /\ reply'[t] = r
    BY <1>1 DEF Returns, TypeOK
  <2>2. LocalOK(t)' /\ ReplyOK(t)'
    BY <2>1, <1>0, <1>1 DEF LocalOK, ReplyOK, Signed
  <2>3. \A u \in Threads \ {t} : /\ pc'[u] = pc[u] /\ local'[u] = local[u]
                                 /\ reply'[u] = reply[u]
    BY <1>1 DEF Returns, TypeOK
  <2> QED
    BY <2>2, <2>3, <1>0, <1>1, OthersKeep DEF Returns, TypeOK
<1>2. ASSUME NEW p \in {"ask", "construct"}, NEW l \in Requests, Goto(t, p, l),
             l.floor <= nextNonce[Owner(l.client)],
             p = "construct" /\ l.asked =>
               l.floor <= l.nonce /\ l.nonce <= nextNonce[Owner(l.client)]
      PROVE  /\ pc' \in [Threads -> {"idle", "store", "switched", "check", "sign", "ask",
                                     "construct", "token", "margin"}]
             /\ DOMAIN local' = Threads /\ DOMAIN reply' = Threads
             /\ ThreadsOK'
  <2>1. pc'[t] = p /\ local'[t] = l /\ reply'[t] = reply[t]
    BY <1>2 DEF Goto, TypeOK
  <2>2. LocalOK(t)' /\ ReplyOK(t)'
    BY <2>1, <1>0, <1>2 DEF LocalOK, ReplyOK, Signed, ThreadsOK
  <2>3. \A u \in Threads \ {t} : /\ pc'[u] = pc[u] /\ local'[u] = local[u]
                                 /\ reply'[u] = reply[u]
    BY <1>2 DEF Goto, TypeOK
  <2> QED
    BY <2>2, <2>3, <1>0, <1>2, OthersKeep DEF Goto, TypeOK
<1>3. ASSUME CreateStores(t) PROVE IInv'
  <2>1. local[t].client \in Clients /\ local[t].client.apiKeyIndex \in ApiKeys
    BY <1>0, <1>3, ClientParts DEF CreateStores, LocalOK
  <2>2. ~Signed(Ok) /\ Returns(t, Ok)
    BY <1>0, <1>3 DEF Signed, CreateStores
  <2> QED
    BY <1>1, <1>3, <2>1, <2>2 DEF CreateStores, TypeOK, exchange, OptClients
<1>4. ASSUME SwitchReturns(t) PROVE IInv'
  <2>1. local[t].index \in ApiKeys
    BY <1>0, <1>4 DEF SwitchReturns, LocalOK
  <2>2. ~Signed(Ok) /\ ~Signed(Err) /\ (Returns(t, Ok) \/ Returns(t, Err))
    BY <1>0, <1>4 DEF Signed, SwitchReturns
  <2> QED
    BY <1>1, <1>4, <2>1, <2>2 DEF SwitchReturns, TypeOK, globals, exchange, OptClients
<1>5. ASSUME CheckAnswers(t) PROVE IInv'
  <2>1. local[t].client.apiKeyIndex \in ApiKeys
    BY <1>0, <1>5, ClientParts DEF CheckAnswers, LocalOK
  <2>2. ~Signed(Ok) /\ ~Signed(Err) /\ (Returns(t, Ok) \/ Returns(t, Err))
    BY <1>0, <1>5 DEF Signed, CheckAnswers
  <2> QED
    BY <1>1, <1>5, <2>1, <2>2 DEF CheckAnswers, TypeOK, globals, exchange
<1>6. ASSUME Returns(t, Err), UNCHANGED <<globals, exchange, history>> PROVE IInv'
  <2>1. ~Signed(Err)
    BY <1>0 DEF Signed
  <2> QED
    BY <1>1, <1>6, <2>1 DEF TypeOK, globals, exchange, history
<1>7. ASSUME FullFillDefaultOps(t) PROVE IInv'
  <2> DEFINE Call(asked) == [client |-> txClient, nonce |-> local[t].nonce,
                             asked |-> asked, floor |-> nextNonce[Owner(txClient)]]
  <2>1. CASE Returns(t, Err)
    BY <1>6, <1>7, <2>1 DEF FullFillDefaultOps
  <2>2. ASSUME txClient # None, NEW b \in BOOLEAN, NEW p,
               \/ p = "ask" /\ b = TRUE
               \/ p = "construct" /\ b = FALSE,
               Goto(t, p, Call(b))
        PROVE IInv'
    <3>1. txClient \in Clients
      BY <2>2 DEF TypeOK, OptClients
    <3>2. Owner(txClient) \in Owners
      BY <3>1, ClientParts
    <3>3. local[t].nonce \in Int /\ nextNonce[Owner(txClient)] \in Int
      <4>1. pc[t] = "sign"
        BY <1>7 DEF FullFillDefaultOps
      <4>2. local[t].nonce \in CNonces
        BY <1>0, <4>1 DEF LocalOK
      <4>3. local[t].nonce \in Int
        BY <4>2, IntAssumption
      <4>4. nextNonce[Owner(txClient)] \in 0 .. MaxNonce
        BY <3>2 DEF TypeOK
      <4> QED
        BY <4>3, <4>4
    <3>4. Call(b) \in Requests /\ Call(b).floor <= nextNonce[Owner(Call(b).client)]
          /\ Call(b).asked = b
      BY <3>1, <3>3 DEF Requests
    <3>5. p \in {"ask", "construct"} /\ (p = "construct" => ~Call(b).asked)
      BY <2>2, <3>4
    <3> HIDE DEF Call
    <3> QED
      BY <1>2, <1>7, <2>2, <3>4, <3>5
         DEF FullFillDefaultOps, TypeOK, globals, exchange, history
  <2> QED
    BY <1>7, <2>1, <2>2 DEF FullFillDefaultOps
<1>8. ASSUME GetNextNonce(t) PROVE IInv'
  <2> DEFINE c == local[t].client
             l == [local[t] EXCEPT !.nonce = nextNonce[Owner(c)]]
  <2>1. local[t] \in Requests /\ local[t].floor <= nextNonce[Owner(c)]
    BY <1>0, <1>8 DEF GetNextNonce, LocalOK
  <2>2. c \in Clients /\ Owner(c) \in Owners
    BY <2>1, ClientParts DEF Requests
  <2>3. nextNonce[Owner(c)] \in Int
    BY <2>2, IntAssumption DEF TypeOK
  <2>4. /\ l \in Requests /\ l.client = c /\ l.floor = local[t].floor
        /\ l.nonce = nextNonce[Owner(c)]
    BY <2>1, <2>3 DEF Requests
  <2>5. Goto(t, "construct", l)
    BY <1>8 DEF GetNextNonce
  <2>6. l.floor <= nextNonce[Owner(l.client)] /\ l.nonce <= nextNonce[Owner(l.client)]
        /\ l.floor <= l.nonce
    BY <2>1, <2>3, <2>4
  <2> HIDE DEF l
  <2> QED
    BY <1>2, <1>8, <2>4, <2>5, <2>6 DEF GetNextNonce, TypeOK, globals, exchange, history
<1>9. ASSUME Constructs(t) PROVE IInv'
  <2> DEFINE l == local[t]
             r == Signature("tx", l, l.client.key)
  <2>1. CASE Returns(t, Err)
    BY <1>6, <1>9, <2>1 DEF Constructs
  <2>2. CASE Returns(t, r)
    <3>1. l \in Requests /\ l.client \in Clients
      BY <1>0, <1>9 DEF Constructs, LocalOK, Requests
    <3>2. /\ r.owner = Owner(l.client) /\ r.key = l.client.key /\ r.asked = l.asked
          /\ r.floor = l.floor /\ r.nonce = l.nonce
      BY DEF Signature
    <3>3. l.asked => l.floor <= l.nonce /\ l.nonce <= nextNonce[Owner(l.client)]
      BY <1>0, <1>9 DEF Constructs, LocalOK
    <3>4. l.nonce \in Int
      BY <3>1 DEF Requests
    <3> HIDE DEF r
    <3> QED
      BY <1>1, <1>9, <2>2, <3>1, <3>2, <3>3, <3>4
         DEF Constructs, TypeOK, globals, exchange, history
  <2> QED
    BY <1>9, <2>1, <2>2 DEF Constructs
<1>10. ASSUME GetAuthToken(t) PROVE IInv'
  <2> DEFINE l == [client |-> txClient, nonce |-> 0, asked |-> FALSE, floor |-> 0]
             r == Signature("token", l, txClient.key)
  <2>1. CASE Returns(t, Err)
    BY <1>6, <1>10, <2>1 DEF GetAuthToken
  <2>2. CASE txClient # None /\ Returns(t, r)
    <3>1. txClient \in Clients
      BY <2>2 DEF TypeOK, OptClients
    <3>2. r.owner = Owner(txClient) /\ r.key = txClient.key /\ r.asked = FALSE
      BY DEF Signature
    <3> HIDE DEF r
    <3> QED
      BY <1>1, <1>10, <2>2, <3>1, <3>2
         DEF GetAuthToken, TypeOK, globals, exchange, history
  <2> QED
    BY <1>10, <2>1, <2>2 DEF GetAuthToken
<1>11. ASSUME MarginPanics(t) PROVE IInv'
  <2>1. ~Signed(Empty) /\ ~Signed(Err) /\ (Returns(t, Empty) \/ Returns(t, Err))
    BY <1>0, <1>11 DEF Signed, MarginPanics
  <2> QED
    BY <1>1, <1>11, <2>1 DEF MarginPanics, TypeOK, globals, exchange, history
<1> QED
  BY <1>3, <1>4, <1>5, <1>6, <1>7, <1>8, <1>9, <1>10, <1>11 DEF Continues, RequestFails

\* The exchange's nonces only grow, which keeps every nonce that was current.
LEMMA ExchangeKeeps ==
  ASSUME IInv, ExchangeNext
  PROVE  IInv'
<1> USE DEF IInv
<1>1. ASSUME NEW o \in Owners, Executes(o) PROVE IInv'
  <2>1. /\ nextNonce' \in [Owners -> 0 .. MaxNonce]
        /\ \A q \in Owners : nextNonce[q] <= nextNonce'[q]
    BY <1>1, IntAssumption DEF Executes, TypeOK
  <2>2. UNCHANGED <<globals, calls, registered, online, history>>
    BY <1>1 DEF Executes
  <2>3. ASSUME NEW t \in Threads PROVE LocalOK(t)' /\ ReplyOK(t)'
    <3>1. LocalOK(t) /\ ReplyOK(t)
      BY DEF ThreadsOK
    <3>2. ASSUME NEW c \in Clients
          PROVE  /\ nextNonce[Owner(c)] \in Int /\ nextNonce'[Owner(c)] \in Int
                 /\ nextNonce[Owner(c)] <= nextNonce'[Owner(c)]
      BY <2>1, ClientParts, IntAssumption DEF TypeOK
    <3>3. LocalOK(t)'
      BY <2>2, <3>1, <3>2 DEF LocalOK, calls, Requests
    <3>4. ReplyOK(t)'
      <4> SUFFICES ASSUME Signed(reply[t])
                   PROVE  ReplyOK(t)'
        BY <2>2 DEF ReplyOK, calls, Signed
      <4>1. PICK c \in Clients : reply[t].owner = Owner(c) /\ reply[t].key = c.key
        BY <3>1 DEF ReplyOK
      <4> QED
        BY <2>2, <3>1, <3>2, <4>1 DEF ReplyOK, calls
    <3> QED
      BY <3>3, <3>4
  <2> QED
    BY <2>1, <2>2, <2>3 DEF TypeOK, ThreadsOK, globals, calls, history
<1>2. ASSUME NEW o \in Owners, NEW k \in PublicKeys, Registers(o, k) PROVE IInv'
  <2>1. TypeOK'
    BY <1>2 DEF Registers, TypeOK, globals, calls
  <2>2. UNCHANGED <<pc, local, reply, nextNonce>>
    BY <1>2 DEF Registers, calls
  <2>3. ThreadsOK'
    BY <2>2 DEF ThreadsOK, LocalOK, ReplyOK, Signed
  <2> QED
    BY <2>1, <2>3
<1>3. ASSUME GoesOnOrOff PROVE IInv'
  <2>1. TypeOK'
    BY <1>3 DEF GoesOnOrOff, TypeOK, globals, calls, history
  <2>2. UNCHANGED <<pc, local, reply, nextNonce>>
    BY <1>3 DEF GoesOnOrOff, calls
  <2>3. ThreadsOK'
    BY <2>2 DEF ThreadsOK, LocalOK, ReplyOK, Signed
  <2> QED
    BY <2>1, <2>3
<1> QED
  BY <1>1, <1>2, <1>3 DEF ExchangeNext

\* Whatever the threads do, the invariant holds.
THEOREM Inductive == Spec => []IInv
<1>1. IInv /\ [Next]_vars => IInv'
  <2> SUFFICES ASSUME IInv, [Next]_vars PROVE IInv'
    OBVIOUS
  <2>1. CASE Next
    BY <2>1, CallsKeep, ContinuesKeep, ExchangeKeeps DEF Next
  <2>2. CASE UNCHANGED vars
    <3>1. TypeOK'
      BY <2>2 DEF IInv, TypeOK, vars, globals, calls, exchange, history
    <3>2. UNCHANGED <<pc, local, reply, nextNonce>>
      BY <2>2 DEF vars, calls, exchange
    <3>3. ThreadsOK'
      BY <3>2 DEF IInv, ThreadsOK, LocalOK, ReplyOK, Signed
    <3> QED
      BY <3>1, <3>3 DEF IInv
  <2> QED
    BY <2>1, <2>2
<1> QED
  BY <1>1, InitOK, PTL DEF Spec

\* The globals hold nothing but clients that CreateClient made.
THEOREM TypeCorrect == Spec => []TypeOK
<1>1. IInv => TypeOK
  BY DEF IInv
<1> QED
  BY <1>1, Inductive, PTL

\* A signature is by the key that its account and index were created with,
\* however the threads race on the selected client.
THEOREM WholeSignatures == Spec => []SignaturesAreWhole
<1>1. IInv => SignaturesAreWhole
  BY DEF IInv, ThreadsOK, ReplyOK, SignaturesAreWhole
<1> QED
  BY <1>1, Inductive, PTL

\* A nonce that the library asked for was current during the call.
THEOREM CurrentNonces == Spec => []NonceIsCurrent
<1>1. IInv => NonceIsCurrent
  BY DEF IInv, ThreadsOK, ReplyOK, NonceIsCurrent
<1> QED
  BY <1>1, Inductive, PTL

-----------------------------------------------------------------------------
(* A caller with one thread *)

OneThread == \A t, u \in Threads : t = u

\* The client under an index is of that index: the mismatch that CheckClient
\* reports cannot be met.
ClientsOwnTheirIndex ==
  \A k \in ApiKeys : backupTxClients[k] # None => backupTxClients[k].apiKeyIndex = k

\* The map and the history agree, and what was checked is registered.
SelectionOK ==
  /\ backupTxClients = made
  /\ ClientsOwnTheirIndex
  /\ selected # None => made[selected.apiKeyIndex] = selected
  /\ \A k \in checked : made[k] # None /\ registered[Owner(made[k])] = made[k].key

\* Where in its call the thread and the selected client differ.
CallerOK(t) ==
  /\ pc[t] \notin {"store", "switched"} => txClient = selected
  /\ pc[t] = "store" => local[t].client = txClient
  /\ pc[t] = "switched" => txClient = backupTxClients[local[t].index]
  /\ pc[t] \in {"ask", "construct"} => local[t].client = txClient
  /\ pc[t] = "check" => local[t].client = backupTxClients[local[t].client.apiKeyIndex]
  /\ Signed(reply[t]) => /\ pc[t] = "idle" /\ selected # None
                         /\ reply[t].owner = Owner(selected)
                         /\ reply[t].key = selected.key

CallerInv == SelectionOK /\ \A t \in Threads : CallerOK(t)

\* The library starts with nothing selected.
LEMMA CallerInit == Init => CallerInv
  BY DEF Init, CallerInv, SelectionOK, CallerOK, ClientsOwnTheirIndex, Signed

\* With one thread, what is said of it is said of all.
LEMMA OneIsAll ==
  ASSUME OneThread, NEW t \in Threads, SelectionOK', CallerOK(t)'
  PROVE  CallerInv'
  BY DEF OneThread, CallerInv

\* The selection stands when no part of it changes.
LEMMA SelectionStands ==
  ASSUME SelectionOK, UNCHANGED <<backupTxClients, selected, made, checked, registered>>
  PROVE  SelectionOK'
  BY DEF SelectionOK, ClientsOwnTheirIndex

\* Calls that begin, and those that return at once.
LEMMA CallerCalls ==
  ASSUME OneThread, IInv, CallerInv, NEW t \in Threads, Calls(t)
  PROVE  CallerInv'
<1>0. SelectionOK /\ CallerOK(t) /\ TypeOK /\ pc[t] = "idle"
  BY DEF CallerInv, IInv, Calls, CreateRefuses, CreateFails, CreateAssigns, SwitchAssigns,
         CheckRefuses, CheckAsks, SignStarts, SignRefuses, TokenStarts, MarginStarts,
         Refuses, Begins
<1>a. ~Signed(Err) /\ ~Signed(None)'
  BY DEF Signed, Err
<1>1. ASSUME Refuses(t, Err), UNCHANGED <<globals, exchange, history>> PROVE CallerInv'
  <2>1. reply'[t] = Err /\ pc' = pc
    BY <1>0, <1>1 DEF Refuses, TypeOK
  <2>2. CallerOK(t)'
    BY <2>1, <1>0, <1>a, <1>1 DEF CallerOK, globals, history, Signed
  <2> QED
    BY <2>2, <1>0, <1>1, SelectionStands, OneIsAll DEF globals, exchange, history
<1>2. ASSUME NEW p, NEW l, Begins(t, p, l),
             UNCHANGED <<backupTxClients, exchange, history>>,
             p \notin {"store", "switched"} => txClient' = selected,
             p = "store" => l.client = txClient',
             p = "switched" => txClient' = backupTxClients[l.index],
             p \notin {"ask", "construct"},
             p = "check" => l.client = backupTxClients[l.client.apiKeyIndex]
      PROVE  CallerInv'
  <2>1. pc'[t] = p /\ local'[t] = l /\ reply'[t] = None
    BY <1>0, <1>2 DEF Begins, TypeOK
  <2>2. CallerOK(t)'
    BY <2>1, <1>2 DEF CallerOK, history, Signed
  <2> QED
    BY <2>2, <1>0, <1>2, SelectionStands, OneIsAll DEF exchange, history
<1>3. ASSUME NEW l \in Logins, CreateRefuses(t, l) PROVE CallerInv'
  BY <1>1, <1>3 DEF CreateRefuses
<1>4. ASSUME NEW l \in Logins, CreateFails(t, l) PROVE CallerInv'
  <2>1. SelectionOK'
    BY <1>0, <1>4 DEF CreateFails, SelectionOK, ClientsOwnTheirIndex, exchange
  <2>2. reply'[t] = Err /\ pc' = pc /\ txClient' = selected'
    BY <1>0, <1>4 DEF CreateFails, Refuses, TypeOK
  <2>3. CallerOK(t)'
    BY <2>2, <1>0, <1>a DEF CallerOK, Signed
  <2> QED
    BY <2>1, <2>3, OneIsAll
<1>5. ASSUME NEW l \in Logins, CreateAssigns(t, l) PROVE CallerInv'
  BY <1>2, <1>5 DEF CreateAssigns
<1>6. ASSUME NEW n \in CInts, SwitchAssigns(t, n) PROVE CallerInv'
  BY <1>2, <1>6 DEF SwitchAssigns
<1>7. ASSUME NEW n \in CInts, NEW l \in Logins, CheckRefuses(t, n, l.account)
      PROVE  CallerInv'
  BY <1>1, <1>7 DEF CheckRefuses
<1>8. ASSUME NEW n \in CInts, NEW l \in Logins, CheckAsks(t, n, l.account)
      PROVE  CallerInv'
  BY <1>0, <1>2, <1>8 DEF CheckAsks, Checkable, CallerOK, globals
<1>9. ASSUME NEW n \in CNonces, SignStarts(t, n) PROVE CallerInv'
  BY <1>0, <1>2, <1>9 DEF SignStarts, CallerOK, globals
<1>10. ASSUME SignRefuses(t) PROVE CallerInv'
  BY <1>1, <1>10 DEF SignRefuses
<1>11. ASSUME TokenStarts(t) PROVE CallerInv'
  BY <1>0, <1>2, <1>11 DEF TokenStarts, CallerOK, globals
<1>12. ASSUME MarginStarts(t) PROVE CallerInv'
  BY <1>0, <1>2, <1>12 DEF MarginStarts, CallerOK, globals
<1> QED
  BY <1>3, <1>4, <1>5, <1>6, <1>7, <1>8, <1>9, <1>10, <1>11, <1>12 DEF Calls

\* Calls that go on.
LEMMA CallerContinues ==
  ASSUME OneThread, IInv, CallerInv, NEW t \in Threads, Continues(t)
  PROVE  CallerInv'
<1>0. SelectionOK /\ CallerOK(t) /\ TypeOK /\ LocalOK(t) /\ pc[t] # "idle"
  BY DEF CallerInv, IInv, ThreadsOK, Continues, CreateStores, SwitchReturns, CheckAnswers,
         RequestFails, FullFillDefaultOps, GetNextNonce, Constructs, GetAuthToken,
         MarginPanics
<1>a. ~Signed(Err) /\ ~Signed(Ok) /\ ~Signed(Empty) /\ ~Signed(reply[t])
  BY <1>0 DEF Signed, Err, Ok, Empty, CallerOK
<1>1. ASSUME NEW r, Returns(t, r), UNCHANGED <<globals, exchange, history>>,
             pc[t] \notin {"store", "switched"},
             Signed(r) => /\ selected # None
                          /\ r.owner = Owner(selected) /\ r.key = selected.key
      PROVE  CallerInv'
  <2>1. reply'[t] = r /\ pc'[t] = "idle"
    BY <1>0, <1>1 DEF Returns, TypeOK
  <2>2. CallerOK(t)'
    BY <2>1, <1>0, <1>1 DEF CallerOK, globals, history, Signed
  <2> QED
    BY <2>2, <1>0, <1>1, SelectionStands, OneIsAll DEF globals, exchange, history
<1>2. ASSUME NEW p \in {"ask", "construct"}, NEW l, Goto(t, p, l),
             UNCHANGED <<globals, exchange, history>>,
             pc[t] \notin {"store", "switched"}, l.client = txClient
      PROVE  CallerInv'
  <2>1. pc'[t] = p /\ local'[t] = l /\ reply' = reply
    BY <1>0, <1>2 DEF Goto, TypeOK
  <2>2. CallerOK(t)'
    BY <2>1, <1>0, <1>a, <1>2 DEF CallerOK, globals, history, Signed
  <2> QED
    BY <2>2, <1>0, <1>2, SelectionStands, OneIsAll DEF globals, exchange, history
<1>3. ASSUME CreateStores(t) PROVE CallerInv'
  <2> DEFINE c == local[t].client
  <2>1. c \in Clients /\ c = txClient /\ c.apiKeyIndex \in ApiKeys
    BY <1>0, <1>3, ClientParts DEF CreateStores, LocalOK, CallerOK
  <2>2. /\ made' = [made EXCEPT ![c.apiKeyIndex] = c] /\ backupTxClients' = made'
        /\ selected' = c /\ checked' = checked \ {c.apiKeyIndex}
        /\ registered' = registered /\ txClient' = c
    BY <1>0, <1>3, <2>1 DEF CreateStores, SelectionOK, exchange
  <2>3. SelectionOK'
    BY <1>0, <2>1, <2>2 DEF SelectionOK, ClientsOwnTheirIndex, TypeOK
  <2>4. reply'[t] = Ok /\ pc'[t] = "idle"
    BY <1>0, <1>3 DEF CreateStores, Returns, TypeOK
  <2>5. CallerOK(t)'
    BY <2>2, <2>4, <1>a DEF CallerOK, Signed
  <2> QED
    BY <2>3, <2>5, OneIsAll
<1>4. ASSUME SwitchReturns(t) PROVE CallerInv'
  <2> DEFINE k == local[t].index
  <2>1. k \in ApiKeys /\ txClient = made[k] /\ (txClient # None => txClient.apiKeyIndex = k)
    BY <1>0, <1>4 DEF SwitchReturns, LocalOK, CallerOK, SelectionOK, ClientsOwnTheirIndex
  <2>2. /\ selected' = txClient /\ txClient' = txClient
        /\ UNCHANGED <<backupTxClients, made, checked, registered>>
    BY <1>4, <2>1 DEF SwitchReturns, globals, exchange
  <2>3. SelectionOK'
    BY <1>0, <2>1, <2>2 DEF SelectionOK, ClientsOwnTheirIndex
  <2>4. pc'[t] = "idle" /\ ~Signed(reply[t])'
    BY <1>0, <1>4, <1>a DEF SwitchReturns, Returns, TypeOK, Signed
  <2>5. CallerOK(t)'
    BY <2>2, <2>4 DEF CallerOK
  <2> QED
    BY <2>3, <2>5, OneIsAll
<1>5. ASSUME CheckAnswers(t) PROVE CallerInv'
  <2> DEFINE c == local[t].client
             k == c.apiKeyIndex
  <2>1. c \in Clients /\ c # None /\ c = made[k]
    BY <1>0, <1>5, ClientParts DEF CheckAnswers, LocalOK, CallerOK, SelectionOK
  <2>2. /\ UNCHANGED <<txClient, backupTxClients, made, selected, registered>>
        /\ \/ checked' = checked
           \/ checked' = checked \cup {k} /\ registered[Owner(c)] = c.key
    BY <1>5 DEF CheckAnswers, globals, exchange
  <2>3. SelectionOK'
    <3> HIDE DEF k, c
    <3>1. \A i \in checked' : made[i] # None /\ registered[Owner(made[i])] = made[i].key
      BY <1>0, <2>1, <2>2 DEF SelectionOK
    <3> QED
      BY <3>1, <1>0, <2>2 DEF SelectionOK, ClientsOwnTheirIndex
  <2>4. pc'[t] = "idle" /\ ~Signed(reply[t])'
    BY <1>0, <1>5, <1>a DEF CheckAnswers, Returns, TypeOK, Signed
  <2>5. CallerOK(t)'
    BY <2>2, <2>4, <1>0, <1>5 DEF CallerOK, CheckAnswers
  <2> QED
    BY <2>3, <2>5, OneIsAll
<1>6. ASSUME RequestFails(t) PROVE CallerInv'
  BY <1>1, <1>6, <1>a DEF RequestFails
<1>7. ASSUME FullFillDefaultOps(t) PROVE CallerInv'
  <2> DEFINE Call(b) == [client |-> txClient, nonce |-> local[t].nonce, asked |-> b,
                         floor |-> nextNonce[Owner(txClient)]]
  <2>1. pc[t] = "sign" /\ UNCHANGED <<globals, exchange, history>>
    BY <1>7 DEF FullFillDefaultOps
  <2>2. CASE Returns(t, Err)
    BY <1>1, <2>1, <2>2, <1>a
  <2>3. ASSUME NEW p \in {"ask", "construct"}, NEW b, Goto(t, p, Call(b)) PROVE CallerInv'
    <3>1. Call(b).client = txClient
      OBVIOUS
    <3> HIDE DEF Call
    <3> QED
      BY <1>2, <2>1, <2>3, <3>1
  <2> QED
    BY <1>7, <2>2, <2>3 DEF FullFillDefaultOps
<1>8. ASSUME GetNextNonce(t) PROVE CallerInv'
  <2> DEFINE l == [local[t] EXCEPT !.nonce = nextNonce[Owner(local[t].client)]]
  <2>1. l.client = txClient
    BY <1>0, <1>8 DEF GetNextNonce, CallerOK, LocalOK, Requests
  <2> HIDE DEF l
  <2>2. Goto(t, "construct", l)
    BY <1>8 DEF GetNextNonce, l
  <2> QED
    BY <1>2, <1>8, <2>1, <2>2 DEF GetNextNonce
<1>9. ASSUME Constructs(t) PROVE CallerInv'
  <2> DEFINE l == local[t]
             r == Signature("tx", l, l.client.key)
  <2>1. /\ pc[t] = "construct" /\ UNCHANGED <<globals, exchange, history>>
        /\ Returns(t, Err) \/ Returns(t, r)
    BY <1>9 DEF Constructs
  <2>2. l.client \in Clients /\ l.client = selected /\ selected # None
    BY <1>0, <2>1, ClientParts DEF LocalOK, CallerOK, Requests
  <2>3. r.owner = Owner(selected) /\ r.key = selected.key
    BY <2>2 DEF Signature
  <2> HIDE DEF r
  <2> QED
    BY <1>1, <1>a, <2>1, <2>2, <2>3
<1>10. ASSUME GetAuthToken(t) PROVE CallerInv'
  <2> DEFINE l == [client |-> txClient, nonce |-> 0, asked |-> FALSE, floor |-> 0]
             r == Signature("token", l, txClient.key)
  <2>1. /\ pc[t] = "token" /\ UNCHANGED <<globals, exchange, history>>
        /\ Returns(t, Err) \/ (txClient # None /\ Returns(t, r))
    BY <1>10 DEF GetAuthToken
  <2>2. txClient = selected
    BY <1>0, <2>1 DEF CallerOK
  <2>3. r.owner = Owner(selected) /\ r.key = selected.key
    BY <2>2 DEF Signature
  <2> HIDE DEF r
  <2> QED
    BY <1>1, <1>a, <2>1, <2>2, <2>3
<1>11. ASSUME MarginPanics(t) PROVE CallerInv'
  BY <1>1, <1>11, <1>a DEF MarginPanics
<1> QED
  BY <1>3, <1>4, <1>5, <1>6, <1>7, <1>8, <1>9, <1>10, <1>11 DEF Continues

\* The exchange changes only keys, and what was checked of them with them.
LEMMA CallerExchange ==
  ASSUME IInv, CallerInv, ExchangeNext
  PROVE  CallerInv'
<1>1. UNCHANGED <<txClient, backupTxClients, pc, local, reply, selected, made>>
  BY DEF ExchangeNext, Executes, Registers, GoesOnOrOff, globals, calls, history
<1>2. \A t \in Threads : CallerOK(t)'
  BY <1>1 DEF CallerInv, CallerOK, Signed
<1>3. \A k \in checked' : made[k] # None /\ registered'[Owner(made[k])] = made[k].key
  <2>1. CASE UNCHANGED <<registered, checked>>
    BY <2>1 DEF CallerInv, SelectionOK
  <2>2. ASSUME NEW o \in Owners, NEW key \in PublicKeys, Registers(o, key),
               NEW k \in checked'
        PROVE  made[k] # None /\ registered'[Owner(made[k])] = made[k].key
    <3>1. k \in checked /\ k \in ApiKeys /\ Owner(made[k]) # o
      BY <2>2 DEF Registers, IInv, TypeOK
    <3>2. made[k] # None /\ registered[Owner(made[k])] = made[k].key
      BY <3>1 DEF CallerInv, SelectionOK
    <3>3. Owner(made[k]) \in Owners
      BY <3>1, <3>2, ClientParts DEF IInv, TypeOK, OptClients
    <3> QED
      BY <2>2, <3>1, <3>2, <3>3 DEF Registers, IInv, TypeOK
  <2> QED
    BY <2>1, <2>2 DEF ExchangeNext, Executes, GoesOnOrOff, history
<1>4. SelectionOK'
  BY <1>1, <1>3 DEF CallerInv, SelectionOK, ClientsOwnTheirIndex
<1> QED
  BY <1>2, <1>4 DEF CallerInv

\* For one thread the selection is what the caller made it.
THEOREM CallerInductive == ASSUME OneThread PROVE Spec => []CallerInv
<1>1. IInv /\ CallerInv /\ [Next]_vars => CallerInv'
  <2> SUFFICES ASSUME IInv, CallerInv, [Next]_vars PROVE CallerInv'
    OBVIOUS
  <2>1. CASE Next
    BY <2>1, CallerCalls, CallerContinues, CallerExchange DEF Next
  <2>2. CASE UNCHANGED vars
    BY <2>2 DEF CallerInv, SelectionOK, CallerOK, ClientsOwnTheirIndex, Signed, vars,
                globals, calls, exchange, history
  <2> QED
    BY <2>1, <2>2
<1> QED
  BY <1>1, CallerInit, Inductive, PTL DEF Spec

\* With one thread, the mismatch of indices that CheckClient reports cannot be.
THEOREM IndicesOwned == ASSUME OneThread PROVE Spec => []ClientsOwnTheirIndex
<1>1. CallerInv => ClientsOwnTheirIndex
  BY DEF CallerInv, SelectionOK
<1> QED
  BY <1>1, CallerInductive, PTL

\* With one thread, every signature is the selected client's.
THEOREM SelectedSigns == ASSUME OneThread PROVE Spec => []SignsForTheSelected
<1>1. CallerInv => SignsForTheSelected
  BY DEF CallerInv, CallerOK, SignsForTheSelected
<1> QED
  BY <1>1, CallerInductive, PTL

\* With one thread, a signature under a checked index is by the registered key.
THEOREM CheckedSigns == ASSUME OneThread PROVE Spec => []CheckedKeySigns
<1>1. CallerInv => CheckedKeySigns
  <2> SUFFICES ASSUME CallerInv, NEW t \in Threads, Signed(reply[t]),
                      reply[t].owner[2] \in checked
               PROVE  registered[reply[t].owner] = reply[t].key
    BY DEF CheckedKeySigns
  <2>1. /\ selected # None /\ reply[t].owner = Owner(selected)
        /\ reply[t].key = selected.key
    BY DEF CallerInv, CallerOK
  <2>2. reply[t].owner[2] = selected.apiKeyIndex
    BY <2>1 DEF Owner
  <2>3. made[selected.apiKeyIndex] = selected
    BY <2>1 DEF CallerInv, SelectionOK
  <2> QED
    BY <2>1, <2>2, <2>3 DEF CallerInv, SelectionOK
<1> QED
  BY <1>1, CallerInductive, PTL

-----------------------------------------------------------------------------
(* A caller with one thread has a signer that holds one client *)

Given == {[owner |-> reply[t].owner, key |-> reply[t].key] :
            t \in {u \in Threads : Signed(reply[u])}}
Keyring == [k \in ApiKeys |-> IF Storing(k) THEN txClient ELSE backupTxClients[k]]

\* The library starts with no clients and none held.
LEMMA SignerStart == Init => Signer!SignerInit
<1> SUFFICES ASSUME Init PROVE Keyring = [k \in ApiKeys |-> None] /\ txClient = None /\ Given = {}
  BY DEF Signer!SignerInit, Keyring, Given
<1> QED
  BY DEF Init, Keyring, Given, Storing, Signed

\* Unless a client is being stored, the keyring is the map.
LEMMA KeyringIsMap ==
  ASSUME OneThread, TypeOK, NEW t \in Threads, pc[t] # "store"
  PROVE  Keyring = backupTxClients
<1>1. \A k : ~Storing(k)
  BY DEF OneThread, Storing
<1> QED
  BY <1>1 DEF Keyring, TypeOK

\* The same after a step.
LEMMA KeyringIsMapNext ==
  ASSUME OneThread, TypeOK', NEW t \in Threads, pc'[t] # "store"
  PROVE  Keyring' = backupTxClients'
<1>1. \A k : ~Storing(k)'
  BY DEF OneThread, Storing
<1> QED
  BY <1>1 DEF Keyring, TypeOK

\* What the one thread got is what the signer gave.
LEMMA GivenToOne ==
  ASSUME OneThread, NEW t \in Threads
  PROVE  Given = IF Signed(reply[t]) THEN {[owner |-> reply[t].owner, key |-> reply[t].key]}
                                     ELSE {}
BY DEF OneThread, Given

\* The same after a step.
LEMMA GivenToOneNext ==
  ASSUME OneThread, NEW t \in Threads
  PROVE  Given' = IF Signed(reply'[t])
                  THEN {[owner |-> reply'[t].owner, key |-> reply'[t].key]} ELSE {}
BY DEF OneThread, Given, Signed

\* A step of the abstract signer, in terms of the mapping.
SignerStep ==
  \/ \E c \in Clients : /\ Keyring' = [Keyring EXCEPT ![c.apiKeyIndex] = c]
                        /\ txClient' = c /\ Given' = {}
  \/ \E k \in ApiKeys : txClient' = Keyring[k] /\ Given' = {} /\ Keyring' = Keyring
  \/ txClient' = None /\ Given' = {} /\ Keyring' = Keyring
  \/ /\ txClient # None
     /\ Given' = {[owner |-> Owner(txClient), key |-> txClient.key]}
     /\ Keyring' = Keyring /\ txClient' = txClient
  \/ Given' = {} /\ Keyring' = Keyring /\ txClient' = txClient
  \/ Given' = Given /\ Keyring' = Keyring /\ txClient' = txClient

\* What SignerStep says is what the signer may do.
LEMMA SignerStepIs == SignerStep => [Signer!SignerNext]_(Signer!signerVars)
BY DEF SignerStep, Signer!SignerNext, Signer!signerVars, Signer!Create, Signer!Switch,
       Signer!Drop, Signer!Sign, Signer!Other, Signer!SignatureOf, Keyring, Given, Owner

\* Calls that begin, and those that return at once: CreateClient and SwitchAPIKey
\* select by their first step.
LEMMA SignerCalls ==
  ASSUME OneThread, IInv, IInv', CallerInv, NEW t \in Threads, Calls(t)
  PROVE  SignerStep
<1>0. TypeOK /\ TypeOK' /\ pc[t] = "idle"
  BY DEF IInv, Calls, CreateRefuses, CreateFails, CreateAssigns, SwitchAssigns,
         CheckRefuses, CheckAsks, SignStarts, SignRefuses, TokenStarts, MarginStarts,
         Refuses, Begins
<1>1. Keyring = backupTxClients
  BY <1>0, KeyringIsMap
<1>2. ASSUME NEW r, Refuses(t, r), r = Err PROVE Given' = {} /\ Keyring' = backupTxClients'
  <2>1. reply'[t] = r /\ pc'[t] = "idle" /\ ~Signed(reply'[t])
    BY <1>0, <1>2 DEF Refuses, TypeOK, Signed, Err
  <2> QED
    BY <2>1, <1>0, KeyringIsMapNext, GivenToOneNext
<1>3. ASSUME NEW p, NEW l, Begins(t, p, l) PROVE Given' = {} /\ pc'[t] = p /\ local'[t] = l
  <2>1. reply'[t] = None /\ pc'[t] = p /\ local'[t] = l
    BY <1>0, <1>3 DEF Begins, TypeOK
  <2>2. ~Signed(reply'[t])
    BY <2>1 DEF Signed
  <2> QED
    BY <2>1, <2>2, GivenToOneNext
<1>4. ASSUME NEW p, NEW l, Begins(t, p, l), p # "store"
      PROVE  Given' = {} /\ Keyring' = backupTxClients'
  BY <1>0, <1>3, <1>4, KeyringIsMapNext
<1>5. ASSUME NEW l \in Logins, CreateFails(t, l) PROVE SignerStep
  BY <1>1, <1>2, <1>5 DEF CreateFails, SignerStep
<1>6. ASSUME NEW l \in Logins, CreateAssigns(t, l) PROVE SignerStep
  <2> DEFINE c == NewTxClient(l)
  <2>1. c \in Clients /\ c.apiKeyIndex \in ApiKeys
    BY <1>6, NewClient, ClientParts DEF CreateAssigns
  <2>2. Given' = {} /\ pc'[t] = "store" /\ local'[t].client = c /\ txClient' = c
        /\ backupTxClients' = backupTxClients
    BY <1>3, <1>6 DEF CreateAssigns
  <2> HIDE DEF c
  <2>3. \A k : Storing(k)' <=> c.apiKeyIndex = k
    BY <2>2 DEF Storing, OneThread
  <2>4. Keyring' = [Keyring EXCEPT ![c.apiKeyIndex] = c]
    <3>1. Keyring' = [k \in ApiKeys |-> IF c.apiKeyIndex = k THEN c ELSE backupTxClients[k]]
      BY <2>2, <2>3 DEF Keyring
    <3> QED
      BY <3>1, <1>0, <1>1 DEF TypeOK
  <2> QED
    BY <2>1, <2>2, <2>4 DEF SignerStep
<1>7. ASSUME NEW n \in CInts, SwitchAssigns(t, n) PROVE SignerStep
  <2>1. uint8(n) \in ApiKeys
    BY DEF ApiKeys
  <2>2. /\ txClient' = Keyring[uint8(n)] /\ backupTxClients' = backupTxClients
        /\ Given' = {} /\ Keyring' = Keyring
    BY <1>1, <1>4, <1>7 DEF SwitchAssigns
  <2> QED
    BY <2>1, <2>2 DEF SignerStep
<1>8. ASSUME UNCHANGED globals, Given' = {} /\ Keyring' = backupTxClients' PROVE SignerStep
  BY <1>1, <1>8 DEF globals, SignerStep
<1> QED
  BY <1>2, <1>4, <1>5, <1>6, <1>7, <1>8 DEF Calls, CreateRefuses, CheckRefuses, CheckAsks, SignStarts,
     SignRefuses, TokenStarts, MarginStarts

\* Calls that go on: what CreateClient stores was in the keyring since it
\* selected, and what is signed is signed by the client held.
LEMMA SignerContinues ==
  ASSUME OneThread, IInv, IInv', CallerInv, NEW t \in Threads, Continues(t)
  PROVE  SignerStep
<1>0. /\ TypeOK /\ TypeOK' /\ LocalOK(t) /\ CallerOK(t) /\ pc[t] # "idle"
      /\ ~Signed(reply[t])
  BY DEF IInv, ThreadsOK, CallerInv, CallerOK, Continues, CreateStores, SwitchReturns, CheckAnswers,
         RequestFails, FullFillDefaultOps, GetNextNonce, Constructs, GetAuthToken,
         MarginPanics
<1>1. ASSUME NEW r, Returns(t, r)
      PROVE  /\ Keyring' = backupTxClients'
             /\ Given' = IF Signed(r) THEN {[owner |-> r.owner, key |-> r.key]} ELSE {}
  <2>1. reply'[t] = r /\ pc'[t] = "idle"
    BY <1>0, <1>1 DEF Returns, TypeOK
  <2> QED
    BY <2>1, <1>0, KeyringIsMapNext, GivenToOneNext
<1>2. ~Signed(Err) /\ ~Signed(Ok) /\ ~Signed(Empty)
  BY DEF Signed, Err, Ok, Empty
<1>3. pc[t] # "store" => Keyring = backupTxClients
  BY <1>0, KeyringIsMap
<1>4. ASSUME CreateStores(t) PROVE SignerStep
  <2> DEFINE c == local[t].client
  <2>1. c = txClient /\ c.apiKeyIndex \in ApiKeys /\ pc[t] = "store"
    BY <1>0, <1>4, ClientParts DEF CreateStores, CallerOK, LocalOK
  <2>2. \A k : Storing(k) <=> txClient.apiKeyIndex = k
    BY <2>1 DEF Storing, OneThread
  <2>3. backupTxClients' = [backupTxClients EXCEPT ![txClient.apiKeyIndex] = txClient]
        /\ txClient' = txClient /\ Returns(t, Ok)
    BY <1>4, <2>1 DEF CreateStores
  <2>4. Keyring = backupTxClients'
    BY <2>1, <2>2, <2>3, <1>0 DEF Keyring, TypeOK
  <2> QED
    BY <2>3, <2>4, <1>1, <1>2 DEF SignerStep
<1>5. ASSUME UNCHANGED globals, pc[t] # "store", NEW r, Returns(t, r), ~Signed(r)
      PROVE  SignerStep
  BY <1>1, <1>3, <1>5 DEF globals, SignerStep
<1>6. ASSUME UNCHANGED globals, pc[t] # "store", NEW p \in {"ask", "construct"}, NEW l,
             Goto(t, p, l)
      PROVE  SignerStep
  <2>1. pc'[t] = p /\ reply' = reply
    BY <1>0, <1>6 DEF Goto, TypeOK
  <2>2. Keyring' = Keyring /\ Given' = {}
    BY <2>1, <1>0, <1>3, <1>6, KeyringIsMapNext, GivenToOneNext DEF globals
  <2> QED
    BY <2>2, <1>6 DEF globals, SignerStep
<1>7. ASSUME UNCHANGED globals, pc[t] # "store", NEW what \in {"tx", "token"}, NEW l,
             l.client = txClient, txClient # None,
             Returns(t, Signature(what, l, txClient.key))
      PROVE  SignerStep
  <2> DEFINE r == Signature(what, l, txClient.key)
  <2>1. r.owner = Owner(txClient) /\ r.key = txClient.key /\ r.kind = what
    BY <1>7 DEF Signature
  <2>2. CASE ~Signed(r)
    BY <2>2, <1>5, <1>7
  <2>3. CASE Signed(r)
    <3> HIDE DEF r
    <3>1. Given' = {[owner |-> Owner(txClient), key |-> txClient.key]}
          /\ Keyring' = Keyring /\ txClient' = txClient
      BY <2>1, <2>3, <1>1, <1>3, <1>7 DEF r, globals
    <3> QED
      BY <3>1, <1>7 DEF SignerStep
  <2> QED
    BY <2>2, <2>3
<1>8. ASSUME SwitchReturns(t) \/ CheckAnswers(t) \/ RequestFails(t) \/ MarginPanics(t)
      PROVE  SignerStep
  BY <1>2, <1>5, <1>8 DEF SwitchReturns, CheckAnswers, RequestFails, MarginPanics, globals
<1>9. ASSUME FullFillDefaultOps(t) PROVE SignerStep
  <2>1. pc[t] = "sign" /\ UNCHANGED globals
    BY <1>9 DEF FullFillDefaultOps
  <2>2. Returns(t, Err) \/ \E p \in {"ask", "construct"} : \E l : Goto(t, p, l)
    BY <1>9 DEF FullFillDefaultOps
  <2> QED
    BY <1>2, <1>5, <1>6, <2>1, <2>2
<1>10. ASSUME GetNextNonce(t) PROVE SignerStep
  BY <1>6, <1>10 DEF GetNextNonce
<1>11. ASSUME Constructs(t) PROVE SignerStep
  <2> DEFINE l == local[t]
  <2>1. /\ pc[t] = "construct" /\ UNCHANGED globals
        /\ Returns(t, Err) \/ Returns(t, Signature("tx", l, l.client.key))
    BY <1>11 DEF Constructs
  <2>2. l.client = txClient /\ txClient # None
    BY <1>0, <2>1, ClientParts DEF LocalOK, CallerOK, Requests
  <2> HIDE DEF l
  <2> QED
    BY <1>2, <1>5, <1>7, <2>1, <2>2
<1>12. ASSUME GetAuthToken(t) PROVE SignerStep
  <2> DEFINE l == [client |-> txClient, nonce |-> 0, asked |-> FALSE, floor |-> 0]
  <2>1. /\ pc[t] = "token" /\ UNCHANGED globals
        /\ \/ Returns(t, Err)
           \/ txClient # None /\ Returns(t, Signature("token", l, txClient.key))
    BY <1>12 DEF GetAuthToken
  <2>2. l.client = txClient
    OBVIOUS
  <2> HIDE DEF l
  <2> QED
    BY <1>2, <1>5, <1>7, <2>1, <2>2
<1> QED
  BY <1>4, <1>8, <1>9, <1>10, <1>11, <1>12 DEF Continues

\* The exchange selects and signs nothing.
LEMMA SignerElse ==
  ASSUME ExchangeNext \/ UNCHANGED vars
  PROVE  SignerStep
<1>1. UNCHANGED <<txClient, backupTxClients, pc, local, reply>>
  BY DEF ExchangeNext, Executes, Registers, GoesOnOrOff, globals, calls, vars
<1>2. Given' = Given /\ Keyring' = Keyring
  BY <1>1 DEF Given, Keyring, Storing, Signed
<1> QED
  BY <1>1, <1>2 DEF SignerStep

\* For a caller with one thread the library is a signer that holds one client.
THEOREM LibraryIsOneSigner == ASSUME OneThread PROVE Spec => ImplementsSigner
<1>1. IInv /\ IInv' /\ CallerInv /\ [Next]_vars =>
        [Signer!SignerNext]_(Signer!signerVars)
  <2> SUFFICES ASSUME IInv, IInv', CallerInv, [Next]_vars PROVE SignerStep
    BY SignerStepIs
  <2> QED
    BY SignerCalls, SignerContinues, SignerElse DEF Next
<1> QED
  BY <1>1, SignerStart, Inductive, CallerInductive, PTL
  DEF Spec, ImplementsSigner, Signer!SignerSpec
=============================================================================
