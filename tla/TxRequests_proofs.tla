------------------------- MODULE TxRequests_proofs -------------------------
(***************************************************************************)
(* Proofs about the options of transactions, and about the requests that   *)
(* carry them, for any clients, options, threads, templates and requests.  *)
(***************************************************************************)
EXTENDS TxRequests, TLAPS

-----------------------------------------------------------------------------
(* The invariant of the options *)

Options == [account : Accounts \cup {None}, apiKey : ApiKeys \cup Clients \cup {None},
            nonce : Int \cup {None}]

OptionsType ==
  /\ apiKeyIndex \in [Clients -> ApiKeys] /\ opts \in [Opts -> Options]
  /\ pc \in [Threads -> {"idle", "ask", "construct"}] /\ DOMAIN local = Threads
  /\ nextNonce \in [Owners -> Nat]
  /\ given \in [Opts -> Fields] /\ users \in [Opts -> SUBSET Clients]

\* SwitchAPIKey alone changes a client's index.
IndexInv == \A c \in Clients : c \in switched \/ apiKeyIndex[c] = Linked[c][2]

\* Options hold what the caller gave and, where the caller gave nothing, the
\* default of a client that used them; a use leaves no default out.
OptionInv(o) ==
  /\ given[o].account # None => opts[o].account = given[o].account
  /\ given[o].apiKey # None => opts[o].apiKey = given[o].apiKey
  /\ given[o].account = None => opts[o].account \in {None} \cup {Linked[c][1] : c \in users[o]}
  /\ given[o].apiKey = None => opts[o].apiKey \in {None} \cup users[o]
  /\ users[o] # {} => opts[o].account # None /\ opts[o].apiKey # None

\* A call that is under way: its client used its options; a nonce is there when
\* the transaction is constructed; a nonce that it fetched is not older than
\* the call.
CallInv(t) ==
  pc[t] # "idle" =>
    /\ local[t].client \in Clients /\ local[t].ops \in Opts /\ local[t].index \in ApiKeys
    /\ local[t].client \in users[local[t].ops]
    /\ pc[t] = "ask" => local[t].floor # None
    /\ pc[t] = "construct" => opts[local[t].ops].nonce # None
    /\ local[t].floor # None =>
         /\ local[t].owner \in Owners /\ local[t].floor \in Nat
         /\ local[t].floor <= nextNonce[local[t].owner]

\* Options that were never shared have one call at a time.
OneCall(o) ==
  o \notin shared =>
    \A t, u \in Threads :
      pc[t] # "idle" /\ pc[u] # "idle" /\ local[t].ops = o /\ local[u].ops = o => t = u

\* The owner whose nonce a call fetched is the one it will sign for, with the
\* client's index as it was when the call began.
FetchInv(t) ==
  (pc[t] # "idle" /\ local[t].floor # None /\ local[t].ops \notin shared
   /\ users[local[t].ops] = {local[t].client}) =>
    LET f == opts[local[t].ops] IN
    /\ local[t].owner = <<f.account, IF f.apiKey \in Clients THEN local[t].index ELSE f.apiKey>>
    /\ pc[t] = "construct" =>
         local[t].floor <= f.nonce /\ f.nonce <= nextNonce[local[t].owner]

OptionsInv ==
  /\ OptionsType /\ IndexInv
  /\ \A o \in Opts : OptionInv(o) /\ OneCall(o)
  /\ \A t \in Threads : CallInv(t) /\ FetchInv(t)

OptionsIInv == OptionsInv /\ SignsForNamedOrLinked /\ NonceOfItsOwner
-----------------------------------------------------------------------------
(* Steps of the options *)

LEMMA ReplySaysNothing ==
  ASSUME reply' = None \/ reply' = Err
  PROVE  SignsForNamedOrLinked' /\ NonceOfItsOwner'
BY DEF SignsForNamedOrLinked, NonceOfItsOwner, Signed, Err

LEMMA InitOptions == Init => OptionsIInv
<1> SUFFICES ASSUME Init PROVE OptionsIInv
  OBVIOUS
<1>1. /\ \A o \in Opts : opts[o] = Blank /\ given[o] = Blank /\ users[o] = {}
      /\ \A t \in Threads : pc[t] = "idle"
      /\ \A c \in Clients : apiKeyIndex[c] = Linked[c][2]
  BY DEF Init
<1>2. Blank \in Options /\ Blank \in Fields
  BY DEF Blank, Options, Fields
<1>3. OptionsType
  <2>1. apiKeyIndex \in [Clients -> ApiKeys]
    BY ClientAssumption DEF Init, Owners
  <2> QED
    BY <1>2, <2>1 DEF Init, OptionsType
<1>4. \A o \in Opts : OptionInv(o)
  BY <1>1 DEF OptionInv, Blank
<1> QED
  BY <1>1, <1>3, <1>4 DEF Init, OptionsIInv, OptionsInv, IndexInv, OneCall, CallInv, FetchInv,
     SignsForNamedOrLinked, NonceOfItsOwner, Signed

\* A step that touches no option and no call, and after which no nonce is
\* smaller: a step of the exchange, or one outside these variables.
LEMMA Elsewhere ==
  ASSUME OptionsInv, UNCHANGED <<apiKeyIndex, opts, calls, history>>,
         nextNonce' \in [Owners -> Nat],
         \A w \in Owners : nextNonce[w] <= nextNonce'[w]
  PROVE  OptionsInv'
<1> USE DEF OptionsInv, calls, history
<1>1. OptionsType' /\ IndexInv'
  BY DEF OptionsType, IndexInv
<1>2. \A o \in Opts : OptionInv(o)' /\ OneCall(o)'
  BY DEF OptionInv, OneCall
<1>3. ASSUME NEW t \in Threads PROVE CallInv(t)'
  BY DEF CallInv, OptionsType
<1>4. ASSUME NEW t \in Threads PROVE FetchInv(t)'
  <2> SUFFICES ASSUME pc[t] # "idle", local[t].floor # None, local[t].ops \notin shared,
                      users[local[t].ops] = {local[t].client}, pc[t] = "construct"
               PROVE  opts[local[t].ops].nonce <= nextNonce'[local[t].owner]
    BY DEF FetchInv
  <2>1. /\ local[t].owner \in Owners /\ opts[local[t].ops].nonce <= nextNonce[local[t].owner]
        /\ opts[local[t].ops].nonce \in Int
    BY DEF FetchInv, CallInv, OptionsType, Options
  <2> QED
    BY <2>1 DEF OptionsType
<1> QED
  BY <1>1, <1>2, <1>3, <1>4

LEMMA BumpIsLater ==
  ASSUME NEW w \in Owners, nextNonce \in [Owners -> Nat],
         nextNonce' = [nextNonce EXCEPT ![w] = @ + 1]
  PROVE  /\ nextNonce' \in [Owners -> Nat]
         /\ nextNonce'[w] = nextNonce[w] + 1
         /\ \A v \in Owners : nextNonce[v] <= nextNonce'[v]
<1>1. \A v \in Owners : nextNonce'[v] = IF v = w THEN nextNonce[v] + 1 ELSE nextNonce[v]
  OBVIOUS
<1>2. \A v \in Owners : nextNonce[v] \in Nat
  OBVIOUS
<1> QED
  BY <1>1, <1>2

LEMMA NewOptionsKeeps ==
  ASSUME OptionsInv, NEW o \in Opts, NEW f \in Templates, NewOptions(o, f)
  PROVE  OptionsInv'
<1> USE DEF OptionsInv
<1>1. /\ opts' = [opts EXCEPT ![o] = f] /\ given' = [given EXCEPT ![o] = f]
      /\ users' = [users EXCEPT ![o] = {}] /\ shared' = shared \ {o}
      /\ UNCHANGED <<apiKeyIndex, pc, local, nextNonce, switched>>
      /\ \A t \in Threads : pc[t] # "idle" => local[t].ops # o
  BY DEF NewOptions, Using, calls
<1>2. f \in Fields /\ f \in Options
  BY TemplateAssumption DEF Fields, Options
<1>3. OptionsType' /\ IndexInv'
  BY <1>1, <1>2 DEF OptionsType, IndexInv
<1>4. ASSUME NEW p \in Opts PROVE OptionInv(p)' /\ OneCall(p)'
  <2>1. CASE p = o
    BY <1>1, <1>2, <2>1 DEF OptionInv, OneCall, OptionsType
  <2>2. CASE p # o
    BY <1>1, <2>2 DEF OptionInv, OneCall, OptionsType
  <2> QED
    BY <2>1, <2>2
<1>5. ASSUME NEW t \in Threads, pc[t] # "idle"
      PROVE  /\ local[t].ops \in Opts /\ opts'[local[t].ops] = opts[local[t].ops]
             /\ users'[local[t].ops] = users[local[t].ops]
             /\ local[t].ops \in shared' <=> local[t].ops \in shared
  BY <1>1, <1>5 DEF CallInv, OptionsType
<1>6. ASSUME NEW t \in Threads PROVE CallInv(t)' /\ FetchInv(t)'
  BY <1>1, <1>5 DEF CallInv, FetchInv
<1> QED
  BY <1>3, <1>4, <1>6

LEMMA SwitchKeeps ==
  ASSUME OptionsInv, NEW c \in Clients, NEW k \in ApiKeys, SwitchAPIKey(c, k)
  PROVE  OptionsInv'
BY DEF OptionsInv, SwitchAPIKey, OptionsType, IndexInv, OptionInv, OneCall, CallInv, FetchInv,
       calls

LEMMA FilledIs ==
  ASSUME NEW f \in Options, NEW c \in Clients
  PROVE  /\ Filled(f, c) \in Options /\ Filled(f, c).nonce = f.nonce
         /\ Filled(f, c).account = IF f.account = None THEN Linked[c][1] ELSE f.account
         /\ Filled(f, c).apiKey = IF f.apiKey = None THEN c ELSE f.apiKey
<1>1. Linked[c][1] \in Accounts
  BY ClientAssumption DEF Owners
<1> QED
  BY <1>1 DEF Filled, Options

\* What the beginning of a call does to the options and to the other calls.
LEMMA EntersKeeps ==
  ASSUME OptionsInv, NEW t \in Threads, NEW c \in Clients, NEW o \in Opts, Enters(t, c, o),
         \A u \in Threads \ {t} : pc'[u] = pc[u] /\ local'[u] = local[u],
         pc' \in [Threads -> {"idle", "ask", "construct"}], DOMAIN local' = Threads,
         pc'[t] # "idle" => local'[t].ops = o
  PROVE  /\ OptionsType' /\ IndexInv'
         /\ opts'[o] = Filled(opts[o], c) /\ c \in users'[o]
         /\ \A p \in Opts : OptionInv(p)' /\ OneCall(p)'
         /\ \A u \in Threads \ {t} : CallInv(u)' /\ FetchInv(u)'
<1> USE DEF OptionsInv
<1>1. /\ opts' = [opts EXCEPT ![o] = Filled(@, c)]
      /\ users' = [users EXCEPT ![o] = @ \cup {c}]
      /\ shared' = IF Using(o) = {} THEN shared ELSE shared \cup {o}
      /\ UNCHANGED <<apiKeyIndex, nextNonce, given, switched>> /\ pc[t] = "idle"
  BY DEF Enters
<1>2. OptionsType'
  <2>1. opts' \in [Opts -> Options]
    BY <1>1, FilledIs DEF OptionsType
  <2>2. users' \in [Opts -> SUBSET Clients]
    BY <1>1 DEF OptionsType
  <2> QED
    BY <1>1, <2>1, <2>2 DEF OptionsType
<1>3. IndexInv'
  BY <1>1 DEF IndexInv
<1>4. /\ opts'[o] = Filled(opts[o], c) /\ users'[o] = users[o] \cup {c} /\ opts[o] \in Options
      /\ \A p \in Opts : p # o => opts'[p] = opts[p] /\ users'[p] = users[p]
  BY <1>1 DEF OptionsType
<1>5. ASSUME NEW p \in Opts PROVE OptionInv(p)'
  <2>1. CASE p = o
    <3>1. Linked[c][1] # None /\ c # None
      BY ClientAssumption, NoneAssumption DEF Owners
    <3>2. /\ opts'[o].account = IF opts[o].account = None THEN Linked[c][1] ELSE opts[o].account
          /\ opts'[o].apiKey = IF opts[o].apiKey = None THEN c ELSE opts[o].apiKey
      BY <1>4, FilledIs
    <3> QED
      BY <1>1, <1>4, <2>1, <3>1, <3>2 DEF OptionInv
  <2>2. CASE p # o
    BY <1>1, <1>4, <2>2 DEF OptionInv
  <2> QED
    BY <2>1, <2>2
<1>6. ASSUME NEW p \in Opts PROVE OneCall(p)'
  <2>1. CASE p = o
    <3> SUFFICES ASSUME o \notin shared' PROVE OneCall(o)'
      BY <2>1 DEF OneCall
    <3>1. \A u \in Threads : pc[u] # "idle" => local[u].ops # o
      BY <1>1 DEF Using
    <3> QED
      BY <3>1 DEF OneCall
  <2>2. CASE p # o
    <3>1. p \in shared' <=> p \in shared
      BY <1>1, <2>2
    <3> QED
      BY <2>2, <3>1 DEF OneCall
  <2> QED
    BY <2>1, <2>2
<1>7. ASSUME NEW u \in Threads \ {t} PROVE CallInv(u)' /\ FetchInv(u)'
  <2> SUFFICES ASSUME pc[u] # "idle" PROVE CallInv(u)' /\ FetchInv(u)'
    BY DEF CallInv, FetchInv
  <2>1. CallInv(u) /\ FetchInv(u) /\ local[u].ops \in Opts
    BY DEF CallInv
  <2>2. CASE local[u].ops = o
    <3>1. o \in shared'
      BY <1>1, <2>2 DEF Using
    <3>2. opts'[o].nonce = opts[o].nonce
      BY <1>4, FilledIs
    <3> QED
      BY <1>1, <1>4, <2>1, <2>2, <3>1, <3>2 DEF CallInv, FetchInv
  <2>3. CASE local[u].ops # o
    <3>1. /\ opts'[local[u].ops] = opts[local[u].ops]
          /\ users'[local[u].ops] = users[local[u].ops]
          /\ local[u].ops \in shared' <=> local[u].ops \in shared
      BY <1>1, <1>4, <2>1, <2>3
    <3> QED
      BY <1>1, <2>1, <3>1 DEF CallInv, FetchInv
  <2> QED
    BY <2>2, <2>3
<1> QED
  BY <1>2, <1>3, <1>4, <1>5, <1>6, <1>7

LEMMA GetsKeeps ==
  ASSUME OptionsInv, NEW t \in Threads, NEW c \in Clients, NEW o \in Opts, Gets(t, c, o)
  PROVE  OptionsInv'
<1> USE DEF OptionsInv
<1>1. OptionsType /\ apiKeyIndex[c] \in ApiKeys /\ opts[o] \in Options
  BY DEF OptionsType
<1>2. /\ Enters(t, c, o) /\ pc[t] = "idle" /\ UNCHANGED <<apiKeyIndex, nextNonce>>
  BY DEF Gets, GetsWithNonce, GetsRefused, GetsAsking, Enters
<1>3. CASE GetsWithNonce(t, c, o)
  <2> DEFINE call == [client |-> c, ops |-> o, index |-> apiKeyIndex[c], floor |-> None]
  <2>1. /\ pc' = [pc EXCEPT ![t] = "construct"] /\ local' = [local EXCEPT ![t] = call]
        /\ opts'[o].nonce # None
    BY <1>3 DEF GetsWithNonce
  <2>2. /\ pc'[t] = "construct" /\ local'[t] = call
        /\ \A u \in Threads \ {t} : pc'[u] = pc[u] /\ local'[u] = local[u]
        /\ pc' \in [Threads -> {"idle", "ask", "construct"}] /\ DOMAIN local' = Threads
    BY <1>1, <2>1 DEF OptionsType
  <2>3. /\ OptionsType' /\ IndexInv' /\ c \in users'[o]
        /\ \A p \in Opts : OptionInv(p)' /\ OneCall(p)'
        /\ \A u \in Threads \ {t} : CallInv(u)' /\ FetchInv(u)'
    BY <1>2, <2>2, EntersKeeps
  <2>4. CallInv(t)' /\ FetchInv(t)'
    BY <1>1, <2>1, <2>2, <2>3 DEF CallInv, FetchInv
  <2> QED
    BY <2>3, <2>4
<1>4. CASE GetsRefused(t, c, o)
  <2>1. UNCHANGED <<pc, local>>
    BY <1>4 DEF GetsRefused
  <2>2. /\ OptionsType' /\ IndexInv'
        /\ \A p \in Opts : OptionInv(p)' /\ OneCall(p)'
        /\ \A u \in Threads \ {t} : CallInv(u)' /\ FetchInv(u)'
    BY <1>1, <1>2, <2>1, EntersKeeps DEF OptionsType
  <2>3. CallInv(t)' /\ FetchInv(t)'
    BY <1>2, <2>1 DEF CallInv, FetchInv
  <2> QED
    BY <2>2, <2>3
<1>5. CASE GetsAsking(t, c, o)
  <2> DEFINE owner == OwnerOf(o)'
             call == [client |-> c, ops |-> o, index |-> apiKeyIndex[c], owner |-> owner,
                      floor |-> nextNonce[owner]]
  <2>1. /\ pc' = [pc EXCEPT ![t] = "ask"] /\ local' = [local EXCEPT ![t] = call]
    BY <1>5 DEF GetsAsking
  <2>2. /\ pc'[t] = "ask" /\ local'[t] = call
        /\ \A u \in Threads \ {t} : pc'[u] = pc[u] /\ local'[u] = local[u]
        /\ pc' \in [Threads -> {"idle", "ask", "construct"}] /\ DOMAIN local' = Threads
    BY <1>1, <2>1 DEF OptionsType
  <2>3. /\ OptionsType' /\ IndexInv' /\ c \in users'[o]
        /\ \A p \in Opts : OptionInv(p)' /\ OneCall(p)'
        /\ \A u \in Threads \ {t} : CallInv(u)' /\ FetchInv(u)'
    BY <1>2, <2>2, EntersKeeps
  <2>4. /\ opts'[o] \in Options /\ opts'[o].account # None /\ opts'[o].apiKey # None
        /\ opts'[o].apiKey \in Clients => opts'[o].apiKey \in users'[o]
    <3>1. given'[o] \in Fields /\ opts'[o] \in Options
      BY <2>3 DEF OptionsType
    <3>2. given'[o].apiKey \notin Clients
      BY <3>1, NoneAssumption DEF Fields
    <3> QED
      BY <2>3, <3>1, <3>2 DEF OptionInv
  <2>5. /\ owner = <<opts'[o].account, IF opts'[o].apiKey \in Clients
                                        THEN apiKeyIndex[opts'[o].apiKey] ELSE opts'[o].apiKey>>
    BY <1>2 DEF OwnerOf, Deref
  <2>6. owner \in Owners
    BY <1>1, <2>4, <2>5 DEF Owners, Options, OptionsType
  <2> HIDE DEF owner
  <2>7. /\ nextNonce[owner] \in Nat /\ nextNonce[owner] # None
    BY <1>1, <2>6, NoneAssumption DEF OptionsType
  <2>8. CallInv(t)'
    BY <1>1, <1>2, <2>2, <2>3, <2>6, <2>7 DEF CallInv
  <2>9. FetchInv(t)'
    BY <2>2, <2>4, <2>5 DEF FetchInv
  <2> QED
    BY <2>3, <2>8, <2>9
<1> QED
  BY <1>3, <1>4, <1>5 DEF Gets

LEMMA AnswerKeeps ==
  ASSUME OptionsInv, NEW t \in Threads, GetNextNonce(t)
  PROVE  OptionsInv'
<1> USE DEF OptionsInv
<1> DEFINE o == local[t].ops
           n == nextNonce[local[t].owner]
<1>1. /\ pc[t] = "ask" /\ opts' = [opts EXCEPT ![o].nonce = n]
      /\ pc' = [pc EXCEPT ![t] = "construct"]
      /\ UNCHANGED <<apiKeyIndex, local, nextNonce, given, users, shared, switched>>
  BY DEF GetNextNonce, history
<1>2. /\ o \in Opts /\ local[t].owner \in Owners /\ n \in Nat
      /\ local[t].floor # None /\ local[t].floor \in Nat /\ local[t].floor <= n
  BY <1>1 DEF CallInv, OptionsType
<1>3. n # None
  BY <1>2, NoneAssumption
<1> HIDE DEF o, n
<1>4. /\ opts[o] \in Options /\ opts'[o] = [opts[o] EXCEPT !.nonce = n]
      /\ \A p \in Opts : p # o => opts'[p] = opts[p]
  BY <1>1, <1>2 DEF OptionsType
<1>5. /\ opts'[o] \in Options /\ opts'[o].nonce = n
      /\ opts'[o].account = opts[o].account /\ opts'[o].apiKey = opts[o].apiKey
  BY <1>2, <1>4 DEF Options
<1>6. pc'[t] = "construct" /\ \A u \in Threads \ {t} : pc'[u] = pc[u]
  BY <1>1 DEF OptionsType
<1>7. OptionsType' /\ IndexInv'
  <2>1. opts' \in [Opts -> Options]
    BY <1>1, <1>4, <1>5 DEF OptionsType
  <2> QED
    BY <1>1, <2>1 DEF OptionsType, IndexInv
<1>8. ASSUME NEW p \in Opts PROVE OptionInv(p)'
  BY <1>1, <1>4, <1>5 DEF OptionInv
<1>9. ASSUME NEW p \in Opts PROVE OneCall(p)'
  BY <1>1, <1>6 DEF OneCall
<1>10. CallInv(t)' /\ FetchInv(t)'
  BY <1>1, <1>2, <1>3, <1>5, <1>6 DEF CallInv, FetchInv, o, n
<1>11. ASSUME NEW u \in Threads \ {t} PROVE CallInv(u)' /\ FetchInv(u)'
  <2> SUFFICES ASSUME pc[u] # "idle" PROVE CallInv(u)' /\ FetchInv(u)'
    BY <1>6 DEF CallInv, FetchInv
  <2>1. CallInv(u) /\ FetchInv(u) /\ local[u].ops \in Opts
    BY DEF CallInv
  <2>2. CASE local[u].ops = o
    <3>1. o \in shared
      BY <1>1, <1>2, <2>2 DEF OneCall, o
    <3> QED
      BY <1>1, <1>3, <1>5, <1>6, <2>1, <2>2, <3>1 DEF CallInv, FetchInv
  <2>3. CASE local[u].ops # o
    <3>1. opts'[local[u].ops] = opts[local[u].ops]
      BY <1>4, <2>1, <2>3
    <3> QED
      BY <1>1, <1>6, <2>1, <3>1 DEF CallInv, FetchInv
  <2> QED
    BY <2>2, <2>3
<1> QED
  BY <1>7, <1>8, <1>9, <1>10, <1>11

\* The end of a call, whatever it answers.
LEMMA ReturnKeeps ==
  ASSUME OptionsInv, NEW t \in Threads,
         pc' = [pc EXCEPT ![t] = "idle"], local' = [local EXCEPT ![t] = None],
         UNCHANGED <<apiKeyIndex, opts, nextNonce, history>>
  PROVE  OptionsInv'
<1> USE DEF OptionsInv, history
<1>1. pc'[t] = "idle" /\ \A u \in Threads \ {t} : pc'[u] = pc[u] /\ local'[u] = local[u]
  BY DEF OptionsType
<1>2. OptionsType' /\ IndexInv'
  BY DEF OptionsType, IndexInv
<1>3. \A o \in Opts : OptionInv(o)' /\ OneCall(o)'
  BY <1>1 DEF OptionInv, OneCall
<1>4. \A u \in Threads : CallInv(u)' /\ FetchInv(u)'
  BY <1>1 DEF CallInv, FetchInv
<1> QED
  BY <1>2, <1>3, <1>4

\* A transaction that is returned is signed for whom the invariant says.
LEMMA ConstructsKeeps ==
  ASSUME OptionsInv, NEW t \in Threads, Constructs(t)
  PROVE  OptionsInv' /\ SignsForNamedOrLinked' /\ NonceOfItsOwner'
<1> USE DEF OptionsInv
<1> DEFINE o == local[t].ops
           c == local[t].client
<1>1. OptionsInv' /\ pc[t] = "construct" /\ UNCHANGED <<apiKeyIndex, opts, nextNonce>>
  BY ReturnKeeps DEF Constructs
<1>2. /\ o \in Opts /\ c \in Clients /\ c \in users[o] /\ opts[o].nonce # None
      /\ local[t].floor # None => local[t].owner \in Owners /\ local[t].floor \in Nat
  BY <1>1 DEF CallInv
<1>3. /\ given[o] \in Fields /\ opts[o] \in Options /\ OptionInv(o)
      /\ given[o].apiKey \notin Clients
  BY <1>2, NoneAssumption DEF OptionsType, Fields
<1>4. /\ reply'.owner = OwnerOf(o) /\ reply'.nonce = opts[o].nonce /\ reply'.client = c
      /\ reply'.index = local[t].index /\ reply'.floor = local[t].floor
      /\ reply'.given = given[o] /\ reply'.users = users[o]
      /\ reply'.shared = (o \in shared) /\ reply'.switched = (c \in switched)
  BY DEF Constructs
<1>5. OwnerOf(o) = <<opts[o].account, Deref(opts[o].apiKey)>>
  BY DEF OwnerOf
<1>6. SignsForNamedOrLinked'
  <2> SUFFICES ASSUME users[o] = {c}, given[o].apiKey # None \/ c \notin switched
               PROVE  OwnerOf(o) =
                        <<IF given[o].account = None THEN Linked[c][1] ELSE given[o].account,
                          IF given[o].apiKey = None THEN Linked[c][2] ELSE given[o].apiKey>>
    BY <1>4 DEF SignsForNamedOrLinked
  <2>1. opts[o].account = IF given[o].account = None THEN Linked[c][1] ELSE given[o].account
    BY <1>3 DEF OptionInv
  <2>2. Deref(opts[o].apiKey) = IF given[o].apiKey = None THEN Linked[c][2] ELSE given[o].apiKey
    BY <1>2, <1>3 DEF OptionInv, Deref, IndexInv
  <2> QED
    BY <1>5, <2>1, <2>2
<1>7. NonceOfItsOwner'
  <2> SUFFICES ASSUME local[t].floor # None, users[o] = {c}, o \notin shared,
                      given[o].apiKey # None \/ local[t].index = apiKeyIndex[c]
               PROVE  /\ local[t].floor <= opts[o].nonce
                      /\ opts[o].nonce <= nextNonce[OwnerOf(o)]
    BY <1>1, <1>4 DEF NonceOfItsOwner
  <2>1. /\ local[t].owner = <<opts[o].account, IF opts[o].apiKey \in Clients
                                               THEN local[t].index ELSE opts[o].apiKey>>
        /\ local[t].floor <= opts[o].nonce /\ opts[o].nonce <= nextNonce[local[t].owner]
    BY <1>1 DEF FetchInv
  <2>2. Deref(opts[o].apiKey) = IF opts[o].apiKey \in Clients
                                THEN local[t].index ELSE opts[o].apiKey
    BY <1>3 DEF OptionInv, Deref
  <2> QED
    BY <1>5, <2>1, <2>2
<1> QED
  BY <1>1, <1>6, <1>7

LEMMA NextOptions == OptionsIInv /\ [Next]_vars => OptionsIInv'
<1> SUFFICES ASSUME OptionsIInv, [Next]_vars PROVE OptionsIInv'
  OBVIOUS
<1> USE DEF OptionsIInv
<1>1. ASSUME NEW o \in Opts, NEW f \in Templates, NewOptions(o, f) PROVE OptionsIInv'
  BY <1>1, NewOptionsKeeps, ReplySaysNothing DEF NewOptions
<1>2. ASSUME NEW c \in Clients, NEW k \in ApiKeys, SwitchAPIKey(c, k) PROVE OptionsIInv'
  BY <1>2, SwitchKeeps, ReplySaysNothing DEF SwitchAPIKey
<1>3. ASSUME NEW t \in Threads, NEW c \in Clients, NEW o \in Opts, Gets(t, c, o)
      PROVE  OptionsIInv'
  BY <1>3, GetsKeeps, ReplySaysNothing DEF Gets, GetsWithNonce, GetsRefused, GetsAsking
<1>4. ASSUME NEW t \in Threads, GetNextNonce(t) PROVE OptionsIInv'
  BY <1>4, AnswerKeeps, ReplySaysNothing DEF GetNextNonce
<1>5. ASSUME NEW t \in Threads, RequestFails(t) \/ ConstructionFails(t) PROVE OptionsIInv'
  BY <1>5, ReturnKeeps, ReplySaysNothing DEF RequestFails, ConstructionFails
<1>6. ASSUME NEW t \in Threads, Constructs(t) PROVE OptionsIInv'
  BY <1>6, ConstructsKeeps
<1>7. ASSUME NEW w \in Owners, Executes(w) PROVE OptionsIInv'
  <2>1. /\ nextNonce' \in [Owners -> Nat] /\ \A v \in Owners : nextNonce[v] <= nextNonce'[v]
    BY <1>7, BumpIsLater DEF Executes, OptionsInv, OptionsType
  <2> QED
    BY <1>7, <2>1, Elsewhere, ReplySaysNothing DEF Executes
<1>8. CASE UNCHANGED vars
  <2>1. /\ nextNonce' \in [Owners -> Nat] /\ \A v \in Owners : nextNonce[v] <= nextNonce'[v]
    BY <1>8 DEF vars, OptionsInv, OptionsType
  <2>2. OptionsInv'
    BY <1>8, <2>1, Elsewhere DEF vars
  <2> QED
    BY <1>8, <2>2 DEF vars, SignsForNamedOrLinked, NonceOfItsOwner, Signed
<1> QED
  BY <1>1, <1>2, <1>3, <1>4, <1>5, <1>6, <1>7, <1>8 DEF Next

\* The inductive invariant of the options: what they hold of the caller and of
\* the clients that used them, and what every call under way holds.
THEOREM OptionsInductive == Spec => []OptionsIInv
BY InitOptions, NextOptions, PTL DEF Spec

-----------------------------------------------------------------------------
(* Results about the options *)

LEMMA OptionsAreTyped == OptionsInv => TypeOK
<1> SUFFICES ASSUME OptionsInv PROVE TypeOK
  OBVIOUS
<1> USE DEF OptionsInv
<1>1. ASSUME NEW t \in Threads, pc[t] = "construct"
      PROVE  OwnerOf(local[t].ops) \in Owners /\ opts[local[t].ops].nonce # None
  <2> DEFINE o == local[t].ops
  <2>1. o \in Opts /\ users[o] # {} /\ opts[o].nonce # None
    BY <1>1 DEF CallInv
  <2>2. opts[o] \in Options /\ opts[o].account # None /\ opts[o].apiKey # None
    BY <2>1 DEF OptionInv, OptionsType
  <2>3. opts[o].account \in Accounts /\ Deref(opts[o].apiKey) \in ApiKeys
    BY <2>2 DEF Options, OptionsType, Deref
  <2> QED
    BY <2>1, <2>3 DEF OwnerOf, Owners
<1>2. ASSUME NEW t \in Threads, pc[t] = "ask" PROVE local[t].owner \in Owners
  BY <1>2 DEF CallInv
<1> QED
  BY <1>1, <1>2 DEF TypeOK, OptionsType, Options

\* Every variable keeps its type; a transaction is constructed only for a pair of
\* an account and an API key, with a nonce.
THEOREM OptionsTypeCorrect == Spec => []TypeOK
BY OptionsInductive, OptionsAreTyped, PTL DEF OptionsIInv

\* Options that one client has used sign for whom the caller named, and otherwise
\* for whom the client is linked to, for any number of goroutines, calls that
\* failed before, and clients.
THEOREM SignsForTheRightOwner == Spec => []SignsForNamedOrLinked
BY OptionsInductive, PTL DEF OptionsIInv

\* A nonce that a call fetched is one that the exchange expected during the call
\* from the owner for whom the transaction is signed.
THEOREM NonceIsOfItsOwner == Spec => []NonceOfItsOwner
BY OptionsInductive, PTL DEF OptionsIInv

-----------------------------------------------------------------------------
(* The invariant of the requests *)

Payloads == [owner : Owners, nonce : Int, client : Clients, session : 0 .. MaxSessions,
             ops : Opts \cup {None}, twins : SUBSET Requests]

RequestsType ==
  /\ phase \in {"seeking", "dialed", "serving"}
  /\ open \in BOOLEAN /\ session \in 0 .. MaxSessions
  /\ stage \in [Requests -> {"unused", "held", "checked", "written", "returned", "failed"}]
  /\ place \in [Requests -> {"nowhere", "sent", "answer", "handling", "answered", "lost"}]
  /\ DOMAIN payload = Requests /\ executed \subseteq Requests

\* A request that is not yet written is nowhere; one that was signed has its
\* transaction, and its twins are other requests with the same nonce and key.
RequestInv(r) ==
  /\ stage[r] \in {"unused", "held", "checked"} => place[r] = "nowhere"
  /\ stage[r] # "unused" =>
       /\ payload[r] \in Payloads /\ payload[r].session <= session
       /\ \A q \in payload[r].twins : /\ q # r /\ stage[q] # "unused"
                                      /\ payload[q].nonce = payload[r].nonce
                                      /\ payload[q].client = payload[r].client

\* What the exchange has executed was signed by its owner's key, and the owner's
\* next nonce is a later one.
ExecutedInv(r) ==
  r \in executed =>
    /\ stage[r] # "unused" /\ Linked[payload[r].client] = payload[r].owner
    /\ payload[r].nonce < nextNonce[payload[r].owner]

\* Options that were never shared keep the nonce of what was signed with them:
\* nobody asks for another.
KeptNonce(r) ==
  (stage[r] # "unused" /\ payload[r].ops \in Opts \ shared) =>
    /\ opts[payload[r].ops].nonce = payload[r].nonce
    /\ \A t \in Threads :
         pc[t] # "idle" /\ local[t].ops = payload[r].ops => pc[t] = "construct"

RequestsIInv ==
  /\ OptionsInv /\ RequestsType
  /\ \A r \in Requests : RequestInv(r) /\ ExecutedInv(r) /\ KeptNonce(r)
  /\ ExecutedOnce
-----------------------------------------------------------------------------
(* Steps of the requests *)

LEMMA InitRequests == ReqInit => RequestsIInv
<1> SUFFICES ASSUME ReqInit PROVE RequestsIInv
  OBVIOUS
<1>1. OptionsInv
  BY InitOptions DEF ReqInit, OptionsIInv
<1>2. RequestsType
  <2>1. 0 \in 0 .. MaxSessions
    BY SessionAssumption
  <2>2. /\ stage \in [Requests -> {"unused", "held", "checked", "written", "returned", "failed"}]
        /\ place \in [Requests -> {"nowhere", "sent", "answer", "handling", "answered", "lost"}]
    BY DEF ReqInit
  <2> QED
    BY <2>1, <2>2 DEF ReqInit, RequestsType
<1> QED
  BY <1>1, <1>2 DEF ReqInit, RequestsIInv, RequestInv, ExecutedInv, KeptNonce, ExecutedOnce

\* A step of the connection, of SendTransaction or of an answer: it signs nothing,
\* executes nothing and, of the transactions, changes at most the session.
LEMMA OnTheWay ==
  ASSUME RequestsIInv, RequestsType', session <= session',
         UNCHANGED <<apiKeyIndex, opts, calls, nextNonce, history, executed>>,
         \A r \in Requests :
           /\ stage'[r] = "unused" <=> stage[r] = "unused"
           /\ stage'[r] \in {"unused", "held", "checked"} => place'[r] = "nowhere",
         payload' = payload \/
           \E q \in Requests : payload' = [payload EXCEPT ![q].session = session]
  PROVE  RequestsIInv'
<1> USE DEF RequestsIInv
<1>1. OptionsInv'
  BY Elsewhere DEF OptionsInv, OptionsType
<1>2. ASSUME NEW r \in Requests, stage[r] # "unused"
      PROVE  /\ payload'[r] \in Payloads /\ payload'[r].session <= session'
             /\ payload'[r].owner = payload[r].owner /\ payload'[r].nonce = payload[r].nonce
             /\ payload'[r].client = payload[r].client /\ payload'[r].ops = payload[r].ops
             /\ payload'[r].twins = payload[r].twins
  <2>1. payload[r] \in Payloads /\ payload[r].session <= session /\ session \in 0 .. MaxSessions
    BY <1>2 DEF RequestInv, RequestsType
  <2>2. payload'[r] = payload[r] \/ payload'[r] = [payload[r] EXCEPT !.session = session]
    BY DEF RequestsType
  <2>3. /\ session' \in 0 .. MaxSessions /\ session \in Nat /\ session' \in Nat
        /\ payload[r].session \in Nat
    BY <2>1, SessionAssumption DEF RequestsType, Payloads
  <2>4. CASE payload'[r] = payload[r]
    BY <2>1, <2>3, <2>4
  <2>5. CASE payload'[r] = [payload[r] EXCEPT !.session = session]
    BY <2>1, <2>3, <2>5 DEF Payloads
  <2> QED
    BY <2>2, <2>4, <2>5
<1>3. ASSUME NEW r \in Requests PROVE RequestInv(r)'
  <2>1. stage[r] # "unused" => payload[r].twins \subseteq Requests
    BY DEF RequestInv, Payloads
  <2> QED
    BY <1>2, <2>1 DEF RequestInv
<1>4. ASSUME NEW r \in Requests PROVE ExecutedInv(r)' /\ KeptNonce(r)'
  BY <1>2 DEF ExecutedInv, KeptNonce, calls, history
<1>5. ExecutedOnce'
  BY <1>2 DEF ExecutedOnce, ExecutedInv, RequestsType
<1> QED
  BY <1>1, <1>3, <1>4, <1>5

LEMMA TakesKeeps ==
  ASSUME RequestsIInv, NEW r \in Requests, Takes(r)
  PROVE  RequestsIInv'
<1> USE DEF RequestsIInv
<1>1. /\ place[r] = "sent"
      /\ place' = [place EXCEPT ![r] = IF Reachable(r) THEN "answer" ELSE "lost"]
      /\ UNCHANGED <<apiKeyIndex, opts, calls, history, connection, stage, payload>>
  BY DEF Takes
<1>2. /\ stage[r] \notin {"unused", "held", "checked"} /\ payload[r] \in Payloads
      /\ payload[r].owner \in Owners /\ payload[r].nonce \in Int
  BY <1>1 DEF RequestInv, Payloads
<1>3. nextNonce \in [Owners -> Nat]
  BY DEF OptionsInv, OptionsType
<1>4. RequestsType'
  BY <1>1 DEF Takes, RequestsType, connection
<1>5. ASSUME NEW q \in Requests PROVE RequestInv(q)' /\ KeptNonce(q)'
  BY <1>1, <1>2 DEF RequestInv, KeptNonce, connection, calls, history, RequestsType
<1>6. CASE ~Accepts(r)
  <2>1. UNCHANGED <<nextNonce, executed>>
    BY <1>6 DEF Takes
  <2>2. OptionsInv'
    BY <1>1, <1>3, <2>1, Elsewhere
  <2> QED
    BY <1>1, <1>4, <1>5, <2>1, <2>2 DEF ExecutedInv, ExecutedOnce
<1>7. CASE Accepts(r)
  <2> DEFINE w == payload[r].owner
  <2>1. /\ Linked[payload[r].client] = w /\ payload[r].nonce = nextNonce[w]
        /\ nextNonce' = [nextNonce EXCEPT ![w] = @ + 1] /\ executed' = executed \cup {r}
    BY <1>7 DEF Takes, Accepts
  <2>2. /\ nextNonce' \in [Owners -> Nat] /\ nextNonce'[w] = nextNonce[w] + 1
        /\ \A v \in Owners : nextNonce[v] <= nextNonce'[v]
    BY <1>2, <1>3, <2>1, BumpIsLater
  <2>3. OptionsInv'
    BY <1>1, <2>2, Elsewhere
  <2>4. ASSUME NEW q \in Requests PROVE ExecutedInv(q)'
    <3>1. CASE q = r
      BY <1>1, <1>2, <1>3, <2>1, <2>2, <3>1 DEF ExecutedInv
    <3>2. CASE q # r /\ q \in executed
      <4>1. /\ stage[q] # "unused" /\ payload[q].owner \in Owners /\ payload[q].nonce \in Int
            /\ Linked[payload[q].client] = payload[q].owner
            /\ payload[q].nonce < nextNonce[payload[q].owner]
        BY <3>2 DEF ExecutedInv, RequestInv, Payloads
      <4> QED
        BY <1>1, <1>3, <2>2, <4>1 DEF ExecutedInv
    <3>3. CASE q # r /\ q \notin executed
      BY <2>1, <3>3 DEF ExecutedInv
    <3> QED
      BY <3>1, <3>2, <3>3
  <2>5. ASSUME NEW q \in executed
        PROVE  ~(payload[q].nonce = payload[r].nonce /\ payload[q].client = payload[r].client)
    <3>1. /\ q \in Requests /\ Linked[payload[q].client] = payload[q].owner
          /\ payload[q].nonce < nextNonce[payload[q].owner] /\ payload[q].nonce \in Int
      BY DEF ExecutedInv, RequestInv, RequestsType, Payloads
    <3> QED
      BY <1>2, <1>3, <2>1, <3>1
  <2>6. ExecutedOnce'
    <3> SUFFICES ASSUME NEW p \in executed \cup {r}, NEW q \in executed \cup {r},
                        q \in payload[p].twins
                 PROVE  FALSE
      BY <1>1, <2>1 DEF ExecutedOnce
    <3>1. p \in Requests /\ stage[p] # "unused"
      BY <1>2 DEF ExecutedInv, RequestsType
    <3>2. /\ q # p /\ payload[q].nonce = payload[p].nonce /\ payload[q].client = payload[p].client
      BY <3>1 DEF RequestInv
    <3>3. CASE p \in executed /\ q \in executed
      BY <3>3 DEF ExecutedOnce
    <3>4. CASE p = r \/ q = r
      BY <2>5, <3>2, <3>4
    <3> QED
      BY <3>3, <3>4
  <2> QED
    BY <1>4, <1>5, <2>3, <2>4, <2>6
<1> QED
  BY <1>6, <1>7

LEMMA KeepsKeeps ==
  ASSUME RequestsIInv, Unused # {}, NEW t \in Threads, Keeps(t)
  PROVE  RequestsIInv'
<1> USE DEF RequestsIInv
<1> DEFINE o == local[t].ops
           c == local[t].client
           new == CHOOSE q \in Unused : TRUE
           older == IF o \in shared THEN {}
                    ELSE {q \in Requests : /\ stage[q] # "unused" /\ payload[q].ops = o
                                          /\ payload[q].client = c}
           tx == [owner |-> OwnerOf(o), nonce |-> opts[o].nonce, client |-> c,
                  session |-> 0, ops |-> o, twins |-> older]
<1>1. /\ Constructs(t) /\ pc[t] = "construct"
      /\ stage' = [stage EXCEPT ![new] = "held"] /\ payload' = [payload EXCEPT ![new] = tx]
      /\ UNCHANGED <<apiKeyIndex, opts, nextNonce, history, connection, place, executed>>
      /\ pc' = [pc EXCEPT ![t] = "idle"] /\ local' = [local EXCEPT ![t] = None]
  BY DEF Keeps, Constructs
<1>2. new \in Requests /\ stage[new] = "unused"
  BY DEF Unused
<1>3. /\ o \in Opts /\ c \in Clients /\ OwnerOf(o) \in Owners /\ opts[o].nonce \in Int
  <2>1. OwnerOf(o) \in Owners /\ opts[o].nonce # None
    BY <1>1, OptionsAreTyped DEF TypeOK
  <2>2. o \in Opts /\ c \in Clients
    BY <1>1 DEF OptionsInv, CallInv
  <2> QED
    BY <2>1, <2>2 DEF OptionsInv, OptionsType, Options
<1>4. tx \in Payloads
  BY <1>3, SessionAssumption DEF Payloads
<1>5. tx.owner = OwnerOf(o) /\ tx.nonce = opts[o].nonce /\ tx.client = c /\ tx.ops = o
      /\ tx.twins = older /\ tx.session = 0
  OBVIOUS
<1>6. older \subseteq Requests /\ new \notin older
  BY <1>2
<1>7. o \notin shared =>
        \A q \in older : stage[q] # "unused" /\ payload[q].nonce = opts[o].nonce /\ payload[q].client = c
  BY <1>3 DEF KeptNonce
<1>8. o \in shared => older = {}
  OBVIOUS
<1>9. o \notin shared => \A u \in Threads \ {t} : pc[u] # "idle" => local[u].ops # o
  BY <1>1, <1>3 DEF OptionsInv, OneCall
<1> HIDE DEF older, tx, new, o, c
<1>10. /\ payload'[new] = tx /\ stage'[new] = "held"
       /\ \A q \in Requests \ {new} : payload'[q] = payload[q] /\ stage'[q] = stage[q]
  BY <1>1, <1>2 DEF RequestsType
<1>11. OptionsInv' /\ RequestsType'
  <2>1. OptionsInv'
    BY <1>1, ConstructsKeeps
  <2> QED
    BY <1>1, <2>1 DEF RequestsType, connection
<1>12. ASSUME NEW r \in Requests PROVE RequestInv(r)'
  <2>1. CASE r = new
    <3>1. /\ place'[r] = "nowhere" /\ payload'[r] = tx /\ session' = session /\ 0 <= session
      BY <1>1, <1>2, <1>10, <2>1 DEF RequestInv, RequestsType, connection
    <3>2. \A q \in older : /\ q # r /\ stage'[q] # "unused" /\ payload'[q].nonce = tx.nonce
                          /\ payload'[q].client = tx.client
      BY <1>5, <1>6, <1>7, <1>8, <1>10, <2>1
    <3> QED
      BY <1>4, <1>5, <3>1, <3>2 DEF RequestInv
  <2>2. CASE r # new
    <3>1. /\ stage'[r] = stage[r] /\ payload'[r] = payload[r] /\ UNCHANGED <<place, session>>
      BY <1>1, <1>10, <2>2 DEF connection
    <3>2. ASSUME stage[r] # "unused", NEW q \in payload[r].twins
          PROVE  /\ q # r /\ stage'[q] # "unused"
                 /\ payload'[q].nonce = payload[r].nonce /\ payload'[q].client = payload[r].client
      <4>1. q \in Requests \ {new}
        BY <1>2, <3>2 DEF RequestInv, Payloads
      <4> QED
        BY <1>10, <3>2, <4>1 DEF RequestInv
    <3> QED
      BY <3>1, <3>2 DEF RequestInv
  <2> QED
    BY <2>1, <2>2
<1>13. ASSUME NEW r \in Requests PROVE ExecutedInv(r)'
  <2>1. r \in executed => r # new
    BY <1>2 DEF ExecutedInv
  <2> QED
    BY <1>1, <1>10, <2>1 DEF ExecutedInv
<1>14. ASSUME NEW r \in Requests PROVE KeptNonce(r)'
  <2>1. pc'[t] = "idle" /\ \A u \in Threads \ {t} : pc'[u] = pc[u] /\ local'[u] = local[u]
    BY <1>1 DEF OptionsInv, OptionsType
  <2>2. CASE r = new
    BY <1>1, <1>5, <1>9, <1>10, <2>1, <2>2 DEF KeptNonce, history
  <2>3. CASE r # new
    BY <1>1, <1>10, <2>1, <2>3 DEF KeptNonce, history
  <2> QED
    BY <2>2, <2>3
<1>15. ExecutedOnce'
  <2>1. \A r \in executed : r \in Requests /\ r # new
    BY <1>2 DEF ExecutedInv, RequestsType
  <2> QED
    BY <1>1, <1>10, <2>1 DEF ExecutedOnce
<1> QED
  BY <1>11, <1>12, <1>13, <1>14, <1>15

LEMMA ReplacesKeeps ==
  ASSUME RequestsIInv, NEW o \in Opts, NEW f \in Templates, Replaces(o, f)
  PROVE  RequestsIInv'
<1> USE DEF RequestsIInv
<1>1. /\ NewOptions(o, f) /\ Using(o) = {}
      /\ opts' = [opts EXCEPT ![o] = f] /\ shared' = shared \ {o}
      /\ UNCHANGED <<pc, local, nextNonce, connection, stage, place, executed>>
  BY DEF Replaces, NewOptions, calls
<1>2. OptionsInv' /\ RequestsType'
  <2>1. OptionsInv' /\ DOMAIN payload' = Requests
    BY <1>1, NewOptionsKeeps DEF Replaces
  <2> QED
    BY <1>1, <2>1 DEF RequestsType, connection
<1>3. ASSUME NEW r \in Requests, stage[r] # "unused"
      PROVE  /\ payload'[r] \in Payloads /\ payload'[r].session = payload[r].session
             /\ payload'[r].owner = payload[r].owner /\ payload'[r].nonce = payload[r].nonce
             /\ payload'[r].client = payload[r].client
             /\ payload'[r].twins = payload[r].twins
             /\ payload'[r].ops = IF payload[r].ops = o THEN None ELSE payload[r].ops
  <2>1. payload[r] \in Payloads
    BY <1>3 DEF RequestInv
  <2>2. payload'[r] = IF payload[r].ops = o THEN [payload[r] EXCEPT !.ops = None] ELSE payload[r]
    BY <1>3 DEF Replaces
  <2>3. CASE payload[r].ops = o
    BY <2>1, <2>2, <2>3 DEF Payloads
  <2>4. CASE payload[r].ops # o
    BY <2>1, <2>2, <2>4
  <2> QED
    BY <2>3, <2>4
<1>4. ASSUME NEW r \in Requests PROVE RequestInv(r)'
  <2>1. stage[r] # "unused" => payload[r].twins \subseteq Requests
    BY DEF RequestInv, Payloads
  <2> QED
    BY <1>1, <1>3, <2>1 DEF RequestInv, connection
<1>5. ASSUME NEW r \in Requests PROVE ExecutedInv(r)'
  BY <1>1, <1>3 DEF ExecutedInv
<1>6. ASSUME NEW r \in Requests PROVE KeptNonce(r)'
  <2> SUFFICES ASSUME stage[r] # "unused", payload'[r].ops \in Opts \ shared'
               PROVE  /\ opts'[payload'[r].ops].nonce = payload'[r].nonce
                      /\ \A t \in Threads : pc[t] # "idle" /\ local[t].ops = payload'[r].ops
                                             => pc[t] = "construct"
    BY <1>1 DEF KeptNonce
  <2>1. payload[r].ops # o /\ payload'[r].ops = payload[r].ops
    BY <1>3, NoneAssumption
  <2>2. opts'[payload[r].ops] = opts[payload[r].ops] /\ payload[r].ops \in Opts \ shared
    BY <1>1, <2>1 DEF OptionsInv, OptionsType
  <2> QED
    BY <1>3, <2>1, <2>2 DEF KeptNonce
<1>7. ExecutedOnce'
  BY <1>1, <1>3 DEF ExecutedOnce, ExecutedInv, RequestsType
<1> QED
  BY <1>2, <1>4, <1>5, <1>6, <1>7

\* A step of the options or of the exchange that signs nothing and leaves the
\* nonces of options alone that are not shared.
LEMMA BesideRequests ==
  ASSUME RequestsIInv, OptionsInv', UNCHANGED <<connection, traffic>>,
         \A w \in Owners : nextNonce[w] <= nextNonce'[w],
         \A r \in Requests : KeptNonce(r)'
  PROVE  RequestsIInv'
<1> USE DEF RequestsIInv, connection, traffic
<1>1. RequestsType' /\ ExecutedOnce'
  BY DEF RequestsType, ExecutedOnce
<1>2. ASSUME NEW r \in Requests PROVE RequestInv(r)'
  BY DEF RequestInv
<1>3. ASSUME NEW r \in Requests PROVE ExecutedInv(r)'
  <2> SUFFICES ASSUME r \in executed PROVE payload[r].nonce < nextNonce'[payload[r].owner]
    BY DEF ExecutedInv
  <2>1. /\ payload[r].owner \in Owners /\ payload[r].nonce \in Int
        /\ payload[r].nonce < nextNonce[payload[r].owner]
    BY DEF ExecutedInv, RequestInv, Payloads
  <2> QED
    BY <2>1 DEF OptionsInv, OptionsType
<1> QED
  BY <1>1, <1>2, <1>3

LEMMA GetsKeepsNonce ==
  ASSUME RequestsIInv, NEW t \in Threads, NEW c \in Clients, NEW o \in Opts, Gets(t, c, o),
         UNCHANGED <<connection, traffic>>, NEW r \in Requests
  PROVE  KeptNonce(r)'
<1> USE DEF RequestsIInv, traffic
<1> DEFINE p == payload[r].ops
<1> SUFFICES ASSUME stage[r] # "unused", p \in Opts \ shared'
             PROVE  /\ opts'[p].nonce = payload[r].nonce
                    /\ \A u \in Threads : pc'[u] # "idle" /\ local'[u].ops = p => pc'[u] = "construct"
  BY DEF KeptNonce
<1>1. /\ opts' = [opts EXCEPT ![o] = Filled(@, c)] /\ shared \subseteq shared'
      /\ \/ pc' = [pc EXCEPT ![t] = "construct"] /\ \E call : local' = [local EXCEPT ![t] = call]
         \/ UNCHANGED <<pc, local>>
         \/ /\ opts'[o].nonce = None
            /\ pc' = [pc EXCEPT ![t] = "ask"]
            /\ \E call : call.ops = o /\ local' = [local EXCEPT ![t] = call]
  BY DEF Gets, GetsWithNonce, GetsRefused, GetsAsking, Enters
<1>2. p \notin shared /\ opts[p].nonce = payload[r].nonce
  BY <1>1 DEF KeptNonce
<1>3. payload[r].nonce \in Int /\ payload[r].nonce # None
  BY NoneAssumption DEF RequestInv, Payloads
<1>4. opts'[p].nonce = opts[p].nonce
  BY <1>1, FilledIs DEF OptionsInv, OptionsType
<1>5. \A u \in Threads : pc[u] # "idle" /\ local[u].ops = p => pc[u] = "construct"
  BY <1>2 DEF KeptNonce
<1>6. ASSUME NEW u \in Threads, pc'[u] # "idle", local'[u].ops = p PROVE pc'[u] = "construct"
  BY <1>1, <1>2, <1>3, <1>4, <1>5, <1>6 DEF OptionsInv, OptionsType
<1> QED
  BY <1>2, <1>4, <1>6

LEMMA AnswerKeepsNonce ==
  ASSUME RequestsIInv, NEW t \in Threads, GetNextNonce(t),
         UNCHANGED <<connection, traffic>>, NEW r \in Requests
  PROVE  KeptNonce(r)'
<1> USE DEF RequestsIInv, traffic
<1> DEFINE p == payload[r].ops
<1>1. /\ pc[t] = "ask" /\ pc' = [pc EXCEPT ![t] = "construct"] /\ UNCHANGED <<local, shared>>
      /\ opts' = [opts EXCEPT ![local[t].ops].nonce = nextNonce[local[t].owner]]
  BY DEF GetNextNonce, history
<1> SUFFICES ASSUME stage[r] # "unused", p \in Opts \ shared
             PROVE  /\ opts'[p].nonce = payload[r].nonce
                    /\ \A u \in Threads : pc'[u] # "idle" /\ local'[u].ops = p => pc'[u] = "construct"
  BY <1>1 DEF KeptNonce
<1>2. local[t].ops # p
  BY <1>1 DEF KeptNonce
<1>3. opts'[p] = opts[p]
  BY <1>1, <1>2 DEF OptionsInv, OptionsType
<1> QED
  BY <1>1, <1>3 DEF KeptNonce, OptionsInv, OptionsType

LEMMA NextRequests == RequestsIInv /\ [ReqNext]_reqVars => RequestsIInv'
<1> SUFFICES ASSUME RequestsIInv, [ReqNext]_reqVars PROVE RequestsIInv'
  OBVIOUS
<1> USE DEF RequestsIInv
<1>1. /\ OptionsInv /\ RequestsType /\ SessionAssumption /\ session \in Int
      /\ nextNonce \in [Owners -> Nat] /\ \A w \in Owners : nextNonce[w] <= nextNonce[w]
  BY SessionAssumption DEF OptionsInv, OptionsType, RequestsType
<1>2. CASE Dials \/ Publishes
  <2>1. RequestsType' /\ session <= session'
    <3>1. CASE Dials
      BY <1>1, <3>1, SessionAssumption DEF Dials, RequestsType, traffic
    <3>2. CASE Publishes
      BY <1>1, <3>2 DEF Publishes, RequestsType, traffic
    <3> QED
      BY <1>2, <3>1, <3>2
  <2> QED
    BY <1>2, <2>1, OnTheWay DEF Dials, Publishes, traffic, RequestInv
<1>3. CASE Breaks
  <2>1. RequestsType' /\ session <= session'
    <3>1. open' = FALSE /\ UNCHANGED <<phase, session, stage, place, payload, executed>>
      BY <1>3 DEF Breaks, traffic
    <3>2. phase' \in {"seeking", "dialed", "serving"} /\ open' \in BOOLEAN
      BY <3>1, Zenon DEF RequestsType
    <3>3. session' = session /\ session <= session'
      BY <1>1, <3>1
    <3> QED
      BY <3>1, <3>2, <3>3 DEF RequestsType
  <2> QED
    BY <1>3, <2>1, OnTheWay DEF Breaks, traffic, RequestInv
<1>4. CASE ReadFails
  <2>1. RequestsType' /\ session <= session'
    <3>1. /\ place' \in [Requests -> {"nowhere", "sent", "answer", "handling", "answered", "lost"}]
          /\ phase' = "seeking" /\ UNCHANGED <<session, open, stage, payload, executed>>
      BY <1>1, <1>4 DEF ReadFails, RequestsType
    <3>2. phase' \in {"seeking", "dialed", "serving"} /\ open' \in BOOLEAN
      BY <3>1, Zenon DEF RequestsType
    <3>3. session' = session /\ session <= session'
      BY <1>1, <3>1
    <3> QED
      BY <3>1, <3>2, <3>3 DEF RequestsType
  <2>2. \A q \in Requests : stage[q] \in {"unused", "held", "checked"} => place'[q] = "nowhere"
    BY <1>4 DEF ReadFails, RequestInv
  <2> QED
    BY <1>4, <2>1, <2>2, OnTheWay DEF ReadFails
<1>5. ASSUME NEW r \in Requests, Checks(r) PROVE RequestsIInv'
  <2>1. RequestsType' /\ session <= session'
    BY <1>1, <1>5 DEF Checks, RequestsType, connection
  <2>2. \A q \in Requests : /\ stage'[q] = "unused" <=> stage[q] = "unused"
                            /\ stage'[q] \in {"unused", "held", "checked"} => place'[q] = "nowhere"
    BY <1>5 DEF Checks, RequestsType, RequestInv
  <2> QED
    BY <1>5, <2>1, <2>2, OnTheWay DEF Checks
<1>6. ASSUME NEW r \in Requests, NEW result \in {"written", "failed"}, NEW where \in {"sent", "lost"},
             WritesOn(r, result, where)
      PROVE  RequestsIInv'
  <2>1. RequestsType' /\ session <= session'
    BY <1>1, <1>6 DEF WritesOn, RequestsType, connection
  <2>2. \A q \in Requests : /\ stage'[q] = "unused" <=> stage[q] = "unused"
                            /\ stage'[q] \in {"unused", "held", "checked"} => place'[q] = "nowhere"
    BY <1>6 DEF WritesOn, RequestsType, RequestInv
  <2> QED
    BY <1>6, <2>1, <2>2, OnTheWay DEF WritesOn
<1>7. ASSUME NEW r \in Requests, Returns(r) PROVE RequestsIInv'
  <2>1. RequestsType' /\ session <= session'
    BY <1>1, <1>7 DEF Returns, RequestsType, connection
  <2>2. \A q \in Requests : /\ stage'[q] = "unused" <=> stage[q] = "unused"
                            /\ stage'[q] \in {"unused", "held", "checked"} => place'[q] = "nowhere"
    BY <1>7 DEF Returns, RequestsType, RequestInv
  <2> QED
    BY <1>7, <2>1, <2>2, OnTheWay DEF Returns
<1>8. ASSUME NEW r \in Requests, Takes(r) PROVE RequestsIInv'
  BY <1>8, TakesKeeps
<1>9. ASSUME NEW r \in Requests, NEW from \in {"sent", "answer", "handling"},
             NEW to \in {"handling", "answered", "lost"}, MovesOn(r, from, to)
      PROVE  RequestsIInv'
  <2>1. RequestsType' /\ session <= session'
    BY <1>1, <1>9 DEF MovesOn, RequestsType, connection
  <2>2. \A q \in Requests : /\ stage'[q] = "unused" <=> stage[q] = "unused"
                            /\ stage'[q] \in {"unused", "held", "checked"} => place'[q] = "nowhere"
    BY <1>9 DEF MovesOn, RequestsType, RequestInv
  <2> QED
    BY <1>9, <2>1, <2>2, OnTheWay DEF MovesOn
<1>10. ASSUME NEW r \in Requests, Writes(r) \/ Drops(r) \/ Reads(r) \/ Handles(r)
       PROVE  RequestsIInv'
  <2>1. CASE Writes(r)
    BY <1>6, <2>1 DEF Writes
  <2>2. CASE Drops(r)
    <3>1. MovesOn(r, place[r], "lost") /\ place[r] \in {"sent", "answer"}
      BY <2>2 DEF Drops, MovesOn
    <3> QED
      BY <1>9, <3>1
  <2>3. CASE Reads(r) \/ Handles(r)
    BY <1>9, <2>3 DEF Reads, Handles
  <2> QED
    BY <1>10, <2>1, <2>2, <2>3
<1>11. ASSUME Unused # {}, NEW t \in Threads, Keeps(t) PROVE RequestsIInv'
  BY <1>11, KeepsKeeps
<1>12. ASSUME NEW o \in Opts, NEW f \in Templates, Replaces(o, f) PROVE RequestsIInv'
  BY <1>12, ReplacesKeeps
<1>13. ASSUME UNCHANGED <<connection, traffic>>, NEW c \in Clients, NEW k \in ApiKeys,
              SwitchAPIKey(c, k)
       PROVE  RequestsIInv'
  <2>1. OptionsInv' /\ UNCHANGED <<opts, pc, local, nextNonce, shared>>
    BY <1>13, SwitchKeeps DEF SwitchAPIKey, calls
  <2>2. \A r \in Requests : KeptNonce(r)'
    BY <1>13, <2>1 DEF KeptNonce, traffic
  <2> QED
    BY <1>1, <1>13, <2>1, <2>2, BesideRequests
<1>14. ASSUME UNCHANGED <<connection, traffic>>, NEW t \in Threads, NEW c \in Clients,
              NEW o \in Opts, Gets(t, c, o)
       PROVE  RequestsIInv'
  <2>1. OptionsInv' /\ UNCHANGED nextNonce
    BY <1>14, GetsKeeps DEF Gets, GetsWithNonce, GetsRefused, GetsAsking, Enters
  <2>2. \A r \in Requests : KeptNonce(r)'
    BY <1>14, GetsKeepsNonce
  <2> QED
    BY <1>1, <1>14, <2>1, <2>2, BesideRequests
<1>15. ASSUME UNCHANGED <<connection, traffic>>, NEW t \in Threads, GetNextNonce(t)
       PROVE  RequestsIInv'
  <2>1. OptionsInv' /\ UNCHANGED nextNonce
    BY <1>15, AnswerKeeps DEF GetNextNonce
  <2>2. \A r \in Requests : KeptNonce(r)'
    BY <1>15, AnswerKeepsNonce
  <2> QED
    BY <1>1, <1>15, <2>1, <2>2, BesideRequests
<1>16. ASSUME UNCHANGED <<connection, traffic>>, NEW t \in Threads,
              RequestFails(t) \/ ConstructionFails(t)
       PROVE  RequestsIInv'
  <2>1. /\ OptionsInv' /\ UNCHANGED <<opts, nextNonce, shared>>
        /\ pc' = [pc EXCEPT ![t] = "idle"] /\ local' = [local EXCEPT ![t] = None]
    BY <1>16, ReturnKeeps DEF RequestFails, ConstructionFails, history
  <2>2. \A u \in Threads : pc'[u] # "idle" => pc'[u] = pc[u] /\ local'[u] = local[u]
    BY <2>1 DEF OptionsInv, OptionsType
  <2>3. \A r \in Requests : KeptNonce(r)'
    BY <1>16, <2>1, <2>2 DEF KeptNonce, traffic
  <2> QED
    BY <1>1, <1>16, <2>1, <2>3, BesideRequests
<1>17. ASSUME UNCHANGED <<connection, traffic>>, NEW w \in Owners, Executes(w)
       PROVE  RequestsIInv'
  <2>1. /\ nextNonce' \in [Owners -> Nat] /\ \A v \in Owners : nextNonce[v] <= nextNonce'[v]
        /\ UNCHANGED <<apiKeyIndex, opts, calls, history>>
    BY <1>1, <1>17, BumpIsLater DEF Executes
  <2>2. OptionsInv'
    BY <2>1, Elsewhere
  <2>3. \A r \in Requests : KeptNonce(r)'
    BY <1>17, <2>1 DEF KeptNonce, traffic, calls, history
  <2> QED
    BY <1>17, <2>1, <2>2, <2>3, BesideRequests
<1>18. CASE UNCHANGED reqVars
  <2>1. OptionsInv'
    BY <1>1, <1>18, Elsewhere DEF reqVars, vars
  <2>2. \A r \in Requests : KeptNonce(r)'
    BY <1>18 DEF reqVars, vars, KeptNonce, traffic, calls, history
  <2> QED
    BY <1>1, <1>18, <2>1, <2>2, BesideRequests DEF reqVars, vars
<1> QED
  BY <1>2, <1>3, <1>4, <1>5, <1>7, <1>8, <1>10, <1>11, <1>12, <1>13, <1>14, <1>15, <1>16,
     <1>17, <1>18 DEF ReqNext

\* The inductive invariant of the requests: the options' own, that a twin of a
\* transaction has its nonce and key, that options keep the nonce of what was
\* signed with them, and that an executed nonce is behind its owner's next.
THEOREM RequestsInductive == ReqSpec => []RequestsIInv
BY InitRequests, NextRequests, PTL DEF ReqSpec

-----------------------------------------------------------------------------
(* Results about the requests *)

\* Every variable keeps its type, a transaction on its way has an owner and
\* a session that has been, and a request that is not yet written is nowhere.
THEOREM RequestsTypeCorrect == ReqSpec => []ReqTypeOK
<1>1. RequestsIInv => ReqTypeOK
  BY OptionsAreTyped DEF RequestsIInv, RequestsType, RequestInv, Payloads, ReqTypeOK
<1> QED
  BY <1>1, RequestsInductive, PTL

\* Signing again with the options of a transaction that may have been executed
\* does not get a second one executed, for any number of requests, sessions,
\* clients and threads.
THEOREM RetriesExecuteOnce == ReqSpec => []ExecutedOnce
BY RequestsInductive, PTL DEF RequestsIInv

\* A step of the requests is one of the options, or returns nothing to a caller.
LEMMA RequestsSign ==
  ASSUME RequestsIInv', OptionsIInv, [ReqNext]_reqVars
  PROVE  OptionsIInv'
<1>1. CASE [Next]_vars
  BY <1>1, NextOptions
<1>2. CASE reply' = None
  BY <1>2, ReplySaysNothing DEF OptionsIInv, RequestsIInv
<1>3. ASSUME NEW t \in Threads, Keeps(t) PROVE Next
  BY <1>3 DEF Keeps, Next
<1>4. CASE \E r \in Requests : Checks(r) \/ Writes(r) \/ Returns(r) \/ Takes(r) \/ Drops(r)
                                \/ Reads(r) \/ Handles(r)
  BY <1>2, <1>4 DEF Checks, Writes, WritesOn, Returns, Takes, Drops, Reads, Handles, MovesOn
<1>5. CASE Dials \/ Publishes \/ Breaks \/ ReadFails
  BY <1>2, <1>5 DEF Dials, Publishes, Breaks, ReadFails
<1>6. CASE \E o \in Opts, f \in Templates : Replaces(o, f)
  BY <1>1, <1>6 DEF Replaces, Next
<1>7. CASE UNCHANGED reqVars
  BY <1>1, <1>7 DEF reqVars
<1>8. [Next]_vars \/ ReqNext
  BY <1>7 DEF reqVars
<1>9. CASE \/ \E c \in Clients, k \in ApiKeys : SwitchAPIKey(c, k)
           \/ \E t \in Threads : \/ \E c \in Clients, o \in Opts : Gets(t, c, o)
                                 \/ GetNextNonce(t) \/ RequestFails(t) \/ ConstructionFails(t)
           \/ \E w \in Owners : Executes(w)
  BY <1>1, <1>9 DEF Next
<1> QED
  BY <1>1, <1>3, <1>4, <1>5, <1>6, <1>8, <1>9 DEF ReqNext

\* Transactions that are sent, executed and answered meanwhile take nothing from
\* what was proved of the options: the exchange's nonce may move under a call, the
\* owner of what it signs and the nonce's owner stay the same.
THEOREM RequestsSignRight == ReqSpec => [](SignsForNamedOrLinked /\ NonceOfItsOwner)
<1>1. ReqInit => OptionsIInv
  BY InitOptions DEF ReqInit
<1>2. RequestsIInv' /\ OptionsIInv /\ [ReqNext]_reqVars => OptionsIInv'
  BY RequestsSign
<1>3. OptionsIInv => SignsForNamedOrLinked /\ NonceOfItsOwner
  BY DEF OptionsIInv
<1> QED
  BY <1>1, <1>2, <1>3, RequestsInductive, PTL DEF ReqSpec

-----------------------------------------------------------------------------
(* The connection keeps to WsSession *)

\* While Run has no connection to read, none is open; connections are counted.
LinkInv == session \in Nat /\ (phase = "seeking" => ~open)

LEMMA SessionMoves ==
  ASSUME LinkInv, [ReqNext]_reqVars
  PROVE  LinkInv' /\ [Session!SessionNext]_(Session!sessionVars)
<1> USE DEF LinkInv
<1>1. CASE UNCHANGED connection
  BY <1>1 DEF connection, Session!sessionVars
<1>2. CASE Dials
  BY <1>2 DEF Dials, Session!SessionNext, Session!Dial
<1>3. CASE Publishes
  BY <1>3 DEF Publishes, Session!SessionNext, Session!Publish
<1>4. CASE Breaks
  BY <1>4 DEF Breaks, Session!SessionNext, Session!Break
<1>5. CASE ReadFails
  BY <1>5 DEF ReadFails, isConnected, Session!SessionNext, Session!Unpublish
<1>6. UNCHANGED connection \/ Dials \/ Publishes \/ Breaks \/ ReadFails
  BY DEF ReqNext, reqVars, Checks, Writes, WritesOn, Returns, Takes, Drops, Reads, Handles,
         MovesOn, Keeps, Replaces
<1> QED
  BY <1>1, <1>2, <1>3, <1>4, <1>5, <1>6

\* What this module assumes of the connection is what WsLifecycle shows of Run:
\* one connection at a time, the flag up once for each and only then, and down
\* before the next dial.
THEOREM RequestsUseSessions == ReqSpec => ImplementsSession
<1>1. ReqInit => LinkInv /\ Session!SessionInit
  BY DEF ReqInit, LinkInv, Session!SessionInit
<1>2. LinkInv /\ [ReqNext]_reqVars => LinkInv' /\ [Session!SessionNext]_(Session!sessionVars)
  BY SessionMoves
<1> QED
  BY <1>1, <1>2, PTL DEF ReqSpec, ImplementsSession, Session!SessionSpec
=============================================================================
