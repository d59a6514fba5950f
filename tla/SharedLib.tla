----------------------------- MODULE SharedLib ------------------------------
(***************************************************************************)
(* The C library: two global variables that select the client which signs, *)
(* the exported functions that read and replace them without a lock, and   *)
(* the exchange, which answers the requests for nonces and public keys.    *)
(*                                                                         *)
(* Threads are the caller's threads.  A function is split where it reads   *)
(* or writes a global a second time and where it waits for an answer.      *)
(* The Sign functions that fill in default options are one action: they    *)
(* differ in what is signed, not in who signs.  The library never changes  *)
(* a client, so a client is a value and a pointer to it is a copy.  That   *)
(* Go may end the process when two threads are in the map is no action:    *)
(* a process that ended takes no further step.                             *)
(***************************************************************************)
EXTENDS Integers, FiniteSets

CONSTANTS Threads,
          Logins,     \* what callers pass to CreateClient: [index, account, key, http]
          BadKey,     \* a string that is no private key
          CInts,      \* the C ints that callers pass for an API key index
          CNonces,    \* the nonces that callers pass
          MaxNonce,   \* bound: the exchange's nonces
          None        \* the nil pointer, and no value

AskForNonce == -1
MinNonce == 0

uint8(n) == n % 256

\* NewTxClient fails for a bad key; a client has no HTTP client for an empty URL.
NewTxClient(l) ==
  IF l.key = BadKey THEN None
  ELSE [accountIndex |-> l.account, apiKeyIndex |-> uint8(l.index), key |-> l.key,
        http |-> l.http]

Clients == {NewTxClient(l) : l \in {m \in Logins : m.key # BadKey /\ m.account > 0}}
Owner(c) == <<c.accountIndex, c.apiKeyIndex>>
Owners == {Owner(c) : c \in Clients}
ApiKeys == {uint8(l.index) : l \in Logins} \cup {uint8(n) : n \in CInts}
PublicKeys == {c.key : c \in Clients}

ASSUME IntAssumption == CNonces \subseteq Int /\ MaxNonce \in Nat
ASSUME NoneAssumption == None \notin Clients

VARIABLES txClient,         \* the selected client, or None
          backupTxClients,  \* API key index -> its client, None where it has none
          pc,               \* where every thread is
          local,            \* the arguments and variables of its call
          reply,            \* what its last call returned
          nextNonce,        \* the exchange: the next nonce of an owner
          registered,       \* the exchange: the key of an owner, or None
          online,           \* the exchange answers
          \* History: the client the last selection meant, the client made
          \* last for every index, and the indices whose check succeeded.
          selected, made, checked

globals == <<txClient, backupTxClients>>
calls == <<pc, local, reply>>
exchange == <<nextNonce, registered, online>>
history == <<selected, made, checked>>
vars == <<globals, calls, exchange, history>>

\* What a call returns.
Err == [kind |-> "err"]
Ok == [kind |-> "ok"]
Empty == [kind |-> "empty"]
Signature(what, l, key) ==
  [kind |-> what, owner |-> Owner(l.client), key |-> key, nonce |-> l.nonce,
   asked |-> l.asked, floor |-> l.floor]

Init ==
  /\ txClient = None /\ backupTxClients = [k \in ApiKeys |-> None]
  /\ pc = [t \in Threads |-> "idle"] /\ local = [t \in Threads |-> None]
  /\ reply = [t \in Threads |-> None]
  /\ nextNonce = [o \in Owners |-> 0] /\ registered \in [Owners -> PublicKeys \cup {None}]
  /\ online = TRUE
  /\ selected = None /\ made = [k \in ApiKeys |-> None] /\ checked = {}

Begins(t, p, l) == /\ pc[t] = "idle" /\ pc' = [pc EXCEPT ![t] = p]
                   /\ local' = [local EXCEPT ![t] = l]
                   /\ reply' = [reply EXCEPT ![t] = None]

Goto(t, p, l) == /\ pc' = [pc EXCEPT ![t] = p] /\ local' = [local EXCEPT ![t] = l]
                 /\ UNCHANGED reply

Returns(t, r) == /\ pc' = [pc EXCEPT ![t] = "idle"]
                 /\ local' = [local EXCEPT ![t] = None]
                 /\ reply' = [reply EXCEPT ![t] = r]

\* A call that returns at once.
Refuses(t, r) == /\ pc[t] = "idle" /\ reply' = [reply EXCEPT ![t] = r]
                 /\ UNCHANGED <<pc, local>>
-----------------------------------------------------------------------------
(* CreateClient, SwitchAPIKey, CheckClient *)

CreateRefuses(t, l) ==
  /\ l.account <= 0 /\ Refuses(t, Err)
  /\ UNCHANGED <<globals, exchange, history>>

\* Fault: the global is assigned only when NewTxClient succeeds.
CreateFailsKeepingClient(t, l) ==
  /\ l.account > 0 /\ NewTxClient(l) = None
  /\ Refuses(t, Err) /\ selected' = None
  /\ UNCHANGED <<globals, exchange, made, checked>>

\* A bad private key replaces the selected client by nil.
CreateFails(t, l) ==
  /\ l.account > 0 /\ NewTxClient(l) = None
  /\ Refuses(t, Err) /\ txClient' = None /\ selected' = None
  /\ UNCHANGED <<backupTxClients, exchange, made, checked>>

\* Faults: an account that is none; the global assigned only while it is nil.
CreateAssignsAnyAccount(t, l) ==
  /\ NewTxClient(l) # None
  /\ Begins(t, "store", [client |-> NewTxClient(l)])
  /\ txClient' = NewTxClient(l)
  /\ UNCHANGED <<backupTxClients, exchange, history>>

CreateAssignsOnce(t, l) ==
  /\ l.account > 0 /\ NewTxClient(l) # None
  /\ Begins(t, "store", [client |-> NewTxClient(l)])
  /\ txClient' = IF txClient = None THEN NewTxClient(l) ELSE txClient
  /\ UNCHANGED <<backupTxClients, exchange, history>>

CreateAssigns(t, l) ==
  /\ l.account > 0 /\ NewTxClient(l) # None
  /\ Begins(t, "store", [client |-> NewTxClient(l)])
  /\ txClient' = NewTxClient(l)
  /\ UNCHANGED <<backupTxClients, exchange, history>>

\* The map gets what the global holds by now.
CreateStores(t) ==
  LET c == local[t].client IN
  /\ pc[t] = "store"
  /\ backupTxClients' = [backupTxClients EXCEPT ![c.apiKeyIndex] = txClient]
  /\ Returns(t, Ok)
  /\ selected' = c /\ made' = [made EXCEPT ![c.apiKeyIndex] = c]
  /\ checked' = checked \ {c.apiKeyIndex}
  /\ UNCHANGED <<txClient, exchange>>

SwitchAssigns(t, n) ==
  /\ Begins(t, "switched", [index |-> uint8(n)])
  /\ txClient' = backupTxClients[uint8(n)]
  /\ UNCHANGED <<backupTxClients, exchange, history>>

SwitchReturns(t) ==
  /\ pc[t] = "switched"
  /\ Returns(t, IF txClient = None THEN Err ELSE Ok)
  /\ selected' = IF txClient = None THEN None ELSE made[local[t].index]
  /\ UNCHANGED <<globals, exchange, made, checked>>

\* The client registered for the index must be of that index and account;
\* without an HTTP client the request panics.
Checkable(c, n, account) ==
  c # None /\ c.apiKeyIndex = uint8(n) /\ c.accountIndex = account /\ c.http

CheckRefuses(t, n, account) ==
  /\ ~Checkable(backupTxClients[uint8(n)], n, account)
  /\ Refuses(t, Err) /\ UNCHANGED <<globals, exchange, history>>

CheckAsks(t, n, account) ==
  LET c == backupTxClients[uint8(n)] IN
  /\ Checkable(c, n, account)
  /\ Begins(t, "check", [client |-> c])
  /\ UNCHANGED <<globals, exchange, history>>

\* Fault: any key will do.
CheckAnswersAny(t) ==
  LET c == local[t].client IN
  /\ pc[t] = "check" /\ online
  /\ IF registered[Owner(c)] # None
     THEN Returns(t, Ok) /\ checked' = checked \cup {c.apiKeyIndex}
     ELSE Returns(t, Err) /\ UNCHANGED checked
  /\ UNCHANGED <<globals, exchange, selected, made>>

\* An owner without a key is an empty list: a panic, and an error.
CheckAnswers(t) ==
  LET c == local[t].client IN
  /\ pc[t] = "check" /\ online
  /\ IF registered[Owner(c)] = c.key
     THEN Returns(t, Ok) /\ checked' = checked \cup {c.apiKeyIndex}
     ELSE Returns(t, Err) /\ UNCHANGED checked
  /\ UNCHANGED <<globals, exchange, selected, made>>
-----------------------------------------------------------------------------
(* Signing: a Sign function with default options, CreateAuthToken,         *)
(* SignUpdateMargin                                                        *)

SignRefuses(t) ==
  /\ txClient = None
  /\ Refuses(t, Err) /\ UNCHANGED <<globals, exchange, history>>

SignStarts(t, n) ==
  /\ txClient # None
  /\ Begins(t, "sign", [nonce |-> n])
  /\ UNCHANGED <<globals, exchange, history>>

\* A malformed argument (a public key, a memo) is an error.  Then the global
\* is read again, as the receiver of Get...Transaction: a nil receiver panics,
\* and without an HTTP client there is no nonce to get.
FullFillDefaultOps(t) ==
  LET n == local[t].nonce
      Call(asked) == [client |-> txClient, nonce |-> n, asked |-> asked,
                      floor |-> nextNonce[Owner(txClient)]]
  IN  /\ pc[t] = "sign"
      /\ \/ Returns(t, Err)
         \/ /\ txClient # None /\ n = AskForNonce /\ txClient.http
            /\ Goto(t, "ask", Call(TRUE))
         \/ /\ txClient # None /\ n # AskForNonce
            /\ Goto(t, "construct", Call(FALSE))
      /\ UNCHANGED <<globals, exchange, history>>

\* Fault: the nonce of the client that is selected by now.
GetNextNonceOfSelected(t) ==
  /\ pc[t] = "ask" /\ online /\ txClient # None
  /\ Goto(t, "construct", [local[t] EXCEPT !.nonce = nextNonce[Owner(txClient)]])
  /\ UNCHANGED <<globals, exchange, history>>

GetNextNonce(t) ==
  /\ pc[t] = "ask" /\ online
  /\ Goto(t, "construct", [local[t] EXCEPT !.nonce = nextNonce[Owner(local[t].client)]])
  /\ UNCHANGED <<globals, exchange, history>>

\* Fault: a request waits for ever for an exchange that is silent.
RequestFailsOnline(t) ==
  /\ pc[t] \in {"ask", "check"} /\ online
  /\ Returns(t, Err) /\ UNCHANGED <<globals, exchange, history>>

\* The exchange refuses, or the HTTP client's timeout of 30 seconds passes.
RequestFails(t) ==
  /\ pc[t] \in {"ask", "check"}
  /\ Returns(t, Err) /\ UNCHANGED <<globals, exchange, history>>

\* Fault: the key of the client that is selected by now.
ConstructsWithSelected(t) ==
  LET l == local[t] IN
  /\ pc[t] = "construct" /\ txClient # None
  /\ Returns(t, Signature("tx", l, txClient.key))
  /\ UNCHANGED <<globals, exchange, history>>

\* Convert, Validate, Hash and Sign.  The rest of the transaction may be
\* invalid whatever the client and the nonce are; the index 255 is refused
\* except in SignCancelAllOrders, where it is NilApiKeyIndex.
Constructs(t) ==
  LET l == local[t] IN
  /\ pc[t] = "construct"
  /\ \/ Returns(t, Err)
     \/ /\ l.nonce >= MinNonce
        /\ Returns(t, Signature("tx", l, l.client.key))
  /\ UNCHANGED <<globals, exchange, history>>

TokenStarts(t) ==
  /\ txClient # None
  /\ Begins(t, "token", None)
  /\ UNCHANGED <<globals, exchange, history>>

\* A nil receiver panics; a deadline beyond seven hours is refused.
GetAuthToken(t) ==
  /\ pc[t] = "token"
  /\ \/ Returns(t, Err)
     \/ /\ txClient # None
        /\ Returns(t, Signature("token", [client |-> txClient, nonce |-> 0, asked |-> FALSE,
                                        floor |-> 0], txClient.key))
  /\ UNCHANGED <<globals, exchange, history>>

\* The missing client is an error, but no return.
MarginStarts(t) ==
  /\ Begins(t, "margin", [err |-> txClient = None])
  /\ UNCHANGED <<globals, exchange, history>>

\* A nil receiver panics, and so does the options' nil FromAccountIndex:
\* the deferred function drops the panic and returns what err holds.
MarginPanics(t) ==
  /\ pc[t] = "margin"
  /\ Returns(t, IF local[t].err THEN Err ELSE Empty)
  /\ UNCHANGED <<globals, exchange, history>>
-----------------------------------------------------------------------------
(* The exchange *)

\* Some transaction of the owner is executed.
Executes(o) ==
  /\ nextNonce[o] < MaxNonce
  /\ nextNonce' = [nextNonce EXCEPT ![o] = @ + 1]
  /\ UNCHANGED <<globals, calls, registered, online, history>>

\* Another key is registered for the owner: what was checked is out of date.
Registers(o, key) ==
  /\ registered' = [registered EXCEPT ![o] = key]
  /\ checked' = {k \in checked : Owner(made[k]) # o}
  /\ UNCHANGED <<globals, calls, nextNonce, online, selected, made>>

GoesOnOrOff ==
  /\ online' = ~online
  /\ UNCHANGED <<globals, calls, nextNonce, registered, history>>

ExchangeNext ==
  \/ \E o \in Owners : Executes(o) \/ \E k \in PublicKeys : Registers(o, k)
  \/ GoesOnOrOff

\* The steps that a call takes by itself.
Continues(t) ==
  \/ CreateStores(t) \/ SwitchReturns(t) \/ CheckAnswers(t) \/ RequestFails(t)
  \/ FullFillDefaultOps(t) \/ GetNextNonce(t) \/ Constructs(t)
  \/ GetAuthToken(t) \/ MarginPanics(t)

Calls(t) ==
  \/ \E l \in Logins : CreateRefuses(t, l) \/ CreateFails(t, l) \/ CreateAssigns(t, l)
  \/ \E n \in CInts : SwitchAssigns(t, n)
  \/ \E n \in CInts, l \in Logins : CheckRefuses(t, n, l.account) \/ CheckAsks(t, n, l.account)
  \/ \E n \in CNonces : SignStarts(t, n)
  \/ SignRefuses(t) \/ TokenStarts(t) \/ MarginStarts(t)

Next == ExchangeNext \/ \E t \in Threads : Calls(t) \/ Continues(t)

Spec == Init /\ [][Next]_vars

\* A call runs on: every step is the library's own or has a timeout.
FairSpec == Spec /\ \A t \in Threads : WF_vars(Continues(t))
-----------------------------------------------------------------------------
(* Properties, for any number of threads *)

OptClients == Clients \cup {None}

\* Every variable keeps its type: whatever threads do to the globals, they
\* hold clients that CreateClient made.
TypeOK ==
  /\ txClient \in OptClients /\ backupTxClients \in [ApiKeys -> OptClients]
  /\ pc \in [Threads -> {"idle", "store", "switched", "check", "sign", "ask",
                         "construct", "token", "margin"}]
  /\ DOMAIN local = Threads /\ DOMAIN reply = Threads
  /\ nextNonce \in [Owners -> 0 .. MaxNonce]
  /\ registered \in [Owners -> PublicKeys \cup {None}] /\ online \in BOOLEAN
  /\ selected \in OptClients /\ made \in [ApiKeys -> OptClients]
  /\ checked \subseteq ApiKeys

Signed(r) == r # None /\ r.kind \in {"tx", "token"}

\* Whatever other threads select meanwhile, a signature is by the key with
\* which its account and API key index were created, never by another's.
SignaturesAreWhole ==
  \A t \in Threads : Signed(reply[t]) =>
    \E c \in Clients : reply[t].owner = Owner(c) /\ reply[t].key = c.key

\* A nonce that the library got itself is one that the exchange expected of
\* this owner during the call: neither stale nor another owner's.
NonceIsCurrent ==
  \A t \in Threads : (Signed(reply[t]) /\ reply[t].asked) =>
    /\ reply[t].floor <= reply[t].nonce
    /\ reply[t].nonce <= nextNonce[reply[t].owner]

\* Every call returns, whatever the exchange does.
EveryCallReturns == \A t \in Threads : (pc[t] # "idle") ~> (pc[t] = "idle")
-----------------------------------------------------------------------------
(* Properties of a caller with one thread *)

\* What is signed is signed by the client that the caller selected last, and
\* after a selection that failed nothing is.
SignsForTheSelected ==
  \A t \in Threads : Signed(reply[t]) =>
    /\ selected # None
    /\ reply[t].owner = Owner(selected) /\ reply[t].key = selected.key

\* After a successful check of an index, a signature under it is by the key
\* that the exchange has registered, until one side changes its key.
CheckedKeySigns ==
  \A t \in Threads : (Signed(reply[t]) /\ reply[t].owner[2] \in checked) =>
    registered[reply[t].owner] = reply[t].key
\* The library is a signer that holds one client, although CreateClient selects
\* before it stores and SwitchAPIKey before it looks: seen through the globals,
\* a client that is being stored counted in, no call but those two changes who
\* signs, they do so in one step, and every signature is by the client held.
Storing(k) == \E t \in Threads : pc[t] = "store" /\ local[t].client.apiKeyIndex = k

Signer == INSTANCE OneSigner WITH
  Indices <- ApiKeys,
  keyring <- [k \in ApiKeys |-> IF Storing(k) THEN txClient ELSE backupTxClients[k]],
  held <- txClient,
  signatures <- {[owner |-> reply[t].owner, key |-> reply[t].key] :
                   t \in {u \in Threads : Signed(reply[u])}}

ImplementsSigner == Signer!SignerSpec
-----------------------------------------------------------------------------
(* What the code says and does not do *)

\* A Sign function returns a transaction or an error.
TxOrError == \A t \in Threads : reply[t] # Empty
=============================================================================
