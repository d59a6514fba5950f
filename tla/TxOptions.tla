----------------------------- MODULE TxOptions ------------------------------
(***************************************************************************)
(* The Go interface to signed transactions: clients linked to an account   *)
(* and an API key, and options that a caller may give to a call, where nil *)
(* fields stand for defaults.  A call fills the defaults into the caller's *)
(* own options: a pointer to the client's API key index among them, which  *)
(* SwitchAPIKey changes later, and the nonce that it fetched.  A call is   *)
(* split where it waits for the exchange.  The Get functions differ in     *)
(* what they sign, and are one action.  Nil options are new, empty ones.   *)
(***************************************************************************)
EXTENDS Integers, FiniteSetsExt

CONSTANTS Clients,    \* TxClients
          Connected,  \* those that have an HTTPClient
          Linked,     \* client -> <<account, API key index>> it was created for
          Accounts, ApiKeys,
          Opts,       \* TransactOpts that callers keep
          Templates,  \* what callers put into them
          Threads,    \* goroutines that call Get functions
          MaxNonce,   \* bound: the exchange's nonces, all together
          None        \* nil

Fields == [account : Accounts \cup {None}, apiKey : ApiKeys \cup {None}, nonce : Int \cup {None}]
Owners == Accounts \X ApiKeys

ASSUME ClientAssumption == Connected \subseteq Clients /\ Linked \in [Clients -> Owners]
ASSUME TemplateAssumption == Templates \subseteq Fields
ASSUME NoneAssumption ==
  /\ None \notin Accounts \cup ApiKeys \cup Clients \cup Opts /\ None \notin Int
  /\ Clients \cap ApiKeys = {} /\ MaxNonce \in Nat

VARIABLES
  apiKeyIndex,  \* c.apiKeyIndex of every client
  opts,         \* the options, with what the calls have filled in
  pc, local,    \* where a thread is, and the variables of its call
  reply,        \* what the last step has returned to its caller
  nextNonce,    \* the exchange: the next nonce of every owner
  \* History of the options: what the caller put in, the clients that used
  \* them, and whether two calls had them at once; and the clients that were
  \* switched.
  given, users, shared, switched

calls == <<pc, local>>
history == <<given, users, shared, switched>>
vars == <<apiKeyIndex, opts, calls, reply, nextNonce, history>>

Blank == [account |-> None, apiKey |-> None, nonce |-> None]
Err == [kind |-> "err"]

\* A pointer to a client's field is the client; one to a caller's value is
\* the value.
Deref(p) == IF p \in Clients THEN apiKeyIndex[p] ELSE p
OwnerOf(o) == <<opts[o].account, Deref(opts[o].apiKey)>>

Init ==
  /\ apiKeyIndex = [c \in Clients |-> Linked[c][2]]
  /\ opts = [o \in Opts |-> Blank]
  /\ pc = [t \in Threads |-> "idle"] /\ local = [t \in Threads |-> None]
  /\ reply = None
  /\ nextNonce = [w \in Owners |-> 0]
  /\ given = opts /\ users = [o \in Opts |-> {}]
  /\ shared = {} /\ switched = {}
-----------------------------------------------------------------------------
(* The callers *)

Using(o) == {t \in Threads : pc[t] # "idle" /\ local[t].ops = o}

\* `&TransactOpts{...}', in the place of options that no call has.
NewOptions(o, f) ==
  /\ Using(o) = {}
  /\ opts' = [opts EXCEPT ![o] = f]
  /\ given' = [given EXCEPT ![o] = f] /\ users' = [users EXCEPT ![o] = {}]
  /\ shared' = shared \ {o}
  /\ reply' = None
  /\ UNCHANGED <<apiKeyIndex, calls, nextNonce, switched>>

SwitchAPIKey(c, k) ==
  /\ apiKeyIndex' = [apiKeyIndex EXCEPT ![c] = k]
  /\ switched' = switched \cup {c}
  /\ reply' = None
  /\ UNCHANGED <<opts, calls, nextNonce, given, users, shared>>
-----------------------------------------------------------------------------
(* A call of a Get function *)

\* Faults: a default overwrites what the caller gave; the nonce is not kept.
FilledOverwriting(f, c) ==
  [f EXCEPT !.account = IF @ = None THEN Linked[c][1] ELSE @, !.apiKey = c]

FilledAskingAgain(f, c) ==
  [account |-> IF f.account = None THEN Linked[c][1] ELSE f.account,
   apiKey |-> IF f.apiKey = None THEN c ELSE f.apiKey, nonce |-> None]

Filled(f, c) ==
  [f EXCEPT !.account = IF @ = None THEN Linked[c][1] ELSE @,
            !.apiKey = IF @ = None THEN c ELSE @]

\* The fields are filled by one step: calls of one client write the same.
Enters(t, c, o) ==
  /\ pc[t] = "idle"
  /\ opts' = [opts EXCEPT ![o] = Filled(@, c)]
  /\ users' = [users EXCEPT ![o] = @ \cup {c}]
  /\ shared' = IF Using(o) = {} THEN shared ELSE shared \cup {o}
  /\ UNCHANGED <<apiKeyIndex, nextNonce, given, switched>>

\* A nonce is there, and the call goes on to the construction.
GetsWithNonce(t, c, o) ==
  /\ Enters(t, c, o) /\ opts'[o].nonce # None
  /\ pc' = [pc EXCEPT ![t] = "construct"]
  /\ local' = [local EXCEPT ![t] = [client |-> c, ops |-> o, index |-> apiKeyIndex[c], floor |-> None]]
  /\ reply' = None

\* No nonce and nobody to ask: the other defaults stay in the options.
GetsRefused(t, c, o) ==
  /\ Enters(t, c, o) /\ opts'[o].nonce = None /\ c \notin Connected
  /\ reply' = Err /\ UNCHANGED <<pc, local>>

\* Fault: the nonce of the client's own key, whatever the options say.
GetsAskingForItself(t, c, o) ==
  /\ Enters(t, c, o) /\ opts'[o].nonce = None /\ c \in Connected
  /\ pc' = [pc EXCEPT ![t] = "ask"]
  /\ LET owner == <<Linked[c][1], apiKeyIndex[c]>> IN
     local' = [local EXCEPT ![t] = [client |-> c, ops |-> o, index |-> apiKeyIndex[c],
                                    owner |-> owner, floor |-> nextNonce[owner]]]
  /\ reply' = None

\* The request is for what the options say.
GetsAsking(t, c, o) ==
  /\ Enters(t, c, o) /\ opts'[o].nonce = None /\ c \in Connected
  /\ pc' = [pc EXCEPT ![t] = "ask"]
  /\ LET owner == OwnerOf(o)' IN
     local' = [local EXCEPT ![t] = [client |-> c, ops |-> o, index |-> apiKeyIndex[c],
                                    owner |-> owner, floor |-> nextNonce[owner]]]
  /\ reply' = None

\* The answer; it goes into the options, whoever else has them.
GetNextNonce(t) ==
  /\ pc[t] = "ask"
  /\ opts' = [opts EXCEPT ![local[t].ops].nonce = nextNonce[local[t].owner]]
  /\ pc' = [pc EXCEPT ![t] = "construct"]
  /\ reply' = None
  /\ UNCHANGED <<apiKeyIndex, local, nextNonce, history>>

\* Fault: the error is not looked at.
RequestFailsUnseen(t) ==
  /\ pc[t] = "ask"
  /\ pc' = [pc EXCEPT ![t] = "construct"] /\ reply' = None
  /\ UNCHANGED <<apiKeyIndex, opts, local, nextNonce, history>>

RequestFails(t) ==
  /\ pc[t] = "ask"
  /\ pc' = [pc EXCEPT ![t] = "idle"] /\ local' = [local EXCEPT ![t] = None]
  /\ reply' = Err
  /\ UNCHANGED <<apiKeyIndex, opts, nextNonce, history>>

\* The construction refuses the request; the options keep their nonce.
ConstructionFails(t) ==
  /\ pc[t] = "construct"
  /\ pc' = [pc EXCEPT ![t] = "idle"] /\ local' = [local EXCEPT ![t] = None]
  /\ reply' = Err
  /\ UNCHANGED <<apiKeyIndex, opts, nextNonce, history>>

\* Convert copies what the options say by now; the key is the client's.
Constructs(t) ==
  LET o == local[t].ops IN
  /\ pc[t] = "construct"
  /\ reply' =
       [kind |-> "tx", owner |-> OwnerOf(o), nonce |-> opts[o].nonce,
        client |-> local[t].client, index |-> local[t].index, floor |-> local[t].floor,
        given |-> given[o], users |-> users[o], shared |-> o \in shared,
        switched |-> local[t].client \in switched]
  /\ pc' = [pc EXCEPT ![t] = "idle"] /\ local' = [local EXCEPT ![t] = None]
  /\ UNCHANGED <<apiKeyIndex, opts, nextNonce, history>>

\* GetUpdateMarginTransaction fills nothing in: with complete options it is
\* GetsWithNonce, with others it panics.
Gets(t, c, o) == GetsWithNonce(t, c, o) \/ GetsRefused(t, c, o) \/ GetsAsking(t, c, o)

\* The exchange executes a transaction of this owner.
Executes(w) ==
  /\ MapThenSumSet(LAMBDA v : nextNonce[v], Owners) < MaxNonce
  /\ nextNonce' = [nextNonce EXCEPT ![w] = @ + 1]
  /\ reply' = None
  /\ UNCHANGED <<apiKeyIndex, opts, calls, history>>

Next ==
  \/ \E o \in Opts, f \in Templates : NewOptions(o, f)
  \/ \E c \in Clients, k \in ApiKeys : SwitchAPIKey(c, k)
  \/ \E t \in Threads : \/ \E c \in Clients, o \in Opts : Gets(t, c, o)
                        \/ GetNextNonce(t) \/ RequestFails(t)
                        \/ ConstructionFails(t) \/ Constructs(t)
  \/ \E w \in Owners : Executes(w)

Spec == Init /\ [][Next]_vars
-----------------------------------------------------------------------------
(* Properties *)

\* Every variable keeps its type.
TypeOK ==
  /\ apiKeyIndex \in [Clients -> ApiKeys]
  /\ opts \in [Opts -> [account : Accounts \cup {None},
                 apiKey : ApiKeys \cup Clients \cup {None}, nonce : Int \cup {None}]]
  /\ pc \in [Threads -> {"idle", "ask", "construct"}]
  /\ \A t \in Threads : /\ pc[t] = "ask" => local[t].owner \in Owners
                        /\ pc[t] = "construct" => OwnerOf(local[t].ops) \in Owners
                                                  /\ opts[local[t].ops].nonce # None
  /\ nextNonce \in [Owners -> Nat]

Signed == reply # None /\ reply.kind = "tx"

\* Options that only one client has used sign for whom the caller named, and
\* where the caller named nobody for the pair the client is linked to, unless
\* SwitchAPIKey has changed it: however often and concurrently they are used,
\* and whichever calls failed before.
SignsForNamedOrLinked ==
  (Signed /\ reply.users = {reply.client} /\ (reply.given.apiKey # None \/ ~reply.switched)) =>
    LET r == reply
        linked == Linked[r.client]
    IN r.owner = <<IF r.given.account = None THEN linked[1] ELSE r.given.account,
                   IF r.given.apiKey = None THEN linked[2] ELSE r.given.apiKey>>

\* A nonce that a call fetched is one that the exchange expected, during the
\* call, of the owner for whom the transaction is signed, unless SwitchAPIKey has
\* changed the client's index during the call and the caller named none.
NonceOfItsOwner ==
  (Signed /\ reply.floor # None /\ reply.users = {reply.client}
   /\ ~reply.shared
   /\ (reply.given.apiKey # None \/ reply.index = apiKeyIndex[reply.client])) =>
    reply.floor <= reply.nonce /\ reply.nonce <= nextNonce[reply.owner]
=============================================================================
