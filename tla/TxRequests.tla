----------------------------- MODULE TxRequests ------------------------------
(***************************************************************************)
(* Signed transactions on their way: callers sign with options that they   *)
(* may use again, give the transaction to SendTransaction, and hear of it  *)
(* from a handler, or never, because the connection was lost under the     *)
(* request or under its answer.  The library keeps no list of requests: a  *)
(* request is a random id that goes out with the transaction, comes back   *)
(* to the caller from SendTransaction, and to the handler with the answer. *)
(* SendBatchTransactions does the same with a list.  What Run and the      *)
(* write path do in detail is in WsLifecycle and ConnWriter.               *)
(***************************************************************************)
EXTENDS TxOptions

CONSTANTS Requests,    \* identities of requests: their random ids
          MaxSessions  \* bound: connections made

ASSUME SessionAssumption == MaxSessions \in Nat \ {0}

VARIABLES
  phase,    \* of Run: seeking, dialed (conn is new), serving (isConnected)
  session,  \* which connection conn is
  open,     \* the network: that connection still carries messages
  stage,  \* where the caller of a request is: unused, held (it is signed),
          \* checked (SendTransaction found a connection), written, returned, failed
  place,  \* where the request is, or its answer: nowhere, sent, answer (on its
          \* way back), handling (a goroutine has it), answered, lost
  payload,  \* the transaction: owner, nonce, the client whose key signed it; its
            \* session; and history: its options, and the requests signed by
            \* that client with them before, unless two calls had them at once
  executed  \* the exchange: the requests it executed

connection == <<phase, session, open>>
traffic == <<stage, place, payload, executed>>
reqVars == <<vars, connection, traffic>>

isConnected == phase = "serving"

ReqInit ==
  /\ Init
  /\ phase = "seeking" /\ session = 0 /\ open = FALSE
  /\ stage = [r \in Requests |-> "unused"]
  /\ place = [r \in Requests |-> "nowhere"]
  /\ payload = [r \in Requests |-> None]
  /\ executed = {}
-----------------------------------------------------------------------------
(* The connection *)

Dials ==
  /\ phase = "seeking" /\ session < MaxSessions
  /\ session' = session + 1 /\ phase' = "dialed" /\ open' = TRUE
  /\ reply' = None
  /\ UNCHANGED <<apiKeyIndex, opts, calls, nextNonce, history, traffic>>

\* The flag goes up, and the read loop begins.
Publishes ==
  /\ phase = "dialed" /\ phase' = "serving" /\ reply' = None
  /\ UNCHANGED <<apiKeyIndex, opts, calls, nextNonce, history, session, open, traffic>>

Breaks ==
  /\ open /\ open' = FALSE /\ reply' = None
  /\ UNCHANGED <<apiKeyIndex, opts, calls, nextNonce, history, phase, session, traffic>>

\* The read fails; what was not read of the connection is never read.  A read that
\* fails on an open connection is a Breaks and this: what is written in between
\* may be delivered or not.
ReadFails ==
  /\ isConnected /\ ~open
  /\ phase' = "seeking" /\ reply' = None
  /\ place' = [r \in Requests |-> IF place[r] = "answer" THEN "lost" ELSE place[r]]
  /\ UNCHANGED <<apiKeyIndex, opts, calls, nextNonce, history, session, open, stage, payload,
                 executed>>
-----------------------------------------------------------------------------
(* The caller *)

Unused == {r \in Requests : stage[r] = "unused"}

\* A call returned a transaction, and the caller holds it.
Keeps(t) ==
  LET o == local[t].ops
      r == CHOOSE q \in Unused : TRUE
  IN
  /\ Constructs(t)
  /\ stage' = [stage EXCEPT ![r] = "held"]
  /\ payload' = [payload EXCEPT ![r] =
       [owner |-> OwnerOf(o), nonce |-> opts[o].nonce, client |-> local[t].client,
        session |-> 0, ops |-> o,
        twins |-> IF o \in shared THEN {}
                  ELSE {q \in Requests : /\ stage[q] # "unused" /\ payload[q].ops = o
                                          /\ payload[q].client = local[t].client}]]
  /\ UNCHANGED <<connection, place, executed>>

\* New options: what was signed with the old ones is told apart.
Replaces(o, f) ==
  /\ NewOptions(o, f)
  /\ payload' = [r \in Requests |->
                   IF stage[r] # "unused" /\ payload[r].ops = o
                   THEN [payload[r] EXCEPT !.ops = None] ELSE payload[r]]
  /\ UNCHANGED <<connection, stage, place, executed>>

\* SendTransaction: the test, the write on what is the connection by then, and
\* the return of the id.
Checks(r) ==
  /\ stage[r] = "held"
  /\ stage' = [stage EXCEPT ![r] = IF isConnected THEN "checked" ELSE "failed"]
  /\ reply' = None
  /\ UNCHANGED <<apiKeyIndex, opts, calls, nextNonce, history, connection, place, payload, executed>>

WritesOn(r, result, where) ==
  /\ stage[r] = "checked"
  /\ stage' = [stage EXCEPT ![r] = result]
  /\ place' = [place EXCEPT ![r] = where]
  /\ payload' = [payload EXCEPT ![r].session = session]
  /\ reply' = None
  /\ UNCHANGED <<apiKeyIndex, opts, calls, nextNonce, history, connection, executed>>

\* On a connection that broke a write may be accepted and lost, or fail; and
\* what failed may have been delivered before.
Writes(r) ==
  \/ open /\ WritesOn(r, "written", "sent")
  \/ ~open /\ \E result \in {"written", "failed"}, where \in {"sent", "lost"} : WritesOn(r, result, where)

Returns(r) ==
  /\ stage[r] = "written"
  /\ stage' = [stage EXCEPT ![r] = "returned"]
  /\ reply' = None
  /\ UNCHANGED <<apiKeyIndex, opts, calls, nextNonce, history, connection, place, payload, executed>>
-----------------------------------------------------------------------------
(* The exchange.  A transaction is executed if the key that signed it is   *)
(* its owner's registered one and its nonce the owner's next.  The answer  *)
(* goes to the connection of the request; a refusal counts as one.         *)

Reachable(r) == open /\ stage[r] # "unused" /\ payload[r].session = session

Accepts(r) ==
  /\ Linked[payload[r].client] = payload[r].owner
  /\ payload[r].nonce = nextNonce[payload[r].owner]

Takes(r) ==
  /\ place[r] = "sent" /\ reply' = None
  /\ place' = [place EXCEPT ![r] = IF Reachable(r) THEN "answer" ELSE "lost"]
  /\ IF Accepts(r)
     THEN /\ nextNonce' = [nextNonce EXCEPT ![payload[r].owner] = @ + 1]
          /\ executed' = executed \cup {r}
     ELSE UNCHANGED <<nextNonce, executed>>
  /\ UNCHANGED <<apiKeyIndex, opts, calls, history, connection, stage, payload>>

\* What a connection that broke had not delivered.
Drops(r) ==
  /\ place[r] \in {"sent", "answer"} /\ ~Reachable(r) /\ reply' = None
  /\ place' = [place EXCEPT ![r] = "lost"]
  /\ UNCHANGED <<apiKeyIndex, opts, calls, nextNonce, history, connection, stage, payload, executed>>
-----------------------------------------------------------------------------
(* The answers *)

MovesOn(r, from, to) ==
  /\ place[r] = from /\ place' = [place EXCEPT ![r] = to]
  /\ reply' = None
  /\ UNCHANGED <<apiKeyIndex, opts, calls, nextNonce, history, connection, stage, payload, executed>>

\* Fault: answers to requests that are not yet known to the caller are passed over.
ReadsKnown(r) ==
  isConnected /\ MovesOn(r, "answer", IF stage[r] = "returned" THEN "handling" ELSE "lost")

\* The read loop starts a goroutine for the answer, known to the caller or not.
Reads(r) == isConnected /\ MovesOn(r, "answer", "handling")

\* It calls the handler; a session that ended meanwhile does not stop it.
Handles(r) == MovesOn(r, "handling", "answered")

\* Bound: callers sign as long as a request is left to hold the transaction.
ReqNext ==
  \/ Dials \/ Publishes \/ Breaks \/ ReadFails
  \/ \E r \in Requests : Checks(r) \/ Writes(r) \/ Returns(r) \/ Takes(r) \/ Drops(r)
                           \/ Reads(r) \/ Handles(r)
  \/ /\ Unused # {}
     /\ \/ \E t \in Threads : Keeps(t)
        \/ \E o \in Opts, f \in Templates : Replaces(o, f)
  \/ /\ Unused # {}
     /\ \/ \E c \in Clients, k \in ApiKeys : SwitchAPIKey(c, k)
        \/ \E t \in Threads : \/ \E c \in Clients, o \in Opts : Gets(t, c, o)
                              \/ GetNextNonce(t) \/ RequestFails(t) \/ ConstructionFails(t)
        \/ \E w \in Owners : Executes(w)
     /\ UNCHANGED <<connection, traffic>>

\* Run goes on to the read loop and reads, the exchange answers, goroutines run.
ReqSpec ==
  /\ ReqInit /\ [][ReqNext]_reqVars /\ WF_reqVars(Publishes)
  /\ \A r \in Requests : WF_reqVars(Takes(r)) /\ WF_reqVars(Reads(r)) /\ WF_reqVars(Handles(r))
-----------------------------------------------------------------------------
(* Properties *)

\* Every variable keeps its type, and a request that is not yet written is nowhere.
ReqTypeOK ==
  /\ TypeOK
  /\ phase \in {"seeking", "dialed", "serving"}
  /\ session \in 0 .. MaxSessions /\ open \in BOOLEAN
  /\ executed \subseteq Requests
  /\ \A r \in Requests :
       /\ stage[r] \in {"unused", "held", "checked", "written", "returned", "failed"}
       /\ place[r] \in {"nowhere", "sent", "answer", "handling", "answered", "lost"}
       /\ stage[r] \in {"unused", "held", "checked"} => place[r] = "nowhere"
       /\ stage[r] # "unused" => payload[r].owner \in Owners /\ payload[r].session \in 0 .. session

\* A caller that hears nothing, signs again with the same client and options and
\* sends again, over whichever connections, does not have two transactions
\* executed: not if the write failed, the answer was lost, the first was executed
\* late, or the client was switched in between.
ExecutedOnce ==
  \A r \in executed : payload[r].twins \cap executed = {}

\* What is written on a connection that lasts is answered, even if the answer
\* comes before SendTransaction has returned the request's id.
AnswerComes ==
  \A r \in Requests : place[r] = "sent" ~> (place[r] = "answered" \/ ~Reachable(r))

\* The connection of this module keeps to WsSession, as that of WsLifecycle does.
Session == INSTANCE WsSession WITH
  NoConnection <- 0, current <- session, alive <- open, stopping <- FALSE

ImplementsSession == Session!SessionSpec
=============================================================================
