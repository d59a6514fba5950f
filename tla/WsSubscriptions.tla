-------------------------- MODULE WsSubscriptions --------------------------
(***************************************************************************)
(* The order book and the account market client on top of their lifecycle: *)
(* the goroutine that handles each message, the subscriptions that the     *)
(* server's greeting sets off, and sendMessage, which checks the shared    *)
(* connection and then reads it again to write.  Handlers outlive the      *)
(* session whose message they handle, so they can meet any later           *)
(* connection, or none.  An account market is subscribed with a token: of  *)
(* the subscription's own TxClient, or else the one that was given with    *)
(* the subscription, or else of the client's TxClient.  Order books have   *)
(* none of them.  The client is one that nobody has stopped: Stop and what *)
(* Run does after it are left to WsLifecycle.                              *)
(***************************************************************************)
EXTENDS WsLifecycle, AuthTokens, Sequences

CONSTANTS Subs,           \* c.marketIDs or c.accountMarketSubs: whether each
                          \* has a TxClient, and its AuthToken or None
          HasTxClient,    \* c.txClient is given
          MaxClock,       \* bound: time
          Handlers,       \* bound: goroutines handling messages at one time
          PauseOutlasts   \* the reconnect pause is longer than a greeting's
                          \* handler: 5 s and 0.1 s with the defaults

Markets == DOMAIN Subs

ASSUME FeedAssumption ==
  /\ Subs \in Seq([txClient : BOOLEAN, authToken : Int \cup {None}]) /\ Subs # <<>>
  /\ HasTxClient \in BOOLEAN /\ MaxClock \in Nat
  /\ PauseOutlasts \in BOOLEAN /\ Nil \notin Handlers

VARIABLES wire,    \* the messages buffered on every connection
          greeted, \* connections on which the server sent its greeting
          task,    \* what every handler goroutine does: next is its market
          clock,   \* the time
          heard,   \* the server's view: subscriptions received (0, 1, many)
          late     \* and those that came with a token past its deadline

feedVars == <<wire, greeted, task, clock, heard, late>>
allVars  == <<vars, feedVars>>

NoTask == [pc |-> "idle", kind |-> "none", from |-> Nil, next |-> 1]

Greeting(h) == task[h].kind = "connected"

FeedInit ==
  /\ Init
  /\ wire = [c \in Conns |-> <<>>] /\ greeted = {}
  /\ task = [h \in Handlers |-> NoTask]
  /\ clock = 0
  /\ heard = [c \in Conns |-> [m \in Markets |-> 0]]
  /\ late = [c \in Conns |-> {}]
-----------------------------------------------------------------------------
(* The lifecycle's steps *)

\* Fault: the buffer of the old connection is read on.
ConnectsKeepingBuffer ==
  /\ DialSucceeds
  /\ UNCHANGED <<wire, task, clock, heard, late>> /\ greeted' = greeted \ {conn'}

\* A new connection: nothing buffered, nothing heard.  A handler of the old
\* connection with this identity now comes from a connection that is gone.
Connects ==
  /\ DialSucceeds
  /\ wire' = [wire EXCEPT ![conn'] = <<>>]
  /\ greeted' = greeted \ {conn'}
  /\ heard' = [heard EXCEPT ![conn'] = [m \in Markets |-> 0]]
  /\ late' = [late EXCEPT ![conn'] = {}] /\ UNCHANGED clock
  /\ task' = [h \in Handlers |-> IF task[h].from = conn'
                                 THEN [task[h] EXCEPT !.from = Nil] ELSE task[h]]

\* The server greets a new connection first and sends pings then.
Receives(c) ==
  /\ Arrives(c)
  /\ LET kind == IF c \in greeted THEN "ping" ELSE "connected"
     IN  wire' = [wire EXCEPT ![c] = Append(@, kind)]
  /\ greeted' = greeted \cup {c}
  /\ UNCHANGED <<task, clock, heard, late>>

\* `go c.processMessage(message)'; handleConnected sleeps first.
Dispatches ==
  /\ ReadReturns
  /\ LET kind == Head(wire[conn])
     IN  \E h \in Handlers :
           /\ task[h].pc = "idle"
           /\ task' = [task EXCEPT ![h] =
                [pc   |-> IF kind = "connected" THEN "sleep" ELSE "check",
                 kind |-> kind, from |-> conn, next |-> 1]]
  /\ wire' = [wire EXCEPT ![conn] = Tail(@)]
  /\ UNCHANGED <<greeted, clock, heard, late>>

\* Fault: no pause before the next dial.
WakesUpAtOnce == Pause /\ UNCHANGED feedVars

WakesUp ==
  /\ PauseOutlasts => \A h \in Handlers : ~Greeting(h)
  /\ Pause
  /\ UNCHANGED feedVars

RunnerSteps ==
  \/ Connects \/ Dispatches \/ WakesUp
  \/ /\ \/ DialFails \/ Publish \/ SelectContinue \/ ReadFails
        \/ Unpublish \/ CloseFailed \/ Decide
     /\ UNCHANGED feedVars

\* Hours pass; not while a handler goes through its subscriptions.
Passes ==
  /\ clock < MaxClock /\ clock' = clock + 1
  /\ \A h \in Handlers : task[h].pc \notin {"check", "write"}
  /\ UNCHANGED <<vars, wire, greeted, task, heard, late>>

\* A pong fails only in an outage (see WsKeepAlive).
OtherSteps ==
  \/ Passes
  \/ \E c \in Conns : Receives(c)
  \/ /\ StartRun \/ NetChanges \/ (net = "down" /\ PongFails) \/ \E c \in Conns : Breaks(c)
     /\ UNCHANGED feedVars
-----------------------------------------------------------------------------
(* The handlers *)

SleepEnds(h) ==
  /\ task[h].pc = "sleep"
  /\ task' = [task EXCEPT ![h].pc = "check"]
  /\ UNCHANGED <<vars, wire, greeted, clock, heard, late>>

\* Fault: a token that was given is used first.
TokenGivenFirst(m) ==
  IF Subs[m].authToken # None THEN Subs[m].authToken
  ELSE IF Subs[m].txClient \/ HasTxClient THEN GetAuthToken(clock, clock + TokenLife) ELSE None

Renews(m) == Subs[m].txClient \/ (HasTxClient /\ Subs[m].authToken = None)

Token(m) == IF Renews(m) THEN GetAuthToken(clock, clock + TokenLife) ELSE Subs[m].authToken

\* Fault: the first subscription that fails ends the handler.
ContinueStopsEarly(h) == task' = [task EXCEPT ![h] = NoTask]

\* A handler that has sent, or failed to send, goes on with the next market; a
\* failure is logged and the market is not tried again.
Continue(h) ==
  IF Greeting(h) /\ task[h].next < Len(Subs)
  THEN task' = [task EXCEPT ![h].pc = "check", ![h].next = @ + 1]
  ELSE task' = [task EXCEPT ![h] = NoTask]

\* A market whose token cannot be made is left out.  Then sendMessage tests
\* !c.isConnected || c.conn == nil.
Sendable(h) ==
  /\ Greeting(h) /\ Renews(task[h].next) => Token(task[h].next) # None
  /\ isConnected /\ conn # Nil

CheckPasses(h) ==
  /\ task[h].pc = "check" /\ Sendable(h)
  /\ task' = [task EXCEPT ![h].pc = "write"]
  /\ UNCHANGED <<vars, wire, greeted, clock, heard, late>>

CheckRefuses(h) ==
  /\ task[h].pc = "check" /\ ~Sendable(h)
  /\ Continue(h)
  /\ UNCHANGED <<vars, wire, greeted, clock, heard, late>>

\* c.conn.WriteMessage, on the connection that c.conn is now; what is
\* written to a connection that is not open gets lost.
WriteOn(h, c) ==
  LET m == task[h].next
      arrives == Greeting(h) /\ link[c] = "open"
      expired == Token(m) # None /\ Token(m) < clock
  IN
  /\ Continue(h)
  /\ heard' = IF arrives THEN [heard EXCEPT ![c][m] = IF @ < 2 THEN @ + 1 ELSE @] ELSE heard
  /\ late' = IF arrives /\ expired THEN [late EXCEPT ![c] = @ \cup {m}] ELSE late
  /\ UNCHANGED <<vars, wire, greeted, clock>>

Writes(h) == task[h].pc = "write" /\ conn # Nil /\ WriteOn(h, conn)

Handles(h) == SleepEnds(h) \/ CheckPasses(h) \/ CheckRefuses(h) \/ Writes(h)

FeedNext == RunnerSteps \/ OtherSteps \/ \E h \in Handlers : Handles(h)

FeedSpec == FeedInit /\ [][FeedNext]_allVars

\* Goroutines run, pings make TCP give up a dead connection (see WsKeepAlive),
\* and the server greets every connection it accepted.
FeedFairness ==
  /\ WF_allVars(RunnerSteps)
  /\ \A h \in Handlers : WF_allVars(Handles(h))
  /\ \A c \in Conns : /\ WF_allVars(Breaks(c) /\ UNCHANGED feedVars)
                      /\ WF_allVars(c \notin greeted /\ Receives(c))

FairFeedSpec == FeedSpec /\ FeedFairness
-----------------------------------------------------------------------------
(* Properties *)

\* Every variable keeps its type, the buffers of the two views agree, and a
\* handler past sendMessage's check has a connection to write on when it reads
\* c.conn again.
FeedTypeOK ==
  /\ wire \in [Conns -> Seq({"connected", "ping"})]
  /\ \A c \in Conns : Len(wire[c]) = inbox[c]
  /\ greeted \subseteq Conns
  /\ task \in [Handlers -> [pc   : {"idle", "sleep", "check", "write"},
                            kind : {"none", "connected", "ping"},
                            from : Conns \cup {Nil}, next : Markets]]
  /\ \A h \in Handlers : task[h].pc = "write" => conn # Nil
  /\ clock \in 0 .. MaxClock
  /\ heard \in [Conns -> [Markets -> 0 .. 2]] /\ late \in [Conns -> SUBSET Markets]

\* With a pause longer than a greeting's handler, a handler of an old
\* session's greeting never meets the new session: no market is subscribed
\* twice on one connection.
SubscribedOnce ==
  \A c \in Conns, m \in Markets : heard[c][m] <= 1

\* When the greeting of the session in progress has been handled and the
\* connection is still good, no market was left out: no token was missing, the
\* check never refuses and no write misses the connection of its own session.
NoMarketLeftOut ==
  /\ InSession /\ link[conn] = "open" /\ conn \in greeted
  /\ \A i \in DOMAIN wire[conn] : wire[conn][i] # "connected"
  /\ \A h \in Handlers : Greeting(h) => task[h].from # conn
  => \A m \in Markets : heard[conn][m] > 0

\* However late a session comes, a subscription whose token the client can make
\* itself is not sent with one whose deadline has passed, not even if such a
\* token was given with it.
RenewedInTime == \A c \in Conns : \A m \in late[c] : ~Renews(m)

\* The server sees what MarketFeed promises: on every connection the greeting, and
\* then the markets one by one in their order, each once.  It needs both the pause
\* that outlasts a greeting's handler, which keeps an old session's handler off
\* the new connection, and tokens that are not refused.
Feed == INSTANCE MarketFeed WITH
  NoConnection <- Nil, Count <- Len(Subs), current <- conn, greeted <- conn \in greeted,
  heard <- IF conn = Nil THEN [m \in Markets |-> 0] ELSE heard[conn]

ImplementsFeed == Feed!MarketFeedSpec

\* On a network that stays up, a client that nobody stops and that does not
\* give up ends in a session with every market subscribed.
FeedComesBack ==
  <>[](net = "up") =>
    <>[](\/ runPc = "idle" \/ Done
         \/ InSession /\ \A m \in Markets : heard[conn][m] > 0)
=============================================================================
