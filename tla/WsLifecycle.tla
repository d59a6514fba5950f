---------------------------- MODULE WsLifecycle ----------------------------
(***************************************************************************)
(* The life of one WebSocket client: Run, its reconnect loop, the read     *)
(* loop it calls, and Stop.  WsOrderBookClient, WsTxClient and             *)
(* WsAccountMarketClient hold three copies of this code; they differ in    *)
(* one guard around the attempt reset (GuardedReset).                      *)
(*                                                                         *)
(* Two goroutines share the client: the runner (Run) and the stopper       *)
(* (Stop).  The environment is the network, which decides dials, delivers  *)
(* messages and breaks connections.  Each read or write of a shared field  *)
(* is a step of its own, because no step of Run or Stop holds c.mu.        *)
(***************************************************************************)
EXTENDS Integers

CONSTANTS
  MaxReconnectAttempts,  \* c.maxReconnectAttempts; any int is accepted
  GuardedReset,          \* TRUE: the order book client, FALSE: the other two
  Conns,                 \* identities of *websocket.Conn values
  Nil,                   \* the nil connection
  MaxInbox               \* bound: complete messages buffered unread

ASSUME ClientAssumption ==
  /\ MaxReconnectAttempts \in Int
  /\ GuardedReset \in BOOLEAN
  /\ Nil \notin Conns
  /\ MaxInbox \in Nat

\* A dial can always return a connection that nobody refers to.
ASSUME DialAssumption ==
  \A a, b \in Conns \cup {Nil} : \E c \in Conns : c \notin {a, b}

VARIABLES
  conn,         \* c.conn
  isConnected,  \* c.isConnected
  cancelled,    \* c.ctx is done
  runPc,        \* where the runner is
  attempt,      \* Run's loop counter
  result,       \* how Run returned
  stopPc,       \* where the stopper is
  stopConn,     \* the connection Stop's nil check saw
  net,          \* whether a dial gets through
  link,         \* state of every connection
  inbox,        \* complete messages buffered unread on every connection
  fails,        \* history: dials that failed since the last one that did not
  served        \* history: some dial succeeded

clientVars == <<conn, isConnected, cancelled>>
runVars    == <<runPc, attempt, result, fails, served>>
stopVars   == <<stopPc, stopConn>>
netVars    == <<net, link, inbox>>
vars       == <<clientVars, runVars, stopVars, netVars>>

\* c.done is closed by Run's only defer.
Done == runPc = "returned"

\* The runner is between a dial that succeeded and the end of handleMessages.
InSession == runPc \in {"select", "read"}

Init ==
  /\ conn = Nil /\ isConnected = FALSE /\ cancelled = FALSE
  /\ runPc = "idle" /\ attempt = 0 /\ result = "none"
  /\ stopPc = "idle" /\ stopConn = Nil
  /\ net \in {"up", "down"}
  /\ link = [c \in Conns |-> "fresh"] /\ inbox = [c \in Conns |-> 0]
  /\ fails = 0 /\ served = FALSE
-----------------------------------------------------------------------------
(* The runner *)

Return(r) == runPc' = "returned" /\ result' = r

\* Faults: what plausible slips in this code would do, used to show that the
\* properties below can fail.
ResetForgotten == attempt

PublishForgotten ==
  /\ runPc = "publish"
  /\ attempt' = 0 /\ runPc' = "select"
  /\ UNCHANGED <<clientVars, result, fails, served, stopVars, netVars>>

ReadFailsContinues ==
  /\ runPc = "read" /\ link[conn] # "open"
  /\ runPc' = "select"
  /\ UNCHANGED <<clientVars, attempt, result, fails, served, stopVars, netVars>>

UnpublishClearsConn ==
  /\ runPc = "failed"
  /\ isConnected' = FALSE /\ conn' = Nil
  /\ runPc' = "closing"
  /\ UNCHANGED <<cancelled, attempt, result, fails, served, stopVars, netVars>>

UnpublishForgotten ==
  /\ runPc = "failed" /\ runPc' = "closing"
  /\ UNCHANGED <<clientVars, attempt, result, fails, served, stopVars, netVars>>

CloseFailedForgotten ==
  /\ runPc = "closing" /\ runPc' = "decide"
  /\ UNCHANGED <<clientVars, attempt, result, fails, served, stopVars, netVars>>

DecideAlwaysReturns ==
  /\ runPc = "decide" /\ Return("nil")
  /\ UNCHANGED <<clientVars, attempt, fails, served, stopVars, netVars>>

StopCancelForgotten ==
  /\ stopPc = "idle" /\ stopPc' = "check"
  /\ UNCHANGED <<clientVars, runVars, stopConn, netVars>>

\* The loop's increment and test, reached from `continue', from the end of
\* the body and from handleMessages returning nil.
EndOfBody ==
  /\ attempt' = attempt + 1
  /\ IF attempt + 1 < MaxReconnectAttempts
     THEN runPc' = "dial" /\ UNCHANGED result
     ELSE Return("exceeded")

StartRun ==
  /\ runPc = "idle"
  /\ IF 0 < MaxReconnectAttempts THEN runPc' = "dial" /\ UNCHANGED result
                                 ELSE Return("exceeded")
  /\ UNCHANGED <<clientVars, attempt, fails, served, stopVars, netVars>>

\* dialer.Dial returned a connection, stored in c.conn.  A connection that
\* neither c.conn nor Stop refers to is garbage and its identity is free.
DialSucceeds ==
  /\ runPc = "dial" /\ net = "up"
  /\ \E c \in Conns \ {conn, stopConn} :
       /\ conn' = c
       /\ link' = [link EXCEPT ![c] = "open"]
       /\ inbox' = [inbox EXCEPT ![c] = 0]
  /\ runPc' = "publish" /\ fails' = 0 /\ served' = TRUE
  /\ UNCHANGED <<isConnected, cancelled, attempt, result, stopVars, net>>

DialFails ==
  /\ runPc = "dial" /\ net = "down"
  /\ fails' = fails + 1
  /\ IF attempt = MaxReconnectAttempts - 1
     THEN Return("gaveUp")
     ELSE runPc' = "pause" /\ UNCHANGED result
  /\ UNCHANGED <<clientVars, attempt, served, stopVars, netVars>>

\* time.Sleep(c.reconnectInterval), which does not watch c.ctx.
Pause ==
  /\ runPc = "pause"
  /\ EndOfBody
  /\ UNCHANGED <<clientVars, fails, served, stopVars, netVars>>

ResetAttempt ==
  IF GuardedReset /\ MaxReconnectAttempts <= 1 THEN attempt ELSE 0

\* c.isConnected = true, and the attempt counter starts over.
Publish ==
  /\ runPc = "publish"
  /\ isConnected' = TRUE
  /\ attempt' = ResetAttempt
  /\ runPc' = "select"
  /\ UNCHANGED <<conn, cancelled, result, fails, served, stopVars, netVars>>

\* The select at the head of the read loop: a done context makes
\* handleMessages return nil, and Run goes on with its next iteration.
SelectContinue ==
  /\ runPc = "select" /\ ~cancelled
  /\ runPc' = "read"
  /\ UNCHANGED <<clientVars, attempt, result, fails, served, stopVars, netVars>>

SelectDone ==
  /\ runPc = "select" /\ cancelled
  /\ EndOfBody
  /\ UNCHANGED <<clientVars, fails, served, stopVars, netVars>>

\* ReadMessage returned a message; a new goroutine handles it.
ReadReturns ==
  /\ runPc = "read" /\ inbox[conn] > 0
  /\ inbox' = [inbox EXCEPT ![conn] = @ - 1]
  /\ runPc' = "select"
  /\ UNCHANGED <<clientVars, attempt, result, fails, served, stopVars, net, link>>

\* ReadMessage failed; both returns after it carry a non-nil error.
ReadFails ==
  /\ runPc = "read" /\ link[conn] # "open"
  /\ runPc' = "failed"
  /\ UNCHANGED <<clientVars, attempt, result, fails, served, stopVars, netVars>>

\* It also fails on a connection that is open, if its ping handler cannot send
\* the pong or what came breaks the protocol.
PongFails ==
  /\ runPc = "read" /\ link[conn] = "open"
  /\ runPc' = "failed"
  /\ UNCHANGED <<clientVars, attempt, result, fails, served, stopVars, netVars>>

Unpublish ==
  /\ runPc = "failed"
  /\ isConnected' = FALSE
  /\ runPc' = "closing"
  /\ UNCHANGED <<conn, cancelled, attempt, result, fails, served, stopVars, netVars>>

CloseFailed ==
  /\ runPc = "closing"
  /\ link' = IF conn # Nil THEN [link EXCEPT ![conn] = "closed"] ELSE link
  /\ runPc' = "decide"
  /\ UNCHANGED <<clientVars, attempt, result, fails, served, stopVars, net, inbox>>

\* The select after a failed session: stopped, or sleep and dial again.
Decide ==
  /\ runPc = "decide"
  /\ IF cancelled THEN Return("nil") ELSE runPc' = "pause" /\ UNCHANGED result
  /\ UNCHANGED <<clientVars, attempt, fails, served, stopVars, netVars>>

Runner ==
  \/ DialSucceeds \/ DialFails \/ Pause \/ Publish
  \/ SelectContinue \/ SelectDone \/ ReadReturns \/ ReadFails \/ PongFails
  \/ Unpublish \/ CloseFailed \/ Decide
-----------------------------------------------------------------------------
(* The stopper *)

StopCancel ==
  /\ stopPc = "idle"
  /\ cancelled' = TRUE
  /\ stopPc' = "check"
  /\ UNCHANGED <<conn, isConnected, runVars, stopConn, netVars>>

StopCheck ==
  /\ stopPc = "check"
  /\ stopConn' = conn
  /\ stopPc' = IF conn = Nil THEN "wait" ELSE "close"
  /\ UNCHANGED <<clientVars, runVars, netVars>>

\* c.conn.Close(): the field may be loaded again, or the value that the nil
\* check saw may be used.
StopClose ==
  /\ stopPc = "close"
  /\ \E c \in {stopConn, conn} : link' = [link EXCEPT ![c] = "closed"]
  /\ stopPc' = "wait" /\ stopConn' = Nil
  /\ UNCHANGED <<clientVars, runVars, net, inbox>>

\* <-c.done
StopReturn ==
  /\ stopPc = "wait" /\ Done
  /\ stopPc' = "back"
  /\ UNCHANGED <<clientVars, runVars, stopConn, netVars>>

Stopper == StopCheck \/ StopClose \/ StopReturn
-----------------------------------------------------------------------------
(* The network *)

NetChanges ==
  /\ net' = IF net = "up" THEN "down" ELSE "up"
  /\ UNCHANGED <<clientVars, runVars, stopVars, link, inbox>>

Arrives(c) ==
  /\ net = "up" /\ link[c] = "open" /\ inbox[c] < MaxInbox
  /\ inbox' = [inbox EXCEPT ![c] = @ + 1]
  /\ UNCHANGED <<clientVars, runVars, stopVars, net, link>>

Breaks(c) ==
  /\ net = "down" /\ link[c] = "open"
  /\ link' = [link EXCEPT ![c] = "broken"]
  /\ UNCHANGED <<clientVars, runVars, stopVars, net, inbox>>

Network == NetChanges \/ \E c \in Conns : Arrives(c) \/ Breaks(c)
-----------------------------------------------------------------------------
\* Run returned and so did Stop: only the network moves.
Next == StartRun \/ Runner \/ StopCancel \/ Stopper \/ Network

Spec == Init /\ [][Next]_vars
-----------------------------------------------------------------------------
(* Properties *)

\* Every variable keeps its type; in Run's loop the counter is below the
\* bound, and a session has a connection.
TypeOK ==
  /\ conn \in Conns \cup {Nil} /\ isConnected \in BOOLEAN /\ cancelled \in BOOLEAN
  /\ runPc \in {"idle", "dial", "pause", "publish", "select", "read",
                "failed", "closing", "decide", "returned"}
  /\ attempt \in Nat /\ fails \in Nat /\ served \in BOOLEAN
  /\ result \in {"none", "nil", "gaveUp", "exceeded"}
  /\ stopPc \in {"idle", "check", "close", "wait", "back"}
  /\ stopConn \in Conns \cup {Nil} /\ (stopPc = "close" => stopConn # Nil)
  /\ net \in {"up", "down"}
  /\ link \in [Conns -> {"fresh", "open", "broken", "closed"}]
  /\ inbox \in [Conns -> 0 .. MaxInbox]
  /\ served <=> conn # Nil
  /\ runPc \in {"publish", "select", "read", "failed", "closing", "decide"} => served

\* While a session runs the counter stands at zero, whatever the maximum:
\* the order book client's guard around the reset (GuardedReset) makes no
\* difference to the unguarded reset of the other two clients.
SessionStartsFresh == InSession => attempt = 0

\* Until Stop is called, the flag that the senders test is up exactly while
\* the read loop is in a session or has only just left it.
FlagFollowsSession ==
  ~cancelled => (isConnected <=> runPc \in {"select", "read", "failed"})

\* Run gives up with "failed to connect after n attempts" only after as many
\* dials failed in a row as the maximum allows, of which a dial that once
\* succeeded took one.
GiveUpIsEarned ==
  result = "gaveUp" => fails = MaxReconnectAttempts - (IF served THEN 1 ELSE 0)

\* "exceeded maximum reconnection attempts" is returned only by a client
\* that is configured not to reconnect: with a retry to spend, no sequence
\* of sessions, however long, makes Run count itself out.
ExceededMeansNoRetry == result = "exceeded" => MaxReconnectAttempts <= 1

\* Until Stop is called, every connection except the one of the session in
\* progress is closed: reconnecting and giving up leak no socket.
NoSocketLeaks ==
  ~cancelled =>
    \A c \in Conns : link[c] \in {"open", "broken"} =>
      /\ c = conn
      /\ runPc \in {"publish", "select", "read", "failed", "closing"}

\* When Stop waits for c.done, a runner that blocks in ReadMessage blocks on
\* a connection that Stop has closed, so the read cannot stay blocked: no
\* interleaving of Stop's nil check and Close with a reconnect misses it.
StopClosesWhatIsRead == stopPc = "wait" /\ runPc = "read" => link[conn] = "closed"

\* On a network that stays up, a client that was started, was not stopped
\* and has not given up ends in a session on an open connection for good.
Reconnects ==
  <>[](net = "up") =>
    <>[](\/ InSession /\ link[conn] = "open"
         \/ runPc = "idle" \/ cancelled \/ Done)

\* Run, seen through its loop position, its failed dials and the context, is
\* a supervisor with the budget the client was configured with.
Phase ==
  CASE runPc = "idle" -> "new"
    [] runPc \in {"dial", "pause"} -> "seeking"
    [] Done -> "over"
    [] OTHER -> "serving"

Supervisor == INSTANCE WsSupervisor WITH
  Budget <- MaxReconnectAttempts, phase <- Phase,
  misses <- fails, stopping <- cancelled

ImplementsSupervisor == Supervisor!SupervisorSpec

\* Senders and handlers, which see c.conn and c.isConnected and nothing of Run,
\* see the connections of WsSession: none is replaced while it is alive, and
\* the flag is neither up for a connection that c.conn is not yet, nor up again
\* for one whose session ended.
Session == INSTANCE WsSession WITH
  NoConnection <- Nil, current <- conn,
  alive <- conn # Nil /\ link[conn] = "open",
  phase <- IF isConnected THEN "serving"
           ELSE IF runPc = "publish" THEN "dialed" ELSE "seeking",
  stopping <- cancelled

ImplementsSession == Session!SessionSpec
-----------------------------------------------------------------------------
(* What the comments and messages of the code say, and the code does not do *)

\* "Stop stops the ... client": a Stop of a started client returns.
StopReturns == (stopPc = "check" /\ runPc # "idle") ~> (stopPc = "back")
=============================================================================
