----------------------------- MODULE WsSession ------------------------------
(***************************************************************************)
(* What the senders and handlers of a client see of its connection.  There *)
(* is one at a time.  The next is made when the last is dead and the flag  *)
(* is down; the flag goes up once for each connection, after c.conn became *)
(* that connection.  It goes down when the session ends, mostly because    *)
(* the connection is dead; if it is not, it is closed before the next is   *)
(* made.  After Stop nothing of this is promised.                          *)
(***************************************************************************)
CONSTANT NoConnection    \* c.conn before the first connection

VARIABLES current,       \* c.conn
          alive,         \* that connection carries messages
          phase,         \* seeking; dialed: c.conn is new; serving: c.isConnected
          stopping       \* Stop was called

sessionVars == <<current, alive, phase, stopping>>

SessionInit ==
  /\ current = NoConnection /\ alive = FALSE
  /\ phase = "seeking" /\ stopping = FALSE

Dial ==
  /\ phase = "seeking" /\ ~alive
  /\ phase' = "dialed" /\ alive' = TRUE
  /\ current' \notin {current, NoConnection}
  /\ UNCHANGED stopping

Publish ==
  /\ phase = "dialed" /\ phase' = "serving"
  /\ UNCHANGED <<current, alive, stopping>>

Break ==
  /\ alive /\ alive' = FALSE
  /\ UNCHANGED <<current, phase, stopping>>

Unpublish ==
  /\ phase = "serving" /\ phase' = "seeking"
  /\ UNCHANGED <<current, alive, stopping>>

TellStop == stopping' = TRUE /\ UNCHANGED <<current, alive, phase>>

Anything == stopping /\ stopping'

SessionNext == Dial \/ Publish \/ Break \/ Unpublish \/ TellStop \/ Anything

SessionSpec == SessionInit /\ [][SessionNext]_sessionVars
=============================================================================
