----------------------------- MODULE MarketFeed -----------------------------
(***************************************************************************)
(* What the server sees of a client's subscriptions: connections that come *)
(* one after the other, on each of them nothing before its greeting, and   *)
(* then the registered markets in the order of their registration, none    *)
(* left out before another and none again.  A connection can end at any    *)
(* place in this.                                                          *)
(***************************************************************************)
EXTENDS Naturals

CONSTANTS NoConnection,  \* before the first connection
          Count          \* how many markets are registered

VARIABLES current,       \* the connection of the client
          greeted,       \* the server sent its greeting on it
          heard          \* how often each market was subscribed on it

feedView == <<current, greeted, heard>>

Registered == 1 .. Count

NotHeard == [m \in Registered |-> 0]

FeedStart == current = NoConnection /\ greeted = FALSE /\ heard = NotHeard

Comes ==
  /\ current' \notin {current, NoConnection}
  /\ greeted' = FALSE /\ heard' = NotHeard

Greets ==
  /\ current # NoConnection /\ ~greeted /\ greeted' = TRUE
  /\ UNCHANGED <<current, heard>>

Subscribes(m) ==
  /\ greeted /\ heard = [l \in Registered |-> IF l < m THEN 1 ELSE 0]
  /\ heard' = [heard EXCEPT ![m] = 1]
  /\ UNCHANGED <<current, greeted>>

FeedMoves == Comes \/ Greets \/ \E m \in Registered : Subscribes(m)

MarketFeedSpec == FeedStart /\ [][FeedMoves]_feedView
=============================================================================
