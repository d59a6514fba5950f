---------------------------- MODULE WsKeepAlive ----------------------------
(***************************************************************************)
(* The pinger goroutines on top of the lifecycle.  Every session starts    *)
(* one; its ticker stops with the session and its goroutine with the       *)
(* context or at a ping that failed.  A reader of a dead connection that   *)
(* has nothing to send would wait for ever: it is the pings that make TCP  *)
(* notice.  So the network may give up a connection at any time, but does  *)
(* so for certain only if something was sent on it that stays without an   *)
(* acknowledgement.  What the users send is left out: it could only help.  *)
(***************************************************************************)
EXTENDS WsLifecycle

VARIABLES pinger,    \* of the session in progress: none, waits (for its
                     \* ticker or the context), ended
          orphaned,  \* pingers of earlier sessions are left; without a
                     \* ticker they only wait for the context
          unacked    \* connections with a ping that was not acknowledged

pingVars == <<pinger, orphaned, unacked>>
aliveVars == <<vars, pingVars>>

AliveInit == Init /\ pinger = "none" /\ orphaned = FALSE /\ unacked = {}

Dials ==
  /\ DialSucceeds
  /\ unacked' = unacked \ {conn'} /\ UNCHANGED <<pinger, orphaned>>

\* Fault: only the first session gets a pinger.
StartsForFirst == Publish /\ pinger' = (IF orphaned THEN pinger ELSE "waits") /\ UNCHANGED <<orphaned, unacked>>

\* handleMessages begins.
Starts == Publish /\ pinger' = "waits" /\ UNCHANGED <<orphaned, unacked>>

\* It returns, and stops the ticker.
Leaves ==
  /\ pinger' = "none" /\ orphaned' = (orphaned \/ pinger = "waits")
  /\ UNCHANGED unacked

Ends == (SelectDone \/ ReadFails) /\ Leaves

\* A pong, too, fails on an open connection behind what is stuck, or after a ping
\* has failed, whose error the library keeps; nothing makes it fail for certain.
EndsOpen == (net = "down" \/ pinger = "ended") /\ PongFails /\ Leaves

\* A ping is acknowledged or not; on a connection that broke it may fail or
\* seem to be sent.
Pings ==
  /\ pinger = "waits" /\ link[conn] # "closed"
  /\ unacked' = IF net = "down" THEN unacked \cup {conn} ELSE unacked
  /\ UNCHANGED <<vars, pinger, orphaned>>

\* A ping that fails ends the pinger, whatever becomes of the session; on an
\* open connection it does when for ten seconds it cannot be sent, because
\* what was sent before it is stuck.
PingFails ==
  /\ pinger = "waits" /\ (link[conn] = "open" => conn \in unacked)
  /\ pinger' = "ended"
  /\ UNCHANGED <<vars, orphaned, unacked>>

PingerEnds ==
  /\ pinger = "waits" /\ cancelled
  /\ pinger' = "ended"
  /\ UNCHANGED <<vars, orphaned, unacked>>

OrphansEnd ==
  /\ orphaned /\ cancelled
  /\ orphaned' = FALSE
  /\ UNCHANGED <<vars, pinger, unacked>>

\* The network comes back, and what was sent is acknowledged; or it goes.
Changes == NetChanges /\ unacked' = {} /\ UNCHANGED <<pinger, orphaned>>

\* TCP gives a connection up.
GivesUp(c) == c \in unacked /\ Breaks(c) /\ UNCHANGED pingVars

SessionSteps ==
  \/ Dials \/ Starts \/ Ends
  \/ /\ \/ DialFails \/ Pause \/ SelectContinue \/ ReadReturns
        \/ Unpublish \/ CloseFailed \/ Decide
     /\ UNCHANGED pingVars

StopperSteps == Stopper /\ UNCHANGED pingVars

AliveNext ==
  \/ SessionSteps \/ EndsOpen \/ StopperSteps \/ Changes
  \/ Pings \/ PingFails \/ PingerEnds \/ OrphansEnd
  \/ /\ StartRun \/ StopCancel \/ \E c \in Conns : Arrives(c) \/ Breaks(c)
     /\ UNCHANGED pingVars

\* Goroutines run, tickers tick, and TCP gives up.
AliveSpec ==
  /\ AliveInit /\ [][AliveNext]_aliveVars
  /\ WF_aliveVars(SessionSteps) /\ WF_aliveVars(StopperSteps)
  /\ WF_aliveVars(Pings) /\ WF_aliveVars(PingerEnds) /\ WF_aliveVars(OrphansEnd)
  /\ \A c \in Conns : WF_aliveVars(GivesUp(c))
-----------------------------------------------------------------------------
(* Properties *)

\* A failed ping has ended the pinger of a session that goes on.
Silenced == InSession /\ pinger = "ended" /\ link[conn] = "open"

\* A network that stays down ends Run, by its budget if by nothing else, and
\* lets a caller of Stop return: pings find out, in every session, as long as
\* no session loses its pinger to a ping that failed on a connection that was
\* to survive.
DeadNetworkEndsRun ==
  <>[](net = "down" /\ ~Silenced) =>
    /\ runPc = "dial" ~> Done
    /\ stopPc = "check" /\ runPc # "idle" ~> stopPc = "back"

\* A session that nobody stopped loses its pinger only to a connection that
\* was lost or to an outage: without one no session is ever Silenced.
SilencedByOutage ==
  [][pinger = "waits" /\ pinger' = "ended" /\ ~cancelled =>
       link[conn] # "open" \/ net = "down"]_aliveVars

\* After Stop returned nothing of the client begins again: no session, no pinger
\* of one, and none more is left behind.
StopIsFinal ==
  [][stopPc = "back" =>
       stopPc' = "back" /\ runPc' = "returned" /\ pinger' = "none" /\ (orphaned' => orphaned)]_aliveVars

\* Every reconnect leaves a pinger behind, but a Stop that returned leaves none
\* for long, and nothing of the client goes on.
PingersEnd == (stopPc = "back") ~> [](pinger # "waits" /\ ~orphaned)
=============================================================================
