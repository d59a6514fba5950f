------------------------- MODULE WsLifecycle_proofs -------------------------
(***************************************************************************)
(* Proofs that the safety properties of WsLifecycle hold for any maximum,  *)
(* any set of connections and either form of the reset, that Run           *)
(* implements WsSupervisor and WsSession, and that pingers follow it.      *)
(***************************************************************************)
EXTENDS WsKeepAlive, TLAPS

\* Whether a success has used one of the attempts.
Spent == IF served THEN 1 ELSE 0

\* The loop counter is the number of failed dials plus the success before
\* them; what Run returns follows from it.
LoopInv ==
  /\ runPc = "returned" <=> result # "none"
  /\ runPc = "idle" => attempt = 0 /\ fails = 0 /\ ~served
  /\ runPc \notin {"idle", "returned"} => attempt < MaxReconnectAttempts
  /\ runPc = "dial" => attempt = fails + Spent
  /\ runPc = "pause" =>
       /\ attempt + 1 = fails + Spent
       /\ attempt + 1 < MaxReconnectAttempts \/ MaxReconnectAttempts = 1
  /\ runPc = "publish" => fails = 0
  /\ runPc \in {"select", "read", "failed", "closing", "decide"} =>
       attempt = 0 /\ fails = 0
  /\ GiveUpIsEarned
  /\ ExceededMeansNoRetry

\* The context is done as soon as Stop began; when Stop is about to close,
\* it holds the connection that a runner blocked in ReadMessage reads.
StopInv ==
  /\ stopPc = "idle" <=> ~cancelled
  /\ stopPc = "close" /\ runPc = "read" => stopConn = conn
  /\ StopClosesWhatIsRead

IInv == TypeOK /\ LoopInv /\ FlagFollowsSession /\ NoSocketLeaks /\ StopInv

LEMMA InitIInv == Init => IInv
<1> SUFFICES ASSUME Init PROVE IInv
  OBVIOUS
<1> USE ClientAssumption DEF Init
<1>1. TypeOK
  <2>1. link \in [Conns -> {"fresh", "open", "broken", "closed"}]
    OBVIOUS
  <2>2. inbox \in [Conns -> 0 .. MaxInbox]
    OBVIOUS
  <2> QED
    BY <2>1, <2>2 DEF TypeOK
<1>2. LoopInv
  BY DEF LoopInv, GiveUpIsEarned, ExceededMeansNoRetry, Spent
<1>3. FlagFollowsSession /\ NoSocketLeaks
  BY DEF FlagFollowsSession, NoSocketLeaks
<1>4. StopInv
  BY DEF StopInv, StopClosesWhatIsRead
<1> QED
  BY <1>1, <1>2, <1>3, <1>4 DEF IInv

LEMMA TypeStep == IInv /\ [Next]_vars => TypeOK'
<1> SUFFICES ASSUME IInv, [Next]_vars PROVE TypeOK'
  OBVIOUS
<1> USE ClientAssumption DEF IInv, TypeOK
<1>1. CASE StartRun
  BY <1>1 DEF StartRun, Return, clientVars, stopVars, netVars
<1>2. CASE DialSucceeds
  BY <1>2 DEF DialSucceeds, stopVars
<1>3. CASE DialFails
  BY <1>3 DEF DialFails, Return, clientVars, stopVars, netVars
<1>4. CASE Pause
  BY <1>4 DEF Pause, EndOfBody, Return, clientVars, stopVars, netVars
<1>5. CASE Publish
  BY <1>5 DEF Publish, ResetAttempt, stopVars, netVars
<1>6. CASE SelectContinue
  BY <1>6 DEF SelectContinue, clientVars, stopVars, netVars
<1>7. CASE SelectDone
  BY <1>7 DEF SelectDone, EndOfBody, Return, clientVars, stopVars, netVars
<1>8. CASE ReadReturns
  BY <1>8 DEF ReadReturns, clientVars, stopVars
<1>9. CASE ReadFails \/ PongFails
  BY <1>9 DEF ReadFails, PongFails, clientVars, stopVars, netVars
<1>10. CASE Unpublish
  BY <1>10 DEF Unpublish, stopVars, netVars
<1>11. CASE CloseFailed
  BY <1>11 DEF CloseFailed, clientVars, stopVars
<1>12. CASE Decide
  BY <1>12 DEF Decide, Return, clientVars, stopVars, netVars
<1>13. CASE StopCancel
  BY <1>13 DEF StopCancel, runVars, netVars
<1>14. CASE StopCheck
  BY <1>14 DEF StopCheck, clientVars, runVars, netVars
<1>15. CASE StopClose
  BY <1>15 DEF StopClose, clientVars, runVars
<1>16. CASE StopReturn
  BY <1>16 DEF StopReturn, clientVars, runVars, netVars
<1>17. CASE Network
  BY <1>17 DEF Network, NetChanges, Arrives, Breaks, clientVars, runVars, stopVars
<1>18. CASE UNCHANGED vars
  BY <1>18 DEF vars, clientVars, runVars, stopVars, netVars
<1> QED
  BY <1>1, <1>2, <1>3, <1>4, <1>5, <1>6, <1>7, <1>8, <1>9, <1>10, <1>11, <1>12,
     <1>13, <1>14, <1>15, <1>16, <1>17, <1>18 DEF Next, Runner, Stopper

LEMMA LoopStep == IInv /\ [Next]_vars => LoopInv'
<1> SUFFICES ASSUME IInv, [Next]_vars PROVE LoopInv'
  OBVIOUS
<1> USE ClientAssumption
    DEF IInv, TypeOK, LoopInv, GiveUpIsEarned, ExceededMeansNoRetry, Spent
<1>1. CASE StartRun
  BY <1>1 DEF StartRun, Return
<1>2. CASE DialSucceeds
  BY <1>2 DEF DialSucceeds
<1>3. CASE DialFails
  BY <1>3 DEF DialFails, Return
<1>4. CASE Pause
  BY <1>4 DEF Pause, EndOfBody, Return
<1>5. CASE Publish
  BY <1>5 DEF Publish, ResetAttempt
<1>6. CASE SelectContinue
  BY <1>6 DEF SelectContinue
<1>7. CASE SelectDone
  BY <1>7 DEF SelectDone, EndOfBody, Return
<1>8. CASE ReadReturns
  BY <1>8 DEF ReadReturns
<1>9. CASE ReadFails \/ PongFails
  BY <1>9 DEF ReadFails, PongFails
<1>10. CASE Unpublish
  BY <1>10 DEF Unpublish
<1>11. CASE CloseFailed
  BY <1>11 DEF CloseFailed
<1>12. CASE Decide
  BY <1>12 DEF Decide, Return
<1>13. CASE UNCHANGED runVars
  BY <1>13 DEF runVars
<1>14. StopCancel \/ Stopper \/ Network \/ UNCHANGED vars => UNCHANGED runVars
  BY DEF StopCancel, Stopper, StopCheck, StopClose, StopReturn,
         Network, NetChanges, Arrives, Breaks, vars
<1> QED
  BY <1>1, <1>2, <1>3, <1>4, <1>5, <1>6, <1>7, <1>8, <1>9, <1>10, <1>11, <1>12,
     <1>13, <1>14 DEF Next, Runner

LEMMA SocketStep ==
  IInv /\ [Next]_vars => FlagFollowsSession' /\ NoSocketLeaks'
<1> SUFFICES ASSUME IInv, [Next]_vars PROVE FlagFollowsSession' /\ NoSocketLeaks'
  OBVIOUS
<1> USE ClientAssumption DEF IInv, TypeOK, FlagFollowsSession, NoSocketLeaks
<1>1. CASE StartRun
  BY <1>1 DEF StartRun, Return, clientVars, netVars
<1>2. CASE DialSucceeds
  BY <1>2 DEF DialSucceeds
<1>3. CASE DialFails
  BY <1>3 DEF DialFails, Return, clientVars, netVars
<1>4. CASE Pause
  BY <1>4 DEF Pause, EndOfBody, Return, clientVars, netVars
<1>5. CASE Publish
  BY <1>5 DEF Publish, netVars
<1>6. CASE SelectContinue
  BY <1>6 DEF SelectContinue, clientVars, netVars
<1>7. CASE SelectDone
  BY <1>7 DEF SelectDone, clientVars
<1>8. CASE ReadReturns
  BY <1>8 DEF ReadReturns, clientVars
<1>9. CASE ReadFails \/ PongFails
  BY <1>9 DEF ReadFails, PongFails, clientVars, netVars
<1>10. CASE Unpublish
  BY <1>10 DEF Unpublish, netVars
<1>11. CASE CloseFailed
  BY <1>11 DEF CloseFailed, clientVars
<1>12. CASE Decide
  BY <1>12 DEF Decide, Return, clientVars, netVars
<1>13. CASE StopCancel
  BY <1>13 DEF StopCancel
<1>14. CASE Stopper
  BY <1>14 DEF Stopper, StopCheck, StopClose, StopReturn, StopInv, clientVars,
               runVars, netVars
<1>15. CASE Network
  BY <1>15 DEF Network, NetChanges, Arrives, Breaks, clientVars, runVars
<1>16. CASE UNCHANGED vars
  BY <1>16 DEF vars, clientVars, runVars, netVars
<1> QED
  BY <1>1, <1>2, <1>3, <1>4, <1>5, <1>6, <1>7, <1>8, <1>9, <1>10, <1>11, <1>12,
     <1>13, <1>14, <1>15, <1>16 DEF Next, Runner

LEMMA StopStep == IInv /\ [Next]_vars => StopInv'
<1> SUFFICES ASSUME IInv, [Next]_vars PROVE StopInv'
  OBVIOUS
<1> USE ClientAssumption DEF IInv, TypeOK, StopInv, StopClosesWhatIsRead
<1>1. CASE StartRun
  BY <1>1 DEF StartRun, Return, clientVars, stopVars
<1>2. CASE DialSucceeds
  BY <1>2 DEF DialSucceeds, stopVars
<1>3. CASE SelectContinue
  BY <1>3 DEF SelectContinue, clientVars, stopVars
<1>4. CASE CloseFailed
  BY <1>4 DEF CloseFailed, clientVars, stopVars
<1>5. CASE StopCancel
  BY <1>5 DEF StopCancel, runVars
<1>6. CASE StopCheck
  BY <1>6 DEF StopCheck, clientVars, runVars
<1>7. CASE StopClose
  BY <1>7 DEF StopClose, clientVars, runVars
<1>8. CASE StopReturn
  BY <1>8 DEF StopReturn, Done, clientVars, runVars
<1>9. CASE Network
  BY <1>9 DEF Network, NetChanges, Arrives, Breaks, clientVars, runVars, stopVars
<1>10. CASE UNCHANGED vars
  BY <1>10 DEF vars, clientVars, runVars, stopVars, netVars
<1>11. ASSUME DialFails \/ Pause \/ Publish \/ SelectDone \/ ReadReturns
              \/ ReadFails \/ PongFails \/ Unpublish \/ Decide
       PROVE  StopInv'
  BY <1>11 DEF DialFails, Pause, Publish, SelectDone, ReadReturns, ReadFails, PongFails,
               Unpublish, Decide, EndOfBody, Return, clientVars, stopVars
<1> QED
  BY <1>1, <1>2, <1>3, <1>4, <1>5, <1>6, <1>7, <1>8, <1>9, <1>10, <1>11
  DEF Next, Runner, Stopper

\* The inductive invariant of Run, Stop and the network.
THEOREM Inductive == Spec => []IInv
<1>1. IInv /\ [Next]_vars => IInv'
  BY TypeStep, LoopStep, SocketStep, StopStep DEF IInv
<1> QED
  BY InitIInv, <1>1, PTL DEF Spec

\* Type correctness, for any maximum, connections and buffer bound.
THEOREM TypeCorrect == Spec => []TypeOK
  BY Inductive, PTL DEF IInv

\* The guarded and the unguarded reset agree: a session starts at zero.
THEOREM SessionFresh == Spec => []SessionStartsFresh
<1>1. IInv => SessionStartsFresh
  BY DEF IInv, LoopInv, SessionStartsFresh, InSession
<1> QED
  BY <1>1, Inductive, PTL

\* Run gives up only after the dials that its maximum grants it failed.
THEOREM GiveUpEarned == Spec => []GiveUpIsEarned
  BY Inductive, PTL DEF IInv, LoopInv

\* A client with a retry to spend never counts itself out.
THEOREM ExceededNoRetry == Spec => []ExceededMeansNoRetry
  BY Inductive, PTL DEF IInv, LoopInv

\* The senders' flag is up exactly in a session, as long as nobody stops.
THEOREM FlagRight == Spec => []FlagFollowsSession
  BY Inductive, PTL DEF IInv

\* Reconnecting and giving up leak no socket, as long as nobody stops.
THEOREM SocketsClosed == Spec => []NoSocketLeaks
  BY Inductive, PTL DEF IInv

\* Stop closes the connection that the runner is blocked on.
THEOREM StopWakesReader == Spec => []StopClosesWhatIsRead
  BY Inductive, PTL DEF IInv, StopInv
-----------------------------------------------------------------------------
LEMMA SupervisorStart == Init => Supervisor!SupervisorInit
  BY DEF Init, Supervisor!SupervisorInit, Phase, Done

LEMMA SupervisorStep ==
  IInv /\ [Next]_vars =>
    [Supervisor!SupervisorNext]_(Supervisor!supervisorVars)
<1> SUFFICES ASSUME IInv, [Next]_vars
             PROVE  Supervisor!SupervisorNext \/ UNCHANGED <<Phase, fails, cancelled>>
  BY DEF Supervisor!supervisorVars
<1> USE ClientAssumption
    DEF IInv, TypeOK, LoopInv, Spent, Phase, Done, Supervisor!SupervisorNext
<1>1. CASE StartRun
  BY <1>1 DEF StartRun, Return, clientVars, Supervisor!Begin
<1>2. CASE DialSucceeds
  BY <1>2 DEF DialSucceeds, Supervisor!Hit
<1>3. CASE DialFails
  BY <1>3 DEF DialFails, Return, clientVars, Supervisor!Miss
<1>4. CASE Pause
  BY <1>4 DEF Pause, EndOfBody, Return, clientVars, Supervisor!EndSingle
<1>5. CASE SelectDone
  BY <1>5 DEF SelectDone, EndOfBody, Return, clientVars, Supervisor!EndSingle,
              Supervisor!Lose
<1>6. CASE Decide
  BY <1>6 DEF Decide, Return, clientVars, Supervisor!EndStopped, Supervisor!Lose
<1>7. CASE StopCancel
  BY <1>7 DEF StopCancel, runVars, Supervisor!TellStop
<1>8. ASSUME Publish \/ SelectContinue \/ ReadReturns \/ ReadFails \/ PongFails
             \/ Unpublish \/ CloseFailed
      PROVE  UNCHANGED <<Phase, fails, cancelled>>
  BY <1>8 DEF Publish, SelectContinue, ReadReturns, ReadFails, PongFails, Unpublish,
              CloseFailed, clientVars
<1>9. ASSUME Stopper \/ Network \/ UNCHANGED vars
      PROVE  UNCHANGED <<Phase, fails, cancelled>>
  BY <1>9 DEF Stopper, StopCheck, StopClose, StopReturn, Network, NetChanges,
              Arrives, Breaks, clientVars, runVars, vars
<1> QED
  BY <1>1, <1>2, <1>3, <1>4, <1>5, <1>6, <1>7, <1>8, <1>9 DEF Next, Runner

\* Run implements the supervisor, whatever its maximum.
THEOREM RunSupervises == Spec => ImplementsSupervisor
<1>1. Init => Supervisor!SupervisorInit
  BY SupervisorStart
<1>2. IInv /\ [Next]_vars =>
        [Supervisor!SupervisorNext]_(Supervisor!supervisorVars)
  BY SupervisorStep
<1> QED
  BY <1>1, <1>2, Inductive, PTL
  DEF Spec, ImplementsSupervisor, Supervisor!SupervisorSpec

-----------------------------------------------------------------------------
(* What senders and handlers see *)

LEMMA SessionStart == Init => Session!SessionInit
  BY DEF Init, Session!SessionInit

LEMMA SessionStep ==
  IInv /\ [Next]_vars => [Session!SessionNext]_(Session!sessionVars)
<1> DEFINE alive == conn # Nil /\ link[conn] = "open"
           phase == IF isConnected THEN "serving"
                    ELSE IF runPc = "publish" THEN "dialed" ELSE "seeking"
<1> SUFFICES ASSUME IInv, [Next]_vars
             PROVE  Session!SessionNext \/ UNCHANGED <<conn, alive, phase, cancelled>>
  BY DEF Session!sessionVars
<1>1. CASE cancelled
  <2>1. cancelled'
    BY <1>1 DEF Next, StartRun, Runner, DialSucceeds, DialFails, Pause, Publish, SelectContinue,
        SelectDone, ReadReturns, ReadFails, PongFails, Unpublish, CloseFailed, Decide, StopCancel,
        Stopper, StopCheck, StopClose, StopReturn, Network, NetChanges, Arrives, Breaks,
        clientVars, vars
  <2> QED
    BY <1>1, <2>1 DEF Session!SessionNext, Session!Anything
<1>2. CASE ~cancelled
  <2> USE <1>2, ClientAssumption
      DEF IInv, TypeOK, FlagFollowsSession, NoSocketLeaks, Session!SessionNext
  <2>1. CASE DialSucceeds
    BY <2>1 DEF DialSucceeds, Session!Dial
  <2>2. CASE Publish
    BY <2>2 DEF Publish, netVars, Session!Publish
  <2>3. CASE Unpublish
    BY <2>3 DEF Unpublish, netVars, Session!Unpublish
  <2>4. CASE CloseFailed
    BY <2>4 DEF CloseFailed, clientVars, Session!Break
  <2>5. CASE StopCancel
    BY <2>5 DEF StopCancel, runVars, netVars, Session!TellStop
  <2>6. CASE Stopper
    BY <2>6 DEF Stopper, StopInv, StopCheck, StopClose, StopReturn, clientVars, runVars,
                netVars
  <2>7. CASE Network
    BY <2>7 DEF Network, NetChanges, Arrives, Breaks, clientVars, runVars, Session!Break
  <2>8. ASSUME StartRun \/ DialFails \/ Pause \/ SelectContinue \/ SelectDone
               \/ ReadReturns \/ ReadFails \/ PongFails \/ Decide
        PROVE  UNCHANGED <<conn, alive, phase, cancelled>>
    BY <2>8 DEF StartRun, DialFails, Pause, SelectContinue, SelectDone, ReadReturns,
                ReadFails, PongFails, Decide, EndOfBody, Return, clientVars, netVars
  <2>9. CASE UNCHANGED vars
    BY <2>9 DEF vars, clientVars, runVars, netVars
  <2> QED
    BY <2>1, <2>2, <2>3, <2>4, <2>5, <2>6, <2>7, <2>8, <2>9 DEF Next, Runner
<1> QED
  BY <1>1, <1>2

\* Whoever sees only c.conn and c.isConnected sees the connections of WsSession,
\* however dials, failures, Stop and the network interleave.
THEOREM SendersSeeSessions == Spec => ImplementsSession
<1> QED
  BY SessionStart, SessionStep, Inductive, PTL
  DEF Spec, ImplementsSession, Session!SessionSpec

-----------------------------------------------------------------------------
(* With the pingers *)

\* Nothing that the pinger goroutines do, nor what the network knows of their
\* pings, adds a step to the client: all of the theorems above hold for a
\* client with its keep-alive.
LEMMA AliveStep == [AliveNext]_aliveVars => [Next]_vars
<1> SUFFICES ASSUME [AliveNext]_aliveVars PROVE [Next]_vars
  OBVIOUS
<1>1. CASE SessionSteps \/ EndsOpen
  BY <1>1 DEF SessionSteps, Dials, Starts, Ends, EndsOpen, Next, Runner
<1>2. CASE StopperSteps \/ Changes
  BY <1>2 DEF StopperSteps, Changes, Next, Network
<1>3. CASE Pings \/ PingFails \/ PingerEnds \/ OrphansEnd
  BY <1>3 DEF Pings, PingFails, PingerEnds, OrphansEnd
<1>4. CASE StartRun \/ StopCancel \/ \E c \in Conns : Arrives(c) \/ Breaks(c)
  BY <1>4 DEF Next, Network
<1>5. CASE UNCHANGED aliveVars
  BY <1>5 DEF aliveVars
<1> QED
  BY <1>1, <1>2, <1>3, <1>4, <1>5 DEF AliveNext

\* The client with its pinger goroutines is a client of the lifecycle, so
\* Run supervises its sessions, and senders see them, as they do without.
THEOREM AliveIsLifecycle == AliveSpec => Spec /\ ImplementsSupervisor /\ ImplementsSession
<1>1. AliveInit => Init
  BY DEF AliveInit
<1>2. [AliveNext]_aliveVars => [Next]_vars
  BY AliveStep
<1>3. AliveSpec => Spec
  BY <1>1, <1>2, PTL DEF AliveSpec, Spec
<1> QED
  BY <1>3, RunSupervises, SendersSeeSessions

\* There is a pinger exactly in a session; what is not acknowledged is on the
\* current connection, and the network is down; Stop returned after Run.
PingersInv ==
  /\ pinger # "none" <=> InSession
  /\ unacked # {} => net = "down" /\ unacked = {conn}
  /\ stopPc = "back" => Done

LEMMA PingersStart == AliveInit => PingersInv
BY DEF AliveInit, Init, PingersInv, InSession

LEMMA PingersStep == IInv /\ PingersInv /\ [AliveNext]_aliveVars => PingersInv'
<1> SUFFICES ASSUME IInv, PingersInv, [AliveNext]_aliveVars PROVE PingersInv'
  OBVIOUS
<1> USE DEF PingersInv, InSession, Done
<1>1. CASE Dials
  BY <1>1 DEF Dials, DialSucceeds, stopVars
<1>2. CASE Starts
  BY <1>2 DEF Starts, Publish, stopVars, netVars
<1>3. CASE Ends \/ EndsOpen
  BY <1>3 DEF Ends, EndsOpen, Leaves, SelectDone, ReadFails, PongFails, EndOfBody, Return, clientVars, stopVars, netVars
<1>4. CASE /\ \/ DialFails \/ Pause \/ SelectContinue \/ ReadReturns
              \/ Unpublish \/ CloseFailed \/ Decide
           /\ UNCHANGED pingVars
  BY <1>4 DEF DialFails, Pause, SelectContinue, ReadReturns, Unpublish, CloseFailed, Decide,
              EndOfBody, Return, clientVars, stopVars, netVars, pingVars
<1>5. CASE StopperSteps
  BY <1>5 DEF StopperSteps, Stopper, StopCheck, StopClose, StopReturn, clientVars, runVars,
              netVars, pingVars
<1>6. CASE Changes
  BY <1>6 DEF Changes, NetChanges, runVars, stopVars
<1>7. CASE Pings \/ PingFails \/ PingerEnds \/ OrphansEnd
  BY <1>7 DEF Pings, PingFails, PingerEnds, OrphansEnd, vars, clientVars, runVars, stopVars, netVars
<1>8. CASE /\ StartRun \/ StopCancel \/ \E c \in Conns : Arrives(c) \/ Breaks(c)
           /\ UNCHANGED pingVars
  BY <1>8 DEF StartRun, StopCancel, Arrives, Breaks, Return, clientVars, runVars, stopVars,
              netVars, pingVars
<1>9. CASE UNCHANGED aliveVars
  BY <1>9 DEF aliveVars, vars, clientVars, runVars, stopVars, netVars, pingVars
<1> QED
  BY <1>1, <1>2, <1>3, <1>4, <1>5, <1>6, <1>7, <1>8, <1>9 DEF AliveNext, SessionSteps

THEOREM PingersInductive == AliveSpec => [](IInv /\ PingersInv)
  BY AliveIsLifecycle, Inductive, PingersStart, PingersStep, PTL DEF AliveSpec

\* A session that is Silenced went through an outage: a ping fails on an open
\* connection only behind one that was not acknowledged.
THEOREM OutageSilences == AliveSpec => SilencedByOutage
<1>1. PingersInv /\ [AliveNext]_aliveVars =>
        [pinger = "waits" /\ pinger' = "ended" /\ ~cancelled =>
           link[conn] # "open" \/ net = "down"]_aliveVars
  <2> SUFFICES ASSUME PingersInv, AliveNext, pinger = "waits", pinger' = "ended", ~cancelled
               PROVE  link[conn] # "open" \/ net = "down"
    OBVIOUS
  <2>1. CASE PingFails
    BY <2>1 DEF PingFails, PingersInv
  <2> QED
    BY <2>1 DEF AliveNext, SessionSteps, Dials, Starts, Ends, EndsOpen, Leaves, StopperSteps, Changes, Pings,
                PingerEnds, OrphansEnd, pingVars
<1> QED
  BY <1>1, PingersInductive, PTL DEF AliveSpec, SilencedByOutage

\* What PingersEnd asks of the time after Stop, but for the pingers that still
\* wait for the context, which fairness ends.
THEOREM StopEndsAll == AliveSpec => StopIsFinal
<1>1. IInv /\ PingersInv /\ PingersInv' /\ [AliveNext]_aliveVars =>
        [stopPc = "back" => stopPc' = "back" /\ runPc' = "returned" /\ pinger' = "none"
                              /\ (orphaned' => orphaned)]_aliveVars
  <2> SUFFICES ASSUME PingersInv, PingersInv', AliveNext, stopPc = "back"
               PROVE  /\ stopPc' = "back" /\ runPc' = "returned" /\ pinger' = "none"
                      /\ (orphaned' => orphaned)
    OBVIOUS
  <2>1. runPc = "returned" /\ pinger = "none"
    BY DEF PingersInv, InSession, Done
  <2>2. stopPc' = "back"
    BY <2>1 DEF AliveNext, SessionSteps, Dials, Starts, Ends, EndsOpen, Leaves, StopperSteps, Changes, Pings,
                PingFails, PingerEnds, OrphansEnd, DialSucceeds, DialFails, Pause, Publish,
                SelectContinue, SelectDone, ReadReturns, ReadFails, PongFails, Unpublish, CloseFailed,
                Decide, Stopper, StopCheck, StopClose, StopReturn, StartRun, StopCancel,
                NetChanges, Arrives, Breaks, stopVars, vars
  <2>3. orphaned' => orphaned
    BY <2>1 DEF AliveNext, SessionSteps, Dials, Starts, Ends, EndsOpen, Leaves, StopperSteps, Changes, Pings,
                PingFails, PingerEnds, OrphansEnd, pingVars
  <2> QED
    BY <2>2, <2>3 DEF PingersInv, InSession, Done
<1> QED
  BY <1>1, PingersInductive, PTL DEF AliveSpec, StopIsFinal
=============================================================================
