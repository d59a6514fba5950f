----------------------- MODULE WsSubscriptions_proofs -----------------------
(***************************************************************************)
(* Proofs about the subscriptions across sessions, for any connections,    *)
(* handlers, subscriptions and clock.  The lifecycle's inductive invariant *)
(* is taken from WsLifecycle_proofs: every step of FeedNext is a step of   *)
(* the lifecycle or leaves it alone, and none of them is Stop's.           *)
(***************************************************************************)
EXTENDS WsSubscriptions, WsLifecycle_proofs

\* A handler that is idle handles no greeting.
TasksInv == \A h \in Handlers : Greeting(h) => task[h].pc # "idle"

FeedTypeInv == IInv /\ ~cancelled /\ FeedTypeOK /\ TasksInv

\* The greeting of a connection is still to come, or still to be read.
Awaits(c) == c \notin greeted \/ \E i \in DOMAIN wire[c] : wire[c][i] = "connected"

\* The server greets once, before everything else, and a greeting that was not
\* read has no handler.
GreetingInv ==
  \A c \in Conns :
    /\ c \notin greeted => wire[c] = <<>>
    /\ \A i \in DOMAIN wire[c] : wire[c][i] = "connected" => i = 1
    /\ Awaits(c) => \A h \in Handlers : Greeting(h) => task[h].from # c

\* The flag is up.
Flagged == runPc \in {"select", "read", "failed"}

\* Every market of a session whose greeting was read has been heard of or is
\* still ahead of a handler of that greeting.
CoverInv ==
  /\ runPc = "publish" => Awaits(conn)
  /\ Flagged /\ link[conn] = "open" /\ ~Awaits(conn) =>
       \A m \in Markets :
         \/ heard[conn][m] > 0
         \/ \E h \in Handlers : Greeting(h) /\ task[h].from = conn /\ task[h].next <= m

\* There is at most one handler of a greeting; its session has not been
\* followed by another, and the markets ahead of it are new to the server.
OneHandlerInv ==
  /\ \A c \in Conns : Awaits(c) => \A m \in Markets : heard[c][m] = 0
  /\ \A h \in Handlers : Greeting(h) =>
       /\ task[h].from = conn
       /\ runPc \in {"select", "read", "failed", "closing", "decide", "pause"}
       /\ \A m \in Markets : task[h].next <= m => heard[conn][m] = 0
       /\ \A k \in Handlers : Greeting(k) => k = h
  /\ SubscribedOnce

\* When the flag is down and the connection not yet closed, the last write of a
\* greeting's handler still comes in its turn.
LastWriteInv ==
  runPc = "closing" /\ link[conn] = "open" =>
    \A h \in Handlers : Greeting(h) /\ task[h].pc = "write" =>
      \A m \in Markets : m < task[h].next => heard[conn][m] > 0

FeedIInv ==
  /\ FeedTypeInv /\ GreetingInv
  /\ TokenLife <= MaxTokenLife => CoverInv
  /\ PauseOutlasts => OneHandlerInv
  /\ PauseOutlasts /\ TokenLife <= MaxTokenLife => LastWriteInv
  /\ Second <= TokenLife => RenewedInTime
-----------------------------------------------------------------------------
(* Tokens *)

LEMMA UnixBounds ==
  ASSUME NEW t \in Int
  PROVE  Unix(t) \in Int /\ Unix(t) <= t /\ t - Second < Unix(t)
<1>1. Second \in Nat /\ Second > 0
  BY TokenAssumption
<1>2. t % Second \in 0 .. Second - 1
  BY <1>1
<1> QED BY <1>1, <1>2 DEF Unix

\* The default deadline is exactly as far as the limit allows, and time passes
\* before the limit is tested: the token is never refused for it, and it is good
\* for the whole time but for what was passed and less than a second.
THEOREM DefaultIsAccepted ==
  ASSUME NEW now \in Nat, NEW later \in Nat, now <= later
  PROVE  LET token == GetAuthToken(later, DefaultDeadline(now))
         IN  /\ token # None
             /\ token > now + MaxTokenLife - 2 * Second
<1>1. /\ DefaultDeadline(now) \in Int /\ DefaultDeadline(now) <= now + MaxTokenLife
      /\ now + MaxTokenLife - Second < DefaultDeadline(now)
  <2>1. now + MaxTokenLife \in Int BY TokenAssumption
  <2>2. /\ Unix(now + MaxTokenLife) \in Int
        /\ Unix(now + MaxTokenLife) <= now + MaxTokenLife
        /\ (now + MaxTokenLife) - Second < Unix(now + MaxTokenLife)
    BY <2>1, UnixBounds
  <2> QED BY <2>2, TokenAssumption DEF DefaultDeadline
<1>2. GetAuthToken(later, DefaultDeadline(now)) = Unix(DefaultDeadline(now))
  BY <1>1, TokenAssumption DEF GetAuthToken
<1>3. Unix(DefaultDeadline(now)) \in Int /\ DefaultDeadline(now) - Second < Unix(DefaultDeadline(now))
  BY <1>1, UnixBounds
<1> QED BY <1>1, <1>2, <1>3, TokenAssumption

\* The client's six hours are within the limit, whenever it asks.
THEOREM ClientIsAccepted ==
  ASSUME NEW now \in Nat, TokenLife <= MaxTokenLife
  PROVE  GetAuthToken(now, now + TokenLife) # None
<1>1. now + TokenLife \in Int /\ (now + TokenLife) - now <= MaxTokenLife
  BY TokenAssumption
<1>2. Unix(now + TokenLife) \in Int
  BY <1>1, UnixBounds
<1> QED BY <1>1, <1>2, TokenAssumption DEF GetAuthToken
-----------------------------------------------------------------------------
(* The lifecycle *)

LEMMA MarketsAre == Markets = 1 .. Len(Subs) /\ Len(Subs) \in Nat /\ 1 \in Markets
  BY FeedAssumption DEF Markets

\* A lifecycle step that the feed takes without touching its own variables.
Aside ==
  /\ \/ DialFails \/ Publish \/ SelectContinue \/ ReadFails \/ PongFails
     \/ Unpublish \/ CloseFailed \/ Decide
     \/ StartRun \/ NetChanges \/ \E c \in Conns : Breaks(c)
  /\ UNCHANGED feedVars

LEMMA FeedCases ==
  ASSUME [FeedNext]_allVars
  PROVE  \/ Connects \/ Dispatches \/ WakesUp \/ Aside \/ Passes
         \/ \E c \in Conns : Receives(c)
         \/ \E h \in Handlers : Handles(h)
         \/ UNCHANGED allVars
  BY DEF FeedNext, RunnerSteps, OtherSteps, Aside

LEMMA HandlesLeaves ==
  ASSUME NEW h \in Handlers, Handles(h)
  PROVE  UNCHANGED <<vars, wire, greeted, clock>>
  BY DEF Handles, SleepEnds, CheckPasses, CheckRefuses, Writes, WriteOn

LEMMA FeedStepIsStep == [FeedNext]_allVars => [Next]_vars /\ (~cancelled => ~cancelled')
<1> SUFFICES ASSUME [FeedNext]_allVars PROVE [Next]_vars /\ (~cancelled => ~cancelled')
  OBVIOUS
<1>1. CASE Connects
  BY <1>1 DEF Connects, Next, Runner, DialSucceeds
<1>2. CASE Dispatches
  BY <1>2 DEF Dispatches, Next, Runner, ReadReturns, clientVars
<1>3. CASE WakesUp
  BY <1>3 DEF WakesUp, Next, Runner, Pause, clientVars
<1>4. CASE Aside
  <2>1. Next
    BY <1>4 DEF Aside, Next, Runner, Network
  <2>2. UNCHANGED cancelled
    BY <1>4 DEF Aside, DialFails, Publish, SelectContinue, ReadFails, PongFails, Unpublish,
                CloseFailed, Decide, StartRun, NetChanges, Breaks, clientVars
  <2> QED BY <2>1, <2>2
<1>5. CASE Passes
  BY <1>5 DEF Passes, vars, clientVars
<1>6. ASSUME NEW c \in Conns, Receives(c) PROVE [Next]_vars /\ (~cancelled => ~cancelled')
  BY <1>6 DEF Receives, Next, Network, Arrives, clientVars
<1>7. ASSUME NEW h \in Handlers, Handles(h) PROVE [Next]_vars /\ (~cancelled => ~cancelled')
  BY <1>7, HandlesLeaves DEF vars, clientVars
<1>8. CASE UNCHANGED allVars
  BY <1>8 DEF allVars, vars, clientVars
<1> QED BY <1>1, <1>2, <1>3, <1>4, <1>5, <1>6, <1>7, <1>8, FeedCases

LEMMA LifecycleStep == IInv /\ ~cancelled /\ [FeedNext]_allVars => IInv' /\ ~cancelled'
<1> SUFFICES ASSUME IInv, ~cancelled, [FeedNext]_allVars PROVE IInv' /\ ~cancelled'
  OBVIOUS
<1>1. [Next]_vars /\ ~cancelled'
  BY FeedStepIsStep
<1> QED BY <1>1, TypeStep, LoopStep, SocketStep, StopStep DEF IInv
-----------------------------------------------------------------------------
(* Types and handlers *)

\* What a handler goroutine can be.
Tasks == [pc   : {"idle", "sleep", "check", "write"},
          kind : {"none", "connected", "ping"},
          from : Conns \cup {Nil}, next : Markets]

LEMMA FeedInitTypes == FeedInit => FeedTypeInv
<1> SUFFICES ASSUME FeedInit PROVE FeedTypeInv
  OBVIOUS
<1>1. IInv /\ ~cancelled
  BY InitIInv DEF FeedInit, Init
<1>2. FeedTypeOK
  <2> USE FeedAssumption, MarketsAre DEF FeedInit
  <2>1. task \in [Handlers -> Tasks]
    <3>1. NoTask \in Tasks
      BY DEF NoTask, Tasks
    <3> QED BY <3>1
  <2>2. wire \in [Conns -> Seq({"connected", "ping"})]
    OBVIOUS
  <2>3. \A c \in Conns : Len(wire[c]) = inbox[c]
    BY DEF Init
  <2>4. heard \in [Conns -> [Markets -> 0 .. 2]] /\ late \in [Conns -> SUBSET Markets]
    OBVIOUS
  <2>5. \A h \in Handlers : task[h].pc # "write"
    BY DEF NoTask
  <2> QED BY <2>1, <2>2, <2>3, <2>4, <2>5 DEF FeedTypeOK, Tasks
<1>3. TasksInv
  BY DEF FeedInit, TasksInv, Greeting, NoTask
<1> QED BY <1>1, <1>2, <1>3 DEF FeedTypeInv

\* A step of one handler changes its own task and nothing else in task: it
\* stays with its market, goes on to the next one, or ends.
HandlerMoves(h) ==
  \/ \E p \in {"check", "write"} : task' = [task EXCEPT ![h].pc = p]
  \/ /\ Greeting(h) /\ task[h].next < Len(Subs)
     /\ task' = [task EXCEPT ![h].pc = "check", ![h].next = @ + 1]
  \/ /\ ~(Greeting(h) /\ task[h].next < Len(Subs))
     /\ task' = [task EXCEPT ![h] = NoTask]

LEMMA HandlesMoves ==
  ASSUME NEW h \in Handlers, Handles(h), FeedTypeOK
  PROVE  HandlerMoves(h) /\ (task[h].pc # "idle")
<1>1. CASE SleepEnds(h)
  BY <1>1 DEF SleepEnds, HandlerMoves
<1>2. CASE CheckPasses(h)
  BY <1>2 DEF CheckPasses, HandlerMoves
<1>3. ASSUME Continue(h) PROVE HandlerMoves(h)
  BY <1>3 DEF Continue, HandlerMoves
<1>4. CASE CheckRefuses(h) \/ Writes(h)
  BY <1>3, <1>4 DEF CheckRefuses, Writes, WriteOn
<1> QED BY <1>1, <1>2, <1>4 DEF Handles

LEMMA MoveTypes ==
  ASSUME NEW h \in Handlers, HandlerMoves(h), task \in [Handlers -> Tasks]
  PROVE  task' \in [Handlers -> Tasks]
<1> USE MarketsAre
<1>1. task[h] \in Tasks
  OBVIOUS
<1>5. NoTask \in Tasks
  BY DEF NoTask, Tasks
<1>2. ASSUME NEW p \in {"check", "write"}, task' = [task EXCEPT ![h].pc = p]
      PROVE  task' \in [Handlers -> Tasks]
  BY <1>1, <1>2 DEF Tasks
<1>3. ASSUME task[h].next < Len(Subs),
             task' = [task EXCEPT ![h].pc = "check", ![h].next = @ + 1]
      PROVE  task' \in [Handlers -> Tasks]
  <2>1. task[h].next + 1 \in Markets
    BY <1>1, <1>3 DEF Tasks
  <2> QED BY <1>1, <1>3, <2>1 DEF Tasks
<1>4. ASSUME task' = [task EXCEPT ![h] = NoTask] PROVE task' \in [Handlers -> Tasks]
  BY <1>4, <1>5
<1> QED BY <1>2, <1>3, <1>4 DEF HandlerMoves

\* After a dial no connection lives on under the new one's identity.
LEMMA ConnectsTypes == FeedTypeInv /\ Connects => FeedTypeOK' /\ TasksInv'
<1> SUFFICES ASSUME FeedTypeInv, Connects PROVE FeedTypeOK' /\ TasksInv'
  OBVIOUS
<1> USE MarketsAre DEF FeedTypeInv, IInv, TypeOK
<1>1. PICK c \in Conns : conn' = c /\ inbox' = [inbox EXCEPT ![c] = 0]
  BY DEF Connects, DialSucceeds
<1>2. /\ wire' = [wire EXCEPT ![c] = <<>>] /\ greeted' = greeted \ {c}
      /\ heard' = [heard EXCEPT ![c] = [m \in Markets |-> 0]]
      /\ late' = [late EXCEPT ![c] = {}] /\ clock' = clock
      /\ task' = [h \in Handlers |-> IF task[h].from = c
                                     THEN [task[h] EXCEPT !.from = Nil] ELSE task[h]]
  BY <1>1 DEF Connects
<1>3. task \in [Handlers -> Tasks]
  BY DEF FeedTypeOK, Tasks
<1>4. task' \in [Handlers -> Tasks]
  <2>1. \A h \in Handlers : [task[h] EXCEPT !.from = Nil] \in Tasks
    BY <1>3 DEF Tasks
  <2> QED BY <1>2, <1>3, <2>1
<1>5. \A h \in Handlers : task'[h].pc = task[h].pc /\ task'[h].kind = task[h].kind
  <2>1. \A h \in Handlers : /\ [task[h] EXCEPT !.from = Nil].pc = task[h].pc
                            /\ [task[h] EXCEPT !.from = Nil].kind = task[h].kind
    BY <1>3 DEF Tasks
  <2> QED BY <1>2, <2>1
<1>6. wire' \in [Conns -> Seq({"connected", "ping"})] /\ \A d \in Conns : Len(wire'[d]) = inbox'[d]
  BY <1>1, <1>2 DEF FeedTypeOK
<1>7. heard' \in [Conns -> [Markets -> 0 .. 2]]
  <2>1. [m \in Markets |-> 0] \in [Markets -> 0 .. 2]
    OBVIOUS
  <2> QED BY <1>2, <2>1 DEF FeedTypeOK
<1>8. late' \in [Conns -> SUBSET Markets]
  BY <1>2 DEF FeedTypeOK
<1>9. conn' # Nil
  BY <1>1, ClientAssumption
<1> QED BY <1>2, <1>4, <1>5, <1>6, <1>7, <1>8, <1>9 DEF FeedTypeOK, TasksInv, Greeting, Tasks

LEMMA DispatchesTypes == FeedTypeInv /\ Dispatches => FeedTypeOK' /\ TasksInv'
<1> SUFFICES ASSUME FeedTypeInv, Dispatches PROVE FeedTypeOK' /\ TasksInv'
  OBVIOUS
<1> USE MarketsAre DEF FeedTypeInv, IInv, TypeOK
<1>1. /\ conn \in Conns /\ inbox[conn] > 0 /\ inbox' = [inbox EXCEPT ![conn] = @ - 1]
      /\ conn' = conn
  BY DEF Dispatches, ReadReturns, clientVars
<1>2. wire[conn] \in Seq({"connected", "ping"}) /\ Len(wire[conn]) = inbox[conn]
  BY <1>1 DEF FeedTypeOK
<1>3. Head(wire[conn]) \in {"connected", "ping"}
  BY <1>1, <1>2
<1>4. PICK h \in Handlers :
        /\ task[h].pc = "idle"
        /\ task' = [task EXCEPT ![h] =
             [pc   |-> IF Head(wire[conn]) = "connected" THEN "sleep" ELSE "check",
              kind |-> Head(wire[conn]), from |-> conn, next |-> 1]]
  BY DEF Dispatches
<1>5. task' \in [Handlers -> Tasks]
  <2>1. [pc   |-> IF Head(wire[conn]) = "connected" THEN "sleep" ELSE "check",
         kind |-> Head(wire[conn]), from |-> conn, next |-> 1] \in Tasks
    BY <1>1, <1>3 DEF Tasks
  <2> QED BY <1>4, <2>1 DEF FeedTypeOK, Tasks
<1>6. TasksInv' /\ \A k \in Handlers : task'[k].pc = "write" => conn' # Nil
  BY <1>1, <1>4 DEF FeedTypeOK, TasksInv, Greeting
<1>7. wire' = [wire EXCEPT ![conn] = Tail(@)] /\ UNCHANGED <<greeted, clock, heard, late>>
  BY DEF Dispatches
<1>8. Tail(wire[conn]) \in Seq({"connected", "ping"})
      /\ Len(Tail(wire[conn])) = inbox[conn] - 1
  BY <1>1, <1>2
<1>9. wire' \in [Conns -> Seq({"connected", "ping"})] /\ \A d \in Conns : Len(wire'[d]) = inbox'[d]
  BY <1>1, <1>7, <1>8 DEF FeedTypeOK
<1> QED BY <1>5, <1>6, <1>7, <1>9 DEF FeedTypeOK, Tasks

LEMMA ReceivesTypes ==
  ASSUME FeedTypeInv, NEW c \in Conns, Receives(c) PROVE FeedTypeOK' /\ TasksInv'
<1> USE DEF FeedTypeInv, IInv, TypeOK
<1> DEFINE kind == IF c \in greeted THEN "ping" ELSE "connected"
<1>1. /\ wire' = [wire EXCEPT ![c] = Append(@, kind)]
      /\ greeted' = greeted \cup {c} /\ inbox' = [inbox EXCEPT ![c] = @ + 1]
      /\ UNCHANGED <<task, clock, heard, late, conn>>
  BY DEF Receives, Arrives, clientVars
<1>2. Append(wire[c], kind) \in Seq({"connected", "ping"})
      /\ Len(Append(wire[c], kind)) = inbox[c] + 1
  BY DEF FeedTypeOK
<1> HIDE DEF kind
<1>3. wire' \in [Conns -> Seq({"connected", "ping"})] /\ \A d \in Conns : Len(wire'[d]) = inbox'[d]
  BY <1>1, <1>2 DEF FeedTypeOK
<1> QED BY <1>1, <1>3 DEF FeedTypeOK, TasksInv, Greeting

\* What a write adds on the server's side: at most one subscription, of the
\* market that its handler had reached, on the connection that c.conn is now.
WriteAdds(h) ==
  \/ UNCHANGED heard
  \/ /\ Greeting(h) /\ task[h].pc = "write" /\ conn \in Conns
     /\ heard' = [heard EXCEPT ![conn][task[h].next] = IF @ < 2 THEN @ + 1 ELSE @]

LEMMA HandlesAdds ==
  ASSUME NEW h \in Handlers, Handles(h), TypeOK
  PROVE  WriteAdds(h)
<1>1. CASE Writes(h)
  BY <1>1 DEF Writes, WriteOn, WriteAdds, TypeOK
<1> QED BY <1>1 DEF Handles, SleepEnds, CheckPasses, CheckRefuses, WriteAdds

LEMMA HandlesTypes ==
  ASSUME FeedTypeInv, NEW h \in Handlers, Handles(h) PROVE FeedTypeOK' /\ TasksInv'
<1> USE MarketsAre DEF FeedTypeInv, IInv
<1>1. UNCHANGED <<vars, wire, greeted, clock>> /\ HandlerMoves(h) /\ task[h].pc # "idle"
  BY HandlesLeaves, HandlesMoves
<1>2. UNCHANGED <<conn, inbox, wire, greeted, clock>>
  BY <1>1 DEF vars, clientVars, netVars
<1>3. task \in [Handlers -> Tasks] /\ task[h] \in Tasks
  BY DEF FeedTypeOK, Tasks
<1>4. task' \in [Handlers -> Tasks]
  BY <1>1, <1>3, MoveTypes
<1>5. TasksInv'
  BY <1>1, <1>3 DEF HandlerMoves, TasksInv, Greeting, NoTask, Tasks
<1>6. heard' \in [Conns -> [Markets -> 0 .. 2]]
  <2>1. WriteAdds(h) /\ heard \in [Conns -> [Markets -> 0 .. 2]] /\ task[h].next \in Markets
    BY <1>3, HandlesAdds DEF FeedTypeOK, Tasks
  <2> QED BY <2>1 DEF WriteAdds
<1>7. late' \in [Conns -> SUBSET Markets]
  <2>1. CASE Writes(h)
    BY <1>3, <2>1 DEF Writes, WriteOn, FeedTypeOK, Tasks
  <2> QED BY <2>1 DEF Handles, SleepEnds, CheckPasses, CheckRefuses, FeedTypeOK
<1>8. \A k \in Handlers : task'[k].pc = "write" => conn' # Nil
  <2>1. CASE CheckPasses(h)
    BY <1>2, <1>3, <2>1 DEF CheckPasses, Sendable
  <2>2. CASE SleepEnds(h)
    BY <1>2, <1>3, <2>2 DEF SleepEnds, FeedTypeOK
  <2>3. CASE Continue(h)
    <3>1. task'[h].pc # "write"
      <4>1. CASE Greeting(h) /\ task[h].next < Len(Subs)
        BY <1>3, <2>3, <4>1 DEF Continue, Tasks
      <4>2. CASE ~(Greeting(h) /\ task[h].next < Len(Subs))
        BY <1>3, <2>3, <4>2 DEF Continue, NoTask
      <4> QED BY <4>1, <4>2
    <3>2. \A k \in Handlers : k # h => task'[k] = task[k]
      BY <1>3, <2>3 DEF Continue
    <3> QED BY <1>2, <3>1, <3>2 DEF FeedTypeOK
  <2> QED BY <2>1, <2>2, <2>3 DEF Handles, CheckRefuses, Writes, WriteOn
<1> QED BY <1>2, <1>4, <1>5, <1>6, <1>7, <1>8 DEF FeedTypeOK, Tasks

LEMMA FeedTypeStep == FeedTypeInv /\ [FeedNext]_allVars => FeedTypeInv'
<1> SUFFICES ASSUME FeedTypeInv, [FeedNext]_allVars PROVE FeedTypeOK' /\ TasksInv'
  BY LifecycleStep DEF FeedTypeInv
<1>1. ASSUME UNCHANGED feedVars, UNCHANGED <<conn, inbox>> PROVE FeedTypeOK' /\ TasksInv'
  BY <1>1 DEF FeedTypeInv, FeedTypeOK, TasksInv, Greeting, feedVars
<1>2. CASE WakesUp \/ Aside
  BY <1>1, <1>2 DEF WakesUp, Aside, Pause, DialFails, Publish, SelectContinue,
     ReadFails, PongFails, Unpublish, CloseFailed, Decide, StartRun, NetChanges, Breaks,
     clientVars, netVars
<1>3. CASE Passes
  BY <1>3, FeedAssumption
  DEF Passes, vars, clientVars, netVars, FeedTypeInv, FeedTypeOK, TasksInv, Greeting
<1>4. CASE UNCHANGED allVars
  BY <1>1, <1>4 DEF allVars, vars, clientVars, netVars
<1> QED
  BY <1>2, <1>3, <1>4, ConnectsTypes, DispatchesTypes, ReceivesTypes, HandlesTypes, FeedCases
-----------------------------------------------------------------------------
(* Greetings *)

\* No step of a handler starts a greeting or goes back to an earlier market.
LEMMA HandlesGreetings ==
  ASSUME FeedTypeInv, NEW h \in Handlers, Handles(h)
  PROVE  \A k \in Handlers :
           /\ k # h => task'[k] = task[k]
           /\ Greeting(k)' => /\ Greeting(k) /\ task'[k].from = task[k].from
                              /\ task[k].next <= task'[k].next
<1>1. task \in [Handlers -> Tasks] /\ task[h] \in Tasks /\ HandlerMoves(h)
  BY HandlesMoves DEF FeedTypeInv, FeedTypeOK, Tasks
<1>2. \A k \in Handlers : task[k].next \in Int
  BY <1>1, MarketsAre DEF Tasks
<1>3. ASSUME NEW p \in {"check", "write"}, task' = [task EXCEPT ![h].pc = p],
             NEW k \in Handlers
      PROVE  /\ k # h => task'[k] = task[k]
             /\ task'[k].kind = task[k].kind /\ task'[k].from = task[k].from
             /\ task[k].next <= task'[k].next
  BY <1>1, <1>2, <1>3 DEF Tasks
<1>4. ASSUME task' = [task EXCEPT ![h].pc = "check", ![h].next = @ + 1], NEW k \in Handlers
      PROVE  /\ k # h => task'[k] = task[k]
             /\ task'[k].kind = task[k].kind /\ task'[k].from = task[k].from
             /\ task[k].next <= task'[k].next
  BY <1>1, <1>2, <1>4 DEF Tasks
<1>5. ASSUME task' = [task EXCEPT ![h] = NoTask], NEW k \in Handlers
      PROVE  /\ k # h => task'[k] = task[k]
             /\ k = h => task'[k].kind # "connected"
             /\ task[k].next <= task[k].next
  BY <1>1, <1>2, <1>5 DEF NoTask
<1> QED BY <1>1, <1>3, <1>4, <1>5 DEF HandlerMoves, Greeting

LEMMA ConnectsGreetings ==
  FeedTypeInv /\ Connects =>
    /\ conn' \in Conns \ {conn} /\ Awaits(conn)'
    /\ \A h \in Handlers : /\ Greeting(h)' <=> Greeting(h)
                           /\ task'[h].from # conn'
                           /\ task[h].from # conn' => task'[h] = task[h]
    /\ \A d \in Conns \ {conn'} : wire'[d] = wire[d] /\ (d \in greeted' <=> d \in greeted)
    /\ wire'[conn'] = <<>>
<1> SUFFICES ASSUME FeedTypeInv, Connects
             PROVE  /\ conn' \in Conns \ {conn} /\ Awaits(conn)'
                    /\ \A h \in Handlers :
                         /\ Greeting(h)' <=> Greeting(h)
                         /\ task'[h].from # conn'
                         /\ task[h].from # conn' => task'[h] = task[h]
                    /\ \A d \in Conns \ {conn'} :
                         wire'[d] = wire[d] /\ (d \in greeted' <=> d \in greeted)
                    /\ wire'[conn'] = <<>>
  OBVIOUS
<1>1. PICK c \in Conns \ {conn} : conn' = c
  BY DEF Connects, DialSucceeds
<1>2. /\ wire' = [wire EXCEPT ![c] = <<>>] /\ greeted' = greeted \ {c}
      /\ task' = [h \in Handlers |-> IF task[h].from = c
                                     THEN [task[h] EXCEPT !.from = Nil] ELSE task[h]]
  BY <1>1 DEF Connects
<1>3. task \in [Handlers -> Tasks] /\ DOMAIN wire = Conns /\ c # Nil
  BY ClientAssumption DEF FeedTypeInv, FeedTypeOK, Tasks
<1>4. \A h \in Handlers : /\ [task[h] EXCEPT !.from = Nil].kind = task[h].kind
                          /\ [task[h] EXCEPT !.from = Nil].from = Nil
  BY <1>3 DEF Tasks
<1> QED BY <1>1, <1>2, <1>3, <1>4 DEF Greeting, Awaits

\* Reading a connection's buffer reads its greeting first, and only then.
LEMMA DispatchesGreetings ==
  ASSUME FeedTypeInv, GreetingInv, Dispatches
  PROVE  /\ conn \in Conns /\ conn \in greeted /\ ~Awaits(conn)'
         /\ (Head(wire[conn]) = "connected" <=> Awaits(conn))
         /\ \E h \in Handlers :
              /\ task[h].pc = "idle" /\ task'[h].from = conn /\ task'[h].next = 1
              /\ Greeting(h)' <=> Awaits(conn)
              /\ \A k \in Handlers \ {h} : task'[k] = task[k]
         /\ \A d \in Conns \ {conn} : wire'[d] = wire[d]
<1> USE DEF FeedTypeInv, IInv, TypeOK
<1>1. conn \in Conns /\ inbox[conn] > 0
  BY DEF Dispatches, ReadReturns
<1>2. wire[conn] \in Seq({"connected", "ping"}) /\ Len(wire[conn]) > 0
      /\ wire' = [wire EXCEPT ![conn] = Tail(@)] /\ greeted' = greeted
  BY <1>1 DEF FeedTypeOK, Dispatches
<1>3. conn \in greeted
  BY <1>1, <1>2 DEF GreetingInv
<1>4. \A i \in DOMAIN wire[conn] : wire[conn][i] = "connected" => i = 1
  BY <1>1 DEF GreetingInv
<1>5. Head(wire[conn]) = wire[conn][1] /\ 1 \in DOMAIN wire[conn]
  BY <1>2
<1>6. Head(wire[conn]) = "connected" <=> Awaits(conn)
  BY <1>3, <1>4, <1>5 DEF Awaits
<1>7. wire'[conn] = Tail(wire[conn])
  BY <1>1, <1>2 DEF FeedTypeOK
<1>8. \A i \in DOMAIN wire'[conn] : wire'[conn][i] # "connected"
  <2>1. \A i \in DOMAIN Tail(wire[conn]) :
           /\ i + 1 \in DOMAIN wire[conn] /\ Tail(wire[conn])[i] = wire[conn][i + 1]
           /\ i \in Nat /\ i > 0
    BY <1>2
  <2> QED BY <1>4, <1>7, <2>1
<1>9. PICK h \in Handlers :
        /\ task[h].pc = "idle"
        /\ task' = [task EXCEPT ![h] =
             [pc   |-> IF Head(wire[conn]) = "connected" THEN "sleep" ELSE "check",
              kind |-> Head(wire[conn]), from |-> conn, next |-> 1]]
  BY DEF Dispatches
<1>10. /\ task'[h].from = conn /\ task'[h].next = 1 /\ task'[h].kind = Head(wire[conn])
       /\ \A k \in Handlers \ {h} : task'[k] = task[k]
  BY <1>9 DEF FeedTypeOK
<1>11. \A d \in Conns \ {conn} : wire'[d] = wire[d]
  BY <1>2 DEF FeedTypeOK
<1>12. conn' = conn
  BY DEF Dispatches, ReadReturns, clientVars
<1>13. ~Awaits(conn)'
  BY <1>2, <1>3, <1>8, <1>12 DEF Awaits
<1> QED BY <1>1, <1>3, <1>6, <1>9, <1>10, <1>11, <1>13 DEF Greeting

LEMMA ReceivesGreetings ==
  ASSUME FeedTypeInv, GreetingInv, NEW c \in Conns, Receives(c)
  PROVE  /\ \A d \in Conns : Awaits(d) <=> Awaits(d)'
         /\ \A d \in Conns \ {c} : wire'[d] = wire[d] /\ (d \in greeted' <=> d \in greeted)
         /\ c \in greeted'
         /\ \A i \in DOMAIN wire'[c] : wire'[c][i] = "connected" => i = 1
<1> DEFINE kind == IF c \in greeted THEN "ping" ELSE "connected"
<1>1. wire' = [wire EXCEPT ![c] = Append(@, kind)] /\ greeted' = greeted \cup {c}
  BY DEF Receives
<1>2. wire \in [Conns -> Seq({"connected", "ping"})] /\ kind \in {"connected", "ping"}
  BY DEF FeedTypeInv, FeedTypeOK
<1>3. \A i \in DOMAIN wire'[c] : \/ i \in DOMAIN wire[c] /\ wire'[c][i] = wire[c][i]
                                 \/ i = Len(wire[c]) + 1 /\ wire'[c][i] = kind
  <2> HIDE DEF kind
  <2> QED BY <1>1, <1>2
<1>4. /\ \A i \in DOMAIN wire[c] : i \in DOMAIN wire'[c] /\ wire'[c][i] = wire[c][i]
      /\ Len(wire[c]) + 1 \in DOMAIN wire'[c] /\ wire'[c][Len(wire[c]) + 1] = kind
  <2> HIDE DEF kind
  <2> QED BY <1>1, <1>2
<1>5. \A d \in Conns \ {c} : wire'[d] = wire[d] /\ (d \in greeted' <=> d \in greeted)
  BY <1>1, <1>2
<1>6. c \in greeted' /\ (c \notin greeted => Len(wire[c]) = 0)
  BY <1>1 DEF GreetingInv
<1>7. Awaits(c) <=> Awaits(c)'
  <2>1. CASE c \in greeted
    BY <1>3, <1>4, <1>6, <2>1 DEF Awaits
  <2>2. CASE c \notin greeted
    BY <1>4, <1>6, <2>2 DEF Awaits
  <2> QED BY <2>1, <2>2
<1>8. \A d \in Conns \ {c} : Awaits(d) <=> Awaits(d)'
  BY <1>5 DEF Awaits
<1>9. \A i \in DOMAIN wire'[c] : wire'[c][i] = "connected" => i = 1
  <2>1. CASE c \in greeted
    BY <1>3, <2>1 DEF GreetingInv
  <2>2. CASE c \notin greeted
    BY <1>3, <1>6, <2>2 DEF GreetingInv
  <2> QED BY <2>1, <2>2
<1> QED BY <1>5, <1>6, <1>7, <1>8, <1>9

\* The steps that leave the buffers alone.
Quiet == WakesUp \/ Aside \/ Passes \/ UNCHANGED allVars

LEMMA QuietLeaves == Quiet => UNCHANGED <<wire, greeted, task, heard, late>>
  BY DEF Quiet, WakesUp, Aside, Passes, allVars, feedVars

LEMMA GreetingStep == FeedTypeInv /\ GreetingInv /\ [FeedNext]_allVars => GreetingInv'
<1> SUFFICES ASSUME FeedTypeInv, GreetingInv, [FeedNext]_allVars PROVE GreetingInv'
  OBVIOUS
<1>1. CASE Connects
  <2> SUFFICES ASSUME NEW d \in Conns
               PROVE  /\ d \notin greeted' => wire'[d] = <<>>
                      /\ \A i \in DOMAIN wire'[d] : wire'[d][i] = "connected" => i = 1
                      /\ Awaits(d)' => \A h \in Handlers : Greeting(h)' => task'[h].from # d
    BY DEF GreetingInv
  <2>1. CASE d = conn'
    BY <1>1, <2>1, ConnectsGreetings
  <2>2. CASE d # conn'
    <3>1. Awaits(d)' => Awaits(d)
      BY <1>1, <2>2, ConnectsGreetings DEF Awaits
    <3>2. \A h \in Handlers : Greeting(h)' /\ task'[h].from = d => Greeting(h) /\ task[h].from = d
      <4> SUFFICES ASSUME NEW h \in Handlers, Greeting(h)', task'[h].from = d
                   PROVE  Greeting(h) /\ task[h].from = d
        OBVIOUS
      <4>1. CASE task[h].from = conn'
        <5>1. task'[h] = [task[h] EXCEPT !.from = Nil] /\ task[h] \in Tasks
          BY <1>1, <4>1 DEF Connects, FeedTypeInv, FeedTypeOK, Tasks
        <5>2. task'[h].from = Nil
          BY <5>1 DEF Tasks
        <5> QED BY <5>2, ClientAssumption
      <4>2. CASE task[h].from # conn'
        BY <1>1, <4>2, ConnectsGreetings DEF Greeting
      <4> QED BY <4>1, <4>2
    <3> QED BY <1>1, <2>2, <3>1, <3>2, ConnectsGreetings DEF GreetingInv
  <2> QED BY <2>1, <2>2
<1>2. CASE Dispatches
  <2>1. greeted' = greeted
    BY <1>2 DEF Dispatches
  <2>2. conn' = conn
    BY <1>2 DEF Dispatches, ReadReturns, clientVars
  <2>3. ASSUME NEW d \in Conns, d # conn
        PROVE  Awaits(d)' => Awaits(d)
    BY <1>2, <2>1, <2>3, DispatchesGreetings DEF Awaits
  <2>4. conn \in greeted' /\ ~Awaits(conn)' /\ \A i \in DOMAIN wire'[conn] : wire'[conn][i] # "connected"
    BY <1>2, <2>1, <2>2, DispatchesGreetings DEF Awaits
  <2>5. ASSUME NEW d \in Conns, d # conn
        PROVE  \A h \in Handlers : Greeting(h)' /\ task'[h].from = d => Greeting(h) /\ task[h].from = d
    BY <1>2, <2>5, DispatchesGreetings DEF Greeting
  <2> QED BY <1>2, <2>1, <2>2, <2>3, <2>4, <2>5, DispatchesGreetings DEF GreetingInv
<1>3. ASSUME NEW c \in Conns, Receives(c) PROVE GreetingInv'
  <2>1. UNCHANGED task
    BY <1>3 DEF Receives
  <2>2. \A h \in Handlers : Greeting(h)' <=> Greeting(h)
    BY <2>1 DEF Greeting
  <2> QED BY <1>3, <2>1, <2>2, ReceivesGreetings DEF GreetingInv
<1>4. ASSUME NEW h \in Handlers, Handles(h) PROVE GreetingInv'
  <2>1. UNCHANGED <<wire, greeted>>
    BY <1>4, HandlesLeaves
  <2> QED BY <1>4, <2>1, HandlesGreetings DEF GreetingInv, Awaits
<1>5. CASE Quiet
  BY <1>5, QuietLeaves DEF GreetingInv, Awaits, Greeting
<1> QED BY <1>1, <1>2, <1>3, <1>4, <1>5, FeedCases DEF Quiet
-----------------------------------------------------------------------------
(* No market is left out *)

\* Market m of the session on c.conn has been heard of or is still to come.
Covered(m) ==
  \/ heard[conn][m] > 0
  \/ \E h \in Handlers : Greeting(h) /\ task[h].from = conn /\ task[h].next <= m

\* While the flag is up nothing makes a greeting's handler leave a market out.
LEMMA AlwaysSendable ==
  ASSUME FeedTypeInv, Flagged, TokenLife <= MaxTokenLife, NEW h \in Handlers
  PROVE  Sendable(h)
<1>1. isConnected /\ conn # Nil
  BY DEF FeedTypeInv, IInv, TypeOK, FlagFollowsSession, Flagged
<1>2. clock \in Nat
  BY FeedAssumption DEF FeedTypeInv, FeedTypeOK
<1>3. GetAuthToken(clock, clock + TokenLife) # None
  BY <1>2, ClientIsAccepted
<1>4. Renews(task[h].next) => Token(task[h].next) # None
  BY <1>3 DEF Token
<1> QED BY <1>1, <1>4 DEF Sendable

LEMMA HandlesCovers ==
  ASSUME FeedTypeInv, Flagged, TokenLife <= MaxTokenLife, link[conn] = "open",
         NEW h \in Handlers, Handles(h), NEW m \in Markets, Covered(m)
  PROVE  Covered(m)'
<1>1. /\ conn \in Conns /\ conn' = conn /\ conn # Nil
      /\ task \in [Handlers -> Tasks] /\ task[h].next \in Int /\ m \in Int
      /\ heard \in [Conns -> [Markets -> 0 .. 2]] /\ task[h].next \in Markets
  <2>1. conn \in Conns /\ conn # Nil
    BY ClientAssumption DEF FeedTypeInv, IInv, TypeOK, Flagged
  <2>2. conn' = conn
    BY HandlesLeaves DEF vars, clientVars
  <2> QED BY <2>1, <2>2, MarketsAre DEF FeedTypeInv, FeedTypeOK, Tasks
<1>2. CASE heard[conn][m] > 0
  <2>1. WriteAdds(h)
    BY HandlesAdds DEF FeedTypeInv, IInv
  <2>2. heard'[conn][m] > 0
    BY <1>1, <1>2, <2>1 DEF WriteAdds
  <2> QED BY <1>1, <2>2 DEF Covered
<1>3. ASSUME NEW k \in Handlers, k # h, Greeting(k), task[k].from = conn, task[k].next <= m
      PROVE  Covered(m)'
  <2>1. task'[k] = task[k]
    BY <1>3, HandlesGreetings
  <2> QED BY <1>1, <1>3, <2>1 DEF Covered, Greeting
<1>4. ASSUME Greeting(h), task[h].from = conn, task[h].next <= m
      PROVE  Covered(m)'
  <2>1. ASSUME NEW p \in {"check", "write"}, task' = [task EXCEPT ![h].pc = p]
        PROVE  Covered(m)'
    <3>1. task'[h].kind = task[h].kind /\ task'[h].from = task[h].from
          /\ task'[h].next = task[h].next
      BY <1>1, <2>1 DEF Tasks
    <3> QED BY <1>1, <1>4, <3>1 DEF Covered, Greeting
  <2>2. CASE SleepEnds(h) \/ CheckPasses(h)
    BY <2>1, <2>2 DEF SleepEnds, CheckPasses
  <2>3. CASE Writes(h)
    <3>1. heard' = [heard EXCEPT ![conn][task[h].next] = IF @ < 2 THEN @ + 1 ELSE @]
      BY <1>4, <2>3 DEF Writes, WriteOn
    <3>2. CASE m = task[h].next
      <4>1. heard'[conn][m] > 0
        BY <1>1, <3>1, <3>2
      <4> QED BY <1>1, <4>1 DEF Covered
    <3>3. CASE m # task[h].next
      <4>1. task[h].next < Len(Subs) /\ task[h].next + 1 <= m
        BY <1>1, <1>4, <3>3, MarketsAre
      <4>2. task' = [task EXCEPT ![h].pc = "check", ![h].next = @ + 1]
        BY <1>4, <2>3, <4>1 DEF Writes, WriteOn, Continue
      <4>3. task'[h].kind = task[h].kind /\ task'[h].from = task[h].from
            /\ task'[h].next = task[h].next + 1
        BY <1>1, <4>2 DEF Tasks
      <4> QED BY <1>1, <1>4, <4>1, <4>3 DEF Covered, Greeting
    <3> QED BY <3>2, <3>3
  <2>4. ~CheckRefuses(h)
    BY AlwaysSendable DEF CheckRefuses
  <2> QED BY <2>2, <2>3, <2>4 DEF Handles
<1> QED BY <1>2, <1>3, <1>4 DEF Covered

LEMMA CoverStep ==
  FeedTypeInv /\ GreetingInv /\ CoverInv /\ TokenLife <= MaxTokenLife /\ [FeedNext]_allVars
    => CoverInv'
<1> SUFFICES ASSUME FeedTypeInv, GreetingInv, CoverInv, TokenLife <= MaxTokenLife,
                    [FeedNext]_allVars
             PROVE  CoverInv'
  OBVIOUS
<1> DEFINE Kept ==
    /\ runPc' = "publish" => Awaits(conn)'
    /\ runPc' \in {"select", "read", "failed"} /\ link'[conn'] = "open" /\ ~Awaits(conn)'
         => \A m \in Markets : Covered(m)'
<1>0. runPc \in {"select", "read", "failed"} /\ link[conn] = "open" /\ ~Awaits(conn) =>
        \A m \in Markets : Covered(m)
  BY DEF CoverInv, Flagged, Covered
<1>6. Kept => CoverInv'
  BY DEF CoverInv, Flagged, Covered
<1>1. CASE Connects
  <2>1. runPc' = "publish"
    BY <1>1 DEF Connects, DialSucceeds
  <2> QED BY <1>1, <1>6, <2>1, ConnectsGreetings
<1>2. CASE Dispatches
  <2>1. /\ conn' = conn /\ link' = link /\ runPc = "read" /\ runPc' = "select"
        /\ heard' = heard
    BY <1>2 DEF Dispatches, ReadReturns, clientVars
  <2>2. PICK h \in Handlers :
          /\ task[h].pc = "idle" /\ task'[h].from = conn /\ task'[h].next = 1
          /\ Greeting(h)' <=> Awaits(conn)
          /\ \A k \in Handlers \ {h} : task'[k] = task[k]
    BY <1>2, DispatchesGreetings
  <2>3. ASSUME Awaits(conn), NEW m \in Markets PROVE Covered(m)'
    <3>1. 1 <= m
      BY MarketsAre
    <3> QED BY <2>1, <2>2, <2>3, <3>1 DEF Covered
  <2>4. ASSUME link[conn] = "open", ~Awaits(conn), NEW m \in Markets PROVE Covered(m)'
    <3>1. Covered(m)
      BY <1>0, <2>1, <2>4
    <3>2. ~Greeting(h)
      BY <2>2 DEF FeedTypeInv, TasksInv
    <3>3. \A k \in Handlers : Greeting(k) => Greeting(k)' /\ task'[k] = task[k]
      BY <2>2, <3>2 DEF Greeting
    <3> QED BY <2>1, <3>1, <3>3 DEF Covered
  <2>5. ~Awaits(conn)'
    BY <1>2, DispatchesGreetings
  <2> QED BY <1>6, <2>1, <2>3, <2>4, <2>5
<1>3. ASSUME NEW c \in Conns, Receives(c) PROVE CoverInv'
  <2>1. UNCHANGED <<conn, runPc, link, task, heard>>
    BY <1>3 DEF Receives, Arrives, clientVars, runVars
  <2>2. conn \in Conns \/ ~(runPc \in {"publish", "select", "read", "failed"})
    BY DEF FeedTypeInv, IInv, TypeOK
  <2>3. conn \in Conns => (Awaits(conn) <=> Awaits(conn)')
    BY <1>3, <2>1, ReceivesGreetings DEF Awaits
  <2> QED BY <2>1, <2>2, <2>3 DEF CoverInv, Greeting, Flagged
<1>4. ASSUME NEW h \in Handlers, Handles(h) PROVE CoverInv'
  <2>1. UNCHANGED <<conn, runPc, link, wire, greeted>>
    BY <1>4, HandlesLeaves DEF vars, clientVars, runVars, netVars
  <2>2. Awaits(conn) <=> Awaits(conn)'
    BY <2>1 DEF Awaits
  <2>3. ASSUME Flagged, link[conn] = "open", ~Awaits(conn), NEW m \in Markets
        PROVE  Covered(m)'
    BY <1>0, <1>4, <2>3, HandlesCovers DEF Flagged
  <2> QED BY <2>1, <2>2, <2>3 DEF CoverInv, Flagged, Covered
<1>5. CASE Quiet
  <2>1. UNCHANGED <<wire, greeted, task, heard>>
    BY <1>5, QuietLeaves
  <2>2. /\ conn' = conn
        /\ runPc' = "publish" => runPc = "publish"
        /\ runPc' \in {"select", "read", "failed"} => runPc \in {"publish", "select", "read", "failed"}
        /\ link'[conn] = "open" => link[conn] = "open"
    <3>1. CASE WakesUp
      BY <3>1 DEF WakesUp, Pause, EndOfBody, Return, clientVars, netVars
    <3>2. CASE Aside
      <4>1. ASSUME NEW c \in Conns, Breaks(c)
            PROVE  /\ conn' = conn /\ runPc' = runPc
                   /\ link'[conn] = "open" => link[conn] = "open"
        BY <4>1 DEF Breaks, clientVars, runVars, FeedTypeInv, IInv, TypeOK
      <4>2. CASE CloseFailed
        BY <4>2 DEF CloseFailed, clientVars, FeedTypeInv, IInv, TypeOK
      <4> QED BY <3>2, <4>1, <4>2 DEF Aside, DialFails, Publish, SelectContinue, ReadFails,
                PongFails, Unpublish, Decide, StartRun, NetChanges, Return, clientVars, runVars, netVars
    <3>3. CASE Passes \/ UNCHANGED allVars
      BY <3>3 DEF Passes, allVars, vars, clientVars, runVars, netVars
    <3> QED BY <1>5, <3>1, <3>2, <3>3 DEF Quiet
  <2>3. Awaits(conn) <=> Awaits(conn)'
    BY <2>1, <2>2 DEF Awaits
  <2>4. \A m \in Markets : Covered(m) => Covered(m)'
    BY <2>1, <2>2 DEF Covered, Greeting
  <2>5. runPc = "publish" => Awaits(conn)
    BY DEF CoverInv
  <2> QED BY <1>0, <1>6, <2>2, <2>3, <2>4, <2>5
<1> QED BY <1>1, <1>2, <1>3, <1>4, <1>5, FeedCases DEF Quiet
-----------------------------------------------------------------------------
(* No market is subscribed twice *)

\* A handler that has written is past the market that it wrote about.
LEMMA HandlesPasses ==
  ASSUME FeedTypeInv, NEW h \in Handlers, Handles(h)
  PROVE  \/ UNCHANGED heard
         \/ /\ Greeting(h) /\ conn \in Conns
            /\ heard' = [heard EXCEPT ![conn][task[h].next] = IF @ < 2 THEN @ + 1 ELSE @]
            /\ Greeting(h)' => task'[h].next = task[h].next + 1
<1>1. task \in [Handlers -> Tasks]
  BY DEF FeedTypeInv, FeedTypeOK, Tasks
<1>2. CASE Writes(h) /\ ~(UNCHANGED heard)
  <2>1. /\ Greeting(h) /\ conn \in Conns /\ Continue(h)
        /\ heard' = [heard EXCEPT ![conn][task[h].next] = IF @ < 2 THEN @ + 1 ELSE @]
    BY <1>2 DEF Writes, WriteOn, FeedTypeInv, IInv, TypeOK
  <2>2. Greeting(h)' => task'[h].next = task[h].next + 1
    <3>1. CASE task[h].next < Len(Subs)
      <4>1. task' = [task EXCEPT ![h].pc = "check", ![h].next = @ + 1]
        BY <2>1, <3>1 DEF Continue
      <4> QED BY <1>1, <4>1 DEF Tasks
    <3>2. CASE ~(task[h].next < Len(Subs))
      <4>1. task' = [task EXCEPT ![h] = NoTask]
        BY <2>1, <3>2 DEF Continue
      <4> QED BY <1>1, <4>1 DEF NoTask, Greeting
    <3> QED BY <3>1, <3>2
  <2> QED BY <2>1, <2>2
<1> QED BY <1>2 DEF Handles, SleepEnds, CheckPasses, CheckRefuses

LEMMA HandlesOnce ==
  ASSUME FeedTypeInv, GreetingInv, OneHandlerInv, NEW h \in Handlers, Handles(h)
  PROVE  OneHandlerInv'
<1>1. UNCHANGED <<conn, runPc, wire, greeted>>
  BY HandlesLeaves DEF vars, clientVars, runVars
<1>2. \A c \in Conns : Awaits(c)' <=> Awaits(c)
  BY <1>1 DEF Awaits
<1>3. /\ task \in [Handlers -> Tasks] /\ heard \in [Conns -> [Markets -> 0 .. 2]]
      /\ Markets \subseteq Int /\ \A k \in Handlers : task[k].next \in Markets
  BY MarketsAre DEF FeedTypeInv, FeedTypeOK, Tasks
<1>4. \A k \in Handlers :
        Greeting(k)' => /\ Greeting(k) /\ task'[k].from = task[k].from
                        /\ task[k].next <= task'[k].next /\ task'[k].next \in Int
                        /\ k # h => task'[k] = task[k]
  <2>1. FeedTypeOK'
    BY HandlesTypes
  <2>2. \A k \in Handlers : task'[k].next \in Int
    BY <2>1, MarketsAre DEF FeedTypeOK
  <2> QED BY <2>2, HandlesGreetings
<1>9. task[h].next \in Markets /\ task[h].next \in Int /\ \A m \in Markets : m \in Int
  <2>1. task[h].next \in Markets /\ Markets \subseteq Int
    BY <1>3
  <2> HIDE DEF Markets
  <2> QED BY <2>1
<1>7. \A k \in Handlers : Greeting(k) =>
        /\ task[k].from = conn
        /\ \A m \in Markets : task[k].next <= m => heard[conn][m] = 0
        /\ \A j \in Handlers : Greeting(j) => j = k
  BY DEF OneHandlerInv
<1>8. ASSUME Greeting(h), NEW m \in Markets, task[h].next <= m PROVE heard[conn][m] = 0
  BY <1>7, <1>8
<1>5. CASE UNCHANGED heard
  <2>1. \A k \in Handlers : Greeting(k)' =>
          \A m \in Markets : task'[k].next <= m => heard'[conn][m] = 0
    <3> SUFFICES ASSUME NEW k \in Handlers, Greeting(k)', NEW m \in Markets, task'[k].next <= m
                 PROVE  heard[conn][m] = 0
      BY <1>5
    <3>1. task[k].next <= m
      <4>1. task[k].next \in Int /\ task'[k].next \in Int /\ m \in Int
        BY <1>3, <1>4
      <4> QED BY <1>4, <4>1
    <3>2. Greeting(k)
      BY <1>4
    <3> QED BY <1>7, <3>1, <3>2
  <2> QED BY <1>1, <1>2, <1>4, <1>5, <2>1 DEF OneHandlerInv, SubscribedOnce
<1>6. ASSUME Greeting(h), conn \in Conns,
             heard' = [heard EXCEPT ![conn][task[h].next] = IF @ < 2 THEN @ + 1 ELSE @],
             Greeting(h)' => task'[h].next = task[h].next + 1
      PROVE  OneHandlerInv'
  <2>1. /\ task[h].from = conn /\ heard[conn][task[h].next] = 0
        /\ \A k \in Handlers : Greeting(k) => k = h
    <3>1. task[h].next \in Markets /\ task[h].next <= task[h].next
      BY <1>9
    <3>2. heard[conn][task[h].next] = 0
      BY <1>6, <1>8, <3>1
    <3> QED BY <1>6, <1>7, <3>2
  <2>2. ~Awaits(conn)
    BY <1>6, <2>1 DEF GreetingInv
  <2>3. \A c \in Conns, m \in Markets :
          \/ c = conn /\ m = task[h].next /\ heard'[c][m] = 1
          \/ ~(c = conn /\ m = task[h].next) /\ heard'[c][m] = heard[c][m]
    BY <1>3, <1>6, <2>1
  <2>4. \A c \in Conns : Awaits(c)' => \A m \in Markets : heard'[c][m] = 0
    BY <1>2, <2>2, <2>3 DEF OneHandlerInv
  <2>5. ASSUME NEW k \in Handlers, Greeting(k)'
        PROVE  \A m \in Markets : task'[k].next <= m => heard'[conn][m] = 0
    <3>1. k = h
      BY <1>4, <2>1, <2>5
    <3> SUFFICES ASSUME NEW m \in Markets, task[h].next + 1 <= m PROVE heard'[conn][m] = 0
      BY <1>6, <2>5, <3>1
    <3>2. m # task[h].next /\ task[h].next <= m
      BY <1>9
    <3>3. heard[conn][m] = 0
      BY <1>6, <1>8, <3>2
    <3> QED BY <1>6, <2>3, <3>2, <3>3
  <2>6. SubscribedOnce'
    BY <2>3 DEF OneHandlerInv, SubscribedOnce
  <2> QED BY <1>1, <1>4, <2>1, <2>4, <2>5, <2>6 DEF OneHandlerInv
<1> QED BY <1>5, <1>6, HandlesPasses

LEMMA OnceStep ==
  FeedTypeInv /\ GreetingInv /\ OneHandlerInv /\ PauseOutlasts /\ [FeedNext]_allVars
    => OneHandlerInv'
<1> SUFFICES ASSUME FeedTypeInv, GreetingInv, OneHandlerInv, PauseOutlasts,
                    [FeedNext]_allVars
             PROVE  OneHandlerInv'
  OBVIOUS
<1>1. CASE Connects
  <2>1. \A h \in Handlers : ~Greeting(h)'
    <3>1. runPc = "dial"
      BY <1>1 DEF Connects, DialSucceeds
    <3> QED BY <1>1, <3>1, ConnectsGreetings DEF OneHandlerInv
  <2>2. PICK c \in Conns : conn' = c
    BY <1>1 DEF Connects, DialSucceeds
  <2>3. heard' = [heard EXCEPT ![c] = [m \in Markets |-> 0]]
    BY <1>1, <2>2 DEF Connects
  <2>4. heard \in [Conns -> [Markets -> 0 .. 2]]
    BY DEF FeedTypeInv, FeedTypeOK
  <2>5. \A m \in Markets : heard'[c][m] = 0
    BY <2>3, <2>4
  <2>6. \A d \in Conns \ {c} : heard'[d] = heard[d] /\ (Awaits(d)' => Awaits(d))
    BY <1>1, <2>2, <2>3, <2>4, ConnectsGreetings DEF Awaits
  <2> QED BY <2>1, <2>5, <2>6 DEF OneHandlerInv, SubscribedOnce
<1>2. CASE Dispatches
  <2>1. /\ conn' = conn /\ runPc = "read" /\ runPc' = "select" /\ heard' = heard
        /\ greeted' = greeted
    BY <1>2 DEF Dispatches, ReadReturns, clientVars
  <2>2. PICK h \in Handlers :
          /\ task[h].pc = "idle" /\ task'[h].from = conn /\ task'[h].next = 1
          /\ Greeting(h)' <=> Awaits(conn)
          /\ \A k \in Handlers \ {h} : task'[k] = task[k]
    BY <1>2, DispatchesGreetings
  <2>3. \A c \in Conns : Awaits(c)' => Awaits(c)
    <3>1. \A d \in Conns \ {conn} : Awaits(d)' => Awaits(d)
      BY <1>2, <2>1, DispatchesGreetings DEF Awaits
    <3>2. ASSUME NEW d \in Conns, d = conn PROVE ~Awaits(d)'
      BY <1>2, <2>1, <3>2, DispatchesGreetings DEF Awaits
    <3> QED BY <3>1, <3>2
  <2>4. \A k \in Handlers : Greeting(k)' /\ k # h => Greeting(k) /\ task'[k] = task[k]
    BY <2>2 DEF Greeting
  <2>5. CASE Awaits(conn)
    <3>1. \A k \in Handlers : ~Greeting(k)
      BY <1>2, <2>5, DispatchesGreetings DEF OneHandlerInv, GreetingInv
    <3>2. \A m \in Markets : heard[conn][m] = 0
      BY <1>2, <2>5, DispatchesGreetings DEF OneHandlerInv
    <3>3. \A k \in Handlers : Greeting(k)' => k = h
      BY <2>4, <3>1
    <3> QED BY <2>1, <2>2, <2>3, <3>2, <3>3 DEF OneHandlerInv, SubscribedOnce
  <2>6. CASE ~Awaits(conn)
    <3>1. \A k \in Handlers : Greeting(k)' => Greeting(k) /\ task'[k] = task[k]
      BY <2>2, <2>4, <2>6
    <3> QED BY <2>1, <2>3, <3>1 DEF OneHandlerInv, SubscribedOnce
  <2> QED BY <2>5, <2>6
<1>3. ASSUME NEW c \in Conns, Receives(c) PROVE OneHandlerInv'
  <2>1. UNCHANGED <<conn, runPc, task, heard>>
    BY <1>3 DEF Receives, Arrives, clientVars, runVars
  <2> QED BY <1>3, <2>1, ReceivesGreetings DEF OneHandlerInv, SubscribedOnce, Greeting
<1>4. ASSUME NEW h \in Handlers, Handles(h) PROVE OneHandlerInv'
  BY <1>4, HandlesOnce
<1>5. CASE Quiet
  <2>1. UNCHANGED <<wire, greeted, task, heard>>
    BY <1>5, QuietLeaves
  <2>2. ASSUME NEW h \in Handlers, Greeting(h)
        PROVE  /\ conn' = conn
               /\ runPc' \in {"select", "read", "failed", "closing", "decide", "pause"}
    <3>1. runPc \in {"select", "read", "failed", "closing", "decide", "pause"}
      BY <2>2 DEF OneHandlerInv
    <3>2. ~WakesUp
      BY <2>2 DEF WakesUp
    <3>3. CASE Aside
      <4>1. ~cancelled
        BY DEF FeedTypeInv
      <4> QED BY <3>1, <3>3, <4>1 DEF Aside, DialFails, Publish, SelectContinue, ReadFails,
            PongFails, Unpublish, CloseFailed, Decide, StartRun, NetChanges, Breaks,
            clientVars, runVars
    <3>4. CASE Passes \/ UNCHANGED allVars
      BY <3>1, <3>4 DEF Passes, allVars, vars, clientVars, runVars
    <3> QED BY <1>5, <3>2, <3>3, <3>4 DEF Quiet
  <2> QED BY <2>1, <2>2 DEF OneHandlerInv, SubscribedOnce, Greeting, Awaits
<1> QED BY <1>1, <1>2, <1>3, <1>4, <1>5, FeedCases DEF Quiet
LEMMA LastWriteStep ==
  FeedTypeInv /\ GreetingInv /\ CoverInv /\ OneHandlerInv /\ LastWriteInv /\ [FeedNext]_allVars
    => LastWriteInv'
<1> SUFFICES ASSUME FeedTypeInv, GreetingInv, CoverInv, OneHandlerInv, LastWriteInv,
                    [FeedNext]_allVars,
                    (runPc = "closing" /\ link[conn] = "open")',
                    NEW h \in Handlers, (Greeting(h) /\ task[h].pc = "write")',
                    NEW m \in Markets, m < task'[h].next
             PROVE  heard'[conn'][m] > 0
  BY DEF LastWriteInv
<1>1. ASSUME NEW k \in Handlers, Handles(k) PROVE heard'[conn'][m] > 0
  <2>1. UNCHANGED <<conn, isConnected, runPc, link>>
    BY <1>1, HandlesLeaves DEF vars, clientVars, runVars, netVars
  <2>2. conn \in Conns /\ heard \in [Conns -> [Markets -> 0 .. 2]] /\ ~isConnected
    BY <2>1 DEF FeedTypeInv, FeedTypeOK, IInv, TypeOK, FlagFollowsSession
  <2>3. k # h
    <3> SUFFICES ASSUME k = h PROVE FALSE
      OBVIOUS
    <3>1. task \in [Handlers -> Tasks]
      BY DEF FeedTypeInv, FeedTypeOK, Tasks
    <3>2. ~CheckPasses(h)
      BY <2>2 DEF CheckPasses, Sendable
    <3>3. task'[h].pc # "write"
      BY <1>1, <3>1, <3>2 DEF Handles, SleepEnds, CheckRefuses, Writes, WriteOn, Continue, NoTask,
                              Tasks
    <3> QED BY <3>3
  <2>4. task'[h] = task[h]
    BY <1>1, <2>3, HandlesGreetings
  <2>5. heard[conn][m] > 0
    BY <2>1, <2>4 DEF LastWriteInv, Greeting
  <2>6. WriteAdds(k)
    BY <1>1, HandlesAdds DEF FeedTypeInv, IInv
  <2> QED BY <2>1, <2>2, <2>5, <2>6 DEF WriteAdds
<1>2. CASE Quiet
  <2>1. UNCHANGED <<heard, task>>
    BY <1>2, QuietLeaves
  <2>2. Greeting(h) /\ task[h].pc = "write" /\ m < task[h].next
    BY <2>1 DEF Greeting
  <2>3. CASE Unpublish
    <3>1. runPc = "failed" /\ conn' = conn /\ link[conn] = "open"
      BY <2>3 DEF Unpublish, netVars
    <3>2. task[h].from = conn /\ \A k \in Handlers : Greeting(k) => k = h
      BY <2>2 DEF OneHandlerInv
    <3>3. conn \in Conns
      BY <3>1 DEF FeedTypeInv, IInv, TypeOK
    <3>4. ~Awaits(conn)
      BY <2>2, <3>2, <3>3 DEF GreetingInv
    <3>5. \/ heard[conn][m] > 0
          \/ \E k \in Handlers : Greeting(k) /\ task[k].from = conn /\ task[k].next <= m
      BY <3>1, <3>4 DEF CoverInv, Flagged
    <3>6. ~(task[h].next <= m)
      <4>1. task[h].next \in Int /\ m \in Int
        BY MarketsAre DEF FeedTypeInv, FeedTypeOK
      <4> QED BY <2>2, <4>1
    <3> QED BY <2>1, <3>1, <3>2, <3>5, <3>6
  <2>4. ASSUME ~Unpublish
        PROVE  conn' = conn /\ runPc = "closing" /\ link[conn] = "open"
    <3>1. CASE WakesUp
      BY <3>1 DEF WakesUp, Pause, EndOfBody, Return
    <3>2. CASE Aside
      <4>1. ASSUME NEW c \in Conns, Breaks(c)
            PROVE  conn' = conn /\ runPc = "closing" /\ link[conn] = "open"
        BY <4>1 DEF Breaks, clientVars, runVars, FeedTypeInv, IInv, TypeOK
      <4> QED BY <2>4, <3>2, <4>1 DEF Aside, DialFails, Publish, SelectContinue, ReadFails,
                PongFails, CloseFailed, Decide, StartRun, NetChanges, Return, clientVars, runVars
    <3>3. CASE Passes \/ UNCHANGED allVars
      BY <3>3 DEF Passes, allVars, vars, clientVars, runVars, netVars
    <3> QED BY <1>2, <3>1, <3>2, <3>3 DEF Quiet
  <2> QED BY <2>1, <2>2, <2>3, <2>4 DEF LastWriteInv
<1>3. CASE Connects \/ Dispatches
  BY <1>3 DEF Connects, Dispatches, DialSucceeds, ReadReturns
<1>4. ASSUME NEW c \in Conns, Receives(c) PROVE heard'[conn'][m] > 0
  <2>1. UNCHANGED <<conn, runPc, link, task, heard>>
    BY <1>4 DEF Receives, Arrives, clientVars, runVars
  <2> QED BY <2>1 DEF LastWriteInv, Greeting
<1> QED BY <1>1, <1>2, <1>3, <1>4, FeedCases DEF Quiet
-----------------------------------------------------------------------------
(* Tokens *)

\* A token that is made for a message is good when the message is written.
LEMMA RenewedIsGood ==
  ASSUME FeedTypeInv, Second <= TokenLife, NEW m \in Markets, Renews(m), Token(m) # None
  PROVE  ~(Token(m) < clock)
<1>1. clock \in Nat /\ TokenLife \in Nat /\ Second \in Nat
  BY FeedAssumption, TokenAssumption DEF FeedTypeInv, FeedTypeOK
<1>2. Token(m) = Unix(clock + TokenLife)
  BY DEF Token, GetAuthToken
<1>3. /\ Unix(clock + TokenLife) \in Int
      /\ (clock + TokenLife) - Second < Unix(clock + TokenLife)
  <2>1. clock + TokenLife \in Int
    BY <1>1
  <2> QED BY <2>1, UnixBounds
<1> QED BY <1>1, <1>2, <1>3

LEMMA RenewedStep ==
  FeedTypeInv /\ RenewedInTime /\ Second <= TokenLife /\ [FeedNext]_allVars => RenewedInTime'
<1> SUFFICES ASSUME FeedTypeInv, RenewedInTime, Second <= TokenLife, [FeedNext]_allVars
             PROVE  RenewedInTime'
  OBVIOUS
<1>1. late \in [Conns -> SUBSET Markets]
  BY DEF FeedTypeInv, FeedTypeOK
<1>2. CASE Connects
  <2>1. PICK c \in Conns : conn' = c
    BY <1>2 DEF Connects, DialSucceeds
  <2>2. late' = [late EXCEPT ![c] = {}]
    BY <1>2, <2>1 DEF Connects
  <2> QED BY <1>1, <2>2 DEF RenewedInTime, Renews
<1>3. ASSUME NEW h \in Handlers, Handles(h) PROVE RenewedInTime'
  <2>1. CASE UNCHANGED late
    BY <2>1 DEF RenewedInTime, Renews
  <2>2. CASE ~(UNCHANGED late)
    <3> DEFINE m == task[h].next
    <3>1. /\ late' = [late EXCEPT ![conn] = @ \cup {m}] /\ m \in Markets
          /\ Token(m) # None /\ Token(m) < clock
      BY <1>3, <2>2 DEF Handles, SleepEnds, CheckPasses, CheckRefuses, Writes, WriteOn,
                        FeedTypeInv, FeedTypeOK
    <3>2. ~Renews(m)
      BY <3>1, RenewedIsGood
    <3> HIDE DEF m
    <3> QED BY <1>1, <3>1, <3>2 DEF RenewedInTime, Renews
  <2> QED BY <2>1, <2>2
<1>4. ASSUME UNCHANGED late PROVE RenewedInTime'
  BY <1>4 DEF RenewedInTime, Renews
<1>5. CASE Dispatches \/ \E c \in Conns : Receives(c)
  BY <1>4, <1>5 DEF Dispatches, Receives
<1>6. CASE Quiet
  BY <1>4, <1>6, QuietLeaves
<1> QED BY <1>2, <1>3, <1>5, <1>6, FeedCases DEF Quiet
-----------------------------------------------------------------------------
(* The theorems *)

LEMMA FeedInitIInv == FeedInit => FeedIInv
<1> SUFFICES ASSUME FeedInit PROVE FeedIInv
  OBVIOUS
<1>1. /\ \A h \in Handlers : ~Greeting(h)
      /\ \A c \in Conns : wire[c] = <<>> /\ late[c] = {} /\ \A m \in Markets : heard[c][m] = 0
      /\ runPc = "idle"
  BY DEF FeedInit, Init, Greeting, NoTask
<1>2. FeedTypeInv
  BY FeedInitTypes
<1> QED BY <1>1, <1>2 DEF FeedIInv, GreetingInv, CoverInv, OneHandlerInv, LastWriteInv,
                          SubscribedOnce, RenewedInTime, Flagged

\* The inductive invariant of the feed.
THEOREM FeedInductive == FeedSpec => []FeedIInv
<1>1. FeedIInv /\ [FeedNext]_allVars => FeedIInv'
  BY FeedTypeStep, GreetingStep, CoverStep, OnceStep, LastWriteStep, RenewedStep
     DEF FeedIInv
<1> QED BY <1>1, FeedInitIInv, PTL DEF FeedSpec

\* What was proved of the lifecycle holds of a client with its handlers: the
\* subscriptions add nothing to Run and take nothing from it.
THEOREM FeedIsLifecycle == FeedSpec => Spec /\ ImplementsSupervisor /\ ImplementsSession
<1>1. FeedInit => Init
  BY DEF FeedInit
<1>2. [FeedNext]_allVars => [Next]_vars
  BY FeedStepIsStep
<1>3. FeedSpec => Spec
  BY <1>1, <1>2, PTL DEF FeedSpec, Spec
<1> QED BY <1>3, RunSupervises, SendersSeeSessions, PTL

\* Type correctness: in particular c.conn is never nil when a handler that has
\* passed sendMessage's check reads it again.
THEOREM FeedTypeCorrect == FeedSpec => []FeedTypeOK
<1>1. FeedIInv => FeedTypeOK
  BY DEF FeedIInv, FeedTypeInv
<1> QED BY <1>1, FeedInductive, PTL

\* With a reconnect pause that outlasts the handling of a greeting, no market
\* is subscribed twice on one connection.
THEOREM NeverTwice ==
  ASSUME PauseOutlasts PROVE FeedSpec => []SubscribedOnce
<1>1. FeedIInv => SubscribedOnce
  BY DEF FeedIInv, OneHandlerInv
<1> QED BY <1>1, FeedInductive, PTL

\* With tokens that GetAuthToken does not refuse, the greeting of a session
\* that stays good subscribes every market, whatever handlers of earlier
\* sessions are still at work: the pause plays no part in it.
THEOREM NoneLeftOut ==
  ASSUME TokenLife <= MaxTokenLife PROVE FeedSpec => []NoMarketLeftOut
<1>1. FeedIInv => NoMarketLeftOut
  BY DEF FeedIInv, CoverInv, NoMarketLeftOut, Awaits, InSession, Flagged
<1> QED BY <1>1, FeedInductive, PTL

\* When tokens last at least the second that their deadline is cut down by, no
\* subscription that the client makes the token for is sent with an expired one.
THEOREM AlwaysInTime ==
  ASSUME Second <= TokenLife PROVE FeedSpec => []RenewedInTime
<1>1. FeedIInv => RenewedInTime
  BY DEF FeedIInv
<1> QED BY <1>1, FeedInductive, PTL
-----------------------------------------------------------------------------
(* The server's view *)

\* The subscriptions of the current connection, as MarketFeed has them.
View == IF conn = Nil THEN [m \in Markets |-> 0] ELSE heard[conn]

LEMMA ViewMoves ==
  ASSUME Feed!FeedMoves \/ UNCHANGED <<conn, conn \in greeted, View>>
  PROVE  [Feed!FeedMoves]_(Feed!feedView)
BY DEF Feed!feedView, View

LEMMA FeedBegins == FeedInit => Feed!FeedStart
<1> SUFFICES ASSUME FeedInit PROVE Feed!FeedStart
  OBVIOUS
<1>1. conn = Nil /\ greeted = {}
  BY DEF FeedInit, Init
<1> QED BY <1>1, MarketsAre DEF Feed!FeedStart, Feed!NotHeard, Feed!Registered

\* A subscription that arrives is that of the first market not yet heard of.
LEMMA ArrivesInOrder ==
  ASSUME FeedTypeInv, GreetingInv, CoverInv, OneHandlerInv, LastWriteInv,
         NEW h \in Handlers, Greeting(h), task[h].pc = "write", link[conn] = "open"
  PROVE  /\ conn \in Conns /\ conn # Nil /\ conn \in greeted /\ task[h].next \in Markets
         /\ heard[conn] = [l \in Markets |-> IF l < task[h].next THEN 1 ELSE 0]
<1> DEFINE m == task[h].next
<1>1. /\ task[h].from = conn
      /\ runPc \in {"select", "read", "failed", "closing", "decide", "pause"}
      /\ \A l \in Markets : m <= l => heard[conn][l] = 0
      /\ \A k \in Handlers : Greeting(k) => k = h
  BY DEF OneHandlerInv
<1>2. /\ conn \in Conns /\ conn # Nil /\ heard \in [Conns -> [Markets -> 0 .. 2]]
      /\ m \in Markets /\ m \in Int /\ \A l \in Markets : l \in Int
  <2>1. conn # Nil /\ conn \in Conns
    BY DEF FeedTypeInv, FeedTypeOK, IInv, TypeOK
  <2>2. m \in Markets
    BY DEF FeedTypeInv, FeedTypeOK
  <2> QED BY <2>1, <2>2, MarketsAre DEF FeedTypeInv, FeedTypeOK
<1> HIDE DEF m
<1>3. ~Awaits(conn)
  BY <1>1, <1>2 DEF GreetingInv
<1>4. Flagged \/ runPc = "closing"
  BY <1>1, <1>2 DEF FeedTypeInv, IInv, NoSocketLeaks, Flagged
<1>5. ASSUME NEW l \in Markets, l < m PROVE heard[conn][l] = 1
  <2>1. ~(m <= l)
    BY <1>2, <1>5
  <2>2. heard[conn][l] > 0
    <3>1. CASE Flagged
      <4>1. \/ heard[conn][l] > 0
            \/ \E k \in Handlers : Greeting(k) /\ task[k].from = conn /\ task[k].next <= l
        BY <1>3, <3>1 DEF CoverInv
      <4> QED BY <1>1, <2>1, <4>1 DEF m
    <3>2. CASE runPc = "closing"
      BY <1>5, <3>2 DEF LastWriteInv, m
    <3> QED BY <1>4, <3>1, <3>2
  <2>3. heard[conn][l] <= 1 /\ heard[conn][l] \in Int
    BY <1>2 DEF OneHandlerInv, SubscribedOnce
  <2> QED BY <2>2, <2>3
<1>6. ASSUME NEW l \in Markets
      PROVE  heard[conn][l] = IF l < m THEN 1 ELSE 0
  <2>1. l < m \/ m <= l
    BY <1>2
  <2> QED BY <1>1, <1>5, <2>1, <1>2
<1>7. heard[conn] = [l \in Markets |-> heard[conn][l]]
  BY <1>2
<1> QED BY <1>2, <1>3, <1>6, <1>7 DEF Awaits, m

LEMMA HandlesInOrder ==
  ASSUME FeedTypeInv, GreetingInv, CoverInv, OneHandlerInv, LastWriteInv,
         NEW h \in Handlers, Handles(h)
  PROVE  Feed!FeedMoves \/ UNCHANGED <<conn, conn \in greeted, View>>
<1>1. UNCHANGED <<conn, greeted>>
  BY HandlesLeaves DEF vars, clientVars
<1>2. CASE UNCHANGED heard
  BY <1>1, <1>2 DEF View
<1>3. CASE ~(UNCHANGED heard)
  <2> DEFINE m == task[h].next
  <2>1. /\ Greeting(h) /\ task[h].pc = "write" /\ link[conn] = "open"
        /\ heard' = [heard EXCEPT ![conn][m] = IF @ < 2 THEN @ + 1 ELSE @]
    BY <1>3 DEF Handles, SleepEnds, CheckPasses, CheckRefuses, Writes, WriteOn
  <2>2. /\ conn \in Conns /\ conn # Nil /\ conn \in greeted /\ m \in Markets
        /\ heard[conn] = [l \in Markets |-> IF l < m THEN 1 ELSE 0]
    BY <2>1, ArrivesInOrder
  <2>3. m \in Int /\ heard[conn][m] = 0
    BY <2>2, MarketsAre
  <2>4. heard'[conn] = [heard[conn] EXCEPT ![m] = 1]
    <3>1. heard \in [Conns -> [Markets -> 0 .. 2]]
      BY DEF FeedTypeInv, FeedTypeOK
    <3> HIDE DEF m
    <3>2. heard'[conn] = [heard[conn] EXCEPT ![m] = IF @ < 2 THEN @ + 1 ELSE @]
      BY <2>1, <2>2, <3>1, Zenon
    <3> QED BY <2>3, <3>2
  <2>5. Feed!Subscribes(m)
    BY <1>1, <2>2, <2>4, MarketsAre DEF Feed!Subscribes, Feed!Registered
  <2> QED BY <2>2, <2>5, MarketsAre DEF Feed!FeedMoves, Feed!Registered
<1> QED BY <1>2, <1>3

LEMMA FeedStepMoves ==
  ASSUME FeedTypeInv, GreetingInv, CoverInv, OneHandlerInv, LastWriteInv, [FeedNext]_allVars
  PROVE  [Feed!FeedMoves]_(Feed!feedView)
<1>1. CASE Connects
  <2>1. PICK c \in Conns \ {conn} : conn' = c
    BY <1>1 DEF Connects, DialSucceeds
  <2>2. greeted' = greeted \ {c} /\ heard' = [heard EXCEPT ![c] = [m \in Markets |-> 0]]
    BY <1>1, <2>1 DEF Connects
  <2>3. c # Nil /\ heard'[c] = [m \in Markets |-> 0]
    BY <2>2, ClientAssumption DEF FeedTypeInv, FeedTypeOK
  <2>4. Feed!Comes
    BY <2>1, <2>2, <2>3, MarketsAre DEF Feed!Comes, Feed!NotHeard, Feed!Registered
  <2> QED BY <2>4, ViewMoves DEF Feed!FeedMoves
<1>2. ASSUME NEW c \in Conns, Receives(c) PROVE [Feed!FeedMoves]_(Feed!feedView)
  <2>1. UNCHANGED <<conn, heard>> /\ greeted' = greeted \cup {c}
    BY <1>2 DEF Receives, Arrives, clientVars
  <2>2. CASE c = conn /\ conn \notin greeted
    <3>1. c # Nil
      BY ClientAssumption
    <3>2. Feed!Greets
      BY <2>1, <2>2, <3>1 DEF Feed!Greets
    <3> QED BY <3>2, ViewMoves DEF Feed!FeedMoves
  <2>3. CASE ~(c = conn /\ conn \notin greeted)
    <3>1. UNCHANGED <<conn, conn \in greeted, View>>
      BY <2>1, <2>3 DEF View
    <3> QED BY <3>1, ViewMoves
  <2> QED BY <2>2, <2>3
<1>3. ASSUME NEW h \in Handlers, Handles(h) PROVE [Feed!FeedMoves]_(Feed!feedView)
  BY <1>3, HandlesInOrder, ViewMoves
<1>4. CASE Dispatches \/ Quiet
  <2>1. UNCHANGED <<conn, greeted, heard>>
    <3>1. CASE Dispatches
      BY <3>1 DEF Dispatches, ReadReturns, clientVars
    <3>2. CASE Quiet
      <4>1. UNCHANGED <<greeted, heard>>
        BY <3>2, QuietLeaves
      <4>2. UNCHANGED conn
        BY <3>2 DEF Quiet, WakesUp, Pause, Aside, DialFails, Publish, SelectContinue, ReadFails,
             PongFails, Unpublish, CloseFailed, Decide, StartRun, NetChanges, Breaks, Passes, allVars, vars,
             clientVars
      <4> QED BY <4>1, <4>2
    <3> QED BY <1>4, <3>1, <3>2
  <2> QED BY <2>1, ViewMoves DEF View
<1> QED BY <1>1, <1>2, <1>3, <1>4, FeedCases DEF Quiet

\* The server sees every connection's greeting and then the markets in their order,
\* each once, for any handlers, subscriptions, sessions and clock, if the pause
\* outlasts a greeting's handler and tokens are not refused: no handler that
\* outlives its session and no write that meets a broken connection shows.
THEOREM ServerSeesFeed ==
  ASSUME PauseOutlasts, TokenLife <= MaxTokenLife
  PROVE  FeedSpec => ImplementsFeed
<1>1. FeedIInv /\ [FeedNext]_allVars => [Feed!FeedMoves]_(Feed!feedView)
  BY FeedStepMoves DEF FeedIInv
<1> QED BY <1>1, FeedBegins, FeedInductive, PTL
     DEF FeedSpec, ImplementsFeed, Feed!MarketFeedSpec
=============================================================================
