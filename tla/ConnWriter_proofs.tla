------------------------- MODULE ConnWriter_proofs -------------------------
(***************************************************************************)
(* Proofs about the write side of a connection, for any set of goroutines  *)
(* that call WriteMessage, any set that call WriteControl and any number   *)
(* of calls.                                                               *)
(***************************************************************************)
EXTENDS ConnWriter, TLAPS

\* Who is at the socket write holds the token c.mu.
TokenHeld == \A g \in Writers \cup Controllers : pc[g] = "send" => token = g

\* A call that is under way was counted.
Started == \A w \in Writers : pc[w] # "idle" => calls[w] >= 1

Flagged  == {"lock", "send", "unflag"}             \* isWriting is set by this call
Flushing == {"flush"} \cup Flagged

\* A flush has a messageWriter.
Aimed == \A w \in Writers : pc[w] \in Flushing => target[w] \in Messages

\* An error of the socket is kept.
ErrorKept == \A w \in Writers : outcome[w] = "error" => writeErr

TypeIInv == TypeOK /\ TokenHeld /\ Started /\ Aimed /\ ErrorKept

Before == {"begin", "clear", "check", "install", "copy"}  \* nothing is copied yet
Open   == {"copy", "fill"} \cup Flushing                  \* c.writer is this call's

\* What one call of WriteMessage relies on as long as no other overlaps it:
\* the messageWriter, the flag and the buffer are its own.
OwnsConn(w) ==
  /\ pc[w] # "clear" /\ Message(w) \notin ended
  /\ writer # Nil => writer = Message(w) /\ pc[w] \in Open
  /\ pc[w] \in Open => writer = Message(w)
  /\ pc[w] \in Flushing => /\ target[w] = Message(w) /\ Message(w) \in filled
                           /\ buf = <<Message(w), copied[w]>>
  /\ isWriting <=> pc[w] \in Flagged

\* How far the message of a call has got: the frame of the buffer that was
\* filled last is still to be sent, or may be on the wire.
Progress(w) ==
  LET m == Message(w)
  IN  /\ fate[m] = "none" /\ copied[w] <= FramesOf[m]
      /\ pc[w] \in Before => copied[w] = 0
      /\ pc[w] = "fill" => copied[w] < FramesOf[m]
      /\ pc[w] \in Before \cup {"fill"} => sent[m] = copied[w]
      /\ pc[w] \in {"flush", "lock", "send"} => copied[w] = sent[m] + 1
      /\ pc[w] = "unflag" => /\ sent[m] = copied[w] \/ copied[w] = sent[m] + 1
                             /\ outcome[w] = "ok" => sent[m] = copied[w]

\* Nothing has happened to the messages of calls still to come.
Untouched ==
  \A m \in Messages :
    m[2] > calls[m[1]] => sent[m] = 0 /\ fate[m] = "none" /\ m \notin ended

Alone == \A v, w \in Writers : pc[v] # "idle" /\ pc[w] # "idle" => v = w

CalmInv ==
  ~overlapped =>
    /\ Alone /\ Untouched
    /\ \A w \in Writers : pc[w] # "idle" => OwnsConn(w) /\ Progress(w)
    /\ (\A w \in Writers : pc[w] = "idle") => writer = Nil /\ ~isWriting

IInv == TypeIInv /\ CalmInv /\ AcceptedWhole
-----------------------------------------------------------------------------
(* Types and the token *)

LEMMA Bump ==
  ASSUME NEW S, NEW f \in [S -> Nat], NEW x
  PROVE  [f EXCEPT ![x] = @ + 1] \in [S -> Nat]
<1>1. CASE x \in S
  BY <1>1
<1>2. CASE x \notin S
  BY <1>2
<1> QED
  BY <1>1, <1>2

LEMMA InitType == Init => TypeIInv
<1> SUFFICES ASSUME Init PROVE TypeIInv
  OBVIOUS
<1> USE WriterAssumption DEF Init
<1>1. /\ pc \in [Writers \cup Controllers ->
                 {"idle", "begin", "clear", "check", "install", "copy", "fill", "flush",
                  "lock", "send", "unflag", "over"}]
      /\ calls \in [Writers -> 0 .. MaxCalls] /\ copied \in [Writers -> Nat]
  OBVIOUS
<1>2. /\ target \in [Writers -> Messages \cup {Nil}]
      /\ outcome \in [Writers -> {"ok", "error"}] /\ \A w \in Writers : outcome[w] = "ok"
  OBVIOUS
<1>3. /\ fate \in [Messages -> {"none", "accepted", "refused"}]
      /\ sent \in [Messages -> Nat]
  OBVIOUS
<1>4. \A g \in Writers \cup Controllers : pc[g] = "idle"
  OBVIOUS
<1>5. TypeOK
  BY <1>1, <1>2, <1>3, <1>4 DEF TypeOK
<1> QED
  BY <1>2, <1>4, <1>5 DEF TypeIInv, TokenHeld, Started, Aimed, ErrorKept, Flushing, Flagged

\* A call under way has a message of its own, the last one of its goroutine.
LEMMA OwnMessage ==
  ASSUME TypeIInv, NEW w \in Writers, pc[w] # "idle"
  PROVE  /\ Message(w) \in Messages /\ Message(w)[1] = w
         /\ Message(w)[2] = calls[w] /\ calls[w] \in Nat
         /\ FramesOf[Message(w)] \in Nat /\ FramesOf[Message(w)] > 0
<1>1. /\ Message(w) \in Messages /\ Message(w)[1] = w
      /\ Message(w)[2] = calls[w] /\ calls[w] \in Nat
  BY WriterAssumption DEF TypeIInv, TypeOK, Started, Message, Messages
<1> QED
  BY <1>1, WriterAssumption DEF Messages

LEMMA TypeStep == TypeIInv /\ [Next]_vars => TypeIInv'
<1> SUFFICES ASSUME TypeIInv, [Next]_vars PROVE TypeIInv'
  OBVIOUS
<1>0. \A w \in Writers : pc[w] # "idle" => Message(w) \in Messages
  BY OwnMessage
<1>00. UNCHANGED calls => Messages' = Messages
  BY DEF Messages
<1> USE WriterAssumption DEF TypeIInv, TypeOK, TokenHeld, Started, Aimed, ErrorKept,
          Flushing, Flagged, Goto, sharedVars, localVars, history
<1>1. ASSUME NEW w \in Writers, Call(w) PROVE TypeIInv'
  BY <1>1 DEF Call
<1>2. ASSUME NEW w \in Writers, BeginClosesOther(w) PROVE TypeIInv'
  BY <1>2 DEF BeginClosesOther
<1>3. ASSUME NEW w \in Writers, BeginClears(w) PROVE TypeIInv'
  BY <1>3 DEF BeginClears
<1>4. ASSUME NEW w \in Writers, BeginRefuses(w) PROVE TypeIInv'
  BY <1>4 DEF BeginRefuses, ReturnFrom
<1>5. ASSUME NEW w \in Writers, Begins(w) PROVE TypeIInv'
  BY <1>5 DEF Begins
<1>6. ASSUME NEW w \in Writers, Installs(w) PROVE TypeIInv'
  <2>1. Message(w) \in Messages
    BY <1>0, <1>6 DEF Installs
  <2> QED
    BY <1>6, <2>1 DEF Installs
<1>7. ASSUME NEW w \in Writers, WriteRefuses(w) PROVE TypeIInv'
  BY <1>7 DEF WriteRefuses, ReturnFrom
<1>8. ASSUME NEW w \in Writers, Copies(w) PROVE TypeIInv'
  <2>1. Message(w) \in Messages /\ copied[w] + 1 \in Nat
    BY <1>0, <1>8 DEF Copies
  <2>2. buf' \in Messages \X Nat /\ filled' \subseteq Messages
    BY <1>8, <2>1 DEF Copies
  <2>3. copied' \in [Writers -> Nat] /\ target' \in [Writers -> Messages \cup {Nil}]
    BY <1>8, <2>1 DEF Copies
  <2> QED
    BY <1>8, <2>1, <2>2, <2>3 DEF Copies
<1>9. ASSUME NEW w \in Writers, FlushOfEnded(w) PROVE TypeIInv'
  BY <1>9 DEF FlushOfEnded, ReturnFrom
<1>10. ASSUME NEW w \in Writers, FlushStarts(w) PROVE TypeIInv'
  <2>1. CASE isWriting
    BY <1>10, <2>1 DEF FlushStarts, Panic
  <2>2. CASE ~isWriting
    BY <1>10, <2>2 DEF FlushStarts
  <2> QED
    BY <2>1, <2>2
<1>11. ASSUME NEW w \in Writers, Locks(w) PROVE TypeIInv'
  BY <1>11 DEF Locks
<1>12. ASSUME NEW w \in Writers, Sends(w) PROVE TypeIInv'
  <2>1. sent' \in [Messages -> Nat] /\ writeErr' \in BOOLEAN /\ garbled' \in BOOLEAN
    <3>1. [sent EXCEPT ![target[w]] = @ + 1] \in [Messages -> Nat]
      BY Bump
    <3> QED
      BY <1>12, <3>1 DEF Sends, Reaches
  <2>2. /\ outcome' \in [Writers -> {"ok", "error"}]
        /\ \A v \in Writers : outcome'[v] = "error" => writeErr'
    BY <1>12 DEF Sends
  <2>3. /\ token' = Nil /\ pc' = [pc EXCEPT ![w] = "unflag"]
        /\ UNCHANGED <<writer, isWriting, buf, calls, copied, filled, ended, target,
                       fate, crashed, overlapped>>
    BY <1>12 DEF Sends
  <2>4. \A g \in Writers \cup Controllers : pc[g] = "send" => g = w
    BY <1>12 DEF Sends
  <2> QED
    BY <1>12, <2>1, <2>2, <2>3, <2>4 DEF Sends
<1>13. ASSUME NEW w \in Writers, FlushFindsOther(w) PROVE TypeIInv'
  BY <1>13 DEF FlushFindsOther, Panic
<1>14. ASSUME NEW w \in Writers, FlushContinues(w) PROVE TypeIInv'
  BY <1>14 DEF FlushContinues
<1>15. ASSUME NEW w \in Writers, FlushEnds(w) PROVE TypeIInv'
  <2>1. target[w] \in Messages /\ pc[w] = "unflag" /\ token # w
    BY <1>15 DEF FlushEnds
  <2>2. ended' \subseteq Messages /\ writer' \in Messages \cup {Nil}
    BY <1>15, <2>1 DEF FlushEnds, EndMessage
  <2>3. /\ fate' \in [Messages -> {"none", "accepted", "refused"}]
        /\ pc' = [pc EXCEPT ![w] = "idle"] \/ pc' = [pc EXCEPT ![w] = "clear"]
    BY <1>15 DEF FlushEnds, ReturnFrom
  <2>4. /\ isWriting' = FALSE
        /\ UNCHANGED <<token, writeErr, buf, calls, copied, filled, target, outcome,
                       sent, garbled, crashed, overlapped>>
    BY <1>15 DEF FlushEnds
  <2>5. CASE pc' = [pc EXCEPT ![w] = "idle"]
    BY <2>1, <2>2, <2>3, <2>4, <2>5
  <2>6. CASE pc' = [pc EXCEPT ![w] = "clear"]
    BY <2>1, <2>2, <2>3, <2>4, <2>6
  <2> QED
    BY <2>3, <2>5, <2>6
<1>16. ASSUME NEW k \in Controllers, Control(k) PROVE TypeIInv'
  BY <1>16 DEF Control
<1>17. ASSUME NEW k \in Controllers, Locks(k) PROVE TypeIInv'
  BY <1>17 DEF Locks
<1>18. ASSUME NEW k \in Controllers, ControlFails(k) PROVE TypeIInv'
  BY <1>18 DEF ControlFails
<1>19. ASSUME NEW k \in Controllers, ControlSends(k) PROVE TypeIInv'
  BY <1>19 DEF ControlSends
<1>20. CASE UNCHANGED vars
  BY <1>20 DEF vars
<1> QED
  BY <1>1, <1>2, <1>3, <1>4, <1>5, <1>6, <1>7, <1>8, <1>9, <1>10, <1>11, <1>12, <1>13, <1>14, <1>15, <1>16, <1>17, <1>18, <1>19, <1>20
     DEF Next, WriteMessage, WriteControl
-----------------------------------------------------------------------------
(* Calls that do not overlap *)

LEMMA InitCalm == Init => CalmInv /\ AcceptedWhole
<1> SUFFICES ASSUME Init PROVE CalmInv /\ AcceptedWhole
  OBVIOUS
<1>1. \A w \in Writers : pc[w] = "idle"
  BY DEF Init
<1>2. \A m \in Messages : sent[m] = 0 /\ fate[m] = "none" /\ FramesOf[m] >= 0
  BY WriterAssumption DEF Init, Messages
<1> QED
  BY <1>1, <1>2 DEF Init, CalmInv, AcceptedWhole, Alone, Untouched

\* A step of a goroutine that is alone in WriteMessage keeps the invariant if
\* it keeps what is said of its own call and of the messages.
LEMMA Assemble ==
  ASSUME NEW w \in Writers,
         \A v \in Writers \ {w} : pc'[v] = "idle",
         Untouched',
         pc'[w] # "idle" => (OwnsConn(w) /\ Progress(w))',
         pc'[w] = "idle" => writer' = Nil /\ ~isWriting'
  PROVE  CalmInv'
BY DEF CalmInv, Alone

LEMMA CallCalm ==
  ASSUME TypeIInv, CalmInv, AcceptedWhole, NEW w \in Writers, Call(w)
  PROVE  CalmInv' /\ AcceptedWhole'
<1> SUFFICES ASSUME ~overlapped' PROVE CalmInv' /\ AcceptedWhole'
  BY DEF CalmInv, AcceptedWhole
<1>1. ~overlapped /\ \A v \in Writers : pc[v] = "idle"
  BY DEF Call
<1>2. writer = Nil /\ ~isWriting /\ Untouched
  BY <1>1 DEF CalmInv
<1>3. /\ pc'[w] = "begin" /\ \A v \in Writers \ {w} : pc'[v] = "idle"
      /\ calls' = [calls EXCEPT ![w] = @ + 1] /\ calls[w] \in Nat /\ calls'[w] = calls[w] + 1
      /\ calls[w] < MaxCalls /\ copied'[w] = 0
      /\ UNCHANGED <<writer, isWriting, writeErr, ended, fate, sent, garbled, crashed>>
  BY <1>1 DEF Call, Goto, TypeIInv, TypeOK, sharedVars
<1>4. Untouched'
  <2>1. ASSUME NEW m \in Messages, m[2] > calls'[m[1]] PROVE m[2] > calls[m[1]]
    BY <1>3, <2>1 DEF Messages, TypeIInv, TypeOK
  <2> QED
    BY <1>2, <1>3, <2>1 DEF Untouched, Messages
<1>5. <<w, calls[w] + 1>> \in Messages /\ FramesOf[<<w, calls[w] + 1>>] >= 0
  BY <1>3, WriterAssumption DEF Messages
<1>6. /\ sent[<<w, calls[w] + 1>>] = 0 /\ fate[<<w, calls[w] + 1>>] = "none"
      /\ <<w, calls[w] + 1>> \notin ended
  BY <1>2, <1>3, <1>5 DEF Untouched
<1>7. Message(w)' = <<w, calls[w] + 1>>
  BY <1>3 DEF Message
<1>8. (OwnsConn(w) /\ Progress(w))'
  BY <1>2, <1>3, <1>5, <1>6, <1>7 DEF OwnsConn, Progress, Before, Open, Flushing, Flagged
<1>9. CalmInv'
  BY <1>3, <1>4, <1>8, Assemble
<1>10. \A m \in Messages : ~InHand(m)
  BY <1>1 DEF InHand
<1> QED
  BY <1>1, <1>3, <1>9, <1>10 DEF AcceptedWhole, Messages

\* What a step of a call that is alone starts from.
LEMMA OnItsOwn ==
  ASSUME TypeIInv, CalmInv, AcceptedWhole, ~overlapped,
         NEW w \in Writers, pc[w] # "idle"
  PROVE  /\ \A v \in Writers \ {w} : pc[v] = "idle"
         /\ OwnsConn(w) /\ Progress(w) /\ Untouched
         /\ ~crashed /\ ~garbled
         /\ \A m \in Messages : InHand(m) <=> m = Message(w)
<1>1. \A v \in Writers \ {w} : pc[v] = "idle"
  BY DEF CalmInv, Alone
<1>2. \A m \in Messages : InHand(m) <=> m = Message(w)
  BY <1>1 DEF InHand
<1> QED
  BY <1>1, <1>2 DEF CalmInv, AcceptedWhole

\* A flush of a call that is alone is of its own message: it is the last if all
\* of the message is copied, and the frame that it sends is the next one.
LEMMA OwnFlush ==
  ASSUME TypeIInv, NEW w \in Writers, OwnsConn(w), Progress(w), pc[w] \in Flushing
  PROVE  /\ Own(w) /\ (Final(w) <=> copied[w] = FramesOf[Message(w)])
         /\ target[w] = Message(w) /\ Message(w) \notin ended
         /\ pc[w] = "send" => NextFrame(w)
<1>1. Own(w) /\ target[w] = Message(w) /\ (Final(w) <=> copied[w] = FramesOf[Message(w)])
  BY DEF OwnsConn, Own, Final
<1>2. ASSUME pc[w] = "send" PROVE NextFrame(w)
  <2>1. copied[w] = sent[Message(w)] + 1
    BY <1>2 DEF Progress
  <2> QED
    BY <1>1, <2>1 DEF OwnsConn, NextFrame
<1> QED
  BY <1>1, <1>2 DEF OwnsConn

LEMMA WriterCalm ==
  ASSUME TypeIInv, CalmInv, AcceptedWhole, NEW w \in Writers, WriteMessage(w)
  PROVE  CalmInv' /\ AcceptedWhole'
<1> DEFINE MovesTo(label) == pc' = [pc EXCEPT ![w] = label]
           Leaves == UNCHANGED <<writeErr, calls, ended, fate, sent, garbled, crashed>>
<1>0. pc[w] # "idle" /\ overlapped' = overlapped
  BY DEF WriteMessage, BeginClosesOther, BeginClears, BeginRefuses, Begins, Installs,
         WriteRefuses, Copies, FlushOfEnded, FlushStarts, Locks, Sends, FlushFindsOther,
         FlushContinues, FlushEnds, Panic, history
<1> SUFFICES ASSUME ~overlapped PROVE CalmInv' /\ AcceptedWhole'
  BY <1>0 DEF CalmInv, AcceptedWhole
<1>1. /\ \A v \in Writers \ {w} : pc[v] = "idle"
      /\ OwnsConn(w) /\ Progress(w) /\ Untouched /\ ~crashed /\ ~garbled
      /\ \A m \in Messages : InHand(m) <=> m = Message(w)
  BY <1>0, OnItsOwn
<1>2. /\ Message(w) \in Messages /\ Message(w)[1] = w
      /\ Message(w)[2] = calls[w] /\ calls[w] \in Nat
      /\ FramesOf[Message(w)] \in Nat /\ FramesOf[Message(w)] > 0
  BY <1>0, OwnMessage
<1>3. /\ DOMAIN pc = Writers \cup Controllers /\ sent \in [Messages -> Nat]
      /\ copied \in [Writers -> Nat]
  BY DEF TypeIInv, TypeOK
\* A step that leaves the messages as they are.
<1>4. ASSUME NEW label, label # "idle", MovesTo(label), Leaves, (OwnsConn(w) /\ Progress(w))'
      PROVE  CalmInv' /\ AcceptedWhole'
  <2>1. /\ pc'[w] = label /\ \A v \in Writers \ {w} : pc'[v] = "idle"
    BY <1>1, <1>3, <1>4
  <2>2. Untouched'
    BY <1>1, <1>4 DEF Untouched
  <2>3. CalmInv'
    BY <1>4, <2>1, <2>2, Assemble
  <2>4. InHand(Message(w))' /\ Message(w)' = Message(w)
    BY <1>4, <2>1 DEF InHand, Message
  <2>5. \A m \in Messages : InHand(m) => InHand(m)'
    BY <1>1, <2>4
  <2> QED
    BY <1>4, <2>3, <2>5 DEF AcceptedWhole
\* A step that returns.
<1>5. ASSUME NEW result \in {"accepted", "refused"}, ReturnFrom(w, result),
             UNCHANGED <<writeErr, calls, sent, garbled, crashed>>,
             ended' \subseteq ended \cup {Message(w)}, writer' = Nil, ~isWriting',
             result = "accepted" => sent[Message(w)] = FramesOf[Message(w)],
             sent[Message(w)] <= FramesOf[Message(w)],
             sent[Message(w)] > 0 /\ sent[Message(w)] < FramesOf[Message(w)] => writeErr
      PROVE  CalmInv' /\ AcceptedWhole'
  <2>1. /\ pc'[w] = "idle" /\ \A v \in Writers \ {w} : pc'[v] = "idle"
    BY <1>1, <1>3, <1>5 DEF ReturnFrom, Goto
  <2>2. \A m \in Messages : fate'[m] = IF m = Message(w) THEN result ELSE fate[m]
    BY <1>5 DEF ReturnFrom, TypeIInv, TypeOK
  <2>3. Untouched'
    BY <1>1, <1>2, <1>5, <2>2 DEF Untouched
  <2>4. CalmInv'
    BY <1>5, <2>1, <2>3, Assemble
  <2>5. ASSUME NEW m \in Messages
        PROVE  /\ fate'[m] = "accepted" => sent[m] = FramesOf[m]
               /\ sent[m] <= FramesOf[m]
               /\ sent[m] > 0 /\ sent[m] < FramesOf[m] => writeErr
    <3>1. CASE m = Message(w)
      BY <1>5, <2>2, <3>1
    <3>2. CASE m # Message(w)
      BY <1>1, <2>2, <3>2 DEF AcceptedWhole
    <3> QED
      BY <3>1, <3>2
  <2> QED
    BY <1>1, <1>5, <2>4, <2>5 DEF AcceptedWhole
<1>6. pc[w] \in Flushing => /\ Own(w) /\ (Final(w) <=> copied[w] = FramesOf[Message(w)])
                            /\ target[w] = Message(w) /\ Message(w) \notin ended
                            /\ pc[w] = "send" => NextFrame(w)
  BY <1>1, OwnFlush
<1> USE DEF OwnsConn, Progress, Before, Open, Flushing, Flagged, Goto, sharedVars,
            localVars, history
<1>7. CASE BeginClosesOther(w)
  BY <1>1, <1>7 DEF BeginClosesOther
<1>8. CASE BeginClears(w)
  <2>1. (OwnsConn(w) /\ Progress(w))'
    BY <1>1, <1>3, <1>8 DEF BeginClears, Message
  <2> QED
    BY <1>4, <1>8, <2>1 DEF BeginClears
<1>9. CASE BeginRefuses(w)
  <2>1. /\ ReturnFrom(w, "refused") /\ sent[Message(w)] = 0 /\ writer = Nil /\ ~isWriting
        /\ UNCHANGED <<sharedVars, calls, ended, sent, garbled, crashed>>
    BY <1>1, <1>9 DEF BeginRefuses
  <2> QED
    BY <1>2, <1>5, <2>1
<1>10. CASE Begins(w)
  <2>1. (OwnsConn(w) /\ Progress(w))'
    BY <1>1, <1>3, <1>10 DEF Begins, Message
  <2> QED
    BY <1>4, <1>10, <2>1 DEF Begins
<1>11. CASE Installs(w)
  <2>1. (OwnsConn(w) /\ Progress(w))'
    BY <1>1, <1>3, <1>11 DEF Installs, Message
  <2> QED
    BY <1>4, <1>11, <2>1 DEF Installs
<1>12. CASE WriteRefuses(w)
  BY <1>1, <1>12 DEF WriteRefuses
<1>13. CASE Copies(w)
  <2>1. copied'[w] = copied[w] + 1 /\ copied[w] < FramesOf[Message(w)]
    BY <1>1, <1>2, <1>3, <1>13 DEF Copies
  <2>2. /\ pc'[w] = "flush" /\ target'[w] = Message(w) /\ buf' = <<Message(w), copied'[w]>>
        /\ Message(w) \in filled' /\ Message(w)' = Message(w)
        /\ UNCHANGED <<writer, isWriting, ended, fate, sent>>
        /\ pc[w] \in {"copy", "fill"}
    BY <1>3, <1>13, <2>1 DEF Copies, Message, TypeIInv, TypeOK
  <2>3. (OwnsConn(w) /\ Progress(w))'
    BY <1>1, <1>2, <1>3, <2>1, <2>2
  <2> QED
    BY <1>4, <1>13, <2>3 DEF Copies
<1>14. CASE FlushOfEnded(w)
  BY <1>6, <1>14 DEF FlushOfEnded
<1>15. CASE FlushStarts(w)
  <2>1. ~isWriting
    BY <1>1, <1>15 DEF FlushStarts
  <2>2. (OwnsConn(w) /\ Progress(w))'
    BY <1>1, <1>3, <1>15, <2>1 DEF FlushStarts, Message
  <2> QED
    BY <1>4, <1>15, <2>1, <2>2 DEF FlushStarts
<1>16. CASE Locks(w)
  <2>1. (OwnsConn(w) /\ Progress(w))'
    BY <1>1, <1>3, <1>16 DEF Locks, Message
  <2> QED
    BY <1>4, <1>16, <2>1 DEF Locks
<1>17. CASE FlushFindsOther(w)
  BY <1>1, <1>17 DEF FlushFindsOther
<1>18. CASE FlushContinues(w)
  <2>1. (OwnsConn(w) /\ Progress(w))'
    <3>1. /\ pc[w] = "unflag" /\ pc'[w] = "fill" /\ ~isWriting' /\ ~Final(w)
          /\ outcome[w] = "ok" /\ Message(w)' = Message(w)
          /\ UNCHANGED <<writer, ended, copied, fate, sent>>
      BY <1>3, <1>18 DEF FlushContinues, Message
    <3>2. copied[w] # FramesOf[Message(w)] /\ sent[Message(w)] = copied[w]
      BY <1>1, <1>6, <3>1
    <3> QED
      BY <1>1, <1>2, <1>3, <3>1, <3>2
  <2> QED
    BY <1>4, <1>18, <2>1 DEF FlushContinues
<1>19. CASE FlushEnds(w)
  <2>1. /\ Own(w) /\ target[w] = Message(w) /\ Message(w) \notin ended
        /\ outcome[w] \in {"ok", "error"} /\ (outcome[w] = "error" => writeErr)
        /\ outcome[w] = "ok" => copied[w] = FramesOf[Message(w)]
    BY <1>6, <1>19 DEF FlushEnds, TypeIInv, TypeOK, ErrorKept
  <2>2. /\ ReturnFrom(w, IF outcome[w] = "ok" THEN "accepted" ELSE "refused")
        /\ writer' = Nil /\ ended' = ended \cup {Message(w)} /\ ~isWriting'
        /\ UNCHANGED <<writeErr, calls, sent, garbled, crashed>>
    BY <1>19, <2>1 DEF FlushEnds, EndMessage
  <2>3. /\ outcome[w] = "ok" => sent[Message(w)] = FramesOf[Message(w)]
        /\ sent[Message(w)] <= FramesOf[Message(w)]
    BY <1>1, <1>2, <1>3, <1>19, <2>1 DEF FlushEnds
  <2>4. CASE outcome[w] = "ok"
    <3>1. ReturnFrom(w, "accepted")
      BY <2>2, <2>4
    <3> QED
      BY <1>2, <1>3, <1>5, <2>2, <2>3, <2>4, <3>1
  <2>5. CASE outcome[w] = "error"
    <3>1. ReturnFrom(w, "refused")
      BY <2>2, <2>5
    <3> QED
      BY <1>5, <2>1, <2>2, <2>3, <2>5, <3>1
  <2> QED
    BY <2>1, <2>4, <2>5
<1>20. CASE Sends(w)
  <2>1. /\ NextFrame(w) /\ target[w] = Message(w) /\ copied[w] = sent[Message(w)] + 1
        /\ copied[w] <= FramesOf[Message(w)]
        /\ MovesTo("unflag")
        /\ UNCHANGED <<calls, copied, fate, crashed, writer, isWriting, buf, filled,
                       ended, target>>
    BY <1>1, <1>6, <1>20 DEF Sends
  <2>2. Reaches(w) => sent' = [sent EXCEPT ![Message(w)] = @ + 1] /\ UNCHANGED garbled
    BY <1>1, <2>1 DEF Reaches
  <2>3. /\ sent' = sent \/ sent' = [sent EXCEPT ![Message(w)] = @ + 1]
        /\ outcome'[w] = "ok" => sent' = [sent EXCEPT ![Message(w)] = @ + 1]
        /\ UNCHANGED garbled /\ (writeErr => writeErr')
    BY <1>20, <2>2 DEF Sends, TypeIInv, TypeOK
  <2>4. /\ \A m \in Messages : m # Message(w) => sent'[m] = sent[m]
        /\ sent'[Message(w)] = sent[Message(w)] \/ sent'[Message(w)] = sent[Message(w)] + 1
        /\ outcome'[w] = "ok" => sent'[Message(w)] = sent[Message(w)] + 1
    BY <1>2, <1>3, <2>3
  <2>5. /\ pc'[w] = "unflag" /\ \A v \in Writers \ {w} : pc'[v] = "idle"
    BY <1>1, <1>3, <2>1
  <2>6. Message(w)' = Message(w)
    BY <2>1 DEF Message
  <2>7. (OwnsConn(w) /\ Progress(w))'
    BY <1>1, <1>20, <2>1, <2>4, <2>5, <2>6 DEF Sends
  <2>8. Untouched'
    BY <1>1, <1>2, <2>1, <2>4 DEF Untouched
  <2>9. CalmInv'
    BY <2>5, <2>7, <2>8, Assemble
  <2>10. /\ fate[Message(w)] = "none" /\ \A m \in Messages : m = Message(w) => InHand(m)'
         /\ sent'[Message(w)] <= FramesOf[Message(w)]
    BY <1>1, <1>2, <1>3, <2>1, <2>4, <2>5, <2>6 DEF InHand
  <2>11. ASSUME NEW m \in Messages
         PROVE  /\ fate'[m] = "accepted" => sent'[m] = FramesOf[m]
                /\ sent'[m] <= FramesOf[m]
                /\ sent'[m] > 0 /\ sent'[m] < FramesOf[m] => InHand(m)' \/ writeErr'
    <3>1. CASE m = Message(w)
      BY <2>1, <2>10, <3>1
    <3>2. CASE m # Message(w)
      BY <1>1, <2>1, <2>3, <2>4, <3>2 DEF AcceptedWhole
    <3> QED
      BY <3>1, <3>2
  <2> QED
    BY <1>1, <2>1, <2>3, <2>9, <2>11 DEF AcceptedWhole
<1> QED
  BY <1>7, <1>8, <1>9, <1>10, <1>11, <1>12, <1>13, <1>14, <1>15, <1>16, <1>17, <1>18, <1>19, <1>20
     DEF WriteMessage

\* Control frames disturb no message.
LEMMA ControllerCalm ==
  ASSUME TypeIInv, CalmInv, AcceptedWhole, NEW k \in Controllers,
         Control(k) \/ WriteControl(k)
  PROVE  CalmInv' /\ AcceptedWhole'
<1>1. /\ \A w \in Writers : pc'[w] = pc[w]
      /\ UNCHANGED <<writer, isWriting, buf, calls, copied, filled, ended, target, outcome,
                     history>>
      /\ writeErr => writeErr'
  BY WriterAssumption DEF TypeIInv, TypeOK, Control, WriteControl, Locks, ControlFails,
     ControlSends, Goto, sharedVars, history
<1>2. \A w \in Writers : OwnsConn(w)' = OwnsConn(w) /\ Progress(w)' = Progress(w)
  BY <1>1 DEF OwnsConn, Progress, Message, history
<1>3. \A m \in Messages : InHand(m)' = InHand(m)
  BY <1>1 DEF InHand, Message
<1> QED
  BY <1>1, <1>2, <1>3 DEF CalmInv, AcceptedWhole, Alone, Untouched, history

LEMMA InitIInv == Init => IInv
BY InitType, InitCalm DEF IInv

LEMMA NextIInv == IInv /\ [Next]_vars => IInv'
<1> SUFFICES ASSUME IInv, [Next]_vars PROVE CalmInv' /\ AcceptedWhole'
  BY TypeStep DEF IInv
<1> USE DEF IInv
<1>1. CASE \E w \in Writers : Call(w) \/ WriteMessage(w)
  BY <1>1, CallCalm, WriterCalm
<1>2. CASE \E k \in Controllers : Control(k) \/ WriteControl(k)
  BY <1>2, ControllerCalm
<1>3. CASE UNCHANGED vars
  <2>1. \A w \in Writers : OwnsConn(w)' = OwnsConn(w) /\ Progress(w)' = Progress(w)
    BY <1>3 DEF OwnsConn, Progress, Message, vars, sharedVars, localVars, history
  <2>2. \A m \in Messages : InHand(m)' = InHand(m)
    BY <1>3 DEF InHand, Message, vars, localVars
  <2> QED
    BY <1>3, <2>1, <2>2 DEF CalmInv, AcceptedWhole, Alone, Untouched, vars, sharedVars,
       localVars, history
<1> QED
  BY <1>1, <1>2, <1>3 DEF Next

\* The inductive invariant of the write path: the types and who holds the
\* token c.mu (TypeIInv), and, while no two calls of WriteMessage overlapped,
\* whose the messageWriter, the flag isWriting and the buffer are (CalmInv).
THEOREM Inductive == Spec => []IInv
BY InitIInv, NextIInv, PTL DEF Spec

-----------------------------------------------------------------------------
(* Results *)

\* Every variable keeps its type, and whoever holds c.mu is at the socket write
\* that gives it back, whatever overlaps.
THEOREM TypeCorrect == Spec => []TypeOK
BY Inductive, PTL DEF IInv, TypeIInv

\* While calls of WriteMessage do not overlap, flushFrame's assertion does not
\* panic, every frame on the wire is the next of its message, a message that was
\* accepted is there with all its frames and none twice, and one is there in part
\* only while it is being sent or after a write error, for messages of any number
\* of frames and whatever pings, pongs and write errors come between the frames.
THEOREM AcceptedMessagesSent == Spec => []AcceptedWhole
BY Inductive, PTL DEF IInv

\* Writes to the socket exclude each other: two goroutines are never both
\* at it, even when calls of WriteMessage overlap.
SocketExclusive ==
  \A g, h \in Writers \cup Controllers : pc[g] = "send" /\ pc[h] = "send" => g = h

\* The token c.mu excludes at the socket, for any writers and controllers.
THEOREM TokenExcludes == Spec => []SocketExclusive
<1>1. IInv => SocketExclusive
  BY DEF IInv, TypeIInv, TokenHeld, SocketExclusive
<1> QED
  BY <1>1, Inductive, PTL

\* A write error that the connection has seen is final: no step puts a frame of
\* a message on the wire after it.
THEOREM ErrorIsFinal == Spec => NothingAfterError
<1>1. [Next]_vars => [writeErr => UNCHANGED <<sent, garbled>>]_vars
  <2> SUFFICES ASSUME Next, writeErr PROVE UNCHANGED <<sent, garbled>>
    OBVIOUS
  <2> QED
    BY DEF Next, Call, WriteMessage, BeginClosesOther, BeginClears, BeginRefuses, Begins,
           Installs, WriteRefuses, Copies, FlushOfEnded, FlushStarts, Locks, Sends,
           FlushFindsOther, FlushContinues, FlushEnds, Panic,
           Control, WriteControl, ControlFails, ControlSends, history
<1> QED
  BY <1>1, PTL DEF Spec, NothingAfterError
-----------------------------------------------------------------------------
(* A connection is a pipe of messages *)

\* A call that returned has its answer.
AnswerInv ==
  \A w \in Writers, i \in 1 .. MaxCalls :
    i < calls[w] \/ (i = calls[w] /\ pc[w] = "idle") => fate[<<w, i>>] # "none"

Busy == {Message(w) : w \in {v \in Writers : pc[v] # "idle"}}

LEMMA InitAnswer == Init => AnswerInv
BY DEF Init, AnswerInv

\* A call that returns answers for its own message.
LEMMA ReturnAnswers ==
  ASSUME TypeIInv, AnswerInv, NEW w \in Writers, NEW result \in {"accepted", "refused"},
         ReturnFrom(w, result), UNCHANGED calls
  PROVE  AnswerInv'
<1>1. /\ \A m \in Messages : fate'[m] = IF m = Message(w) THEN result ELSE fate[m]
      /\ \A v \in Writers \ {w} : pc'[v] = pc[v]
  BY DEF ReturnFrom, Goto, TypeIInv, TypeOK
<1>2. ASSUME NEW v \in Writers, NEW i \in 1 .. MaxCalls,
             i < calls[v] \/ (i = calls[v] /\ pc'[v] = "idle")
      PROVE  fate'[<<v, i>>] # "none"
  <2>1. <<v, i>> \in Messages
    BY DEF Messages
  <2>2. CASE <<v, i>> = Message(w)
    BY <1>1, <2>1, <2>2
  <2>3. CASE <<v, i>> # Message(w)
    <3>1. i < calls[v] \/ (i = calls[v] /\ pc[v] = "idle")
      BY <1>1, <1>2, <2>3 DEF Message
    <3> QED
      BY <1>1, <2>1, <2>3, <3>1 DEF AnswerInv
  <2> QED
    BY <2>2, <2>3
<1> QED
  BY <1>2 DEF AnswerInv

LEMMA AnswerStep == TypeIInv /\ AnswerInv /\ [Next]_vars => AnswerInv'
<1> SUFFICES ASSUME TypeIInv, AnswerInv, [Next]_vars PROVE AnswerInv'
  OBVIOUS
<1>1. ASSUME UNCHANGED <<calls, fate>>, \A w \in Writers : pc'[w] = "idle" => pc[w] = "idle"
      PROVE  AnswerInv'
  BY <1>1 DEF AnswerInv
<1>2. ASSUME NEW w \in Writers, Call(w) PROVE AnswerInv'
  <2>1. /\ pc[w] = "idle" /\ calls[w] \in Nat /\ calls' = [calls EXCEPT ![w] = @ + 1]
        /\ pc' = [pc EXCEPT ![w] = "begin"] /\ UNCHANGED fate
    BY <1>2 DEF Call, Goto, TypeIInv, TypeOK
  <2>2. ASSUME NEW v \in Writers, NEW i \in 1 .. MaxCalls,
               i < calls'[v] \/ (i = calls'[v] /\ pc'[v] = "idle")
        PROVE  i < calls[v] \/ (i = calls[v] /\ pc[v] = "idle")
    BY <2>1, <2>2 DEF TypeIInv, TypeOK
  <2> QED
    BY <2>1, <2>2 DEF AnswerInv
<1>3. ASSUME NEW w \in Writers, WriteMessage(w) PROVE AnswerInv'
  <2> USE DEF Goto, sharedVars, localVars, history, TypeIInv, TypeOK
  <2>1. CASE \/ BeginClosesOther(w) \/ BeginClears(w) \/ Begins(w) \/ Installs(w)
             \/ Copies(w) \/ Locks(w) \/ FlushContinues(w)
    BY <1>1, <2>1 DEF BeginClosesOther, BeginClears, Begins, Installs, Copies, Locks,
       FlushContinues
  <2>2. CASE BeginRefuses(w) \/ WriteRefuses(w)
    BY <2>2, ReturnAnswers DEF BeginRefuses, WriteRefuses
  <2>3. CASE FlushOfEnded(w)
    <3>1. CASE Own(w)
      BY <2>3, <3>1, ReturnAnswers DEF FlushOfEnded
    <3>2. CASE ~Own(w)
      BY <1>1, <2>3, <3>2 DEF FlushOfEnded
    <3> QED
      BY <3>1, <3>2
  <2>4. CASE FlushStarts(w) \/ FlushFindsOther(w)
    BY <1>1, <2>4 DEF FlushStarts, FlushFindsOther, Panic
  <2>5. CASE Sends(w)
    BY <1>1, <2>5 DEF Sends
  <2>6. CASE FlushEnds(w)
    <3>1. CASE Own(w)
      BY <2>6, <3>1, ReturnAnswers DEF FlushEnds
    <3>2. CASE ~Own(w)
      BY <1>1, <2>6, <3>2 DEF FlushEnds
    <3> QED
      BY <3>1, <3>2
  <2> QED
    BY <1>3, <2>1, <2>2, <2>3, <2>4, <2>5, <2>6 DEF WriteMessage
<1>4. ASSUME NEW k \in Controllers, Control(k) \/ WriteControl(k) PROVE AnswerInv'
  BY <1>1, <1>4, WriterAssumption DEF Control, WriteControl, Locks, ControlFails, ControlSends,
     Goto, history, TypeIInv, TypeOK
<1>5. CASE UNCHANGED vars
  BY <1>1, <1>5 DEF vars, localVars, history
<1> QED
  BY <1>2, <1>3, <1>4, <1>5 DEF Next

\* A step for the pipe, with the state of the connection in its place.
PipeMoves == Pipe!PipeNext \/ UNCHANGED <<Busy, fate, sent, writeErr, overlapped>>

LEMMA PipeBox == PipeMoves => [Pipe!PipeNext]_(Pipe!pipeVars)
BY DEF PipeMoves, Busy, Pipe!pipeVars

LEMMA PipeStart == Init => Pipe!PipeInit
BY DEF Init, Pipe!PipeInit, Pipe!AllMessages, Messages

LEMMA PipeCall ==
  ASSUME IInv, AnswerInv, NEW w \in Writers, Call(w)
  PROVE  PipeMoves
<1>1. CASE overlapped'
  BY <1>1 DEF PipeMoves, Pipe!PipeNext, Pipe!Misuse
<1>2. CASE ~overlapped'
  <2>1. ~overlapped /\ \A v \in Writers : pc[v] = "idle"
    BY <1>2 DEF Call
  <2> DEFINE m == <<w, calls[w] + 1>>
  <2>2. /\ \A v \in Writers : pc'[v] # "idle" <=> v = w
        /\ calls[w] \in Nat /\ calls'[w] = calls[w] + 1 /\ calls[w] < MaxCalls
        /\ UNCHANGED <<fate, sent, writeErr>> /\ overlapped' = overlapped
    BY <2>1 DEF Call, Goto, IInv, TypeIInv, TypeOK, sharedVars
  <2>3. Busy = {} /\ Busy' = {m}
    BY <2>1, <2>2 DEF Busy, Message
  <2>4. m \in Messages /\ m \in Pipe!AllMessages /\ m[1] = w /\ m[2] = calls[w] + 1
    BY <2>2, WriterAssumption DEF Messages, Pipe!AllMessages
  <2>5. fate[m] = "none" /\ sent[m] = 0
    BY <2>1, <2>2, <2>4 DEF IInv, CalmInv, Untouched
  <2>6. \A i \in 1 .. MaxCalls : i < m[2] => fate[<<m[1], i>>] # "none"
    BY <2>1, <2>2, <2>4 DEF AnswerInv
  <2> HIDE DEF m
  <2>7. Pipe!Takes(m)
    BY <2>2, <2>3, <2>5, <2>6 DEF Pipe!Takes, Busy
  <2>8. PICK n \in Pipe!AllMessages : n = m
    BY <2>4
  <2>9. Pipe!Takes(n)
    BY <2>7, <2>8 DEF Pipe!Takes
  <2> QED
    BY <2>9 DEF PipeMoves, Pipe!PipeNext
<1> QED
  BY <1>1, <1>2

\* What a call that is alone has in hand, and after a step that does not return.
LEMMA BusyAlone ==
  ASSUME NEW w \in Writers, \A v \in Writers \ {w} : pc[v] = "idle", pc[w] # "idle"
  PROVE  Busy = {Message(w)}
BY DEF Busy

LEMMA StillInHand ==
  ASSUME NEW w \in Writers, \A v \in Writers \ {w} : pc'[v] = "idle", pc'[w] # "idle",
         UNCHANGED calls
  PROVE  Busy' = {Message(w)}
BY DEF Busy, Message

LEMMA PipeWrite ==
  ASSUME IInv, AnswerInv, NEW w \in Writers, WriteMessage(w)
  PROVE  PipeMoves
<1>0. pc[w] # "idle" /\ overlapped' = overlapped /\ UNCHANGED calls
  BY DEF WriteMessage, BeginClosesOther, BeginClears, BeginRefuses, Begins, Installs,
         WriteRefuses, Copies, FlushOfEnded, FlushStarts, Locks, Sends, FlushFindsOther,
         FlushContinues, FlushEnds, Panic, history, localVars
<1>1. CASE overlapped
  BY <1>0, <1>1 DEF PipeMoves, Pipe!PipeNext, Pipe!Misuse
<1>2. CASE ~overlapped
  <2>1. /\ \A v \in Writers \ {w} : pc[v] = "idle"
        /\ OwnsConn(w) /\ Progress(w)
    BY <1>0, <1>2, OnItsOwn DEF IInv
  <2> DEFINE m == Message(w)
  <2>2. Busy = {m} /\ m \in Messages /\ m \in Pipe!AllMessages
    BY <1>0, <2>1, BusyAlone, OwnMessage DEF IInv, Messages, Pipe!AllMessages
  <2>3. /\ DOMAIN pc = Writers \cup Controllers
        /\ sent \in [Messages -> Nat] /\ outcome[w] \in {"ok", "error"}
    BY DEF IInv, TypeIInv, TypeOK
  <2>4. ASSUME NEW label, label # "idle", Goto(w, label), UNCHANGED <<fate, sent, writeErr>>
        PROVE  PipeMoves
    <3>1. pc'[w] = label /\ \A v \in Writers \ {w} : pc'[v] = "idle"
      BY <2>1, <2>3, <2>4 DEF Goto
    <3>2. Busy' = {m}
      BY <1>0, <2>4, <3>1, StillInHand
    <3> QED
      BY <1>0, <2>2, <2>4, <3>2 DEF PipeMoves
  <2>5. ASSUME NEW result \in {"accepted", "refused"}, ReturnFrom(w, result),
               UNCHANGED <<sent, writeErr>>,
               result = "accepted" => sent[m] = FramesOf[m], result = "refused" => writeErr
        PROVE  PipeMoves
    <3>1. \A v \in Writers : pc'[v] = "idle"
      BY <2>1, <2>3, <2>5 DEF ReturnFrom, Goto
    <3>2. Busy' = {}
      BY <3>1 DEF Busy
    <3>3. fate' = [fate EXCEPT ![m] = result]
      BY <2>5 DEF ReturnFrom
    <3> HIDE DEF m
    <3>4. Pipe!Answers(m)
      <4>1. CASE result = "accepted"
        BY <1>0, <2>2, <2>5, <3>2, <3>3, <4>1 DEF Pipe!Answers, Busy
      <4>2. CASE result = "refused"
        BY <1>0, <2>2, <2>5, <3>2, <3>3, <4>2 DEF Pipe!Answers, Busy
      <4> QED
        BY <2>5, <4>1, <4>2
    <3>5. PICK n \in Pipe!AllMessages : n = m
      BY <2>2
    <3>6. Pipe!Answers(n)
      BY <3>4, <3>5 DEF Pipe!Answers
    <3> QED
      BY <3>6 DEF PipeMoves, Pipe!PipeNext
  <2> USE DEF sharedVars, localVars, history
  <2>6. /\ FramesOf[m] \in Nat /\ FramesOf[m] > 0 /\ copied[w] \in Nat
        /\ pc[w] \in Flushing => /\ Own(w) /\ (Final(w) <=> copied[w] = FramesOf[m])
                                 /\ target[w] = m /\ m \notin ended
                                 /\ pc[w] = "send" => NextFrame(w)
    BY <1>0, <2>1, OwnMessage, OwnFlush DEF IInv, TypeIInv, TypeOK
  <2> USE DEF sharedVars, localVars, history
  <2>7. CASE \/ BeginClears(w) \/ Begins(w) \/ Installs(w) \/ Copies(w) \/ Locks(w)
             \/ FlushContinues(w)
    BY <2>4, <2>7 DEF BeginClears, Begins, Installs, Copies, Locks, FlushContinues
  <2>8. CASE BeginRefuses(w)
    BY <2>5, <2>8 DEF BeginRefuses
  <2>9. CASE BeginClosesOther(w) \/ WriteRefuses(w) \/ FlushOfEnded(w) \/ FlushFindsOther(w)
    BY <2>1, <2>6, <2>9 DEF BeginClosesOther, WriteRefuses, FlushOfEnded, FlushFindsOther,
       OwnsConn, Open, Flushing, Flagged
  <2>10. CASE FlushStarts(w)
    <3>1. ~isWriting
      BY <2>1, <2>10 DEF FlushStarts, OwnsConn, Flagged
    <3> QED
      BY <2>4, <2>10, <3>1 DEF FlushStarts
  <2>11. CASE FlushEnds(w)
    <3>1. /\ Own(w) /\ pc[w] = "unflag" /\ UNCHANGED <<sent, writeErr>>
          /\ ReturnFrom(w, IF outcome[w] = "ok" THEN "accepted" ELSE "refused")
      BY <2>6, <2>11 DEF FlushEnds, Flushing, Flagged
    <3>2. CASE outcome[w] = "ok"
      <4>1. ReturnFrom(w, "accepted")
        BY <3>1, <3>2
      <4>2. sent[m] = FramesOf[m]
        BY <2>1, <2>6, <2>11, <3>2 DEF FlushEnds, Progress, Flushing, Flagged
      <4> QED
        BY <2>5, <3>1, <4>1, <4>2
    <3>3. CASE outcome[w] = "error"
      <4>1. ReturnFrom(w, "refused") /\ writeErr
        BY <3>1, <3>3 DEF IInv, TypeIInv, ErrorKept
      <4> QED
        BY <2>5, <3>1, <4>1
    <3> QED
      BY <2>3, <3>2, <3>3
  <2>12. CASE Sends(w)
    <3>1. /\ NextFrame(w) /\ target[w] = m /\ sent[m] < FramesOf[m]
          /\ Goto(w, "unflag") /\ UNCHANGED fate /\ ~garbled
      BY <1>2, <2>1, <2>3, <2>2, <2>6, <2>12
         DEF Sends, Flushing, Flagged, Progress, IInv, AcceptedWhole
    <3>2. pc'[w] = "unflag" /\ \A v \in Writers \ {w} : pc'[v] = "idle"
      BY <2>1, <2>3, <3>1 DEF Goto
    <3>3. Busy' = {m}
      BY <1>0, <3>2, StillInHand
    <3>4. Reaches(w) => sent' = [sent EXCEPT ![m] = @ + 1]
      BY <3>1 DEF Reaches
    <3>5. CASE UNCHANGED <<writeErr, sent>>
      BY <1>0, <2>2, <3>1, <3>3, <3>5 DEF PipeMoves
    <3>6. CASE ~writeErr /\ Reaches(w) /\ writeErr' \in BOOLEAN
      <4>1. Pipe!Puts(m)
        BY <1>0, <2>2, <3>1, <3>3, <3>4, <3>6 DEF Pipe!Puts, Busy
      <4> QED
        BY <2>2, <4>1 DEF PipeMoves, Pipe!PipeNext
    <3>7. CASE writeErr' = TRUE /\ UNCHANGED sent
      BY <1>0, <2>2, <3>1, <3>3, <3>7 DEF PipeMoves, Pipe!PipeNext, Pipe!Breaks, Busy
    <3>8. writeErr \in BOOLEAN
      BY DEF IInv, TypeIInv, TypeOK
    <3> QED
      BY <2>12, <3>5, <3>6, <3>7, <3>8 DEF Sends
  <2> QED
    BY <2>7, <2>8, <2>9, <2>10, <2>11, <2>12 DEF WriteMessage
<1> QED
  BY <1>1, <1>2

\* A control frame can leave the connection with an error and changes nothing else.
LEMMA PipeControl ==
  ASSUME IInv, NEW k \in Controllers, Control(k) \/ WriteControl(k)
  PROVE  PipeMoves
<1>1. /\ \A w \in Writers : pc'[w] = pc[w]
      /\ UNCHANGED <<calls, fate, sent, overlapped>>
      /\ writeErr' = writeErr \/ writeErr' = TRUE
  BY WriterAssumption DEF IInv, TypeIInv, TypeOK, Control, WriteControl, Locks, ControlFails,
     ControlSends, Goto, sharedVars, history
<1>2. Busy' = Busy
  BY <1>1 DEF Busy, Message
<1> QED
  BY <1>1, <1>2 DEF PipeMoves, Pipe!PipeNext, Pipe!Breaks, Busy

\* To goroutines whose calls do not overlap a connection is the pipe of MessagePipe,
\* for any writers, any number of messages of any number of frames, and control
\* frames between them at any time: what WriteMessage does in a dozen steps for every
\* frame is one message after the other, frame by frame.
THEOREM ConnIsPipe == Spec => ImplementsPipe
<1>1. IInv /\ AnswerInv /\ [Next]_vars => [Pipe!PipeNext]_(Pipe!pipeVars)
  <2> SUFFICES ASSUME IInv, AnswerInv, [Next]_vars PROVE PipeMoves
    BY PipeBox
  <2>1. CASE UNCHANGED vars
    BY <2>1 DEF PipeMoves, Busy, Message, vars, sharedVars, localVars, history
  <2> QED
    BY <2>1, PipeCall, PipeWrite, PipeControl DEF Next
<1>2. IInv /\ AnswerInv /\ [Next]_vars => AnswerInv'
  BY AnswerStep DEF IInv
<1> QED
  BY <1>1, <1>2, InitAnswer, PipeStart, Inductive, PTL
     DEF Spec, ImplementsPipe, Pipe!PipeSpec
=============================================================================
