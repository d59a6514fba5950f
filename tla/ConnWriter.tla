----------------------------- MODULE ConnWriter -----------------------------
(***************************************************************************)
(* The write side of one websocket.Conn as the clients use it: goroutines  *)
(* that call WriteMessage (subscriptions, pongs to JSON pings, users'      *)
(* transactions) and goroutines that call WriteControl (the pinger and the *)
(* read loop's ping handler).  WriteMessage fills a buffer that all calls  *)
(* share and is not made for concurrent callers; the token c.mu only       *)
(* covers the write to the socket.                                         *)
(***************************************************************************)
EXTENDS Integers, FiniteSets

CONSTANTS
  Writers,      \* goroutines that call WriteMessage
  Controllers,  \* goroutines that call WriteControl
  Nil,          \* nobody, or nothing
  MaxCalls,     \* bound: calls of WriteMessage by one goroutine
  FramesOf      \* how many buffers of 4096 bytes every message takes

ASSUME WriterAssumption ==
  /\ Writers \cap Controllers = {} /\ Nil \notin Writers \cup Controllers
  /\ Nil \notin Writers \X (1 .. MaxCalls)
  /\ MaxCalls \in Nat
  /\ FramesOf \in [Writers \X (1 .. MaxCalls) -> Nat \ {0}]

VARIABLES
  token,      \* who holds c.mu
  writer,     \* c.writer: the message whose messageWriter is open
  isWriting,  \* c.isWriting
  writeErr,   \* c.writeErr is set
  buf,        \* what is in c.writeBuf: the n-th buffer of a message, <<m, n>>
  pc,         \* where every goroutine is in its call
  calls,      \* calls of WriteMessage made so far
  copied,     \* how many buffers of its message a call has filled
  filled,     \* messageWriters whose pos is past the frame header
  ended,      \* messageWriters that endMessage has closed
  target,     \* the messageWriter that a writer is flushing
  outcome,    \* what the socket write of the flush returned
  fate,       \* history: how WriteMessage returned for every message
  sent,       \* history: how many frames of every message are on the wire
  garbled,    \* history: a frame went out that was not the next of its message
  crashed,    \* a goroutine panicked and took the program down
  overlapped  \* history: two calls of WriteMessage were under way at once

sharedVars == <<token, writer, isWriting, writeErr, buf>>
localVars  == <<pc, calls, copied, filled, ended, target, outcome>>
history    == <<fate, sent, garbled, crashed, overlapped>>
vars       == <<sharedVars, localVars, history>>

Messages == Writers \X (1 .. MaxCalls)
Message(w) == <<w, calls[w]>>

Init ==
  /\ token = Nil /\ writer = Nil /\ isWriting = FALSE /\ writeErr = FALSE
  /\ buf = Nil
  /\ pc = [g \in Writers \cup Controllers |-> "idle"]
  /\ calls = [w \in Writers |-> 0] /\ copied = [w \in Writers |-> 0]
  /\ filled = {} /\ ended = {}
  /\ target = [w \in Writers |-> Nil]
  /\ outcome = [w \in Writers |-> "ok"]
  /\ fate = [m \in Messages |-> "none"] /\ sent = [m \in Messages |-> 0]
  /\ garbled = FALSE /\ crashed = FALSE /\ overlapped = FALSE

Goto(g, label) == pc' = [pc EXCEPT ![g] = label]

\* WriteMessage returns to its caller.
ReturnFrom(w, result) ==
  /\ Goto(w, "idle")
  /\ fate' = [fate EXCEPT ![Message(w)] = result]

Panic ==
  /\ crashed' = TRUE
  /\ UNCHANGED <<sharedVars, localVars, fate, sent, garbled, overlapped>>

\* flushFrame's argument: Write flushes full buffers of its own message, Close
\* flushes the rest, of its own message or of one that beginMessage closes.
Own(w) == target[w] = Message(w)
Final(w) == ~Own(w) \/ copied[w] = FramesOf[Message(w)]

\* The frame goes to the socket.  It is the next one of its message, or else
\* the peer can no longer tell the messages.
NextFrame(w) ==
  LET m == target[w]
  IN  /\ m \in filled /\ buf = <<m, sent[m] + 1>>
      /\ Final(w) <=> sent[m] + 1 = FramesOf[m]

Reaches(w) ==
  IF ~garbled /\ NextFrame(w) THEN sent' = [sent EXCEPT ![target[w]] = @ + 1] /\ UNCHANGED garbled
                  ELSE garbled' = TRUE /\ UNCHANGED sent

\* endMessage; nothing but its answer for a messageWriter that is closed.
EndMessage(m) ==
  /\ ended' = ended \cup {m}
  /\ writer' = IF m \in ended THEN writer ELSE Nil
-----------------------------------------------------------------------------
(* Faults *)

SendsAfterError(w) ==
  /\ pc[w] = "send"
  /\ outcome' = [outcome EXCEPT ![w] = "ok"]
  /\ Reaches(w)
  /\ token' = Nil
  /\ Goto(w, "unflag")
  /\ UNCHANGED <<writer, isWriting, writeErr, buf, calls, copied, filled, ended, target,
                 fate, crashed, overlapped>>

FlushEndsAccepting(w) ==
  /\ pc[w] = "unflag" /\ isWriting /\ (Final(w) \/ outcome[w] = "error")
  /\ isWriting' = FALSE /\ EndMessage(target[w])
  /\ ReturnFrom(w, "accepted")
  /\ UNCHANGED <<token, writeErr, buf, calls, copied, filled, target, outcome, sent,
                 garbled, crashed, overlapped>>

ControlFailsKeepingToken(k) ==
  /\ pc[k] = "lock" \/ (pc[k] = "send" /\ writeErr)
  /\ Goto(k, "over")
  /\ UNCHANGED <<sharedVars, calls, copied, filled, ended, target, outcome, history>>
-----------------------------------------------------------------------------
(* WriteMessage *)

Call(w) ==
  /\ pc[w] = "idle" /\ calls[w] < MaxCalls
  /\ calls' = [calls EXCEPT ![w] = @ + 1] /\ copied' = [copied EXCEPT ![w] = 0]
  /\ Goto(w, "begin")
  /\ overlapped' = (overlapped \/ \E v \in Writers : pc[v] # "idle")
  /\ UNCHANGED <<sharedVars, filled, ended, target, outcome, fate, sent, garbled, crashed>>

\* beginMessage closes the writer of a message that is still open, that is,
\* it flushes another goroutine's message, and clears c.writer in any case.
BeginClosesOther(w) ==
  /\ pc[w] = "begin" /\ writer # Nil
  /\ target' = [target EXCEPT ![w] = writer]
  /\ Goto(w, "flush")
  /\ UNCHANGED <<sharedVars, calls, copied, filled, ended, outcome, history>>

BeginClears(w) ==
  /\ pc[w] = "clear" \/ (pc[w] = "begin" /\ writer = Nil)
  /\ writer' = Nil
  /\ Goto(w, "check")
  /\ UNCHANGED <<token, isWriting, writeErr, buf, calls, copied, filled, ended, target,
                 outcome, history>>

BeginRefuses(w) ==
  /\ pc[w] = "check" /\ writeErr
  /\ ReturnFrom(w, "refused")
  /\ UNCHANGED <<sharedVars, calls, copied, filled, ended, target, outcome, sent, garbled,
                 crashed, overlapped>>

Begins(w) ==
  /\ pc[w] = "check" /\ ~writeErr
  /\ Goto(w, "install")
  /\ UNCHANGED <<sharedVars, calls, copied, filled, ended, target, outcome, history>>

Installs(w) ==
  /\ pc[w] = "install"
  /\ writer' = Message(w)
  /\ Goto(w, "copy")
  /\ UNCHANGED <<token, isWriting, writeErr, buf, calls, copied, filled, ended, target,
                 outcome, history>>

\* messageWriter.Write looks for an error once, when it starts.
WriteRefuses(w) ==
  /\ pc[w] = "copy" /\ Message(w) \in ended
  /\ ReturnFrom(w, "refused")
  /\ UNCHANGED <<sharedVars, calls, copied, filled, ended, target, outcome, sent, garbled,
                 crashed, overlapped>>

\* The next bytes of the message go to the shared buffer: Write flushes it when
\* there are more than it takes, Close when these are the last.
Copies(w) ==
  /\ pc[w] = "fill" \/ (pc[w] = "copy" /\ Message(w) \notin ended)
  /\ buf' = <<Message(w), copied[w] + 1>>
  /\ copied' = [copied EXCEPT ![w] = @ + 1]
  /\ filled' = filled \cup {Message(w)}
  /\ target' = [target EXCEPT ![w] = Message(w)]
  /\ Goto(w, "flush")
  /\ UNCHANGED <<token, writer, isWriting, writeErr, calls, ended, outcome, history>>

\* Close of a messageWriter that is already ended returns its error.
FlushOfEnded(w) ==
  /\ pc[w] = "flush" /\ Final(w) /\ target[w] \in ended
  /\ IF Own(w) THEN ReturnFrom(w, "refused")
               ELSE Goto(w, "clear") /\ UNCHANGED fate
  /\ UNCHANGED <<sharedVars, calls, copied, filled, ended, target, outcome, sent, garbled,
                 crashed, overlapped>>

FlushStarts(w) ==
  /\ pc[w] = "flush" /\ (Final(w) => target[w] \notin ended)
  /\ IF isWriting
     THEN Panic
     ELSE /\ isWriting' = TRUE /\ Goto(w, "lock")
          /\ UNCHANGED <<token, writer, writeErr, buf, calls, copied, filled, ended,
                         target, outcome, history>>

Locks(g) ==
  /\ pc[g] = "lock" /\ token = Nil
  /\ token' = g
  /\ Goto(g, "send")
  /\ UNCHANGED <<writer, isWriting, writeErr, buf, calls, copied, filled, ended, target,
                 outcome, history>>

\* write: a write to the socket that fails may have reached the peer.  It gives
\* back the token when it returns.
Sends(w) ==
  /\ pc[w] = "send"
  /\ \/ /\ writeErr
        /\ outcome' = [outcome EXCEPT ![w] = "error"]
        /\ UNCHANGED <<writeErr, sent, garbled>>
     \/ /\ ~writeErr
        /\ outcome' = [outcome EXCEPT ![w] = "ok"]
        /\ Reaches(w) /\ UNCHANGED writeErr
     \/ /\ ~writeErr
        /\ outcome' = [outcome EXCEPT ![w] = "error"]
        /\ writeErr' = TRUE
        /\ Reaches(w) \/ UNCHANGED <<sent, garbled>>
  /\ token' = Nil
  /\ Goto(w, "unflag")
  /\ UNCHANGED <<writer, isWriting, buf, calls, copied, filled, ended, target, fate, crashed,
                 overlapped>>

FlushFindsOther(w) == pc[w] = "unflag" /\ ~isWriting /\ Panic

\* A frame that was not the last one went out: Write goes on.
FlushContinues(w) ==
  /\ pc[w] = "unflag" /\ isWriting /\ ~Final(w) /\ outcome[w] = "ok"
  /\ isWriting' = FALSE
  /\ filled' = filled \ {target[w]}
  /\ Goto(w, "fill")
  /\ UNCHANGED <<token, writer, writeErr, buf, calls, copied, ended, target, outcome, history>>

\* The last frame, or an error, of which Write or Close tells the caller.
FlushEnds(w) ==
  /\ pc[w] = "unflag" /\ isWriting /\ (Final(w) \/ outcome[w] = "error")
  /\ isWriting' = FALSE /\ EndMessage(target[w])
  /\ IF Own(w) THEN ReturnFrom(w, IF outcome[w] = "ok" THEN "accepted" ELSE "refused")
               ELSE Goto(w, "clear") /\ UNCHANGED fate
  /\ UNCHANGED <<token, writeErr, buf, calls, copied, filled, target, outcome, sent,
                 garbled, crashed, overlapped>>

WriteMessage(w) ==
  \/ BeginClosesOther(w) \/ BeginClears(w) \/ BeginRefuses(w) \/ Begins(w)
  \/ Installs(w) \/ WriteRefuses(w) \/ Copies(w) \/ FlushOfEnded(w) \/ FlushStarts(w)
  \/ Locks(w) \/ Sends(w) \/ FlushFindsOther(w) \/ FlushContinues(w) \/ FlushEnds(w)
-----------------------------------------------------------------------------
(* WriteControl *)

Control(k) ==
  /\ pc[k] = "idle"
  /\ Goto(k, "lock")
  /\ UNCHANGED <<sharedVars, calls, copied, filled, ended, target, outcome, history>>

\* Ten seconds without the token, or an earlier write error, or an error of
\* the socket: the pinger ends, and the ping handler ends the session.
ControlFails(k) ==
  /\ pc[k] = "lock" \/ (pc[k] = "send" /\ writeErr)
  /\ Goto(k, "over")
  /\ token' = IF pc[k] = "send" THEN Nil ELSE token
  /\ UNCHANGED <<writer, isWriting, writeErr, buf, calls, copied, filled, ended, target,
                 outcome, history>>

ControlSends(k) ==
  /\ pc[k] = "send" /\ ~writeErr
  /\ token' = Nil
  /\ \/ Goto(k, "idle") /\ UNCHANGED writeErr
     \/ Goto(k, "over") /\ writeErr' = TRUE
  /\ UNCHANGED <<writer, isWriting, buf, calls, copied, filled, ended, target, outcome,
                 history>>

WriteControl(k) == Locks(k) \/ ControlFails(k) \/ ControlSends(k)
-----------------------------------------------------------------------------
Next ==
  /\ ~crashed
  /\ \/ \E w \in Writers : Call(w) \/ WriteMessage(w)
     \/ \E k \in Controllers : Control(k) \/ WriteControl(k)

\* The socket's writes return; the goroutines that wait for the channel c.mu
\* get its token in the order in which they came.
Spec == Init /\ [][Next]_vars
FairSpec ==
  /\ Spec
  /\ \A w \in Writers : SF_vars(~crashed /\ WriteMessage(w))
  /\ \A k \in Controllers : WF_vars(~crashed /\ WriteControl(k))
-----------------------------------------------------------------------------
(* Properties *)

\* Every variable keeps its type, and a goroutine that holds c.mu is at
\* the socket write, after which it gives it back.
TypeOK ==
  /\ token \in Writers \cup Controllers \cup {Nil}
  /\ writer \in Messages \cup {Nil} /\ buf \in (Messages \X Nat) \cup {Nil}
  /\ isWriting \in BOOLEAN /\ writeErr \in BOOLEAN
  /\ garbled \in BOOLEAN /\ crashed \in BOOLEAN /\ overlapped \in BOOLEAN
  /\ pc \in [Writers \cup Controllers ->
       {"idle", "begin", "clear", "check", "install", "copy", "fill", "flush", "lock",
        "send", "unflag", "over"}]
  /\ calls \in [Writers -> 0 .. MaxCalls] /\ copied \in [Writers -> Nat]
  /\ filled \subseteq Messages /\ ended \subseteq Messages
  /\ target \in [Writers -> Messages \cup {Nil}]
  /\ outcome \in [Writers -> {"ok", "error"}]
  /\ fate \in [Messages -> {"none", "accepted", "refused"}]
  /\ sent \in [Messages -> Nat]
  /\ token # Nil => pc[token] = "send"

\* The message of a call that is under way.
InHand(m) == \E w \in Writers : pc[w] # "idle" /\ m = Message(w)

\* As long as no two calls of WriteMessage overlap, whichever goroutines make
\* them, the library does not panic and the peer can read what is on the wire:
\* every frame is the next of its message, an accepted message is there with
\* all its frames, none twice, and a message is left with some of its frames
\* missing only after a write error, however often pings, pongs and errors come
\* between the frames.
AcceptedWhole ==
  ~overlapped =>
    /\ ~crashed /\ ~garbled
    /\ \A m \in Messages :
         /\ fate[m] = "accepted" => sent[m] = FramesOf[m]
         /\ sent[m] <= FramesOf[m]
         /\ sent[m] > 0 /\ sent[m] < FramesOf[m] => InHand(m) \/ writeErr

\* A write error is final: no frame of a message is on the wire after it that
\* was not there when it happened.
NothingAfterError == [][writeErr => UNCHANGED <<sent, garbled>>]_vars

\* To callers that do not overlap a connection is the pipe of MessagePipe, whatever
\* the pinger and the ping handler do: one message at a time, in order, frame after
\* frame on the wire and none twice, accepted only if all of it is there, refused
\* only after an error.
Pipe == INSTANCE MessagePipe WITH
  busy <- {Message(w) : w \in {v \in Writers : pc[v] # "idle"}},
  broken <- writeErr, misused <- overlapped

ImplementsPipe == Pipe!PipeSpec

\* Every WriteMessage returns or panics as long as socket writes return,
\* however often the pinger and the ping handler take the token.
WriteReturns == \A w \in Writers : pc[w] = "begin" ~> (pc[w] = "idle" \/ crashed)

\* "concurrent write to websocket connection", the library's assertion that
\* its callers keep to one concurrent writer, never fires.
NeverConcurrent == ~crashed
=============================================================================
