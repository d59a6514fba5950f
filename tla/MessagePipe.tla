---------------------------- MODULE MessagePipe -----------------------------
(***************************************************************************)
(* What a connection promises to goroutines whose calls of WriteMessage do *)
(* not overlap: it takes one message at a time, those of a goroutine in    *)
(* their order, puts the frames of each on the wire one after the other,   *)
(* none of them twice and none after an error, accepts what is there with  *)
(* all its frames, and refuses only after an error, which can leave a      *)
(* message there in part.  Control frames can break it and do nothing      *)
(* else.  Once calls overlapped nothing of this is promised.               *)
(***************************************************************************)
EXTENDS Naturals

CONSTANTS Writers,   \* goroutines that write messages
          MaxCalls,  \* how many each of them writes
          FramesOf   \* how many frames every message takes

VARIABLES busy,      \* the message in hand, if there is one
          fate,      \* how the call for every message returned
          sent,      \* how many frames of every message are on the wire
          broken,    \* there was a write error
          misused    \* two calls overlapped

pipeVars == <<busy, fate, sent, broken, misused>>

AllMessages == Writers \X (1 .. MaxCalls)

PipeInit ==
  /\ busy = {} /\ broken = FALSE /\ misused = FALSE
  /\ fate = [m \in AllMessages |-> "none"] /\ sent = [m \in AllMessages |-> 0]

Takes(m) ==
  /\ busy = {} /\ fate[m] = "none" /\ sent[m] = 0
  /\ \A i \in 1 .. MaxCalls : i < m[2] => fate[<<m[1], i>>] # "none"
  /\ busy' = {m}
  /\ UNCHANGED <<fate, sent, broken, misused>>

\* The socket may report an error although the frame reached the peer.
Puts(m) ==
  /\ busy = {m} /\ ~broken /\ sent[m] < FramesOf[m]
  /\ sent' = [sent EXCEPT ![m] = @ + 1] /\ broken' \in BOOLEAN
  /\ UNCHANGED <<busy, fate, misused>>

Breaks == broken' = TRUE /\ UNCHANGED <<busy, fate, sent, misused>>

Answers(m) ==
  /\ busy = {m} /\ busy' = {}
  /\ \/ sent[m] = FramesOf[m] /\ fate' = [fate EXCEPT ![m] = "accepted"]
     \/ broken /\ fate' = [fate EXCEPT ![m] = "refused"]
  /\ UNCHANGED <<sent, broken, misused>>

Misuse == misused' = TRUE

PipeNext ==
  \/ \E m \in AllMessages : Takes(m) \/ Puts(m) \/ Answers(m)
  \/ Breaks \/ Misuse

PipeSpec == PipeInit /\ [][PipeNext]_pipeVars
=============================================================================
