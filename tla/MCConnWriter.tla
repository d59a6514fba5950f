---------------------------- MODULE MCConnWriter ----------------------------
(* Small instances of ConnWriter.                                          *)
EXTENDS ConnWriter

CONSTANTS sender, handler  \* a user's goroutine, and that of a message

\* The first message of the sender, a batch, is larger than the buffer.
MCFramesOf == [m \in Messages |-> IF m = <<sender, 1>> THEN 2 ELSE 1]
=============================================================================
