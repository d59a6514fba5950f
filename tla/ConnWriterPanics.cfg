SPECIFICATION Spec
CONSTANTS
  sender = sender
  handler = handler
  Writers = {sender, handler}
  Controllers = {pinger, ponger}
  Nil = nil
  MaxCalls = 1
  FramesOf <- MCFramesOf
INVARIANTS
  NeverConcurrent
\* The last call returned, a pinger ended, or the program crashed.
CHECK_DEADLOCK FALSE
