SPECIFICATION FairSpec
CONSTANTS
  sender = sender
  handler = handler
  Writers = {sender, handler}
  Controllers = {pinger, ponger}
  Nil = nil
  MaxCalls = 2
  FramesOf <- MCFramesOf
INVARIANTS
  TypeOK
  AcceptedWhole
PROPERTIES
  ImplementsPipe
  WriteReturns
\* The last call returned, a pinger ended, or the program crashed.
CHECK_DEADLOCK FALSE
