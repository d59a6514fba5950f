----------------------------- MODULE OneSigner -----------------------------
(***************************************************************************)
(* What the C library promises a caller with one thread: it keeps a client *)
(* for each API key index and holds one of them or none; to create a       *)
(* client is to keep it and to hold it, in one step; to switch is to hold  *)
(* what is kept; nothing else but a failure to create a client lets go of  *)
(* the client held, and it is the client held that signs.  Globals, calls  *)
(* of several steps and the exchange are left out.                         *)
(***************************************************************************)
CONSTANTS Indices, Clients, None

VARIABLES keyring,     \* the client of every index, or None
          held,        \* the client that signs, or None
          signatures   \* what the last call signed: one signature or none

signerVars == <<keyring, held, signatures>>

SignatureOf(c) == [owner |-> <<c.accountIndex, c.apiKeyIndex>>, key |-> c.key]

SignerInit == keyring = [k \in Indices |-> None] /\ held = None /\ signatures = {}

Create(c) ==
  /\ keyring' = [keyring EXCEPT ![c.apiKeyIndex] = c]
  /\ held' = c /\ signatures' = {}

Drop == held' = None /\ signatures' = {} /\ UNCHANGED keyring

Switch(k) == held' = keyring[k] /\ signatures' = {} /\ UNCHANGED keyring

Sign ==
  /\ held # None /\ signatures' = {SignatureOf(held)}
  /\ UNCHANGED <<keyring, held>>

\* A call that selects and signs nothing.
Other == signatures' = {} /\ UNCHANGED <<keyring, held>>

SignerNext ==
  \/ \E c \in Clients : Create(c)
  \/ \E k \in Indices : Switch(k)
  \/ Drop \/ Sign \/ Other

SignerSpec == SignerInit /\ [][SignerNext]_signerVars
=============================================================================
