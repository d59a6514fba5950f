----------------------------- MODULE AuthTokens ------------------------------
(***************************************************************************)
(* Tokens that authorise a reader of an account's data: the deadline that  *)
(* a caller chooses, which a token carries in whole seconds, and the limit *)
(* that GetAuthToken puts on it.  Account, key and signature are not       *)
(* modelled here: a token is its deadline.  SharedLib has whose they are.  *)
(***************************************************************************)
EXTENDS Integers

CONSTANTS Second,        \* one second, in units of the clock
          MaxTokenLife,  \* GetAuthToken's limit: seven hours
          TokenLife,     \* what the account market client asks for: six hours
          None           \* no token

ASSUME TokenAssumption ==
  /\ Second \in Nat \ {0} /\ MaxTokenLife \in Nat /\ TokenLife \in Nat
  /\ None \notin Int

Unix(t) == t - (t % Second)

GetAuthToken(now, deadline) ==
  IF deadline - now > MaxTokenLife THEN None ELSE Unix(deadline)

\* The deadline that CreateAuthToken of the C library chooses for a caller that
\* gives none.
DefaultDeadline(now) == Unix(now + MaxTokenLife)
=============================================================================
