---------------------------- MODULE MCTxOptions -----------------------------
(* A small instance of TxOptions: a client with an HTTPClient and one      *)
(* without, of one account and two API keys.                               *)
EXTENDS TxOptions, TLC

CONSTANTS c1, c2, k1, k2, a1, a2

MCLinked == (c1 :> <<a1, k1>>) @@ (c2 :> <<a2, k2>>)

\* All defaults, the other owner's index, the other account, a nonce.
MCTemplates ==
  {Blank, [Blank EXCEPT !.apiKey = k2], [Blank EXCEPT !.account = a2],
   [Blank EXCEPT !.nonce = 7]}

ThreadSymmetry == Permutations(Threads)
=============================================================================
