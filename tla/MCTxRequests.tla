---------------------------- MODULE MCTxRequests -----------------------------
(* A small instance of TxRequests: one client, and two API keys.           *)
EXTENDS TxRequests, TLC

CONSTANTS c1, k1, k2, a1

MCLinked == c1 :> <<a1, k1>>

\* All defaults, or a nonce that the exchange expects.
MCTemplates == {Blank, [Blank EXCEPT !.nonce = 0]}
=============================================================================
