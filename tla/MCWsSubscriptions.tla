------------------------- MODULE MCWsSubscriptions -------------------------
(* A small instance of WsSubscriptions.                                    *)
EXTENDS WsSubscriptions

\* A token that expires beside a TxClient, one alone, and a subscription that
\* leaves it to the client.
MCSubs == <<[txClient |-> TRUE, authToken |-> 0], [txClient |-> FALSE, authToken |-> 0],
            [txClient |-> FALSE, authToken |-> None]>>
=============================================================================
