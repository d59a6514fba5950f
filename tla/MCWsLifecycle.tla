--------------------------- MODULE MCWsLifecycle ---------------------------
(* A small instance of WsLifecycle, with and without its pingers.          *)
EXTENDS WsKeepAlive
=============================================================================
