--------------------------- MODULE MCProxySession ---------------------------
(* Small instances of ProxySession for TLC. *)
EXTENDS ProxySession

CONSTANTS e1, e2, h1, h2
=============================================================================
