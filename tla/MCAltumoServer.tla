--------------------------- MODULE MCAltumoServer ---------------------------
(* A client that fills data_ and uses it again, and one that sends little.  *)
EXTENDS AltumoServer, TLC

CONSTANTS c1, c2
MCClients == {c1, c2}
MCMaxSent == c1 :> 3 @@ c2 :> 1
=============================================================================
