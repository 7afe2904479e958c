--------------------------- MODULE MCFcgiRequest ---------------------------
(* One connection that is kept for a second request, and one that is not.   *)
EXTENDS FcgiRequest, TLC

CONSTANTS c1, c2
MCConns == {c1, c2}
MCKeeps == c1 :> <<TRUE, FALSE>> @@ c2 :> <<FALSE>>
=============================================================================
