-------------------------- MODULE MCOsWin32Accept ----------------------------
(* Two processes, two connections.  The text of one address begins the     *)
(* other's; the list holds both, the longer first, or is missing.          *)
EXTENDS OsWin32Accept

CONSTANTS p1, p2, c1, c2

MCHandleOf == p1 :> 1 @@ p2 :> 4 @@ c1 :> 2 @@ c2 :> 5
MCAddressOf == c1 :> "10.0.0.1" @@ c2 :> "10.0.0.12"
MCWithin == {<<"10.0.0.1", "10.0.0.1">>, <<"10.0.0.12", "10.0.0.12">>, <<"10.0.0.1", "10.0.0.12">>}
MCAddressLists == {<<>>, <<"10.0.0.12", "10.0.0.1">>}
==============================================================================
