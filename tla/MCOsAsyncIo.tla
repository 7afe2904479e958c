---------------------------- MODULE MCOsAsyncIo ----------------------------
(* Three descriptors, and two where callbacks close descriptors too.        *)
EXTENDS OsAsyncIo

MCSettings == {<<{"app"}, TopFd>>, <<{"app", "callback"}, TopFd - 1>>}
=============================================================================
