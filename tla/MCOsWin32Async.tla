--------------------------- MODULE MCOsWin32Async ----------------------------
(* A pipe and a socket that may get one descriptor after the other; a pipe  *)
(* beside standard input; standard input alone.                           *)
EXTENDS OsWin32Async

MCPipes == {8}
MCSockets == {7}
MCSettings == {<<"none", {7, 8}>>, <<"file", {8}>>, <<"pipe", {}>>}
==============================================================================
