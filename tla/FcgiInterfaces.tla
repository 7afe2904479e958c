--------------------------- MODULE FcgiInterfaces ----------------------------
(***************************************************************************)
(* The interfaces of the library above FCGX_Stream and FCGX_Request.  What *)
(* an application does through one of them changes nothing of the others,  *)
(* so a behaviour is that of an application which uses one: the files of   *)
(* fcgi_stdio.h, the streambuf of fcgio.h, the formats of FCGX_VFPrintF,   *)
(* the lines of FCGX_GetLine or the parameters of FCGX_GetParam.           *)
(***************************************************************************)
CONSTANTS
    NULL, EOF, Garbage,
    Files, Statuses, MaxRequests,                   \* FcgiStdio
    BufferSize, Length, MaxWrites, MaxStreams,      \* FcgiStreambuf
    Formats, PRINTF_BUFFLEN, InfinityExps,          \* FcgiPrintf
    Characters,                                     \* FcgiLines, FcgiParams
    Contents, Newline, Sizes, Unlimited,            \* FcgiLines
    Names, Values, Equals, FirstLengths, MaxParams  \* FcgiParams

VARIABLES
    interface,      \* the one that is used
    mayClose, acceptCalled, isCGI, request, accepted, appStatus, stdio_stream,
    fcgx_stream, allocated, open, usable, wanted,
    writes, stream, bufsize, destroyed, fetched, buf, gptr, egptr, removed, result, expected,
    area, taken, failed, written, synced,
    format, at, stage, slow, buffLen, auxBuffLen, buffCount, arguments, streamCount,
    content, position, size, from, str, ends, answer,
    vec, length, sent

stdioVars == <<mayClose, acceptCalled, isCGI, request, accepted, appStatus, stdio_stream,
               fcgx_stream, allocated, open, usable, wanted>>
streambufVars == <<writes, stream, bufsize, destroyed, fetched, buf, gptr, egptr, removed,
                   result, expected, area, taken, failed, written, synced>>
printfVars == <<format, at, stage, slow, buffLen, auxBuffLen, buffCount, arguments, streamCount>>
linesVars == <<content, position, size, from, str, ends, answer>>
paramsVars == <<vec, length, sent>>

vars == <<interface, stdioVars, streambufVars, printfVars, linesVars, paramsVars>>

Stdio == INSTANCE FcgiStdio
Streambuf == INSTANCE FcgiStreambuf
Printf == INSTANCE FcgiPrintf
Lines == INSTANCE FcgiLines
Params == INSTANCE FcgiParams

ASSUME InterfacesAssumption ==
    /\ Stdio!StdioAssumption /\ Stdio!NamesAssumption /\ Streambuf!StreambufAssumption
    /\ Printf!PrintfAssumption /\ Lines!LinesAssumption /\ Params!ParamsAssumption

(* What is not used has one initial state.                                 *)
Init ==
    /\ interface \in {"stdio", "streambuf", "printf", "lines", "params"}
    /\ Stdio!Init     /\ (interface = "stdio" \/ ~mayClose)
    /\ Streambuf!Init /\ (interface = "streambuf" \/ (~writes /\ bufsize = 0))
    /\ IF interface = "printf" THEN Printf!Init ELSE Printf!InitWith(<<>>)
    /\ Lines!Init     /\ (interface = "lines" \/ content = CHOOSE first \in Contents : TRUE)
    /\ Params!Init    /\ (interface = "params" \/ length = CHOOSE first \in FirstLengths : TRUE)

Next ==
    \/ /\ interface = "stdio" /\ Stdio!Next
       /\ UNCHANGED <<interface, streambufVars, printfVars, linesVars, paramsVars>>
    \/ /\ interface = "streambuf" /\ Streambuf!Next
       /\ UNCHANGED <<interface, stdioVars, printfVars, linesVars, paramsVars>>
    \/ /\ interface = "printf" /\ Printf!Next
       /\ UNCHANGED <<interface, stdioVars, streambufVars, linesVars, paramsVars>>
    \/ /\ interface = "lines" /\ Lines!Next
       /\ UNCHANGED <<interface, stdioVars, streambufVars, printfVars, paramsVars>>
    \/ /\ interface = "params" /\ Params!Next
       /\ UNCHANGED <<interface, stdioVars, streambufVars, printfVars, linesVars>>

Spec == Init /\ [][Next]_vars
------------------------------------------------------------------------------
(***************************************************************************)
(* Properties: those of the modules.                                       *)
(***************************************************************************)

(* No wrapper the application may call goes to an object that is gone, and *)
(* no opened FILE is lost; the last exit status counts (fcgi_stdio.c).     *)
StdioInv == Stdio!FilesInv /\ Stdio!Owned /\ Stdio!LastStatusCounts

(* Every character is read, and written, once and in order (fcgio.cpp).    *)
StreambufInv == Streambuf!ReadInOrder /\ Streambuf!WrittenInOrder

(* Arguments are read in turn, a text fits its buffer unless the slow path *)
(* misjudged it, and the count is theirs (FCGX_VFPrintF).                  *)
PrintfInv == Printf!PrintfInv

(* Lines are returned as they are in the stream (FCGX_GetLine, FCGI_gets). *)
LinesInv == Lines!LinesInv

(* A parameter is found under its own name, and the vector has room        *)
(* (PutParam, FCGX_GetParam).                                              *)
ParamsInv == Params!ParamsInv
==============================================================================
