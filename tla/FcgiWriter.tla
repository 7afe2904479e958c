----------------------------- MODULE FcgiWriter -----------------------------
(***************************************************************************)
(* The output half of one FastCGI request: the FCGI_STDOUT and FCGI_STDERR *)
(* streams of libfcgi/fcgiapp.c, from the application's FCGX_PutStr,       *)
(* FCGX_FFlush and FCGX_FClose down to the bytes on the connection.        *)
(*                                                                         *)
(* The unit is the byte.  A byte is a "cell" that says what it is: part of *)
(* a record header, the i-th content byte the application gave a stream,   *)
(* padding, part of the FCGI_END_REQUEST record, or the space reserved for *)
(* a header not yet filled in.  buff[s] is the stream's buffer from        *)
(* data->buff up to wrNext, so wrNext is its length and stop - wrNext is   *)
(* Room(s).                                                                *)
(*                                                                         *)
(* A library call runs step by step (call), because each OS_Write in it    *)
(* may fail after any prefix was sent.  The library is single threaded per *)
(* request: no two calls of one request overlap.                           *)
(***************************************************************************)
EXTENDS Integers, Sequences

CONSTANTS
    Align,       \* records are padded to a multiple of this (8 in the code)
    HeaderLen,   \* sizeof(FCGI_Header)
    EndLen,      \* sizeof(FCGI_EndRequestRecord): a header and a body
    MaxLength,   \* FCGI_MAX_LENGTH, the largest contentLength of a header
    BuffLen,     \* the aligned bufflen of each stream's buffer
    Status,      \* the exit statuses the application may set
    MaxStored,   \* bound: content bytes the application gives one stream
    PutSizes,    \* bound: the lengths the application gives FCGX_PutStr
    Cuts         \* bound: how much of a buffer a failing write may have sent

STDOUT == "STDOUT"
STDERR == "STDERR"
Streams == {STDOUT, STDERR}

\* The layout NewStream's min/max/AlignInt8 arithmetic guarantees.
ASSUME LayoutAssumption ==
    /\ Align \in Nat \ {0} /\ HeaderLen \in Nat \ {0} /\ EndLen \in Nat \ {0}
    /\ HeaderLen % Align = 0 /\ EndLen % Align = 0
    /\ MaxLength \in Nat
    /\ BuffLen \in [Streams -> Nat]
    /\ \A s \in Streams : /\ BuffLen[s] % Align = 0
                          /\ BuffLen[s] > HeaderLen
                          /\ BuffLen[s] <= MaxLength + 1
ASSUME StatusAssumption == Status \subseteq Nat /\ 0 \in Status
ASSUME BoundAssumption == /\ MaxStored \in Nat
                          /\ PutSizes \subseteq Nat \ {0}
                          /\ Cuts \subseteq Nat

VARIABLES
    buff,              \* data->buff .. stream->wrNext
    isClosed,          \* stream->isClosed
    wasFCloseCalled,   \* stream->wasFCloseCalled
    FCGI_errno,        \* stream->FCGI_errno # 0
    rawWrite,          \* data->rawWrite
    isAnythingWritten, \* data->isAnythingWritten
    nWriters,          \* reqDataPtr->nWriters
    appStatus,         \* reqDataPtr->appStatus
    sent,              \* the bytes the last step handed to the connection
    call,              \* the library call in progress
    stored,            \* history: content bytes copied into each stream
    broken             \* history: an OS_Write of this request has failed

streamVars == <<isClosed, wasFCloseCalled, FCGI_errno, rawWrite, isAnythingWritten>>
vars == <<buff, streamVars, nWriters, appStatus, sent, call, stored, broken>>
-----------------------------------------------------------------------------
(* Cells, and the records made of them.  A name with an underscore is the   *)
(* definition after it with a plausible bug, to show that a property sees   *)
(* it; no specification uses it.                                            *)

Cell == [kind : {"header", "body", "pad", "end", "hole"},
         of   : Streams,
         n    : Nat,
         pad  : 0 .. Align - 1]

Copies(k, c) == [i \in 1 .. k |-> c]

\* MakeHeader(type, requestId, contentLength, paddingLength)
MakeHeader(s, cLen, padLen) ==
    Copies(HeaderLen, [kind |-> "header", of |-> s, n |-> cLen, pad |-> padLen])

Padding_NotCounted(s, k) == <<>>
Padding(s, k) == Copies(k, [kind |-> "pad", of |-> s, n |-> 0, pad |-> 0])

EndRequestRecord_NoStatus(status) ==
    Copies(EndLen, [kind |-> "end", of |-> STDOUT, n |-> 0, pad |-> 0])
\* The FCGI_END_REQUEST record with MakeEndRequestBody's appStatus.
EndRequestRecord(status) ==
    Copies(EndLen, [kind |-> "end", of |-> STDOUT, n |-> status, pad |-> 0])

\* The space NewStream and EmptyBuffProc reserve for a header.
Hole(s) == Copies(HeaderLen, [kind |-> "hole", of |-> s, n |-> 0, pad |-> 0])

\* The k content bytes the application writes next to s.
NextContent(s, k) ==
    [i \in 1 .. k |-> [kind |-> "body", of |-> s, n |-> stored[s] + i, pad |-> 0]]

\* The smallest multiple of Align that is at least n.
AlignInt8_AlwaysPads(n) == n + Align - (n % Align)
AlignInt8(n) == n + Align - 1 - ((n + Align - 1) % Align)

\* stream->stop - stream->wrNext; FCGX_FClose sets stop to wrNext.
Room(s) == IF wasFCloseCalled[s] THEN 0 ELSE BuffLen[s] - Len(buff[s])

\* EmptyBuffProc's encapsulation: the header filled in and the content
\* padded, or the header's space reclaimed when there is no content.
Encapsulated(s) ==
    LET cLen == Len(buff[s]) - HeaderLen
        eLen == AlignInt8(cLen)
    IN  CASE rawWrite[s] -> buff[s]
          [] ~rawWrite[s] /\ cLen > 0 ->
                MakeHeader(s, cLen, eLen - cLen)
                   \o SubSeq(buff[s], HeaderLen + 1, Len(buff[s]))
                   \o Padding(s, eLen - cLen)
          [] OTHER -> <<>>
-----------------------------------------------------------------------------
(* write_it_all: the whole of bytes goes out, or a prefix does and then an *)
(* OS_Write fails, whatever the reason (a dead peer, or a signal handler   *)
(* installed without SA_RESTART).  A failed write leaves wrNext where it   *)
(* was, behind the padding: SetError and an early return.                  *)

WriteOk(s, bytes) ==
    /\ sent' = bytes
    /\ buff' = [buff EXCEPT ![s] = IF rawWrite[s] THEN <<>> ELSE Hole(s)]
    /\ isAnythingWritten' = [isAnythingWritten EXCEPT ![s] = @ \/ bytes # <<>>]
    /\ UNCHANGED <<isClosed, FCGI_errno, broken>>

WriteFails(s, bytes) ==
    \E k \in {c \in Cuts : c < Len(bytes)} :
        /\ sent' = SubSeq(bytes, 1, k)
        /\ buff' = [buff EXCEPT ![s] = bytes]
        /\ isAnythingWritten' = [isAnythingWritten EXCEPT ![s] = TRUE]
        /\ isClosed' = [isClosed EXCEPT ![s] = TRUE]
        /\ FCGI_errno' = [FCGI_errno EXCEPT ![s] = TRUE]
        /\ broken' = TRUE

\* EmptyBuffProc(stream, FALSE)
EmptyBuffProc(s) ==
    /\ WriteOk(s, Encapsulated(s)) \/ WriteFails(s, Encapsulated(s))
    /\ UNCHANGED <<wasFCloseCalled, rawWrite, nWriters, appStatus>>
-----------------------------------------------------------------------------
(* The application's calls.                                                *)

SendsNothing == sent' = <<>>

Idle == [at |-> "app", s |-> STDOUT, rest |-> <<>>]
Putting(at, s, bytes) == [at |-> at, s |-> s, rest |-> bytes]

Init ==
    /\ buff = [s \in Streams |-> Hole(s)]
    /\ isClosed = [s \in Streams |-> FALSE]
    /\ wasFCloseCalled = [s \in Streams |-> FALSE]
    /\ FCGI_errno = [s \in Streams |-> FALSE]
    /\ rawWrite = [s \in Streams |-> FALSE]
    /\ isAnythingWritten = [s \in Streams |-> FALSE]
    /\ nWriters = 2
    /\ appStatus = 0
    /\ sent = <<>>
    /\ call = Idle
    /\ stored = [s \in Streams |-> 0]
    /\ broken = FALSE

\* FCGX_PutStr(str, n, stream), and FCGX_PutChar with n = 1.
PutStr(s, n) ==
    /\ call = Idle
    /\ stored[s] + n <= MaxStored
    /\ call' = Putting("put", s, NextContent(s, n))
    /\ SendsNothing
    /\ UNCHANGED <<buff, streamVars, nWriters, appStatus, stored, broken>>

FFlush_ClosedToo(s) == call = Idle /\ EmptyBuffProc(s) /\ UNCHANGED <<call, stored>>

FFlush(s) ==
    /\ call = Idle
    /\ ~isClosed[s]
    /\ EmptyBuffProc(s)
    /\ UNCHANGED <<call, stored>>

SetExitStatus(status) ==
    /\ call = Idle
    /\ appStatus' = status
    /\ SendsNothing
    /\ UNCHANGED <<buff, streamVars, nWriters, call, stored, broken>>

\* Clears the code only: isClosed stays, see the XXX in the source.
ClearError(s) ==
    /\ call = Idle
    /\ FCGI_errno[s]
    /\ FCGI_errno' = [FCGI_errno EXCEPT ![s] = FALSE]
    /\ SendsNothing
    /\ UNCHANGED <<buff, isClosed, wasFCloseCalled, rawWrite, isAnythingWritten,
                   nWriters, appStatus, call, stored, broken>>

\* WriteCloseRecords after the stream's own EOF record: the last writer to
\* close goes on to the FCGI_END_REQUEST record, the others to the final write.
AfterEof_FirstCloser(s) ==
    IF nWriters = 2
      THEN call' = Putting("end", s, EndRequestRecord(appStatus)) /\ UNCHANGED nWriters
      ELSE call' = Putting("flush", s, <<>>) /\ nWriters' = nWriters - 1

AfterEof(s) ==
    IF nWriters = 1
      THEN /\ call' = Putting("end", s, EndRequestRecord(appStatus))
           /\ UNCHANGED nWriters
      ELSE /\ call' = Putting("flush", s, <<>>)
           /\ nWriters' = nWriters - 1

\* An unused FCGI_STDERR is closed by silence; every other stream by an
\* empty record.
NeedsEof_AnyStream(s, bytes) == bytes # <<>> \/ isAnythingWritten[s]
NeedsEof(s, bytes) == ~(s = STDERR /\ bytes = <<>> /\ ~isAnythingWritten[s])

\* FCGX_FClose: EmptyBuffProc(stream, TRUE) as far as WriteCloseRecords.
FClose(s) ==
    /\ call = Idle
    /\ ~wasFCloseCalled[s]
    /\ buff' = [buff EXCEPT ![s] = Encapsulated(s)]
    /\ rawWrite' = [rawWrite EXCEPT ![s] = TRUE]
    /\ IF NeedsEof(s, Encapsulated(s))
         THEN /\ call' = Putting("eof", s, MakeHeader(s, 0, 0))
              /\ UNCHANGED nWriters
         ELSE AfterEof(s)
    /\ SendsNothing
    /\ UNCHANGED <<isClosed, wasFCloseCalled, FCGI_errno, isAnythingWritten,
                   appStatus, stored, broken>>
-----------------------------------------------------------------------------
(* The steps of a call in progress.                                        *)

PutPoints == {"put", "eof", "end"}

\* What follows the FCGX_PutStr in progress when it returns, with n or -1.
PutReturns ==
    CASE call.at = "put" -> call' = Idle /\ UNCHANGED nWriters
      [] call.at = "eof" -> AfterEof(call.s)
      [] call.at = "end" -> /\ call' = Putting("flush", call.s, <<>>)
                            /\ nWriters' = nWriters - 1

\* Copy what fits; FCGX_PutStr looks at the room before it looks at isClosed.
PutCopy ==
    LET s == call.s
        m == IF Len(call.rest) <= Room(s) THEN Len(call.rest) ELSE Room(s)
    IN  /\ call.at \in PutPoints
        /\ m > 0
        /\ buff' = [buff EXCEPT ![s] = @ \o SubSeq(call.rest, 1, m)]
        /\ stored' = [stored EXCEPT ![s] = IF call.at = "put" THEN @ + m ELSE @]
        /\ IF m = Len(call.rest)
             THEN PutReturns
             ELSE /\ call' = [call EXCEPT !.rest = SubSeq(@, m + 1, Len(@))]
                  /\ UNCHANGED nWriters
        /\ SendsNothing
        /\ UNCHANGED <<streamVars, appStatus, broken>>

\* The buffer is full and the stream is open: empty it and look again.
PutEmpty ==
    /\ call.at \in PutPoints
    /\ Room(call.s) = 0
    /\ ~isClosed[call.s]
    /\ EmptyBuffProc(call.s)
    /\ UNCHANGED <<call, stored>>

PutFails_LooksAgain ==
    /\ call.at \in PutPoints
    /\ Room(call.s) = 0
    /\ isClosed[call.s]
    /\ SendsNothing
    /\ UNCHANGED <<buff, streamVars, nWriters, appStatus, call, stored, broken>>

\* The buffer is full and the stream is closed: return -1.
PutFails ==
    /\ call.at \in PutPoints
    /\ Room(call.s) = 0
    /\ isClosed[call.s]
    /\ PutReturns
    /\ SendsNothing
    /\ UNCHANGED <<buff, streamVars, appStatus, stored, broken>>

\* The rest of EmptyBuffProc(stream, TRUE) and of FCGX_FClose.  A failure of
\* the write only adds the error code: FCGX_FClose closes the stream anyway.
FCloseEnds ==
    LET s == call.s
    IN  /\ call.at = "flush"
        /\ \/ /\ sent' = buff[s]
              /\ buff' = [buff EXCEPT ![s] = <<>>]
              /\ UNCHANGED <<FCGI_errno, broken>>
           \/ \E k \in {c \in Cuts : c < Len(buff[s])} :
              /\ sent' = SubSeq(buff[s], 1, k)
              /\ FCGI_errno' = [FCGI_errno EXCEPT ![s] = TRUE]
              /\ broken' = TRUE
              /\ UNCHANGED buff
        /\ isAnythingWritten' = [isAnythingWritten EXCEPT ![s] = @ \/ buff[s] # <<>>]
        /\ isClosed' = [isClosed EXCEPT ![s] = TRUE]
        /\ wasFCloseCalled' = [wasFCloseCalled EXCEPT ![s] = TRUE]
        /\ call' = Idle
        /\ UNCHANGED <<rawWrite, nWriters, appStatus, stored>>

Application ==
    \/ \E s \in Streams, n \in PutSizes : PutStr(s, n)
    \/ \E s \in Streams : FFlush(s) \/ ClearError(s) \/ FClose(s)
    \/ \E status \in Status : SetExitStatus(status)

Library == PutCopy \/ PutEmpty \/ PutFails \/ FCloseEnds

Next == Application \/ Library

\* A library call runs to its end; the application may stop at any time.
Spec == Init /\ [][Next]_vars /\ WF_vars(Library)
-----------------------------------------------------------------------------
(* Type correctness.  Besides the types it states two widths the code relies *)
(* on: the padding never makes a buffer longer than it is ("Padding can't    *)
(* overflow the buffer", EmptyBuffProc), and every header's lengths fit      *)
(* their fields (contentLength two bytes, paddingLength below Align).        *)

Byte == {c \in Cell : c.kind = "header" => c.n <= MaxLength}

TypeOK ==
    /\ buff \in [Streams -> Seq(Byte)]
    /\ \A s \in Streams : Len(buff[s]) <= BuffLen[s]
    /\ isClosed \in [Streams -> BOOLEAN]
    /\ wasFCloseCalled \in [Streams -> BOOLEAN]
    /\ FCGI_errno \in [Streams -> BOOLEAN]
    /\ rawWrite \in [Streams -> BOOLEAN]
    /\ isAnythingWritten \in [Streams -> BOOLEAN]
    /\ nWriters \in 0 .. 2
    /\ appStatus \in Status
    /\ sent \in Seq(Byte)
    /\ call \in [at : {"app", "put", "eof", "end", "flush"},
                 s : Streams, rest : Seq(Byte)]
    /\ stored \in [Streams -> Nat]
    /\ broken \in BOOLEAN
-----------------------------------------------------------------------------
\* The stream has been taken off nWriters, though its final write may be due.
Counted(s) == wasFCloseCalled[s] \/ (call.at = "flush" /\ call.s = s)

(* nWriters counts the streams still to close, and FCGI_END_REQUEST is made  *)
(* by the last of them, when the other is closed for good.  (nWriters in     *)
(* WriteCloseRecords, wasFCloseCalled in FCGX_FClose.)                       *)
ClosersCounted ==
    /\ nWriters = (IF Counted(STDOUT) THEN 0 ELSE 1) + (IF Counted(STDERR) THEN 0 ELSE 1)
    /\ call.at \in {"eof", "end", "flush"} => ~wasFCloseCalled[call.s]
    /\ call.at = "end" => nWriters = 1
    /\ \A s \in Streams : wasFCloseCalled[s] => isClosed[s]

(* Once the request is ended nothing more is ever sent for it, failures or   *)
(* not: the connection belongs to the next request.  (wasFCloseCalled.)      *)
SilentAfterEnd == [][nWriters = 0 /\ call = Idle => sent' = <<>>]_vars
=============================================================================
