----------------------------- MODULE FcgiReader -----------------------------
(***************************************************************************)
(* The input half of one FastCGI request (libfcgi/fcgiapp.c): FCGX_Accept_r *)
(* reading the request's role and environment, and then the application    *)
(* reading FCGI_STDIN and, for a filter, FCGI_DATA.  FillBuffProc takes the *)
(* records of the connection apart; it calls ProcessHeader, which for a    *)
(* begin-request or a get-values record reads the record's content through *)
(* the same stream and so calls FillBuffProc again.                        *)
(*                                                                         *)
(* The connection's bytes are numbered from 1.  rd counts the bytes taken  *)
(* (rdNext), bufStop those OS_Read has returned (buffStop), stop those     *)
(* that may be delivered without another FillBuffProc (stop).  The web     *)
(* server's bytes are a script: the records of one request and of whatever *)
(* else comes down the connection.  OS_Read returns any part of what has   *)
(* been sent that fits the buffer.                                         *)
(***************************************************************************)
EXTENDS Integers, Sequences

CONSTANTS
    HeaderLen,   \* sizeof(FCGI_Header)
    BodyLen,     \* sizeof(FCGI_BeginRequestBody)
    PairLen,     \* the bytes of one name-value pair, its two lengths included
    BuffLen,     \* bufflen of the reader
    Scripts,     \* the inputs a connection may carry
    ReadSizes    \* bound: the lengths the application asks FCGX_GetStr for

\* A record of a script.  id 0 is FCGI_NULL_REQUEST_ID, len contentLength,
\* pad paddingLength; after: the web server sends the record, and those
\* behind it, only when it has this many replies.
RecordTypes == {"BEGIN", "PARAMS", "STDIN", "DATA", "GET_VALUES", "UNKNOWN"}
Roles == {"RESPONDER", "FILTER", "OTHER"}
Record == [type : RecordTypes, id : Nat, len : Nat, pad : Nat, role : Roles, after : Nat]

ASSUME SizeAssumption ==
    /\ HeaderLen \in Nat \ {0} /\ BodyLen \in Nat \ {0} /\ BuffLen \in Nat \ {0}
    /\ PairLen \in Nat \ {0, 1} /\ ReadSizes \subseteq Nat \ {0}
ASSUME ScriptAssumption == Scripts \subseteq Seq(Record)

VARIABLES
    input,         \* the connection's records
    ended,         \* the web server has closed it, whatever it has sent
    buff, rd, bufStop, stop, stopUnget,             \* the buffer and the pointers into it
    contentLen, paddingLen, skip, type, isClosed,   \* FCGX_Stream_Data, isClosed
    FCGI_errno,    \* the first error
    headerLen,     \* FillBuffProc's local: bytes of the header read so far
    requestId, isBeginProcessed, role,              \* FCGX_Request
    pc,            \* where the library is, or "app"
    frames,        \* the FCGX_GetStr calls in progress, the innermost last
    phase,         \* what FCGX_Accept_r and the application have come to
    replies,       \* the replies sent on the connection, in order
    delivered      \* history: the bytes each stream has delivered

position == <<buff, rd, bufStop, stop, stopUnget>>
current == <<contentLen, paddingLen, skip, type>>
request == <<requestId, isBeginProcessed, role>>
vars == <<input, ended, position, current, isClosed, FCGI_errno, headerLen, request,
          pc, frames, phase, replies, delivered>>

StreamTypes == {"PARAMS", "STDIN", "DATA"}
Errors == {"none", "protocol", "version", "params", "os", "call sequence"}
-----------------------------------------------------------------------------
(* The connection.                                                          *)

RecordLen(r) == HeaderLen + r.len + r.pad

\* Ends[i]: the number of bytes up to the end of record i.
Ends[i \in 0 .. Len(input)] == IF i = 0 THEN 0 ELSE Ends[i - 1] + RecordLen(input[i])

\* The bytes the web server sends before it waits for a further reply.
SentLen ==
    LET holds == {i \in 1 .. Len(input) : input[i].after > Len(replies)}
    IN  IF holds = {} THEN Ends[Len(input)]
        ELSE Ends[(CHOOSE i \in holds : \A j \in holds : i <= j) - 1]

\* The records whose header ends at byte p: one, or none when the bytes read
\* as a header are not one.
HeaderEndingAt(p) == {i \in 1 .. Len(input) : Ends[i - 1] + HeaderLen = p}

Least(m, n) == IF m <= n THEN m ELSE n
-----------------------------------------------------------------------------
Frame == [who : {"accept", "params", "pair", "app", "begin", "values", "value"},
          want : Nat]
Call(who, want) == [who |-> who, want |-> want]
Top == frames[Len(frames)]
Pop == SubSeq(frames, 1, Len(frames) - 1)

\* data->eorStop: FillBuffProc has been called from within ProcessHeader.
eorStop == Len(frames) = 2

FirstError(e) == IF FCGI_errno = "none" THEN e ELSE FCGI_errno

\* SetError, and the return of FillBuffProc that follows it everywhere.
SetError(e) ==
    /\ FCGI_errno' = FirstError(e)
    /\ isClosed' = TRUE
    /\ pc' = "closed"

\* SetReaderType.  The unread content and padding of the current record are
\* forgotten.
SetReaderType(t) ==
    /\ type' = t /\ skip' = FALSE /\ contentLen' = 0 /\ paddingLen' = 0
    /\ stop' = rd
    /\ isClosed' = FALSE

\* FCGX_Accept_r with a connection open: a new reader, and FillBuffProc to
\* find the begin-request record.
Init ==
    /\ input \in Scripts /\ ended = FALSE
    /\ buff = 0 /\ rd = 0 /\ bufStop = 0 /\ stop = 0 /\ stopUnget = 0
    /\ contentLen = 0 /\ paddingLen = 0 /\ skip = FALSE /\ type = "none"
    /\ isClosed = FALSE /\ FCGI_errno = "none"
    /\ headerLen = 0
    /\ requestId = 0 /\ isBeginProcessed = FALSE /\ role = "OTHER"
    /\ pc = "fill"
    /\ frames = <<Call("accept", 0)>>
    /\ phase = "begin"
    /\ replies = <<>>
    /\ delivered = [t \in StreamTypes |-> <<>>]
-----------------------------------------------------------------------------
(* FCGX_GetStr and FCGX_GetChar: take what may be taken, fill when more is  *)
(* wanted.                                                                  *)

\* The bytes from rd on, as what they are: their numbers.
NextBytes(m) == [i \in 1 .. m |-> rd + i]

\* What the caller of the innermost FCGX_GetStr does with all it asked for.
\* ReadParams reads a pair's first byte, then the rest of the pair.
Satisfied ==
    CASE Top.who = "app" -> /\ frames' = <<>> /\ pc' = "app"
                            /\ UNCHANGED <<isBeginProcessed, role, phase>>
      [] Top.who \in {"params", "values"} ->
            /\ frames' = Append(Pop, Call(IF Top.who = "params" THEN "pair" ELSE "value",
                                          PairLen - 1))
            /\ UNCHANGED <<pc, isBeginProcessed, role, phase>>
      [] Top.who \in {"pair", "value"} ->
            /\ frames' = Append(Pop, Call(IF Top.who = "pair" THEN "params" ELSE "values", 1))
            /\ UNCHANGED <<pc, isBeginProcessed, role, phase>>
      [] Top.who = "begin" ->
            /\ frames' = Pop /\ pc' = "begun"
            /\ isBeginProcessed' = TRUE
            /\ \E i \in 1 .. Len(input) :
                  Ends[i - 1] + HeaderLen + BodyLen = rd' /\ role' = input[i].role
            /\ UNCHANGED phase

Take ==
    LET m == Least(Top.want, stop - rd)
    IN  /\ pc = "get"
        /\ rd' = rd + m
        /\ delivered' = IF eorStop THEN delivered
                        ELSE [delivered EXCEPT ![type] = @ \o NextBytes(m)]
        /\ IF m = Top.want
             THEN Satisfied
             ELSE /\ frames' = Append(Pop, Call(Top.who, Top.want - m))
                  /\ pc' = IF isClosed THEN "closed" ELSE "fill"
                  /\ UNCHANGED <<isBeginProcessed, role, phase>>
        /\ UNCHANGED <<input, ended, buff, bufStop, stop, stopUnget, current, isClosed, FCGI_errno,
                       headerLen, requestId, replies>>
-----------------------------------------------------------------------------
(* FillBuffProc.                                                            *)

\* The buffer is empty: OS_Read waits for bytes, and returns 0 when the web
\* server has closed, or has sent everything.
ReadSome ==
    /\ ~ended
    /\ \E count \in 1 .. BuffLen : /\ bufStop + count <= SentLen
                                   /\ bufStop' = bufStop + count
    /\ buff' = rd
    /\ UNCHANGED <<isClosed, FCGI_errno, pc, headerLen>>

\* What has been read of a header is forgotten with FillBuffProc's locals.
ReadError(e) ==
    /\ SetError(e)
    /\ headerLen' = 0
    /\ UNCHANGED <<buff, bufStop>>

FillRead_WaitsForMore ==
    /\ pc = "fill"
    /\ rd = bufStop
    /\ ReadSome
    /\ UNCHANGED <<input, ended, rd, stop, stopUnget, current, request, frames,
                   phase, replies, delivered>>

FillRead ==
    /\ pc = "fill"
    /\ rd = bufStop
    /\ ReadSome \/ ((ended \/ bufStop = Ends[Len(input)]) /\ ReadError("protocol"))
    /\ UNCHANGED <<input, ended, rd, stop, stopUnget, current, request, frames,
                   phase, replies, delivered>>

\* The connection ends early, at any byte, or OS_Read fails, after which more
\* may still come (a signal has interrupted it).
ReadFails ==
    /\ pc = "fill"
    /\ rd = bufStop
    /\ \/ ReadError("protocol") /\ ended' = TRUE
       \/ ReadError("os") /\ UNCHANGED ended
    /\ UNCHANGED <<input, rd, stop, stopUnget, current, request, frames,
                   phase, replies, delivered>>

\* Deliver the content that is in the buffer to the innermost caller.
FillDeliver_NoPushback ==
    LET count == Least(contentLen, bufStop - rd)
    IN  /\ pc = "fill"
        /\ rd # bufStop /\ contentLen > 0 /\ ~skip
        /\ contentLen' = contentLen - count
        /\ stop' = rd + count
        /\ stopUnget' = IF Top.who = "accept" THEN stopUnget ELSE stop'
        /\ pc' = IF Top.who = "accept" THEN "closed" ELSE "get"
        /\ UNCHANGED <<input, ended, buff, rd, bufStop, paddingLen, skip, type, isClosed, FCGI_errno,
                       headerLen, request, frames, phase, replies, delivered>>

FillDeliver ==
    LET count == Least(contentLen, bufStop - rd)
    IN  /\ pc = "fill"
        /\ rd # bufStop /\ contentLen > 0 /\ ~skip
        /\ contentLen' = contentLen - count
        /\ stop' = rd + count
        /\ stopUnget' = IF Top.who = "accept" THEN stopUnget ELSE rd
        /\ pc' = IF Top.who = "accept" THEN "closed" ELSE "get"
        /\ UNCHANGED <<input, ended, buff, rd, bufStop, paddingLen, skip, type, isClosed, FCGI_errno,
                       headerLen, request, frames, phase, replies, delivered>>

\* Pass over the content of a record nobody reads.
FillSkip ==
    LET count == Least(contentLen, bufStop - rd)
    IN  /\ pc = "fill"
        /\ rd # bufStop /\ contentLen > 0 /\ skip
        /\ contentLen' = contentLen - count
        /\ rd' = rd + count
        /\ IF contentLen' > 0 THEN UNCHANGED <<skip, pc>> ELSE skip' = FALSE /\ pc' = "pad"
        /\ UNCHANGED <<input, ended, buff, bufStop, stop, stopUnget, paddingLen, type, isClosed,
                       FCGI_errno, headerLen, request, frames, phase, replies, delivered>>

\* The record has no (more) content: pass over its padding.
FillPadding ==
    LET count == Least(paddingLen, bufStop - rd)
    IN  /\ pc = "pad" \/ (pc = "fill" /\ rd # bufStop /\ contentLen = 0)
        /\ paddingLen' = paddingLen - count
        /\ rd' = rd + count
        /\ pc' = IF paddingLen' > 0 THEN "fill" ELSE "next"
        /\ UNCHANGED <<input, ended, buff, bufStop, stop, stopUnget, contentLen, skip, type, isClosed,
                       FCGI_errno, headerLen, request, frames, phase, replies, delivered>>

\* The record is done with.  In a call from ProcessHeader that is the end of
\* the data.
FillEndOfRecord ==
    /\ pc = "next"
    /\ eorStop
    /\ stop' = rd
    /\ isClosed' = TRUE
    /\ pc' = "closed"
    /\ UNCHANGED <<input, ended, buff, rd, bufStop, stopUnget, current, FCGI_errno, headerLen, request,
                   frames, phase, replies, delivered>>

\* Part of the next header.
FillHeaderPart ==
    LET count == bufStop - rd
    IN  /\ pc = "next"
        /\ ~eorStop
        /\ count < HeaderLen - headerLen
        /\ headerLen' = headerLen + count
        /\ rd' = rd + count
        /\ pc' = "fill"
        /\ UNCHANGED <<input, ended, buff, bufStop, stop, stopUnget, current, isClosed, FCGI_errno,
                       request, frames, phase, replies, delivered>>
-----------------------------------------------------------------------------
(* The rest of the next header, and ProcessHeader.                          *)

\* write_it_all of a reply; a failure closes the stream.
Reply(kind, i) ==
    \/ /\ replies' = Append(replies, <<kind, i>>)
       /\ pc' = "fill"
       /\ UNCHANGED <<isClosed, FCGI_errno>>
    \/ /\ SetError("os")
       /\ UNCHANGED replies

ProcessBeginRecord(i) ==
    IF input[i].id = 0 \/ input[i].len # BodyLen
      THEN SetError("protocol") /\ UNCHANGED <<skip, requestId, frames, replies>>
    ELSE IF isBeginProcessed
      THEN /\ Reply("CANT_MPX_CONN", i)
           /\ skip' = (skip \/ pc' = "fill")
           /\ UNCHANGED <<requestId, frames>>
    ELSE /\ requestId' = input[i].id
         /\ frames' = Append(frames, Call("begin", BodyLen))
         /\ pc' = "get"
         /\ UNCHANGED <<skip, isClosed, FCGI_errno, replies>>

ProcessManagementRecord_OnlyValues(i) ==
    /\ IF input[i].type = "GET_VALUES"
         THEN frames' = Append(frames, Call("values", 1)) /\ pc' = "get"
         ELSE pc' = "fill" /\ UNCHANGED frames
    /\ UNCHANGED <<skip, requestId, isClosed, FCGI_errno, replies>>

ProcessManagementRecord(i) ==
    IF input[i].type = "GET_VALUES"
      THEN /\ frames' = Append(frames, Call("values", 1))
           /\ pc' = "get"
           /\ UNCHANGED <<skip, requestId, isClosed, FCGI_errno, replies>>
      ELSE /\ Reply("UNKNOWN_TYPE", i)
           /\ UNCHANGED <<skip, requestId, frames>>

\* A record of this request's current stream; an empty one is its end.
ProcessStreamRecord(i) ==
    /\ IF input[i].len = 0
         THEN isClosed' = TRUE /\ pc' = "closed"
         ELSE pc' = "fill" /\ UNCHANGED isClosed
    /\ UNCHANGED <<skip, requestId, frames, FCGI_errno, replies>>

SkipRecord_NotSkipped ==
    /\ pc' = "fill"
    /\ UNCHANGED <<skip, requestId, frames, isClosed, FCGI_errno, replies>>

SkipRecord ==
    /\ skip' = TRUE
    /\ pc' = "fill"
    /\ UNCHANGED <<requestId, frames, isClosed, FCGI_errno, replies>>

ProcessHeader(i) ==
    CASE input[i].type = "BEGIN" -> ProcessBeginRecord(i)
      [] input[i].type # "BEGIN" /\ input[i].id = 0 -> ProcessManagementRecord(i)
      [] input[i].type # "BEGIN" /\ input[i].id \notin {0, requestId} -> SkipRecord
      [] input[i].type # "BEGIN" /\ input[i].id # 0 /\ input[i].id = requestId ->
            IF input[i].type = type
              THEN ProcessStreamRecord(i)
              ELSE SetError("protocol") /\ UNCHANGED <<skip, requestId, frames, replies>>

\* Bytes that are not a header have not its version.
FillHeader ==
    /\ pc = "next"
    /\ ~eorStop
    /\ bufStop - rd >= HeaderLen - headerLen
    /\ rd' = rd + HeaderLen - headerLen
    /\ headerLen' = 0
    /\ stop' = rd'
    /\ \/ \E i \in HeaderEndingAt(rd') :
             /\ contentLen' = input[i].len
             /\ paddingLen' = input[i].pad
             /\ ProcessHeader(i)
       \/ /\ HeaderEndingAt(rd') = {}
          /\ SetError("version")
          /\ UNCHANGED <<contentLen, paddingLen, skip, requestId, frames, replies>>
    /\ UNCHANGED <<input, ended, buff, bufStop, stopUnget, type, isBeginProcessed, role, phase, delivered>>
-----------------------------------------------------------------------------
(* What follows a FillBuffProc that returned with the stream closed.        *)

\* A get-values record has been read to its end: answer it and go on.
ValuesRead ==
    /\ pc = "closed" /\ Top.who = "values" /\ FCGI_errno = "none"
    /\ frames' = Pop
    /\ \E i \in 1 .. Len(input) :
          /\ Ends[i] = rd
          /\ \/ /\ replies' = Append(replies, <<"GET_VALUES_RESULT", i>>)
                /\ pc' = "fill" /\ isClosed' = FALSE
                /\ UNCHANGED FCGI_errno
             \/ SetError("os") /\ UNCHANGED replies
    /\ UNCHANGED <<input, ended, position, current, headerLen, request, phase, delivered>>

\* The content of a begin-request or get-values record ended too early.
NestedFails ==
    /\ pc = "closed" /\ eorStop
    /\ ~(Top.who = "values" /\ FCGI_errno = "none")
    /\ frames' = Pop
    /\ SetError(IF Top.who = "value" THEN "params" ELSE "protocol")
    /\ UNCHANGED <<input, ended, position, current, headerLen, request, phase, replies, delivered>>

\* FCGX_Accept_r has the role: on to the environment.
Begun ==
    /\ pc = "begun"
    /\ IF role = "OTHER"
         THEN /\ phase' = "failed" /\ pc' = "app" /\ frames' = <<>>
              /\ UNCHANGED <<stop, current, isClosed>>
         ELSE /\ SetReaderType("PARAMS")
              /\ phase' = "params"
              /\ frames' = <<Call("params", 1)>> /\ pc' = "get"
    /\ UNCHANGED <<input, ended, buff, rd, bufStop, stopUnget, FCGI_errno, headerLen, request, replies,
                   delivered>>

\* ReadParams met the end of the stream between two pairs, and returns 0.
EnvironmentRead ==
    /\ pc = "closed" /\ ~eorStop /\ Top.who = "params"
    /\ SetReaderType("STDIN")
    /\ phase' = "stdin"
    /\ frames' = <<>> /\ pc' = "app"
    /\ UNCHANGED <<input, ended, buff, rd, bufStop, stopUnget, FCGI_errno, headerLen, request, replies,
                   delivered>>

\* No begin-request record, or a pair cut short: the connection is closed.
TryAgain ==
    /\ pc = "closed" /\ ~eorStop /\ Top.who \in {"accept", "pair"}
    /\ phase' = "failed"
    /\ frames' = <<>> /\ pc' = "app"
    /\ UNCHANGED <<input, ended, position, current, isClosed, FCGI_errno, headerLen, request,
                   replies, delivered>>

\* The application's FCGX_GetStr returns what it has.
GetEnds ==
    /\ pc = "closed" /\ ~eorStop /\ Top.who = "app"
    /\ frames' = <<>> /\ pc' = "app"
    /\ UNCHANGED <<input, ended, position, current, isClosed, FCGI_errno, headerLen, request,
                   phase, replies, delivered>>
-----------------------------------------------------------------------------
(* The application's calls.                                                 *)

Accepted == phase \in {"stdin", "data"}

GetStr(n) ==
    /\ pc = "app" /\ Accepted /\ ~isClosed
    /\ frames' = <<Call("app", n)>> /\ pc' = "get"
    /\ UNCHANGED <<input, ended, position, current, isClosed, FCGI_errno, headerLen, request,
                   phase, replies, delivered>>

\* FCGX_UnGetChar of the character just read.
UnGetChar ==
    /\ pc = "app" /\ Accepted /\ ~isClosed
    /\ rd # stopUnget /\ delivered[type] # <<>>
    /\ rd' = rd - 1
    /\ delivered' = [delivered EXCEPT ![type] = SubSeq(@, 1, Len(@) - 1)]
    /\ UNCHANGED <<input, ended, buff, bufStop, stop, stopUnget, current, isClosed, FCGI_errno,
                   headerLen, request, pc, frames, phase, replies>>

\* FCGX_StartFilterData, also when it is called too early.
StartFilterData ==
    /\ pc = "app" /\ Accepted
    /\ IF role = "FILTER" /\ isClosed /\ type = "STDIN"
         THEN SetReaderType("DATA") /\ phase' = "data" /\ UNCHANGED FCGI_errno
         ELSE /\ FCGI_errno' = FirstError("call sequence") /\ isClosed' = TRUE
              /\ UNCHANGED <<stop, current, phase>>
    /\ UNCHANGED <<input, ended, buff, rd, bufStop, stopUnget, headerLen, request, pc, frames, replies,
                   delivered>>

Application == (\E n \in ReadSizes : GetStr(n)) \/ UnGetChar \/ StartFilterData

Library ==
    \/ Take \/ FillRead \/ FillDeliver \/ FillSkip \/ FillPadding \/ FillEndOfRecord
    \/ FillHeaderPart \/ FillHeader \/ ValuesRead \/ NestedFails
    \/ Begun \/ EnvironmentRead \/ TryAgain \/ GetEnds

Next == Application \/ Library \/ ReadFails

\* The library runs whenever it can; it waits only in OS_Read, for bytes the
\* web server has not sent.  A read need never fail.
Spec == Init /\ [][Next]_vars /\ WF_vars(Library)
-----------------------------------------------------------------------------
(* The types, and the order of the pointers: FCGX_UnGetChar never leaves    *)
(* the buffer (stopUnget), and rdNext never passes what OS_Read has filled. *)
TypeOK ==
    /\ buff <= rd /\ rd <= bufStop
    /\ input \in Scripts /\ ended \in BOOLEAN
    /\ {buff, rd, bufStop, stop, stopUnget, contentLen, paddingLen} \subseteq Nat
    /\ stop <= bufStop /\ bufStop <= Ends[Len(input)] /\ headerLen \in 0 .. HeaderLen - 1
    /\ skip \in BOOLEAN /\ isClosed \in BOOLEAN /\ isBeginProcessed \in BOOLEAN
    /\ type \in StreamTypes \cup {"none"} /\ FCGI_errno \in Errors
    /\ requestId \in Nat /\ role \in Roles
    /\ pc \in {"app", "get", "fill", "pad", "next", "closed", "begun"}
    /\ frames \in Seq(Frame) /\ Len(frames) <= 2
    /\ phase \in {"begin", "params", "stdin", "data", "failed"}
    /\ replies \in Seq({"CANT_MPX_CONN", "UNKNOWN_TYPE", "GET_VALUES_RESULT"} \X (1 .. Len(input)))
    /\ delivered \in [StreamTypes -> Seq(1 .. Ends[Len(input)])]

\* The content of this request's records of one type, and the number of bytes
\* that end with the record that ends the stream.
OwnRecords(t) == {i \in 1 .. Len(input) : input[i].type = t /\ input[i].id = requestId}
OwnBytes(t) ==
    UNION {Ends[i - 1] + HeaderLen + 1 .. Ends[i - 1] + HeaderLen + input[i].len
             : i \in OwnRecords(t)}
EndRead(t) == \E i \in OwnRecords(t) : input[i].len = 0 /\ Ends[i - 1] + HeaderLen <= rd

DeliveredSet(t) == {delivered[t][i] : i \in DOMAIN delivered[t]}

(* The specification of the protocol, of a record whose type the            *)
(* application does not know: it is answered, not delivered.                *)
NothingForeign == \A t \in StreamTypes : DeliveredSet(t) \subseteq OwnBytes(t)

(* The specification of the protocol: "While a request ID R is inactive,    *)
(* the application ignores records with requestId == R".  Ignoring them     *)
(* costs the streams of the active request nothing.                         *)
NothingMissing ==
    \A t \in StreamTypes :
        /\ \A i, j \in DOMAIN delivered[t] : i < j => delivered[t][i] < delivered[t][j]
        /\ \A p \in OwnBytes(t) : (\E q \in DeliveredSet(t) : p < q) => p \in DeliveredSet(t)

(* What is read as a header is a header: the reader never loses the         *)
(* boundaries of the records.  (contentLen, paddingLen, headerLen.)         *)
HeadersAtRecordStarts == FCGI_errno # "version"

(* A stream delivers the content of its own records, byte by byte in order  *)
(* with no gap: no header, no padding, no management record and no record   *)
(* of another request, however OS_Read cuts the connection.  (FillBuffProc, *)
(* ProcessHeader.)                                                          *)
DeliversOwnContent == NothingForeign /\ NothingMissing /\ HeadersAtRecordStarts

InputWhole ==
    pc = "app" /\ Accepted /\ isClosed /\ FCGI_errno = "none" =>
        DeliveredSet(type) = OwnBytes(type) /\ EndRead(type)

EnvironmentWhole ==
    Accepted /\ FCGI_errno = "none" =>
        DeliveredSet("PARAMS") = OwnBytes("PARAMS") /\ EndRead("PARAMS")

(* End of file without an error means the whole stream: every byte of its   *)
(* records has been delivered and its empty record read (FCGX_GetStr: "If   *)
(* result is smaller than n, the end of input has been reached"); and a     *)
(* request accepted without an error has its whole environment.             *)
EofMeansAll == InputWhole /\ EnvironmentWhole

(* Of what has been read the application gets its streams, whole, and no    *)
(* more.                                                                    *)
DeliveryInv == TypeOK /\ DeliversOwnContent /\ EofMeansAll

\* The records the library must answer, and with what.
Due(i) == CASE input[i].type = "BEGIN" -> input[i].id # requestId
            [] OTHER -> input[i].id = 0
Answer(i) == CASE input[i].type = "BEGIN" -> "CANT_MPX_CONN"
               [] input[i].type = "GET_VALUES" -> "GET_VALUES_RESULT"
               [] OTHER -> "UNKNOWN_TYPE"

(* Each management record and each attempt to multiplex is answered once,   *)
(* in order, with the answer its kind calls for; none is passed over.       *)
RepliesInOrder ==
    /\ \A k \in DOMAIN replies :
          LET i == replies[k][2]
          IN  /\ Due(i) /\ replies[k][1] = Answer(i)
              /\ Ends[i - 1] + HeaderLen <= rd
              /\ \A l \in DOMAIN replies : k < l => i < replies[l][2]
    /\ pc = "app" /\ Accepted /\ FCGI_errno = "none" =>
          \A i \in 1 .. Len(input) :
              Due(i) /\ Ends[i] <= rd => \E k \in DOMAIN replies : replies[k][2] = i

(* "One character of pushback is guaranteed once a character has been read" *)
(* (FCGX_UnGetChar).                                                        *)
UngetGuaranteed ==
    [][pc = "get" /\ pc' = "app" /\ ~isClosed' /\ delivered' # delivered
         => rd' # stopUnget']_vars

(* The library's call returns once the web server has sent what the library *)
(* needs and does not itself wait for an answer.                            *)
LibraryReturns == (pc # "app") ~> (pc = "app")
-----------------------------------------------------------------------------
(* What the web server is taken to keep to, where the library is documented *)
(* to lose its place otherwise (README).  The scripts of the run reader do. *)

\* Record b is the begin-request record that is accepted.
IsFirst(s, b) ==
    b \in 1 .. Len(s) /\ s[b].type = "BEGIN" /\ \A j \in 1 .. b - 1 : s[j].type # "BEGIN"

OfRequest(s, b, i) == IsFirst(s, b) /\ i \in 1 .. Len(s) /\ s[b].id # 0 /\ s[i].id = s[b].id

\* A request's records follow its begin-request record, which it has one of;
\* no record of it follows the empty one of its stream; input precedes data.
\* What SetReaderType may drop is not there (padding of the begin-request and
\* of an empty record), and a record to be skipped has content.
RequestScript(s) ==
    /\ \A b \in 1 .. Len(s) : IsFirst(s, b) => s[b].pad = 0
    /\ \A b, i \in 1 .. Len(s) : OfRequest(s, b, i) /\ i # b =>
          /\ b < i /\ s[i].type # "BEGIN"
          /\ s[i].len = 0 => /\ s[i].pad = 0
                             /\ \A j \in i + 1 .. Len(s) :
                                   ~(s[j].id = s[i].id /\ s[j].type = s[i].type)
          /\ s[i].type = "DATA" =>
                \E j \in 1 .. i - 1 : s[j].id = s[i].id /\ s[j].type = "STDIN"
    /\ \A i \in 1 .. Len(s) :
          /\ s[i].type # "BEGIN" /\ s[i].id # 0 /\ s[i].len = 0 =>
                \E b \in 1 .. Len(s) : OfRequest(s, b, i)
          /\ s[i].type \notin {"BEGIN", "GET_VALUES"} /\ s[i].id = 0 => s[i].len = 0
=============================================================================
