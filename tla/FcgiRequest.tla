---------------------------- MODULE FcgiRequest ----------------------------
(***************************************************************************)
(* The life of a FCGX_Request (libfcgi/fcgiapp.c): FCGX_Accept_r,           *)
(* FCGX_Finish_r and FCGX_Free on one structure that serves request after   *)
(* request, on connections the web server may ask to keep open.             *)
(*                                                                         *)
(* FcgiReader and FcgiWriter have the records byte by byte; here a request  *)
(* is four records (begin-request, the whole environment, some input, the   *)
(* end of input) and a connection is the records of its requests, one       *)
(* after the other.  sent counts those the web server has sent, got those   *)
(* OS_Read has taken into the reader's buffer, used those taken apart.      *)
(***************************************************************************)
EXTENDS Integers, Sequences, FiniteSets

CONSTANTS
    Conns,         \* the connections
    None,          \* ipcFd < 0
    Keeps,         \* Keeps[c][r]: request r of c has FCGI_KEEP_CONN
    Statuses       \* what the application gives FCGX_SetExitStatus

ASSUME SettingAssumption ==
    /\ None \notin Conns /\ IsFiniteSet(Conns)
    /\ Keeps \in [Conns -> Seq(BOOLEAN)] /\ Statuses \subseteq Nat

Kinds == <<"BEGIN", "PARAMS", "STDIN", "EOF">>
Total(c) == 4 * Len(Keeps[c])
\* Record i of a connection: its kind and its request.
KindOf(i) == Kinds[((i - 1) % 4) + 1]
RequestOf(i) == ((i - 1) \div 4) + 1

VARIABLES
    drains,       \* the application reads all input before it ends a request
    web,          \* of each connection: "new", "waiting", "open", "cut"
    closed,       \* the connections the library has closed
    sent, got, used,
    ended,        \* the FCGI_END_REQUEST records of each connection
    ipcFd, requestId, keepConnection, appStatus, nWriters,   \* FCGX_Request
    in,           \* the reader: "none", "begin", "params", "stdin"
    inError, inClosed, outError,                             \* of its streams
    cur,          \* the request being served or read
    shutdownPending,
    pc            \* "idle", "accept", "fill", "serving", "stopped"

wire == <<web, closed, sent, got, used, ended>>
request == <<ipcFd, requestId, keepConnection, appStatus, nWriters>>
streams == <<in, inError, inClosed, outError>>
vars == <<drains, wire, request, streams, cur, shutdownPending, pc>>

\* FCGX_InitRequest.
Init ==
    /\ drains \in BOOLEAN
    /\ web = [c \in Conns |-> "new"] /\ closed = {}
    /\ sent = [c \in Conns |-> 0] /\ got = sent /\ used = sent
    /\ ended = [c \in Conns |-> <<>>]
    /\ ipcFd = None /\ requestId = 0 /\ keepConnection = FALSE
    /\ appStatus = 0 /\ nWriters = 0
    /\ in = "none" /\ inError = FALSE /\ inClosed = FALSE /\ outError = FALSE
    /\ cur = 0 /\ shutdownPending = FALSE /\ pc = "idle"
-----------------------------------------------------------------------------
(* The web server.                                                          *)

Connect(c) ==
    /\ web[c] = "new"
    /\ web' = [web EXCEPT ![c] = "waiting"]
    /\ UNCHANGED <<drains, closed, sent, got, used, ended, request, streams, cur, shutdownPending, pc>>

\* It sends a request when it has the answer to the one before.
Send(c) ==
    /\ web[c] \in {"waiting", "open"} /\ c \notin closed
    /\ sent[c] < Total(c)
    /\ RequestOf(sent[c] + 1) <= Len(ended[c]) + 1
    /\ sent' = [sent EXCEPT ![c] = @ + 1]
    /\ UNCHANGED <<drains, web, closed, got, used, ended, request, streams, cur, shutdownPending, pc>>

\* It goes on with a request it has begun.
SendRest(c) == sent[c] % 4 # 0 /\ Send(c)

\* The connection breaks: from here on a call of the library on it may fail.
Cut(c) ==
    /\ web[c] = "open"
    /\ web' = [web EXCEPT ![c] = "cut"]
    /\ UNCHANGED <<drains, closed, sent, got, used, ended, request, streams, cur, shutdownPending, pc>>

ShutdownPending ==
    /\ ~shutdownPending
    /\ shutdownPending' = TRUE
    /\ UNCHANGED <<drains, wire, request, streams, cur, pc>>
-----------------------------------------------------------------------------
(* FCGX_Free: the streams and what is in their buffers go, the connection   *)
(* too if close.                                                            *)

Free_NeverCloses(close) ==
    /\ in' = "none" /\ inError' = FALSE /\ inClosed' = FALSE /\ outError' = FALSE
    /\ used' = IF ipcFd = None THEN used ELSE [used EXCEPT ![ipcFd] = got[ipcFd]]
    /\ ipcFd' = IF close THEN None ELSE ipcFd
    /\ UNCHANGED closed

Free(close) ==
    /\ in' = "none" /\ inError' = FALSE /\ inClosed' = FALSE /\ outError' = FALSE
    /\ used' = IF ipcFd = None THEN used ELSE [used EXCEPT ![ipcFd] = got[ipcFd]]
    /\ closed' = IF close /\ ipcFd # None THEN closed \cup {ipcFd} ELSE closed
    /\ ipcFd' = IF close THEN None ELSE ipcFd

\* The last of the writers to be closed writes FCGI_END_REQUEST; a write may
\* fail once the connection is cut.
EndRequest ==
    \/ /\ ended' = [ended EXCEPT ![ipcFd] = Append(@, [request |-> cur, status |-> appStatus])]
       /\ UNCHANGED outError
    \/ /\ web[ipcFd] = "cut"
       /\ outError' = TRUE
       /\ UNCHANGED ended
-----------------------------------------------------------------------------
(* FCGX_Accept_r.                                                           *)

\* It has called FCGX_Finish_r.  Without a connection it accepts one.
Accept_r ==
    /\ pc = "idle"
    /\ IF ipcFd = None THEN pc' = "accept" /\ UNCHANGED <<in, inError, inClosed>>
       ELSE pc' = "fill" /\ in' = "begin" /\ inError' = FALSE /\ inClosed' = FALSE
    /\ UNCHANGED <<drains, wire, request, outError, cur, shutdownPending>>

\* OS_Accept; it returns -1 when it is told to stop.
OsAccept ==
    /\ pc = "accept"
    /\ IF shutdownPending
         THEN pc' = "stopped" /\ UNCHANGED <<drains, web, ipcFd, in, inError, inClosed>>
         ELSE \E c \in Conns : /\ web[c] = "waiting"
                               /\ web' = [web EXCEPT ![c] = "open"]
                               /\ ipcFd' = c /\ pc' = "fill"
                               /\ in' = "begin" /\ inError' = FALSE /\ inClosed' = FALSE
    /\ UNCHANGED <<drains, closed, sent, got, used, ended, requestId, keepConnection, appStatus, nWriters,
                   outError, cur, shutdownPending>>

\* OS_Read takes some of what has been sent, when the buffer is empty.
OsRead ==
    /\ pc = "fill"
    /\ used[ipcFd] = got[ipcFd]
    /\ \E n \in got[ipcFd] + 1 .. sent[ipcFd] : got' = [got EXCEPT ![ipcFd] = n]
    /\ UNCHANGED <<drains, web, closed, sent, used, ended, request, streams, cur, shutdownPending, pc>>

NextIs(i) == used[ipcFd] < got[ipcFd] /\ i = used[ipcFd] + 1
Use == used' = [used EXCEPT ![ipcFd] = @ + 1]

\* The begin-request record.
Begin_FlagNegated ==
    /\ pc = "fill" /\ in = "begin"
    /\ \E i \in 1 .. Total(ipcFd) :
          /\ NextIs(i) /\ KindOf(i) = "BEGIN"
          /\ cur' = RequestOf(i)
          /\ keepConnection' = ~Keeps[ipcFd][cur']
    /\ requestId' = 1
    /\ in' = "params"
    /\ Use
    /\ UNCHANGED <<drains, web, closed, sent, got, ended, ipcFd, appStatus, nWriters, inError, inClosed,
                   outError, shutdownPending, pc>>

Begin ==
    /\ pc = "fill" /\ in = "begin"
    /\ \E i \in 1 .. Total(ipcFd) :
          /\ NextIs(i) /\ KindOf(i) = "BEGIN"
          /\ cur' = RequestOf(i)
          /\ keepConnection' = Keeps[ipcFd][cur']
    /\ requestId' = 1
    /\ in' = "params"
    /\ Use
    /\ UNCHANGED <<drains, web, closed, sent, got, ended, ipcFd, appStatus, nWriters, inError, inClosed,
                   outError, shutdownPending, pc>>

\* A record of the request before, for whose id the structure still stands.
BeginMissing ==
    /\ pc = "fill" /\ in = "begin"
    /\ \E i \in 1 .. Total(ipcFd) : NextIs(i) /\ KindOf(i) # "BEGIN"
    /\ requestId = 1
    /\ Free(TRUE)
    /\ pc' = "accept"
    /\ UNCHANGED <<drains, web, sent, got, ended, requestId, keepConnection, appStatus, nWriters, cur,
                   shutdownPending>>

\* The request is accepted: two new writers.
Accepted(error) ==
    /\ in' = "stdin" /\ inError' = error /\ inClosed' = FALSE /\ outError' = FALSE
    /\ nWriters' = 2
    /\ pc' = "serving"

Environment ==
    /\ pc = "fill" /\ in = "params"
    /\ \E i \in 1 .. Total(ipcFd) : NextIs(i) /\ KindOf(i) = "PARAMS"
    /\ Use
    /\ Accepted(FALSE)
    /\ UNCHANGED <<drains, web, closed, sent, got, ended, ipcFd, requestId, keepConnection, appStatus,
                   cur, shutdownPending>>

\* The connection breaks off.  Between two pairs of the environment ReadParams
\* takes that for its end, and the error is found only by FCGX_Finish_r.
AtCut == web[ipcFd] = "cut" /\ used[ipcFd] = sent[ipcFd]

AcceptCut ==
    /\ pc = "fill" /\ AtCut
    /\ \/ /\ Free(TRUE)
          /\ pc' = "accept"
          /\ UNCHANGED nWriters
       \/ /\ in = "params"
          /\ Accepted(TRUE)
          /\ UNCHANGED <<used, closed, ipcFd>>
    /\ UNCHANGED <<drains, web, sent, got, ended, requestId, keepConnection, appStatus, cur,
                   shutdownPending>>
-----------------------------------------------------------------------------
(* The application, serving a request.                                      *)

Serving == pc = "serving"
MayFinish == drains => inClosed

\* It reads: FCGX_GetStr fills the buffer, or takes a record from it.
ReadMore ==
    /\ Serving /\ ~inClosed /\ ~inError /\ used[ipcFd] = got[ipcFd]
    /\ \E n \in got[ipcFd] + 1 .. sent[ipcFd] : got' = [got EXCEPT ![ipcFd] = n]
    /\ UNCHANGED <<drains, web, closed, sent, used, ended, request, streams, cur, shutdownPending, pc>>

ReadInput ==
    /\ Serving /\ ~inClosed
    /\ \/ /\ AtCut
          /\ inError' = TRUE /\ inClosed' = TRUE
          /\ UNCHANGED used
       \/ /\ used[ipcFd] < got[ipcFd]
          /\ inClosed' = (KindOf(used[ipcFd] + 1) = "EOF")
          /\ Use
          /\ UNCHANGED inError
    /\ UNCHANGED <<drains, web, closed, sent, got, ended, request, in, outError, cur, shutdownPending, pc>>

SetExitStatus(s) ==
    /\ Serving /\ nWriters > 0
    /\ appStatus' = s
    /\ UNCHANGED <<drains, wire, ipcFd, requestId, keepConnection, nWriters, streams, cur,
                   shutdownPending, pc>>

\* It writes: FCGX_PutStr empties a full buffer on a broken connection.
PutFails ==
    /\ Serving /\ nWriters > 0
    /\ web[ipcFd] = "cut"
    /\ outError' = TRUE
    /\ UNCHANGED <<drains, wire, request, in, inError, inClosed, cur, shutdownPending, pc>>

\* The first of the writers to be closed writes what it has left and its end;
\* the request goes on.
EndStream ==
    /\ UNCHANGED ended
    /\ \/ UNCHANGED outError
       \/ web[ipcFd] = "cut" /\ outError' = TRUE

\* The application closes one of its writers itself.
CloseWriter_FirstEnds ==
    /\ Serving /\ nWriters > 0
    /\ nWriters = 1 => MayFinish
    /\ EndRequest
    /\ nWriters' = nWriters - 1
    /\ UNCHANGED <<drains, web, closed, sent, got, used, ipcFd, requestId, keepConnection, appStatus,
                   in, inError, inClosed, cur, shutdownPending, pc>>

CloseWriter ==
    /\ Serving /\ nWriters > 0
    /\ nWriters = 1 => MayFinish
    /\ IF nWriters = 1 THEN EndRequest ELSE EndStream
    /\ nWriters' = nWriters - 1
    /\ UNCHANGED <<drains, web, closed, sent, got, used, ipcFd, requestId, keepConnection, appStatus,
                   in, inError, inClosed, cur, shutdownPending, pc>>

Finish_r_OnlyFrees ==
    /\ Serving
    /\ MayFinish
    /\ Free(~keepConnection \/ outError \/ inError)
    /\ nWriters' = 0
    /\ pc' = "idle"
    /\ UNCHANGED <<drains, web, sent, got, ended, requestId, keepConnection, appStatus, cur,
                   shutdownPending>>

\* FCGX_Finish_r: its call, or the first thing FCGX_Accept_r does.
Finish_r ==
    /\ Serving
    /\ MayFinish
    /\ \E error \in BOOLEAN :
          /\ IF nWriters > 0
               THEN \/ /\ ended' = [ended EXCEPT ![ipcFd] =
                                      Append(@, [request |-> cur, status |-> appStatus])]
                       /\ error = outError
                    \/ web[ipcFd] = "cut" /\ error /\ UNCHANGED ended
               ELSE error = outError /\ UNCHANGED ended
          /\ Free(~keepConnection \/ error \/ inError)
    /\ nWriters' = 0
    /\ pc' = "idle"
    /\ UNCHANGED <<drains, web, sent, got, requestId, keepConnection, appStatus, cur, shutdownPending>>
-----------------------------------------------------------------------------
Library == Accept_r \/ OsAccept \/ OsRead \/ Begin \/ BeginMissing \/ Environment \/ AcceptCut
Application == ReadMore \/ ReadInput \/ PutFails \/ CloseWriter \/ Finish_r

Next ==
    \/ \E c \in Conns : Connect(c) \/ Send(c) \/ Cut(c)
    \/ ShutdownPending \/ Library \/ Application
    \/ \E s \in Statuses : SetExitStatus(s)

\* The application reads on, finishes and calls FCGX_Accept_r again.  The web
\* server sends the rest of what it has begun; whether another request comes
\* on a connection that is kept is up to it.
Spec ==
    /\ Init /\ [][Next]_vars
    /\ WF_vars(Library) /\ WF_vars(ReadMore) /\ WF_vars(ReadInput) /\ WF_vars(Finish_r)
    /\ \A c \in Conns : WF_vars(SendRest(c))
-----------------------------------------------------------------------------
TypeOK ==
    /\ web \in [Conns -> {"new", "waiting", "open", "cut"}] /\ closed \subseteq Conns
    /\ \A c \in Conns : 0 <= used[c] /\ used[c] <= got[c] /\ got[c] <= sent[c] /\ sent[c] <= Total(c)
    /\ \A c \in Conns : \A k \in DOMAIN ended[c] :
          ended[c][k] \in [request : 1 .. Len(Keeps[c]), status : Statuses \cup {0}]
    /\ ipcFd \in Conns \cup {None} /\ requestId \in {0, 1} /\ keepConnection \in BOOLEAN
    /\ appStatus \in Statuses \cup {0} /\ nWriters \in 0 .. 2
    /\ in \in {"none", "begin", "params", "stdin"}
    /\ {inError, inClosed, outError, shutdownPending} \subseteq BOOLEAN
    /\ cur \in Nat /\ pc \in {"idle", "accept", "fill", "serving", "stopped"}

OneConnection ==
    /\ pc \in {"fill", "serving"} => ipcFd # None
    /\ pc \in {"accept", "stopped"} => ipcFd = None
    /\ \A c \in Conns : web[c] \in {"open", "cut"} => (c \in closed <=> c # ipcFd)

(* The descriptor: while a request is read or served its connection is the  *)
(* open one; every other connection that was accepted has been closed.      *)
(* (FCGX_Free, and "ipcFd < 0 means no connection".)                        *)
DescriptorInv == TypeOK /\ OneConnection

(* Each request is ended once, in the order the requests came, and only     *)
(* when it has been begun.  (nWriters.)                                     *)
EndedOnce ==
    \A c \in Conns : \A k \in DOMAIN ended[c] :
        /\ ended[c][k].request = k
        /\ 4 * k - 3 <= got[c]

(* A connection is not closed on a request that has been accepted but not   *)
(* ended, unless it is broken.                                              *)
AnsweredFirst ==
    [][\A c \in closed' \ closed :
          pc = "serving" => web[c] = "cut" \/ \E k \in DOMAIN ended'[c] : ended'[c][k].request = cur]_vars

(* The specification of the protocol on FCGI_KEEP_CONN: "If not zero, the   *)
(* application does not close the connection after responding to this       *)
(* request; the Web server retains responsibility for the connection."  It  *)
(* is kept so for an application that reads all its input.                  *)
KeptOpen ==
    [][drains => \A c \in closed' \ closed : web[c] = "cut" \/ ~Keeps[c][cur]]_vars

(* A connection is closed when the protocol says so: neither too early nor  *)
(* when it is to be kept.                                                   *)
ClosedInTime == AnsweredFirst /\ KeptOpen

\* The library waits for the next request of a connection it has kept, and
\* the web server sends none: FCGX_Accept_r looks at no other connection.
WaitsElsewhere(c) ==
    /\ pc = "fill" /\ ipcFd # c
    /\ used[ipcFd] = sent[ipcFd] /\ sent[ipcFd] % 4 = 0

(* Every request that has been begun is then answered, unless its           *)
(* connection breaks, the library is told to stop, or it waits for ever for *)
(* a request on another connection that was kept: none is lost between two  *)
(* requests of a connection, with the buffer that is freed.                 *)
Answered ==
    \A c \in Conns : \A r \in 1 .. Len(Keeps[c]) :
        (drains /\ sent[c] >= 4 * r - 3)
            ~> \/ Len(ended[c]) >= r \/ web[c] = "cut" \/ shutdownPending
               \/ []WaitsElsewhere(c)
=============================================================================
