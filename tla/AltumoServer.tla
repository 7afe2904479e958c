---------------------------- MODULE AltumoServer ----------------------------
(***************************************************************************)
(* The program the build makes (src/server/main.cc): Altumo::Application    *)
(* runs one boost io_service in one thread; FastCgi::Server accepts          *)
(* connections and FastCgi::Session echoes what it reads and appends it to   *)
(* log.txt.                                                                  *)
(*                                                                          *)
(* A Session lives on the heap and belongs to nobody: the only references    *)
(* to it are in the handler bound to its one pending operation, and handlers *)
(* end it by "delete this".  ops is the set of pending operations; an action *)
(* is the completion of one together with its handler, which runs alone      *)
(* because one thread runs the io_service.  Sockets and logs take file       *)
(* descriptors; when there is none left accept fails and output_log.open     *)
(* fails silently.                                                           *)
(***************************************************************************)
EXTENDS Integers, Sequences, FiniteSets

CONSTANTS
    Clients,     \* the connections
    Sessions,    \* the addresses new may return
    None,        \* no connection
    MaxLength,   \* Session::max_length
    Limits,      \* the descriptors the process may have for sockets and logs
    MaxSent      \* bound: the bytes each client sends

ASSUME SizeAssumption ==
    /\ MaxLength \in Nat \ {0} /\ Limits \subseteq Nat /\ MaxSent \in [Clients -> Nat]
    /\ None \notin Clients
    /\ IsFiniteSet(Clients) /\ IsFiniteSet(Sessions)

VARIABLES
    limit,     \* RLIMIT_NOFILE, less the descriptors that are always taken
    heap,      \* the Sessions that exist
    ops,       \* the pending operations
    peer,      \* socket_: the connection it is open on
    logOpen,   \* output_log could be opened
    data,      \* data_: byte numbers, 0 where nothing has been stored
    client,    \* what the client has done with its end of the connection
    sent,      \* the bytes the client has sent
    taken,     \* how many of them read_some has returned
    echoed,    \* the bytes the client has been sent, in order
    logged     \* how many of its bytes log.txt has

session == <<heap, ops, peer, logOpen>>
vars == <<limit, session, data, client, sent, taken, echoed, logged>>

\* A pending operation; for async_write the bytes of data_ left to write are
\* those from done + 1 to size.
Op(kind, s, done, size) == [kind |-> kind, session |-> s, done |-> done, size |-> size]
Accept(s) == Op("accept", s, 0, 0)
Read(s) == Op("read", s, 0, 0)
Write(s, done, size) == Op("write", s, done, size)
Ops == [kind : {"accept", "read", "write"}, session : Sessions,
        done : 0 .. MaxLength, size : 0 .. MaxLength]

FdsUsed(p, l) == Cardinality({s \in Sessions : p[s] # None}) + Cardinality({s \in Sessions : l[s]})

\* start_accept, at the end of a handler that leaves h, o, p and l: a new
\* Session, whose constructor opens the log.
start_accept(h, o, p, l) ==
    \E s \in Sessions \ h :
        /\ heap' = h \cup {s}
        /\ ops' = o \cup {Accept(s)}
        /\ peer' = p
        /\ logOpen' = [l EXCEPT ![s] = FdsUsed(p, l) < limit]

Init ==
    /\ limit \in Limits
    /\ \E s \in Sessions :
          /\ heap = {s} /\ ops = {Accept(s)}
          /\ logOpen = [t \in Sessions |-> t = s /\ limit > 0]
    /\ peer = [s \in Sessions |-> None]
    /\ data = [s \in Sessions |-> [i \in 1 .. MaxLength |-> 0]]
    /\ client = [c \in Clients |-> "new"]
    /\ sent = [c \in Clients |-> 0]
    /\ taken = [c \in Clients |-> 0]
    /\ echoed = [c \in Clients |-> <<>>]
    /\ logged = [c \in Clients |-> 0]
-----------------------------------------------------------------------------
(* The clients.                                                             *)

Connect(c) ==
    /\ client[c] = "new"
    /\ client' = [client EXCEPT ![c] = "backlog"]
    /\ UNCHANGED <<limit, session, data, sent, taken, echoed, logged>>

Send(c) ==
    /\ client[c] \in {"backlog", "open"} /\ sent[c] < MaxSent[c]
    /\ sent' = [sent EXCEPT ![c] = @ + 1]
    /\ UNCHANGED <<limit, session, data, client, taken, echoed, logged>>

\* The client has sent all it will; it still receives.
Finish(c) ==
    /\ client[c] = "open"
    /\ client' = [client EXCEPT ![c] = "finished"]
    /\ UNCHANGED <<limit, session, data, sent, taken, echoed, logged>>

\* It closes, or the connection is lost, perhaps before it is accepted.
Leave(c) ==
    /\ client[c] \in {"backlog", "open", "finished"}
    /\ client' = [client EXCEPT ![c] = IF client[c] = "backlog" THEN "aborted" ELSE "gone"]
    /\ UNCHANGED <<limit, session, data, sent, taken, echoed, logged>>
-----------------------------------------------------------------------------
(* Server::handle_accept.                                                   *)

HandleAccepted_OnlyOne(s) ==
    /\ Accept(s) \in ops
    /\ FdsUsed(peer, logOpen) < limit
    /\ \E c \in Clients :
          /\ client[c] = "backlog"
          /\ client' = [client EXCEPT ![c] = "open"]
          /\ ops' = (ops \ {Accept(s)}) \cup {Read(s)}
          /\ peer' = [peer EXCEPT ![s] = c]
    /\ UNCHANGED <<limit, heap, logOpen, data, sent, taken, echoed, logged>>

HandleAccepted(s) ==
    /\ Accept(s) \in ops
    /\ FdsUsed(peer, logOpen) < limit
    /\ \E c \in Clients :
          /\ client[c] = "backlog"
          /\ client' = [client EXCEPT ![c] = "open"]
          /\ start_accept(heap, (ops \ {Accept(s)}) \cup {Read(s)}, [peer EXCEPT ![s] = c], logOpen)
    /\ UNCHANGED <<limit, data, sent, taken, echoed, logged>>

\* The connection was lost while it waited, or there is no descriptor for it.
AcceptFails ==
    \/ \E c \in Clients : client[c] = "aborted" /\ client' = [client EXCEPT ![c] = "gone"]
    \/ /\ FdsUsed(peer, logOpen) >= limit
       /\ \E c \in Clients : client[c] = "backlog"
       /\ UNCHANGED client

HandleAcceptError_Keeps(s) ==
    /\ Accept(s) \in ops /\ AcceptFails
    /\ start_accept(heap, ops \ {Accept(s)}, peer, logOpen)
    /\ UNCHANGED <<limit, data, sent, taken, echoed, logged>>

HandleAcceptError(s) ==
    /\ Accept(s) \in ops /\ AcceptFails
    /\ start_accept(heap \ {s}, ops \ {Accept(s)}, peer, [logOpen EXCEPT ![s] = FALSE])
    /\ UNCHANGED <<limit, data, sent, taken, echoed, logged>>
-----------------------------------------------------------------------------
(* Session::handle_read.                                                    *)

\* read_some stores the next bytes at the front of data_, over what is there.
Stored(s, n) ==
    [i \in 1 .. MaxLength |-> IF i <= n THEN taken[peer[s]] + i ELSE data[s][i]]

ReadCompletes_SharedBuffer(s, n) ==
    LET c == peer[s]
    IN  /\ Read(s) \in ops
        /\ n <= sent[c] - taken[c]
        /\ data' = [t \in Sessions |-> Stored(s, n)]
        /\ taken' = [taken EXCEPT ![c] = @ + n]
        /\ logged' = [logged EXCEPT ![c] = IF logOpen[s] THEN @ + n ELSE @]

\* n bytes arrive: log them.
ReadCompletes(s, n) ==
    LET c == peer[s]
    IN  /\ Read(s) \in ops
        /\ n <= sent[c] - taken[c]
        /\ data' = [data EXCEPT ![s] = Stored(s, n)]
        /\ taken' = [taken EXCEPT ![c] = @ + n]
        /\ logged' = [logged EXCEPT ![c] = IF logOpen[s] THEN @ + n ELSE @]

HandleRead(s) ==
    \E n \in 1 .. MaxLength :
        /\ ReadCompletes(s, n)
        /\ ops' = (ops \ {Read(s)}) \cup {Write(s, 0, n)}
        /\ UNCHANGED <<limit, heap, peer, logOpen, client, sent, echoed>>

\* delete this: the socket and the log are closed.
DeleteThis(s) ==
    /\ heap' = heap \ {s}
    /\ peer' = [peer EXCEPT ![s] = None]
    /\ logOpen' = [logOpen EXCEPT ![s] = FALSE]
    /\ client' = [client EXCEPT ![peer[s]] = "gone"]
    /\ UNCHANGED <<limit, data, sent, taken, echoed, logged>>

\* End of file, or the connection is lost.
HandleReadError_NotDeleted(s) ==
    /\ Read(s) \in ops
    /\ \/ client[peer[s]] = "gone"
       \/ client[peer[s]] = "finished" /\ taken[peer[s]] = sent[peer[s]]
    /\ ops' = ops \ {Read(s)}
    /\ UNCHANGED <<limit, heap, peer, logOpen, data, client, sent, taken, echoed, logged>>

HandleReadError(s) ==
    /\ Read(s) \in ops
    /\ \/ client[peer[s]] = "gone"
       \/ client[peer[s]] = "finished" /\ taken[peer[s]] = sent[peer[s]]
    /\ ops' = ops \ {Read(s)}
    /\ DeleteThis(s)
-----------------------------------------------------------------------------
(* async_write and Session::handle_write.                                   *)

\* n more bytes of the operation o are written; a client that has gone does
\* not get them.
Written(o, n) ==
    LET c == peer[o.session]
    IN  echoed' = [echoed EXCEPT ![c] =
                     IF client[c] = "gone" THEN @
                     ELSE @ \o [i \in 1 .. n |-> data[o.session][o.done + i]]]

\* Some of the bytes, and the operation goes on.
WriteSome(o) ==
    /\ o \in ops /\ o.kind = "write"
    /\ \E n \in 1 .. o.size - o.done - 1 :
          /\ Written(o, n)
          /\ ops' = (ops \ {o}) \cup {Write(o.session, o.done + n, o.size)}
    /\ UNCHANGED <<limit, heap, peer, logOpen, data, client, sent, taken, logged>>

HandleWrite(o) ==
    /\ o \in ops /\ o.kind = "write"
    /\ Written(o, o.size - o.done)
    /\ ops' = (ops \ {o}) \cup {Read(o.session)}
    /\ UNCHANGED <<limit, heap, peer, logOpen, data, client, sent, taken, logged>>

HandleWriteError(o) ==
    /\ o \in ops /\ o.kind = "write"
    /\ client[peer[o.session]] = "gone"
    /\ ops' = ops \ {o}
    /\ DeleteThis(o.session)
-----------------------------------------------------------------------------
ServerStep ==
    \/ \E s \in Sessions : \/ HandleAccepted(s) \/ HandleAcceptError(s)
                           \/ HandleRead(s) \/ HandleReadError(s)
    \/ \E o \in ops : WriteSome(o) \/ HandleWrite(o) \/ HandleWriteError(o)

Next == ServerStep \/ \E c \in Clients : Connect(c) \/ Send(c) \/ Finish(c) \/ Leave(c)

\* io_service::run dispatches every handler whose operation completes, and
\* no client stays for ever.
Fairness ==
    /\ WF_vars(\E s \in Sessions : HandleAccepted(s))
    /\ \A s \in Sessions :
          /\ WF_vars(HandleRead(s)) /\ WF_vars(HandleReadError(s))
          /\ WF_vars(\E o \in ops : o.session = s /\ HandleWrite(o))
          /\ WF_vars(\E o \in ops : o.session = s /\ HandleWriteError(o))
    /\ \A c \in Clients : WF_vars(Finish(c))

Spec == Init /\ [][Next]_vars /\ Fairness
-----------------------------------------------------------------------------
TypeOK ==
    /\ limit \in Limits
    /\ heap \subseteq Sessions /\ ops \subseteq Ops
    /\ peer \in [Sessions -> Clients \cup {None}]
    /\ logOpen \in [Sessions -> BOOLEAN]
    /\ data \in [Sessions -> [1 .. MaxLength -> Nat]]
    /\ client \in [Clients -> {"new", "backlog", "aborted", "open", "finished", "gone"}]
    /\ sent \in [Clients -> Nat] /\ taken \in [Clients -> Nat] /\ logged \in [Clients -> Nat]
    /\ \A c \in Clients : taken[c] <= sent[c] /\ sent[c] <= MaxSent[c] /\ logged[c] \in 0 .. taken[c]
    /\ echoed \in [Clients -> Seq(Nat)]

(* Every Session that exists has exactly one pending operation and every    *)
(* pending operation is of a Session that exists: no handler runs on a      *)
(* deleted Session, and none is forgotten.  ("delete this" in handle_read   *)
(* and handle_write, "delete new_session" in handle_accept.)                *)
OneOperation ==
    /\ \A o \in ops : o.session \in heap
    /\ \A s \in heap : \E o \in ops : o.session = s
    /\ \A o1, o2 \in ops : o1.session = o2.session => o1 = o2

(* The server listens: one accept is pending, on a Session with no          *)
(* connection, and every other Session has one of its own.                  *)
Listening ==
    /\ \E s \in heap : /\ Accept(s) \in ops /\ peer[s] = None
                       /\ \A t \in heap \ {s} : peer[t] # None /\ Accept(t) \notin ops
    /\ \A s, t \in heap : peer[s] = peer[t] /\ peer[s] # None => s = t

(* A descriptor that is in use belongs to a Session that exists: closed     *)
(* connections and failed accepts leak none.  (~Session, socket_.)          *)
NoLeak == \A s \in Sessions \ heap : peer[s] = None /\ ~logOpen[s]

(* The life of the Sessions: with "delete this" for their only owner, every *)
(* handler leaves each with one operation, one of them at accept, and no    *)
(* descriptor behind.                                                       *)
SessionInv == TypeOK /\ OneOperation /\ Listening /\ NoLeak

EchoIsInput == \A c \in Clients : \A i \in DOMAIN echoed[c] : echoed[c][i] = i

LoggedFirst ==
    \A s \in heap :
        peer[s] # None /\ logOpen[s] =>
            /\ logged[peer[s]] = taken[peer[s]]
            /\ Len(echoed[peer[s]]) <= logged[peer[s]]

(* What a client receives is what it sent, in order, although data_ serves  *)
(* every read and every write of the session; and what has been echoed is   *)
(* in the log already, where the log could be opened.                       *)
EchoInOrder == EchoIsInput /\ LoggedFirst

(* A connection that waits is accepted, unless it goes, although accept may *)
(* find every descriptor taken and is then repeated at once.                *)
ServedAtLast == \A c \in Clients : client[c] = "backlog" ~> client[c] # "backlog"

(* Every byte that is sent comes back, unless the client goes first.        *)
EchoedAtLast ==
    \A c \in Clients : \A n \in 1 .. MaxSent[c] :
        (sent[c] >= n /\ client[c] = "open") ~> (Len(echoed[c]) >= n \/ client[c] = "gone")

(* The server serves its clients: each is accepted and echoed.              *)
Serves == ServedAtLast /\ EchoedAtLast

(* Once a client has gone its Session is deleted.                           *)
Reclaimed ==
    \A c \in Clients : client[c] = "gone" ~> \A s \in Sessions : peer[s] # c
=============================================================================
