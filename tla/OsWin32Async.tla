---------------------------- MODULE OsWin32Async -----------------------------
(***************************************************************************)
(* Asynchronous I/O of libfcgi/os_win32.c: operations that Windows         *)
(* completes, or StdinThread, or that failed at once, come back through    *)
(* one completion port, which OS_DoIo works off, calling back.             *)
(***************************************************************************)
EXTENDS OsWin32Table, Sequences, FiniteSets, SequencesExt

CONSTANTS
    Pipes, Sockets, \* the numbers of the handles the system gives
    MaxOps,         \* bound: how many OVERLAPPED_REQUESTs there are at a time
    NoOp,           \* no operation
    Settings,       \* the pairs <<input, handles>> to consider: what standard input is, "none"
                    \* (OS_LibInit(NULL)), "file" or "pipe", and which handles there are
    MaxSent         \* bound: how often the peers send, together

ASSUME OpsAssumption ==
    /\ Pipes \subseteq Nat \ {0} /\ Sockets \subseteq Nat \ {0} /\ Pipes \cap Sockets = {}
    /\ IsFiniteSet(Pipes) /\ IsFiniteSet(Sockets)
    /\ MaxOps \in Nat /\ NoOp \notin 1 .. MaxOps /\ MaxSent \in Nat
    /\ Settings \subseteq {"none", "file", "pipe"} \X SUBSET (Pipes \cup Sockets)
    /\ (\A setting \in Settings : setting[1] = "none") \/ OpenMax > 2

Ops == 1 .. MaxOps
STDIN_FILENO == 0
Stdio == {0, 1, 2}
Handles == Pipes \cup Sockets
Sources == {STDIN_FILENO} \cup Handles      \* what is read from; no handle is 0

VARIABLES        \* beside fdTable
    input,       \* what standard input is
    link,        \* of each source: "new", "unconnected", "open", "gone" (the peer), "closed" (here)
    shut,        \* the sockets OS_CloseRead was called for
    sent, taken, \* of each source: what has been sent, and taken in by a read
    received,    \* of each source: what callbacks of reads have been given
    op,          \* of each operation: its descriptor, source, direction and instance
    outstanding, \* the operations that are allocated
    pending,     \* those Windows has, in the order they were started
    hIoCompPort, \* the completions: an operation and its bytes
    hStdinCompPort, stdinThread, \* and what StdinThread is doing: "absent", "waits", "reads", "ended"
    reading,     \* the operation StdinThread has
    abandoned,        \* those it had when it ended
    current      \* the operation OS_DoIo is calling back for; None in the application's own code

streams == <<link, shut, sent>>
thread == <<hStdinCompPort, stdinThread, reading, abandoned>>
asyncVars == <<input, fdTable, streams, taken, received, op, outstanding, pending, hIoCompPort,
          thread, current>>

(* OS_LibInit has run: with stdioFds it enters the three of them, and      *)
(* starts the thread when CONTENT_LENGTH is positive.                      *)
AsyncInit ==
    /\ \E setting \in Settings :
          /\ input = setting[1]
          /\ link = [s \in Sources |-> IF s = STDIN_FILENO THEN IF input = "none" THEN "closed" ELSE "open"
                                       ELSE IF s \in setting[2] THEN "new" ELSE "closed"]
    /\ fdTable = IF input = "none" THEN EmptyTable
                 ELSE [fd \in Fds |-> IF fd \in Stdio THEN [EmptyTable[fd] EXCEPT !.type = "pipe_sync"]
                                      ELSE EmptyTable[fd]]
    /\ shut = {}
    /\ sent = [s \in Sources |-> 0] /\ taken = [s \in Sources |-> 0]
    /\ received = [s \in Sources |-> <<>>]
    /\ op = [o \in Ops |-> NoOp]
    /\ outstanding = {} /\ pending = <<>> /\ hIoCompPort = <<>> /\ hStdinCompPort = <<>>
    /\ stdinThread \in (IF input = "none" THEN {"absent"} ELSE {"absent", "waits"})
    /\ reading = NoOp /\ abandoned = {}
    /\ current = NoOp
------------------------------------------------------------------------------
(* Peers, and the writer of standard input.                                *)

\* What has been sent: the first, the second, ... of each source.
AllSent == {data \in Sources \X (1 .. MaxSent) : data[2] <= sent[data[1]]}

Send(s) ==
    /\ link[s] = "open" /\ Cardinality(AllSent) < MaxSent
    /\ sent' = [sent EXCEPT ![s] = @ + 1]
    /\ UNCHANGED <<input, fdTable, link, shut, taken, received, op, outstanding, pending, hIoCompPort,
                   thread, current>>

PeerCloses(s) ==
    /\ link[s] = "open"
    /\ link' = [link EXCEPT ![s] = "gone"]
    /\ UNCHANGED <<input, fdTable, shut, sent, taken, received, op, outstanding, pending, hIoCompPort,
                   thread, current>>
------------------------------------------------------------------------------
(* The application, in its own code and in callbacks.                      *)

(* OS_FcgiConnect to a pipe, associated with the port at once.             *)
FcgiConnectPipe(handle) ==
    /\ link[handle] = "new"
    /\ LET fd == Win32NewDescriptor(fdTable, handle, -1) IN
       \/ /\ fd # -1
          /\ fdTable' = Enter(fdTable, fd, "pipe_async", handle)
          /\ link' = [link EXCEPT ![handle] = "open"]
       \/ link' = [link EXCEPT ![handle] = "closed"] /\ UNCHANGED fdTable
    /\ UNCHANGED <<input, shut, sent, taken, received, op, outstanding, pending, hIoCompPort, thread, current>>

(* A socket: OS_FcgiConnect closes it when connect succeeds and enters it  *)
(* when connect fails; OS_Accept enters one that is connected.             *)
NewSocket(handle) ==
    /\ link[handle] = "new"
    /\ LET fd == Win32NewDescriptor(fdTable, handle, -1) IN
       \/ /\ fd # -1
          /\ fdTable' = Enter(fdTable, fd, "socket_sync", handle)
          /\ \E how \in {"unconnected", "open"} : link' = [link EXCEPT ![handle] = how]
       \/ link' = [link EXCEPT ![handle] = "closed"] /\ UNCHANGED fdTable
    /\ UNCHANGED <<input, shut, sent, taken, received, op, outstanding, pending, hIoCompPort, thread, current>>

(* OS_SetFlags with O_NONBLOCK: a socket is associated with the port.      *)
SetFlags(fd) ==
    /\ fdTable[fd].type = "socket_sync"
    /\ fdTable' = [fdTable EXCEPT ![fd].type = "socket_async"]
    /\ UNCHANGED <<input, streams, taken, received, op, outstanding, pending, hIoCompPort, thread, current>>

Allocated(o, fd, source, direction) ==
    /\ o \notin outstanding /\ \A other \in Ops \ outstanding : o <= other
    /\ outstanding' = outstanding \cup {o}
    /\ op' = [op EXCEPT ![o] = [fd |-> fd, source |-> source, direction |-> direction,
                                instance |-> fdTable[fd].instance]]

(* OS_AsyncReadStdin: a message to the thread, whether there is one or not.*)
AsyncReadStdin(o) ==
    /\ fdTable[STDIN_FILENO].type # "unused"
    /\ Allocated(o, STDIN_FILENO, STDIN_FILENO, "read")
    /\ hStdinCompPort' = Append(hStdinCompPort, o)
    /\ UNCHANGED <<input, fdTable, streams, taken, received, pending, hIoCompPort, stdinThread, reading,
                   abandoned, current>>

Gone(s) == link[s] \in {"unconnected", "gone", "closed"}

(* ReadFile and WriteFile may fail at once on what is not connected.       *)
Refused(handle, direction) == Gone(handle) \/ (direction = "read" /\ handle \in shut)

(* Fault: the completion of what succeeded at once is posted as well.      *)
Async_Twice(o, fd, direction) ==
    /\ fdTable[fd].type \in AsyncTypes
    /\ LET handle == fdTable[fd].fid IN
       /\ Allocated(o, fd, handle, direction)
       /\ \/ pending' = Append(pending, o) /\ UNCHANGED hIoCompPort
          \/ /\ pending' = Append(pending, o)
             /\ hIoCompPort' = Append(hIoCompPort, [op |-> o, bytes |-> 0])
    /\ UNCHANGED <<input, fdTable, streams, taken, received, thread, current>>

(* OS_AsyncRead and OS_AsyncWrite: what failed at once is posted as a      *)
(* completion of no bytes; all else, success too, is left to Windows.      *)
Async(o, fd, direction) ==
    /\ fdTable[fd].type \in AsyncTypes
    /\ LET handle == fdTable[fd].fid IN
       /\ Allocated(o, fd, handle, direction)
       /\ \/ /\ link[handle] # "unconnected"
             /\ pending' = Append(pending, o)
             /\ UNCHANGED hIoCompPort
          \/ /\ Refused(handle, direction)
             /\ hIoCompPort' = Append(hIoCompPort, [op |-> o, bytes |-> 0])
             /\ UNCHANGED pending
    /\ UNCHANGED <<input, fdTable, streams, taken, received, thread, current>>

(* OS_Close: nothing is done about a pipe but its descriptor given up; a   *)
(* socket is shut down, read until the peer is silent, and closed.         *)
OS_Close(fd) ==
    /\ fdTable[fd].type # "unused"
    /\ fdTable' = Win32FreeDescriptor(fdTable, fd)
    /\ link' = IF fdTable[fd].fid \in Sockets THEN [link EXCEPT ![fdTable[fd].fid] = "closed"] ELSE link
    /\ UNCHANGED <<input, shut, sent, taken, received, op, outstanding, pending, hIoCompPort, thread, current>>

OS_CloseRead(fd) ==
    /\ fdTable[fd].type \in {"socket_sync", "socket_async"}
    /\ shut' = shut \cup {fdTable[fd].fid}
    /\ UNCHANGED <<input, fdTable, link, sent, taken, received, op, outstanding, pending, hIoCompPort,
                   thread, current>>
------------------------------------------------------------------------------
(* Windows: the operations of one handle and direction complete in order.  *)
(* A completion's bytes are the number of the data that was read; how much *)
(* a write has written is left out.                                        *)

Unread(s) == taken[s] < sent[s]

Complete(o) ==
    /\ \E i \in DOMAIN pending :
          /\ pending[i] = o
          /\ \A j \in 1 .. i - 1 : \/ op[pending[j]].source # op[o].source
                                   \/ op[pending[j]].direction # op[o].direction
          /\ pending' = RemoveAt(pending, i)
    /\ LET s == op[o].source IN
       \/ /\ op[o].direction = "read" /\ Unread(s) /\ link[s] # "closed" /\ s \notin shut
          /\ taken' = [taken EXCEPT ![s] = @ + 1]
          /\ hIoCompPort' = Append(hIoCompPort, [op |-> o, bytes |-> taken[s] + 1])
       \/ /\ op[o].direction = "read"
          /\ link[s] = "closed" \/ s \in shut \/ (link[s] = "gone" /\ ~Unread(s))
          /\ hIoCompPort' = Append(hIoCompPort, [op |-> o, bytes |-> 0])
          /\ UNCHANGED taken
       \/ /\ op[o].direction = "write"
          /\ hIoCompPort' = Append(hIoCompPort, [op |-> o, bytes |-> 0])
          /\ UNCHANGED taken
    /\ UNCHANGED <<input, fdTable, streams, received, op, outstanding, thread, current>>
------------------------------------------------------------------------------
(* StdinThread takes a request, reads, posts the result.                   *)

StdinTake ==
    /\ stdinThread = "waits" /\ hStdinCompPort # <<>>
    /\ reading' = Head(hStdinCompPort) /\ hStdinCompPort' = Tail(hStdinCompPort)
    /\ stdinThread' = "reads"
    /\ UNCHANGED <<input, fdTable, streams, taken, received, op, outstanding, pending, hIoCompPort,
                   abandoned, current>>

(* ReadFile returns data, nothing at the end of a file, or fails at the    *)
(* end of a pipe: then the thread ends, and the request is not answered.   *)
StdinRead ==
    LET s == STDIN_FILENO IN
    /\ stdinThread = "reads"
    /\ \/ /\ Unread(s) \/ (link[s] = "gone" /\ input = "file")
          /\ hIoCompPort' = Append(hIoCompPort, [op |-> reading, bytes |-> IF Unread(s) THEN taken[s] + 1 ELSE 0])
          /\ taken' = [taken EXCEPT ![s] = IF Unread(s) THEN @ + 1 ELSE @]
          /\ stdinThread' = "waits"
          /\ UNCHANGED abandoned
       \/ /\ ~Unread(s) /\ link[s] = "gone" /\ input = "pipe"
          /\ stdinThread' = "ended"
          /\ abandoned' = abandoned \cup {reading}
          /\ UNCHANGED <<hIoCompPort, taken>>
    /\ reading' = NoOp
    /\ UNCHANGED <<input, fdTable, streams, received, op, outstanding, pending, hStdinCompPort, current>>
------------------------------------------------------------------------------
(* OS_DoIo, called again and again: it waits for a completion, calls back, *)
(* and goes on or returns as time allows, which is the same to all others. *)

(* Fault: a completion of no bytes has nothing to call back for.           *)
Deliver_DropsFailed(completion) ==
    LET o == completion.op IN
    IF completion.bytes > 0
    THEN /\ current' = o
         /\ received' = IF op[o].direction = "read"
                        THEN [received EXCEPT ![op[o].source] = Append(@, completion.bytes)]
                        ELSE received
         /\ UNCHANGED outstanding
    ELSE /\ outstanding' = outstanding \ {o}
         /\ UNCHANGED <<current, received>>

Deliver(completion) ==
    LET o == completion.op IN
    IF op[o].instance = fdTable[op[o].fd].instance
    THEN /\ current' = o
         /\ received' = IF op[o].direction = "read" /\ completion.bytes > 0
                        THEN [received EXCEPT ![op[o].source] = Append(@, completion.bytes)]
                        ELSE received
         /\ UNCHANGED outstanding
    ELSE /\ outstanding' = outstanding \ {o}
         /\ UNCHANGED <<current, received>>

(* Fault: the completion that came last is taken first.                    *)
Dequeue_Last ==
    /\ current = NoOp /\ hIoCompPort # <<>>
    /\ hIoCompPort' = Front(hIoCompPort)
    /\ Deliver(Last(hIoCompPort))
    /\ UNCHANGED <<input, fdTable, streams, taken, op, pending, thread>>

(* A completion is taken from the port, and its callback called if the     *)
(* instances agree.                                                        *)
Dequeue ==
    /\ current = NoOp /\ hIoCompPort # <<>>
    /\ hIoCompPort' = Tail(hIoCompPort)
    /\ Deliver(Head(hIoCompPort))
    /\ UNCHANGED <<input, fdTable, streams, taken, op, pending, thread>>

(* The request is freed.                                                   *)
CallbackReturns ==
    /\ current # NoOp
    /\ outstanding' = outstanding \ {current}
    /\ op' = [op EXCEPT ![current] = NoOp]
    /\ current' = NoOp
    /\ UNCHANGED <<input, fdTable, streams, taken, received, pending, hIoCompPort, thread>>
------------------------------------------------------------------------------
AsyncNext ==
    \/ Dequeue \/ CallbackReturns \/ StdinTake \/ StdinRead
    \/ \E s \in Sources : Send(s) \/ PeerCloses(s)
    \/ \E h \in Pipes : FcgiConnectPipe(h)
    \/ \E h \in Sockets : NewSocket(h)
    \/ \E fd \in Fds : SetFlags(fd) \/ OS_Close(fd) \/ OS_CloseRead(fd)
    \/ \E o \in Ops : \/ Complete(o) \/ AsyncReadStdin(o)
                      \/ \E fd \in Fds, d \in {"read", "write"} : Async(o, fd, d)

(* The application calls OS_DoIo again and again, its callbacks return,    *)
(* the thread runs, and Windows completes what it can.                     *)
AsyncFairness ==
    /\ WF_asyncVars(Dequeue) /\ WF_asyncVars(CallbackReturns) /\ WF_asyncVars(StdinTake) /\ WF_asyncVars(StdinRead)
    /\ \A o \in Ops : WF_asyncVars(Complete(o))

AsyncSpec == AsyncInit /\ [][AsyncNext]_asyncVars /\ AsyncFairness
------------------------------------------------------------------------------
(***************************************************************************)
(* Properties.                                                             *)
(***************************************************************************)

AsyncTypeOK ==
    /\ input \in {"none", "file", "pipe"}
    /\ fdTable \in [Fds -> [type : Types, fid : Nat, instance : Nat]]
    /\ link \in [Sources -> {"new", "unconnected", "open", "gone", "closed"}]
    /\ shut \subseteq Sockets
    /\ sent \in [Sources -> 0 .. MaxSent] /\ taken \in [Sources -> 0 .. MaxSent]
    /\ outstanding \subseteq Ops /\ abandoned \subseteq Ops
    /\ stdinThread \in {"absent", "waits", "reads", "ended"} /\ reading \in Ops \cup {NoOp}
    /\ current \in Ops \cup {NoOp}

Occurrences(seq, o) == Cardinality({i \in DOMAIN seq : seq[i] = o})

(* A request that is allocated is in exactly one place, one that is freed  *)
(* is in none: neither read nor freed twice, though a failure is posted by *)
(* the code and all else by Windows or the thread.                         *)
EachOnce ==
    \A o \in Ops :
        Occurrences(pending, o) + Occurrences(hStdinCompPort, o)
          + Cardinality({i \in DOMAIN hIoCompPort : hIoCompPort[i].op = o})
          + Cardinality({i \in {1} : reading = o}) + Cardinality({i \in {1} : current = o})
          + Cardinality({o} \cap abandoned)
        = Cardinality({o} \cap outstanding)

OpsInv == AsyncTypeOK /\ EachOnce

(* What the callbacks are given of a source is what was sent, in order and *)
(* without a gap, whatever has become of the descriptor meanwhile: closed, *)
(* or that of another source.                                              *)
InOrder ==
    \A s \in Sources :
        /\ received[s] = [i \in 1 .. Len(received[s]) |-> i]
        /\ taken[s] = Len(received[s]) +
               Cardinality({i \in DOMAIN hIoCompPort :
                                LET o == hIoCompPort[i].op
                                IN op[o].source = s /\ op[o].direction = "read" /\ hIoCompPort[i].bytes > 0})

(* Operations whose end is certain: those of StdinThread only as long as   *)
(* it runs and standard input is not a pipe.                               *)
Certain(o) ==
    \/ \E i \in DOMAIN hIoCompPort : hIoCompPort[i].op = o
    \/ Occurrences(pending, o) > 0 /\ Gone(op[o].source)
    \/ /\ Occurrences(hStdinCompPort, o) > 0 \/ reading = o
       /\ stdinThread # "absent" /\ input = "file" /\ link[STDIN_FILENO] = "gone"

(* Its descriptor is closed, or that of another source by now.             *)
Closed(o) ==
    /\ op[o] # NoOp
    /\ LET entry == fdTable[op[o].fd]
       IN  entry.type = "unused" \/ entry.fid # op[o].source

(* "call callback if descriptor still valid" (OS_DoIo): an operation whose *)
(* end is certain is answered by its callback, whatever way it ended, as   *)
(* long as its descriptor is not closed.  What becomes of the others is    *)
(* left out: the comment on instance, "won't match after a close", has     *)
(* them freed without a callback, but no assignment changes it, and the    *)
(* code calls back for them too.                                           *)
EachAnswered == \A o \in Ops : Certain(o) ~> (current = o \/ Closed(o))
==============================================================================
