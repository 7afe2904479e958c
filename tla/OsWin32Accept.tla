---------------------------- MODULE OsWin32Accept ----------------------------
(***************************************************************************)
(* OS_Accept and OS_IpcClose of libfcgi/os_win32.c, from OS_LibInit to the *)
(* end of the process: processes that listen on a named pipe each, or on   *)
(* one socket together, take connections, and stop when the web server     *)
(* signals its event.  What OS_LibInit, OS_CreateLocalIpcFd and the        *)
(* environment make of the globals listenType and acceptMutex decides      *)
(* which way a process goes.                                               *)
(***************************************************************************)
EXTENDS OsWin32Table, Sequences, FiniteSets, SequencesExt

CONSTANTS
    Procs,          \* the processes
    Conns,          \* the connections of the web server
    None,           \* no connection, no process
    HandleOf,       \* the number of each connection's socket and of each process's hListen
    AppHandle,      \* the number of the handles the application opens for itself
    AddressOf,      \* the address each connection comes from
    Within,         \* the pairs of addresses of which the first's text is part of the second's
    AddressLists,   \* the values of FCGI_WEB_SERVER_ADDRS, as sequences; <<>> when not set
    Origins,        \* where the listener may come from: "inherited", "created"
    Kinds,          \* what it may be: "pipe", "socket"
    MaxOwn,         \* bound: how many descriptors the applications have for themselves, together
    MaxCrashes      \* bound: how many processes die

ASSUME HandleAssumption ==
    /\ None \notin Procs \cup Conns /\ Procs \cap Conns = {} /\ IsFiniteSet(Procs)
    /\ Origins \subseteq {"inherited", "created"} /\ Kinds \subseteq {"pipe", "socket"}
    /\ HandleOf \in [Procs \cup Conns -> Nat \ {0}]
    /\ \A a, b \in Procs \cup Conns : HandleOf[a] = HandleOf[b] => a = b
    /\ AppHandle \in Nat \ {0} /\ \A a \in Procs \cup Conns : HandleOf[a] # AppHandle
    /\ MaxOwn \in Nat /\ MaxCrashes \in Nat

VARIABLES       \* beside fdTable, of each process
    origin, kind,    \* of the listener
    environment,     \* which of "mutex" and "event" are in the environment
    webServerAddrs,  \* FCGI_WEB_SERVER_ADDRS
    pc,              \* of each process: where it is
    listenType,      \* of each process
    acceptMutex,     \* of each process: "none", "shared" (from the environment) or "own"
    owner,           \* the process that has the shared mutex
    sock, ipcFd,     \* of each process: the connection accepted, the descriptor returned
    pipe, client,    \* the state of each process's pipe, and who is at its other end
    event,           \* the shutdown event has been signalled
    shutdownPending, \* of each process
    state,           \* of each connection: "new", "waiting", "open", "closed"
    lost,            \* how often OS_IpcClose has failed in each process
    finished,        \* the connections OS_IpcClose has been called for
    crashes          \* how many processes have died

settings == <<origin, kind, environment, webServerAddrs>>
process == <<listenType, acceptMutex, fdTable, sock, ipcFd>>
vars == <<settings, pc, process, owner, pipe, client, event, shutdownPending, state, lost,
          finished, crashes>>

Init ==
    /\ origin \in Origins /\ kind \in Kinds
    /\ environment \in SUBSET {"mutex", "event"}
    /\ webServerAddrs \in (IF kind = "socket" THEN AddressLists ELSE {<<>>})
    /\ \E started \in SUBSET Procs : pc = [p \in Procs |-> IF p \in started THEN "start" ELSE "exit"]
    /\ listenType = [p \in Procs |-> "unused"]
    /\ acceptMutex = [p \in Procs |-> "none"]
    /\ owner = None
    /\ fdTable = [p \in Procs |-> EmptyTable]
    /\ sock = [p \in Procs |-> None] /\ ipcFd = [p \in Procs |-> -1]
    /\ pipe = [p \in Procs |-> "none"] /\ client = [p \in Procs |-> None]
    /\ event = FALSE /\ shutdownPending = [p \in Procs |-> FALSE]
    /\ state = [c \in Conns |-> "new"]
    /\ lost = [p \in Procs |-> 0] /\ finished = {} /\ crashes = 0

Goto(p, label) == pc' = [pc EXCEPT ![p] = label]

(* The connections a process holds; the system closes them as it ends, and *)
(* abandons its mutex, which the next waiter is then given.                *)
Held(p) == {sock[p], client[p]} \ {None}

Ends(p) ==
    /\ Goto(p, "exit")
    /\ owner' = IF owner = p THEN None ELSE owner
    /\ fdTable' = [fdTable EXCEPT ![p] = EmptyTable]
    /\ pipe' = [pipe EXCEPT ![p] = "none"]
    /\ client' = [client EXCEPT ![p] = None]
    /\ sock' = [sock EXCEPT ![p] = None]
    /\ ipcFd' = [ipcFd EXCEPT ![p] = -1]
    /\ state' = [c \in Conns |->
                    IF c \in Held(p) \/ (origin = "created" /\ fdTable[p] # EmptyTable /\ state[c] = "waiting")
                    THEN "closed" ELSE state[c]]
------------------------------------------------------------------------------
(* The web server.                                                         *)

Connect(c) ==
    /\ kind = "socket" /\ state[c] = "new"
    /\ state' = [state EXCEPT ![c] = "waiting"]
    /\ UNCHANGED <<settings, pc, process, owner, pipe, client, event, shutdownPending, lost, finished, crashes>>

(* A pipe takes a client when it listens: from its creation, and from a    *)
(* call of ConnectNamedPipe to the next client.                            *)
ConnectPipe(c, p) ==
    /\ pipe[p] = "listening" /\ state[c] = "new"
    /\ state' = [state EXCEPT ![c] = "open"]
    /\ pipe' = [pipe EXCEPT ![p] = "connected"]
    /\ client' = [client EXCEPT ![p] = c]
    /\ UNCHANGED <<settings, pc, process, owner, event, shutdownPending, lost, finished, crashes>>

ClosePipe(c, p) ==
    /\ pipe[p] = "connected" /\ client[p] = c
    /\ state' = [state EXCEPT ![c] = "closed"]
    /\ pipe' = [pipe EXCEPT ![p] = "closing"]
    /\ UNCHANGED <<settings, pc, process, owner, client, event, shutdownPending, lost, finished, crashes>>

SignalEvent ==
    /\ "event" \in environment /\ ~event
    /\ event' = TRUE
    /\ UNCHANGED <<settings, pc, process, owner, pipe, client, shutdownPending, state, lost, finished, crashes>>
------------------------------------------------------------------------------
(* A process starts.                                                       *)

(* OS_LibInit, called by FCGX_Init: a handle at standard input that can be *)
(* put into wait mode is a pipe.  It may fail as it moves the handle.      *)
LibInit(p) ==
    /\ pc[p] = "start"
    /\ acceptMutex' = [acceptMutex EXCEPT ![p] = IF "mutex" \in environment THEN "shared" ELSE "none"]
    /\ \/ /\ origin = "inherited"
          /\ listenType' = [listenType EXCEPT ![p] = IF kind = "pipe" THEN "pipe_sync" ELSE "socket_sync"]
          /\ pipe' = [pipe EXCEPT ![p] = IF kind = "pipe" THEN "listening" ELSE "none"]
          /\ Goto(p, "app")
       \/ /\ origin = "inherited"
          /\ Goto(p, "exit")
          /\ UNCHANGED <<listenType, pipe>>
       \/ /\ origin = "created"
          /\ Goto(p, "create")
          /\ UNCHANGED <<listenType, pipe>>
    /\ UNCHANGED <<settings, fdTable, sock, ipcFd, owner, client, event, shutdownPending, state, lost, finished, crashes>>

(* OS_CreateLocalIpcFd, called by FCGX_OpenSocket: a listener of its own,  *)
(* and a mutex that no other process knows.  A second bind to the port     *)
(* fails.  listenType is set before anything that may fail.                *)
CreateLocalIpcFd(p) ==
    /\ pc[p] = "create"
    /\ acceptMutex' = [acceptMutex EXCEPT ![p] = IF @ = "none" THEN "own" ELSE @]
    /\ listenType' = [listenType EXCEPT ![p] = IF kind = "socket" THEN "socket_sync" ELSE "pipe_async"]
    /\ LET fd == Win32NewDescriptor(fdTable[p], HandleOf[p], -1) IN
       \/ /\ fd # -1
          /\ kind = "pipe" \/ \A q \in Procs : fdTable[q] = EmptyTable
          /\ fdTable' = [fdTable EXCEPT ![p] = Enter(@, fd, listenType'[p], HandleOf[p])]
          /\ pipe' = [pipe EXCEPT ![p] = IF kind = "pipe" THEN "listening" ELSE "none"]
          /\ Goto(p, "app")
       \/ /\ Goto(p, "exit")
          /\ UNCHANGED <<fdTable, pipe>>
    /\ UNCHANGED <<settings, sock, ipcFd, owner, client, event, shutdownPending, state, lost, finished, crashes>>
(* Between requests the application may connect to pipes of its own, by    *)
(* OS_FcgiConnect, as long as there are descriptors, and keep them.        *)
Own(p) == {fd \in Used(fdTable[p]) : fdTable[p][fd].fid = AppHandle}

FcgiConnect(p) ==
    /\ pc[p] = "app" /\ Cardinality(UNION {{q} \X Own(q) : q \in Procs}) < MaxOwn
    /\ LET fd == Win32NewDescriptor(fdTable[p], AppHandle, -1) IN
       /\ fd # -1
       /\ fdTable' = [fdTable EXCEPT ![p] = Enter(@, fd, "pipe_async", AppHandle)]
    /\ UNCHANGED <<settings, pc, listenType, acceptMutex, sock, ipcFd, owner, pipe, client, event,
                   shutdownPending, state, lost, finished, crashes>>
------------------------------------------------------------------------------
(* OS_Accept.                                                              *)

(* OS_LibShutdown: the mutex is released (by its owner only) and the pipe  *)
(* disconnected.                                                           *)
LibShutdown(p) ==
    /\ owner' = IF owner = p THEN None ELSE owner
    /\ pipe' = [pipe EXCEPT ![p] = IF @ = "none" THEN @ ELSE "disconnected"]
    /\ client' = [client EXCEPT ![p] = None]
    /\ state' = [c \in Conns |-> IF c = client[p] THEN "closed" ELSE state[c]]

(* The first look at the flag, before the mutex; -1 makes the caller exit. *)
Call(p) ==
    /\ pc[p] = "app"
    /\ sock' = [sock EXCEPT ![p] = None]
    /\ IF shutdownPending[p]
       THEN LibShutdown(p) /\ Goto(p, "release")
       ELSE Goto(p, "mutex") /\ UNCHANGED <<owner, pipe, client, state>>
    /\ UNCHANGED <<settings, listenType, acceptMutex, fdTable, ipcFd, event, shutdownPending, lost, finished, crashes>>

(* Fault: it waits for a while only, and takes all but WAIT_FAILED for     *)
(* success.                                                                *)
WaitForMutex_TimesOut(p) ==
    /\ pc[p] = "mutex"
    /\ owner' = IF acceptMutex[p] = "shared" /\ owner = None THEN p ELSE owner
    /\ Goto(p, "dispatch")
    /\ UNCHANGED <<settings, process, pipe, client, event, shutdownPending, state, lost, finished, crashes>>

WaitForMutex(p) ==
    /\ pc[p] = "mutex"
    /\ acceptMutex[p] = "shared" => owner = None
    /\ owner' = IF acceptMutex[p] = "shared" THEN p ELSE owner
    /\ Goto(p, "dispatch")
    /\ UNCHANGED <<settings, process, pipe, client, event, shutdownPending, state, lost, finished, crashes>>

(* The second look, then the way of the listener's type; a pipe made by    *)
(* OS_CreateLocalIpcFd has an "unknown listenType".                        *)
Dispatch(p) ==
    /\ pc[p] = "dispatch"
    /\ IF shutdownPending[p]
       THEN LibShutdown(p) /\ Goto(p, "release")
       ELSE /\ Goto(p, CASE listenType[p] = "pipe_sync"   -> "connect"
                         [] listenType[p] = "socket_sync" -> "select"
                         [] OTHER                         -> "release")
            /\ UNCHANGED <<owner, pipe, client, state>>
    /\ UNCHANGED <<settings, process, event, shutdownPending, lost, finished, crashes>>

(* acceptNamedPipe.  ConnectNamedPipe makes a disconnected pipe listen and *)
(* waits for a client.  One that is there already is as good; and when the *)
(* one before is gone and was not disconnected, the error is printed and   *)
(* the pipe taken for connected.                                           *)
ConnectNamedPipe(p) ==
    /\ pc[p] = "connect"
    /\ \/ /\ pipe[p] = "disconnected"
          /\ pipe' = [pipe EXCEPT ![p] = "listening"]
          /\ UNCHANGED <<pc, sock>>
       \/ /\ pipe[p] \in {"connected", "closing"}
          /\ sock' = [sock EXCEPT ![p] = client[p]]
          /\ Goto(p, "register")
          /\ UNCHANGED pipe
    /\ UNCHANGED <<settings, listenType, acceptMutex, fdTable, ipcFd, owner, client, event,
                   shutdownPending, state, lost, finished, crashes>>

Waiting == {c \in Conns : state[c] = "waiting"}

(* Fault: the flag is looked at before the mutex is waited for only.       *)
Select_WaitsOn(p) ==
    /\ pc[p] = "select" /\ Waiting # {}
    /\ Goto(p, "accept")
    /\ UNCHANGED <<settings, process, owner, pipe, client, event, shutdownPending, state, lost,
                   finished, crashes>>

(* acceptSocket: select for a second at a time; the flag is looked at when *)
(* a second has passed without a connection.                               *)
Select(p) ==
    /\ pc[p] = "select"
    /\ \/ /\ Waiting # {}
          /\ Goto(p, "accept")
          /\ UNCHANGED <<owner, pipe, client, state>>
       \/ /\ Waiting = {} /\ shutdownPending[p]
          /\ LibShutdown(p)
          /\ Goto(p, "release")
    /\ UNCHANGED <<settings, process, event, shutdownPending, lost, finished, crashes>>

(* isAddrOK looks at the first place in the list where the address's text  *)
(* is found, and nowhere else.                                             *)
isAddrOK(list, address) ==
    LET found == {i \in DOMAIN list : <<address, list[i]>> \in Within}
    IN  list = <<>> \/ \E i \in found : (\A j \in found : i <= j) /\ list[i] = address

(* WSAAccept waits until there is a connection (another process may have   *)
(* taken the one that select saw), and rejects it by the callback, or as   *)
(* NO_WSAACEPT would, by closing it.                                       *)
AcceptSocket(p) ==
    /\ pc[p] = "accept"
    /\ \E c \in Waiting :
          IF isAddrOK(webServerAddrs, AddressOf[c])
          THEN /\ state' = [state EXCEPT ![c] = "open"]
               /\ sock' = [sock EXCEPT ![p] = c]
               /\ Goto(p, "register")
          ELSE /\ state' = [state EXCEPT ![c] = "closed"]
               /\ Goto(p, "select")
               /\ UNCHANGED sock
    /\ UNCHANGED <<settings, listenType, acceptMutex, fdTable, ipcFd, owner, pipe, client, event,
                   shutdownPending, lost, finished, crashes>>

(* Any other failure is final: the connection was lost meanwhile, say.     *)
AcceptFails(p) ==
    /\ pc[p] = "accept"
    /\ \E c \in Waiting : state' = [state EXCEPT ![c] = "closed"]
    /\ Goto(p, "release")
    /\ UNCHANGED <<settings, process, owner, pipe, client, event, shutdownPending, lost, finished, crashes>>

(* Fault: a connection without a slot is forgotten, not closed.            *)
Register_Forgets(p) ==
    /\ pc[p] = "register"
    /\ LET handle == IF listenType[p] = "pipe_sync" THEN HandleOf[p] ELSE HandleOf[sock[p]]
           fd == Win32NewDescriptor(fdTable[p], handle, -1) IN
       /\ ipcFd' = [ipcFd EXCEPT ![p] = fd]
       /\ fdTable' = [fdTable EXCEPT ![p] = IF fd = -1 THEN @ ELSE Enter(@, fd, listenType[p], handle)]
       /\ sock' = [sock EXCEPT ![p] = IF fd = -1 THEN None ELSE @]
       /\ UNCHANGED <<state, pipe, client>>
    /\ Goto(p, "release")
    /\ UNCHANGED <<settings, listenType, acceptMutex, owner, event, shutdownPending, lost, finished, crashes>>

(* The connection gets its descriptor, or is closed when there is none.    *)
Register(p) ==
    /\ pc[p] = "register"
    /\ LET handle == IF listenType[p] = "pipe_sync" THEN HandleOf[p] ELSE HandleOf[sock[p]]
           fd == Win32NewDescriptor(fdTable[p], handle, -1) IN
       /\ ipcFd' = [ipcFd EXCEPT ![p] = fd]
       /\ IF fd # -1
          THEN /\ fdTable' = [fdTable EXCEPT ![p] = Enter(@, fd, listenType[p], handle)]
               /\ UNCHANGED <<sock, state, pipe, client>>
          ELSE /\ sock' = [sock EXCEPT ![p] = None]
               /\ state' = [c \in Conns |-> IF c \in Held(p) THEN "closed" ELSE state[c]]
               /\ pipe' = [pipe EXCEPT ![p] = IF @ = "none" THEN @ ELSE "disconnected"]
               /\ client' = [client EXCEPT ![p] = None]
               /\ UNCHANGED fdTable
    /\ Goto(p, "release")
    /\ UNCHANGED <<settings, listenType, acceptMutex, owner, event, shutdownPending, lost, finished, crashes>>

(* Fault: a descriptor is returned with the mutex still held.              *)
Release_Keeps(p) ==
    /\ pc[p] = "release"
    /\ IF ipcFd[p] = -1
       THEN Ends(p)
       ELSE Goto(p, "serve") /\ UNCHANGED <<owner, fdTable, sock, ipcFd, pipe, client, state>>
    /\ UNCHANGED <<settings, listenType, acceptMutex, event, shutdownPending, lost, finished, crashes>>

(* ReleaseMutex does nothing for a process that is not the owner (any      *)
(* more).  FCGX_Accept_r hands on what OS_Accept returns, and the process  *)
(* ends on -1.                                                             *)
Release(p) ==
    /\ pc[p] = "release"
    /\ IF ipcFd[p] = -1
       THEN Ends(p)
       ELSE /\ Goto(p, "serve")
            /\ owner' = IF owner = p THEN None ELSE owner
            /\ UNCHANGED <<fdTable, sock, ipcFd, pipe, client, state>>
    /\ UNCHANGED <<settings, listenType, acceptMutex, event, shutdownPending, lost, finished, crashes>>
------------------------------------------------------------------------------
(* The request is finished and its connection closed (FCGX_Free, which     *)
(* does not look at the result).                                           *)

(* A pipe is flushed, disconnected and given up; its handle stays open.    *)
IpcClosePipe(p) ==
    /\ pc[p] = "serve" /\ listenType[p] = "pipe_sync"
    /\ fdTable' = [fdTable EXCEPT ![p] = Win32FreeDescriptor(@, ipcFd[p])]
    /\ pipe' = [pipe EXCEPT ![p] = "disconnected"]
    /\ client' = [client EXCEPT ![p] = None]
    /\ state' = [c \in Conns |-> IF c = client[p] THEN "closed" ELSE state[c]]
    /\ ipcFd' = [ipcFd EXCEPT ![p] = -1] /\ sock' = [sock EXCEPT ![p] = None]
    /\ finished' = finished \cup {sock[p]}
    /\ Goto(p, "app")
    /\ UNCHANGED <<settings, listenType, acceptMutex, owner, event, shutdownPending, lost, crashes>>

(* FlushFileBuffers may fail once the client is gone: OS_IpcClose returns  *)
(* -1 with the descriptor and the pipe as they were.                       *)
IpcCloseFails(p) ==
    /\ pc[p] = "serve" /\ pipe[p] = "closing"
    /\ lost' = [lost EXCEPT ![p] = @ + 1]
    /\ ipcFd' = [ipcFd EXCEPT ![p] = -1] /\ sock' = [sock EXCEPT ![p] = None]
    /\ finished' = finished \cup {sock[p]}
    /\ Goto(p, "app")
    /\ UNCHANGED <<settings, listenType, acceptMutex, fdTable, owner, pipe, client, event,
                   shutdownPending, state, crashes>>

IpcCloseSocket(p) ==
    /\ pc[p] = "serve" /\ listenType[p] = "socket_sync"
    /\ fdTable' = [fdTable EXCEPT ![p] = Win32FreeDescriptor(@, ipcFd[p])]
    /\ state' = [state EXCEPT ![sock[p]] = "closed"]
    /\ ipcFd' = [ipcFd EXCEPT ![p] = -1] /\ sock' = [sock EXCEPT ![p] = None]
    /\ finished' = finished \cup {sock[p]}
    /\ Goto(p, "app")
    /\ UNCHANGED <<settings, listenType, acceptMutex, owner, pipe, client, event, shutdownPending,
                   lost, crashes>>
------------------------------------------------------------------------------
(* ShutdownRequestThread wakes with the event.  A process that listens on  *)
(* a pipe is made to exit there and then, whatever it is doing.            *)
ShutdownRequestThread(p) ==
    /\ event /\ ~shutdownPending[p] /\ pc[p] \notin {"start", "exit"}
    /\ shutdownPending' = [shutdownPending EXCEPT ![p] = TRUE]
    /\ IF listenType[p] = "pipe_sync"
       THEN Ends(p)
       ELSE UNCHANGED <<pc, owner, fdTable, pipe, client, sock, ipcFd, state>>
    /\ UNCHANGED <<settings, listenType, acceptMutex, event, lost, finished, crashes>>

Crash(p) ==
    /\ pc[p] # "exit" /\ crashes < MaxCrashes
    /\ crashes' = crashes + 1
    /\ Ends(p)
    /\ UNCHANGED <<settings, listenType, acceptMutex, event, shutdownPending, lost, finished>>

Process(p) ==
    \/ LibInit(p) \/ CreateLocalIpcFd(p) \/ Call(p) \/ WaitForMutex(p) \/ Dispatch(p)
    \/ ConnectNamedPipe(p) \/ Select(p) \/ AcceptSocket(p) \/ Register(p) \/ Release(p)
    \/ IpcClosePipe(p) \/ IpcCloseFails(p) \/ IpcCloseSocket(p)

Next ==
    \/ \E c \in Conns : Connect(c) \/ \E p \in Procs : ConnectPipe(c, p) \/ ClosePipe(c, p)
    \/ SignalEvent
    \/ \E p \in Procs : Process(p) \/ FcgiConnect(p) \/ AcceptFails(p) \/ ShutdownRequestThread(p) \/ Crash(p)

(* Each process runs, and so does its thread.                              *)
Fairness == \A p \in Procs : WF_vars(Process(p)) /\ WF_vars(ShutdownRequestThread(p))

Spec == Init /\ [][Next]_vars /\ Fairness
------------------------------------------------------------------------------
(***************************************************************************)
(* Properties.                                                             *)
(***************************************************************************)

TypeOK ==
    /\ origin \in Origins /\ kind \in Kinds /\ webServerAddrs \in AddressLists \cup {<<>>}
    /\ environment \subseteq {"mutex", "event"}
    /\ pc \in [Procs -> {"start", "create", "app", "mutex", "dispatch", "connect", "select",
                         "accept", "register", "release", "serve", "exit"}]
    /\ listenType \in [Procs -> Types]
    /\ acceptMutex \in [Procs -> {"none", "shared", "own"}]
    /\ owner \in Procs \cup {None}
    /\ fdTable \in [Procs -> [Fds -> [type : Types, fid : Nat, instance : Nat]]]
    /\ sock \in [Procs -> Conns \cup {None}] /\ client \in [Procs -> Conns \cup {None}]
    /\ ipcFd \in [Procs -> Fds \cup {-1}]
    /\ pipe \in [Procs -> {"none", "listening", "connected", "closing", "disconnected"}]
    /\ event \in BOOLEAN /\ shutdownPending \in [Procs -> BOOLEAN]
    /\ state \in [Conns -> {"new", "waiting", "open", "closed"}]
    /\ lost \in [Procs -> Nat] /\ finished \subseteq Conns /\ crashes \in 0 .. MaxCrashes

(* The descriptors in use are the listener's of OS_CreateLocalIpcFd, the   *)
(* application's own, the one being served and one for each OS_IpcClose    *)
(* that failed; what a process holds open is the connection it serves or   *)
(* is about to.                                                            *)
NoneForgotten ==
    \A p \in {q \in Procs : pc[q] # "exit"} :
        /\ Cardinality(Used(fdTable[p]) \ Own(p)) =
               lost[p] + (IF ipcFd[p] = -1 THEN 0 ELSE 1)
                       + (IF \E fd \in Used(fdTable[p]) : origin = "created" /\ fdTable[p][fd].fid = HandleOf[p]
                          THEN 1 ELSE 0)
        /\ pc[p] \in {"app", "mutex", "dispatch", "select", "connect", "accept"} => sock[p] = None
        /\ \A q \in Procs \ {p} : Held(p) \cap Held(q) = {}
OpenIsHeld == \A c \in Conns : state[c] = "open" => \E p \in Procs : c \in Held(p)

(* "The mutex is to keep other processes ... from going into the accept    *)
(* cycle": one process at a time when they share it, and its owner is one  *)
(* that is going to release it; OS_LibShutdown releases it early, and the  *)
(* release that follows must not free it from the next owner.              *)
InCycle == {p \in Procs : pc[p] \in {"dispatch", "connect", "select", "accept", "register"}}
MutexInv ==
    /\ "mutex" \in environment => \A p, q \in InCycle : p = q /\ owner = p
    /\ owner # None => owner \in InCycle \/ pc[owner] = "release"

(* What OS_Accept returns is the descriptor of a connection of its own,    *)
(* from an address in the list and held by nobody else; as long as every   *)
(* OS_IpcClose of the process has succeeded.                               *)
ReturnsValid ==
    \A p \in Procs :
        pc[p] = "serve" /\ lost[p] = 0 =>
            /\ sock[p] \notin finished \cup {None}
            /\ fdTable[p][ipcFd[p]].type = listenType[p]
            /\ fdTable[p][ipcFd[p]].fid = HandleOf[IF kind = "pipe" THEN p ELSE sock[p]]
            /\ kind = "socket" /\ webServerAddrs # <<>> => AddressOf[sock[p]] \in ToSet(webServerAddrs)

(* However accepting ends, handles and descriptors agree, none is lost,    *)
(* and what is returned is valid.                                          *)
DescriptorInv == TypeOK /\ NoneForgotten /\ OpenIsHeld /\ ReturnsValid

(* A connection does not wait for ever while a process is left that has    *)
(* not been told to stop.                                                  *)
AcceptedAtLast ==
    \A c \in Conns :
        state[c] = "waiting" ~> (state[c] # "waiting" \/ \A p \in Procs : pc[p] = "exit")

(* Every process ends after the web server has signalled its event.  With no *)
(* mutex two processes may have seen one connection, and the second waits  *)
(* in accept, where it does not look.                                      *)
StopsAtLast ==
    event /\ (kind = "pipe" \/ "mutex" \in environment) ~> \A p \in Procs : pc[p] = "exit"
==============================================================================
