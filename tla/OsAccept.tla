------------------------------ MODULE OsAccept ------------------------------
(***************************************************************************)
(* OS_Accept (libfcgi/os_unix.c): processes that share one listening socket *)
(* accept connections, refuse those of addresses not in                     *)
(* FCGI_WEB_SERVER_ADDRS and those on a Unix socket that stay silent, and   *)
(* stop when SIGUSR1 has asked them to.                                     *)
(*                                                                          *)
(* A descriptor is named by its connection: socket[p] is the local variable *)
(* of OS_Accept, which may still name a descriptor that has been closed.    *)
(* The lock is the fcntl lock of AcquireLock, compiled in by USE_LOCKING.   *)
(***************************************************************************)
EXTENDS Integers, FiniteSets

CONSTANTS
    Procs,         \* the processes
    Conns,         \* the connections
    None,          \* no connection (-1), or the lock's owner when it is free
    Families,      \* the families the listening socket may have: "inet", "unix"
    MaxSignals     \* bound: the signals a process gets, its death included

ASSUME SettingAssumption ==
    /\ None \notin Procs \cup Conns /\ IsFiniteSet(Procs)
    /\ Families \subseteq {"inet", "unix"}
    /\ MaxSignals \in Nat

VARIABLES
    useLocking,       \* the library has been built with USE_LOCKING
    failOnIntr,       \* FCGI_FAIL_ACCEPT_ON_INTR is in the environment
    family,           \* of the listening socket
    refused,          \* the connections whose address ClientAddrOK does not find
    state,            \* of each connection: "new", "waiting", "taken", "served", "closed"
    readable,         \* the connections on which the web server has sent something
    pc, socket, open, \* of each process: where it is, the variable, its open descriptors
    shutdownPending,  \* set by SIGUSR1
    signals,          \* how many signals each process has had
    lock              \* the owner of the fcntl lock

vars == <<useLocking, failOnIntr, family, refused, state, readable, pc, socket, open, shutdownPending, signals, lock>>
setting == <<useLocking, failOnIntr, family, refused>>
process == <<pc, socket, open>>

Init ==
    /\ useLocking \in BOOLEAN /\ failOnIntr \in BOOLEAN
    /\ family \in Families
    /\ refused \in SUBSET Conns
    /\ state = [c \in Conns |-> "new"]
    /\ readable = {}
    /\ pc = [p \in Procs |-> "app"]
    /\ socket = [p \in Procs |-> None]
    /\ open = [p \in Procs |-> {}]
    /\ shutdownPending = [p \in Procs |-> FALSE]
    /\ signals = [p \in Procs |-> 0]
    /\ lock = None
-----------------------------------------------------------------------------
(* The web server.                                                          *)

Connect(c) ==
    /\ state[c] = "new"
    /\ state' = [state EXCEPT ![c] = "waiting"]
    /\ UNCHANGED <<setting, readable, process, shutdownPending, signals, lock>>

SendRequest(c) ==
    /\ state[c] \in {"waiting", "taken"} /\ c \notin readable
    /\ readable' = readable \cup {c}
    /\ UNCHANGED <<setting, state, process, shutdownPending, signals, lock>>
-----------------------------------------------------------------------------
(* One process.                                                             *)

Goto(p, l) == pc' = [pc EXCEPT ![p] = l]

\* FCGX_Accept_r, with no connection open.
Call(p) ==
    /\ pc[p] = "app"
    /\ Goto(p, "lock")
    /\ socket' = [socket EXCEPT ![p] = None]
    /\ UNCHANGED <<setting, state, readable, open, shutdownPending, signals, lock>>

AcquireLock_Not(p) ==
    /\ pc[p] = "lock"
    /\ lock' = IF useLocking THEN p ELSE lock
    /\ Goto(p, "check")
    /\ UNCHANGED <<setting, state, readable, socket, open, shutdownPending, signals>>

AcquireLock(p) ==
    /\ pc[p] = "lock"
    /\ useLocking => lock = None
    /\ lock' = IF useLocking THEN p ELSE lock
    /\ Goto(p, "check")
    /\ UNCHANGED <<setting, state, readable, socket, open, shutdownPending, signals>>

\* OS_Accept returns -1: the process exits, with the lock released.
Return_LockHeld(p) == Goto(p, "exit") /\ UNCHANGED lock

Return(p) ==
    /\ Goto(p, "exit")
    /\ lock' = IF lock = p THEN None ELSE lock

\* "if (shutdownPending) break" and what follows the loop around accept: the
\* socket looked at may be the one of the round before.
Check(p) ==
    /\ pc[p] = "check"
    /\ IF ~shutdownPending[p] THEN Goto(p, "accept") /\ UNCHANGED lock
       ELSE IF socket[p] = None THEN Return(p)
       ELSE Goto(p, "examine") /\ UNCHANGED lock
    /\ UNCHANGED <<setting, state, readable, socket, open, shutdownPending, signals>>

\* accept gives a connection.
Accept(p) ==
    /\ pc[p] = "accept"
    /\ \E c \in Conns :
          /\ state[c] = "waiting"
          /\ state' = [state EXCEPT ![c] = "taken"]
          /\ socket' = [socket EXCEPT ![p] = c]
          /\ open' = [open EXCEPT ![p] = @ \cup {c}]
    /\ Goto(p, "examine")
    /\ UNCHANGED <<setting, readable, shutdownPending, signals, lock>>

\* accept fails because the connection was lost (ECONNABORTED and the like).
AcceptAborted(p) ==
    /\ pc[p] = "accept"
    /\ \E c \in Conns : state[c] = "waiting" /\ state' = [state EXCEPT ![c] = "closed"]
    /\ socket' = [socket EXCEPT ![p] = None]
    /\ IF shutdownPending[p] THEN Return(p) ELSE Goto(p, "check") /\ UNCHANGED lock
    /\ UNCHANGED <<setting, readable, open, shutdownPending, signals>>

\* Any other failure (no descriptor left, say) is final.
AcceptFatal(p) ==
    /\ pc[p] = "accept"
    /\ socket' = [socket EXCEPT ![p] = None]
    /\ Return(p)
    /\ UNCHANGED <<setting, state, readable, open, shutdownPending, signals>>

\* A signal.  It interrupts accept (and the wait for the lock), unless it
\* arrives before the process is in the call.
Signal(p, usr1) ==
    /\ pc[p] # "exit" /\ signals[p] < MaxSignals
    /\ signals' = [signals EXCEPT ![p] = @ + 1]
    /\ shutdownPending' = [shutdownPending EXCEPT ![p] = @ \/ usr1]
    /\ \/ UNCHANGED <<pc, socket, lock>>
       \/ /\ pc[p] = "accept"
          /\ socket' = [socket EXCEPT ![p] = None]
          /\ IF failOnIntr \/ shutdownPending'[p]
               THEN Return(p) ELSE Goto(p, "check") /\ UNCHANGED lock
       \/ /\ pc[p] = "lock" /\ useLocking /\ lock # None
          /\ failOnIntr \/ shutdownPending'[p]
          /\ Return(p)
          /\ UNCHANGED socket
    /\ UNCHANGED <<setting, state, readable, open>>

\* close(socket): nothing happens to a descriptor that is closed already.
Close(p) ==
    LET c == socket[p]
    IN  /\ open' = [open EXCEPT ![p] = @ \ {c}]
        /\ state' = IF c \in open[p] THEN [state EXCEPT ![c] = "closed"] ELSE state

\* The address is looked at; a refused connection is closed and the next one
\* accepted.
Examine_Any(p) ==
    /\ pc[p] = "examine"
    /\ Goto(p, "release")
    /\ UNCHANGED <<setting, readable, state, socket, open, shutdownPending, signals, lock>>

Examine(p) ==
    /\ pc[p] = "examine"
    /\ IF family = "inet" /\ socket[p] \in refused
         THEN Close(p) /\ Goto(p, "check")
         ELSE Goto(p, "release") /\ UNCHANGED <<open, state>>
    /\ UNCHANGED <<setting, readable, socket, shutdownPending, signals, lock>>

\* OS_Accept returns the socket, and FCGX_Accept_r the request on it.
Serve(p) ==
    /\ Goto(p, "serve")
    /\ state' = [state EXCEPT ![socket[p]] = "served"]

ReleaseLock(p) ==
    /\ pc[p] = "release"
    /\ lock' = IF lock = p THEN None ELSE lock
    /\ IF family = "inet" THEN Serve(p) ELSE Goto(p, "keeper") /\ UNCHANGED state
    /\ UNCHANGED <<setting, readable, socket, open, shutdownPending, signals>>

\* is_af_unix_keeper: two seconds for the web server to send something;
\* select fails on a descriptor that is closed.
Keeper(p) ==
    /\ pc[p] = "keeper"
    /\ IF socket[p] \in open[p] \cap readable
         THEN Serve(p) /\ UNCHANGED open
         ELSE Close(p) /\ Goto(p, "lock")
    /\ UNCHANGED <<setting, readable, socket, shutdownPending, signals, lock>>

\* The request is finished and the connection closed.
Finish(p) ==
    /\ pc[p] = "serve"
    /\ Close(p)
    /\ Goto(p, "app")
    /\ UNCHANGED <<setting, readable, socket, shutdownPending, signals, lock>>

\* The process dies: the system closes its descriptors and releases its lock.
Crash(p) ==
    /\ pc[p] # "exit" /\ signals[p] < MaxSignals
    /\ signals' = [signals EXCEPT ![p] = @ + 1]
    /\ Return(p)
    /\ open' = [open EXCEPT ![p] = {}]
    /\ state' = [c \in Conns |-> IF c \in open[p] THEN "closed" ELSE state[c]]
    /\ UNCHANGED <<setting, readable, socket, shutdownPending>>

Process(p) ==
    \/ Call(p) \/ AcquireLock(p) \/ Check(p) \/ Accept(p) \/ Examine(p) \/ ReleaseLock(p)
    \/ Keeper(p) \/ Finish(p)

Next ==
    \/ \E c \in Conns : Connect(c) \/ SendRequest(c)
    \/ \E p \in Procs : \/ Process(p) \/ AcceptAborted(p) \/ AcceptFatal(p) \/ Crash(p)
                        \/ \E usr1 \in BOOLEAN : Signal(p, usr1)

\* The processes run, and the lock goes to each that waits for it at last.
Spec == Init /\ [][Next]_vars /\ \A p \in Procs : WF_vars(Process(p)) /\ SF_vars(AcquireLock(p))
-----------------------------------------------------------------------------
TypeOK ==
    /\ useLocking \in BOOLEAN /\ failOnIntr \in BOOLEAN
    /\ family \in Families /\ refused \subseteq Conns /\ readable \subseteq Conns
    /\ state \in [Conns -> {"new", "waiting", "taken", "served", "closed"}]
    /\ pc \in [Procs -> {"app", "lock", "check", "accept", "examine", "release", "keeper",
                         "serve", "exit"}]
    /\ socket \in [Procs -> Conns \cup {None}] /\ open \in [Procs -> SUBSET Conns]
    /\ shutdownPending \in [Procs -> BOOLEAN] /\ signals \in [Procs -> 0 .. MaxSignals]
    /\ lock \in IF useLocking THEN Procs \cup {None} ELSE {None}

(* The processes at accept.                                                 *)
Accepting == {p \in Procs : pc[p] \in {"check", "accept", "examine", "release"}}
OneAccepts == useLocking => \A p, q \in Accepting : p = q /\ lock = p

LockIsReleased == lock # None => lock \in Accepting

(* One process accepts at a time (AcquireLock: "acquires an exclusive lock  *)
(* across all processes sharing a listening ipcFd"), and the lock is held   *)
(* by a process that is going to release it.                                *)
LockInv == OneAccepts /\ LockIsReleased

(* What OS_Accept returns is a descriptor that is open, of a web server     *)
(* that may connect and has said something, and nobody else has it.         *)
ReturnsValid ==
    \A p \in Procs : pc[p] = "serve" =>
        /\ socket[p] \in open[p]
        /\ IF family = "inet" THEN socket[p] \notin refused ELSE socket[p] \in readable
        /\ \A q \in Procs \ {p} : socket[p] \notin open[q]

NoneForgotten ==
    /\ \A p \in Procs : pc[p] \in {"app", "lock", "accept"} => open[p] = {}
    /\ \A p \in Procs : \A c \in open[p] : c = socket[p]
    /\ \A c \in Conns : state[c] \in {"taken", "served"} <=> \E p \in Procs : c \in open[p]

(* A process that is not serving holds no connection but the one it is      *)
(* looking at: refused and silent ones are closed, none is lost; and what   *)
(* is returned is valid.                                                    *)
DescriptorInv == TypeOK /\ NoneForgotten /\ ReturnsValid

(* A connection does not wait for ever while a process is left that has not *)
(* been told to stop.  (Where connections are refused a process told to     *)
(* stop may keep the lock for ever: StopsAtLast.)                           *)
NoneRefused == family = "unix" \/ refused = {}
AcceptedAtLast ==
    \A c \in Conns :
        NoneRefused /\ state[c] = "waiting"
            ~> \/ state[c] # "waiting"
               \/ \A p \in Procs : pc[p] = "exit" \/ shutdownPending[p]

(* OS_Accept: "-1 if the operation fails, otherwise this is a valid IPC fd" *)
(* - a process told to stop gets one or the other when it is not waiting in *)
(* accept.                                                                  *)
StopsAtLast ==
    \A p \in Procs :
        (shutdownPending[p] /\ pc[p] \in {"check", "examine"}) ~> pc[p] \in {"serve", "exit"}
=============================================================================
