----------------------------- MODULE OsAsyncIo -----------------------------
(***************************************************************************)
(* The event loop of libfcgi/os_unix.c: OS_AsyncRead, OS_AsyncReadStdin and *)
(* OS_AsyncWrite register an operation, OS_DoIo selects, makes the list of  *)
(* completed events and then works off the list, calling back into the      *)
(* application, which may register, close and open descriptors before it    *)
(* returns.                                                                 *)
(*                                                                          *)
(* A descriptor and a direction make a slot, which is also an index of      *)
(* asyncIoTable.  The fd_sets and the inUse flags of the table are sets of  *)
(* slots.                                                                   *)
(***************************************************************************)
EXTENDS Integers, FiniteSets

CONSTANTS
    TopFd,           \* the highest descriptor
    FirstTableSize,  \* asyncIoTableSize to begin with
    Settings         \* the pairs <<closesIn, limit>> to consider

ASSUME AsyncAssumption ==
    /\ TopFd \in Nat /\ FirstTableSize \in Nat \ {0} /\ FirstTableSize % 2 = 0
    /\ Settings \subseteq (SUBSET {"app", "callback"}) \X (0 .. TopFd)

Fds == 0 .. TopFd
Directions == {"read", "write"}
Slots == Fds \X Directions
Of(fd) == {fd} \X Directions

\* AIO_RD_IX and AIO_WR_IX.
Index(slot) == 2 * slot[1] + (IF slot[2] = "read" THEN 0 ELSE 1)

VARIABLES
    closesIn,    \* where the application closes descriptors: "app", "callback"
    limit,       \* the highest descriptor the process may have
    openFds,     \* the descriptors that are open
    ready,       \* slots on which read or write would not block
    asyncIoInUse, asyncIoTableSize,
    inUse,       \* asyncIoTable[Index(slot)].inUse
    fdSet,       \* readFdSet and writeFdSet
    fdSetPost,   \* readFdSetPost and writeFdSetPost
    numPosted,   \* numRdPosted and numWrPosted
    maxFd,
    phase,       \* "app", "dispatch" or "callback"
    cursor       \* the index OS_DoIo looks at next

table == <<asyncIoInUse, asyncIoTableSize, inUse>>
posted == <<fdSetPost, numPosted>>
scenario == <<closesIn, limit>>
asyncVars == <<scenario, openFds, ready, table, fdSet, posted, maxFd, phase, cursor>>

AsyncInit ==
    /\ \E s \in Settings : closesIn = s[1] /\ limit = s[2]
    /\ openFds = {} /\ ready = {}
    /\ asyncIoInUse = FALSE /\ asyncIoTableSize = FirstTableSize
    /\ inUse = {} /\ fdSet = {} /\ fdSetPost = {}
    /\ numPosted = [d \in Directions |-> 0]
    /\ maxFd = -1
    /\ phase = "app" /\ cursor = 0
-----------------------------------------------------------------------------
(* The application, in its own code and in callbacks, and its peers.        *)

NonePosted == \A d \in Directions : numPosted[d] = 0

InApplication == phase \in {"app", "callback"}

\* The system gives the lowest descriptor that is free.
Open ==
    /\ InApplication
    /\ \E fd \in Fds \ openFds : /\ fd <= limit
                                 /\ \A g \in Fds \ openFds : fd <= g
                                 /\ openFds' = openFds \cup {fd}
    /\ UNCHANGED <<scenario, ready, table, fdSet, posted, maxFd, phase, cursor>>

BecomesReady(slot) ==
    /\ slot[1] \in openFds
    /\ ready' = ready \cup {slot}
    /\ UNCHANGED <<scenario, openFds, table, fdSet, posted, maxFd, phase, cursor>>

\* GrowAsyncTable, as often as it takes: the size is doubled.  The powers of
\* two are the numbers whose divisors but 1 are even.
Doublings(index) == {k \in 1 .. 2 * (index + 1) : \A d \in 2 .. k : k % d = 0 => d % 2 = 0}
Sizes(size, index) == {n \in {size * k : k \in Doublings(index)} : n > index}
Grown(size, index) == CHOOSE n \in Sizes(size, index) : \A m \in Sizes(size, index) : n <= m

\* OS_AsyncRead, OS_AsyncReadStdin, OS_AsyncWrite; ASSERT(inUse == 0) is the
\* caller's duty.
Async(slot) ==
    /\ InApplication
    /\ slot[1] \in openFds /\ slot \notin inUse
    /\ asyncIoInUse' = TRUE
    /\ maxFd' = IF slot[1] > maxFd THEN slot[1] ELSE maxFd
    /\ asyncIoTableSize' = Grown(asyncIoTableSize, Index(slot))
    /\ inUse' = inUse \cup {slot}
    /\ fdSet' = fdSet \cup {slot}
    /\ UNCHANGED <<scenario, openFds, ready, posted, phase, cursor>>

OS_Close_LeavesPosted(fd) ==
    /\ phase \in closesIn
    /\ fd \in openFds
    /\ openFds' = openFds \ {fd}
    /\ ready' = ready \ Of(fd)
    /\ inUse' = inUse \ Of(fd)
    /\ fdSet' = fdSet \ Of(fd)
    /\ maxFd' = IF asyncIoInUse /\ maxFd = fd THEN maxFd - 1 ELSE maxFd
    /\ UNCHANGED <<scenario, posted, asyncIoInUse, asyncIoTableSize, phase, cursor>>

OS_Close_LeavesWrite(fd) ==
    /\ phase \in closesIn
    /\ fd \in openFds
    /\ openFds' = openFds \ {fd}
    /\ ready' = ready \ Of(fd)
    /\ inUse' = inUse \ {<<fd, "read">>}
    /\ fdSet' = fdSet \ {<<fd, "read">>}
    /\ fdSetPost' = fdSetPost \ {<<fd, "read">>}
    /\ maxFd' = IF asyncIoInUse /\ maxFd = fd THEN maxFd - 1 ELSE maxFd
    /\ UNCHANGED <<scenario, numPosted, asyncIoInUse, asyncIoTableSize, phase, cursor>>

\* OS_Close.  Nothing is registered unless asyncIoInUse.
OS_Close(fd) ==
    /\ phase \in closesIn
    /\ fd \in openFds
    /\ openFds' = openFds \ {fd}
    /\ ready' = ready \ Of(fd)
    /\ inUse' = inUse \ Of(fd)
    /\ fdSet' = fdSet \ Of(fd)
    /\ fdSetPost' = fdSetPost \ Of(fd)
    /\ maxFd' = IF asyncIoInUse /\ maxFd = fd THEN maxFd - 1 ELSE maxFd
    /\ UNCHANGED <<scenario, numPosted, asyncIoInUse, asyncIoTableSize, phase, cursor>>

\* OS_CloseRead; a read finds the end of file from now on.
OS_CloseRead(fd) ==
    LET slot == <<fd, "read">>
    IN  /\ phase \in closesIn
        /\ fd \in openFds
        /\ ready' = ready \cup {slot}
        /\ inUse' = inUse \ {slot}
        /\ fdSet' = IF slot \in inUse THEN fdSet \ {slot} ELSE fdSet
        /\ UNCHANGED <<scenario, openFds, asyncIoInUse, asyncIoTableSize, posted, maxFd, phase, cursor>>
-----------------------------------------------------------------------------
(* OS_DoIo.                                                                 *)

\* What select finds among the descriptors up to maxFd.
Selected == {slot \in fdSet \cap ready : slot[1] <= maxFd}

\* Select, if there are no completed events from a prior call, and make the
\* list; with nothing in it OS_DoIo returns.
OS_DoIo ==
    /\ phase = "app"
    /\ asyncIoInUse' = TRUE
    /\ IF NonePosted
         THEN /\ fdSet' = fdSet \ Selected
              /\ fdSetPost' = fdSetPost \cup Selected
              /\ numPosted' = [d \in Directions |-> Cardinality({s \in Selected : s[2] = d})]
         ELSE UNCHANGED <<scenario, fdSet, posted>>
    /\ phase' = IF \A d \in Directions : numPosted'[d] = 0 THEN "app" ELSE "dispatch"
    /\ cursor' = 0
    /\ UNCHANGED <<scenario, openFds, ready, asyncIoTableSize, inUse, maxFd>>

\* The slots of the list from the cursor on.
Listed == {slot \in fdSetPost \cap inUse : slot[1] <= maxFd /\ Index(slot) >= cursor}

\* The next one is read or written, and its callback called.
Dispatch_NotCounted(slot) ==
    /\ phase = "dispatch"
    /\ slot \in Listed /\ \A other \in Listed : Index(slot) <= Index(other)
    /\ fdSetPost' = fdSetPost \ {slot}
    /\ inUse' = inUse \ {slot}
    /\ ready' \in {ready, ready \ {slot}}
    /\ cursor' = Index(slot) + 1
    /\ phase' = "callback"
    /\ UNCHANGED <<scenario, openFds, asyncIoInUse, asyncIoTableSize, fdSet, numPosted, maxFd>>

Dispatch(slot) ==
    /\ phase = "dispatch"
    /\ slot \in Listed /\ \A other \in Listed : Index(slot) <= Index(other)
    /\ numPosted' = [numPosted EXCEPT ![slot[2]] = @ - 1]
    /\ fdSetPost' = fdSetPost \ {slot}
    /\ inUse' = inUse \ {slot}
    /\ ready' \in {ready, ready \ {slot}}
    /\ cursor' = Index(slot) + 1
    /\ phase' = "callback"
    /\ UNCHANGED <<scenario, openFds, asyncIoInUse, asyncIoTableSize, fdSet, maxFd>>

CallbackReturns ==
    /\ phase = "callback"
    /\ phase' = "dispatch"
    /\ UNCHANGED <<scenario, openFds, ready, table, fdSet, posted, maxFd, cursor>>

DoIoReturns ==
    /\ phase = "dispatch" /\ Listed = {}
    /\ phase' = "app" /\ cursor' = 0
    /\ UNCHANGED <<scenario, openFds, ready, table, fdSet, posted, maxFd>>
-----------------------------------------------------------------------------
Loop == OS_DoIo \/ (\E slot \in Slots : Dispatch(slot)) \/ CallbackReturns \/ DoIoReturns

AsyncNext ==
    \/ Loop \/ Open
    \/ \E slot \in Slots : BecomesReady(slot) \/ Async(slot)
    \/ \E fd \in Fds : OS_Close(fd) \/ OS_CloseRead(fd)

\* The application calls OS_DoIo again and again, and its callbacks return.
AsyncSpec ==
    /\ AsyncInit /\ [][AsyncNext]_asyncVars
    /\ WF_asyncVars(OS_DoIo) /\ WF_asyncVars(\E slot \in Slots : Dispatch(slot))
    /\ WF_asyncVars(CallbackReturns) /\ WF_asyncVars(DoIoReturns)
-----------------------------------------------------------------------------
AsyncTypeOK ==
    /\ scenario \in Settings
    /\ openFds \subseteq Fds /\ ready \subseteq Slots /\ asyncIoInUse \in BOOLEAN
    /\ asyncIoTableSize \in Nat
    /\ inUse \subseteq Slots /\ fdSet \subseteq Slots /\ fdSetPost \subseteq Slots
    /\ numPosted \in [Directions -> 0 .. TopFd + 1] /\ maxFd \in -1 .. TopFd
    /\ phase \in {"app", "dispatch", "callback"} /\ cursor \in 0 .. 2 * TopFd + 2

(* Whatever a callback has closed or reopened, read and write are called    *)
(* only where they do not block: an event of a descriptor that has been     *)
(* closed is not taken for one of the descriptor that got its number.       *)
NeverBlocks == [][\A slot \in Slots : phase = "dispatch" /\ phase' = "callback" /\ cursor' = Index(slot) + 1
                                        => slot \in ready /\ slot \in inUse]_asyncVars

(* select is given open descriptors only (it would fail, and OS_DoIo exit). *)
SelectsOpenOnly == \A slot \in fdSet \cup fdSetPost \cup inUse : slot[1] \in openFds

(* Every registered operation is in a set that OS_DoIo looks at, below      *)
(* maxFd: none is lost.                                                     *)
NoneLost ==
    \A slot \in inUse :
        /\ slot \in fdSet \cup fdSetPost
        /\ slot[1] <= maxFd /\ Index(slot) < asyncIoTableSize

(* The counts of completed events are those of the sets, while no callback  *)
(* closes a descriptor.                                                     *)
CountsMatch ==
    closesIn = {"app"} =>
        \A d \in Directions : numPosted[d] = Cardinality({s \in fdSetPost : s[2] = d})

(* The table, the four sets, maxFd and the two counts agree, although       *)
(* registration, OS_Close, OS_CloseRead and OS_DoIo each change some of     *)
(* them, and a callback may call any of the first three.                    *)
RegistrationInv == AsyncTypeOK /\ SelectsOpenOnly /\ NoneLost /\ CountsMatch

(* An operation on a descriptor that is ready is then carried out, unless   *)
(* it is cancelled.                                                         *)
Dispatched ==
    \A slot \in Slots : (closesIn = {"app"} /\ slot \in inUse \cap ready) ~> slot \notin inUse
=============================================================================
