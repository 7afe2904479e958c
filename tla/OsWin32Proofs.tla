---------------------------- MODULE OsWin32Proofs ----------------------------
(***************************************************************************)
(* Proofs about the Windows layer: OsWin32Accept for any processes,        *)
(* connections, handles, lists of addresses and sizes of fdTable, with and *)
(* without the mutex and for each kind of listener; and OsWin32Async for   *)
(* any handles, any number of operations and any size of fdTable.          *)
(***************************************************************************)
EXTENDS OsWin32Accept, OsWin32Async, FiniteSetTheorems, WellFoundedInduction, TLAPS

(***************************************************************************)
(* OsWin32Accept.  What the run's invariants need to be inductive.         *)
(***************************************************************************)

\* The processes that may wait for the mutex have it from the environment.
SharedMutex ==
    \A p \in Procs :
        /\ "mutex" \in environment /\ pc[p] \notin {"start", "exit"} => acceptMutex[p] = "shared"
        /\ acceptMutex[p] = "shared" => "mutex" \in environment

\* Where a process is, what it has accepted and what listener it has.
Place(p) ==
    /\ pc[p] \in {"start", "create", "app", "mutex", "dispatch", "connect", "select", "accept",
                  "exit"} => sock[p] = None
    /\ pc[p] \in {"start", "create"} => fdTable[p] = EmptyTable /\ lost[p] = 0
    /\ pc[p] = "create" => origin = "created"
    /\ pc[p] \in {"start", "create", "exit"} => pipe[p] = "none"
    /\ ipcFd[p] # -1 => pc[p] \in {"release", "serve"}
    /\ pc[p] = "serve" => ipcFd[p] # -1
    /\ pc[p] = "release" /\ ipcFd[p] = -1 => sock[p] = None
    /\ pc[p] = "register" \/ ipcFd[p] # -1 =>
          sock[p] # None /\ listenType[p] \in {"pipe_sync", "socket_sync"}
    /\ pc[p] = "connect" => listenType[p] = "pipe_sync"
    /\ pc[p] \in {"select", "accept"} => listenType[p] = "socket_sync"
    /\ listenType[p] = "pipe_sync" => origin = "inherited" /\ kind = "pipe"
    /\ listenType[p] = "socket_sync" => kind = "socket"

\* The pipe's other end, and the connection accepted on it.
Pipe(p) ==
    /\ pipe[p] \in {"connected", "closing"} <=> client[p] # None
    /\ kind = "socket" => pipe[p] = "none"
    /\ listenType[p] = "pipe_sync" /\ sock[p] # None => sock[p] = client[p]

\* The slot of what is being served, and how many are in use.
Listener(p) == \E fd \in Used(fdTable[p]) : origin = "created" /\ fdTable[p][fd].fid = HandleOf[p]
Slot(p) ==
    /\ ipcFd[p] # -1 =>
          /\ fdTable[p][ipcFd[p]].type = listenType[p]
          /\ fdTable[p][ipcFd[p]].fid = HandleOf[IF listenType[p] = "pipe_sync" THEN p ELSE sock[p]]
    /\ pc[p] # "exit" =>
          Cardinality(Used(fdTable[p]) \ Own(p)) =
              lost[p] + (IF ipcFd[p] = -1 THEN 0 ELSE 1) + (IF Listener(p) THEN 1 ELSE 0)
    /\ kind = "socket" /\ webServerAddrs # <<>> /\ sock[p] # None =>
          AddressOf[sock[p]] \in ToSet(webServerAddrs)

\* Who holds which connection.
Holding ==
    /\ \A p, q \in Procs : p # q => Held(p) \cap Held(q) = {}
    /\ \A p \in Procs : \A c \in Held(p) : state[c] \in {"open", "closed"}
    /\ \A c \in finished : state[c] \in {"open", "closed"}
    /\ \A p \in Procs : lost[p] = 0 => Held(p) \cap finished = {}

AcceptIInv ==
    /\ TypeOK /\ SharedMutex /\ MutexInv /\ OpenIsHeld /\ Holding
    /\ \A p \in Procs : Place(p) /\ Pipe(p) /\ Slot(p)
------------------------------------------------------------------------------
(* fdTable.                                                                *)

LEMMA Least ==
  ASSUME NEW S \in SUBSET Nat, S # {}
  PROVE  \E x \in S : \A y \in S : x <= y
  <1> DEFINE R == OpToRel(<, Nat)
  <1>1. IsWellFoundedOn(R, Nat)
    BY NatLessThanWellFounded
  <1>2. PICK x \in S : \A y \in S : <<y, x>> \notin R
    <2> HIDE DEF R
    <2> QED BY <1>1, WFMin
  <1>3. \A y \in S : ~ (y < x)
    BY <1>2 DEF OpToRel
  <1> QED BY <1>3

LEMMA NewDescriptor ==
  ASSUME NEW table \in [Fds -> [type : Types, fid : Nat, instance : Nat]], NEW handle \in Nat,
         NEW fd, fd = Win32NewDescriptor(table, handle, -1)
  PROVE  fd = -1 \/ fd \in Fds \ Used(table)
  <1> DEFINE slots == Slots(table, handle, -1)
  <1>1. -1 \notin Fds /\ Fds \subseteq Nat
    BY TableAssumption DEF Fds
  <1>2. slots \subseteq Fds \ Used(table)
    BY <1>1 DEF Slots
  <1>3. CASE slots = {}
    BY <1>3 DEF Win32NewDescriptor
  <1>4. CASE slots # {}
    <2>1. \E f \in slots : \A g \in slots : f <= g
      BY <1>1, <1>2, <1>4, Least
    <2>2. fd = CHOOSE f \in slots : \A g \in slots : f <= g
      BY <1>4 DEF Win32NewDescriptor
    <2>3. fd \in slots
      <3> HIDE DEF slots
      <3> QED BY <2>1, <2>2
    <2> QED BY <1>2, <2>3
  <1> QED BY <1>3, <1>4

Table == [Fds -> [type : Types, fid : Nat, instance : Nat]]

LEMMA EnterFacts ==
  ASSUME NEW table \in Table, NEW fd \in Fds, NEW type \in Types, NEW handle \in Nat,
         NEW t, t = Enter(table, fd, type, handle)
  PROVE  /\ t \in Table
         /\ t[fd].type = type /\ t[fd].fid = handle /\ t[fd].instance = table[fd].instance
         /\ \A f \in Fds : f # fd => t[f] = table[f]
  BY DEF Enter, Table

LEMMA FreeFacts ==
  ASSUME NEW table \in Table, NEW fd \in Fds, NEW t, t = Win32FreeDescriptor(table, fd)
  PROVE  /\ t \in Table
         /\ t[fd].type = "unused"
         /\ \A f \in Fds : f # fd => t[f] = table[f]
  BY DEF Win32FreeDescriptor, Table, Types

LEMMA EmptyFacts == EmptyTable \in Table /\ Used(EmptyTable) = {}
  BY DEF EmptyTable, Table, Types, Used

LEMMA FdsFinite ==
  /\ IsFiniteSet(Fds) /\ -1 \notin Fds
  /\ \A S \in SUBSET Fds : IsFiniteSet(S) /\ Cardinality(S) \in Nat
  <1>1. IsFiniteSet(Fds) /\ -1 \notin Fds
    BY TableAssumption, FS_Interval DEF Fds
  <1>2. \A S \in SUBSET Fds : IsFiniteSet(S)
    BY <1>1, FS_Subset
  <1> QED BY <1>1, <1>2, FS_CardinalityType

\* The slots in use but for the application's.
Counted(table) == {fd \in Fds : table[fd].type # "unused" /\ table[fd].fid # AppHandle}

LEMMA CountedEnter ==
  ASSUME NEW table \in Table, NEW fd \in Fds \ Used(table), NEW type \in Types \ {"unused"},
         NEW handle \in Nat, NEW t, t = Enter(table, fd, type, handle)
  PROVE  /\ handle = AppHandle => Counted(t) = Counted(table)
         /\ handle # AppHandle =>
               Cardinality(Counted(t)) = Cardinality(Counted(table)) + 1
  <1>1. /\ t[fd].type = type /\ t[fd].fid = handle
        /\ \A f \in Fds : f # fd => t[f] = table[f]
    BY EnterFacts
  <1>2. fd \notin Counted(table)
    BY DEF Counted, Used
  <1>3. handle = AppHandle => Counted(t) = Counted(table)
    BY <1>1, <1>2 DEF Counted
  <1>4. handle # AppHandle => Counted(t) = Counted(table) \cup {fd}
    BY <1>1, <1>2 DEF Counted, Types
  <1>5. IsFiniteSet(Counted(table))
    BY FdsFinite DEF Counted
  <1> QED BY <1>2, <1>3, <1>4, <1>5, FS_AddElement

LEMMA CountedFree ==
  ASSUME NEW table \in Table, NEW fd \in Fds, table[fd].type # "unused",
         table[fd].fid # AppHandle, NEW t, t = Win32FreeDescriptor(table, fd)
  PROVE  Cardinality(Counted(t)) = Cardinality(Counted(table)) - 1
  <1>1. t[fd].type = "unused" /\ \A f \in Fds : f # fd => t[f] = table[f]
    BY FreeFacts
  <1>2. fd \in Counted(table) /\ Counted(t) = Counted(table) \ {fd}
    BY <1>1 DEF Counted
  <1>3. IsFiniteSet(Counted(table))
    BY FdsFinite DEF Counted
  <1> QED BY <1>2, <1>3, FS_RemoveElement

LEMMA CountedIs ==
  ASSUME NEW p
  PROVE  Used(fdTable[p]) \ Own(p) = Counted(fdTable[p])
  BY DEF Used, Own, Counted

(* The slots of a process that a step does not touch.                      *)
LEMMA SlotKept ==
  ASSUME NEW p \in Procs, Slot(p),
         fdTable'[p] = fdTable[p], ipcFd'[p] = ipcFd[p], lost'[p] = lost[p],
         listenType'[p] = listenType[p], sock'[p] \in {sock[p], None},
         sock'[p] = sock[p] \/ ipcFd[p] = -1,
         UNCHANGED <<origin, kind, webServerAddrs>>,
         pc'[p] # "exit" => pc[p] # "exit"
  PROVE  Slot(p)'
  BY DEF Slot, Own, Listener
------------------------------------------------------------------------------
(* Facts about a step of one process.                                      *)

(* p, which held the connections of Held(p), holds those of H: it may have *)
(* let go of some, which are closed, and have got others, which nobody has *)
(* had yet.  What it has finished it holds no more, unless that failed.    *)
Moves(p, H) ==
    /\ {sock'[p], client'[p]} \ {None} = H
    /\ \A q \in Procs : q # p => sock'[q] = sock[q] /\ client'[q] = client[q] /\ lost'[q] = lost[q]
    /\ \A c \in H : state'[c] \in {"open", "closed"}
    /\ \A c \in H : c \in Held(p) \/ state[c] \in {"new", "waiting"}
    /\ \A c \in Held(p) : c \notin H => state'[c] = "closed"
    /\ \A c \in Conns : state[c] \in {"open", "closed"} => state'[c] \in {"open", "closed"}
    /\ \A c \in Conns : state'[c] = "open" => c \in H \/ state[c] = "open"
    /\ lost'[p] = 0 => lost[p] = 0
    /\ \A c \in finished' : c \in finished \/ (c \in Held(p) /\ (c \notin H \/ lost'[p] # 0))

LEMMA HoldingStep ==
  ASSUME AcceptIInv, NEW p \in Procs, NEW H \in SUBSET Conns, Moves(p, H)
  PROVE  OpenIsHeld' /\ Holding'
  <1> USE DEF Moves
  <1> DEFINE held(q) == {sock'[q], client'[q]} \ {None}
  <1>1. /\ OpenIsHeld /\ Holding /\ finished \subseteq Conns
        /\ \A q \in Procs : Held(q) \subseteq Conns
    BY DEF AcceptIInv, TypeOK, Held
  <1>2. \A q \in Procs : q # p => held(q) = Held(q)
    BY DEF Held
  <1>3. held(p) = H
    OBVIOUS
  <1> HIDE DEF held
  <1>4. \A q \in Procs : q # p => H \cap Held(q) = {}
    BY <1>1 DEF Holding
  <1>5. OpenIsHeld'
    <2>1. ASSUME NEW c \in Conns, state'[c] = "open" PROVE \E q \in Procs : c \in held(q)
      <3>1. CASE c \in H
        BY <3>1, <1>3
      <3>2. CASE c \notin H
        <4>1. PICK q \in Procs : c \in Held(q)
          BY <1>1, <2>1, <3>2 DEF OpenIsHeld
        <4>2. q # p
          BY <2>1, <3>2, <4>1
        <4> QED BY <1>2, <4>1, <4>2
      <3> QED BY <3>1, <3>2
    <2> QED BY <2>1 DEF OpenIsHeld, Held, held
  <1>6. \A q, r \in Procs : q # r => held(q) \cap held(r) = {}
    <2>1. ASSUME NEW q \in Procs, NEW r \in Procs, q # r, q # p, r # p
          PROVE  held(q) \cap held(r) = {}
      BY <1>1, <1>2, <2>1 DEF Holding
    <2>2. ASSUME NEW r \in Procs, r # p PROVE held(p) \cap held(r) = {}
      BY <1>2, <1>3, <1>4, <2>2
    <2> QED BY <2>1, <2>2
  <1>7. \A q \in Procs : \A c \in held(q) : state'[c] \in {"open", "closed"}
    BY <1>1, <1>2, <1>3 DEF Holding
  <1>8. \A c \in finished' : state'[c] \in {"open", "closed"}
    BY <1>1 DEF Holding
  <1>9. ASSUME NEW q \in Procs, lost'[q] = 0 PROVE held(q) \cap finished' = {}
    <2>1. CASE q = p
      BY <1>1, <1>3, <1>9, <2>1 DEF Holding
    <2>2. CASE q # p
      <3>1. Held(p) \cap Held(q) = {} /\ held(q) = Held(q) /\ lost[q] = 0
        BY <1>1, <1>2, <1>9, <2>2 DEF Holding
      <3> QED BY <1>1, <3>1 DEF Holding
    <2> QED BY <2>1, <2>2
  <1> QED BY <1>5, <1>6, <1>7, <1>8, <1>9 DEF Holding, Held, held

(* p goes on, and nothing else happens.                                    *)
GoesOn(p, l) ==
    /\ pc[p] \in {"app", "dispatch", "select"} /\ Goto(p, l)
    /\ l \in {"mutex", "connect", "select", "accept", "release"}
    /\ l = "connect" => listenType[p] = "pipe_sync"
    /\ l \in {"select", "accept"} => listenType[p] = "socket_sync"
    /\ pc[p] = "app" <=> l = "mutex"
    /\ UNCHANGED <<settings, process, owner, pipe, client, event, shutdownPending, state, lost,
                   finished, crashes>>

LEMMA GotoStep ==
  ASSUME AcceptIInv, NEW p \in Procs, NEW l, GoesOn(p, l)
  PROVE  AcceptIInv'
  <1> USE DEF GoesOn, Goto, process
  <1>1. TypeOK'
    BY DEF AcceptIInv, TypeOK, settings
  <1>2. SharedMutex' /\ MutexInv'
    BY HandleAssumption DEF AcceptIInv, TypeOK, SharedMutex, MutexInv, InCycle, settings
  <1>3. \A q \in Procs : Place(q)'
    BY DEF AcceptIInv, TypeOK, Place, settings
  <1>4. \A q \in Procs : Pipe(q)'
    BY DEF AcceptIInv, Pipe, settings
  <1>5. OpenIsHeld' /\ Holding'
    BY DEF AcceptIInv, OpenIsHeld, Holding, Held
  <1>6. \A q \in Procs : Slot(q)'
    BY SlotKept DEF AcceptIInv, TypeOK, settings
  <1> QED BY <1>1, <1>2, <1>3, <1>4, <1>5, <1>6 DEF AcceptIInv

(* OS_LibShutdown, from a place where nothing has been accepted.           *)
LEMMA ShutdownStep ==
  ASSUME AcceptIInv, NEW p \in Procs, pc[p] \in {"app", "dispatch", "select"},
         pc' = [pc EXCEPT ![p] = "release"],
         LibShutdown(p),
         UNCHANGED <<settings, listenType, acceptMutex, fdTable, sock, ipcFd, event,
                     shutdownPending, lost, finished, crashes>>
  PROVE  AcceptIInv'
  <1>1. /\ TypeOK /\ sock[p] = None
        /\ owner' = IF owner = p THEN None ELSE owner
        /\ pipe' = [pipe EXCEPT ![p] = IF pipe[p] = "none" THEN "none" ELSE "disconnected"]
        /\ client' = [client EXCEPT ![p] = None]
        /\ state' = [c \in Conns |-> IF c = client[p] THEN "closed" ELSE state[c]]
    BY DEF AcceptIInv, Place, LibShutdown
  <1>2. TypeOK'
    <2>1. /\ pipe' \in [Procs -> {"none", "listening", "connected", "closing", "disconnected"}]
          /\ state' \in [Conns -> {"new", "waiting", "open", "closed"}]
          /\ client' \in [Procs -> Conns \cup {None}] /\ owner' \in Procs \cup {None}
      BY <1>1 DEF TypeOK
    <2> QED BY <1>1, <2>1 DEF TypeOK, settings
  <1>3. SharedMutex' /\ MutexInv'
    BY <1>1, HandleAssumption DEF AcceptIInv, TypeOK, SharedMutex, MutexInv, InCycle, settings
  <1>4. \A q \in Procs : Place(q)'
    BY <1>1 DEF AcceptIInv, TypeOK, Place, settings
  <1>5. \A q \in Procs : Pipe(q)'
    BY <1>1 DEF AcceptIInv, TypeOK, Pipe, settings
  <1>6. OpenIsHeld' /\ Holding'
    <2>1. Held(p) = {client[p]} \ {None} /\ {sock'[p], client'[p]} \ {None} = {}
      BY <1>1 DEF TypeOK, Held
    <2>2. \A q \in Procs : q # p => sock'[q] = sock[q] /\ client'[q] = client[q] /\ lost'[q] = lost[q]
      BY <1>1 DEF TypeOK
    <2>3. \A c \in Conns : state'[c] = IF c = client[p] THEN "closed" ELSE state[c]
      BY <1>1
    <2>4. /\ \A c \in Held(p) : state'[c] = "closed"
          /\ \A c \in Conns : state[c] \in {"open", "closed"} => state'[c] \in {"open", "closed"}
          /\ \A c \in Conns : state'[c] = "open" => state[c] = "open"
      BY <1>1, <2>1, <2>3 DEF TypeOK
    <2>5. {} \in SUBSET Conns /\ finished' = finished /\ lost'[p] = lost[p]
      OBVIOUS
    <2>6. Moves(p, {})
      BY <2>1, <2>2, <2>4, <2>5 DEF Moves
    <2> QED BY <2>6, HoldingStep
  <1>7. \A q \in Procs : Slot(q)'
    BY <1>1, SlotKept DEF AcceptIInv, TypeOK, settings
  <1> QED BY <1>2, <1>3, <1>4, <1>5, <1>6, <1>7 DEF AcceptIInv
------------------------------------------------------------------------------
(* The steps.                                                              *)

LEMMA CallStep ==
  ASSUME AcceptIInv, NEW p \in Procs, Call(p)
  PROVE  AcceptIInv'
  <1>1. pc[p] = "app" /\ sock' = sock
    BY DEF Call, AcceptIInv, TypeOK, Place
  <1>2. CASE shutdownPending[p]
    BY <1>1, <1>2, ShutdownStep DEF Call, Goto
  <1>3. CASE ~shutdownPending[p]
    <2>1. GoesOn(p, "mutex")
      BY <1>1, <1>3 DEF Call, GoesOn, process
    <2> QED BY <2>1, GotoStep
  <1> QED BY <1>2, <1>3

LEMMA DispatchStep ==
  ASSUME AcceptIInv, NEW p \in Procs, Dispatch(p)
  PROVE  AcceptIInv'
  <1>1. CASE shutdownPending[p]
    BY <1>1, ShutdownStep DEF Dispatch, Goto, process
  <1>2. CASE ~shutdownPending[p]
    <2>1. PICK l : /\ Goto(p, l)
                   /\ l = CASE listenType[p] = "pipe_sync"   -> "connect"
                            [] listenType[p] = "socket_sync" -> "select"
                            [] OTHER                         -> "release"
      BY <1>2 DEF Dispatch
    <2>2. /\ l \in {"connect", "select", "release"}
          /\ l = "connect" => listenType[p] = "pipe_sync"
          /\ l = "select" => listenType[p] = "socket_sync"
      BY <2>1
    <2>3. GoesOn(p, l)
      BY <1>2, <2>1, <2>2 DEF Dispatch, GoesOn
    <2> QED BY <2>3, GotoStep
  <1> QED BY <1>1, <1>2

LEMMA SelectStep ==
  ASSUME AcceptIInv, NEW p \in Procs, Select(p)
  PROVE  AcceptIInv'
  <1>1. pc[p] = "select" /\ listenType[p] = "socket_sync"
    BY DEF Select, AcceptIInv, Place
  <1>2. CASE Goto(p, "accept") /\ UNCHANGED <<owner, pipe, client, state>>
    <2>1. GoesOn(p, "accept")
      BY <1>1, <1>2 DEF Select, GoesOn
    <2> QED BY <2>1, GotoStep
  <1>3. CASE LibShutdown(p) /\ Goto(p, "release")
    BY <1>1, <1>3, ShutdownStep DEF Select, Goto, process
  <1> QED BY <1>2, <1>3 DEF Select

LEMMA WaitForMutexStep ==
  ASSUME AcceptIInv, NEW p \in Procs, WaitForMutex(p)
  PROVE  AcceptIInv'
  <1>1. TypeOK'
    BY DEF AcceptIInv, TypeOK, WaitForMutex, Goto, settings, process
  <1>2. SharedMutex' /\ MutexInv'
    BY HandleAssumption
       DEF AcceptIInv, TypeOK, SharedMutex, MutexInv, InCycle, WaitForMutex, Goto, settings, process
  <1>3. \A q \in Procs : Place(q)' /\ Pipe(q)'
    BY DEF AcceptIInv, TypeOK, Place, Pipe, WaitForMutex, Goto, settings, process
  <1>4. OpenIsHeld' /\ Holding'
    BY DEF AcceptIInv, OpenIsHeld, Holding, Held, WaitForMutex, process
  <1>5. \A q \in Procs : Slot(q)'
    BY SlotKept DEF AcceptIInv, TypeOK, WaitForMutex, Goto, settings, process
  <1> QED BY <1>1, <1>2, <1>3, <1>4, <1>5 DEF AcceptIInv

LEMMA WebServerStep ==
  ASSUME AcceptIInv,
         \/ \E c \in Conns : Connect(c) \/ \E p \in Procs : ConnectPipe(c, p) \/ ClosePipe(c, p)
         \/ SignalEvent
  PROVE  AcceptIInv'
  <1>1. /\ TypeOK
        /\ UNCHANGED <<settings, pc, listenType, acceptMutex, fdTable, sock, ipcFd, owner,
                       shutdownPending, lost, finished, crashes>>
    BY DEF AcceptIInv, Connect, ConnectPipe, ClosePipe, SignalEvent, process
  <1>2. SharedMutex' /\ MutexInv'
    BY <1>1 DEF AcceptIInv, SharedMutex, MutexInv, InCycle, settings
  <1>3. \A q \in Procs : Slot(q)'
    BY <1>1, SlotKept DEF AcceptIInv, settings
  <1>4. ASSUME NEW c \in Conns, Connect(c)
        PROVE  TypeOK' /\ OpenIsHeld' /\ Holding' /\ \A q \in Procs : Place(q)' /\ Pipe(q)'
    <2>1. /\ state[c] = "new" /\ kind = "socket" /\ UNCHANGED <<pipe, client, event>>
          /\ state'[c] = "waiting" /\ \A d \in Conns : d # c => state'[d] = state[d]
      BY <1>1, <1>4 DEF Connect, TypeOK
    <2>2. TypeOK'
      BY <1>1, <1>4, <2>1 DEF TypeOK, Connect, settings
    <2>3. OpenIsHeld' /\ Holding'
      <3>1. \A d \in Conns : /\ state[d] \in {"open", "closed"} => state'[d] = state[d]
                             /\ state'[d] = "open" => state[d] = "open"
        BY <2>1
      <3>2. finished \subseteq Conns /\ \A q \in Procs : Held(q) \subseteq Conns
        BY <1>1 DEF TypeOK, Held
      <3>3. sock' = sock /\ client' = client /\ lost' = lost /\ finished' = finished
        BY <1>1, <2>1
      <3>4. OpenIsHeld'
        BY <3>1, <3>3 DEF AcceptIInv, OpenIsHeld, Held
      <3>5. Holding'
        BY <3>1, <3>2, <3>3 DEF AcceptIInv, Holding, Held
      <3> QED BY <3>4, <3>5
    <2>4. \A q \in Procs : Place(q)' /\ Pipe(q)'
      BY <1>1, <2>1 DEF AcceptIInv, Place, Pipe, settings
    <2> QED BY <2>2, <2>3, <2>4
  <1>5. ASSUME NEW c \in Conns, NEW p \in Procs, ConnectPipe(c, p) \/ ClosePipe(c, p)
        PROVE  TypeOK' /\ OpenIsHeld' /\ Holding' /\ \A q \in Procs : Place(q)' /\ Pipe(q)'
    <2>1. /\ Place(p) /\ Pipe(p) /\ c # None /\ UNCHANGED event
          /\ kind = "pipe" /\ pipe[p] # "none" /\ pc[p] \notin {"start", "create", "exit"}
      BY <1>1, <1>5, HandleAssumption DEF AcceptIInv, ConnectPipe, ClosePipe, Place, Pipe, TypeOK
    <2>2. sock[p] = None \/ sock[p] = client[p]
      BY <1>1, <2>1 DEF TypeOK, Place, Pipe
    <2>3. /\ pipe'[p] \in {"connected", "closing"} /\ client'[p] = c
          /\ \A q \in Procs : q # p => pipe'[q] = pipe[q] /\ client'[q] = client[q]
          /\ \A d \in Conns : d # c => state'[d] = state[d]
      BY <1>1, <1>5, <2>1 DEF TypeOK, ConnectPipe, ClosePipe, Pipe
    <2>4. \/ client[p] = None /\ state[c] = "new" /\ state'[c] = "open"
          \/ client[p] = c /\ state'[c] = "closed"
      BY <1>1, <1>5, <2>1 DEF TypeOK, ConnectPipe, ClosePipe, Pipe
    <2>5. TypeOK'
      <3>1. CASE ConnectPipe(c, p)
        BY <1>1, <2>1, <3>1 DEF TypeOK, ConnectPipe, settings
      <3>2. CASE ClosePipe(c, p)
        BY <1>1, <2>1, <3>2 DEF TypeOK, ClosePipe, settings
      <3> QED BY <1>5, <3>1, <3>2
    <2>6. \A q \in Procs : Place(q)'
      BY <1>1, <2>1, <2>3 DEF AcceptIInv, Place, settings
    <2>7. \A q \in Procs : Pipe(q)'
      BY <1>1, <2>1, <2>2, <2>3, <2>4 DEF AcceptIInv, Pipe, settings
    <2>8. OpenIsHeld' /\ Holding'
      <3> DEFINE H == {c}
      <3>1. {sock'[p], client'[p]} \ {None} = H /\ \A d \in Held(p) : d \in H
        BY <1>1, <2>1, <2>2, <2>3, <2>4 DEF Held
      <3>2. \A d \in H : d \in Held(p) \/ state[d] \in {"new", "waiting"}
        BY <2>1, <2>4 DEF Held
      <3>3. /\ \A d \in Conns : state[d] \in {"open", "closed"} => state'[d] \in {"open", "closed"}
            /\ \A d \in Conns : state'[d] = "open" => d \in H \/ state[d] = "open"
            /\ \A d \in H : state'[d] \in {"open", "closed"}
        BY <2>3, <2>4
      <3>4. H \in SUBSET Conns /\ finished' = finished /\ lost' = lost
        BY <1>1
      <3>5. \A q \in Procs : q # p => sock'[q] = sock[q] /\ client'[q] = client[q]
        BY <1>1, <2>3
      <3> HIDE DEF H
      <3>6. Moves(p, H)
        BY <3>1, <3>2, <3>3, <3>4, <3>5 DEF Moves
      <3> QED BY <3>4, <3>6, HoldingStep
    <2> QED BY <2>5, <2>6, <2>7, <2>8
  <1>6. ASSUME SignalEvent
        PROVE  TypeOK' /\ OpenIsHeld' /\ Holding' /\ \A q \in Procs : Place(q)' /\ Pipe(q)'
    <2>1. UNCHANGED <<pipe, client, state>> /\ event' = TRUE
      BY <1>6 DEF SignalEvent
    <2>2. TypeOK'
      BY <1>1, <2>1 DEF TypeOK, settings
    <2>3. OpenIsHeld' /\ Holding'
      BY <1>1, <2>1 DEF AcceptIInv, OpenIsHeld, Holding, Held
    <2>4. \A q \in Procs : Place(q)' /\ Pipe(q)'
      BY <1>1, <2>1 DEF AcceptIInv, Place, Pipe, settings
    <2> QED BY <2>2, <2>3, <2>4
  <1> QED BY <1>1, <1>2, <1>3, <1>4, <1>5, <1>6 DEF AcceptIInv
------------------------------------------------------------------------------
(* The steps that touch more of one process.                               *)

Only(p) ==
    /\ UNCHANGED settings
    /\ \A q \in Procs : q # p =>
          /\ pc'[q] = pc[q] /\ listenType'[q] = listenType[q] /\ acceptMutex'[q] = acceptMutex[q]
          /\ fdTable'[q] = fdTable[q] /\ sock'[q] = sock[q] /\ ipcFd'[q] = ipcFd[q]
          /\ pipe'[q] = pipe[q] /\ client'[q] = client[q] /\ lost'[q] = lost[q]

\* What is left to show of a step of p.
Own_(p) == Place(p) /\ Pipe(p) /\ Slot(p)

LEMMA OthersKept ==
  ASSUME AcceptIInv, NEW p \in Procs, Only(p), Own_(p)'
  PROVE  \A q \in Procs : Place(q)' /\ Pipe(q)' /\ Slot(q)'
  <1>1. ASSUME NEW q \in Procs, q # p PROVE Place(q)' /\ Pipe(q)' /\ Slot(q)'
    <2>1. Place(q)'
      BY <1>1 DEF AcceptIInv, Only, Place, settings
    <2>2. Pipe(q)'
      BY <1>1 DEF AcceptIInv, Only, Pipe, settings
    <2>3. Slot(q)'
      BY <1>1, SlotKept DEF AcceptIInv, Only, settings
    <2> QED BY <2>1, <2>2, <2>3
  <1> QED BY <1>1 DEF Own_

\* p leaves the mutex alone, or gives it up as it leaves the accept cycle.
LEMMA MutexStep ==
  ASSUME AcceptIInv, NEW p \in Procs, Only(p),
         \/ owner' = owner /\ pc'[p] = "release"
         \/ /\ owner' = owner /\ acceptMutex'[p] = acceptMutex[p]
            /\ pc[p] \in {"dispatch", "connect", "select", "accept", "register"}
            /\ pc'[p] \in {"dispatch", "connect", "select", "accept", "register"}
         \/ /\ owner' = owner
            /\ pc[p] \notin {"dispatch", "connect", "select", "accept", "register", "release"}
            /\ pc'[p] \notin {"dispatch", "connect", "select", "accept", "register"}
         \/ /\ owner' = IF owner = p THEN None ELSE owner
            /\ pc'[p] \notin {"dispatch", "connect", "select", "accept", "register"}
  PROVE  MutexInv'
  <1> DEFINE Cycle == {"dispatch", "connect", "select", "accept", "register"}
  <1>1. /\ \A q \in InCycle' : q \in Procs /\ pc'[q] \in Cycle
        /\ \A q \in Procs : q \in InCycle <=> pc[q] \in Cycle
        /\ \A q \in Procs : q \in InCycle' <=> pc'[q] \in Cycle
        /\ \A q \in Procs : q # p => pc'[q] = pc[q]
        /\ environment' = environment /\ owner \in Procs \cup {None} /\ None \notin Procs
    BY HandleAssumption DEF InCycle, Only, settings, AcceptIInv, TypeOK
  <1>2. /\ "mutex" \in environment => \A q, r \in InCycle : q = r /\ owner = q
        /\ owner # None => owner \in InCycle \/ pc[owner] = "release"
    BY DEF AcceptIInv, MutexInv
  <1>3. /\ owner' # owner => owner = p /\ owner' = None
        /\ pc'[p] \in Cycle => pc[p] \in Cycle
        /\ owner' = p => pc'[p] \in Cycle \/ pc'[p] = "release"
    <2>1. owner = p => pc[p] \in Cycle \/ pc[p] = "release"
      BY <1>1, <1>2
    <2> QED BY <1>1, <2>1
  <1>4. \A q \in InCycle' : q \in InCycle
    BY <1>1, <1>3
  <1>5. ASSUME "mutex" \in environment', NEW q \in InCycle', NEW r \in InCycle'
        PROVE  q = r /\ owner' = q
    <2>1. q = r /\ owner = q
      BY <1>1, <1>2, <1>4, <1>5
    <2>2. owner' = owner
      <3>1. SUFFICES ASSUME owner' # owner PROVE FALSE
        OBVIOUS
      <3>2. owner = p /\ owner' = None /\ q = p
        BY <1>3, <2>1, <3>1
      <3>3. pc'[p] \in Cycle
        BY <1>1, <1>5, <3>2
      <3> QED BY <1>1, <3>2, <3>3
    <2> QED BY <2>1, <2>2
  <1>6. ASSUME owner' # None PROVE owner' \in InCycle' \/ pc'[owner'] = "release"
    <2>1. owner' = owner /\ owner \in Procs
      BY <1>1, <1>3, <1>6
    <2> QED BY <1>1, <1>2, <1>3, <1>6, <2>1
  <1> QED BY <1>5, <1>6 DEF MutexInv

LEMMA SharedStep ==
  ASSUME AcceptIInv, NEW p \in Procs, Only(p), acceptMutex' = acceptMutex,
         pc[p] \notin {"start", "exit"} \/ pc'[p] \in {"start", "exit"}
  PROVE  SharedMutex'
  BY DEF AcceptIInv, SharedMutex, Only, settings

LEMMA EndsStep ==
  ASSUME AcceptIInv, NEW p \in Procs, Ends(p),
         UNCHANGED <<settings, listenType, acceptMutex, event, lost, finished>>,
         shutdownPending' \in [Procs -> BOOLEAN], crashes' \in 0 .. MaxCrashes
  PROVE  AcceptIInv'
  <1>1. TypeOK
    BY DEF AcceptIInv
  <1>2. /\ pc'[p] = "exit" /\ owner' = IF owner = p THEN None ELSE owner
        /\ pipe'[p] = "none" /\ client'[p] = None /\ sock'[p] = None /\ ipcFd'[p] = -1
        /\ pc' \in [Procs -> {"start", "create", "app", "mutex", "dispatch", "connect", "select",
                              "accept", "register", "release", "serve", "exit"}]
        /\ pipe' \in [Procs -> {"none", "listening", "connected", "closing", "disconnected"}]
    BY <1>1 DEF TypeOK, Ends, Goto
  <1>3. Only(p)
    BY <1>1 DEF TypeOK, Ends, Goto, Only
  <1>4. /\ state' \in [Conns -> {"new", "waiting", "open", "closed"}]
        /\ \A c \in Conns : state'[c] = state[c] \/ state'[c] = "closed"
        /\ \A c \in Held(p) : state'[c] = "closed"
    BY <1>1 DEF TypeOK, Ends, Held
  <1>5. TypeOK'
    <2>1. /\ fdTable' \in [Procs -> Table] /\ client' \in [Procs -> Conns \cup {None}]
          /\ sock' \in [Procs -> Conns \cup {None}] /\ ipcFd' \in [Procs -> Fds \cup {-1}]
          /\ owner' \in Procs \cup {None}
      BY <1>1, EmptyFacts DEF TypeOK, Ends, Table
    <2> QED BY <1>1, <1>2, <1>4, <2>1 DEF TypeOK, Table, settings
  <1>6. MutexInv' /\ SharedMutex'
    BY <1>2, <1>3, MutexStep, SharedStep
  <1>7. OpenIsHeld' /\ Holding'
    <2>1. {sock'[p], client'[p]} \ {None} = {}
      BY <1>2
    <2>2. Moves(p, {})
      BY <1>3, <1>4, <2>1 DEF Only, Moves
    <2> QED BY <2>2, HoldingStep
  <1>8. Own_(p)'
    <2>1. Place(p)'
      BY <1>2 DEF AcceptIInv, Place, settings
    <2>2. Pipe(p)' /\ Slot(p)'
      BY <1>2 DEF Pipe, Slot
    <2> QED BY <2>1, <2>2 DEF Own_
  <1> QED BY <1>3, <1>5, <1>6, <1>7, <1>8, OthersKept DEF AcceptIInv

LEMMA CrashStep ==
  ASSUME AcceptIInv, NEW p \in Procs, Crash(p) \/ ShutdownRequestThread(p)
  PROVE  AcceptIInv'
  <1>1. CASE Crash(p)
    <2>1. shutdownPending' \in [Procs -> BOOLEAN] /\ crashes' \in 0 .. MaxCrashes
      BY <1>1, HandleAssumption DEF AcceptIInv, TypeOK, Crash
    <2> QED BY <1>1, <2>1, EndsStep DEF Crash
  <1>2. CASE ShutdownRequestThread(p) /\ listenType[p] = "pipe_sync"
    <2>1. shutdownPending' \in [Procs -> BOOLEAN] /\ crashes' \in 0 .. MaxCrashes
      BY <1>2 DEF AcceptIInv, TypeOK, ShutdownRequestThread
    <2> QED BY <1>2, <2>1, EndsStep DEF ShutdownRequestThread
  <1>3. CASE ShutdownRequestThread(p) /\ listenType[p] # "pipe_sync"
    <2>1. UNCHANGED <<settings, pc, process, owner, pipe, client, event, state, lost, finished, crashes>>
      BY <1>3 DEF ShutdownRequestThread, process
    <2>2. TypeOK'
      BY <1>3, <2>1 DEF AcceptIInv, TypeOK, ShutdownRequestThread, settings, process
    <2>3. SharedMutex' /\ MutexInv' /\ OpenIsHeld' /\ Holding'
      BY <2>1 DEF AcceptIInv, SharedMutex, MutexInv, InCycle, OpenIsHeld, Holding, Held, settings, process
    <2>4. \A q \in Procs : Place(q)' /\ Pipe(q)'
      BY <2>1 DEF AcceptIInv, Place, Pipe, settings, process
    <2>5. \A q \in Procs : Slot(q)'
      BY <2>1, SlotKept DEF AcceptIInv, settings, process
    <2> QED BY <2>2, <2>3, <2>4, <2>5 DEF AcceptIInv
  <1> QED BY <1>1, <1>2, <1>3
------------------------------------------------------------------------------
\* What p holds, and what the connections are, stays as it is.
LEMMA HeldKept ==
  ASSUME AcceptIInv, UNCHANGED <<sock, client, state, lost, finished>>
  PROVE  OpenIsHeld' /\ Holding'
  BY DEF AcceptIInv, OpenIsHeld, Holding, Held

LEMMA LibInitStep ==
  ASSUME AcceptIInv, NEW p \in Procs, LibInit(p)
  PROVE  AcceptIInv'
  <1>1. TypeOK /\ Place(p) /\ Pipe(p) /\ pc[p] = "start"
    BY DEF AcceptIInv, LibInit
  <1>2. /\ sock[p] = None /\ ipcFd[p] = -1 /\ fdTable[p] = EmptyTable /\ lost[p] = 0
        /\ pipe[p] = "none" /\ client[p] = None
    BY <1>1 DEF Place, Pipe
  <1>3. UNCHANGED <<settings, fdTable, sock, ipcFd, owner, client, event, shutdownPending, state,
                    lost, finished, crashes>>
    BY DEF LibInit
  <1>4. /\ acceptMutex' \in [Procs -> {"none", "shared", "own"}]
        /\ acceptMutex'[p] = "shared" <=> "mutex" \in environment
        /\ \A q \in Procs : q # p => acceptMutex'[q] = acceptMutex[q]
    BY <1>1 DEF LibInit, TypeOK
  <1>5. /\ pc' \in [Procs -> {"start", "create", "app", "mutex", "dispatch", "connect", "select",
                              "accept", "register", "release", "serve", "exit"}]
        /\ listenType' \in [Procs -> Types]
        /\ pipe' \in [Procs -> {"none", "listening", "connected", "closing", "disconnected"}]
        /\ \A q \in Procs : q # p =>
              pc'[q] = pc[q] /\ listenType'[q] = listenType[q] /\ pipe'[q] = pipe[q]
    BY <1>1 DEF LibInit, TypeOK, Types, Goto
  <1>6. \/ /\ pc'[p] = "app" /\ origin = "inherited"
           /\ listenType'[p] = IF kind = "pipe" THEN "pipe_sync" ELSE "socket_sync"
           /\ pipe'[p] = IF kind = "pipe" THEN "listening" ELSE "none"
        \/ pc'[p] = "exit" /\ UNCHANGED <<listenType, pipe>>
        \/ pc'[p] = "create" /\ origin = "created" /\ UNCHANGED <<listenType, pipe>>
    BY <1>1 DEF LibInit, TypeOK, Goto
  <1>7. TypeOK'
    BY <1>1, <1>3, <1>4, <1>5 DEF TypeOK, settings
  <1>8. Only(p)
    BY <1>3, <1>4, <1>5 DEF Only
  <1>9. MutexInv'
    BY <1>1, <1>3, <1>6, <1>8, MutexStep
  <1>10. SharedMutex'
    BY <1>3, <1>4, <1>5 DEF AcceptIInv, SharedMutex, settings
  <1>11. OpenIsHeld' /\ Holding'
    BY <1>3, HeldKept
  <1>12. kind \in {"pipe", "socket"}
    BY <1>1, HandleAssumption DEF TypeOK
  <1>13. Place(p)'
    BY <1>1, <1>2, <1>3, <1>6, <1>12 DEF Place, settings
  <1>14. Pipe(p)'
    BY <1>1, <1>2, <1>3, <1>6, <1>12 DEF Pipe, settings
  <1>15. Slot(p)'
    <2>1. Used(fdTable'[p]) = {} /\ ipcFd'[p] = -1 /\ lost'[p] = 0 /\ sock'[p] = None
      BY <1>2, <1>3, EmptyFacts
    <2>2. Cardinality(Used(fdTable'[p]) \ Own(p)') = 0
      <3>1. Used(fdTable'[p]) \ Own(p)' = {}
        BY <2>1
      <3> QED BY <3>1, FS_EmptySet
    <2> QED BY <2>1, <2>2 DEF Slot, Listener
  <1> QED BY <1>7, <1>8, <1>9, <1>10, <1>11, <1>13, <1>14, <1>15, OthersKept DEF AcceptIInv, Own_

LEMMA CreateLocalIpcFdStep ==
  ASSUME AcceptIInv, NEW p \in Procs, CreateLocalIpcFd(p)
  PROVE  AcceptIInv'
  <1>1. TypeOK /\ SharedMutex /\ Place(p) /\ Pipe(p) /\ pc[p] = "create"
    BY DEF AcceptIInv, CreateLocalIpcFd
  <1>2. /\ sock[p] = None /\ ipcFd[p] = -1 /\ fdTable[p] = EmptyTable /\ lost[p] = 0
        /\ pipe[p] = "none" /\ client[p] = None /\ origin = "created"
    BY <1>1 DEF Place, Pipe
  <1>3. UNCHANGED <<settings, sock, ipcFd, owner, client, event, shutdownPending, state, lost,
                    finished, crashes>>
    BY DEF CreateLocalIpcFd
  <1>4. /\ acceptMutex' \in [Procs -> {"none", "shared", "own"}]
        /\ acceptMutex'[p] = "shared" <=> acceptMutex[p] = "shared"
        /\ \A q \in Procs : q # p => acceptMutex'[q] = acceptMutex[q]
    BY <1>1 DEF CreateLocalIpcFd, TypeOK
  <1>5. PICK fd \in Fds \cup {-1} : fd = Win32NewDescriptor(fdTable[p], HandleOf[p], -1)
    BY <1>2, EmptyFacts, NewDescriptor, HandleAssumption DEF Table
  <1>6. /\ listenType' \in [Procs -> Types]
        /\ listenType'[p] = IF kind = "socket" THEN "socket_sync" ELSE "pipe_async"
        /\ \A q \in Procs : q # p => listenType'[q] = listenType[q]
    BY <1>1 DEF CreateLocalIpcFd, TypeOK, Types
  <1>7. /\ pc'[p] \in {"app", "exit"} /\ \A q \in Procs : q # p => pc'[q] = pc[q]
        /\ pc' \in [Procs -> {"start", "create", "app", "mutex", "dispatch", "connect", "select",
                              "accept", "register", "release", "serve", "exit"}]
    BY <1>1 DEF CreateLocalIpcFd, Goto, TypeOK
  <1>8. /\ pipe' \in [Procs -> {"none", "listening", "connected", "closing", "disconnected"}]
        /\ \A q \in Procs : q # p => pipe'[q] = pipe[q]
        /\ pipe'[p] \in {"none", "listening"}
        /\ pc'[p] = "exit" \/ kind = "socket" => pipe'[p] = "none"
    BY <1>1, <1>2 DEF CreateLocalIpcFd, Goto, TypeOK
  <1>9. \/ /\ fd # -1 /\ pc'[p] = "app"
           /\ fdTable' = [fdTable EXCEPT ![p] = Enter(fdTable[p], fd, listenType'[p], HandleOf[p])]
        \/ fdTable' = fdTable /\ pc'[p] = "exit"
    BY <1>1, <1>5 DEF CreateLocalIpcFd, Goto, TypeOK
  <1>10. /\ fdTable' \in [Procs -> Table] /\ \A q \in Procs : q # p => fdTable'[q] = fdTable[q]
         /\ fd # -1 /\ pc'[p] = "app"
               => fdTable'[p] = Enter(fdTable[p], fd, listenType'[p], HandleOf[p])
    <2>1. fd # -1 => Enter(fdTable[p], fd, listenType'[p], HandleOf[p]) \in Table
      <3>1. fdTable[p] \in Table /\ listenType'[p] \in Types /\ HandleOf[p] \in Nat
        BY <1>2, <1>6, EmptyFacts, HandleAssumption
      <3> QED BY <1>5, <3>1, EnterFacts
    <2>2. fdTable \in [Procs -> Table]
      BY <1>1 DEF TypeOK, Table
    <2> QED BY <1>9, <2>1, <2>2
  <1>11. TypeOK'
    BY <1>1, <1>3, <1>4, <1>6, <1>7, <1>8, <1>10 DEF TypeOK, Table, settings
  <1>12. Only(p)
    BY <1>3, <1>4, <1>6, <1>7, <1>8, <1>10 DEF Only
  <1>13. MutexInv'
    BY <1>1, <1>3, <1>7, <1>12, MutexStep
  <1>14. SharedMutex'
    BY <1>1, <1>3, <1>4, <1>7 DEF SharedMutex, settings
  <1>15. OpenIsHeld' /\ Holding'
    BY <1>3, HeldKept
  <1>16. Place(p)' /\ Pipe(p)'
    BY <1>1, <1>2, <1>3, <1>6, <1>7, <1>8, HandleAssumption DEF Place, Pipe, settings, TypeOK
  <1>17. Slot(p)'
    <2>1. ipcFd'[p] = -1 /\ lost'[p] = 0 /\ sock'[p] = None /\ origin' = "created"
      BY <1>2, <1>3 DEF settings
    <2>2. CASE pc'[p] = "exit"
      BY <2>1, <2>2 DEF Slot
    <2>3. CASE pc'[p] = "app"
      <3>1. /\ fd \in Fds \ Used(EmptyTable)
            /\ fdTable'[p] = Enter(EmptyTable, fd, listenType'[p], HandleOf[p])
            /\ listenType'[p] \in Types \ {"unused"}
            /\ HandleOf[p] \in Nat /\ HandleOf[p] # AppHandle
        BY <1>2, <1>5, <1>6, <1>9, <1>10, <2>3, EmptyFacts, HandleAssumption DEF Types
      <3>2. Cardinality(Counted(EmptyTable)) = 0
        <4>1. Counted(EmptyTable) = {}
          BY EmptyFacts DEF Counted, Used
        <4> QED BY <4>1, FS_EmptySet
      <3>3. Cardinality(Counted(fdTable'[p])) = 1
        BY <3>1, <3>2, EmptyFacts, CountedEnter
      <3>4. fdTable'[p][fd].type = listenType'[p] /\ fdTable'[p][fd].fid = HandleOf[p]
        BY <3>1, EmptyFacts, EnterFacts
      <3>5. Listener(p)'
        BY <2>1, <3>1, <3>4 DEF Listener, Used
      <3>6. Used(fdTable'[p]) \ Own(p)' = Counted(fdTable'[p])
        BY DEF Used, Own, Counted
      <3> QED BY <2>1, <3>3, <3>5, <3>6 DEF Slot
    <2> QED BY <1>7, <2>2, <2>3
  <1> QED BY <1>11, <1>12, <1>13, <1>14, <1>15, <1>16, <1>17, OthersKept DEF AcceptIInv, Own_

LEMMA FcgiConnectStep ==
  ASSUME AcceptIInv, NEW p \in Procs, FcgiConnect(p)
  PROVE  AcceptIInv'
  <1>1. TypeOK /\ Place(p) /\ Pipe(p) /\ Slot(p) /\ pc[p] = "app"
    BY DEF AcceptIInv, FcgiConnect
  <1>2. sock[p] = None /\ ipcFd[p] = -1 /\ fdTable[p] \in Table /\ AppHandle \in Nat
    BY <1>1, HandleAssumption DEF Place, TypeOK, Table
  <1>3. PICK fd \in Fds \ Used(fdTable[p]) :
          fdTable' = [fdTable EXCEPT ![p] = Enter(fdTable[p], fd, "pipe_async", AppHandle)]
    BY <1>2, NewDescriptor DEF FcgiConnect, Table
  <1>4. UNCHANGED <<settings, pc, listenType, acceptMutex, sock, ipcFd, owner, pipe, client, event,
                    shutdownPending, state, lost, finished, crashes>>
    BY DEF FcgiConnect
  <1>5. /\ "pipe_async" \in Types \ {"unused"}
        /\ Enter(fdTable[p], fd, "pipe_async", AppHandle) \in Table
    BY <1>2, <1>3, EnterFacts DEF Types
  <1>6. /\ fdTable' \in [Procs -> Table] /\ \A q \in Procs : q # p => fdTable'[q] = fdTable[q]
        /\ fdTable'[p] = Enter(fdTable[p], fd, "pipe_async", AppHandle)
    <2>1. fdTable \in [Procs -> Table]
      BY <1>1 DEF TypeOK, Table
    <2> QED BY <1>3, <1>5, <2>1
  <1>7. TypeOK'
    BY <1>1, <1>4, <1>6 DEF TypeOK, Table, settings
  <1>8. Only(p)
    BY <1>4, <1>6 DEF Only
  <1>9. MutexInv' /\ SharedMutex'
    BY <1>4 DEF AcceptIInv, MutexInv, SharedMutex, InCycle, settings
  <1>10. OpenIsHeld' /\ Holding'
    BY <1>4, HeldKept
  <1>11. Place(p)' /\ Pipe(p)'
    BY <1>1, <1>4 DEF Place, Pipe, settings
  <1>12. Slot(p)'
    <2>1. Counted(fdTable'[p]) = Counted(fdTable[p])
      BY <1>2, <1>3, <1>5, <1>6, CountedEnter
    <2>2. Listener(p)' <=> Listener(p)
      <3>1. /\ fdTable'[p][fd].fid = AppHandle /\ HandleOf[p] # AppHandle
            /\ \A f \in Fds : f # fd => fdTable'[p][f] = fdTable[p][f]
        BY <1>2, <1>3, <1>5, <1>6, EnterFacts, HandleAssumption
      <3> QED BY <1>3, <1>4, <3>1 DEF Listener, Used, settings
    <2>3. /\ Used(fdTable[p]) \ Own(p) = Counted(fdTable[p])
          /\ Used(fdTable'[p]) \ Own(p)' = Counted(fdTable'[p])
      BY DEF Used, Own, Counted
    <2>4. ipcFd'[p] = -1 /\ lost'[p] = lost[p] /\ sock'[p] = None /\ pc'[p] = "app"
      BY <1>1, <1>2, <1>4
    <2> QED BY <1>1, <1>2, <2>1, <2>2, <2>3, <2>4 DEF Slot
  <1> QED BY <1>7, <1>8, <1>9, <1>10, <1>11, <1>12, OthersKept DEF AcceptIInv, Own_
------------------------------------------------------------------------------
(* A connection is accepted.                                               *)

LEMMA ConnectNamedPipeStep ==
  ASSUME AcceptIInv, NEW p \in Procs, ConnectNamedPipe(p)
  PROVE  AcceptIInv'
  <1>1. TypeOK /\ Place(p) /\ Pipe(p) /\ Slot(p) /\ pc[p] = "connect"
    BY DEF AcceptIInv, ConnectNamedPipe
  <1>2. /\ sock[p] = None /\ ipcFd[p] = -1 /\ listenType[p] = "pipe_sync" /\ kind = "pipe"
        /\ origin = "inherited" /\ None \notin Conns
    BY <1>1, HandleAssumption DEF Place
  <1>3. UNCHANGED <<settings, listenType, acceptMutex, fdTable, ipcFd, owner, client, event,
                    shutdownPending, state, lost, finished, crashes>>
    BY DEF ConnectNamedPipe
  <1>4. \/ /\ client[p] = None /\ pipe'[p] = "listening" /\ pc'[p] = "connect" /\ sock'[p] = None
           /\ pipe' = [pipe EXCEPT ![p] = "listening"] /\ pc' = pc /\ sock' = sock
        \/ /\ client[p] # None /\ pipe'[p] = pipe[p] /\ pc'[p] = "register" /\ sock'[p] = client[p]
           /\ pipe' = pipe /\ pc' = [pc EXCEPT ![p] = "register"]
           /\ sock' = [sock EXCEPT ![p] = client[p]]
    BY <1>1, <1>2 DEF ConnectNamedPipe, Goto, Pipe, TypeOK
  <1>5. TypeOK'
    <2>1. /\ pipe' \in [Procs -> {"none", "listening", "connected", "closing", "disconnected"}]
          /\ sock' \in [Procs -> Conns \cup {None}]
          /\ pc' \in [Procs -> {"start", "create", "app", "mutex", "dispatch", "connect", "select",
                                "accept", "register", "release", "serve", "exit"}]
      <3>1. CASE pipe' = [pipe EXCEPT ![p] = "listening"] /\ pc' = pc /\ sock' = sock
        BY <1>1, <3>1 DEF TypeOK
      <3>2. CASE /\ pipe' = pipe /\ pc' = [pc EXCEPT ![p] = "register"]
                 /\ sock' = [sock EXCEPT ![p] = client[p]]
        BY <1>1, <3>2 DEF TypeOK
      <3> QED BY <1>4, <3>1, <3>2
    <2> QED BY <1>1, <1>3, <2>1 DEF TypeOK, settings
  <1>6. Only(p)
    <2>1. \A q \in Procs : q # p => pipe'[q] = pipe[q] /\ pc'[q] = pc[q] /\ sock'[q] = sock[q]
      <3>1. CASE pipe' = [pipe EXCEPT ![p] = "listening"] /\ pc' = pc /\ sock' = sock
        BY <1>1, <3>1 DEF TypeOK
      <3>2. CASE /\ pipe' = pipe /\ pc' = [pc EXCEPT ![p] = "register"]
                 /\ sock' = [sock EXCEPT ![p] = client[p]]
        BY <1>1, <3>2 DEF TypeOK
      <3> QED BY <1>4, <3>1, <3>2
    <2> QED BY <1>3, <2>1 DEF Only
  <1>7. MutexInv' /\ SharedMutex'
    <2>1. acceptMutex' = acceptMutex /\ owner' = owner /\ pc'[p] \in {"connect", "register"}
      BY <1>3, <1>4
    <2> QED BY <1>1, <1>6, <2>1, MutexStep, SharedStep
  <1>8. OpenIsHeld' /\ Holding'
    <2>1. Held(p) = {client[p]} \ {None} /\ {sock'[p], client'[p]} \ {None} = Held(p)
      BY <1>2, <1>3, <1>4 DEF Held
    <2>2. Held(p) \in SUBSET Conns /\ \A c \in Held(p) : state'[c] \in {"open", "closed"}
      BY <1>1, <1>3 DEF AcceptIInv, Holding, TypeOK, Held
    <2>3. \A q \in Procs : q # p => sock'[q] = sock[q] /\ client'[q] = client[q] /\ lost'[q] = lost[q]
      BY <1>6 DEF Only
    <2>4. state' = state /\ finished' = finished /\ lost' = lost
      BY <1>3
    <2>5. Moves(p, Held(p))
      BY <2>1, <2>2, <2>3, <2>4 DEF Moves
    <2> QED BY <2>2, <2>5, HoldingStep
  <1>9. Place(p)'
    BY <1>1, <1>2, <1>3, <1>4 DEF Place, settings
  <1>10. Pipe(p)'
    BY <1>1, <1>2, <1>3, <1>4 DEF Pipe, settings
  <1>11. Slot(p)'
    BY <1>1, <1>2, <1>3, <1>4 DEF Slot, Own, Listener, settings
  <1> QED BY <1>5, <1>6, <1>7, <1>8, <1>9, <1>10, <1>11, OthersKept DEF AcceptIInv, Own_

\* On the way of acceptSocket the process holds nothing yet.
LEMMA NothingHeld ==
  ASSUME AcceptIInv, NEW p \in Procs, pc[p] = "accept"
  PROVE  /\ sock[p] = None /\ client[p] = None /\ ipcFd[p] = -1 /\ Held(p) = {}
         /\ listenType[p] = "socket_sync" /\ kind = "socket" /\ pipe[p] = "none"
  BY DEF AcceptIInv, Place, Pipe, Held

LEMMA AcceptSocketStep ==
  ASSUME AcceptIInv, NEW p \in Procs, AcceptSocket(p)
  PROVE  AcceptIInv'
  <1>1. TypeOK /\ Place(p) /\ Pipe(p) /\ Slot(p) /\ pc[p] = "accept" /\ None \notin Conns
    BY HandleAssumption DEF AcceptIInv, AcceptSocket
  <1>2. UNCHANGED <<settings, listenType, acceptMutex, fdTable, ipcFd, owner, pipe, client, event,
                    shutdownPending, lost, finished, crashes>>
    BY DEF AcceptSocket
  <1>3. PICK c \in Conns :
          /\ state[c] = "waiting"
          /\ \/ /\ isAddrOK(webServerAddrs, AddressOf[c])
                /\ state' = [state EXCEPT ![c] = "open"]
                /\ sock' = [sock EXCEPT ![p] = c]
                /\ pc' = [pc EXCEPT ![p] = "register"]
             \/ /\ state' = [state EXCEPT ![c] = "closed"]
                /\ pc' = [pc EXCEPT ![p] = "select"]
                /\ sock' = sock
    BY DEF AcceptSocket, Waiting, Goto
  <1>4. /\ state'[c] \in {"open", "closed"}
        /\ \A d \in Conns : d # c => state'[d] = state[d]
        /\ \A q \in Procs : q # p => pc'[q] = pc[q] /\ sock'[q] = sock[q]
        /\ \/ /\ isAddrOK(webServerAddrs, AddressOf[c]) /\ state'[c] = "open"
              /\ sock'[p] = c /\ pc'[p] = "register"
           \/ state'[c] = "closed" /\ sock'[p] = sock[p] /\ pc'[p] = "select"
    BY <1>1, <1>3 DEF TypeOK
  <1>5. TypeOK'
    <2>1. /\ state' \in [Conns -> {"new", "waiting", "open", "closed"}]
          /\ sock' \in [Procs -> Conns \cup {None}]
          /\ pc' \in [Procs -> {"start", "create", "app", "mutex", "dispatch", "connect", "select",
                                "accept", "register", "release", "serve", "exit"}]
      <3>1. CASE /\ state' = [state EXCEPT ![c] = "open"]
                 /\ sock' = [sock EXCEPT ![p] = c] /\ pc' = [pc EXCEPT ![p] = "register"]
        BY <1>1, <3>1 DEF TypeOK
      <3>2. CASE /\ state' = [state EXCEPT ![c] = "closed"]
                 /\ sock' = sock /\ pc' = [pc EXCEPT ![p] = "select"]
        BY <1>1, <3>2 DEF TypeOK
      <3> QED BY <1>3, <3>1, <3>2
    <2> QED BY <1>1, <1>2, <2>1 DEF TypeOK, settings
  <1>6. Only(p)
    BY <1>2, <1>4 DEF Only
  <1>7. MutexInv' /\ SharedMutex'
    <2>1. acceptMutex' = acceptMutex /\ owner' = owner /\ pc'[p] \in {"select", "register"}
      BY <1>2, <1>4
    <2> QED BY <1>1, <1>6, <2>1, MutexStep, SharedStep
  <1>8. OpenIsHeld' /\ Holding'
    <2> DEFINE H == IF pc'[p] = "register" THEN {c} ELSE {}
    <2>1. {sock'[p], client'[p]} \ {None} = H
      BY <1>1, <1>2, <1>4, NothingHeld
    <2>2. /\ H \in SUBSET Conns
          /\ \A d \in H : state'[d] \in {"open", "closed"} /\ state[d] \in {"new", "waiting"}
          /\ \A d \in Conns : state[d] \in {"open", "closed"} => state'[d] \in {"open", "closed"}
          /\ \A d \in Conns : state'[d] = "open" => d \in H \/ state[d] = "open"
      BY <1>3, <1>4
    <2>3. \A q \in Procs : q # p => sock'[q] = sock[q] /\ client'[q] = client[q] /\ lost'[q] = lost[q]
      BY <1>6 DEF Only
    <2>4. Held(p) = {} /\ finished' = finished /\ lost' = lost
      BY <1>1, <1>2, NothingHeld
    <2> HIDE DEF H
    <2>5. Moves(p, H)
      BY <2>1, <2>2, <2>3, <2>4 DEF Moves
    <2> QED BY <2>2, <2>5, HoldingStep
  <1>9. Place(p)'
    BY <1>1, <1>2, <1>4, NothingHeld DEF Place, settings
  <1>10. Pipe(p)'
    BY <1>1, <1>2, <1>4, NothingHeld DEF Pipe, settings
  <1>11. Slot(p)'
    <2>1. isAddrOK(webServerAddrs, AddressOf[c]) /\ webServerAddrs # <<>>
             => AddressOf[c] \in ToSet(webServerAddrs)
      BY DEF isAddrOK, ToSet
    <2>2. sock'[p] = c => isAddrOK(webServerAddrs, AddressOf[c])
      BY <1>1, <1>4, NothingHeld
    <2>3. sock'[p] # None => sock'[p] = c
      BY <1>1, <1>4, NothingHeld
    <2>4. ipcFd'[p] = -1 /\ pc'[p] # "exit" /\ pc[p] # "exit"
      BY <1>1, <1>2, <1>4, NothingHeld
    <2> QED BY <1>1, <1>2, <2>1, <2>2, <2>3, <2>4, NothingHeld DEF Slot, Own, Listener, settings
  <1> QED BY <1>5, <1>6, <1>7, <1>8, <1>9, <1>10, <1>11, OthersKept DEF AcceptIInv, Own_

LEMMA AcceptFailsStep ==
  ASSUME AcceptIInv, NEW p \in Procs, AcceptFails(p)
  PROVE  AcceptIInv'
  <1>1. TypeOK /\ Place(p) /\ Pipe(p) /\ Slot(p) /\ pc[p] = "accept" /\ None \notin Conns
    BY HandleAssumption DEF AcceptIInv, AcceptFails
  <1>2. /\ UNCHANGED <<settings, process, owner, pipe, client, event, shutdownPending, lost,
                       finished, crashes>>
        /\ pc' = [pc EXCEPT ![p] = "release"]
    BY DEF AcceptFails, Goto
  <1>3. PICK c \in Conns : state[c] = "waiting" /\ state' = [state EXCEPT ![c] = "closed"]
    BY DEF AcceptFails, Waiting
  <1>4. /\ \A d \in Conns : state'[d] = IF d = c THEN "closed" ELSE state[d]
        /\ state' \in [Conns -> {"new", "waiting", "open", "closed"}]
        /\ pc'[p] = "release" /\ \A q \in Procs : q # p => pc'[q] = pc[q]
    BY <1>1, <1>2, <1>3 DEF TypeOK
  <1>5. TypeOK'
    BY <1>1, <1>2, <1>4 DEF TypeOK, settings, process
  <1>6. Only(p)
    BY <1>2, <1>4 DEF Only, process
  <1>7. MutexInv' /\ SharedMutex'
    <2>1. acceptMutex' = acceptMutex /\ owner' = owner
      BY <1>2 DEF process
    <2> QED BY <1>1, <1>4, <1>6, <2>1, MutexStep, SharedStep
  <1>8. OpenIsHeld' /\ Holding'
    <2>1. /\ {sock'[p], client'[p]} \ {None} = {} /\ Held(p) = {}
          /\ finished' = finished /\ lost' = lost
      BY <1>1, <1>2, NothingHeld DEF process
    <2>2. /\ \A d \in Conns : state[d] \in {"open", "closed"} => state'[d] \in {"open", "closed"}
          /\ \A d \in Conns : state'[d] = "open" => state[d] = "open"
      BY <1>4
    <2>3. \A q \in Procs : q # p => sock'[q] = sock[q] /\ client'[q] = client[q] /\ lost'[q] = lost[q]
      BY <1>6 DEF Only
    <2>4. Moves(p, {})
      BY <2>1, <2>2, <2>3 DEF Moves
    <2> QED BY <2>4, HoldingStep
  <1>9. Place(p)' /\ Pipe(p)'
    BY <1>1, <1>2, <1>4, NothingHeld DEF Place, Pipe, settings, process
  <1>10. Slot(p)'
    BY <1>1, <1>2, <1>4, SlotKept DEF settings, process
  <1> QED BY <1>5, <1>6, <1>7, <1>8, <1>9, <1>10, OthersKept DEF AcceptIInv, Own_
------------------------------------------------------------------------------
(* A connection gets its descriptor, and is closed.                        *)

\* What is accepted and not closed is the connection at the other end of the
\* pipe, or the socket, and nothing else is held.
LEMMA OneHeld ==
  ASSUME AcceptIInv, NEW p \in Procs, pc[p] = "register" \/ ipcFd[p] # -1
  PROVE  /\ sock[p] \in Conns /\ sock[p] # None /\ Held(p) = {sock[p]}
         /\ \/ /\ listenType[p] = "pipe_sync" /\ client[p] = sock[p]
               /\ origin = "inherited" /\ kind = "pipe" /\ pipe[p] \in {"connected", "closing"}
            \/ /\ listenType[p] = "socket_sync" /\ client[p] = None
               /\ kind = "socket" /\ pipe[p] = "none"
  <1>1. TypeOK /\ Place(p) /\ Pipe(p)
    BY DEF AcceptIInv
  <1>2. sock[p] # None /\ listenType[p] \in {"pipe_sync", "socket_sync"}
    BY <1>1 DEF Place
  <1>3. sock[p] \in Conns
    BY <1>1, <1>2 DEF TypeOK
  <1>4. CASE listenType[p] = "pipe_sync"
    BY <1>1, <1>2, <1>3, <1>4 DEF Place, Pipe, Held
  <1>5. CASE listenType[p] = "socket_sync"
    BY <1>1, <1>2, <1>3, <1>5 DEF Place, Pipe, Held
  <1> QED BY <1>2, <1>4, <1>5

\* The handle of what is accepted is nobody else's.
Handle(p) == HandleOf[IF listenType[p] = "pipe_sync" THEN p ELSE sock[p]]

LEMMA HandleFacts ==
  ASSUME AcceptIInv, NEW p \in Procs, pc[p] = "register" \/ ipcFd[p] # -1
  PROVE  /\ Handle(p) \in Nat \ {0} /\ Handle(p) # AppHandle
         /\ origin = "created" => Handle(p) # HandleOf[p]
  <1>1. CASE listenType[p] = "pipe_sync"
    BY <1>1, OneHeld, HandleAssumption DEF Handle
  <1>2. CASE listenType[p] = "socket_sync"
    <2>1. sock[p] \in Conns /\ sock[p] # p
      BY OneHeld, HandleAssumption
    <2> QED BY <1>2, <2>1, HandleAssumption DEF Handle
  <1> QED BY <1>1, <1>2, OneHeld

\* p lets go of what it holds and closes it.
LetsGo(p) ==
    /\ sock'[p] = None /\ client'[p] = None /\ lost' = lost
    /\ \A c \in Conns : state'[c] = IF c \in Held(p) THEN "closed" ELSE state[c]
    /\ \A c \in finished' : c \in finished \/ c \in Held(p)

LEMMA LetsGoStep ==
  ASSUME AcceptIInv, NEW p \in Procs, Only(p), LetsGo(p)
  PROVE  OpenIsHeld' /\ Holding'
  <1>1. {sock'[p], client'[p]} \ {None} = {} /\ Held(p) \subseteq Conns
    BY DEF LetsGo, AcceptIInv, TypeOK, Held
  <1>2. /\ \A c \in Held(p) : state'[c] = "closed"
        /\ \A c \in Conns : state[c] \in {"open", "closed"} => state'[c] \in {"open", "closed"}
        /\ \A c \in Conns : state'[c] = "open" => state[c] = "open"
    BY <1>1 DEF LetsGo
  <1>3. \A q \in Procs : q # p => sock'[q] = sock[q] /\ client'[q] = client[q] /\ lost'[q] = lost[q]
    BY DEF Only
  <1>4. lost' = lost /\ \A c \in finished' : c \in finished \/ c \in Held(p)
    BY DEF LetsGo
  <1>5. Moves(p, {})
    BY <1>1, <1>2, <1>3, <1>4 DEF Moves
  <1> QED BY <1>5, HoldingStep

LEMMA RegisterStep ==
  ASSUME AcceptIInv, NEW p \in Procs, Register(p)
  PROVE  AcceptIInv'
  <1>1. TypeOK /\ Place(p) /\ Pipe(p) /\ Slot(p) /\ pc[p] = "register" /\ None \notin Conns
    BY HandleAssumption DEF AcceptIInv, Register
  <1>2. ipcFd[p] = -1 /\ fdTable[p] \in Table
    BY <1>1 DEF Place, TypeOK, Table
  <1>3. /\ UNCHANGED <<settings, listenType, acceptMutex, owner, event, shutdownPending, lost,
                       finished, crashes>>
        /\ pc' = [pc EXCEPT ![p] = "release"]
    BY DEF Register, Goto
  <1>4. PICK fd \in (Fds \ Used(fdTable[p])) \cup {-1} :
          /\ ipcFd' = [ipcFd EXCEPT ![p] = fd]
          /\ \/ /\ fd # -1
                /\ fdTable' = [fdTable EXCEPT ![p] = Enter(fdTable[p], fd, listenType[p], Handle(p))]
                /\ UNCHANGED <<sock, state, pipe, client>>
             \/ /\ fd = -1
                /\ sock' = [sock EXCEPT ![p] = None]
                /\ state' = [c \in Conns |-> IF c \in Held(p) THEN "closed" ELSE state[c]]
                /\ pipe' = [pipe EXCEPT ![p] = IF pipe[p] = "none" THEN "none" ELSE "disconnected"]
                /\ client' = [client EXCEPT ![p] = None]
                /\ UNCHANGED fdTable
    <2>1. Handle(p) = IF listenType[p] = "pipe_sync" THEN HandleOf[p] ELSE HandleOf[sock[p]]
      BY DEF Handle
    <2>2. /\ Win32NewDescriptor(fdTable[p], Handle(p), -1) \in (Fds \ Used(fdTable[p])) \cup {-1}
      BY <1>1, <1>2, HandleFacts, NewDescriptor DEF Table
    <2>3. /\ ipcFd' = [ipcFd EXCEPT ![p] = Win32NewDescriptor(fdTable[p], Handle(p), -1)]
          /\ \/ /\ Win32NewDescriptor(fdTable[p], Handle(p), -1) # -1
                /\ fdTable' = [fdTable EXCEPT ![p] =
                                 Enter(fdTable[p], Win32NewDescriptor(fdTable[p], Handle(p), -1),
                                       listenType[p], Handle(p))]
                /\ UNCHANGED <<sock, state, pipe, client>>
             \/ /\ Win32NewDescriptor(fdTable[p], Handle(p), -1) = -1
                /\ sock' = [sock EXCEPT ![p] = None]
                /\ state' = [c \in Conns |-> IF c \in Held(p) THEN "closed" ELSE state[c]]
                /\ pipe' = [pipe EXCEPT ![p] = IF pipe[p] = "none" THEN "none" ELSE "disconnected"]
                /\ client' = [client EXCEPT ![p] = None]
                /\ UNCHANGED fdTable
      BY <2>1 DEF Register
    <2> QED BY <2>2, <2>3
  <1>5. /\ pc'[p] = "release" /\ ipcFd'[p] = fd
        /\ pc' \in [Procs -> {"start", "create", "app", "mutex", "dispatch", "connect", "select",
                              "accept", "register", "release", "serve", "exit"}]
        /\ ipcFd' \in [Procs -> Fds \cup {-1}]
        /\ \A q \in Procs : q # p => pc'[q] = pc[q] /\ ipcFd'[q] = ipcFd[q]
    BY <1>1, <1>3, <1>4 DEF TypeOK
  <1>6. Handle(p)' = HandleOf[IF listenType[p] = "pipe_sync" THEN p ELSE sock'[p]]
    BY <1>3 DEF Handle
  <1>7. CASE fd # -1
    <2>1. /\ UNCHANGED <<sock, state, pipe, client>>
          /\ fdTable' = [fdTable EXCEPT ![p] = Enter(fdTable[p], fd, listenType[p], Handle(p))]
      BY <1>4, <1>7
    <2>2. /\ fd \in Fds \ Used(fdTable[p]) /\ listenType[p] \in Types \ {"unused"}
          /\ Handle(p) \in Nat /\ Handle(p) # AppHandle
      BY <1>1, <1>4, <1>7, HandleFacts, OneHeld DEF Types
    <2>3. Enter(fdTable[p], fd, listenType[p], Handle(p)) \in Table
      BY <1>2, <2>2, EnterFacts
    <2>4. /\ fdTable' \in [Procs -> Table] /\ \A q \in Procs : q # p => fdTable'[q] = fdTable[q]
          /\ fdTable'[p] = Enter(fdTable[p], fd, listenType[p], Handle(p))
      <3>1. fdTable \in [Procs -> Table]
        BY <1>1 DEF TypeOK, Table
      <3> QED BY <2>1, <2>3, <3>1
    <2>5. TypeOK'
      BY <1>1, <1>3, <1>5, <2>1, <2>4 DEF TypeOK, Table, settings
    <2>6. Only(p)
      BY <1>3, <1>5, <2>1, <2>4 DEF Only
    <2>7. MutexInv' /\ SharedMutex'
      BY <1>1, <1>3, <1>5, <2>6, MutexStep, SharedStep
    <2>8. OpenIsHeld' /\ Holding'
      BY <1>3, <2>1, HeldKept
    <2>9. Place(p)' /\ Pipe(p)'
      BY <1>1, <1>2, <1>3, <1>5, <1>7, <2>1 DEF Place, Pipe, settings
    <2>10. Slot(p)'
      <3>1. /\ fdTable'[p][fd].type = listenType[p] /\ fdTable'[p][fd].fid = Handle(p)
            /\ \A f \in Fds : f # fd => fdTable'[p][f] = fdTable[p][f]
        BY <1>2, <2>2, <2>4, EnterFacts
      <3>2. Cardinality(Counted(fdTable'[p])) = Cardinality(Counted(fdTable[p])) + 1
        BY <1>2, <2>2, <2>4, CountedEnter
      <3>3. Listener(p)' <=> Listener(p)
        <4>1. origin' = origin /\ (origin = "created" => Handle(p) # HandleOf[p])
          BY <1>1, <1>3, HandleFacts DEF settings
        <4> QED BY <2>2, <3>1, <4>1 DEF Listener, Used
      <3>4. /\ Used(fdTable[p]) \ Own(p) = Counted(fdTable[p])
            /\ Used(fdTable'[p]) \ Own(p)' = Counted(fdTable'[p])
        BY DEF Used, Own, Counted
      <3>5. lost[p] \in Nat /\ lost' = lost /\ listenType' = listenType /\ sock' = sock
        BY <1>1, <1>3, <2>1 DEF TypeOK
      <3>6. Cardinality(Used(fdTable[p]) \ Own(p)) = lost[p] + (IF Listener(p) THEN 1 ELSE 0)
        BY <1>1, <1>2, <3>5 DEF Slot
      <3>7. Cardinality(Used(fdTable'[p]) \ Own(p)') = lost'[p] + 1 + (IF Listener(p)' THEN 1 ELSE 0)
        <4>1. (IF Listener(p)' THEN 1 ELSE 0) = (IF Listener(p) THEN 1 ELSE 0)
          BY <3>3
        <4>2. (IF Listener(p) THEN 1 ELSE 0) \in Nat
          OBVIOUS
        <4> HIDE DEF Listener
        <4> QED BY <3>2, <3>4, <3>5, <3>6, <4>1, <4>2
      <3>8. /\ fdTable'[p][ipcFd'[p]].type = listenType'[p]
            /\ fdTable'[p][ipcFd'[p]].fid = HandleOf[IF listenType'[p] = "pipe_sync" THEN p ELSE sock'[p]]
        BY <1>5, <3>1, <3>5 DEF Handle
      <3>9. UNCHANGED <<kind, webServerAddrs>>
        BY <1>3 DEF settings
      <3> QED BY <1>1, <1>5, <1>7, <3>5, <3>7, <3>8, <3>9 DEF Slot
    <2> QED BY <2>5, <2>6, <2>7, <2>8, <2>9, <2>10, OthersKept DEF AcceptIInv, Own_
  <1>8. CASE fd = -1
    <2>1. /\ sock' = [sock EXCEPT ![p] = None]
          /\ state' = [c \in Conns |-> IF c \in Held(p) THEN "closed" ELSE state[c]]
          /\ pipe' = [pipe EXCEPT ![p] = IF pipe[p] = "none" THEN "none" ELSE "disconnected"]
          /\ client' = [client EXCEPT ![p] = None]
          /\ UNCHANGED fdTable
      BY <1>4, <1>8, FdsFinite
    <2>2. /\ sock'[p] = None /\ client'[p] = None
          /\ pipe'[p] = IF pipe[p] = "none" THEN "none" ELSE "disconnected"
          /\ sock' \in [Procs -> Conns \cup {None}] /\ client' \in [Procs -> Conns \cup {None}]
          /\ pipe' \in [Procs -> {"none", "listening", "connected", "closing", "disconnected"}]
          /\ state' \in [Conns -> {"new", "waiting", "open", "closed"}]
          /\ \A q \in Procs : q # p =>
                sock'[q] = sock[q] /\ client'[q] = client[q] /\ pipe'[q] = pipe[q]
      BY <1>1, <2>1 DEF TypeOK
    <2>3. TypeOK'
      BY <1>1, <1>3, <1>5, <2>1, <2>2 DEF TypeOK, settings
    <2>4. Only(p)
      BY <1>3, <1>5, <2>1, <2>2 DEF Only
    <2>5. MutexInv' /\ SharedMutex'
      BY <1>1, <1>3, <1>5, <2>4, MutexStep, SharedStep
    <2>6. OpenIsHeld' /\ Holding'
      <3>1. LetsGo(p)
        BY <1>3, <2>1, <2>2 DEF LetsGo
      <3> QED BY <2>4, <3>1, LetsGoStep
    <2>7. Place(p)' /\ Pipe(p)'
      BY <1>1, <1>2, <1>3, <1>5, <1>8, <2>1, <2>2 DEF Place, Pipe, settings
    <2>8. Slot(p)'
      BY <1>1, <1>2, <1>3, <1>5, <1>8, <2>1, <2>2, SlotKept DEF settings
    <2> QED BY <2>3, <2>4, <2>5, <2>6, <2>7, <2>8, OthersKept DEF AcceptIInv, Own_
  <1> QED BY <1>7, <1>8

LEMMA ReleaseStep ==
  ASSUME AcceptIInv, NEW p \in Procs, Release(p)
  PROVE  AcceptIInv'
  <1>1. TypeOK /\ Place(p) /\ Pipe(p) /\ Slot(p) /\ pc[p] = "release"
    BY DEF AcceptIInv, Release
  <1>2. CASE ipcFd[p] = -1
    <2>1. shutdownPending' \in [Procs -> BOOLEAN] /\ crashes' \in 0 .. MaxCrashes
      BY <1>1 DEF TypeOK, Release
    <2> QED BY <1>2, <2>1, EndsStep DEF Release
  <1>3. CASE ipcFd[p] # -1
    <2>1. /\ pc' = [pc EXCEPT ![p] = "serve"]
          /\ owner' = IF owner = p THEN None ELSE owner
          /\ UNCHANGED <<settings, process, pipe, client, state, event, shutdownPending, lost,
                         finished, crashes>>
      BY <1>3 DEF Release, Goto, process
    <2>2. TypeOK' /\ pc'[p] = "serve"
      BY <1>1, <2>1 DEF TypeOK, settings, process
    <2>3. Only(p)
      BY <1>1, <2>1 DEF TypeOK, Only, process
    <2>4. MutexInv' /\ SharedMutex'
      <3>1. acceptMutex' = acceptMutex
        BY <2>1 DEF process
      <3> QED BY <1>1, <2>1, <2>2, <2>3, <3>1, MutexStep, SharedStep
    <2>5. OpenIsHeld' /\ Holding'
      BY <2>1, HeldKept DEF process
    <2>6. Place(p)' /\ Pipe(p)'
      BY <1>1, <1>3, <2>1, <2>2 DEF Place, Pipe, settings, process
    <2>7. Slot(p)'
      BY <1>1, <2>1, <2>2, SlotKept DEF settings, process
    <2> QED BY <2>2, <2>3, <2>4, <2>5, <2>6, <2>7, OthersKept DEF AcceptIInv, Own_
  <1> QED BY <1>2, <1>3

\* The close of what is served frees its slot.
LEMMA FreeSlot ==
  ASSUME AcceptIInv, NEW p \in Procs, ipcFd[p] # -1,
         fdTable' = [fdTable EXCEPT ![p] = Win32FreeDescriptor(fdTable[p], ipcFd[p])],
         ipcFd'[p] = -1, sock'[p] = None, pc[p] # "exit",
         UNCHANGED <<settings, lost>>
  PROVE  /\ fdTable' \in [Procs -> Table] /\ \A q \in Procs : q # p => fdTable'[q] = fdTable[q]
         /\ Slot(p)'
  <1>1. TypeOK /\ Slot(p) /\ fdTable[p] \in Table /\ ipcFd[p] \in Fds
    BY DEF AcceptIInv, TypeOK, Table
  <1>2. /\ fdTable[p][ipcFd[p]].type # "unused" /\ fdTable[p][ipcFd[p]].fid = Handle(p)
        /\ Handle(p) # AppHandle /\ (origin = "created" => Handle(p) # HandleOf[p])
    <2>1. listenType[p] # "unused" /\ fdTable[p][ipcFd[p]].type = listenType[p]
      BY <1>1, OneHeld DEF Slot
    <2>2. fdTable[p][ipcFd[p]].fid = Handle(p)
      BY <1>1 DEF Slot, Handle
    <2> QED BY <2>1, <2>2, HandleFacts
  <1>3. Win32FreeDescriptor(fdTable[p], ipcFd[p]) \in Table
    BY <1>1, FreeFacts
  <1>4. /\ fdTable' \in [Procs -> Table] /\ \A q \in Procs : q # p => fdTable'[q] = fdTable[q]
        /\ fdTable'[p] = Win32FreeDescriptor(fdTable[p], ipcFd[p])
    <2>1. fdTable \in [Procs -> Table]
      BY <1>1 DEF TypeOK, Table
    <2> QED BY <1>3, <2>1
  <1>5. /\ fdTable'[p][ipcFd[p]].type = "unused"
        /\ \A f \in Fds : f # ipcFd[p] => fdTable'[p][f] = fdTable[p][f]
    BY <1>1, <1>4, FreeFacts
  <1>6. Cardinality(Counted(fdTable'[p])) = Cardinality(Counted(fdTable[p])) - 1
    BY <1>1, <1>2, <1>4, CountedFree
  <1>7. Listener(p)' <=> Listener(p)
    BY <1>1, <1>2, <1>5 DEF Listener, Used, settings
  <1>8. /\ Used(fdTable[p]) \ Own(p) = Counted(fdTable[p])
        /\ Used(fdTable'[p]) \ Own(p)' = Counted(fdTable'[p])
    BY DEF Used, Own, Counted
  <1>9. Cardinality(Used(fdTable[p]) \ Own(p)) = lost[p] + 1 + (IF Listener(p) THEN 1 ELSE 0)
    BY <1>1 DEF Slot
  <1>10. Cardinality(Used(fdTable'[p]) \ Own(p)') = lost'[p] + 0 + (IF Listener(p)' THEN 1 ELSE 0)
    <2>1. PICK n \in Nat : n = IF Listener(p) THEN 1 ELSE 0
      OBVIOUS
    <2>2. n = IF Listener(p)' THEN 1 ELSE 0
      BY <1>7, <2>1
    <2>3. lost[p] \in Nat /\ lost'[p] = lost[p]
      BY <1>1 DEF TypeOK
    <2>4. Cardinality(Used(fdTable[p]) \ Own(p)) = lost[p] + 1 + n
      BY <1>9, <2>1
    <2>5. Cardinality(Used(fdTable'[p]) \ Own(p)') = Cardinality(Used(fdTable[p]) \ Own(p)) - 1
      BY <1>6, <1>8
    <2>6. Cardinality(Used(fdTable'[p]) \ Own(p)') = lost'[p] + 0 + n
      BY <2>3, <2>4, <2>5
    <2> QED BY <2>2, <2>6
  <1> QED BY <1>4, <1>10 DEF Slot

LEMMA IpcCloseStep ==
  ASSUME AcceptIInv, NEW p \in Procs, IpcClosePipe(p) \/ IpcCloseSocket(p)
  PROVE  AcceptIInv'
  <1>1. TypeOK /\ Place(p) /\ Pipe(p) /\ pc[p] = "serve" /\ ipcFd[p] # -1 /\ None \notin Conns
    BY HandleAssumption DEF AcceptIInv, Place, IpcClosePipe, IpcCloseSocket
  <1>2. sock[p] \in Conns /\ sock[p] # None /\ Held(p) = {sock[p]}
    BY <1>1, OneHeld
  <1>3. /\ UNCHANGED <<settings, listenType, acceptMutex, owner, event, shutdownPending, lost, crashes>>
        /\ fdTable' = [fdTable EXCEPT ![p] = Win32FreeDescriptor(fdTable[p], ipcFd[p])]
        /\ ipcFd' = [ipcFd EXCEPT ![p] = -1] /\ sock' = [sock EXCEPT ![p] = None]
        /\ finished' = finished \cup {sock[p]}
        /\ pc' = [pc EXCEPT ![p] = "app"]
    BY DEF IpcClosePipe, IpcCloseSocket, Goto
  <1>4. /\ pc'[p] = "app" /\ ipcFd'[p] = -1 /\ sock'[p] = None
        /\ pc' \in [Procs -> {"start", "create", "app", "mutex", "dispatch", "connect", "select",
                              "accept", "register", "release", "serve", "exit"}]
        /\ ipcFd' \in [Procs -> Fds \cup {-1}] /\ sock' \in [Procs -> Conns \cup {None}]
        /\ finished' \subseteq Conns
        /\ \A q \in Procs : q # p => pc'[q] = pc[q] /\ ipcFd'[q] = ipcFd[q] /\ sock'[q] = sock[q]
    BY <1>1, <1>2, <1>3 DEF TypeOK
  <1>5. /\ \A c \in Conns : state'[c] = IF c \in Held(p) THEN "closed" ELSE state[c]
        /\ state' \in [Conns -> {"new", "waiting", "open", "closed"}]
        /\ client'[p] = None /\ pipe'[p] \in {"none", "disconnected"}
        /\ kind = "socket" => pipe'[p] = "none"
        /\ client' \in [Procs -> Conns \cup {None}]
        /\ pipe' \in [Procs -> {"none", "listening", "connected", "closing", "disconnected"}]
        /\ \A q \in Procs : q # p => client'[q] = client[q] /\ pipe'[q] = pipe[q]
    <2>1. CASE IpcClosePipe(p)
      <3>1. client[p] = sock[p] /\ kind = "pipe"
        BY <1>1, <2>1, OneHeld DEF IpcClosePipe
      <3>2. /\ pipe' = [pipe EXCEPT ![p] = "disconnected"] /\ client' = [client EXCEPT ![p] = None]
            /\ state' = [c \in Conns |-> IF c = sock[p] THEN "closed" ELSE state[c]]
        BY <2>1, <3>1 DEF IpcClosePipe
      <3> QED BY <1>1, <1>2, <3>1, <3>2 DEF TypeOK
    <2>2. CASE IpcCloseSocket(p)
      <3>1. client[p] = None /\ pipe[p] = "none"
        BY <1>1, <2>2, OneHeld DEF IpcCloseSocket
      <3>2. pipe' = pipe /\ client' = client /\ state' = [state EXCEPT ![sock[p]] = "closed"]
        BY <2>2 DEF IpcCloseSocket
      <3> QED BY <1>1, <1>2, <3>1, <3>2 DEF TypeOK
    <2> QED BY <2>1, <2>2
  <1>6. Slot(p)' /\ fdTable' \in [Procs -> Table] /\ \A q \in Procs : q # p => fdTable'[q] = fdTable[q]
    BY <1>1, <1>3, <1>4, FreeSlot
  <1>7. TypeOK'
    BY <1>1, <1>3, <1>4, <1>5, <1>6 DEF TypeOK, Table, settings
  <1>8. Only(p)
    BY <1>3, <1>4, <1>5, <1>6 DEF Only
  <1>9. MutexInv' /\ SharedMutex'
    BY <1>1, <1>3, <1>4, <1>8, MutexStep, SharedStep
  <1>10. OpenIsHeld' /\ Holding'
    <2>1. LetsGo(p)
      BY <1>2, <1>3, <1>4, <1>5 DEF LetsGo
    <2> QED BY <1>8, <2>1, LetsGoStep
  <1>11. Place(p)' /\ Pipe(p)'
    BY <1>1, <1>3, <1>4, <1>5 DEF Place, Pipe, settings
  <1> QED BY <1>6, <1>7, <1>8, <1>9, <1>10, <1>11, OthersKept DEF AcceptIInv, Own_

LEMMA IpcCloseFailsStep ==
  ASSUME AcceptIInv, NEW p \in Procs, IpcCloseFails(p)
  PROVE  AcceptIInv'
  <1>1. /\ TypeOK /\ Place(p) /\ Pipe(p) /\ Slot(p) /\ pc[p] = "serve" /\ pipe[p] = "closing"
        /\ ipcFd[p] # -1 /\ None \notin Conns
    BY HandleAssumption DEF AcceptIInv, Place, IpcCloseFails
  <1>2. /\ sock[p] \in Conns /\ sock[p] # None /\ Held(p) = {sock[p]}
        /\ client[p] = sock[p] /\ kind = "pipe"
    BY <1>1, OneHeld
  <1>3. /\ UNCHANGED <<settings, listenType, acceptMutex, fdTable, owner, pipe, client, event,
                       shutdownPending, state, crashes>>
        /\ lost' = [lost EXCEPT ![p] = lost[p] + 1]
        /\ ipcFd' = [ipcFd EXCEPT ![p] = -1] /\ sock' = [sock EXCEPT ![p] = None]
        /\ finished' = finished \cup {sock[p]}
        /\ pc' = [pc EXCEPT ![p] = "app"]
    BY DEF IpcCloseFails, Goto
  <1>4. /\ pc'[p] = "app" /\ ipcFd'[p] = -1 /\ sock'[p] = None
        /\ lost'[p] = lost[p] + 1 /\ lost[p] \in Nat /\ lost' \in [Procs -> Nat]
        /\ pc' \in [Procs -> {"start", "create", "app", "mutex", "dispatch", "connect", "select",
                              "accept", "register", "release", "serve", "exit"}]
        /\ ipcFd' \in [Procs -> Fds \cup {-1}] /\ sock' \in [Procs -> Conns \cup {None}]
        /\ finished' \subseteq Conns
        /\ \A q \in Procs : q # p => /\ pc'[q] = pc[q] /\ ipcFd'[q] = ipcFd[q]
                                     /\ sock'[q] = sock[q] /\ lost'[q] = lost[q]
    BY <1>1, <1>2, <1>3 DEF TypeOK
  <1>5. TypeOK'
    BY <1>1, <1>3, <1>4 DEF TypeOK, settings
  <1>6. Only(p)
    BY <1>3, <1>4 DEF Only
  <1>7. MutexInv' /\ SharedMutex'
    BY <1>1, <1>3, <1>4, <1>6, MutexStep, SharedStep
  <1>8. OpenIsHeld' /\ Holding'
    <2>1. {sock'[p], client'[p]} \ {None} = Held(p) /\ Held(p) \in SUBSET Conns
      BY <1>2, <1>3, <1>4
    <2>2. \A c \in Held(p) : state'[c] \in {"open", "closed"}
      BY <1>3 DEF AcceptIInv, Holding
    <2>3. lost'[p] # 0 /\ \A c \in finished' : c \in finished \/ c \in Held(p)
      BY <1>2, <1>3, <1>4
    <2>4. /\ \A q \in Procs : q # p => sock'[q] = sock[q] /\ client'[q] = client[q] /\ lost'[q] = lost[q]
          /\ state' = state
      BY <1>3, <1>4
    <2>5. Moves(p, Held(p))
      BY <2>1, <2>2, <2>3, <2>4 DEF Moves
    <2> QED BY <2>1, <2>5, HoldingStep
  <1>9. Place(p)' /\ Pipe(p)'
    BY <1>1, <1>3, <1>4 DEF Place, Pipe, settings
  <1>10. Slot(p)'
    <2>1. /\ Cardinality(Used(fdTable[p]) \ Own(p)) = lost[p] + 1 + (IF Listener(p) THEN 1 ELSE 0)
      BY <1>1 DEF Slot
    <2>2. /\ Used(fdTable'[p]) \ Own(p)' = Used(fdTable[p]) \ Own(p)
          /\ Listener(p)' <=> Listener(p)
      BY <1>3 DEF Own, Listener, settings
    <2>3. Cardinality(Used(fdTable'[p]) \ Own(p)')
             = lost'[p] + 0 + (IF Listener(p)' THEN 1 ELSE 0)
      <3>1. PICK n \in Nat : n = IF Listener(p) THEN 1 ELSE 0
        OBVIOUS
      <3>2. n = IF Listener(p)' THEN 1 ELSE 0
        BY <2>2, <3>1
      <3>3. Cardinality(Used(fdTable'[p]) \ Own(p)') = lost[p] + 1 + n
        BY <2>1, <2>2, <3>1
      <3>4. lost[p] + 1 + n = lost'[p] + 0 + n
        BY <1>4
      <3> QED BY <3>2, <3>3, <3>4
    <2> QED BY <1>4, <2>3 DEF Slot
  <1> QED BY <1>5, <1>6, <1>7, <1>8, <1>9, <1>10, OthersKept DEF AcceptIInv, Own_
------------------------------------------------------------------------------
LEMMA AcceptInit == Init => AcceptIInv
  <1> SUFFICES ASSUME Init PROVE AcceptIInv
    OBVIOUS
  <1>1. PICK started \in SUBSET Procs :
          pc = [p \in Procs |-> IF p \in started THEN "start" ELSE "exit"]
    BY DEF Init
  <1>2. TypeOK
    <2>1. /\ webServerAddrs \in AddressLists \cup {<<>>} /\ environment \subseteq {"mutex", "event"}
          /\ origin \in Origins /\ kind \in Kinds
      BY DEF Init
    <2>2. /\ pc \in [Procs -> {"start", "create", "app", "mutex", "dispatch", "connect", "select",
                               "accept", "register", "release", "serve", "exit"}]
          /\ listenType \in [Procs -> Types] /\ acceptMutex \in [Procs -> {"none", "shared", "own"}]
          /\ pipe \in [Procs -> {"none", "listening", "connected", "closing", "disconnected"}]
          /\ state \in [Conns -> {"new", "waiting", "open", "closed"}]
      BY <1>1 DEF Init, Types
    <2>3. fdTable \in [Procs -> [Fds -> [type : Types, fid : Nat, instance : Nat]]]
      BY EmptyFacts DEF Init, Table
    <2>4. /\ ipcFd \in [Procs -> Fds \cup {-1}] /\ lost \in [Procs -> Nat]
          /\ sock \in [Procs -> Conns \cup {None}] /\ client \in [Procs -> Conns \cup {None}]
          /\ owner \in Procs \cup {None} /\ event \in BOOLEAN /\ shutdownPending \in [Procs -> BOOLEAN]
          /\ finished \subseteq Conns /\ crashes \in 0 .. MaxCrashes
      <3>1. ipcFd \in [Procs -> Fds \cup {-1}] /\ lost \in [Procs -> Nat]
        BY DEF Init
      <3>2. sock \in [Procs -> Conns \cup {None}] /\ client \in [Procs -> Conns \cup {None}]
        BY DEF Init
      <3>3. owner \in Procs \cup {None} /\ event \in BOOLEAN /\ finished \subseteq Conns
        BY DEF Init
      <3>4. shutdownPending \in [Procs -> BOOLEAN]
        BY DEF Init
      <3>5. crashes \in 0 .. MaxCrashes
        BY HandleAssumption DEF Init
      <3> QED BY <3>1, <3>2, <3>3, <3>4, <3>5
    <2> QED BY <2>1, <2>2, <2>3, <2>4 DEF TypeOK
  <1>3. \A p \in Procs : Held(p) = {}
    BY DEF Init, Held
  <1>4. OpenIsHeld /\ Holding
    BY <1>3 DEF Init, OpenIsHeld, Holding
  <1>5. SharedMutex /\ MutexInv
    BY <1>1 DEF Init, SharedMutex, MutexInv, InCycle
  <1>6. ASSUME NEW p \in Procs PROVE Place(p) /\ Pipe(p) /\ Slot(p)
    <2>1. /\ pc[p] \in {"start", "exit"} /\ sock[p] = None /\ ipcFd[p] = -1 /\ lost[p] = 0
          /\ fdTable[p] = EmptyTable /\ pipe[p] = "none" /\ client[p] = None
          /\ listenType[p] = "unused"
      BY <1>1 DEF Init
    <2>2. Place(p) /\ Pipe(p)
      BY <2>1 DEF Place, Pipe
    <2>3. Slot(p)
      <3>1. Used(fdTable[p]) = {} /\ Used(fdTable[p]) \ Own(p) = {}
        BY <2>1, EmptyFacts
      <3>2. Cardinality(Used(fdTable[p]) \ Own(p)) = 0 /\ ~Listener(p)
        BY <3>1, FS_EmptySet DEF Listener
      <3> QED BY <2>1, <3>2 DEF Slot
    <2> QED BY <2>2, <2>3
  <1> QED BY <1>2, <1>4, <1>5, <1>6 DEF AcceptIInv

LEMMA AcceptNext == AcceptIInv /\ [Next]_vars => AcceptIInv'
  <1> SUFFICES ASSUME AcceptIInv, [Next]_vars PROVE AcceptIInv'
    OBVIOUS
  <1>1. CASE \/ \E c \in Conns : Connect(c) \/ \E p \in Procs : ConnectPipe(c, p) \/ ClosePipe(c, p)
             \/ SignalEvent
    BY <1>1, WebServerStep
  <1>2. ASSUME NEW p \in Procs, Process(p) PROVE AcceptIInv'
    BY <1>2, LibInitStep, CreateLocalIpcFdStep, CallStep, WaitForMutexStep, DispatchStep,
       ConnectNamedPipeStep, SelectStep, AcceptSocketStep, RegisterStep, ReleaseStep, IpcCloseStep,
       IpcCloseFailsStep DEF Process
  <1>3. ASSUME NEW p \in Procs,
               FcgiConnect(p) \/ AcceptFails(p) \/ ShutdownRequestThread(p) \/ Crash(p)
        PROVE  AcceptIInv'
    BY <1>3, FcgiConnectStep, AcceptFailsStep, CrashStep
  <1>4. CASE UNCHANGED vars
    <2>1. UNCHANGED <<settings, pc, process, owner, pipe, client, event, shutdownPending, state,
                      lost, finished, crashes>>
      BY <1>4 DEF vars
    <2>2. TypeOK' /\ SharedMutex' /\ MutexInv' /\ OpenIsHeld' /\ Holding'
      <3>1. TypeOK'
        BY <2>1 DEF AcceptIInv, TypeOK, settings, process
      <3>2. SharedMutex' /\ MutexInv'
        BY <2>1 DEF AcceptIInv, SharedMutex, MutexInv, InCycle, settings, process
      <3> QED BY <2>1, <3>1, <3>2, HeldKept DEF process
    <2>3. \A q \in Procs : Place(q)' /\ Pipe(q)'
      BY <2>1 DEF AcceptIInv, Place, Pipe, settings, process
    <2>4. \A q \in Procs : Slot(q)'
      BY <2>1, SlotKept DEF AcceptIInv, settings, process
    <2> QED BY <2>2, <2>3, <2>4 DEF AcceptIInv
  <1> QED BY <1>1, <1>2, <1>3, <1>4 DEF Next

LEMMA AcceptInvariant == Spec => []AcceptIInv
  BY AcceptInit, AcceptNext, PTL DEF Spec

(* The accept mutex: with one in the environment no two processes are in   *)
(* the accept cycle of OS_Accept together, and its owner is always one     *)
(* that is going to release it, whatever OS_LibShutdown, a crash or the    *)
(* shutdown thread releases early.                                         *)
THEOREM MutexCorrect == Spec => []MutexInv
  <1>1. AcceptIInv => MutexInv
    BY DEF AcceptIInv
  <1> QED BY <1>1, AcceptInvariant, PTL

(* However accepting ends, no descriptor and no connection is forgotten    *)
(* but those that a failing OS_IpcClose leaves, no connection is held by   *)
(* two processes, and what OS_Accept returns has the right slot and comes  *)
(* from an address in the list.                                            *)
THEOREM DescriptorCorrect == Spec => []DescriptorInv
  <1>1. AcceptIInv => NoneForgotten
    <2> SUFFICES ASSUME AcceptIInv, NEW p \in Procs, pc[p] # "exit"
                 PROVE  /\ Cardinality(Used(fdTable[p]) \ Own(p)) =
                               lost[p] + (IF ipcFd[p] = -1 THEN 0 ELSE 1)
                                       + (IF Listener(p) THEN 1 ELSE 0)
                        /\ pc[p] \in {"app", "mutex", "dispatch", "select", "connect", "accept"}
                              => sock[p] = None
                        /\ \A q \in Procs \ {p} : Held(p) \cap Held(q) = {}
      BY DEF NoneForgotten, Listener
    <2> QED BY DEF AcceptIInv, Slot, Place, Holding
  <1>2. AcceptIInv => ReturnsValid
    <2> SUFFICES ASSUME AcceptIInv, NEW p \in Procs, pc[p] = "serve", lost[p] = 0
                 PROVE  /\ sock[p] \notin finished \cup {None}
                        /\ fdTable[p][ipcFd[p]].type = listenType[p]
                        /\ fdTable[p][ipcFd[p]].fid = HandleOf[IF kind = "pipe" THEN p ELSE sock[p]]
                        /\ kind = "socket" /\ webServerAddrs # <<>>
                              => AddressOf[sock[p]] \in ToSet(webServerAddrs)
      BY DEF ReturnsValid
    <2>1. ipcFd[p] # -1 /\ Slot(p) /\ Holding
      BY DEF AcceptIInv, Place
    <2>2. /\ sock[p] # None /\ Held(p) = {sock[p]}
          /\ kind = "pipe" <=> listenType[p] = "pipe_sync"
      BY <2>1, OneHeld
    <2>3. sock[p] \notin finished
      BY <2>1, <2>2 DEF Holding
    <2> QED BY <2>1, <2>2, <2>3 DEF Slot
  <1>3. AcceptIInv => DescriptorInv
    BY <1>1, <1>2 DEF AcceptIInv, DescriptorInv
  <1> QED BY <1>3, AcceptInvariant, PTL
------------------------------------------------------------------------------
(***************************************************************************)
(* OsWin32Async.  What the run's properties need to be inductive.          *)
(***************************************************************************)

Operation == [fd : Fds, source : Sources, direction : {"read", "write"}, instance : Nat]
Completion == [op : Ops, bytes : Nat]
Domains ==
    /\ op \in [Ops -> Operation \cup {NoOp}]
    /\ pending \in Seq(Ops) /\ hStdinCompPort \in Seq(Ops)
    /\ hIoCompPort \in Seq(Completion)
    /\ received \in [Sources -> Seq(Nat)]
    /\ \A o \in outstanding : op[o] \in Operation

\* A descriptor of an asynchronous kind is that of a handle; instances are
\* never counted up.
Handled ==
    \A fd \in Fds :
        /\ fdTable[fd].type = "pipe_async" => fdTable[fd].fid \in Pipes
        /\ fdTable[fd].type \in {"socket_sync", "socket_async"} => fdTable[fd].fid \in Sockets
        /\ fdTable[fd].instance = 0
Instances == \A o \in outstanding : op[o].instance = 0

\* StdinThread and its port have operations that read standard input.
Reads(o) == op[o] \in Operation /\ op[o].source = STDIN_FILENO /\ op[o].direction = "read"
Thread ==
    /\ reading # NoOp <=> stdinThread = "reads"
    /\ reading # NoOp => Reads(reading)
    /\ \A i \in DOMAIN hStdinCompPort : Reads(hStdinCompPort[i])

\* The completions that carry data of a source, in order; the data are those
\* that have been taken in and not been given to a callback.
DataAt(s) == {i \in DOMAIN hIoCompPort :
                 LET o == hIoCompPort[i].op
                 IN op[o].source = s /\ op[o].direction = "read" /\ hIoCompPort[i].bytes > 0}
InStep(port, at, given, in) ==
    /\ \A i \in at : port[i].bytes \in given + 1 .. in
    /\ \A i, j \in at : i < j => port[i].bytes < port[j].bytes
    /\ \A k \in given + 1 .. in : \E i \in at : port[i].bytes = k
Queued ==
    \A s \in Sources :
        /\ taken[s] <= sent[s] /\ Len(received[s]) <= taken[s]
        /\ InStep(hIoCompPort, DataAt(s), Len(received[s]), taken[s])

OpsIInv ==
    /\ Domains /\ AsyncTypeOK /\ EachOnce /\ InOrder
    /\ Handled /\ Instances /\ Thread /\ Queued
------------------------------------------------------------------------------
(* How often something is in a sequence.                                   *)

Count(seq, S) == Cardinality({i \in DOMAIN seq : seq[i] \in S})

LEMMA CountType ==
  ASSUME NEW T, NEW seq \in Seq(T), NEW S
  PROVE  /\ IsFiniteSet({i \in DOMAIN seq : seq[i] \in S}) /\ Count(seq, S) \in Nat
         /\ Count(seq, S) = 0 <=> \A i \in DOMAIN seq : seq[i] \notin S
  <1> DEFINE At == {i \in DOMAIN seq : seq[i] \in S}
  <1>1. IsFiniteSet(DOMAIN seq)
    <2>1. DOMAIN seq = 1 .. Len(seq) /\ Len(seq) \in Nat
      OBVIOUS
    <2> QED BY <2>1, FS_Interval
  <1>2. IsFiniteSet(At)
    BY <1>1, FS_Subset
  <1>3. Cardinality(At) \in Nat /\ (Cardinality(At) = 0 <=> At = {})
    BY <1>2, FS_CardinalityType, FS_EmptySet
  <1> QED BY <1>2, <1>3 DEF Count

LEMMA CountAppend ==
  ASSUME NEW T, NEW seq \in Seq(T), NEW x \in T, NEW S
  PROVE  Count(Append(seq, x), S) = Count(seq, S) + (IF x \in S THEN 1 ELSE 0)
  <1> DEFINE At == {i \in DOMAIN seq : seq[i] \in S}
             more == Append(seq, x)
             new == Len(seq) + 1
             AtMore == {i \in DOMAIN more : more[i] \in S}
  <1>1. IsFiniteSet(At) /\ Cardinality(At) \in Nat
    BY CountType DEF Count
  <1>2. /\ DOMAIN seq = 1 .. Len(seq) /\ Len(seq) \in Nat
        /\ DOMAIN more = 1 .. new /\ more[new] = x /\ \A i \in 1 .. Len(seq) : more[i] = seq[i]
    OBVIOUS
  <1>3. new \notin At
    BY <1>2
  <1> HIDE DEF more
  <1>4. CASE x \in S
    <2>1. AtMore = At \cup {new}
      BY <1>2, <1>4
    <2>2. Cardinality(AtMore) = Cardinality(At) + 1
      BY <1>1, <1>3, <2>1, FS_AddElement
    <2> QED BY <1>4, <2>2 DEF Count, more
  <1>5. CASE x \notin S
    <2>1. AtMore = At
      BY <1>2, <1>5
    <2>2. Count(Append(seq, x), S) = Cardinality(At) /\ Count(seq, S) = Cardinality(At)
      BY <2>1 DEF Count, more
    <2> HIDE DEF At
    <2> QED BY <1>1, <1>5, <2>2
  <1> QED BY <1>4, <1>5

\* One element is taken out, the first or any other.
LEMMA CountLess ==
  ASSUME NEW T, NEW seq \in Seq(T), NEW S, NEW k \in 1 .. Len(seq), NEW less \in Seq(T),
         Len(less) = Len(seq) - 1,
         \A j \in 1 .. Len(less) : less[j] = IF j < k THEN seq[j] ELSE seq[j + 1]
  PROVE  Count(less, S) = Count(seq, S) - (IF seq[k] \in S THEN 1 ELSE 0)
  <1> DEFINE At == {i \in DOMAIN seq : seq[i] \in S}
             AtLess == {i \in DOMAIN less : less[i] \in S}
             f == [j \in AtLess |-> IF j < k THEN j ELSE j + 1]
  <1>1. /\ IsFiniteSet(At) /\ Cardinality(At) \in Nat
        /\ IsFiniteSet(AtLess) /\ Cardinality(AtLess) \in Nat
    BY CountType DEF Count
  <1>2. /\ DOMAIN seq = 1 .. Len(seq) /\ Len(seq) \in Nat
        /\ DOMAIN less = 1 .. Len(less) /\ Len(less) \in Nat
    OBVIOUS
  <1>3. ASSUME NEW j \in AtLess PROVE f[j] \in At \ {k}
    BY <1>2
  <1>4. \A a, b \in AtLess : f[a] = f[b] => a = b
    BY <1>2
  <1>5. ASSUME NEW i \in At \ {k} PROVE \E j \in AtLess : f[j] = i
    <2>1. CASE i < k
      <3>1. i \in AtLess
        BY <1>2, <2>1
      <3> QED BY <2>1, <3>1
    <2>2. CASE i > k
      <3>1. i - 1 \in 1 .. Len(less) /\ ~ (i - 1 < k) /\ i - 1 + 1 = i
        BY <1>2, <2>2
      <3>2. i - 1 \in AtLess
        BY <1>2, <3>1
      <3> QED BY <3>1, <3>2
    <2>3. i < k \/ i > k
      <3>1. i \in Int /\ k \in Int /\ i # k
        BY <1>2
      <3> QED BY <3>1
    <2> QED BY <2>1, <2>2, <2>3
  <1>6. f \in Bijection(AtLess, At \ {k})
    <2>1. f \in [AtLess -> At \ {k}]
      BY <1>3
    <2> HIDE DEF f, At, AtLess
    <2>2. f \in Injection(AtLess, At \ {k})
      BY <1>4, <2>1 DEF Injection, IsInjective
    <2>3. f \in Surjection(AtLess, At \ {k})
      BY <1>5, <2>1 DEF Surjection
    <2> QED BY <2>2, <2>3 DEF Bijection
  <1>7. Cardinality(AtLess) = Cardinality(At \ {k})
    <2> HIDE DEF f, At, AtLess
    <2>1. ExistsBijection(AtLess, At \ {k})
      BY <1>6 DEF ExistsBijection
    <2> QED BY <1>1, <2>1, FS_Bijection
  <1>8. CASE seq[k] \in S
    <2>1. k \in At
      BY <1>2, <1>8
    <2>2. Cardinality(At \ {k}) = Cardinality(At) - 1
      BY <1>1, <2>1, FS_RemoveElement
    <2> QED BY <1>7, <1>8, <2>2 DEF Count
  <1>9. CASE seq[k] \notin S
    <2>1. At \ {k} = At
      BY <1>9
    <2>2. Count(less, S) = Cardinality(At) /\ Count(seq, S) = Cardinality(At)
      BY <1>7, <2>1 DEF Count
    <2> HIDE DEF At
    <2> QED BY <1>1, <1>9, <2>2
  <1> QED BY <1>8, <1>9

LEMMA CountTail ==
  ASSUME NEW T, NEW seq \in Seq(T), NEW S, seq # <<>>
  PROVE  /\ Head(seq) = seq[1] /\ Head(seq) \in T /\ Tail(seq) \in Seq(T)
         /\ Count(Tail(seq), S) = Count(seq, S) - (IF Head(seq) \in S THEN 1 ELSE 0)
  <1> DEFINE less == Tail(seq)
  <1>1. /\ Head(seq) = seq[1] /\ Head(seq) \in T /\ 1 \in 1 .. Len(seq)
        /\ less \in Seq(T) /\ Len(less) = Len(seq) - 1
        /\ \A j \in 1 .. Len(less) : less[j] = seq[j + 1]
    OBVIOUS
  <1>2. \A j \in 1 .. Len(less) : ~ (j < 1)
    OBVIOUS
  <1> HIDE DEF less
  <1>3. Count(less, S) = Count(seq, S) - (IF seq[1] \in S THEN 1 ELSE 0)
    BY <1>1, <1>2, CountLess
  <1> QED BY <1>1, <1>3 DEF less

LEMMA CountRemoveAt ==
  ASSUME NEW T, NEW seq \in Seq(T), NEW S, NEW k \in 1 .. Len(seq)
  PROVE  /\ RemoveAt(seq, k) \in Seq(T)
         /\ Count(RemoveAt(seq, k), S) = Count(seq, S) - (IF seq[k] \in S THEN 1 ELSE 0)
  <1> DEFINE front == SubSeq(seq, 1, k - 1)
             back == SubSeq(seq, k + 1, Len(seq))
             less == front \o back
  <1>1. /\ front \in Seq(T) /\ Len(front) = k - 1
        /\ \A j \in 1 .. k - 1 : front[j] = seq[j]
    OBVIOUS
  <1>2. /\ back \in Seq(T) /\ Len(back) = Len(seq) - k
        /\ \A j \in 1 .. Len(seq) - k : back[j] = seq[j + k]
    OBVIOUS
  <1> HIDE DEF front, back
  <1>3. /\ less \in Seq(T) /\ Len(less) = Len(seq) - 1
        /\ \A j \in 1 .. Len(less) : less[j] = IF j < k THEN front[j] ELSE back[j - (k - 1)]
    <2>1. front \in Seq(T) /\ back \in Seq(T) /\ Len(front) = k - 1 /\ Len(back) = Len(seq) - k
      BY <1>1, <1>2
    <2>2. less \in Seq(T) /\ Len(less) = Len(seq) - 1
      BY <2>1
    <2>3. \A j \in 1 .. Len(less) : j <= Len(front) => less[j] = front[j]
      BY <2>1
    <2>4. \A j \in 1 .. Len(less) : j > Len(front) => less[j] = back[j - Len(front)]
      BY <2>1
    <2> HIDE DEF less
    <2>5. \A j \in 1 .. Len(less) : j < k <=> j <= Len(front)
      BY <2>1, <2>2
    <2>6. \A j \in 1 .. Len(less) : ~ (j < k) => j > Len(front)
      BY <2>1, <2>2
    <2> QED BY <2>1, <2>2, <2>3, <2>4, <2>5, <2>6
  <1>4. \A j \in 1 .. Len(less) : less[j] = IF j < k THEN seq[j] ELSE seq[j + 1]
    <2> HIDE DEF less
    <2> SUFFICES ASSUME NEW j \in 1 .. Len(less)
                 PROVE  less[j] = IF j < k THEN seq[j] ELSE seq[j + 1]
      OBVIOUS
    <2>1. CASE j < k
      BY <1>1, <1>3, <2>1
    <2>2. CASE ~ (j < k)
      <3>1. j - (k - 1) \in 1 .. Len(seq) - k /\ j - (k - 1) + k = j + 1
        BY <1>3, <2>2
      <3> QED BY <1>2, <1>3, <2>2, <3>1
    <2> QED BY <2>1, <2>2
  <1>5. RemoveAt(seq, k) = less
    BY DEF RemoveAt, front, back
  <1> HIDE DEF less
  <1>6. Count(less, S) = Count(seq, S) - (IF seq[k] \in S THEN 1 ELSE 0)
    BY <1>3, <1>4, CountLess
  <1> QED BY <1>3, <1>5, <1>6
------------------------------------------------------------------------------
(* Where an operation is.                                                  *)

Of(o) == {completion \in Completion : completion.op = o}
Bit(b) == IF b THEN 1 ELSE 0

\* Of an operation: in how many places it is, which is as often as it is
\* allocated.
Once(o, pend, std, port, read, cur, gone, out) ==
    Count(pend, {o}) + Count(std, {o}) + Count(port, Of(o))
      + Bit(read = o) + Bit(cur = o) + Bit(o \in gone) = Bit(o \in out)

\* The same as EachOnce has it.
Placed(o, pend, std, port, read, cur, gone, out) ==
    Occurrences(pend, o) + Occurrences(std, o) + Cardinality({i \in DOMAIN port : port[i].op = o})
      + Cardinality({i \in {1} : read = o}) + Cardinality({i \in {1} : cur = o})
      + Cardinality({o} \cap gone)
    = Cardinality({o} \cap out)

LEMMA OnceIs ==
  ASSUME NEW o, NEW pend \in Seq(Ops), NEW std \in Seq(Ops), NEW port \in Seq(Completion),
         NEW read, NEW cur, NEW gone, NEW out
  PROVE  Once(o, pend, std, port, read, cur, gone, out)
           <=> Placed(o, pend, std, port, read, cur, gone, out)
  <1>1. Occurrences(pend, o) = Count(pend, {o}) /\ Occurrences(std, o) = Count(std, {o})
    <2>1. \A seq : {i \in DOMAIN seq : seq[i] = o} = {i \in DOMAIN seq : seq[i] \in {o}}
      OBVIOUS
    <2> QED BY <2>1 DEF Occurrences, Count
  <1>2. Cardinality({i \in DOMAIN port : port[i].op = o}) = Count(port, Of(o))
    <2>1. {i \in DOMAIN port : port[i].op = o} = {i \in DOMAIN port : port[i] \in Of(o)}
      BY DEF Of
    <2> QED BY <2>1 DEF Count
  <1>3. /\ \A r : Cardinality({i \in {1} : r = o}) = Bit(r = o)
        /\ \A S : Cardinality({o} \cap S) = Bit(o \in S)
    <2>1. ASSUME NEW r PROVE Cardinality({i \in {1} : r = o}) = Bit(r = o)
      <3>1. CASE r = o
        <4>1. {i \in {1} : r = o} = {1}
          BY <3>1
        <4> QED BY <3>1, <4>1, FS_Singleton DEF Bit
      <3>2. CASE r # o
        <4>1. {i \in {1} : r = o} = {}
          BY <3>2
        <4> QED BY <3>2, <4>1, FS_EmptySet DEF Bit
      <3> QED BY <3>1, <3>2
    <2>2. ASSUME NEW S PROVE Cardinality({o} \cap S) = Bit(o \in S)
      <3>1. CASE o \in S
        <4>1. {o} \cap S = {o}
          BY <3>1
        <4> QED BY <3>1, <4>1, FS_Singleton DEF Bit
      <3>2. CASE o \notin S
        <4>1. {o} \cap S = {}
          BY <3>2
        <4> QED BY <3>2, <4>1, FS_EmptySet DEF Bit
      <3> QED BY <3>1, <3>2
    <2> QED BY <2>1, <2>2
  <1> QED BY <1>1, <1>2, <1>3 DEF Once, Placed
------------------------------------------------------------------------------
(* The data in the completion port.                                        *)

LEMMA InStepCount ==
  ASSUME NEW port \in Seq(Completion), NEW at \in SUBSET DOMAIN port, NEW given \in Nat, NEW in \in Nat,
         given <= in, InStep(port, at, given, in)
  PROVE  Cardinality(at) = in - given
  <1> DEFINE f == [i \in at |-> port[i].bytes]
             T == given + 1 .. in
  <1>1. \A i \in at : i \in Int
    OBVIOUS
  <1>2. f \in [at -> T]
    BY DEF InStep
  <1>3. \A i, j \in at : f[i] = f[j] => i = j
    <2> SUFFICES ASSUME NEW i \in at, NEW j \in at, i < j PROVE f[i] # f[j]
      BY <1>1
    <2>1. port[i].bytes < port[j].bytes /\ port[i].bytes \in Int
      BY DEF InStep
    <2> QED BY <2>1
  <1>4. \A k \in T : \E i \in at : f[i] = k
    BY DEF InStep
  <1>5. IsFiniteSet(T) /\ Cardinality(T) = in - given
    <2>1. IsFiniteSet(T) /\ Cardinality(T) = (IF given + 1 > in THEN 0 ELSE in - (given + 1) + 1)
      BY FS_Interval
    <2> HIDE DEF T
    <2> QED BY <2>1
  <1>6. IsFiniteSet(at)
    <2>1. IsFiniteSet(DOMAIN port)
      <3>1. DOMAIN port = 1 .. Len(port) /\ Len(port) \in Nat
        OBVIOUS
      <3> QED BY <3>1, FS_Interval
    <2> QED BY <2>1, FS_Subset
  <1> HIDE DEF f, T
  <1>7. f \in Bijection(at, T)
    <2>1. f \in Injection(at, T)
      BY <1>2, <1>3 DEF Injection, IsInjective
    <2>2. f \in Surjection(at, T)
      BY <1>2, <1>4 DEF Surjection
    <2> QED BY <2>1, <2>2 DEF Bijection
  <1>8. Cardinality(T) = Cardinality(at)
    <2>1. ExistsBijection(at, T)
      BY <1>7 DEF ExistsBijection
    <2> QED BY <1>6, <2>1, FS_Bijection
  <1> QED BY <1>5, <1>8

\* A completion is appended: one that carries the next data, or none.
LEMMA InStepAppend ==
  ASSUME NEW port \in Seq(Completion), NEW at \in SUBSET DOMAIN port, NEW given \in Nat, NEW in \in Nat,
         given <= in, InStep(port, at, given, in), NEW x \in Completion
  PROVE  /\ InStep(Append(port, x), at, given, in)
         /\ x.bytes = in + 1 => InStep(Append(port, x), at \cup {Len(port) + 1}, given, in + 1)
  <1> DEFINE more == Append(port, x)
             last == Len(port) + 1
  <1>1. /\ \A i \in at : more[i] = port[i] /\ i \in Int /\ i < last /\ port[i].bytes \in Nat
        /\ more[last] = x /\ last \in Nat
    <2>1. /\ \A i \in 1 .. Len(port) : more[i] = port[i] /\ port[i] \in Completion
          /\ more[last] = x /\ Len(port) \in Nat /\ DOMAIN port = 1 .. Len(port)
      OBVIOUS
    <2>2. \A i \in at : i \in 1 .. Len(port)
      BY <2>1
    <2>3. \A completion \in Completion : completion.bytes \in Nat
      BY DEF Completion
    <2> HIDE DEF more
    <2> QED BY <2>1, <2>2, <2>3
  <1> HIDE DEF more, last
  <1>2. InStep(more, at, given, in)
    BY <1>1 DEF InStep
  <1>3. ASSUME x.bytes = in + 1 PROVE InStep(more, at \cup {last}, given, in + 1)
    <2>1. \A i \in at \cup {last} : more[i].bytes \in given + 1 .. in + 1
      BY <1>1, <1>3 DEF InStep
    <2>2. ASSUME NEW i \in at \cup {last}, NEW j \in at \cup {last}, i < j
          PROVE  more[i].bytes < more[j].bytes
      <3>1. i \in at
        BY <1>1, <2>2
      <3>2. CASE j \in at
        BY <1>1, <2>2, <3>1, <3>2 DEF InStep
      <3>3. CASE j = last
        <4>1. more[i].bytes \in given + 1 .. in
          BY <1>1, <3>1 DEF InStep
        <4> QED BY <1>1, <1>3, <3>3, <4>1
      <3> QED BY <3>2, <3>3
    <2>3. ASSUME NEW k \in given + 1 .. in + 1 PROVE \E i \in at \cup {last} : more[i].bytes = k
      <3>1. CASE k = in + 1
        BY <1>1, <1>3, <3>1
      <3>2. CASE k # in + 1
        <4>1. k \in given + 1 .. in
          BY <3>2
        <4>2. PICK i \in at : port[i].bytes = k
          BY <4>1 DEF InStep
        <4> QED BY <1>1, <4>2
      <3> QED BY <3>1, <3>2
    <2> QED BY <2>1, <2>2, <2>3 DEF InStep
  <1> QED BY <1>2, <1>3 DEF more, last

\* The first completion is taken off: if it carries data these are the next.
LEMMA InStepTail ==
  ASSUME NEW port \in Seq(Completion), NEW at \in SUBSET DOMAIN port, NEW given \in Nat, NEW in \in Nat,
         given <= in, InStep(port, at, given, in), port # <<>>
  PROVE  LET rest == {i \in 1 .. Len(port) - 1 : i + 1 \in at}
         IN  /\ 1 \notin at => InStep(Tail(port), rest, given, in)
             /\ 1 \in at => /\ port[1].bytes = given + 1 /\ given + 1 <= in
                            /\ InStep(Tail(port), rest, given + 1, in)
  <1> DEFINE less == Tail(port)
             rest == {i \in 1 .. Len(port) - 1 : i + 1 \in at}
  <1>1. /\ \A i \in rest : less[i] = port[i + 1] /\ i \in Int /\ i >= 1 /\ i + 1 \in at
        /\ \A i \in at : i \in Int /\ i >= 1 /\ port[i].bytes \in Nat
        /\ \A i \in at : i # 1 => i - 1 \in rest /\ i - 1 + 1 = i
    <2>1. /\ Len(port) \in Nat /\ DOMAIN port = 1 .. Len(port)
          /\ \A i \in 1 .. Len(port) - 1 : less[i] = port[i + 1]
          /\ \A i \in 1 .. Len(port) : port[i] \in Completion
      OBVIOUS
    <2>2. \A i \in at : i \in 1 .. Len(port)
      BY <2>1
    <2>3. \A completion \in Completion : completion.bytes \in Nat
      BY DEF Completion
    <2> HIDE DEF less
    <2>4. \A i \in rest : less[i] = port[i + 1] /\ i \in Int /\ i >= 1 /\ i + 1 \in at
      BY <2>1
    <2>5. \A i \in at : i \in Int /\ i >= 1 /\ port[i].bytes \in Nat
      BY <2>1, <2>2, <2>3
    <2>6. \A i \in at : i # 1 => i - 1 \in rest /\ i - 1 + 1 = i
      BY <2>1, <2>2
    <2> QED BY <2>4, <2>5, <2>6
  <1> HIDE DEF less, rest
  <1>2. ASSUME NEW i \in rest, NEW j \in rest, i < j PROVE less[i].bytes < less[j].bytes
    <2>1. i + 1 < j + 1 /\ i + 1 \in at /\ j + 1 \in at
      BY <1>1, <1>2
    <2>2. port[i + 1].bytes < port[j + 1].bytes
      BY <2>1 DEF InStep
    <2> QED BY <1>1, <2>2
  <1>3. ASSUME 1 \notin at PROVE InStep(less, rest, given, in)
    <2>1. \A i \in rest : less[i].bytes \in given + 1 .. in
      BY <1>1 DEF InStep
    <2>2. ASSUME NEW k \in given + 1 .. in PROVE \E i \in rest : less[i].bytes = k
      <3>1. PICK i \in at : port[i].bytes = k
        BY DEF InStep
      <3>2. i - 1 \in rest /\ less[i - 1] = port[i]
        BY <1>1, <1>3
      <3> QED BY <3>1, <3>2
    <2> QED BY <1>2, <2>1, <2>2 DEF InStep
  <1>4. ASSUME 1 \in at
        PROVE  port[1].bytes = given + 1 /\ given + 1 <= in /\ InStep(less, rest, given + 1, in)
    <2>1. port[1].bytes \in given + 1 .. in
      BY <1>4 DEF InStep
    <2>2. port[1].bytes = given + 1
      <3>1. given + 1 \in given + 1 .. in
        BY <2>1
      <3>2. PICK i \in at : port[i].bytes = given + 1
        BY <3>1 DEF InStep
      <3> SUFFICES ASSUME i # 1 PROVE FALSE
        BY <3>2
      <3>3. 1 < i
        BY <1>1
      <3>4. port[1].bytes < port[i].bytes
        BY <1>4, <3>3 DEF InStep
      <3> QED BY <2>1, <3>2, <3>4
    <2>3. \A i \in rest : less[i].bytes \in given + 2 .. in
      <3> SUFFICES ASSUME NEW i \in rest PROVE less[i].bytes \in given + 2 .. in
        OBVIOUS
      <3>1. i + 1 \in at /\ 1 < i + 1 /\ less[i] = port[i + 1]
        BY <1>1
      <3>2. port[1].bytes < port[i + 1].bytes /\ port[i + 1].bytes \in given + 1 .. in
        BY <1>4, <3>1 DEF InStep
      <3> QED BY <2>2, <3>1, <3>2
    <2>4. ASSUME NEW k \in given + 2 .. in PROVE \E i \in rest : less[i].bytes = k
      <3>1. k \in given + 1 .. in
        OBVIOUS
      <3>2. PICK i \in at : port[i].bytes = k
        BY <3>1 DEF InStep
      <3>3. i # 1
        BY <2>2, <3>2
      <3>4. i - 1 \in rest /\ less[i - 1] = port[i]
        BY <1>1, <3>3
      <3> QED BY <3>2, <3>4
    <2>5. given + 1 + 1 = given + 2
      OBVIOUS
    <2> QED BY <1>2, <2>1, <2>2, <2>3, <2>4, <2>5 DEF InStep
  <1> QED BY <1>3, <1>4 DEF less, rest
------------------------------------------------------------------------------
(* What the invariant says of one operation.                               *)

LEMMA Constants ==
  /\ Pipes \subseteq Nat \ {0} /\ Sockets \subseteq Nat \ {0} /\ NoOp \notin Ops /\ MaxSent \in Nat
  /\ Sources \subseteq Nat /\ STDIN_FILENO \in Sources /\ STDIN_FILENO = 0
  /\ Handles \subseteq Sources /\ Fds \subseteq Nat
  BY OpsAssumption, TableAssumption DEF Ops, Sources, Handles, STDIN_FILENO, Fds

LEMMA OnceNow ==
  ASSUME Domains, EachOnce
  PROVE  \A o \in Ops : Once(o, pending, hStdinCompPort, hIoCompPort, reading, current, abandoned, outstanding)
  <1>1. pending \in Seq(Ops) /\ hStdinCompPort \in Seq(Ops) /\ hIoCompPort \in Seq(Completion)
    BY DEF Domains
  <1>2. \A o \in Ops : Placed(o, pending, hStdinCompPort, hIoCompPort, reading, current, abandoned, outstanding)
    BY DEF EachOnce, Placed
  <1> QED BY <1>1, <1>2, OnceIs

LEMMA OnceNext ==
  ASSUME Domains',
         \A o \in Ops : Once(o, pending', hStdinCompPort', hIoCompPort', reading', current', abandoned', outstanding')
  PROVE  EachOnce'
  <1>1. pending' \in Seq(Ops) /\ hStdinCompPort' \in Seq(Ops) /\ hIoCompPort' \in Seq(Completion)
    BY DEF Domains
  <1>2. \A o \in Ops :
           Placed(o, pending', hStdinCompPort', hIoCompPort', reading', current', abandoned', outstanding')
    BY <1>1, OnceIs
  <1> QED BY <1>2 DEF EachOnce, Placed, Occurrences

\* An operation that is in one place is allocated, and in no other place.
LEMMA Alone ==
  ASSUME NEW o \in Ops, NEW pend \in Seq(Ops), NEW std \in Seq(Ops), NEW port \in Seq(Completion),
         NEW read, NEW cur, NEW gone, NEW out,
         Once(o, pend, std, port, read, cur, gone, out)
  PROVE  /\ \A i \in DOMAIN pend : pend[i] = o => o \in out /\ cur # o
         /\ \A i \in DOMAIN std : std[i] = o => o \in out /\ cur # o
         /\ \A i \in DOMAIN port : port[i].op = o => o \in out /\ cur # o
         /\ read = o => o \in out /\ cur # o /\ o \notin gone
         /\ cur = o => o \in out /\ o \notin gone
         /\ o \in gone => o \in out
  <1>1. PICK p \in Nat, s \in Nat, q \in Nat :
           /\ p = Count(pend, {o}) /\ s = Count(std, {o}) /\ q = Count(port, Of(o))
    BY CountType
  <1>2. /\ p = 0 => \A i \in DOMAIN pend : pend[i] # o
        /\ s = 0 => \A i \in DOMAIN std : std[i] # o
    BY <1>1, CountType
  <1>3. q = 0 => \A i \in DOMAIN port : port[i].op # o
    <2>1. \A i \in DOMAIN port : port[i] \in Completion
      OBVIOUS
    <2>2. q = 0 => \A i \in DOMAIN port : port[i] \notin Of(o)
      BY <1>1, CountType
    <2> QED BY <2>1, <2>2 DEF Of
  <1>4. PICK r \in {0, 1}, c \in {0, 1}, g \in {0, 1}, x \in {0, 1} :
           /\ r = Bit(read = o) /\ c = Bit(cur = o) /\ g = Bit(o \in gone) /\ x = Bit(o \in out)
    BY DEF Bit
  <1>5. /\ r = 1 <=> read = o
        /\ c = 1 <=> cur = o
        /\ g = 1 <=> o \in gone
        /\ x = 1 <=> o \in out
    BY <1>4 DEF Bit
  <1>6. p + s + q + r + c + g = x
    BY <1>1, <1>4 DEF Once
  <1>7. p # 0 \/ s # 0 \/ q # 0 => x = 1 /\ c = 0
    BY <1>6
  <1>8. /\ r = 1 => x = 1 /\ c = 0 /\ g = 0
        /\ c = 1 => x = 1 /\ g = 0
        /\ g = 1 => x = 1
    BY <1>6
  <1> QED BY <1>2, <1>3, <1>5, <1>7, <1>8

LEMMA InPlace ==
  ASSUME OpsIInv
  PROVE  /\ \A i \in DOMAIN pending : pending[i] \in outstanding /\ pending[i] # current
         /\ \A i \in DOMAIN hStdinCompPort :
               hStdinCompPort[i] \in outstanding /\ hStdinCompPort[i] # current
         /\ \A i \in DOMAIN hIoCompPort :
               /\ hIoCompPort[i] \in Completion
               /\ hIoCompPort[i].op \in outstanding /\ hIoCompPort[i].op # current
         /\ reading # NoOp => reading \in outstanding /\ reading # current
         /\ current # NoOp => current \in outstanding
  <1>1. /\ pending \in Seq(Ops) /\ hStdinCompPort \in Seq(Ops) /\ hIoCompPort \in Seq(Completion)
        /\ reading \in Ops \cup {NoOp} /\ current \in Ops \cup {NoOp}
    BY DEF OpsIInv, Domains, AsyncTypeOK
  <1>2. \A o \in Ops : Once(o, pending, hStdinCompPort, hIoCompPort, reading, current, abandoned, outstanding)
    BY OnceNow DEF OpsIInv
  <1>3. \A o \in Ops :
           /\ \A i \in DOMAIN pending : pending[i] = o => o \in outstanding /\ current # o
           /\ \A i \in DOMAIN hStdinCompPort : hStdinCompPort[i] = o => o \in outstanding /\ current # o
           /\ \A i \in DOMAIN hIoCompPort : hIoCompPort[i].op = o => o \in outstanding /\ current # o
           /\ reading = o => o \in outstanding /\ current # o
           /\ current = o => o \in outstanding
    BY <1>1, <1>2, Alone
  <1>4. /\ \A i \in DOMAIN pending : pending[i] \in Ops
        /\ \A i \in DOMAIN hStdinCompPort : hStdinCompPort[i] \in Ops
        /\ \A i \in DOMAIN hIoCompPort : hIoCompPort[i] \in Completion
    BY <1>1
  <1>5. \A completion \in Completion : completion.op \in Ops
    BY DEF Completion
  <1> QED BY <1>1, <1>3, <1>4, <1>5

\* InOrder counts what Queued puts in order.
LEMMA QueuedCount ==
  ASSUME Domains, AsyncTypeOK, Queued
  PROVE  \A s \in Sources : taken[s] = Len(received[s]) + Cardinality(DataAt(s))
  <1> SUFFICES ASSUME NEW s \in Sources
               PROVE  taken[s] = Len(received[s]) + Cardinality(DataAt(s))
    OBVIOUS
  <1>1. hIoCompPort \in Seq(Completion) /\ Len(received[s]) \in Nat /\ taken[s] \in Nat
    BY Constants DEF Domains, AsyncTypeOK
  <1>2. Len(received[s]) <= taken[s] /\ InStep(hIoCompPort, DataAt(s), Len(received[s]), taken[s])
    BY DEF Queued
  <1>3. DataAt(s) \in SUBSET DOMAIN hIoCompPort
    BY DEF DataAt
  <1>4. Cardinality(DataAt(s)) = taken[s] - Len(received[s])
    BY <1>1, <1>2, <1>3, InStepCount
  <1> QED BY <1>1, <1>4

LEMMA Wrapped ==
  ASSUME Domains, AsyncTypeOK, EachOnce, Handled, Instances, Thread, Queued,
         \A s \in Sources : received[s] = [i \in 1 .. Len(received[s]) |-> i]
  PROVE  OpsIInv
  <1>1. InOrder
    <2>1. \A s \in Sources : taken[s] = Len(received[s]) + Cardinality(DataAt(s))
      BY QueuedCount
    <2> QED BY <2>1 DEF InOrder, DataAt
  <1> QED BY <1>1 DEF OpsIInv

LEMMA WrappedNext ==
  ASSUME Domains', AsyncTypeOK', EachOnce', Handled', Instances', Thread', Queued',
         \A s \in Sources : received'[s] = [i \in 1 .. Len(received'[s]) |-> i]
  PROVE  OpsIInv'
  <1>1. \A s \in Sources : taken'[s] = Len(received'[s]) + Cardinality(DataAt(s)')
    <2> SUFFICES ASSUME NEW s \in Sources
                 PROVE  taken'[s] = Len(received'[s]) + Cardinality(DataAt(s)')
      OBVIOUS
    <2>1. hIoCompPort' \in Seq(Completion) /\ Len(received'[s]) \in Nat /\ taken'[s] \in Nat
      BY Constants DEF Domains, AsyncTypeOK
    <2>2. /\ Len(received'[s]) <= taken'[s]
          /\ InStep(hIoCompPort', DataAt(s)', Len(received'[s]), taken'[s])
      BY DEF Queued, InStep
    <2>3. DataAt(s)' \in SUBSET DOMAIN hIoCompPort'
      BY DEF DataAt
    <2>4. Cardinality(DataAt(s)') = taken'[s] - Len(received'[s])
      BY <2>1, <2>2, <2>3, InStepCount
    <2> QED BY <2>1, <2>4
  <1>2. InOrder'
    BY <1>1 DEF InOrder, DataAt
  <1> QED BY <1>2 DEF OpsIInv
------------------------------------------------------------------------------
(* Peers, and what the application does with descriptors.                  *)

others == <<input, taken, received, op, outstanding, pending, hIoCompPort, thread, current>>

LEMMA AsyncKept ==
  ASSUME OpsIInv, UNCHANGED others, AsyncTypeOK', Handled', \A s \in Sources : taken[s] <= sent'[s]
  PROVE  OpsIInv'
  <1>1. /\ Domains /\ AsyncTypeOK /\ EachOnce /\ InOrder /\ Instances /\ Thread /\ Queued
    BY DEF OpsIInv
  <1>2. UNCHANGED <<taken, received, op, outstanding, pending, hIoCompPort, hStdinCompPort, stdinThread,
                    reading, abandoned, current>>
    BY DEF others, thread
  <1>3. Domains' /\ EachOnce' /\ Instances' /\ InOrder'
    BY <1>1, <1>2 DEF Domains, EachOnce, Instances, InOrder, Occurrences
  <1>4. Thread'
    BY <1>1, <1>2 DEF Thread, Reads
  <1>5. Queued'
    <2>1. \A s \in Sources : DataAt(s)' = DataAt(s)
      BY <1>2 DEF DataAt
    <2> QED BY <1>1, <1>2, <2>1 DEF Queued, InStep
  <1> QED BY <1>3, <1>4, <1>5 DEF OpsIInv

\* There is room for what is sent.
LEMMA SendRoom ==
  ASSUME AsyncTypeOK, NEW s \in Sources, Cardinality(AllSent) < MaxSent
  PROVE  sent[s] + 1 \in 0 .. MaxSent
  <1> DEFINE Room == 1 .. MaxSent
             Full == {s} \X Room
  <1>1. MaxSent \in Nat /\ sent[s] \in 0 .. MaxSent
    BY Constants DEF AsyncTypeOK
  <1> SUFFICES ASSUME sent[s] = MaxSent PROVE FALSE
    BY <1>1
  <1>2. IsFiniteSet(Room) /\ Cardinality(Room) = MaxSent
    <2>1. IsFiniteSet(Room) /\ Cardinality(Room) = (IF 1 > MaxSent THEN 0 ELSE MaxSent - 1 + 1)
      BY <1>1, FS_Interval
    <2> HIDE DEF Room
    <2> QED BY <1>1, <2>1
  <1>3. IsFiniteSet({s}) /\ Cardinality({s}) = 1
    BY FS_Singleton
  <1>4. IsFiniteSet(Full) /\ Cardinality(Full) = MaxSent
    <2> HIDE DEF Room
    <2>1. IsFiniteSet(Full) /\ Cardinality(Full) = 1 * MaxSent
      BY <1>2, <1>3, FS_Product
    <2> HIDE DEF Full
    <2> QED BY <1>1, <2>1
  <1>5. Full \subseteq AllSent
    BY <1>1 DEF AllSent
  <1>6. IsFiniteSet(AllSent)
    <2>1. IsFiniteSet(Sources \X Room)
      <3>1. IsFiniteSet(Sources)
        <4>1. IsFiniteSet({STDIN_FILENO}) /\ IsFiniteSet(Pipes) /\ IsFiniteSet(Sockets)
          BY OpsAssumption, FS_Singleton
        <4>2. IsFiniteSet(Handles)
          BY <4>1, FS_Union DEF Handles
        <4> QED BY <4>1, <4>2, FS_Union DEF Sources
      <3> HIDE DEF Room
      <3> QED BY <1>2, <3>1, FS_Product
    <2>2. AllSent \subseteq Sources \X Room
      BY DEF AllSent
    <2> QED BY <2>1, <2>2, FS_Subset
  <1>7. Cardinality(Full) <= Cardinality(AllSent) /\ Cardinality(AllSent) \in Nat
    BY <1>5, <1>6, FS_Subset, FS_CardinalityType
  <1> QED BY <1>1, <1>4, <1>7

LEMMA AsyncDescriptor ==
  ASSUME NEW handle \in Nat
  PROVE  Win32NewDescriptor(fdTable, handle, -1) \in Fds \cup {-1}
  <1> DEFINE slots == Slots(fdTable, handle, -1)
  <1>1. -1 \notin Fds /\ Fds \subseteq Nat
    BY TableAssumption DEF Fds
  <1>2. slots \subseteq Fds
    BY <1>1 DEF Slots
  <1>3. CASE slots = {}
    BY <1>3 DEF Win32NewDescriptor
  <1>4. CASE slots # {}
    <2>1. \E f \in slots : \A g \in slots : f <= g
      BY <1>1, <1>2, <1>4, Least
    <2>2. Win32NewDescriptor(fdTable, handle, -1) = CHOOSE f \in slots : \A g \in slots : f <= g
      BY <1>4 DEF Win32NewDescriptor
    <2>3. Win32NewDescriptor(fdTable, handle, -1) \in slots
      <3> HIDE DEF slots
      <3> QED BY <2>1, <2>2
    <2> QED BY <1>2, <2>3
  <1> QED BY <1>3, <1>4

\* How an entry is changed.
LEMMA TableChanged ==
  ASSUME Handled, NEW fd \in Fds,
         fdTable'[fd].type = "pipe_async" => fdTable'[fd].fid \in Pipes,
         fdTable'[fd].type \in {"socket_sync", "socket_async"} => fdTable'[fd].fid \in Sockets,
         fdTable'[fd].instance = fdTable[fd].instance,
         \A f \in Fds : f # fd => fdTable'[f] = fdTable[f]
  PROVE  Handled'
  <1>1. ASSUME NEW f \in Fds
        PROVE  /\ fdTable'[f].type = "pipe_async" => fdTable'[f].fid \in Pipes
               /\ fdTable'[f].type \in {"socket_sync", "socket_async"} => fdTable'[f].fid \in Sockets
               /\ fdTable'[f].instance = 0
    <2>1. CASE f = fd
      BY <2>1 DEF Handled
    <2>2. CASE f # fd
      <3>1. fdTable'[f] = fdTable[f]
        BY <2>2
      <3> QED BY <3>1 DEF Handled
    <2> QED BY <2>1, <2>2
  <1> QED BY <1>1 DEF Handled

Environment ==
    \/ \E s \in Sources : Send(s) \/ PeerCloses(s)
    \/ \E h \in Pipes : FcgiConnectPipe(h)
    \/ \E h \in Sockets : NewSocket(h)
    \/ \E fd \in Fds : SetFlags(fd) \/ OS_Close(fd) \/ OS_CloseRead(fd)
    \/ UNCHANGED asyncVars

LEMMA EnvironmentStep ==
  ASSUME OpsIInv, Environment
  PROVE  OpsIInv'
  <1>1. AsyncTypeOK /\ Handled /\ \A s \in Sources : taken[s] <= sent[s]
    BY DEF OpsIInv, Queued
  <1>2. fdTable \in Table
    BY <1>1 DEF AsyncTypeOK, Table
  <1>3. UNCHANGED others
    BY DEF Environment, Send, PeerCloses, FcgiConnectPipe, NewSocket, SetFlags, OS_Close, OS_CloseRead,
           asyncVars, others, streams, thread
  <1> DEFINE Links == [Sources -> {"new", "unconnected", "open", "gone", "closed"}]
  <1>4. ASSUME sent' \in [Sources -> 0 .. MaxSent], link' \in Links, fdTable' \in Table,
               shut' \subseteq Sockets, Handled', \A s \in Sources : sent[s] <= sent'[s]
        PROVE  OpsIInv'
    <2>1. AsyncTypeOK'
      BY <1>1, <1>3, <1>4 DEF AsyncTypeOK, Table, others, thread
    <2>2. \A s \in Sources : taken[s] <= sent'[s]
      <3> SUFFICES ASSUME NEW s \in Sources PROVE taken[s] <= sent'[s]
        OBVIOUS
      <3>1. taken[s] \in Int /\ sent[s] \in Int /\ sent'[s] \in Int
        BY <1>1, <1>4, Constants DEF AsyncTypeOK
      <3> QED BY <1>1, <1>4, <3>1
    <2> QED BY <1>3, <1>4, <2>1, <2>2, AsyncKept
  <1>5. /\ sent \in [Sources -> 0 .. MaxSent] /\ link \in Links /\ shut \subseteq Sockets
        /\ \A s \in Sources : sent[s] \in Int /\ sent[s] <= sent[s]
    BY <1>1, Constants DEF AsyncTypeOK
  <1>6. ASSUME NEW s \in Sources, Send(s) PROVE OpsIInv'
    <2>1. /\ sent' = [sent EXCEPT ![s] = @ + 1] /\ Cardinality(AllSent) < MaxSent
          /\ UNCHANGED <<fdTable, link, shut>>
      BY <1>6 DEF Send
    <2>2. sent[s] + 1 \in 0 .. MaxSent
      BY <1>1, <2>1, SendRoom
    <2>3. sent' \in [Sources -> 0 .. MaxSent] /\ \A x \in Sources : sent[x] <= sent'[x]
      BY <1>5, <2>1, <2>2
    <2>4. Handled'
      BY <1>1, <2>1 DEF Handled
    <2> QED BY <1>2, <1>4, <1>5, <2>1, <2>3, <2>4
  <1>7. ASSUME NEW s \in Sources, PeerCloses(s) PROVE OpsIInv'
    <2>1. link' = [link EXCEPT ![s] = "gone"] /\ UNCHANGED <<fdTable, shut, sent>>
      BY <1>7 DEF PeerCloses
    <2>2. link' \in Links
      BY <1>5, <2>1
    <2>3. Handled'
      BY <1>1, <2>1 DEF Handled
    <2> QED BY <1>2, <1>4, <1>5, <2>1, <2>2, <2>3
  <1>8. ASSUME NEW h \in Pipes \cup Sockets, NEW type \in {"pipe_async", "socket_sync"},
               h \in Pipes <=> type = "pipe_async",
               link' \in Links, UNCHANGED <<shut, sent>>,
               LET fd == Win32NewDescriptor(fdTable, h, -1)
               IN  fdTable' = fdTable \/ (fd # -1 /\ fdTable' = Enter(fdTable, fd, type, h))
        PROVE  OpsIInv'
    <2>1. h \in Nat /\ type \in Types
      BY <1>8, Constants DEF Types
    <2>2. CASE fdTable' = fdTable
      <3>1. Handled'
        BY <1>1, <2>2 DEF Handled
      <3> QED BY <1>2, <1>4, <1>5, <1>8, <2>2, <3>1
    <2>3. CASE fdTable' # fdTable
      <3>1. PICK fd \in Fds : fdTable' = Enter(fdTable, fd, type, h)
        BY <1>8, <2>1, <2>3, AsyncDescriptor
      <3>2. /\ fdTable' \in Table
            /\ fdTable'[fd].type = type /\ fdTable'[fd].fid = h
            /\ fdTable'[fd].instance = fdTable[fd].instance
            /\ \A f \in Fds : f # fd => fdTable'[f] = fdTable[f]
        BY <1>2, <2>1, <3>1, EnterFacts
      <3>3. Handled'
        BY <1>1, <1>8, <3>2, TableChanged
      <3> QED BY <1>4, <1>5, <1>8, <3>2, <3>3
    <2> QED BY <2>2, <2>3
  <1>9. ASSUME NEW h \in Pipes, FcgiConnectPipe(h) PROVE OpsIInv'
    <2>1. /\ \E l \in {"open", "closed"} : link' = [link EXCEPT ![h] = l]
          /\ UNCHANGED <<shut, sent>>
          /\ LET fd == Win32NewDescriptor(fdTable, h, -1)
             IN  fdTable' = fdTable \/ (fd # -1 /\ fdTable' = Enter(fdTable, fd, "pipe_async", h))
      BY <1>9 DEF FcgiConnectPipe
    <2>2. link' \in Links
      BY <1>5, <2>1
    <2> QED BY <1>8, <2>1, <2>2, OpsAssumption
  <1>10. ASSUME NEW h \in Sockets, NewSocket(h) PROVE OpsIInv'
    <2>1. /\ \E l \in {"open", "closed", "unconnected"} : link' = [link EXCEPT ![h] = l]
          /\ UNCHANGED <<shut, sent>>
          /\ LET fd == Win32NewDescriptor(fdTable, h, -1)
             IN  fdTable' = fdTable \/ (fd # -1 /\ fdTable' = Enter(fdTable, fd, "socket_sync", h))
      BY <1>10 DEF NewSocket
    <2>2. link' \in Links
      BY <1>5, <2>1
    <2> QED BY <1>8, <2>1, <2>2, OpsAssumption
  <1>11. ASSUME NEW fd \in Fds, SetFlags(fd) PROVE OpsIInv'
    <2>1. /\ fdTable[fd].type = "socket_sync" /\ UNCHANGED <<link, shut, sent>>
          /\ fdTable' = [fdTable EXCEPT ![fd].type = "socket_async"]
      BY <1>11 DEF SetFlags, streams
    <2>2. "socket_async" \in Types
      BY DEF Types
    <2>3. /\ fdTable' \in Table
          /\ fdTable'[fd].type = "socket_async" /\ fdTable'[fd].fid = fdTable[fd].fid
          /\ fdTable'[fd].instance = fdTable[fd].instance
          /\ \A f \in Fds : f # fd => fdTable'[f] = fdTable[f]
      BY <1>2, <2>1, <2>2 DEF Table
    <2>4. fdTable[fd].fid \in Sockets
      BY <1>1, <2>1 DEF Handled
    <2>5. Handled'
      BY <1>1, <2>3, <2>4, TableChanged
    <2> QED BY <1>4, <1>5, <2>1, <2>3, <2>5
  <1>12. ASSUME NEW fd \in Fds, OS_Close(fd) PROVE OpsIInv'
    <2>1. /\ fdTable' = [fdTable EXCEPT ![fd].type = "unused"] /\ UNCHANGED <<shut, sent>>
          /\ link' = (IF fdTable[fd].fid \in Sockets THEN [link EXCEPT ![fdTable[fd].fid] = "closed"]
                      ELSE link)
      BY <1>12 DEF OS_Close, Win32FreeDescriptor
    <2>2. "unused" \in Types
      BY DEF Types
    <2>3. /\ fdTable' \in Table /\ fdTable'[fd].type = "unused"
          /\ fdTable'[fd].instance = fdTable[fd].instance
          /\ \A f \in Fds : f # fd => fdTable'[f] = fdTable[f]
      BY <1>2, <2>1, <2>2 DEF Table
    <2>4. Handled'
      BY <1>1, <2>3, TableChanged
    <2>5. link' \in Links
      BY <1>5, <2>1
    <2> QED BY <1>4, <1>5, <2>1, <2>3, <2>4, <2>5
  <1>13. ASSUME NEW fd \in Fds, OS_CloseRead(fd) PROVE OpsIInv'
    <2>1. /\ fdTable[fd].type \in {"socket_sync", "socket_async"}
          /\ shut' = shut \cup {fdTable[fd].fid} /\ UNCHANGED <<fdTable, link, sent>>
      BY <1>13 DEF OS_CloseRead
    <2>2. shut' \subseteq Sockets
      BY <1>1, <1>5, <2>1 DEF Handled
    <2>3. Handled'
      BY <1>1, <2>1 DEF Handled
    <2> QED BY <1>2, <1>4, <1>5, <2>1, <2>2, <2>3
  <1>14. CASE UNCHANGED asyncVars
    <2>1. UNCHANGED <<fdTable, link, shut, sent>>
      BY <1>14 DEF asyncVars, streams
    <2>2. Handled'
      BY <1>1, <2>1 DEF Handled
    <2> QED BY <1>2, <1>4, <1>5, <2>1, <2>2
  <1> HIDE DEF Links
  <1> QED BY <1>6, <1>7, <1>9, <1>10, <1>11, <1>12, <1>13, <1>14 DEF Environment
------------------------------------------------------------------------------
(* The completion port.                                                    *)

\* An operation that is allocated is not changed, but for the one that OS_DoIo
\* is calling back for.
LEMMA DataKept ==
  ASSUME OpsIInv, hIoCompPort' = hIoCompPort, \A o \in outstanding \ {current} : op'[o] = op[o]
  PROVE  \A s \in Sources : DataAt(s)' = DataAt(s)
  <1>1. \A i \in DOMAIN hIoCompPort : op'[hIoCompPort[i].op] = op[hIoCompPort[i].op]
    BY InPlace
  <1> QED BY <1>1 DEF DataAt

LEMMA DataAppended ==
  ASSUME OpsIInv, NEW x \in Completion, hIoCompPort' = Append(hIoCompPort, x),
         \A o \in outstanding : op'[o] = op[o], NEW s \in Sources
  PROVE  LET Carries == op'[x.op].source = s /\ op'[x.op].direction = "read" /\ x.bytes > 0
         IN  /\ Carries => DataAt(s)' = DataAt(s) \cup {Len(hIoCompPort) + 1}
             /\ ~ Carries => DataAt(s)' = DataAt(s)
  <1> DEFINE last == Len(hIoCompPort) + 1
             Carries == op'[x.op].source = s /\ op'[x.op].direction = "read" /\ x.bytes > 0
  <1>1. hIoCompPort \in Seq(Completion)
    BY DEF OpsIInv, Domains
  <1>2. /\ DOMAIN hIoCompPort' = DOMAIN hIoCompPort \cup {last} /\ last \notin DOMAIN hIoCompPort
        /\ hIoCompPort'[last] = x
        /\ \A i \in DOMAIN hIoCompPort : hIoCompPort'[i] = hIoCompPort[i]
    <2>1. /\ DOMAIN hIoCompPort = 1 .. Len(hIoCompPort) /\ Len(hIoCompPort) \in Nat
          /\ DOMAIN Append(hIoCompPort, x) = 1 .. last /\ Append(hIoCompPort, x)[last] = x
          /\ \A i \in 1 .. Len(hIoCompPort) : Append(hIoCompPort, x)[i] = hIoCompPort[i]
      BY <1>1
    <2>2. 1 .. last = (1 .. Len(hIoCompPort)) \cup {last} /\ last \notin 1 .. Len(hIoCompPort)
      BY <2>1
    <2> QED BY <2>1, <2>2
  <1>3. \A i \in DOMAIN hIoCompPort : op'[hIoCompPort[i].op] = op[hIoCompPort[i].op]
    BY InPlace
  <1> HIDE DEF last
  <1>4. DataAt(s)' = DataAt(s) \cup {i \in {last} : Carries}
    BY <1>2, <1>3 DEF DataAt
  <1> QED BY <1>4 DEF last

LEMMA QueuedAppended ==
  ASSUME OpsIInv, NEW x \in Completion, x.op \in outstanding,
         hIoCompPort' = Append(hIoCompPort, x),
         \A o \in outstanding : op'[o] = op[o], received' = received, sent' = sent,
         \/ x.bytes = 0 /\ taken' = taken
         \/ /\ op[x.op].direction = "read" /\ x.bytes = taken[op[x.op].source] + 1
            /\ taken[op[x.op].source] < sent[op[x.op].source]
            /\ taken' = [taken EXCEPT ![op[x.op].source] = @ + 1]
  PROVE  Queued' /\ taken' \in [Sources -> 0 .. MaxSent]
  <1> DEFINE src == op[x.op].source
  <1>1. /\ hIoCompPort \in Seq(Completion) /\ received \in [Sources -> Seq(Nat)] /\ Queued
        /\ taken \in [Sources -> 0 .. MaxSent] /\ sent \in [Sources -> 0 .. MaxSent]
        /\ MaxSent \in Nat /\ src \in Sources
    BY Constants DEF OpsIInv, Domains, AsyncTypeOK, Operation
  <1>2. op'[x.op] = op[x.op]
    OBVIOUS
  <1>3. ASSUME NEW s \in Sources
        PROVE  /\ Len(received[s]) \in Nat /\ taken[s] \in Nat /\ sent[s] \in 0 .. MaxSent
               /\ taken[s] <= sent[s] /\ Len(received[s]) <= taken[s]
               /\ DataAt(s) \in SUBSET DOMAIN hIoCompPort
               /\ InStep(hIoCompPort, DataAt(s), Len(received[s]), taken[s])
    <2>1. DataAt(s) \in SUBSET DOMAIN hIoCompPort
      BY DEF DataAt
    <2>2. /\ taken[s] <= sent[s] /\ Len(received[s]) <= taken[s]
          /\ InStep(hIoCompPort, DataAt(s), Len(received[s]), taken[s])
      BY <1>1 DEF Queued
    <2>3. Len(received[s]) \in Nat /\ taken[s] \in Nat /\ sent[s] \in 0 .. MaxSent
      BY <1>1
    <2> QED BY <2>1, <2>2, <2>3
  <1>4. ASSUME NEW s \in Sources
        PROVE  /\ InStep(hIoCompPort', DataAt(s), Len(received[s]), taken[s])
               /\ x.bytes = taken[s] + 1 =>
                     InStep(hIoCompPort', DataAt(s) \cup {Len(hIoCompPort) + 1}, Len(received[s]), taken[s] + 1)
    BY <1>1, <1>3, InStepAppend
  <1>5. CASE x.bytes = 0 /\ taken' = taken
    <2>1. \A s \in Sources : DataAt(s)' = DataAt(s)
      BY <1>5, DataAppended
    <2>2. ASSUME NEW s \in Sources
          PROVE  /\ taken'[s] <= sent'[s] /\ Len(received'[s]) <= taken'[s]
                 /\ InStep(hIoCompPort', DataAt(s)', Len(received'[s]), taken'[s])
      BY <1>3, <1>4, <1>5, <2>1
    <2> QED BY <1>1, <1>5, <2>2 DEF Queued, InStep
  <1>6. CASE /\ op[x.op].direction = "read" /\ x.bytes = taken[src] + 1 /\ taken[src] < sent[src]
             /\ taken' = [taken EXCEPT ![src] = @ + 1]
    <2>1. /\ taken'[src] = taken[src] + 1 /\ \A s \in Sources : s # src => taken'[s] = taken[s]
          /\ taken' \in [Sources -> 0 .. MaxSent]
      <3>1. taken[src] + 1 \in 0 .. MaxSent
        BY <1>1, <1>3, <1>6
      <3> HIDE DEF src
      <3> QED BY <1>1, <1>6, <3>1
    <2>2. ASSUME NEW s \in Sources
          PROVE  /\ taken'[s] <= sent'[s] /\ Len(received'[s]) <= taken'[s]
                 /\ InStep(hIoCompPort', DataAt(s)', Len(received'[s]), taken'[s])
      <3>1. CASE s = src
        <4>1. x.bytes > 0
          BY <1>1, <1>3, <1>6
        <4>2. DataAt(s)' = DataAt(s) \cup {Len(hIoCompPort) + 1}
          BY <1>2, <1>6, <3>1, <4>1, DataAppended
        <4>3. /\ taken'[s] = taken[s] + 1 /\ x.bytes = taken[s] + 1
              /\ taken[s] < sent[s] /\ sent'[s] = sent[s] /\ received'[s] = received[s]
          BY <1>6, <2>1, <3>1
        <4>4. InStep(hIoCompPort', DataAt(s)', Len(received'[s]), taken'[s])
          BY <1>4, <4>2, <4>3
        <4> HIDE DEF src
        <4> QED BY <1>3, <4>3, <4>4
      <3>2. CASE s # src
        <4>1. DataAt(s)' = DataAt(s)
          BY <1>2, <3>2, DataAppended
        <4> QED BY <1>3, <1>4, <2>1, <3>2, <4>1
      <3> QED BY <3>1, <3>2
    <2> QED BY <2>1, <2>2 DEF Queued, InStep
  <1> QED BY <1>5, <1>6
------------------------------------------------------------------------------
(* An operation begins.                                                    *)

LEMMA ThreadKept ==
  ASSUME OpsIInv, \A o \in outstanding \ {current} : op'[o] = op[o],
         UNCHANGED <<hStdinCompPort, stdinThread, reading>>
  PROVE  Thread'
  <1>1. Thread
    BY DEF OpsIInv
  <1>2. \A i \in DOMAIN hStdinCompPort : op'[hStdinCompPort[i]] = op[hStdinCompPort[i]]
    BY InPlace
  <1>3. reading # NoOp => op'[reading] = op[reading]
    BY InPlace
  <1> QED BY <1>1, <1>2, <1>3 DEF Thread, Reads

LEMMA AllocatedFacts ==
  ASSUME OpsIInv, NEW o \in Ops, NEW fd \in Fds, NEW source \in Sources, NEW direction \in {"read", "write"},
         Allocated(o, fd, source, direction)
  PROVE  /\ o \notin outstanding /\ outstanding' = outstanding \cup {o} /\ outstanding' \subseteq Ops
         /\ op'[o].source = source /\ op'[o].direction = direction
         /\ \A x \in outstanding : op'[x] = op[x]
         /\ op' \in [Ops -> Operation \cup {NoOp}]
         /\ \A x \in outstanding' : op'[x] \in Operation /\ op'[x].instance = 0
  <1>1. /\ op \in [Ops -> Operation \cup {NoOp}] /\ outstanding \subseteq Ops
        /\ \A x \in outstanding : op[x] \in Operation /\ op[x].instance = 0
        /\ fdTable[fd].instance = 0
    BY DEF OpsIInv, Domains, AsyncTypeOK, Instances, Handled
  <1> DEFINE new == [fd |-> fd, source |-> source, direction |-> direction, instance |-> fdTable[fd].instance]
  <1>2. /\ o \notin outstanding /\ outstanding' = outstanding \cup {o} /\ op' = [op EXCEPT ![o] = new]
    BY DEF Allocated
  <1>3. /\ new \in Operation /\ new.source = source /\ new.direction = direction /\ new.instance = 0
    BY <1>1 DEF Operation
  <1> HIDE DEF new
  <1>4. op'[o] = new /\ \A x \in Ops : x # o => op'[x] = op[x]
    BY <1>1, <1>2
  <1>5. op' \in [Ops -> Operation \cup {NoOp}]
    BY <1>1, <1>2, <1>3
  <1> QED BY <1>1, <1>2, <1>3, <1>4, <1>5

\* What is allocated is put in one place.
LEMMA OnceAllocated ==
  ASSUME NEW o \in Ops, NEW x \in Ops, NEW pend \in Seq(Ops), NEW std \in Seq(Ops), NEW port \in Seq(Completion),
         NEW read, NEW cur, NEW gone, NEW out, o \notin out, Once(x, pend, std, port, read, cur, gone, out)
  PROVE  /\ Once(x, Append(pend, o), std, port, read, cur, gone, out \cup {o})
         /\ Once(x, pend, Append(std, o), port, read, cur, gone, out \cup {o})
         /\ \A completion \in Completion : completion.op = o =>
               Once(x, pend, std, Append(port, completion), read, cur, gone, out \cup {o})
  <1> DEFINE d == IF x = o THEN 1 ELSE 0
  <1>1. /\ Count(Append(pend, o), {x}) = Count(pend, {x}) + d
        /\ Count(Append(std, o), {x}) = Count(std, {x}) + d
    <2>1. o \in {x} <=> x = o
      OBVIOUS
    <2> QED BY <2>1, CountAppend
  <1>2. ASSUME NEW completion \in Completion, completion.op = o
        PROVE  Count(Append(port, completion), Of(x)) = Count(port, Of(x)) + d
    <2>1. completion \in Of(x) <=> x = o
      BY <1>2 DEF Of
    <2> QED BY <2>1, CountAppend
  <1>3. Bit(x \in out \cup {o}) = Bit(x \in out) + d
    BY DEF Bit
  <1>4. PICK p \in Nat, s \in Nat, q \in Nat, r \in Nat, c \in Nat, g \in Nat, y \in Nat :
           /\ p = Count(pend, {x}) /\ s = Count(std, {x}) /\ q = Count(port, Of(x))
           /\ r = Bit(read = x) /\ c = Bit(cur = x) /\ g = Bit(x \in gone) /\ y = Bit(x \in out)
    <2>1. Count(pend, {x}) \in Nat /\ Count(std, {x}) \in Nat /\ Count(port, Of(x)) \in Nat
      BY CountType
    <2> QED BY <2>1 DEF Bit
  <1>5. d \in Nat /\ p + s + q + r + c + g = y
    BY <1>4 DEF Once
  <1> HIDE DEF d
  <1>6. Once(x, Append(pend, o), std, port, read, cur, gone, out \cup {o})
    <2>1. (p + d) + s + q + r + c + g = y + d
      BY <1>5
    <2> QED BY <1>1, <1>3, <1>4, <2>1 DEF Once
  <1>7. Once(x, pend, Append(std, o), port, read, cur, gone, out \cup {o})
    <2>1. p + (s + d) + q + r + c + g = y + d
      BY <1>5
    <2> QED BY <1>1, <1>3, <1>4, <2>1 DEF Once
  <1>8. ASSUME NEW completion \in Completion, completion.op = o
        PROVE  Once(x, pend, std, Append(port, completion), read, cur, gone, out \cup {o})
    <2>1. p + s + (q + d) + r + c + g = y + d
      BY <1>5
    <2> QED BY <1>2, <1>3, <1>4, <1>8, <2>1 DEF Once
  <1> QED BY <1>6, <1>7, <1>8

LEMMA AsyncReadStdinStep ==
  ASSUME OpsIInv, NEW o \in Ops, AsyncReadStdin(o)
  PROVE  OpsIInv'
  <1>1. /\ Domains /\ AsyncTypeOK /\ Handled /\ Thread /\ Queued /\ EachOnce /\ InOrder
        /\ \A x \in outstanding : op[x] \in Operation
    BY DEF OpsIInv, Domains
  <1>2. /\ Allocated(o, STDIN_FILENO, STDIN_FILENO, "read") /\ hStdinCompPort' = Append(hStdinCompPort, o)
        /\ UNCHANGED <<input, fdTable, link, shut, sent, taken, received, pending, hIoCompPort, stdinThread,
                       reading, abandoned, current>>
    BY DEF AsyncReadStdin, streams
  <1>3. STDIN_FILENO \in Fds /\ STDIN_FILENO \in Sources
    BY TableAssumption, Constants DEF Fds
  <1>4. /\ o \notin outstanding /\ outstanding' = outstanding \cup {o} /\ outstanding' \subseteq Ops
        /\ op'[o].source = STDIN_FILENO /\ op'[o].direction = "read"
        /\ \A x \in outstanding : op'[x] = op[x]
        /\ op' \in [Ops -> Operation \cup {NoOp}]
        /\ \A x \in outstanding' : op'[x] \in Operation /\ op'[x].instance = 0
    BY <1>2, <1>3, AllocatedFacts
  <1>5. hStdinCompPort \in Seq(Ops) /\ hStdinCompPort' \in Seq(Ops)
    BY <1>1, <1>2 DEF Domains
  <1>6. Domains'
    BY <1>1, <1>2, <1>4, <1>5 DEF Domains
  <1>7. AsyncTypeOK'
    BY <1>1, <1>2, <1>4 DEF AsyncTypeOK
  <1>8. EachOnce'
    <2>1. ASSUME NEW x \in Ops
          PROVE  Once(x, pending', hStdinCompPort', hIoCompPort', reading', current', abandoned', outstanding')
      <3>1. Once(x, pending, hStdinCompPort, hIoCompPort, reading, current, abandoned, outstanding)
        BY <1>1, OnceNow
      <3>2. Once(x, pending, Append(hStdinCompPort, o), hIoCompPort, reading, current, abandoned, outstanding \cup {o})
        BY <1>1, <1>4, <3>1, OnceAllocated DEF Domains
      <3> QED BY <1>2, <1>4, <3>2
    <2> QED BY <1>6, <2>1, OnceNext
  <1>9. Handled' /\ Instances'
    BY <1>1, <1>2, <1>4 DEF Handled, Instances
  <1>10. Thread'
    <2>1. \A i \in DOMAIN hStdinCompPort : op'[hStdinCompPort[i]] = op[hStdinCompPort[i]]
      BY <1>4, InPlace
    <2>2. reading # NoOp => op'[reading] = op[reading]
      BY <1>4, InPlace
    <2>3. \A i \in DOMAIN hStdinCompPort' :
             hStdinCompPort'[i] = o \/ (i \in DOMAIN hStdinCompPort /\ hStdinCompPort'[i] = hStdinCompPort[i])
      BY <1>2, <1>5
    <2>4. Reads(o)'
      BY <1>4 DEF Reads
    <2> QED BY <1>1, <1>2, <2>1, <2>2, <2>3, <2>4 DEF Thread, Reads
  <1>11. Queued'
    <2>1. \A s \in Sources : DataAt(s)' = DataAt(s)
      BY <1>2, <1>4, DataKept
    <2> QED BY <1>1, <1>2, <2>1 DEF Queued, InStep
  <1>12. \A s \in Sources : received'[s] = [i \in 1 .. Len(received'[s]) |-> i]
    BY <1>1, <1>2 DEF InOrder
  <1> QED BY <1>6, <1>7, <1>8, <1>9, <1>10, <1>11, <1>12, WrappedNext

LEMMA AsyncStep ==
  ASSUME OpsIInv, NEW o \in Ops, NEW fd \in Fds, NEW direction \in {"read", "write"},
         Async(o, fd, direction)
  PROVE  OpsIInv'
  <1>1. /\ Domains /\ AsyncTypeOK /\ Handled /\ Thread /\ Queued /\ EachOnce /\ InOrder
        /\ \A x \in outstanding : op[x] \in Operation
    BY DEF OpsIInv, Domains
  <1>2. PICK handle \in Sources :
           /\ Allocated(o, fd, handle, direction)
           /\ \/ pending' = Append(pending, o) /\ UNCHANGED hIoCompPort
              \/ hIoCompPort' = Append(hIoCompPort, [op |-> o, bytes |-> 0]) /\ UNCHANGED pending
    <2>1. fdTable[fd].fid \in Sources
      BY <1>1, Constants DEF Async, AsyncTypes, Handled, Handles
    <2> QED BY <2>1 DEF Async
  <1>3. UNCHANGED <<input, fdTable, link, shut, sent, taken, received, hStdinCompPort, stdinThread,
                    reading, abandoned, current>>
    BY DEF Async, streams, thread
  <1>4. /\ o \notin outstanding /\ outstanding' = outstanding \cup {o} /\ outstanding' \subseteq Ops
        /\ \A x \in outstanding : op'[x] = op[x]
        /\ op' \in [Ops -> Operation \cup {NoOp}]
        /\ \A x \in outstanding' : op'[x] \in Operation /\ op'[x].instance = 0
    BY <1>2, AllocatedFacts
  <1>5. [op |-> o, bytes |-> 0] \in Completion
    BY DEF Completion
  <1>6. Domains'
    <2>1. pending \in Seq(Ops) /\ hIoCompPort \in Seq(Completion)
      BY <1>1 DEF Domains
    <2>2. Append(pending, o) \in Seq(Ops)
      BY <2>1
    <2>3. \A x \in Completion : Append(hIoCompPort, x) \in Seq(Completion)
      BY <2>1
    <2>4. pending' \in Seq(Ops) /\ hIoCompPort' \in Seq(Completion)
      BY <1>2, <1>5, <2>1, <2>2, <2>3
    <2> QED BY <1>1, <1>3, <1>4, <2>4 DEF Domains
  <1>7. AsyncTypeOK'
    BY <1>1, <1>3, <1>4 DEF AsyncTypeOK
  <1>8. EachOnce'
    <2>1. ASSUME NEW x \in Ops
          PROVE  Once(x, pending', hStdinCompPort', hIoCompPort', reading', current', abandoned', outstanding')
      <3>1. Once(x, pending, hStdinCompPort, hIoCompPort, reading, current, abandoned, outstanding)
        BY <1>1, OnceNow
      <3>2. /\ Once(x, Append(pending, o), hStdinCompPort, hIoCompPort, reading, current, abandoned, outstanding \cup {o})
            /\ \A completion \in Completion : completion.op = o =>
                  Once(x, pending, hStdinCompPort, Append(hIoCompPort, completion), reading, current, abandoned,
                       outstanding \cup {o})
        BY <1>1, <1>4, <3>1, OnceAllocated DEF Domains
      <3>3. Once(x, pending, hStdinCompPort, Append(hIoCompPort, [op |-> o, bytes |-> 0]), reading, current,
                 abandoned, outstanding \cup {o})
        BY <1>5, <3>2
      <3> QED BY <1>2, <1>3, <1>4, <3>2, <3>3
    <2> QED BY <1>6, <2>1, OnceNext
  <1>9. Handled' /\ Instances'
    BY <1>1, <1>3, <1>4 DEF Handled, Instances
  <1>10. Thread'
    BY <1>3, <1>4, ThreadKept
  <1>11. Queued'
    <2>1. \A s \in Sources : DataAt(s)' = DataAt(s)
      <3>1. CASE hIoCompPort' = hIoCompPort
        BY <1>4, <3>1, DataKept
      <3>2. CASE hIoCompPort' = Append(hIoCompPort, [op |-> o, bytes |-> 0])
        <4>1. PICK x \in Completion : x = [op |-> o, bytes |-> 0] /\ x.bytes = 0
          BY <1>5
        <4>2. ~ (x.bytes > 0) /\ hIoCompPort' = Append(hIoCompPort, x)
          BY <3>2, <4>1
        <4> QED BY <1>4, <4>2, DataAppended
      <3> QED BY <1>2, <3>1, <3>2
    <2>2. ASSUME NEW s \in Sources
          PROVE  InStep(hIoCompPort', DataAt(s), Len(received[s]), taken[s])
      <3>1. /\ hIoCompPort \in Seq(Completion) /\ DataAt(s) \in SUBSET DOMAIN hIoCompPort
            /\ Len(received[s]) \in Nat /\ taken[s] \in Nat
        BY <1>1, Constants DEF Domains, AsyncTypeOK, DataAt
      <3>2. Len(received[s]) <= taken[s] /\ InStep(hIoCompPort, DataAt(s), Len(received[s]), taken[s])
        BY <1>1 DEF Queued
      <3>3. InStep(Append(hIoCompPort, [op |-> o, bytes |-> 0]), DataAt(s), Len(received[s]), taken[s])
        BY <1>5, <3>1, <3>2, InStepAppend
      <3> QED BY <1>2, <3>2, <3>3
    <2> QED BY <1>1, <1>3, <2>1, <2>2 DEF Queued, InStep
  <1>12. \A s \in Sources : received'[s] = [i \in 1 .. Len(received'[s]) |-> i]
    BY <1>1, <1>3 DEF InOrder
  <1> QED BY <1>6, <1>7, <1>8, <1>9, <1>10, <1>11, <1>12, WrappedNext
------------------------------------------------------------------------------
(* It is completed.                                                        *)

LEMMA OnceCompleted ==
  ASSUME NEW x \in Ops, NEW pend \in Seq(Ops), NEW std \in Seq(Ops), NEW port \in Seq(Completion),
         NEW read, NEW cur, NEW gone, NEW out, Once(x, pend, std, port, read, cur, gone, out),
         NEW k \in 1 .. Len(pend), NEW completion \in Completion, completion.op = pend[k]
  PROVE  Once(x, RemoveAt(pend, k), std, Append(port, completion), read, cur, gone, out)
  <1> DEFINE d == IF x = pend[k] THEN 1 ELSE 0
  <1>1. Count(RemoveAt(pend, k), {x}) = Count(pend, {x}) - d
    <2>1. pend[k] \in {x} <=> x = pend[k]
      OBVIOUS
    <2> QED BY <2>1, CountRemoveAt
  <1>2. Count(Append(port, completion), Of(x)) = Count(port, Of(x)) + d
    <2>1. completion \in Of(x) <=> x = pend[k]
      BY DEF Of
    <2> QED BY <2>1, CountAppend
  <1>3. PICK p \in Nat, s \in Nat, q \in Nat, r \in Nat, c \in Nat, g \in Nat, y \in Nat :
           /\ p = Count(pend, {x}) /\ s = Count(std, {x}) /\ q = Count(port, Of(x))
           /\ r = Bit(read = x) /\ c = Bit(cur = x) /\ g = Bit(x \in gone) /\ y = Bit(x \in out)
    <2>1. Count(pend, {x}) \in Nat /\ Count(std, {x}) \in Nat /\ Count(port, Of(x)) \in Nat
      BY CountType
    <2> QED BY <2>1 DEF Bit
  <1>4. d \in Nat /\ p + s + q + r + c + g = y
    BY <1>3 DEF Once
  <1> HIDE DEF d
  <1>5. (p - d) + s + (q + d) + r + c + g = y
    BY <1>4
  <1> QED BY <1>1, <1>2, <1>3, <1>5 DEF Once

LEMMA CompleteStep ==
  ASSUME OpsIInv, NEW o \in Ops, Complete(o)
  PROVE  OpsIInv'
  <1>1. /\ Domains /\ AsyncTypeOK /\ Handled /\ Thread /\ Queued /\ EachOnce /\ InOrder /\ Instances
        /\ pending \in Seq(Ops) /\ hIoCompPort \in Seq(Completion)
    BY DEF OpsIInv, Domains
  <1>2. PICK k \in 1 .. Len(pending) : pending[k] = o /\ pending' = RemoveAt(pending, k)
    BY <1>1 DEF Complete
  <1>3. UNCHANGED <<input, fdTable, link, shut, sent, received, op, outstanding, hStdinCompPort, stdinThread,
                    reading, abandoned, current>>
    BY DEF Complete, streams, thread
  <1>4. o \in outstanding /\ op[o] \in Operation /\ op[o].source \in Sources /\ op[o].direction \in {"read", "write"}
    <2>1. o \in outstanding
      BY <1>1, <1>2, InPlace
    <2>2. op[o] \in Operation
      BY <1>1, <2>1 DEF Domains
    <2> QED BY <2>1, <2>2 DEF Operation
  <1> DEFINE src == op[o].source
  <1>5. PICK x \in Completion :
           /\ x.op = o /\ hIoCompPort' = Append(hIoCompPort, x)
           /\ \/ x.bytes = 0 /\ taken' = taken
              \/ /\ op[o].direction = "read" /\ x.bytes = taken[src] + 1 /\ taken[src] < sent[src]
                 /\ taken' = [taken EXCEPT ![src] = @ + 1]
    <2>1. taken[src] + 1 \in Nat
      <3>1. taken[src] \in 0 .. MaxSent /\ MaxSent \in Nat
        BY <1>1, <1>4, Constants DEF AsyncTypeOK
      <3> HIDE DEF src
      <3> QED BY <3>1
    <2>2. \A bytes \in Nat : [op |-> o, bytes |-> bytes] \in Completion
      BY DEF Completion
    <2>3. \/ hIoCompPort' = Append(hIoCompPort, [op |-> o, bytes |-> 0]) /\ taken' = taken
          \/ /\ hIoCompPort' = Append(hIoCompPort, [op |-> o, bytes |-> taken[src] + 1])
             /\ op[o].direction = "read" /\ taken[src] < sent[src]
             /\ taken' = [taken EXCEPT ![src] = @ + 1]
      BY DEF Complete, Unread
    <2> HIDE DEF src
    <2>4. CASE hIoCompPort' = Append(hIoCompPort, [op |-> o, bytes |-> 0]) /\ taken' = taken
      BY <2>2, <2>4
    <2>5. CASE /\ hIoCompPort' = Append(hIoCompPort, [op |-> o, bytes |-> taken[src] + 1])
               /\ op[o].direction = "read" /\ taken[src] < sent[src]
               /\ taken' = [taken EXCEPT ![src] = @ + 1]
      BY <2>1, <2>2, <2>5
    <2> QED BY <2>3, <2>4, <2>5
  <1>6. Queued' /\ taken' \in [Sources -> 0 .. MaxSent]
    BY <1>3, <1>4, <1>5, QueuedAppended
  <1>7. Domains'
    <2>1. pending' \in Seq(Ops) /\ hIoCompPort' \in Seq(Completion)
      BY <1>1, <1>2, <1>5, CountRemoveAt
    <2> QED BY <1>1, <1>3, <2>1 DEF Domains
  <1>8. AsyncTypeOK'
    BY <1>1, <1>3, <1>6 DEF AsyncTypeOK
  <1>9. EachOnce'
    <2>1. ASSUME NEW y \in Ops
          PROVE  Once(y, pending', hStdinCompPort', hIoCompPort', reading', current', abandoned', outstanding')
      <3>1. Once(y, pending, hStdinCompPort, hIoCompPort, reading, current, abandoned, outstanding)
        BY <1>1, OnceNow
      <3>2. Once(y, RemoveAt(pending, k), hStdinCompPort, Append(hIoCompPort, x), reading, current, abandoned, outstanding)
        BY <1>1, <1>2, <1>5, <3>1, OnceCompleted DEF Domains
      <3> QED BY <1>2, <1>3, <1>5, <3>2
    <2> QED BY <1>7, <2>1, OnceNext
  <1>10. Handled' /\ Instances'
    BY <1>1, <1>3 DEF Handled, Instances
  <1>11. Thread'
    BY <1>3, ThreadKept
  <1>12. \A s \in Sources : received'[s] = [i \in 1 .. Len(received'[s]) |-> i]
    BY <1>1, <1>3 DEF InOrder
  <1> QED BY <1>6, <1>7, <1>8, <1>9, <1>10, <1>11, <1>12, WrappedNext
------------------------------------------------------------------------------
(* StdinThread.                                                            *)

LEMMA OnceTaken ==
  ASSUME NEW x \in Ops, NEW pend \in Seq(Ops), NEW std \in Seq(Ops), NEW port \in Seq(Completion),
         NEW cur, NEW gone, NEW out, Once(x, pend, std, port, NoOp, cur, gone, out), std # <<>>
  PROVE  Once(x, pend, Tail(std), port, Head(std), cur, gone, out)
  <1> DEFINE d == IF x = Head(std) THEN 1 ELSE 0
  <1>1. Count(Tail(std), {x}) = Count(std, {x}) - d
    <2>1. Head(std) \in {x} <=> x = Head(std)
      OBVIOUS
    <2> QED BY <2>1, CountTail
  <1>2. Bit(Head(std) = x) = d /\ Bit(NoOp = x) = 0
    BY Constants DEF Bit
  <1>3. PICK p \in Nat, s \in Nat, q \in Nat, c \in Nat, g \in Nat, y \in Nat :
           /\ p = Count(pend, {x}) /\ s = Count(std, {x}) /\ q = Count(port, Of(x))
           /\ c = Bit(cur = x) /\ g = Bit(x \in gone) /\ y = Bit(x \in out)
    <2>1. Count(pend, {x}) \in Nat /\ Count(std, {x}) \in Nat /\ Count(port, Of(x)) \in Nat
      BY CountType
    <2> QED BY <2>1 DEF Bit
  <1>4. d \in Nat /\ p + s + q + 0 + c + g = y
    BY <1>2, <1>3 DEF Once
  <1> HIDE DEF d
  <1>5. p + (s - d) + q + d + c + g = y
    BY <1>4
  <1> QED BY <1>1, <1>2, <1>3, <1>5 DEF Once

LEMMA OnceRead ==
  ASSUME NEW x \in Ops, NEW pend \in Seq(Ops), NEW std \in Seq(Ops), NEW port \in Seq(Completion),
         NEW read \in Ops, NEW cur, NEW gone, NEW out, Once(x, pend, std, port, read, cur, gone, out),
         read \notin gone
  PROVE  /\ Once(x, pend, std, port, NoOp, cur, gone \cup {read}, out)
         /\ \A completion \in Completion : completion.op = read =>
               Once(x, pend, std, Append(port, completion), NoOp, cur, gone, out)
  <1> DEFINE d == IF x = read THEN 1 ELSE 0
  <1>1. /\ Bit(read = x) = d /\ Bit(NoOp = x) = 0
        /\ Bit(x \in gone \cup {read}) = Bit(x \in gone) + d
    BY Constants DEF Bit
  <1>2. ASSUME NEW completion \in Completion, completion.op = read
        PROVE  Count(Append(port, completion), Of(x)) = Count(port, Of(x)) + d
    <2>1. completion \in Of(x) <=> x = read
      BY <1>2 DEF Of
    <2> QED BY <2>1, CountAppend
  <1>3. PICK p \in Nat, s \in Nat, q \in Nat, c \in Nat, g \in Nat, y \in Nat :
           /\ p = Count(pend, {x}) /\ s = Count(std, {x}) /\ q = Count(port, Of(x))
           /\ c = Bit(cur = x) /\ g = Bit(x \in gone) /\ y = Bit(x \in out)
    <2>1. Count(pend, {x}) \in Nat /\ Count(std, {x}) \in Nat /\ Count(port, Of(x)) \in Nat
      BY CountType
    <2> QED BY <2>1 DEF Bit
  <1>4. d \in Nat /\ p + s + q + d + c + g = y
    BY <1>1, <1>3 DEF Once
  <1> HIDE DEF d
  <1>5. Once(x, pend, std, port, NoOp, cur, gone \cup {read}, out)
    <2>1. p + s + q + 0 + c + (g + d) = y
      BY <1>4
    <2> QED BY <1>1, <1>3, <2>1 DEF Once
  <1>6. ASSUME NEW completion \in Completion, completion.op = read
        PROVE  Once(x, pend, std, Append(port, completion), NoOp, cur, gone, out)
    <2>1. p + s + (q + d) + 0 + c + g = y
      BY <1>4
    <2> QED BY <1>1, <1>2, <1>3, <1>6, <2>1 DEF Once
  <1> QED BY <1>5, <1>6

LEMMA StdinTakeStep ==
  ASSUME OpsIInv, StdinTake
  PROVE  OpsIInv'
  <1>1. /\ Domains /\ AsyncTypeOK /\ Handled /\ Thread /\ Queued /\ EachOnce /\ InOrder /\ Instances
        /\ hStdinCompPort \in Seq(Ops)
    BY DEF OpsIInv, Domains
  <1>2. /\ stdinThread = "waits" /\ hStdinCompPort # <<>>
        /\ reading' = Head(hStdinCompPort) /\ hStdinCompPort' = Tail(hStdinCompPort)
        /\ stdinThread' = "reads"
        /\ UNCHANGED <<input, fdTable, link, shut, sent, taken, received, op, outstanding, pending,
                       hIoCompPort, abandoned, current>>
    BY DEF StdinTake, streams
  <1>3. /\ reading' \in Ops /\ hStdinCompPort' \in Seq(Ops) /\ reading' = hStdinCompPort[1]
        /\ 1 \in DOMAIN hStdinCompPort
        /\ \A i \in DOMAIN hStdinCompPort' :
              i + 1 \in DOMAIN hStdinCompPort /\ hStdinCompPort'[i] = hStdinCompPort[i + 1]
    BY <1>1, <1>2
  <1>4. reading = NoOp
    BY <1>1, <1>2 DEF Thread
  <1>5. Domains'
    BY <1>1, <1>2, <1>3 DEF Domains
  <1>6. AsyncTypeOK'
    BY <1>1, <1>2, <1>3 DEF AsyncTypeOK
  <1>7. EachOnce'
    <2>1. ASSUME NEW x \in Ops
          PROVE  Once(x, pending', hStdinCompPort', hIoCompPort', reading', current', abandoned', outstanding')
      <3>1. Once(x, pending, hStdinCompPort, hIoCompPort, NoOp, current, abandoned, outstanding)
        BY <1>1, <1>4, OnceNow
      <3>2. Once(x, pending, Tail(hStdinCompPort), hIoCompPort, Head(hStdinCompPort), current, abandoned, outstanding)
        BY <1>1, <1>2, <3>1, OnceTaken DEF Domains
      <3> QED BY <1>2, <3>2
    <2> QED BY <1>5, <2>1, OnceNext
  <1>8. Handled' /\ Instances'
    BY <1>1, <1>2 DEF Handled, Instances
  <1>9. Thread'
    <2>1. \A i \in DOMAIN hStdinCompPort : Reads(hStdinCompPort[i])
      BY <1>1 DEF Thread
    <2>2. Reads(hStdinCompPort[1]) /\ \A i \in DOMAIN hStdinCompPort' : Reads(hStdinCompPort'[i])
      BY <1>3, <2>1
    <2>3. reading' # NoOp
      BY <1>3, Constants
    <2> QED BY <1>2, <1>3, <2>2, <2>3 DEF Thread, Reads
  <1>10. Queued'
    <2>1. \A s \in Sources : DataAt(s)' = DataAt(s)
      BY <1>2 DEF DataAt
    <2> QED BY <1>1, <1>2, <2>1 DEF Queued, InStep
  <1>11. \A s \in Sources : received'[s] = [i \in 1 .. Len(received'[s]) |-> i]
    BY <1>1, <1>2 DEF InOrder
  <1> QED BY <1>5, <1>6, <1>7, <1>8, <1>9, <1>10, <1>11, WrappedNext

LEMMA StdinReadStep ==
  ASSUME OpsIInv, StdinRead
  PROVE  OpsIInv'
  <1>1. /\ Domains /\ AsyncTypeOK /\ Handled /\ Thread /\ Queued /\ EachOnce /\ InOrder /\ Instances
        /\ hIoCompPort \in Seq(Completion) /\ taken \in [Sources -> 0 .. MaxSent]
    BY DEF OpsIInv, Domains, AsyncTypeOK
  <1>2. /\ stdinThread = "reads" /\ reading' = NoOp
        /\ UNCHANGED <<input, fdTable, link, shut, sent, received, op, outstanding, pending, hStdinCompPort,
                       current>>
    BY DEF StdinRead, streams
  <1>3. /\ reading \in Ops /\ reading \in outstanding /\ Reads(reading) /\ reading \notin abandoned
    <2>1. reading # NoOp /\ Reads(reading)
      BY <1>1, <1>2 DEF Thread
    <2>2. reading \in Ops
      BY <1>1, <2>1 DEF AsyncTypeOK
    <2>3. Once(reading, pending, hStdinCompPort, hIoCompPort, reading, current, abandoned, outstanding)
      BY <1>1, <2>2, OnceNow
    <2> QED BY <1>1, <2>1, <2>2, <2>3, Alone DEF Domains
  <1>4. ASSUME NEW y \in Ops
        PROVE  /\ Once(y, pending, hStdinCompPort, hIoCompPort, NoOp, current, abandoned \cup {reading}, outstanding)
               /\ \A completion \in Completion : completion.op = reading =>
                     Once(y, pending, hStdinCompPort, Append(hIoCompPort, completion), NoOp, current, abandoned,
                          outstanding)
    <2>1. Once(y, pending, hStdinCompPort, hIoCompPort, reading, current, abandoned, outstanding)
      BY <1>1, OnceNow
    <2> QED BY <1>1, <1>3, <2>1, OnceRead DEF Domains
  <1>5. Handled' /\ Instances'
    BY <1>1, <1>2 DEF Handled, Instances
  <1>6. ASSUME stdinThread' # "reads" PROVE Thread'
    BY <1>1, <1>2, <1>6 DEF Thread, Reads
  <1>7. \A s \in Sources : received'[s] = [i \in 1 .. Len(received'[s]) |-> i]
    BY <1>1, <1>2 DEF InOrder
  <1> DEFINE src == STDIN_FILENO
  <1>8. CASE /\ hIoCompPort' = Append(hIoCompPort, [op |-> reading, bytes |-> IF Unread(src) THEN taken[src] + 1 ELSE 0])
             /\ taken' = [taken EXCEPT ![src] = IF Unread(src) THEN @ + 1 ELSE @]
             /\ stdinThread' = "waits" /\ UNCHANGED abandoned
    <2>1. taken[src] \in 0 .. MaxSent /\ MaxSent \in Nat /\ src \in Sources
      BY <1>1, Constants
    <2>2. op[reading].source = src /\ op[reading].direction = "read"
      BY <1>3 DEF Reads
    <2>3. \A bytes \in Nat : [op |-> reading, bytes |-> bytes] \in Completion
      BY <1>3 DEF Completion
    <2> HIDE DEF src
    <2>4. PICK x \in Completion :
             /\ x.op = reading /\ hIoCompPort' = Append(hIoCompPort, x)
             /\ \/ x.bytes = 0 /\ taken' = taken
                \/ /\ x.bytes = taken[src] + 1 /\ taken[src] < sent[src]
                   /\ taken' = [taken EXCEPT ![src] = @ + 1]
      <3>1. CASE Unread(src)
        <4>1. taken[src] + 1 \in Nat
          BY <2>1
        <4>2. [op |-> reading, bytes |-> taken[src] + 1] \in Completion
          BY <2>3, <4>1
        <4> QED BY <1>8, <3>1, <4>2 DEF Unread
      <3>2. CASE ~ Unread(src)
        <4>1. [op |-> reading, bytes |-> 0] \in Completion
          BY <2>3
        <4>2. taken' = taken
          BY <1>1, <1>8, <2>1, <3>2
        <4> QED BY <1>8, <3>2, <4>1, <4>2
      <3> QED BY <3>1, <3>2
    <2>5. Queued' /\ taken' \in [Sources -> 0 .. MaxSent]
      BY <1>2, <1>3, <2>2, <2>4, QueuedAppended
    <2>6. Domains'
      <3>1. hIoCompPort' \in Seq(Completion)
        BY <1>1, <2>4
      <3> QED BY <1>1, <1>2, <3>1 DEF Domains
    <2>7. AsyncTypeOK'
      BY <1>1, <1>2, <1>8, <2>5 DEF AsyncTypeOK
    <2>8. EachOnce'
      <3>1. ASSUME NEW y \in Ops
            PROVE  Once(y, pending', hStdinCompPort', hIoCompPort', reading', current', abandoned', outstanding')
        <4>1. Once(y, pending, hStdinCompPort, Append(hIoCompPort, x), NoOp, current, abandoned, outstanding)
          BY <1>4, <2>4
        <4> QED BY <1>2, <1>8, <2>4, <4>1
      <3> QED BY <2>6, <3>1, OnceNext
    <2> QED BY <1>5, <1>6, <1>7, <1>8, <2>5, <2>6, <2>7, <2>8, WrappedNext
  <1>9. CASE stdinThread' = "ended" /\ abandoned' = abandoned \cup {reading} /\ UNCHANGED <<hIoCompPort, taken>>
    <2>1. Domains' /\ AsyncTypeOK'
      BY <1>1, <1>2, <1>3, <1>9 DEF Domains, AsyncTypeOK
    <2>2. EachOnce'
      <3>1. ASSUME NEW y \in Ops
            PROVE  Once(y, pending', hStdinCompPort', hIoCompPort', reading', current', abandoned', outstanding')
        BY <1>2, <1>4, <1>9
      <3> QED BY <2>1, <3>1, OnceNext
    <2>3. Queued'
      <3>1. \A s \in Sources : DataAt(s)' = DataAt(s)
        BY <1>2, <1>9 DEF DataAt
      <3> QED BY <1>1, <1>2, <1>9, <3>1 DEF Queued, InStep
    <2> QED BY <1>5, <1>6, <1>7, <1>9, <2>1, <2>2, <2>3, WrappedNext
  <1> QED BY <1>8, <1>9 DEF StdinRead
------------------------------------------------------------------------------
(* OS_DoIo.                                                                *)

LEMMA OnceDelivered ==
  ASSUME NEW x \in Ops, NEW pend \in Seq(Ops), NEW std \in Seq(Ops), NEW port \in Seq(Completion),
         NEW read, NEW gone, NEW out, Once(x, pend, std, port, read, NoOp, gone, out), port # <<>>
  PROVE  Once(x, pend, std, Tail(port), read, Head(port).op, gone, out)
  <1> DEFINE d == IF x = Head(port).op THEN 1 ELSE 0
  <1>1. Count(Tail(port), Of(x)) = Count(port, Of(x)) - d
    <2>1. Head(port) \in Completion
      OBVIOUS
    <2>2. Head(port) \in Of(x) <=> x = Head(port).op
      BY <2>1 DEF Of
    <2> QED BY <2>2, CountTail
  <1>2. Bit(Head(port).op = x) = d /\ Bit(NoOp = x) = 0
    BY Constants DEF Bit
  <1>3. PICK p \in Nat, s \in Nat, q \in Nat, r \in Nat, g \in Nat, y \in Nat :
           /\ p = Count(pend, {x}) /\ s = Count(std, {x}) /\ q = Count(port, Of(x))
           /\ r = Bit(read = x) /\ g = Bit(x \in gone) /\ y = Bit(x \in out)
    <2>1. Count(pend, {x}) \in Nat /\ Count(std, {x}) \in Nat /\ Count(port, Of(x)) \in Nat
      BY CountType
    <2> QED BY <2>1 DEF Bit
  <1>4. d \in Nat /\ p + s + q + r + 0 + g = y
    BY <1>2, <1>3 DEF Once
  <1> HIDE DEF d
  <1>5. p + s + (q - d) + r + d + g = y
    BY <1>4
  <1> QED BY <1>1, <1>2, <1>3, <1>5 DEF Once

LEMMA OnceFreed ==
  ASSUME NEW x \in Ops, NEW pend \in Seq(Ops), NEW std \in Seq(Ops), NEW port \in Seq(Completion),
         NEW read, NEW cur \in Ops, NEW gone, NEW out, cur \in out,
         Once(x, pend, std, port, read, cur, gone, out)
  PROVE  Once(x, pend, std, port, read, NoOp, gone, out \ {cur})
  <1> DEFINE d == IF x = cur THEN 1 ELSE 0
  <1>1. /\ Bit(cur = x) = d /\ Bit(NoOp = x) = 0
        /\ Bit(x \in out \ {cur}) = Bit(x \in out) - d
    BY Constants DEF Bit
  <1>2. PICK p \in Nat, s \in Nat, q \in Nat, r \in Nat, g \in Nat, y \in Nat :
           /\ p = Count(pend, {x}) /\ s = Count(std, {x}) /\ q = Count(port, Of(x))
           /\ r = Bit(read = x) /\ g = Bit(x \in gone) /\ y = Bit(x \in out)
    <2>1. Count(pend, {x}) \in Nat /\ Count(std, {x}) \in Nat /\ Count(port, Of(x)) \in Nat
      BY CountType
    <2> QED BY <2>1 DEF Bit
  <1>3. d \in Nat /\ p + s + q + r + d + g = y
    BY <1>1, <1>2 DEF Once
  <1> HIDE DEF d
  <1>4. p + s + q + r + 0 + g = y - d
    BY <1>3
  <1> QED BY <1>1, <1>2, <1>4 DEF Once

LEMMA DequeueStep ==
  ASSUME OpsIInv, Dequeue
  PROVE  OpsIInv'
  <1>1. /\ Domains /\ AsyncTypeOK /\ Handled /\ Thread /\ Queued /\ EachOnce /\ InOrder /\ Instances
        /\ hIoCompPort \in Seq(Completion) /\ received \in [Sources -> Seq(Nat)]
        /\ taken \in [Sources -> 0 .. MaxSent]
    BY DEF OpsIInv, Domains, AsyncTypeOK
  <1>2. PICK x \in Completion : x = Head(hIoCompPort) /\ x = hIoCompPort[1] /\ 1 \in DOMAIN hIoCompPort
    BY <1>1 DEF Dequeue
  <1>3. /\ current = NoOp /\ hIoCompPort # <<>> /\ hIoCompPort' = Tail(hIoCompPort) /\ Deliver(x)
        /\ UNCHANGED <<input, fdTable, link, shut, sent, taken, op, pending, hStdinCompPort, stdinThread,
                       reading, abandoned>>
    BY <1>2 DEF Dequeue, streams, thread
  <1>4. x.op \in outstanding /\ x.op \in Ops /\ x.bytes \in Nat /\ op[x.op] \in Operation
    <2>1. x.op \in outstanding
      BY <1>2, InPlace
    <2> QED BY <1>1, <2>1 DEF Domains, Completion
  <1> DEFINE src == op[x.op].source
             carries == op[x.op].direction = "read" /\ x.bytes > 0
  <1>5. /\ current' = x.op /\ UNCHANGED outstanding /\ src \in Sources
        /\ received' = IF carries THEN [received EXCEPT ![src] = Append(@, x.bytes)] ELSE received
    <2>1. op[x.op].fd \in Fds /\ src \in Sources
      BY <1>4 DEF Operation
    <2>2. op[x.op].instance = 0 /\ fdTable[op[x.op].fd].instance = 0
      BY <1>1, <1>4, <2>1 DEF Instances, Handled
    <2> QED BY <1>3, <2>1, <2>2 DEF Deliver
  <1>6. /\ received' \in [Sources -> Seq(Nat)]
        /\ \A s \in Sources : IF carries /\ s = src THEN received'[s] = Append(received[s], x.bytes)
                              ELSE received'[s] = received[s]
    <2>1. received[src] \in Seq(Nat) /\ Append(received[src], x.bytes) \in Seq(Nat)
      BY <1>1, <1>4, <1>5
    <2> HIDE DEF src
    <2> QED BY <1>1, <1>5, <2>1
  <1> DEFINE rest(s) == {i \in 1 .. Len(hIoCompPort) - 1 : i + 1 \in DataAt(s)}
  <1>7. ASSUME NEW s \in Sources
        PROVE  DataAt(s)' = rest(s) /\ (1 \in DataAt(s) <=> carries /\ s = src)
    <2>1. /\ DOMAIN hIoCompPort = 1 .. Len(hIoCompPort) /\ Len(hIoCompPort) \in Nat
          /\ DOMAIN Tail(hIoCompPort) = 1 .. Len(hIoCompPort) - 1
          /\ \A i \in 1 .. Len(hIoCompPort) - 1 : Tail(hIoCompPort)[i] = hIoCompPort[i + 1]
      BY <1>1, <1>3
    <2>2. \A i \in 1 .. Len(hIoCompPort) - 1 : i + 1 \in DOMAIN hIoCompPort
      BY <2>1
    <2>3. /\ DOMAIN hIoCompPort' = 1 .. Len(hIoCompPort) - 1
          /\ \A i \in 1 .. Len(hIoCompPort) - 1 : hIoCompPort'[i] = hIoCompPort[i + 1]
      BY <1>3, <2>1
    <2>4. DataAt(s)' = rest(s)
      BY <1>3, <2>2, <2>3 DEF DataAt
    <2>5. 1 \in DataAt(s) <=> carries /\ s = src
      BY <1>2 DEF DataAt
    <2> QED BY <2>4, <2>5
  <1>8. ASSUME NEW s \in Sources
        PROVE  /\ Len(received'[s]) <= taken[s]
               /\ InStep(hIoCompPort', DataAt(s)', Len(received'[s]), taken[s])
               /\ received'[s] = [i \in 1 .. Len(received'[s]) |-> i]
    <2>1. /\ DataAt(s) \in SUBSET DOMAIN hIoCompPort /\ Len(received[s]) \in Nat /\ taken[s] \in Nat
          /\ received[s] \in Seq(Nat)
      <3>1. DataAt(s) \in SUBSET DOMAIN hIoCompPort
        BY DEF DataAt
      <3>2. received[s] \in Seq(Nat) /\ taken[s] \in Nat
        BY <1>1, Constants
      <3> QED BY <3>1, <3>2
    <2>2. Len(received[s]) <= taken[s] /\ InStep(hIoCompPort, DataAt(s), Len(received[s]), taken[s])
      BY <1>1 DEF Queued
    <2>3. /\ 1 \notin DataAt(s) => InStep(hIoCompPort', rest(s), Len(received[s]), taken[s])
          /\ 1 \in DataAt(s) => /\ x.bytes = Len(received[s]) + 1 /\ Len(received[s]) + 1 <= taken[s]
                                /\ InStep(hIoCompPort', rest(s), Len(received[s]) + 1, taken[s])
      BY <1>1, <1>2, <1>3, <2>1, <2>2, InStepTail
    <2>4. received[s] = [i \in 1 .. Len(received[s]) |-> i]
      BY <1>1 DEF InOrder
    <2> HIDE DEF rest, src, carries
    <2>5. CASE 1 \notin DataAt(s)
      <3>1. received'[s] = received[s]
        BY <1>6, <1>7, <2>5
      <3> QED BY <1>7, <2>2, <2>3, <2>4, <2>5, <3>1
    <2>6. CASE 1 \in DataAt(s)
      <3>1. received'[s] = Append(received[s], Len(received[s]) + 1)
        BY <1>6, <1>7, <2>3, <2>6
      <3>2. Len(received'[s]) = Len(received[s]) + 1
        BY <2>1, <3>1
      <3>3. received'[s] = [i \in 1 .. Len(received'[s]) |-> i]
        <4>1. received'[s] \in Seq(Nat) /\ received'[s] = [i \in 1 .. Len(received'[s]) |-> received'[s][i]]
          BY <2>1, <3>1
        <4>2. ASSUME NEW i \in 1 .. Len(received'[s]) PROVE received'[s][i] = i
          <5>1. CASE i = Len(received[s]) + 1
            BY <2>1, <3>1, <5>1
          <5>2. CASE i # Len(received[s]) + 1
            <6>1. i \in 1 .. Len(received[s])
              BY <2>1, <3>2, <5>2
            <6>2. received'[s][i] = received[s][i]
              BY <2>1, <3>1, <6>1
            <6>3. received[s][i] = i
              BY <2>4, <6>1
            <6> QED BY <6>2, <6>3
          <5> QED BY <5>1, <5>2
        <4> QED BY <4>1, <4>2
      <3> QED BY <1>7, <2>3, <2>6, <3>2, <3>3
    <2> QED BY <2>5, <2>6
  <1>9. Queued'
    BY <1>1, <1>3, <1>8 DEF Queued, InStep
  <1>10. Domains'
    <2>1. hIoCompPort' \in Seq(Completion)
      BY <1>1, <1>3
    <2> QED BY <1>1, <1>3, <1>5, <1>6, <2>1 DEF Domains
  <1>11. AsyncTypeOK'
    BY <1>1, <1>3, <1>4, <1>5 DEF AsyncTypeOK
  <1>12. EachOnce'
    <2>1. ASSUME NEW y \in Ops
          PROVE  Once(y, pending', hStdinCompPort', hIoCompPort', reading', current', abandoned', outstanding')
      <3>1. Once(y, pending, hStdinCompPort, hIoCompPort, reading, NoOp, abandoned, outstanding)
        BY <1>1, <1>3, OnceNow
      <3>2. Once(y, pending, hStdinCompPort, Tail(hIoCompPort), reading, Head(hIoCompPort).op, abandoned, outstanding)
        BY <1>1, <1>3, <3>1, OnceDelivered DEF Domains
      <3> QED BY <1>2, <1>3, <1>5, <3>2
    <2> QED BY <1>10, <2>1, OnceNext
  <1>13. Handled' /\ Instances'
    BY <1>1, <1>3, <1>5 DEF Handled, Instances
  <1>14. Thread'
    BY <1>1, <1>3 DEF Thread, Reads
  <1> QED BY <1>8, <1>9, <1>10, <1>11, <1>12, <1>13, <1>14, WrappedNext

LEMMA CallbackReturnsStep ==
  ASSUME OpsIInv, CallbackReturns
  PROVE  OpsIInv'
  <1>1. /\ Domains /\ AsyncTypeOK /\ Handled /\ Thread /\ Queued /\ EachOnce /\ InOrder /\ Instances
        /\ op \in [Ops -> Operation \cup {NoOp}]
    BY DEF OpsIInv, Domains
  <1>2. /\ current # NoOp /\ outstanding' = outstanding \ {current} /\ op' = [op EXCEPT ![current] = NoOp]
        /\ current' = NoOp
        /\ UNCHANGED <<input, fdTable, link, shut, sent, taken, received, pending, hIoCompPort,
                       hStdinCompPort, stdinThread, reading, abandoned>>
    BY DEF CallbackReturns, streams, thread
  <1>3. current \in Ops /\ current \in outstanding
    BY <1>1, <1>2, InPlace DEF AsyncTypeOK
  <1>4. op' \in [Ops -> Operation \cup {NoOp}] /\ \A o \in outstanding \ {current} : op'[o] = op[o]
    BY <1>1, <1>2, <1>3 DEF AsyncTypeOK
  <1>5. Domains'
    BY <1>1, <1>2, <1>4 DEF Domains
  <1>6. AsyncTypeOK'
    BY <1>1, <1>2 DEF AsyncTypeOK
  <1>7. EachOnce'
    <2>1. ASSUME NEW y \in Ops
          PROVE  Once(y, pending', hStdinCompPort', hIoCompPort', reading', current', abandoned', outstanding')
      <3>1. Once(y, pending, hStdinCompPort, hIoCompPort, reading, current, abandoned, outstanding)
        BY <1>1, OnceNow
      <3>2. Once(y, pending, hStdinCompPort, hIoCompPort, reading, NoOp, abandoned, outstanding \ {current})
        BY <1>1, <1>3, <3>1, OnceFreed DEF Domains
      <3> QED BY <1>2, <3>2
    <2> QED BY <1>5, <2>1, OnceNext
  <1>8. Handled' /\ Instances'
    BY <1>1, <1>2, <1>4 DEF Handled, Instances
  <1>9. Thread'
    BY <1>2, <1>4, ThreadKept
  <1>10. Queued'
    <2>1. \A s \in Sources : DataAt(s)' = DataAt(s)
      BY <1>2, <1>4, DataKept
    <2> QED BY <1>1, <1>2, <2>1 DEF Queued, InStep
  <1>11. \A s \in Sources : received'[s] = [i \in 1 .. Len(received'[s]) |-> i]
    BY <1>1, <1>2 DEF InOrder
  <1> QED BY <1>5, <1>6, <1>7, <1>8, <1>9, <1>10, <1>11, WrappedNext
------------------------------------------------------------------------------
(* The theorems.                                                           *)

LEMMA OpsInit == AsyncInit => OpsIInv
  <1> SUFFICES ASSUME AsyncInit PROVE OpsIInv
    OBVIOUS
  <1>1. /\ shut = {} /\ sent = [s \in Sources |-> 0] /\ taken = [s \in Sources |-> 0]
        /\ received = [s \in Sources |-> <<>>] /\ op = [o \in Ops |-> NoOp]
        /\ outstanding = {} /\ pending = <<>> /\ hIoCompPort = <<>> /\ hStdinCompPort = <<>>
        /\ stdinThread \in {"absent", "waits"} /\ reading = NoOp /\ abandoned = {} /\ current = NoOp
    BY DEF AsyncInit
  <1>2. input \in {"none", "file", "pipe"} /\ link \in [Sources -> {"new", "unconnected", "open", "gone", "closed"}]
    <2>1. PICK setting \in Settings :
             /\ input = setting[1]
             /\ link = [s \in Sources |-> IF s = STDIN_FILENO THEN IF input = "none" THEN "closed" ELSE "open"
                                          ELSE IF s \in setting[2] THEN "new" ELSE "closed"]
      BY DEF AsyncInit
    <2>2. input \in {"none", "file", "pipe"}
      BY <2>1, OpsAssumption
    <2>3. link \in [Sources -> {"new", "unconnected", "open", "gone", "closed"}]
      BY <2>1
    <2> QED BY <2>2, <2>3
  <1>3. /\ fdTable \in Table
        /\ \A fd \in Fds : fdTable[fd].type \in {"unused", "pipe_sync"} /\ fdTable[fd].instance = 0
    <2>1. EmptyTable \in Table /\ \A fd \in Fds : EmptyTable[fd] = [type |-> "unused", fid |-> 0, instance |-> 0]
      BY DEF EmptyTable, Table, Types
    <2>2. CASE input = "none"
      <3>1. fdTable = EmptyTable
        BY <2>2 DEF AsyncInit
      <3> QED BY <2>1, <3>1
    <2>3. CASE input # "none"
      <3>1. /\ fdTable = [fd \in Fds |-> fdTable[fd]]
            /\ \A fd \in Fds : fdTable[fd] \in {[type |-> "pipe_sync", fid |-> 0, instance |-> 0],
                                                [type |-> "unused", fid |-> 0, instance |-> 0]}
        BY <2>1, <2>3 DEF AsyncInit
      <3>2. /\ [type |-> "pipe_sync", fid |-> 0, instance |-> 0] \in [type : Types, fid : Nat, instance : Nat]
            /\ [type |-> "unused", fid |-> 0, instance |-> 0] \in [type : Types, fid : Nat, instance : Nat]
        BY DEF Types
      <3>3. fdTable \in Table
        BY <3>1, <3>2 DEF Table
      <3> QED BY <3>1, <3>3
    <2> QED BY <2>2, <2>3
  <1>4. Domains
    BY <1>1 DEF Domains
  <1>5. AsyncTypeOK
    <2>1. sent \in [Sources -> 0 .. MaxSent] /\ taken \in [Sources -> 0 .. MaxSent]
      BY <1>1, Constants
    <2> QED BY <1>1, <1>2, <1>3, <2>1 DEF AsyncTypeOK, Table
  <1>6. EachOnce
    <2> SUFFICES ASSUME NEW o \in Ops
                 PROVE  Placed(o, pending, hStdinCompPort, hIoCompPort, reading, current, abandoned, outstanding)
      BY DEF EachOnce, Placed
    <2>1. /\ pending \in Seq(Ops) /\ hStdinCompPort \in Seq(Ops) /\ hIoCompPort \in Seq(Completion)
      BY <1>4 DEF Domains
    <2>2. Count(pending, {o}) = 0 /\ Count(hStdinCompPort, {o}) = 0 /\ Count(hIoCompPort, Of(o)) = 0
      <3>1. DOMAIN pending = {} /\ DOMAIN hStdinCompPort = {} /\ DOMAIN hIoCompPort = {}
        BY <1>1
      <3> QED BY <2>1, <3>1, CountType
    <2>3. Bit(reading = o) = 0 /\ Bit(current = o) = 0 /\ Bit(o \in abandoned) = 0 /\ Bit(o \in outstanding) = 0
      BY <1>1, Constants DEF Bit
    <2>4. Once(o, pending, hStdinCompPort, hIoCompPort, reading, current, abandoned, outstanding)
      BY <2>2, <2>3 DEF Once
    <2> QED BY <2>1, <2>4, OnceIs
  <1>7. Handled /\ Instances /\ Thread
    BY <1>1, <1>3 DEF Handled, Instances, Thread
  <1>8. Queued /\ \A s \in Sources : received[s] = [i \in 1 .. Len(received[s]) |-> i]
    <2> SUFFICES ASSUME NEW s \in Sources
                 PROVE  /\ taken[s] <= sent[s] /\ Len(received[s]) <= taken[s]
                        /\ InStep(hIoCompPort, DataAt(s), Len(received[s]), taken[s])
                        /\ received[s] = [i \in 1 .. Len(received[s]) |-> i]
      BY DEF Queued
    <2>1. taken[s] = 0 /\ sent[s] = 0 /\ received[s] = <<>> /\ Len(received[s]) = 0 /\ DataAt(s) = {}
      BY <1>1 DEF DataAt
    <2>2. InStep(hIoCompPort, DataAt(s), Len(received[s]), taken[s])
      BY <2>1 DEF InStep
    <2>3. received[s] = [i \in 1 .. Len(received[s]) |-> i]
      BY <2>1
    <2> QED BY <2>1, <2>2, <2>3
  <1> QED BY <1>4, <1>5, <1>6, <1>7, <1>8, Wrapped

LEMMA OpsNext == OpsIInv /\ [AsyncNext]_asyncVars => OpsIInv'
  <1> SUFFICES ASSUME OpsIInv, [AsyncNext]_asyncVars PROVE OpsIInv'
    OBVIOUS
  <1>1. CASE Environment
    BY <1>1, EnvironmentStep
  <1>2. CASE Dequeue
    BY <1>2, DequeueStep
  <1>3. CASE CallbackReturns
    BY <1>3, CallbackReturnsStep
  <1>4. CASE StdinTake
    BY <1>4, StdinTakeStep
  <1>5. CASE StdinRead
    BY <1>5, StdinReadStep
  <1>6. ASSUME NEW o \in Ops, Complete(o) PROVE OpsIInv'
    BY <1>6, CompleteStep
  <1>7. ASSUME NEW o \in Ops, AsyncReadStdin(o) PROVE OpsIInv'
    BY <1>7, AsyncReadStdinStep
  <1>8. ASSUME NEW o \in Ops, NEW fd \in Fds, NEW d \in {"read", "write"}, Async(o, fd, d) PROVE OpsIInv'
    BY <1>8, AsyncStep
  <1> QED BY <1>1, <1>2, <1>3, <1>4, <1>5, <1>6, <1>7, <1>8 DEF AsyncNext, Environment

LEMMA OpsInvariant == AsyncSpec => []OpsIInv
  BY OpsInit, OpsNext, PTL DEF AsyncSpec

(* An operation that is allocated is with Windows, with StdinThread, in    *)
(* the completion port or being called back for, in one of them only, and  *)
(* one that is freed is in none: whoever posts its completion, and         *)
(* whatever becomes of its descriptor.                                     *)
THEOREM OpsCorrect == AsyncSpec => []OpsInv
  <1>1. OpsIInv => OpsInv
    BY DEF OpsIInv, OpsInv
  <1> QED BY <1>1, OpsInvariant, PTL

(* What callbacks are given of a source is what was sent, in order and     *)
(* without a gap, for any number of operations and descriptors.            *)
THEOREM OrderCorrect == AsyncSpec => []InOrder
  <1>1. OpsIInv => InOrder
    BY DEF OpsIInv
  <1> QED BY <1>1, OpsInvariant, PTL
==============================================================================
