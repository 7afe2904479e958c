---------------------------- MODULE OsUnixProofs ----------------------------
(***************************************************************************)
(* Proofs about libfcgi/os_unix.c.  About OsAccept, for any processes,     *)
(* connections and signals, with and without the lock and on either kind   *)
(* of socket; about OsAsyncIo, for any number of descriptors, any size of  *)
(* the table to begin with and wherever the application closes             *)
(* descriptors.                                                            *)
(***************************************************************************)
EXTENDS OsAccept, OsAsyncIo, FiniteSetTheorems, WellFoundedInduction, TLAPS

-----------------------------------------------------------------------------
(* OS_Accept.                                                              *)

\* A process has no descriptor open but the one it is looking at, and which
\* ones it may look at.  On an "inet" socket a descriptor that has been closed
\* is one of a refused address, and will be refused again.
Holds(p) ==
    /\ pc[p] \in {"app", "lock", "check", "accept", "exit"} => open[p] = {}
    /\ open[p] \subseteq {socket[p]}
    /\ pc[p] \in {"examine", "release", "keeper", "serve"} => socket[p] # None
    /\ family = "inet" =>
          /\ pc[p] \in {"lock", "check", "accept", "examine"} /\ socket[p] # None =>
                socket[p] \in open[p] \cup refused
          /\ pc[p] \in {"release", "serve"} => socket[p] \in open[p] \ refused
          /\ pc[p] # "keeper"
    /\ family = "unix" /\ pc[p] = "serve" => socket[p] \in open[p] \cap readable

\* The connections that are taken are those some process has open, and one
\* process only.
Taken ==
    /\ \A c \in Conns : state[c] \in {"taken", "served"} <=> \E p \in Procs : c \in open[p]
    /\ \A p, q \in Procs : p # q => open[p] \cap open[q] = {}

\* What LockInv and DescriptorInv need to be inductive.
AcceptIInv == TypeOK /\ LockInv /\ Taken /\ \A p \in Procs : Holds(p)
-----------------------------------------------------------------------------
LEMMA Implies == AcceptIInv => LockInv /\ DescriptorInv
  <1> SUFFICES ASSUME AcceptIInv PROVE NoneForgotten /\ ReturnsValid
    BY DEF AcceptIInv, DescriptorInv
  <1>1. family \in {"inet", "unix"}
    BY SettingAssumption DEF AcceptIInv, TypeOK
  <1>2. NoneForgotten
    BY DEF AcceptIInv, NoneForgotten, Taken, Holds
  <1>3. ReturnsValid
    BY <1>1 DEF AcceptIInv, ReturnsValid, Taken, Holds
  <1> QED BY <1>2, <1>3

LEMMA AcceptInit == Init => AcceptIInv
  <1> SUFFICES ASSUME Init PROVE AcceptIInv
    OBVIOUS
  <1>1. TypeOK
    BY SettingAssumption DEF Init, TypeOK
  <1>2. LockInv /\ Taken /\ \A p \in Procs : Holds(p)
    BY SettingAssumption DEF Init, LockInv, OneAccepts, LockIsReleased, Accepting, Taken, Holds
  <1> QED BY <1>1, <1>2 DEF AcceptIInv
-----------------------------------------------------------------------------
(* The lock.  A step of p either leaves the lock and whether p is at accept *)
(* alone, or takes the free lock on the way in, or leaves with Return or    *)
(* ReleaseLock.                                                             *)

LEMMA LockKept ==
  ASSUME AcceptIInv, NEW p \in Procs, NEW l, pc' = [pc EXCEPT ![p] = l],
         UNCHANGED <<useLocking, lock>>,
         pc[p] \in {"check", "accept", "examine", "release"}
            <=> l \in {"check", "accept", "examine", "release"}
  PROVE  LockInv'
  BY DEF AcceptIInv, TypeOK, Goto, LockInv, OneAccepts, LockIsReleased, Accepting

LEMMA LockTaken ==
  ASSUME AcceptIInv, NEW p \in Procs, AcquireLock(p)
  PROVE  LockInv'
  <1>1. CASE useLocking
    BY <1>1, SettingAssumption
       DEF AcceptIInv, TypeOK, AcquireLock, Goto, LockInv, OneAccepts, LockIsReleased, Accepting, setting
  <1>2. CASE ~useLocking
    BY <1>2, SettingAssumption
       DEF AcceptIInv, TypeOK, AcquireLock, Goto, LockInv, OneAccepts, LockIsReleased, Accepting, setting
  <1> QED BY <1>1, <1>2

LEMMA LockLeft ==
  ASSUME AcceptIInv, NEW p \in Procs, NEW l, pc' = [pc EXCEPT ![p] = l],
         UNCHANGED useLocking,
         lock' = IF lock = p THEN None ELSE lock,
         l \notin {"check", "accept", "examine", "release"}
  PROVE  LockInv'
  BY SettingAssumption DEF AcceptIInv, TypeOK, Goto, LockInv, OneAccepts, LockIsReleased, Accepting
-----------------------------------------------------------------------------
(* The steps.                                                               *)

LEMMA WebServerStep ==
  ASSUME AcceptIInv, NEW c \in Conns, Connect(c) \/ SendRequest(c)
  PROVE  AcceptIInv'
  <1>1. TypeOK'
    BY SettingAssumption DEF AcceptIInv, TypeOK, Connect, SendRequest, setting, process
  <1>2. LockInv'
    BY DEF AcceptIInv, Connect, SendRequest, LockInv, OneAccepts, LockIsReleased, Accepting, setting, process
  <1>3. Taken'
    BY SettingAssumption DEF AcceptIInv, TypeOK, Taken, Holds, Connect, SendRequest, setting, process
  <1>4. \A q \in Procs : Holds(q)'
    BY SettingAssumption DEF AcceptIInv, TypeOK, Taken, Holds, Connect, SendRequest, setting, process
  <1> QED BY <1>1, <1>2, <1>3, <1>4 DEF AcceptIInv

LEMMA CallStep ==
  ASSUME AcceptIInv, NEW p \in Procs, Call(p)
  PROVE  AcceptIInv'
  <1>1. TypeOK'
    BY SettingAssumption DEF AcceptIInv, TypeOK, Call, Goto, setting
  <1>2. LockInv'
    BY LockKept DEF Call, setting, Goto
  <1>3. Taken'
    BY SettingAssumption DEF AcceptIInv, TypeOK, Taken, Holds, Call, Goto, setting
  <1>4. \A q \in Procs : Holds(q)'
    BY SettingAssumption DEF AcceptIInv, TypeOK, Taken, Holds, Call, Goto, setting
  <1> QED BY <1>1, <1>2, <1>3, <1>4 DEF AcceptIInv

LEMMA AcquireLockStep ==
  ASSUME AcceptIInv, NEW p \in Procs, AcquireLock(p)
  PROVE  AcceptIInv'
  <1>1. TypeOK'
    BY SettingAssumption DEF AcceptIInv, TypeOK, AcquireLock, Goto, setting
  <1>2. LockInv'
    BY LockTaken
  <1>3. Taken'
    BY SettingAssumption DEF AcceptIInv, TypeOK, Taken, Holds, AcquireLock, Goto, setting
  <1>4. \A q \in Procs : Holds(q)'
    BY SettingAssumption DEF AcceptIInv, TypeOK, Taken, Holds, AcquireLock, Goto, setting
  <1> QED BY <1>1, <1>2, <1>3, <1>4 DEF AcceptIInv

LEMMA CheckStep ==
  ASSUME AcceptIInv, NEW p \in Procs, Check(p)
  PROVE  AcceptIInv'
  <1>1. TypeOK'
    BY SettingAssumption DEF AcceptIInv, TypeOK, Check, Return, Goto, setting
  <1>2. LockInv'
    BY LockKept, LockLeft DEF Check, Return, setting, Goto
  <1>3. Taken'
    BY SettingAssumption DEF AcceptIInv, TypeOK, Taken, Holds, Check, Return, Goto, setting
  <1>4. \A q \in Procs : Holds(q)'
    BY SettingAssumption DEF AcceptIInv, TypeOK, Taken, Holds, Check, Return, Goto, setting
  <1> QED BY <1>1, <1>2, <1>3, <1>4 DEF AcceptIInv

LEMMA AcceptStep ==
  ASSUME AcceptIInv, NEW p \in Procs, Accept(p)
  PROVE  AcceptIInv'
  <1>1. TypeOK'
    BY SettingAssumption DEF AcceptIInv, TypeOK, Accept, Goto, setting
  <1>2. LockInv'
    BY LockKept DEF Accept, setting, Goto
  <1>3. Taken'
    BY SettingAssumption DEF AcceptIInv, TypeOK, Taken, Holds, Accept, Goto, setting
  <1>4. \A q \in Procs : Holds(q)'
    BY SettingAssumption DEF AcceptIInv, TypeOK, Taken, Holds, Accept, Goto, setting
  <1> QED BY <1>1, <1>2, <1>3, <1>4 DEF AcceptIInv

LEMMA AcceptAbortedStep ==
  ASSUME AcceptIInv, NEW p \in Procs, AcceptAborted(p)
  PROVE  AcceptIInv'
  <1>1. TypeOK'
    BY SettingAssumption DEF AcceptIInv, TypeOK, AcceptAborted, Return, Goto, setting
  <1>2. LockInv'
    BY LockKept, LockLeft DEF AcceptAborted, Return, setting, Goto
  <1>3. Taken'
    BY SettingAssumption DEF AcceptIInv, TypeOK, Taken, Holds, AcceptAborted, Return, Goto, setting
  <1>4. \A q \in Procs : Holds(q)'
    BY SettingAssumption DEF AcceptIInv, TypeOK, Taken, Holds, AcceptAborted, Return, Goto, setting
  <1> QED BY <1>1, <1>2, <1>3, <1>4 DEF AcceptIInv

LEMMA AcceptFatalStep ==
  ASSUME AcceptIInv, NEW p \in Procs, AcceptFatal(p)
  PROVE  AcceptIInv'
  <1>1. TypeOK'
    BY SettingAssumption DEF AcceptIInv, TypeOK, AcceptFatal, Return, Goto, setting
  <1>2. LockInv'
    BY LockLeft DEF AcceptFatal, Return, setting, Goto
  <1>3. Taken'
    BY SettingAssumption DEF AcceptIInv, TypeOK, Taken, Holds, AcceptFatal, Return, Goto, setting
  <1>4. \A q \in Procs : Holds(q)'
    BY SettingAssumption DEF AcceptIInv, TypeOK, Taken, Holds, AcceptFatal, Return, Goto, setting
  <1> QED BY <1>1, <1>2, <1>3, <1>4 DEF AcceptIInv

LEMMA ExamineStep ==
  ASSUME AcceptIInv, NEW p \in Procs, Examine(p)
  PROVE  AcceptIInv'
  <1>1. TypeOK'
    BY SettingAssumption DEF AcceptIInv, TypeOK, Examine, Close, Goto, setting
  <1>2. LockInv'
    BY LockKept DEF Examine, setting, Goto
  <1>3. Taken'
    BY SettingAssumption DEF AcceptIInv, TypeOK, Taken, Holds, Examine, Close, Goto, setting
  <1>4. \A q \in Procs : Holds(q)'
    BY SettingAssumption DEF AcceptIInv, TypeOK, Taken, Holds, Examine, Close, Goto, setting
  <1> QED BY <1>1, <1>2, <1>3, <1>4 DEF AcceptIInv

LEMMA ReleaseLockStep ==
  ASSUME AcceptIInv, NEW p \in Procs, ReleaseLock(p)
  PROVE  AcceptIInv'
  <1>1. TypeOK'
    BY SettingAssumption DEF AcceptIInv, TypeOK, ReleaseLock, Serve, Goto, setting
  <1>2. LockInv'
    BY LockLeft DEF ReleaseLock, Serve, setting, Goto
  <1>3. Taken'
    BY SettingAssumption DEF AcceptIInv, TypeOK, Taken, Holds, ReleaseLock, Serve, Goto, setting
  <1>4. \A q \in Procs : Holds(q)'
    BY SettingAssumption DEF AcceptIInv, TypeOK, Taken, Holds, ReleaseLock, Serve, Goto, setting
  <1> QED BY <1>1, <1>2, <1>3, <1>4 DEF AcceptIInv

LEMMA KeeperStep ==
  ASSUME AcceptIInv, NEW p \in Procs, Keeper(p)
  PROVE  AcceptIInv'
  <1>1. TypeOK'
    BY SettingAssumption DEF AcceptIInv, TypeOK, Keeper, Serve, Close, Goto, setting
  <1>2. LockInv'
    BY LockKept DEF Keeper, Serve, setting, Goto
  <1>3. Taken'
    BY SettingAssumption DEF AcceptIInv, TypeOK, Taken, Holds, Keeper, Serve, Close, Goto, setting
  <1>4. \A q \in Procs : Holds(q)'
    BY SettingAssumption DEF AcceptIInv, TypeOK, Taken, Holds, Keeper, Serve, Close, Goto, setting
  <1> QED BY <1>1, <1>2, <1>3, <1>4 DEF AcceptIInv

LEMMA FinishStep ==
  ASSUME AcceptIInv, NEW p \in Procs, Finish(p)
  PROVE  AcceptIInv'
  <1>1. TypeOK'
    BY SettingAssumption DEF AcceptIInv, TypeOK, Finish, Close, Goto, setting
  <1>2. LockInv'
    BY LockKept DEF Finish, setting, Goto
  <1>3. Taken'
    BY SettingAssumption DEF AcceptIInv, TypeOK, Taken, Holds, Finish, Close, Goto, setting
  <1>4. \A q \in Procs : Holds(q)'
    BY SettingAssumption DEF AcceptIInv, TypeOK, Taken, Holds, Finish, Close, Goto, setting
  <1> QED BY <1>1, <1>2, <1>3, <1>4 DEF AcceptIInv

LEMMA CrashStep ==
  ASSUME AcceptIInv, NEW p \in Procs, Crash(p)
  PROVE  AcceptIInv'
  <1>1. TypeOK'
    BY SettingAssumption DEF AcceptIInv, TypeOK, Crash, Return, Goto, setting
  <1>2. LockInv'
    BY LockLeft DEF Crash, Return, setting, Goto
  <1>3. Taken'
    BY SettingAssumption DEF AcceptIInv, TypeOK, Taken, Holds, Crash, Return, Goto, setting
  <1>4. \A q \in Procs : Holds(q)'
    BY SettingAssumption DEF AcceptIInv, TypeOK, Taken, Holds, Crash, Return, Goto, setting
  <1> QED BY <1>1, <1>2, <1>3, <1>4 DEF AcceptIInv

LEMMA SignalStep ==
  ASSUME AcceptIInv, NEW p \in Procs, NEW usr1 \in BOOLEAN, Signal(p, usr1)
  PROVE  AcceptIInv'
  <1>1. TypeOK'
    BY SettingAssumption DEF AcceptIInv, TypeOK, Signal, Return, Goto, setting
  <1>2. LockInv'
    <2>1. CASE UNCHANGED <<pc, socket, lock>>
      BY <2>1 DEF Signal, setting, AcceptIInv, LockInv, OneAccepts, LockIsReleased, Accepting
    <2>2. CASE pc[p] = "accept" /\ Goto(p, "check") /\ UNCHANGED lock
      BY <2>2, LockKept DEF Signal, setting, Goto
    <2>3. CASE Return(p)
      BY <2>3, LockLeft DEF Signal, Return, setting, Goto
    <2> QED BY <2>1, <2>2, <2>3 DEF Signal
  <1>3. Taken'
    BY SettingAssumption DEF AcceptIInv, TypeOK, Taken, Holds, Signal, Return, Goto, setting
  <1>4. \A q \in Procs : Holds(q)'
    BY SettingAssumption DEF AcceptIInv, TypeOK, Taken, Holds, Signal, Return, Goto, setting
  <1> QED BY <1>1, <1>2, <1>3, <1>4 DEF AcceptIInv
LEMMA AcceptNext == AcceptIInv /\ [Next]_vars => AcceptIInv'
  <1> SUFFICES ASSUME AcceptIInv, [Next]_vars PROVE AcceptIInv'
    OBVIOUS
  <1>1. ASSUME NEW c \in Conns, Connect(c) \/ SendRequest(c) PROVE AcceptIInv'
    BY <1>1, WebServerStep
  <1>2. ASSUME NEW p \in Procs, Process(p) PROVE AcceptIInv'
    BY <1>2, CallStep, AcquireLockStep, CheckStep, AcceptStep, ExamineStep, ReleaseLockStep,
       KeeperStep, FinishStep DEF Process
  <1>3. ASSUME NEW p \in Procs, AcceptAborted(p) \/ AcceptFatal(p) \/ Crash(p) PROVE AcceptIInv'
    BY <1>3, AcceptAbortedStep, AcceptFatalStep, CrashStep
  <1>4. ASSUME NEW p \in Procs, NEW usr1 \in BOOLEAN, Signal(p, usr1) PROVE AcceptIInv'
    BY <1>4, SignalStep
  <1>5. CASE UNCHANGED vars
    BY <1>5 DEF vars, setting, AcceptIInv, TypeOK, LockInv, OneAccepts, LockIsReleased, Accepting,
       Taken, Holds
  <1> QED BY <1>1, <1>2, <1>3, <1>4, <1>5 DEF Next

(* With the lock one process is between AcquireLock and ReleaseLock at a    *)
(* time, and the lock is never held by a process that has left that part,   *)
(* by returning, by a signal or by dying.  (OS_Accept.)                     *)
THEOREM LockCorrect == Spec => []LockInv
  <1>1. Spec => []AcceptIInv
    BY AcceptInit, AcceptNext, PTL DEF Spec
  <1> QED BY <1>1, Implies, PTL

(* OS_Accept returns a descriptor that is open and that no other process    *)
(* has, never that of a refused address or of a silent web server; and      *)
(* every other connection it took is closed again, although after SIGUSR1   *)
(* the variable names descriptors that have been closed.                    *)
THEOREM DescriptorCorrect == Spec => []DescriptorInv
  <1>1. Spec => []AcceptIInv
    BY AcceptInit, AcceptNext, PTL DEF Spec
  <1> QED BY <1>1, Implies, PTL
-----------------------------------------------------------------------------
(* OS_AsyncRead, OS_AsyncWrite, OS_Close and OS_DoIo.                      *)

(* What the runs' properties need to be inductive.                          *)

\* The completed events of one direction; a close may take some, not add any.
PostedIn(d) == {slot \in fdSetPost : slot[2] = d}
Counted == \A d \in Directions : Cardinality(PostedIn(d)) <= numPosted[d]

\* A completed event is one of a descriptor on which it would not block.
PostedReady == fdSetPost \subseteq ready

\* While no callback closes a descriptor the list is worked off to its end.
InList == {slot \in inUse : slot[1] <= maxFd /\ Index(slot) >= cursor}
WorkedOff ==
    closesIn = {"app"} =>
        /\ fdSet \subseteq inUse /\ fdSet \cap fdSetPost = {}
        /\ phase = "app" => fdSetPost = {}
        /\ phase # "app" => fdSetPost \subseteq InList

AsyncIInv ==
    /\ AsyncTypeOK /\ SelectsOpenOnly /\ NoneLost /\ CountsMatch
    /\ Counted /\ PostedReady /\ WorkedOff /\ asyncIoTableSize # 0
------------------------------------------------------------------------------
(* GrowAsyncTable.                                                         *)

LEMMA Least ==
  ASSUME NEW S \in SUBSET Nat, S # {}
  PROVE  \E x \in S : \A y \in S : x <= y
  <1> DEFINE R == OpToRel(<, Nat)
  <1>1. IsWellFoundedOn(R, Nat)
    BY NatLessThanWellFounded
  <1>2. PICK x \in S : \A y \in S : <<y, x>> \notin R
    <2> HIDE DEF R
    <2> QED BY <1>1, WFMin
  <1>3. \A y \in S : ~ (y < x)
    BY <1>2 DEF OpToRel
  <1> QED BY <1>3

\* The double of a power of two is one.
PowerOf2(k) == \A d \in 2 .. k : k % d = 0 => d % 2 = 0

LEMMA Doubled ==
  ASSUME NEW k \in Nat \ {0}, PowerOf2(k)
  PROVE  PowerOf2(2 * k)
  <1> SUFFICES ASSUME NEW d \in 2 .. 2 * k, (2 * k) % d = 0, d % 2 # 0
               PROVE  FALSE
    BY DEF PowerOf2
  <1> DEFINE q == (2 * k) \div d
             e == d \div 2
  <1>1. d \in Nat \ {0, 1} /\ d % 2 = 1
    OBVIOUS
  <1>2. q \in Nat /\ 2 * k = d * q
    BY <1>1
  <1>3. e \in Nat /\ d = 2 * e + 1
    BY <1>1
  <1> HIDE DEF q, e
  <1>4. 2 * k = 2 * (e * q) + q
    BY <1>1, <1>2, <1>3
  <1>5. e * q \in Nat
    BY <1>2, <1>3
  <1> DEFINE r == k - e * q
  <1>6. r \in Int /\ q = 2 * r
    BY <1>4, <1>5, <1>2
  <1>7. r \in Nat
    BY <1>2, <1>6
  <1> HIDE DEF r
  <1>8. k = d * r
    <2>1. 2 * k = d * (2 * r)
      BY <1>2, <1>6
    <2>2. d * (2 * r) = 2 * (d * r) /\ d * r \in Int
      BY <1>1, <1>7
    <2> QED BY <2>1, <2>2
  <1>9. k % d = 0
    BY <1>1, <1>7, <1>8
  <1>10. d <= k
    <2>1. r # 0
      BY <1>8, <1>1
    <2> QED BY <1>1, <1>7, <1>8, <2>1
  <1> QED BY <1>1, <1>9, <1>10 DEF PowerOf2

\* GrowAsyncTable makes room for the index, and never makes the table smaller.
LEMMA GrownFacts ==
  ASSUME NEW size \in Nat \ {0}, NEW index \in Nat
  PROVE  /\ Grown(size, index) \in Nat
         /\ Grown(size, index) > index /\ Grown(size, index) >= size
  <1>1. Doublings(index) = {k \in 1 .. 2 * (index + 1) : PowerOf2(k)}
    BY DEF Doublings, PowerOf2
  <1>2. PICK k \in Doublings(index) : k > index
    <2> DEFINE S == {x \in Nat : x <= index /\ PowerOf2(index + 1 - x)}
    <2>1. index \in S
      <3>1. PowerOf2(1) /\ index + 1 - index = 1
        BY DEF PowerOf2
      <3> QED BY <3>1
    <2>2. PICK x \in S : \A y \in S : x <= y
      BY <2>1, Least
    <2> DEFINE g == index + 1 - x
    <2>3. g \in 1 .. index + 1 /\ PowerOf2(g)
      BY <2>2
    <2>4. PowerOf2(2 * g)
      BY <2>3, Doubled
    <2>5. 2 * g > index
      <3> SUFFICES ASSUME 2 * g <= index PROVE FALSE
        BY <2>3
      <3> DEFINE y == index + 1 - 2 * g
      <3>1. y \in Nat /\ y <= index /\ index + 1 - y = 2 * g /\ y < x
        BY <2>2, <2>3
      <3>2. y \in S
        BY <2>4, <3>1
      <3> QED BY <2>2, <3>1, <3>2
    <2>6. 2 * g \in 1 .. 2 * (index + 1)
      BY <2>3
    <2> QED BY <1>1, <2>4, <2>5, <2>6
  <1> DEFINE sizes == Sizes(size, index)
  <1>3. \A n \in sizes : n \in Nat /\ n > index /\ n >= size
    BY <1>1 DEF Sizes
  <1>4. size * k \in sizes
    <2>1. k \in Nat \ {0}
      BY <1>1
    <2>2. size * k \in Nat /\ size * k >= k
      BY <2>1
    <2> QED BY <1>2, <2>1, <2>2 DEF Sizes
  <1>5. \E n \in sizes : \A m \in sizes : n <= m
    BY <1>3, <1>4, Least
  <1>6. Grown(size, index) = CHOOSE n \in sizes : \A m \in sizes : n <= m
    BY DEF Grown
  <1> HIDE DEF sizes
  <1>7. Grown(size, index) \in sizes
    BY <1>5, <1>6
  <1> QED BY <1>3, <1>7
------------------------------------------------------------------------------
(* The slots.                                                              *)

LEMMA SlotFacts ==
  /\ \A slot \in Slots : /\ slot[1] \in Fds /\ slot[2] \in Directions /\ slot = <<slot[1], slot[2]>>
                         /\ Index(slot) \in 0 .. 2 * TopFd + 1
  /\ \A a, b \in Slots : Index(a) = Index(b) => a = b
  <1>1. TopFd \in Nat
    BY AsyncAssumption
  <1>2. \A slot \in Slots : slot[1] \in Fds /\ slot[2] \in Directions /\ slot = <<slot[1], slot[2]>>
    BY DEF Slots
  <1>3. \A slot \in Slots : Index(slot) \in 0 .. 2 * TopFd + 1
    BY <1>1, <1>2 DEF Index, Fds, Directions
  <1>4. ASSUME NEW a \in Slots, NEW b \in Slots, Index(a) = Index(b) PROVE a = b
    <2>1. a[1] \in Nat /\ b[1] \in Nat
      BY <1>1, <1>2 DEF Fds
    <2>2. a[1] = b[1] /\ a[2] = b[2]
      BY <1>2, <1>4, <2>1 DEF Index, Directions
    <2> QED BY <1>2, <2>2
  <1> QED BY <1>2, <1>3, <1>4

LEMMA OneDirection ==
  ASSUME NEW S \in SUBSET Slots, NEW d \in Directions
  PROVE  LET T == {slot \in S : slot[2] = d}
         IN  IsFiniteSet(T) /\ Cardinality(T) \in 0 .. TopFd + 1
  <1> DEFINE T == {slot \in S : slot[2] = d}
  <1>1. TopFd \in Nat /\ IsFiniteSet(Fds) /\ Cardinality(Fds) = TopFd + 1
    BY AsyncAssumption, FS_Interval DEF Fds
  <1>2. IsFiniteSet(Directions)
    <2>1. IsFiniteSet({"read"} \cup {"write"})
      BY FS_Singleton, FS_Union
    <2>2. Directions = {"read"} \cup {"write"}
      BY DEF Directions
    <2> QED BY <2>1, <2>2
  <1>3. IsFiniteSet(Slots)
    BY <1>1, <1>2, FS_Product DEF Slots
  <1>4. IsFiniteSet(T) /\ Cardinality(T) \in Nat
    BY <1>3, FS_Subset, FS_CardinalityType
  <1>5. Cardinality(T) <= TopFd + 1
    <2> SUFFICES ASSUME Cardinality(Fds) < Cardinality(T) PROVE FALSE
      BY <1>1, <1>4
    <2> DEFINE f == [slot \in T |-> slot[1]]
    <2>1. f \in [T -> Fds]
      BY SlotFacts
    <2> HIDE DEF f, T
    <2>2. PICK x, y \in T : x # y /\ f[x] = f[y]
      BY <1>1, <1>4, <2>1, FS_PigeonHole
    <2>3. x[1] = y[1] /\ x[2] = d /\ y[2] = d /\ x \in Slots /\ y \in Slots
      BY <2>2 DEF f, T
    <2> QED BY <2>2, <2>3, SlotFacts
  <1> QED BY <1>1, <1>4, <1>5

LEMMA SettingFacts ==
  ASSUME AsyncTypeOK
  PROVE  closesIn \subseteq {"app", "callback"} /\ limit \in Fds
  BY AsyncAssumption DEF AsyncTypeOK, scenario, Fds

LEMMA PostedFacts ==
  ASSUME AsyncTypeOK, NEW d \in Directions
  PROVE  IsFiniteSet(PostedIn(d)) /\ Cardinality(PostedIn(d)) \in Nat
  <1>1. fdSetPost \in SUBSET Slots
    BY DEF AsyncTypeOK
  <1>2. IsFiniteSet({slot \in fdSetPost : slot[2] = d})
    BY <1>1, OneDirection
  <1>3. IsFiniteSet(PostedIn(d))
    BY <1>2 DEF PostedIn
  <1> QED BY <1>3, FS_CardinalityType

\* The counts, when the sets of completed events become smaller.
LEMMA CountsKept ==
  ASSUME AsyncIInv, fdSetPost' \subseteq fdSetPost, numPosted' = numPosted, closesIn' = closesIn,
         closesIn = {"app"} => fdSetPost' = fdSetPost
  PROVE  Counted' /\ CountsMatch'
  <1>1. AsyncTypeOK /\ Counted /\ CountsMatch
    BY DEF AsyncIInv
  <1>2. ASSUME NEW d \in Directions
        PROVE  Cardinality(PostedIn(d)') <= numPosted[d]
    <2>1. PostedIn(d)' \subseteq PostedIn(d) /\ PostedIn(d) \subseteq Slots
      BY <1>1 DEF PostedIn, AsyncTypeOK
    <2>2. IsFiniteSet(PostedIn(d)) /\ Cardinality(PostedIn(d)) \in Nat
      BY <1>1, PostedFacts
    <2>3. IsFiniteSet(PostedIn(d)') /\ Cardinality(PostedIn(d)') <= Cardinality(PostedIn(d))
      BY <2>1, <2>2, FS_Subset
    <2>4. Cardinality(PostedIn(d)') \in Nat /\ numPosted[d] \in Nat
      BY <1>1, <2>3, FS_CardinalityType DEF AsyncTypeOK
    <2>5. Cardinality(PostedIn(d)) <= numPosted[d]
      BY <1>1 DEF Counted
    <2> QED BY <2>2, <2>3, <2>4, <2>5
  <1>3. Counted'
    BY <1>2 DEF Counted
  <1>4. CountsMatch'
    BY <1>1 DEF CountsMatch
  <1> QED BY <1>3, <1>4

LEMMA CloseStep ==
  ASSUME AsyncIInv, NEW fd \in Fds, OS_Close(fd)
  PROVE  AsyncIInv'
  <1>1. /\ AsyncTypeOK /\ SelectsOpenOnly /\ NoneLost /\ PostedReady /\ WorkedOff /\ asyncIoTableSize # 0
        /\ TopFd \in Nat
    BY AsyncAssumption DEF AsyncIInv
  <1>2. /\ phase \in closesIn /\ fd \in openFds
        /\ openFds' = openFds \ {fd} /\ ready' = ready \ Of(fd) /\ inUse' = inUse \ Of(fd)
        /\ fdSet' = fdSet \ Of(fd) /\ fdSetPost' = fdSetPost \ Of(fd)
        /\ maxFd' = (IF asyncIoInUse /\ maxFd = fd THEN maxFd - 1 ELSE maxFd)
        /\ UNCHANGED <<closesIn, limit, numPosted, asyncIoInUse, asyncIoTableSize, phase, cursor>>
    BY DEF OS_Close, scenario
  <1>3. /\ \A slot \in Slots : slot \in Of(fd) <=> slot[1] = fd
        /\ \A slot \in Slots : slot[1] \in Fds /\ slot[1] \in Int
    BY SlotFacts, <1>1 DEF Of, Slots, Fds
  <1>4. maxFd \in -1 .. TopFd /\ maxFd' \in -1 .. TopFd /\ fd \in 0 .. TopFd
    BY <1>1, <1>2 DEF AsyncTypeOK, Fds
  <1>5. AsyncTypeOK'
    BY <1>1, <1>2, <1>4 DEF AsyncTypeOK, scenario
  <1>6. SelectsOpenOnly'
    <2> SUFFICES ASSUME NEW slot \in fdSet' \cup fdSetPost' \cup inUse' PROVE slot[1] \in openFds'
      BY DEF SelectsOpenOnly
    <2>1. slot \in fdSet \cup fdSetPost \cup inUse /\ slot \notin Of(fd) /\ slot \in Slots
      BY <1>1, <1>2 DEF AsyncTypeOK
    <2> QED BY <1>1, <1>2, <1>3, <2>1 DEF SelectsOpenOnly
  <1>7. ASSUME NEW slot \in inUse' PROVE slot[1] <= maxFd'
    <2>1. slot \in Slots /\ slot \in inUse /\ slot[1] # fd /\ slot[1] \in Int
      BY <1>1, <1>2, <1>3, <1>7 DEF AsyncTypeOK
    <2>2. slot[1] <= maxFd
      BY <1>1, <2>1 DEF NoneLost
    <2> QED BY <1>2, <1>4, <2>1, <2>2
  <1>8. NoneLost'
    BY <1>1, <1>2, <1>7 DEF NoneLost
  <1>9. closesIn = {"app"} => fdSetPost = {} /\ fdSetPost' = {}
    BY <1>1, <1>2 DEF WorkedOff
  <1>10. Counted' /\ CountsMatch'
    BY <1>2, <1>9, CountsKept
  <1>11. PostedReady'
    BY <1>1, <1>2 DEF PostedReady
  <1>12. WorkedOff'
    BY <1>1, <1>2, <1>9 DEF WorkedOff
  <1> QED BY <1>1, <1>2, <1>5, <1>6, <1>8, <1>10, <1>11, <1>12 DEF AsyncIInv

LEMMA CloseReadStep ==
  ASSUME AsyncIInv, NEW fd \in Fds, OS_CloseRead(fd)
  PROVE  AsyncIInv'
  <1>1. /\ AsyncTypeOK /\ SelectsOpenOnly /\ NoneLost /\ PostedReady /\ WorkedOff /\ asyncIoTableSize # 0
    BY DEF AsyncIInv
  <1> DEFINE slot == <<fd, "read">>
  <1>2. /\ phase \in closesIn /\ fd \in openFds /\ slot \in Slots
        /\ ready' = ready \cup {slot} /\ inUse' = inUse \ {slot}
        /\ fdSet' \in {fdSet, fdSet \ {slot}}
        /\ UNCHANGED <<closesIn, limit, openFds, asyncIoInUse, asyncIoTableSize, fdSetPost, numPosted,
                       maxFd, phase, cursor>>
        /\ slot \notin inUse => fdSet' = fdSet /\ inUse' = inUse
        /\ slot \in inUse => fdSet' = fdSet \ {slot}
    BY DEF OS_CloseRead, scenario, posted, Slots, Directions
  <1> HIDE DEF slot
  <1>3. AsyncTypeOK'
    BY <1>1, <1>2 DEF AsyncTypeOK, scenario
  <1>4. SelectsOpenOnly' /\ NoneLost'
    BY <1>1, <1>2 DEF SelectsOpenOnly, NoneLost
  <1>5. Counted' /\ CountsMatch'
    BY <1>2, CountsKept
  <1>6. PostedReady'
    BY <1>1, <1>2 DEF PostedReady
  <1>7. closesIn = {"app"} => phase = "app" /\ fdSetPost = {}
    BY <1>1, <1>2 DEF WorkedOff
  <1>8. WorkedOff'
    BY <1>1, <1>2, <1>7 DEF WorkedOff
  <1> QED BY <1>1, <1>2, <1>3, <1>4, <1>5, <1>6, <1>8 DEF AsyncIInv

LEMMA AsyncStep ==
  ASSUME AsyncIInv, NEW slot \in Slots, Async(slot)
  PROVE  AsyncIInv'
  <1>1. /\ AsyncTypeOK /\ SelectsOpenOnly /\ NoneLost /\ PostedReady /\ WorkedOff
        /\ asyncIoTableSize \in Nat \ {0} /\ TopFd \in Nat
    BY AsyncAssumption DEF AsyncIInv, AsyncTypeOK
  <1>2. /\ slot[1] \in openFds /\ slot \notin inUse /\ asyncIoInUse' = TRUE
        /\ maxFd' = (IF slot[1] > maxFd THEN slot[1] ELSE maxFd)
        /\ asyncIoTableSize' = Grown(asyncIoTableSize, Index(slot))
        /\ inUse' = inUse \cup {slot} /\ fdSet' = fdSet \cup {slot}
        /\ UNCHANGED <<closesIn, limit, openFds, ready, fdSetPost, numPosted, phase, cursor>>
    BY DEF Async, scenario, posted
  <1>3. slot[1] \in 0 .. TopFd /\ Index(slot) \in Nat
    BY <1>1, SlotFacts DEF Fds
  <1>4. /\ maxFd \in -1 .. TopFd /\ maxFd' \in -1 .. TopFd /\ maxFd <= maxFd' /\ slot[1] <= maxFd'
    BY <1>1, <1>2, <1>3 DEF AsyncTypeOK
  <1>5. /\ asyncIoTableSize' \in Nat \ {0} /\ asyncIoTableSize <= asyncIoTableSize'
        /\ Index(slot) < asyncIoTableSize'
    <2>1. /\ asyncIoTableSize' \in Nat /\ asyncIoTableSize' > Index(slot)
          /\ asyncIoTableSize' >= asyncIoTableSize
      BY <1>1, <1>2, <1>3, GrownFacts
    <2> QED BY <1>1, <1>3, <2>1
  <1>6. AsyncTypeOK'
    BY <1>1, <1>2, <1>4, <1>5 DEF AsyncTypeOK, scenario
  <1>7. SelectsOpenOnly'
    BY <1>1, <1>2 DEF SelectsOpenOnly
  <1>8. NoneLost'
    <2> SUFFICES ASSUME NEW other \in inUse'
                 PROVE  /\ other \in fdSet' \cup fdSetPost'
                        /\ other[1] <= maxFd' /\ Index(other) < asyncIoTableSize'
      BY DEF NoneLost
    <2>1. CASE other = slot
      BY <1>2, <1>4, <1>5, <2>1
    <2>2. CASE other \in inUse
      <3>1. /\ other[1] \in 0 .. TopFd /\ Index(other) \in Nat
        BY <1>1, <2>2, SlotFacts DEF AsyncTypeOK, Fds
      <3>2. /\ other \in fdSet \cup fdSetPost /\ other[1] <= maxFd /\ Index(other) < asyncIoTableSize
        BY <1>1, <2>2 DEF NoneLost
      <3> QED BY <1>1, <1>2, <1>4, <1>5, <3>1, <3>2
    <2> QED BY <1>2, <2>1, <2>2
  <1>9. Counted' /\ CountsMatch'
    BY <1>2, CountsKept
  <1>10. PostedReady'
    BY <1>1, <1>2 DEF PostedReady
  <1>11. WorkedOff'
    <2> SUFFICES ASSUME closesIn = {"app"} PROVE WorkedOff'
      BY <1>2 DEF WorkedOff
    <2>1. /\ fdSet \subseteq inUse /\ fdSet \cap fdSetPost = {}
          /\ phase = "app" => fdSetPost = {}
          /\ phase # "app" => fdSetPost \subseteq InList
      BY <1>1 DEF WorkedOff
    <2>2. slot \notin fdSetPost
      BY <1>2, <2>1 DEF InList
    <2>3. InList \subseteq InList'
      <3> SUFFICES ASSUME NEW other \in InList PROVE other \in InList'
        OBVIOUS
      <3>1. other \in inUse /\ other[1] <= maxFd /\ Index(other) >= cursor
        BY DEF InList
      <3>2. other[1] \in 0 .. TopFd
        BY <1>1, <3>1, SlotFacts DEF AsyncTypeOK, Fds
      <3>3. other[1] <= maxFd'
        BY <1>1, <1>4, <3>1, <3>2
      <3> QED BY <1>2, <3>1, <3>3 DEF InList
    <2> QED BY <1>2, <2>1, <2>2, <2>3 DEF WorkedOff
  <1> QED BY <1>5, <1>6, <1>7, <1>8, <1>9, <1>10, <1>11 DEF AsyncIInv

LEMMA OtherStep ==
  ASSUME AsyncIInv, Open \/ (\E slot \in Slots : BecomesReady(slot)) \/ UNCHANGED asyncVars
  PROVE  AsyncIInv'
  <1>1. /\ AsyncTypeOK /\ SelectsOpenOnly /\ NoneLost /\ PostedReady /\ WorkedOff /\ asyncIoTableSize # 0
    BY DEF AsyncIInv
  <1>2. /\ UNCHANGED <<closesIn, limit, asyncIoInUse, asyncIoTableSize, inUse, fdSet, fdSetPost,
                       numPosted, maxFd, phase, cursor>>
        /\ openFds \subseteq openFds' /\ openFds' \subseteq Fds
        /\ ready \subseteq ready' /\ ready' \subseteq Slots
    BY <1>1 DEF Open, BecomesReady, asyncVars, scenario, table, posted, AsyncTypeOK
  <1>3. AsyncTypeOK'
    BY <1>1, <1>2 DEF AsyncTypeOK, scenario
  <1>4. SelectsOpenOnly' /\ NoneLost' /\ PostedReady'
    BY <1>1, <1>2 DEF SelectsOpenOnly, NoneLost, PostedReady
  <1>5. WorkedOff'
    BY <1>1, <1>2 DEF WorkedOff, InList
  <1>6. Counted' /\ CountsMatch'
    BY <1>2, CountsKept
  <1> QED BY <1>1, <1>2, <1>3, <1>4, <1>5, <1>6 DEF AsyncIInv
------------------------------------------------------------------------------
(* OS_DoIo.                                                                *)

\* With nothing counted there is nothing in the sets, and the other way round.
LEMMA NothingPosted ==
  ASSUME AsyncIInv
  PROVE  /\ NonePosted => fdSetPost = {}
         /\ closesIn = {"app"} /\ fdSetPost = {} => NonePosted
  <1>1. AsyncTypeOK /\ Counted /\ CountsMatch
    BY DEF AsyncIInv
  <1>2. ASSUME NEW d \in Directions
        PROVE  IsFiniteSet(PostedIn(d)) /\ Cardinality(PostedIn(d)) \in Nat
    BY <1>1, PostedFacts
  <1>3. ASSUME NonePosted PROVE fdSetPost = {}
    <2>1. ASSUME NEW d \in Directions PROVE PostedIn(d) = {}
      <3>1. Cardinality(PostedIn(d)) <= 0
        BY <1>1, <1>3 DEF Counted, NonePosted
      <3>2. Cardinality(PostedIn(d)) = 0
        BY <1>2, <3>1
      <3> QED BY <1>2, <3>2, FS_EmptySet
    <2>2. \A slot \in fdSetPost : slot[2] \in Directions
      BY <1>1, SlotFacts DEF AsyncTypeOK
    <2> QED BY <2>1, <2>2 DEF PostedIn
  <1>4. ASSUME closesIn = {"app"}, fdSetPost = {} PROVE NonePosted
    <2>1. \A d \in Directions : {s \in fdSetPost : s[2] = d} = {}
      BY <1>4
    <2> QED BY <1>1, <1>4, <2>1, FS_EmptySet DEF CountsMatch, NonePosted
  <1> QED BY <1>3, <1>4

LEMMA DoIoStep ==
  ASSUME AsyncIInv, OS_DoIo
  PROVE  AsyncIInv'
  <1>1. /\ AsyncTypeOK /\ SelectsOpenOnly /\ NoneLost /\ PostedReady /\ WorkedOff /\ asyncIoTableSize # 0
        /\ TopFd \in Nat
    BY AsyncAssumption DEF AsyncIInv
  <1>2. /\ phase = "app" /\ asyncIoInUse' = TRUE /\ cursor' = 0
        /\ phase' = (IF \A d \in Directions : numPosted'[d] = 0 THEN "app" ELSE "dispatch")
        /\ UNCHANGED <<closesIn, limit, openFds, ready, asyncIoTableSize, inUse, maxFd>>
    BY DEF OS_DoIo, scenario
  <1>3. CASE NonePosted
    <2>1. fdSetPost = {}
      BY <1>3, NothingPosted
    <2>2. /\ fdSet' = fdSet \ Selected /\ fdSetPost' = Selected
          /\ numPosted' = [d \in Directions |-> Cardinality({s \in Selected : s[2] = d})]
      BY <1>3, <2>1 DEF OS_DoIo
    <2>3. /\ Selected \subseteq fdSet /\ Selected \subseteq ready /\ Selected \subseteq Slots
          /\ \A slot \in Selected : slot[1] <= maxFd
      BY <1>1 DEF Selected, AsyncTypeOK
    <2>4. ASSUME NEW d \in Directions
          PROVE  /\ IsFiniteSet({s \in Selected : s[2] = d})
                 /\ Cardinality({s \in Selected : s[2] = d}) \in 0 .. TopFd + 1
      BY <2>3, OneDirection
    <2>5. numPosted' \in [Directions -> 0 .. TopFd + 1]
      BY <2>2, <2>4
    <2>6. AsyncTypeOK'
      <3>1. fdSet' \subseteq Slots /\ fdSetPost' \subseteq Slots
        BY <1>1, <2>2, <2>3 DEF AsyncTypeOK
      <3>2. cursor' \in 0 .. 2 * TopFd + 2 /\ phase' \in {"app", "dispatch", "callback"}
        BY <1>1, <1>2
      <3> QED BY <1>1, <1>2, <2>5, <3>1, <3>2 DEF AsyncTypeOK, scenario
    <2>7. SelectsOpenOnly'
      BY <1>1, <1>2, <2>2, <2>3 DEF SelectsOpenOnly
    <2>8. NoneLost'
      BY <1>1, <1>2, <2>1, <2>2 DEF NoneLost
    <2>9. ASSUME NEW d \in Directions
          PROVE  /\ numPosted'[d] = Cardinality({s \in fdSetPost' : s[2] = d})
                 /\ numPosted'[d] \in Nat
                 /\ PostedIn(d)' = {s \in fdSetPost' : s[2] = d}
      BY <1>1, <2>2, <2>4 DEF PostedIn
    <2>10. CountsMatch'
      BY <2>9 DEF CountsMatch
    <2>11. Counted'
      <3>1. ASSUME NEW d \in Directions PROVE Cardinality(PostedIn(d)') <= numPosted'[d]
        <4>1. Cardinality(PostedIn(d)') = numPosted'[d] /\ numPosted'[d] \in Nat
          BY <2>9
        <4> QED BY <4>1
      <3> QED BY <3>1 DEF Counted
    <2>12. PostedReady'
      BY <1>2, <2>2, <2>3 DEF PostedReady
    <2>13. phase' = "app" => fdSetPost' = {}
      <3> SUFFICES ASSUME phase' = "app", NEW slot \in fdSetPost' PROVE FALSE
        OBVIOUS
      <3>1. slot[2] \in Directions
        BY <2>2, <2>3, SlotFacts
      <3>2. Cardinality({s \in Selected : s[2] = slot[2]}) = 0
        BY <1>2, <2>2, <3>1
      <3>3. {s \in Selected : s[2] = slot[2]} = {}
        BY <2>4, <3>1, <3>2, FS_EmptySet
      <3> QED BY <2>2, <3>3
    <2>14. WorkedOff'
      <3> SUFFICES ASSUME closesIn = {"app"}
                   PROVE  /\ fdSet' \subseteq inUse' /\ fdSet' \cap fdSetPost' = {}
                          /\ fdSetPost' \subseteq InList'
        BY <1>2, <2>13 DEF WorkedOff
      <3>1. fdSet \subseteq inUse
        BY <1>1 DEF WorkedOff
      <3>2. \A slot \in Selected : slot \in inUse' /\ slot[1] <= maxFd' /\ Index(slot) >= cursor'
        BY <1>1, <1>2, <2>3, <3>1, SlotFacts
      <3>3. fdSetPost' \subseteq InList'
        BY <2>2, <3>2 DEF InList
      <3> QED BY <1>2, <2>2, <3>1, <3>3
    <2> QED BY <1>1, <1>2, <2>6, <2>7, <2>8, <2>10, <2>11, <2>12, <2>14 DEF AsyncIInv
  <1>4. CASE ~ NonePosted
    <2>1. UNCHANGED <<fdSet, fdSetPost, numPosted>>
      BY <1>4 DEF OS_DoIo, posted
    <2>2. AsyncTypeOK'
      <3>1. cursor' \in 0 .. 2 * TopFd + 2 /\ phase' \in {"app", "dispatch", "callback"}
        BY <1>1, <1>2
      <3> QED BY <1>1, <1>2, <2>1, <3>1 DEF AsyncTypeOK, scenario
    <2>3. SelectsOpenOnly' /\ NoneLost' /\ PostedReady'
      BY <1>1, <1>2, <2>1 DEF SelectsOpenOnly, NoneLost, PostedReady
    <2>4. Counted' /\ CountsMatch'
      BY <1>2, <2>1, CountsKept
    <2>5. closesIn # {"app"}
      BY <1>1, <1>2, <1>4, NothingPosted DEF WorkedOff
    <2>6. WorkedOff'
      BY <1>2, <2>5 DEF WorkedOff
    <2> QED BY <1>1, <1>2, <2>2, <2>3, <2>4, <2>6 DEF AsyncIInv
  <1> QED BY <1>3, <1>4

\* One event of the list is worked off.
LEMMA DispatchStep ==
  ASSUME AsyncIInv, NEW slot \in Slots, Dispatch(slot)
  PROVE  AsyncIInv'
  <1>1. /\ AsyncTypeOK /\ SelectsOpenOnly /\ NoneLost /\ CountsMatch /\ Counted /\ PostedReady /\ WorkedOff
        /\ asyncIoTableSize # 0 /\ TopFd \in Nat
    BY AsyncAssumption DEF AsyncIInv
  <1>2. /\ phase = "dispatch" /\ slot \in Listed /\ (\A other \in Listed : Index(slot) <= Index(other))
        /\ numPosted' = [numPosted EXCEPT ![slot[2]] = @ - 1]
        /\ fdSetPost' = fdSetPost \ {slot} /\ inUse' = inUse \ {slot}
        /\ ready' \in {ready, ready \ {slot}}
        /\ cursor' = Index(slot) + 1 /\ phase' = "callback"
        /\ UNCHANGED <<closesIn, limit, openFds, asyncIoInUse, asyncIoTableSize, fdSet, maxFd>>
    BY DEF Dispatch, scenario
  <1>3. slot \in fdSetPost /\ slot \in inUse /\ slot[2] \in Directions /\ Index(slot) \in 0 .. 2 * TopFd + 1
    BY <1>2, SlotFacts DEF Listed
  <1>4. ASSUME NEW d \in Directions
        PROVE  /\ Cardinality(PostedIn(d)') = Cardinality(PostedIn(d)) - (IF d = slot[2] THEN 1 ELSE 0)
               /\ Cardinality(PostedIn(d)) \in Nat /\ Cardinality(PostedIn(d)') \in Nat
               /\ numPosted'[d] = numPosted[d] - (IF d = slot[2] THEN 1 ELSE 0)
               /\ numPosted[d] \in 0 .. TopFd + 1
    <2>1. IsFiniteSet(PostedIn(d)) /\ Cardinality(PostedIn(d)) \in Nat
      BY <1>1, PostedFacts
    <2>2. numPosted[d] \in 0 .. TopFd + 1
      BY <1>1 DEF AsyncTypeOK
    <2>3. CASE d = slot[2]
      <3>1. slot \in PostedIn(d) /\ PostedIn(d)' = PostedIn(d) \ {slot}
        BY <1>2, <1>3, <2>3 DEF PostedIn
      <3>2. IsFiniteSet(PostedIn(d)') /\ Cardinality(PostedIn(d)') = Cardinality(PostedIn(d)) - 1
        BY <2>1, <3>1, FS_RemoveElement
      <3>3. Cardinality(PostedIn(d)') \in Nat
        BY <3>2, FS_CardinalityType
      <3>4. numPosted'[d] = numPosted[d] - 1
        BY <1>1, <1>2, <1>3, <2>3 DEF AsyncTypeOK
      <3> QED BY <2>1, <2>2, <2>3, <3>2, <3>3, <3>4
    <2>4. CASE d # slot[2]
      <3>1. PostedIn(d)' = PostedIn(d)
        BY <1>2, <2>4 DEF PostedIn
      <3>2. numPosted'[d] = numPosted[d]
        BY <1>1, <1>2, <2>4 DEF AsyncTypeOK
      <3> QED BY <2>1, <2>2, <2>4, <3>1, <3>2
    <2> QED BY <2>3, <2>4
  <1>5. ASSUME NEW d \in Directions
        PROVE  Cardinality(PostedIn(d)') <= numPosted'[d] /\ numPosted'[d] \in 0 .. TopFd + 1
    <2>1. Cardinality(PostedIn(d)) <= numPosted[d]
      BY <1>1 DEF Counted
    <2> QED BY <1>1, <1>4, <2>1
  <1>6. Counted'
    BY <1>5 DEF Counted
  <1>7. AsyncTypeOK'
    <2>1. numPosted' \in [Directions -> 0 .. TopFd + 1]
      <3>1. numPosted' = [d \in Directions |-> numPosted'[d]]
        BY <1>1, <1>2 DEF AsyncTypeOK
      <3> QED BY <1>5, <3>1
    <2>2. ready' \subseteq Slots /\ inUse' \subseteq Slots /\ fdSetPost' \subseteq Slots
      BY <1>1, <1>2 DEF AsyncTypeOK
    <2>3. cursor' \in 0 .. 2 * TopFd + 2 /\ phase' \in {"app", "dispatch", "callback"}
      BY <1>1, <1>2, <1>3
    <2> QED BY <1>1, <1>2, <2>1, <2>2, <2>3 DEF AsyncTypeOK, scenario
  <1>8. SelectsOpenOnly' /\ NoneLost'
    BY <1>1, <1>2 DEF SelectsOpenOnly, NoneLost
  <1>9. CountsMatch'
    <2> SUFFICES ASSUME closesIn = {"app"}, NEW d \in Directions
                 PROVE  numPosted'[d] = Cardinality(PostedIn(d)')
      BY <1>2 DEF CountsMatch, PostedIn
    <2>1. numPosted[d] = Cardinality(PostedIn(d))
      BY <1>1 DEF CountsMatch, PostedIn
    <2> QED BY <1>4, <2>1
  <1>10. PostedReady'
    BY <1>1, <1>2 DEF PostedReady
  <1>11. WorkedOff'
    <2> SUFFICES ASSUME closesIn = {"app"}
                 PROVE  /\ fdSet' \subseteq inUse' /\ fdSet' \cap fdSetPost' = {}
                        /\ fdSetPost' \subseteq InList'
      BY <1>2 DEF WorkedOff
    <2>1. /\ fdSet \subseteq inUse /\ fdSet \cap fdSetPost = {} /\ fdSetPost \subseteq InList
      BY <1>1, <1>2 DEF WorkedOff
    <2>2. ASSUME NEW other \in fdSetPost' PROVE other \in InList'
      <3>1. other \in Slots /\ other # slot /\ other \in inUse /\ other[1] <= maxFd /\ other \in Listed
        BY <1>1, <1>2, <2>1 DEF AsyncTypeOK, InList, Listed
      <3>2. Index(other) \in Int /\ Index(slot) <= Index(other) /\ Index(other) # Index(slot)
        BY <1>2, <3>1, SlotFacts
      <3>3. Index(other) >= cursor'
        BY <1>2, <1>3, <3>2
      <3> QED BY <1>2, <3>1, <3>3 DEF InList
    <2> QED BY <1>2, <1>3, <2>1, <2>2
  <1> QED BY <1>1, <1>2, <1>6, <1>7, <1>8, <1>9, <1>10, <1>11 DEF AsyncIInv

LEMMA ReturnStep ==
  ASSUME AsyncIInv, CallbackReturns \/ DoIoReturns
  PROVE  AsyncIInv'
  <1>1. /\ AsyncTypeOK /\ SelectsOpenOnly /\ NoneLost /\ PostedReady /\ WorkedOff /\ asyncIoTableSize # 0
        /\ TopFd \in Nat
    BY AsyncAssumption DEF AsyncIInv
  <1>2. /\ phase' \in {"app", "dispatch"} /\ cursor' \in {cursor, 0}
        /\ UNCHANGED <<closesIn, limit, openFds, ready, asyncIoInUse, asyncIoTableSize, inUse, fdSet,
                       fdSetPost, numPosted, maxFd>>
    BY DEF CallbackReturns, DoIoReturns, scenario, table, posted
  <1>3. AsyncTypeOK'
    <2>1. cursor' \in 0 .. 2 * TopFd + 2 /\ phase' \in {"app", "dispatch", "callback"}
      BY <1>1, <1>2 DEF AsyncTypeOK
    <2> QED BY <1>1, <1>2, <2>1 DEF AsyncTypeOK, scenario
  <1>4. SelectsOpenOnly' /\ NoneLost' /\ PostedReady'
    BY <1>1, <1>2 DEF SelectsOpenOnly, NoneLost, PostedReady
  <1>5. Counted' /\ CountsMatch'
    BY <1>2, CountsKept
  <1>6. CASE CallbackReturns
    <2>1. phase = "callback" /\ phase' = "dispatch" /\ cursor' = cursor
      BY <1>6 DEF CallbackReturns
    <2>2. WorkedOff'
      BY <1>1, <1>2, <2>1 DEF WorkedOff, InList
    <2> QED BY <1>1, <1>2, <1>3, <1>4, <1>5, <2>2 DEF AsyncIInv
  <1>7. CASE DoIoReturns
    <2>1. phase = "dispatch" /\ phase' = "app" /\ Listed = {}
      BY <1>7 DEF DoIoReturns
    <2>2. closesIn = {"app"} => fdSetPost = {}
      BY <1>1, <2>1 DEF WorkedOff, InList, Listed
    <2>3. WorkedOff'
      BY <1>1, <1>2, <2>1, <2>2 DEF WorkedOff
    <2> QED BY <1>1, <1>2, <1>3, <1>4, <1>5, <2>3 DEF AsyncIInv
  <1> QED BY <1>6, <1>7
------------------------------------------------------------------------------
(* The theorems.                                                           *)

LEMMA AsyncInitHolds == AsyncInit => AsyncIInv
  <1> SUFFICES ASSUME AsyncInit PROVE AsyncIInv
    OBVIOUS
  <1>1. /\ scenario \in Settings /\ openFds = {} /\ ready = {} /\ asyncIoInUse = FALSE
        /\ asyncIoTableSize = FirstTableSize /\ inUse = {} /\ fdSet = {} /\ fdSetPost = {}
        /\ numPosted = [d \in Directions |-> 0] /\ maxFd = -1 /\ phase = "app" /\ cursor = 0
    <2>1. PICK s \in Settings : closesIn = s[1] /\ limit = s[2]
      BY DEF AsyncInit
    <2>2. scenario = s
      BY <2>1, AsyncAssumption DEF scenario
    <2> QED BY <2>2 DEF AsyncInit
  <1>2. TopFd \in Nat /\ FirstTableSize \in Nat \ {0}
    BY AsyncAssumption
  <1>3. AsyncTypeOK
    <2>1. numPosted \in [Directions -> 0 .. TopFd + 1] /\ maxFd \in -1 .. TopFd
      BY <1>1, <1>2
    <2>2. cursor \in 0 .. 2 * TopFd + 2 /\ asyncIoTableSize \in Nat
      BY <1>1, <1>2
    <2> QED BY <1>1, <2>1, <2>2 DEF AsyncTypeOK
  <1>4. SelectsOpenOnly /\ NoneLost /\ PostedReady /\ WorkedOff
    BY <1>1 DEF SelectsOpenOnly, NoneLost, PostedReady, WorkedOff
  <1>5. \A d \in Directions : {s \in fdSetPost : s[2] = d} = {}
    BY <1>1
  <1>6. Cardinality({}) = 0
    BY FS_EmptySet
  <1>7. Counted
    BY <1>1, <1>5, <1>6 DEF Counted, PostedIn
  <1>8. CountsMatch
    BY <1>1, <1>5, <1>6 DEF CountsMatch
  <1> QED BY <1>1, <1>2, <1>3, <1>4, <1>7, <1>8 DEF AsyncIInv

LEMMA AsyncNextKeeps == AsyncIInv /\ [AsyncNext]_asyncVars => AsyncIInv'
  <1> SUFFICES ASSUME AsyncIInv, [AsyncNext]_asyncVars PROVE AsyncIInv'
    OBVIOUS
  <1>1. CASE OS_DoIo
    BY <1>1, DoIoStep
  <1>2. ASSUME NEW slot \in Slots, Dispatch(slot) PROVE AsyncIInv'
    BY <1>2, DispatchStep
  <1>3. CASE CallbackReturns \/ DoIoReturns
    BY <1>3, ReturnStep
  <1>4. CASE Open \/ (\E slot \in Slots : BecomesReady(slot)) \/ UNCHANGED asyncVars
    BY <1>4, OtherStep
  <1>5. ASSUME NEW slot \in Slots, Async(slot) PROVE AsyncIInv'
    BY <1>5, AsyncStep
  <1>6. ASSUME NEW fd \in Fds, OS_Close(fd) PROVE AsyncIInv'
    BY <1>6, CloseStep
  <1>7. ASSUME NEW fd \in Fds, OS_CloseRead(fd) PROVE AsyncIInv'
    BY <1>7, CloseReadStep
  <1> QED BY <1>1, <1>2, <1>3, <1>4, <1>5, <1>6, <1>7 DEF AsyncNext, Loop

LEMMA AsyncInvariant == AsyncSpec => []AsyncIInv
  BY AsyncInitHolds, AsyncNextKeeps, PTL DEF AsyncSpec

(* Registration, OS_Close, OS_CloseRead and OS_DoIo keep the table, the     *)
(* four sets, maxFd and the two counts in agreement: select is given open   *)
(* descriptors only, no registered operation is out of OS_DoIo's sight, and *)
(* the table has room for each, for any number of descriptors and any even  *)
(* size of the table to begin with.                                        *)
THEOREM RegistrationCorrect == AsyncSpec => []RegistrationInv
  <1>1. AsyncIInv => RegistrationInv
    BY DEF AsyncIInv, RegistrationInv
  <1> QED BY <1>1, AsyncInvariant, PTL

(* A completed event is worked off only on a descriptor that is ready and   *)
(* registered, whatever callbacks have closed, opened and registered since  *)
(* select found it.                                                        *)
THEOREM NeverBlocksCorrect == AsyncSpec => NeverBlocks
  <1> DEFINE Step == \A slot \in Slots : phase = "dispatch" /\ phase' = "callback" /\ cursor' = Index(slot) + 1
                                           => slot \in ready /\ slot \in inUse
  <1>1. ASSUME AsyncIInv, [AsyncNext]_asyncVars, NEW slot \in Slots, phase = "dispatch", phase' = "callback",
               cursor' = Index(slot) + 1
        PROVE  slot \in ready /\ slot \in inUse
    <2>1. PICK other \in Slots : Dispatch(other)
      <3>1. ~ Open /\ ~ OS_DoIo /\ ~ CallbackReturns /\ ~ DoIoReturns /\ ~ UNCHANGED asyncVars
        BY <1>1 DEF Open, OS_DoIo, CallbackReturns, DoIoReturns, asyncVars, InApplication
      <3>2. \A s \in Slots : ~ BecomesReady(s) /\ ~ Async(s)
        BY <1>1 DEF BecomesReady, Async, InApplication
      <3>3. \A fd \in Fds : ~ OS_Close(fd) /\ ~ OS_CloseRead(fd)
        BY <1>1 DEF OS_Close, OS_CloseRead
      <3> QED BY <1>1, <3>1, <3>2, <3>3 DEF AsyncNext, Loop
    <2>2. cursor' = Index(other) + 1 /\ other \in fdSetPost /\ other \in inUse
      BY <2>1 DEF Dispatch, Listed
    <2>3. other = slot
      <3>1. Index(other) \in Int /\ Index(slot) \in Int
        BY SlotFacts, AsyncAssumption
      <3>2. Index(other) = Index(slot)
        BY <1>1, <2>2, <3>1
      <3> QED BY <3>2, SlotFacts
    <2> QED BY <1>1, <2>2, <2>3 DEF AsyncIInv, PostedReady
  <1>2. AsyncIInv /\ [AsyncNext]_asyncVars => [Step]_asyncVars
    BY <1>1
  <1> QED BY <1>2, AsyncInvariant, PTL DEF AsyncSpec, NeverBlocks
=============================================================================
