------------------------- MODULE AltumoServerProofs -------------------------
(***************************************************************************)
(* Proofs about AltumoServer, for any number of clients and Sessions, any   *)
(* max_length and any limit on the descriptors.                             *)
(***************************************************************************)
EXTENDS AltumoServer, TLAPS

\* A Session's connection was accepted; one that has ended is still open here
\* until the pending operation fails.
Accepted ==
    \A s \in Sessions : peer[s] # None => client[peer[s]] \in {"open", "finished", "gone"}

\* async_write has a byte left to write, or it would have completed.
BytesLeft == \A o \in ops : o.kind = "write" => o.done < o.size

\* What SessionInv needs to be inductive: the connection the next accept
\* returns, which is waiting, is no Session's yet, and what a write adds to
\* echoed is a sequence.
SessionIInv == SessionInv /\ Accepted /\ BytesLeft
-----------------------------------------------------------------------------
(* Operations.                                                              *)

LEMMA OpFields ==
  /\ \A k, s, d, z : /\ Op(k, s, d, z).kind = k /\ Op(k, s, d, z).session = s
                     /\ Op(k, s, d, z).done = d /\ Op(k, s, d, z).size = z
  /\ \A s \in Sessions, d, z \in 0 .. MaxLength :
        Accept(s) \in Ops /\ Read(s) \in Ops /\ Write(s, d, z) \in Ops
  /\ \A s : /\ Accept(s).kind = "accept" /\ Accept(s).session = s
            /\ Read(s).kind = "read" /\ Read(s).session = s
  /\ \A s, d, z : /\ Write(s, d, z).kind = "write" /\ Write(s, d, z).session = s
                  /\ Write(s, d, z).done = d /\ Write(s, d, z).size = z
  BY SizeAssumption DEF Op, Accept, Read, Write, Ops

(* A pending operation that is not an accept is of a Session that has a     *)
(* connection: the listening Session has only its accept.                   *)
LEMMA Connected ==
  ASSUME SessionIInv, NEW o \in ops, o.kind # "accept"
  PROVE  /\ o.session \in heap /\ o.session \in Sessions
         /\ peer[o.session] \in Clients /\ peer[o.session] # None
  <1>1. o.session \in heap /\ o.session \in Sessions
    BY DEF SessionIInv, SessionInv, OneOperation, TypeOK
  <1>2. PICK s \in heap : Accept(s) \in ops /\ \A t \in heap \ {s} : peer[t] # None
    BY DEF SessionIInv, SessionInv, Listening
  <1>3. o.session # s
    BY <1>2, OpFields DEF SessionIInv, SessionInv, OneOperation
  <1> QED BY <1>1, <1>2, <1>3 DEF SessionIInv, SessionInv, TypeOK

(* The Session at accept.                                                   *)
LEMMA Acceptor ==
  ASSUME SessionIInv, NEW s \in Sessions, Accept(s) \in ops
  PROVE  /\ s \in heap /\ peer[s] = None
         /\ \A o \in ops : o # Accept(s) => o.session # s
         /\ \A t \in heap \ {s} : peer[t] # None /\ Accept(t) \notin ops
  <1>1. s \in heap
    BY OpFields DEF SessionIInv, SessionInv, OneOperation
  <1>2. PICK u \in heap : /\ Accept(u) \in ops /\ peer[u] = None
                          /\ \A t \in heap \ {u} : peer[t] # None /\ Accept(t) \notin ops
    BY DEF SessionIInv, SessionInv, Listening
  <1>3. u = s
    BY <1>1, <1>2
  <1>4. \A o \in ops : o # Accept(s) => o.session # s
    BY OpFields DEF SessionIInv, SessionInv, OneOperation
  <1> QED BY <1>1, <1>2, <1>3, <1>4
-----------------------------------------------------------------------------
(* The three ways a handler leaves the Sessions.                            *)

(* A read or a write is followed by another of the same Session.            *)
LEMMA Replaced ==
  ASSUME SessionIInv,
         NEW o \in ops, o.kind # "accept",
         NEW q \in Ops, q.session = o.session, q.kind # "accept",
         q.kind = "write" => q.done < q.size,
         ops' = (ops \ {o}) \cup {q}, UNCHANGED <<heap, peer, logOpen>>
  PROVE  OneOperation' /\ Listening' /\ NoLeak' /\ BytesLeft' /\ ops' \subseteq Ops
  <1>1. o.session \in heap
    BY Connected
  <1>2. OneOperation'
    BY <1>1 DEF SessionIInv, SessionInv, OneOperation
  <1>3. \A s : Accept(s) \in ops' <=> Accept(s) \in ops
    BY OpFields
  <1>4. Listening'
    BY <1>3 DEF SessionIInv, SessionInv, Listening
  <1> QED BY <1>2, <1>4 DEF SessionIInv, SessionInv, NoLeak, TypeOK, BytesLeft

(* "delete this" after a read or a write that failed.                       *)
LEMMA Deleted ==
  ASSUME SessionIInv, NEW o \in ops, o.kind # "accept",
         ops' = ops \ {o}, DeleteThis(o.session)
  PROVE  SessionIInv'
  <1> DEFINE s == o.session
  <1>1. s \in heap /\ s \in Sessions /\ peer[s] \in Clients /\ peer[s] # None
    BY Connected
  <1>2. OneOperation'
    BY <1>1 DEF SessionIInv, SessionInv, OneOperation, DeleteThis
  <1>3. PICK u \in heap : /\ Accept(u) \in ops /\ peer[u] = None
                          /\ \A t \in heap \ {u} : peer[t] # None /\ Accept(t) \notin ops
    BY DEF SessionIInv, SessionInv, Listening
  <1>4. u # s /\ Accept(u) # o /\ peer' = [peer EXCEPT ![s] = None] /\ heap' = heap \ {s}
    BY <1>1, <1>3, OpFields DEF DeleteThis
  <1>5. heap \subseteq Sessions /\ peer \in [Sessions -> Clients \cup {None}]
    BY DEF SessionIInv, SessionInv, TypeOK
  <1>6. Listening'
    <2>1. u \in heap' /\ Accept(u) \in ops' /\ peer'[u] = None
      BY <1>3, <1>4, <1>5
    <2>2. \A t \in heap' \ {u} : peer'[t] # None /\ Accept(t) \notin ops'
      BY <1>3, <1>4, <1>5
    <2>3. \A t1, t2 \in heap' : peer'[t1] = peer'[t2] /\ peer'[t1] # None => t1 = t2
      BY <1>4, <1>5 DEF SessionIInv, SessionInv, Listening
    <2> QED BY <2>1, <2>2, <2>3 DEF Listening
  <1>7. NoLeak'
    BY <1>1 DEF SessionIInv, SessionInv, NoLeak, DeleteThis, TypeOK
  <1>8. TypeOK'
    BY <1>1 DEF SessionIInv, SessionInv, TypeOK, DeleteThis
  <1>9. Accepted'
    BY <1>1, <1>5 DEF SessionIInv, SessionInv, Accepted, DeleteThis, TypeOK
  <1>10. BytesLeft'
    BY DEF SessionIInv, BytesLeft
  <1> QED BY <1>2, <1>6, <1>7, <1>8, <1>9, <1>10 DEF SessionIInv, SessionInv

(* start_accept: whatever the handler leaves, provided that each of its     *)
(* Sessions has one operation and a connection, the server listens again.   *)
LEMMA StartAccept ==
  ASSUME SizeAssumption,
         NEW h \in SUBSET Sessions, NEW o \in SUBSET Ops,
         NEW p \in [Sessions -> Clients \cup {None}], NEW l \in [Sessions -> BOOLEAN],
         NEW s \in Sessions \ h,
         heap' = h \cup {s}, ops' = o \cup {Accept(s)}, peer' = p,
         logOpen' = [l EXCEPT ![s] = FdsUsed(p, l) < limit],
         \A q \in o : q.session \in h /\ (q.kind = "write" => q.done < q.size),
         \A t \in h : \E q \in o : q.session = t,
         \A q, r \in o : q.session = r.session => q = r,
         \A t \in h : p[t] # None /\ Accept(t) \notin o,
         \A t, u \in h : p[t] = p[u] => t = u,
         \A t \in Sessions \ h : p[t] = None /\ ~l[t]
  PROVE  /\ OneOperation' /\ Listening' /\ NoLeak' /\ BytesLeft'
         /\ heap' \subseteq Sessions /\ ops' \subseteq Ops /\ peer' = p
         /\ logOpen' \in [Sessions -> BOOLEAN]
  <1>2. OneOperation'
    BY OpFields DEF OneOperation
  <1>3. Listening'
    <2>1. \A t \in h : Accept(t) \notin ops'
      BY OpFields
    <2> QED BY <2>1 DEF Listening
  <1>4. NoLeak' /\ heap' \subseteq Sessions /\ ops' \subseteq Ops
    BY OpFields, SizeAssumption DEF NoLeak, Accept, Op, Ops
  <1>7. BytesLeft'
    BY OpFields DEF BytesLeft
  <1>5. (FdsUsed(p, l) < limit) \in BOOLEAN
    OBVIOUS
  <1>6. logOpen' \in [Sessions -> BOOLEAN]
    BY <1>5
  <1> QED BY <1>2, <1>3, <1>4, <1>6, <1>7
-----------------------------------------------------------------------------
(* The initial state and the steps.                                         *)

LEMMA SessionInit == Init => SessionIInv
  <1> SUFFICES ASSUME Init PROVE SessionIInv
    OBVIOUS
  <1>1. PICK s \in Sessions :
            /\ heap = {s} /\ ops = {Accept(s)}
            /\ logOpen = [t \in Sessions |-> t = s /\ limit > 0]
    BY DEF Init
  <1>2. Accept(s) \in Ops /\ Accept(s).session = s
    BY SizeAssumption, OpFields DEF Accept, Op, Ops
  <1>3. limit \in Nat /\ \A t \in Sessions : (t = s /\ limit > 0) \in BOOLEAN
    BY SizeAssumption DEF Init
  <1>4. TypeOK
    <2>1. \A c \in Clients : taken[c] <= sent[c] /\ sent[c] <= MaxSent[c] /\ logged[c] \in 0 .. taken[c]
      BY SizeAssumption DEF Init
    <2>2. <<>> \in Seq(Nat)
      OBVIOUS
    <2>3. echoed \in [Clients -> Seq(Nat)] /\ data \in [Sessions -> [1 .. MaxLength -> Nat]]
      BY <2>2 DEF Init
    <2>4. heap \subseteq Sessions /\ ops \subseteq Ops /\ logOpen \in [Sessions -> BOOLEAN]
      BY <1>1, <1>2, <1>3
    <2> QED BY <2>1, <2>3, <2>4 DEF Init, TypeOK
  <1>5. OneOperation /\ Listening /\ NoLeak /\ Accepted /\ BytesLeft
    BY <1>1, <1>2, OpFields DEF Init, OneOperation, Listening, NoLeak, Accepted, BytesLeft
  <1> QED BY <1>4, <1>5 DEF SessionIInv, SessionInv

LEMMA HandleAcceptedStep ==
  ASSUME SessionIInv, NEW s \in Sessions, HandleAccepted(s)
  PROVE  SessionIInv'
  <1>1. PICK c \in Clients :
            /\ client[c] = "backlog" /\ client' = [client EXCEPT ![c] = "open"]
            /\ start_accept(heap, (ops \ {Accept(s)}) \cup {Read(s)},
                            [peer EXCEPT ![s] = c], logOpen)
    BY DEF HandleAccepted
  <1> DEFINE o == (ops \ {Accept(s)}) \cup {Read(s)}
             p == [peer EXCEPT ![s] = c]
  <1>2. TypeOK /\ OneOperation /\ NoLeak /\ Accept(s) \in ops
    BY DEF SessionIInv, SessionInv, HandleAccepted
  <1>3. /\ s \in heap /\ peer[s] = None
        /\ \A q \in ops : q # Accept(s) => q.session # s
        /\ \A t \in heap \ {s} : peer[t] # None /\ Accept(t) \notin ops
    BY <1>2, Acceptor
  <1>4. Read(s) \in Ops /\ Read(s).session = s /\ \A t \in Sessions : Accept(t) # Read(s)
    BY SizeAssumption, OpFields DEF Read, Op, Ops
  <1>5. /\ heap \in SUBSET Sessions /\ o \in SUBSET Ops
        /\ p \in [Sessions -> Clients \cup {None}] /\ logOpen \in [Sessions -> BOOLEAN]
    BY <1>2, <1>4 DEF TypeOK
  <1>6. \A t \in Sessions : peer[t] # c
    BY <1>1, SizeAssumption DEF SessionIInv, Accepted
  <1>7. /\ \A q \in o : q.session \in heap /\ (q.kind = "write" => q.done < q.size)
        /\ \A t \in heap : \E q \in o : q.session = t
        /\ \A q, r \in o : q.session = r.session => q = r
    BY <1>2, <1>3, <1>4, OpFields DEF OneOperation, SessionIInv, BytesLeft
  <1>8. \A t \in heap : p[t] # None /\ Accept(t) \notin o
    BY <1>2, <1>3, <1>4, SizeAssumption DEF TypeOK
  <1>9. \A t, u \in heap : p[t] = p[u] => t = u
    BY <1>2, <1>3, <1>6 DEF TypeOK, SessionIInv, SessionInv, Listening
  <1>10. \A t \in Sessions \ heap : p[t] = None /\ ~logOpen[t]
    BY <1>2, <1>3 DEF NoLeak, TypeOK
  <1>11. /\ OneOperation' /\ Listening' /\ NoLeak' /\ BytesLeft'
         /\ heap' \subseteq Sessions /\ ops' \subseteq Ops /\ peer' = p
         /\ logOpen' \in [Sessions -> BOOLEAN]
    <2>1. PICK t \in Sessions \ heap :
              /\ heap' = heap \cup {t} /\ ops' = o \cup {Accept(t)} /\ peer' = p
              /\ logOpen' = [logOpen EXCEPT ![t] = FdsUsed(p, logOpen) < limit]
      BY <1>1 DEF start_accept
    <2> HIDE DEF o, p
    <2> QED BY <2>1, <1>5, <1>7, <1>8, <1>9, <1>10, StartAccept, SizeAssumption
  <1>12. TypeOK'
    BY <1>1, <1>2, <1>5, <1>11 DEF TypeOK, HandleAccepted
  <1>13. Accepted'
    BY <1>1, <1>2, <1>11 DEF Accepted, TypeOK, SessionIInv
  <1> QED BY <1>11, <1>12, <1>13 DEF SessionIInv, SessionInv

LEMMA HandleAcceptErrorStep ==
  ASSUME SessionIInv, NEW s \in Sessions, HandleAcceptError(s)
  PROVE  SessionIInv'
  <1> DEFINE h == heap \ {s}
             o == ops \ {Accept(s)}
             l == [logOpen EXCEPT ![s] = FALSE]
  <1>1. TypeOK /\ OneOperation /\ NoLeak /\ Accept(s) \in ops /\ start_accept(h, o, peer, l)
    BY DEF SessionIInv, SessionInv, HandleAcceptError
  <1>2. /\ s \in heap /\ peer[s] = None
        /\ \A q \in ops : q # Accept(s) => q.session # s
        /\ \A t \in heap \ {s} : peer[t] # None /\ Accept(t) \notin ops
    BY <1>1, Acceptor
  <1>3. /\ h \in SUBSET Sessions /\ o \in SUBSET Ops
        /\ peer \in [Sessions -> Clients \cup {None}] /\ l \in [Sessions -> BOOLEAN]
    BY <1>1 DEF TypeOK
  <1>4. /\ \A q \in o : q.session \in h /\ (q.kind = "write" => q.done < q.size)
        /\ \A t \in h : \E q \in o : q.session = t
        /\ \A q, r \in o : q.session = r.session => q = r
    BY <1>1, <1>2, OpFields DEF OneOperation, SessionIInv, BytesLeft
  <1>5. \A t \in h : peer[t] # None /\ Accept(t) \notin o
    BY <1>2
  <1>6. \A t, u \in h : peer[t] = peer[u] => t = u
    BY <1>2 DEF SessionIInv, SessionInv, Listening
  <1>7. \A t \in Sessions \ h : peer[t] = None /\ ~l[t]
    BY <1>1, <1>2 DEF NoLeak, TypeOK
  <1>8. /\ OneOperation' /\ Listening' /\ NoLeak' /\ BytesLeft'
        /\ heap' \subseteq Sessions /\ ops' \subseteq Ops /\ peer' = peer
        /\ logOpen' \in [Sessions -> BOOLEAN]
    <2>1. PICK t \in Sessions \ h :
              /\ heap' = h \cup {t} /\ ops' = o \cup {Accept(t)} /\ peer' = peer
              /\ logOpen' = [l EXCEPT ![t] = FdsUsed(peer, l) < limit]
      BY <1>1 DEF start_accept
    <2> HIDE DEF h, o, l
    <2> QED BY <2>1, <1>3, <1>4, <1>5, <1>6, <1>7, StartAccept, SizeAssumption
  <1>9. client' \in [Clients -> {"new", "backlog", "aborted", "open", "finished", "gone"}]
        /\ \A c \in Clients : client[c] \in {"open", "finished", "gone"} => client'[c] = client[c]
    BY <1>1 DEF HandleAcceptError, AcceptFails, TypeOK
  <1>10. TypeOK'
    BY <1>1, <1>3, <1>8, <1>9 DEF TypeOK, HandleAcceptError
  <1>11. Accepted'
    BY <1>1, <1>8, <1>9 DEF Accepted, TypeOK, SessionIInv
  <1> QED BY <1>8, <1>10, <1>11 DEF SessionIInv, SessionInv
LEMMA HandleReadStep ==
  ASSUME SessionIInv, NEW s \in Sessions, HandleRead(s)
  PROVE  SessionIInv'
  <1>1. PICK n \in 1 .. MaxLength :
            ReadCompletes(s, n) /\ ops' = (ops \ {Read(s)}) \cup {Write(s, 0, n)}
    BY DEF HandleRead
  <1>2. Read(s) \in ops /\ Read(s).kind = "read" /\ Read(s).session = s
    BY <1>1, OpFields DEF ReadCompletes
  <1>3. s \in heap /\ peer[s] \in Clients
    BY <1>2, Connected
  <1>4. /\ Write(s, 0, n) \in Ops /\ Write(s, 0, n).session = s
        /\ Write(s, 0, n).kind = "write" /\ Write(s, 0, n).done < Write(s, 0, n).size
    BY SizeAssumption, OpFields DEF Write, Op, Ops
  <1>5. UNCHANGED <<limit, heap, peer, logOpen, client, sent, echoed>>
    BY DEF HandleRead
  <1>6. OneOperation' /\ Listening' /\ NoLeak' /\ BytesLeft' /\ ops' \subseteq Ops
    BY <1>1, <1>2, <1>4, <1>5, Replaced
  <1>7. /\ taken' \in [Clients -> Nat] /\ logged' \in [Clients -> Nat]
        /\ \A c \in Clients : taken'[c] <= sent[c] /\ logged'[c] \in 0 .. taken'[c]
    <2>1. TypeOK /\ n \in Nat /\ n <= sent[peer[s]] - taken[peer[s]]
      BY <1>1, SizeAssumption DEF SessionIInv, SessionInv, ReadCompletes
    <2>2. /\ taken' = [taken EXCEPT ![peer[s]] = taken[peer[s]] + n]
          /\ logged' = [logged EXCEPT ![peer[s]] = IF logOpen[s] THEN logged[peer[s]] + n
                                                   ELSE logged[peer[s]]]
      BY <1>1 DEF ReadCompletes
    <2>3. /\ taken' \in [Clients -> Nat] /\ logged' \in [Clients -> Nat]
          /\ taken'[peer[s]] = taken[peer[s]] + n
          /\ \A c \in Clients \ {peer[s]} : taken'[c] = taken[c] /\ logged'[c] = logged[c]
      BY <1>3, <2>1, <2>2 DEF TypeOK
    <2>4. logged'[peer[s]] \in 0 .. taken'[peer[s]] /\ taken'[peer[s]] <= sent[peer[s]]
      BY <1>3, <2>1, <2>2, <2>3 DEF TypeOK
    <2> QED BY <2>1, <2>3, <2>4 DEF TypeOK
  <1>8. data' \in [Sessions -> [1 .. MaxLength -> Nat]]
    <2>1. Stored(s, n) \in [1 .. MaxLength -> Nat]
      BY <1>2, <1>3, SizeAssumption DEF Stored, SessionIInv, SessionInv, TypeOK
    <2> QED BY <2>1, <1>1 DEF ReadCompletes, SessionIInv, SessionInv, TypeOK
  <1>9. TypeOK'
    BY <1>5, <1>6, <1>7, <1>8 DEF SessionIInv, SessionInv, TypeOK
  <1>10. Accepted'
    BY <1>5 DEF SessionIInv, Accepted
  <1> QED BY <1>6, <1>9, <1>10 DEF SessionIInv, SessionInv

\* What a write puts in echoed.
LEMMA WrittenType ==
  ASSUME SessionIInv, NEW o \in ops, o.kind = "write", NEW n \in Nat,
         n <= o.size - o.done, Written(o, n)
  PROVE  echoed' \in [Clients -> Seq(Nat)]
  <1>1. /\ o.session \in Sessions /\ o.done \in Nat /\ o.size \in Nat
        /\ o.size <= MaxLength /\ MaxLength \in Nat
    BY SizeAssumption DEF SessionIInv, SessionInv, TypeOK, Ops
  <1> DEFINE bytes == [i \in 1 .. n |-> data[o.session][o.done + i]]
  <1>2. \A i \in 1 .. n : o.done + i \in 1 .. MaxLength
    BY <1>1
  <1>3. data[o.session] \in [1 .. MaxLength -> Nat]
    BY <1>1 DEF SessionIInv, SessionInv, TypeOK
  <1>4. bytes \in Seq(Nat)
    <2>1. \A i \in 1 .. n : data[o.session][o.done + i] \in Nat
      BY <1>2, <1>3
    <2> QED BY <2>1
  <1>5. \A c \in Clients : echoed[c] \in Seq(Nat) /\ echoed[c] \o bytes \in Seq(Nat)
    BY <1>4 DEF SessionIInv, SessionInv, TypeOK
  <1> QED BY <1>5 DEF Written, SessionIInv, SessionInv, TypeOK

LEMMA WriteSomeStep ==
  ASSUME SessionIInv, NEW o \in ops, WriteSome(o)
  PROVE  SessionIInv'
  <1>1. PICK n \in 1 .. o.size - o.done - 1 :
            /\ Written(o, n)
            /\ ops' = (ops \ {o}) \cup {Write(o.session, o.done + n, o.size)}
    BY DEF WriteSome
  <1> DEFINE q == Write(o.session, o.done + n, o.size)
  <1>2. /\ o.kind = "write" /\ o.session \in Sessions /\ o.done \in 0 .. MaxLength
        /\ o.size \in 0 .. MaxLength /\ MaxLength \in Nat
    BY SizeAssumption DEF WriteSome, SessionIInv, SessionInv, TypeOK, Ops
  <1>3. o.done + n \in 0 .. MaxLength
    BY <1>2
  <1>4. q \in Ops /\ q.session = o.session /\ q.kind = "write" /\ q.done < q.size
    BY <1>2, <1>3, OpFields
  <1>5. UNCHANGED <<limit, heap, peer, logOpen, data, client, sent, taken, logged>>
    BY DEF WriteSome
  <1>6. OneOperation' /\ Listening' /\ NoLeak' /\ BytesLeft' /\ ops' \subseteq Ops
    <2> HIDE DEF q
    <2> QED BY <1>1, <1>2, <1>4, <1>5, Replaced DEF q
  <1>7. echoed' \in [Clients -> Seq(Nat)]
    BY <1>1, <1>2, WrittenType
  <1>8. TypeOK' /\ Accepted'
    BY <1>5, <1>6, <1>7 DEF SessionIInv, SessionInv, TypeOK, Accepted
  <1> QED BY <1>6, <1>8 DEF SessionIInv, SessionInv

LEMMA HandleWriteStep ==
  ASSUME SessionIInv, NEW o \in ops, HandleWrite(o)
  PROVE  SessionIInv'
  <1>1. /\ o.kind = "write" /\ o.session \in Sessions /\ o.done \in Nat /\ o.size \in Nat
        /\ o.done < o.size
    BY SizeAssumption DEF HandleWrite, SessionIInv, SessionInv, TypeOK, Ops, BytesLeft
  <1>2. /\ Written(o, o.size - o.done) /\ ops' = (ops \ {o}) \cup {Read(o.session)}
        /\ UNCHANGED <<limit, heap, peer, logOpen, data, client, sent, taken, logged>>
    BY DEF HandleWrite
  <1>3. /\ Read(o.session) \in Ops /\ Read(o.session).session = o.session
        /\ Read(o.session).kind = "read"
    BY <1>1, OpFields, SizeAssumption
  <1>4. OneOperation' /\ Listening' /\ NoLeak' /\ BytesLeft' /\ ops' \subseteq Ops
    BY <1>1, <1>2, <1>3, Replaced
  <1>5. o.size - o.done \in Nat /\ o.size - o.done <= o.size - o.done
    BY <1>1
  <1>6. echoed' \in [Clients -> Seq(Nat)]
    BY <1>1, <1>2, <1>5, WrittenType
  <1>7. TypeOK' /\ Accepted'
    BY <1>2, <1>4, <1>6 DEF SessionIInv, SessionInv, TypeOK, Accepted
  <1> QED BY <1>4, <1>7 DEF SessionIInv, SessionInv

LEMMA FailedStep ==
  ASSUME SessionIInv, \/ \E s \in Sessions : HandleReadError(s)
                      \/ \E o \in ops : HandleWriteError(o)
  PROVE  SessionIInv'
  <1>1. ASSUME NEW s \in Sessions, HandleReadError(s) PROVE SessionIInv'
    <2>1. /\ Read(s) \in ops /\ Read(s).kind # "accept" /\ Read(s).session = s
          /\ ops' = ops \ {Read(s)} /\ DeleteThis(s)
      BY <1>1, OpFields DEF HandleReadError
    <2>2. DeleteThis(Read(s).session)
      BY <2>1
    <2> QED BY <2>1, <2>2, Deleted
  <1>2. ASSUME NEW o \in ops, HandleWriteError(o) PROVE SessionIInv'
    BY <1>2, Deleted DEF HandleWriteError
  <1> QED BY <1>1, <1>2

LEMMA ClientStep ==
  ASSUME SessionIInv, NEW c \in Clients, Connect(c) \/ Send(c) \/ Finish(c) \/ Leave(c)
  PROVE  SessionIInv'
  <1>1. UNCHANGED <<limit, heap, ops, peer, logOpen, data, taken, echoed, logged>>
    BY DEF Connect, Send, Finish, Leave, session
  <1>2. OneOperation' /\ Listening' /\ NoLeak' /\ BytesLeft'
    BY <1>1 DEF SessionIInv, SessionInv, OneOperation, Listening, NoLeak, BytesLeft
  <1>3. TypeOK'
    <2>1. /\ sent' \in [Clients -> Nat]
          /\ \A d \in Clients : taken[d] <= sent'[d] /\ sent'[d] <= MaxSent[d]
      <3>1. CASE UNCHANGED sent
        BY <3>1 DEF SessionIInv, SessionInv, TypeOK
      <3>2. CASE Send(c)
        <4>1. /\ TypeOK /\ sent[c] < MaxSent[c] /\ sent' = [sent EXCEPT ![c] = sent[c] + 1]
          BY <3>2 DEF SessionIInv, SessionInv, Send
        <4>2. sent' \in [Clients -> Nat] /\ sent'[c] = sent[c] + 1 /\ \A d \in Clients : d # c => sent'[d] = sent[d]
          BY <4>1 DEF TypeOK
        <4>3. taken[c] <= sent'[c] /\ sent'[c] <= MaxSent[c]
          <5>1. MaxSent[c] \in Nat /\ sent[c] \in Nat /\ taken[c] \in Nat /\ taken[c] <= sent[c]
            BY <4>1, SizeAssumption DEF TypeOK
          <5> QED BY <4>1, <4>2, <5>1
        <4> QED BY <4>1, <4>2, <4>3 DEF TypeOK
      <3> QED BY <3>1, <3>2 DEF Connect, Finish, Leave
    <2>2. client' \in [Clients -> {"new", "backlog", "aborted", "open", "finished", "gone"}]
      BY DEF SessionIInv, SessionInv, TypeOK, Connect, Send, Finish, Leave
    <2> QED BY <1>1, <2>1, <2>2 DEF SessionIInv, SessionInv, TypeOK
  <1>4. Accepted'
    BY <1>1 DEF SessionIInv, SessionInv, TypeOK, Accepted, Connect, Send, Finish, Leave
  <1> QED BY <1>2, <1>3, <1>4 DEF SessionIInv, SessionInv

LEMMA SessionNext == SessionIInv /\ [Next]_vars => SessionIInv'
  <1> SUFFICES ASSUME SessionIInv, [Next]_vars PROVE SessionIInv'
    OBVIOUS
  <1>1. CASE ServerStep
    BY <1>1, HandleAcceptedStep, HandleAcceptErrorStep, HandleReadStep, WriteSomeStep,
       HandleWriteStep, FailedStep DEF ServerStep
  <1>2. CASE \E c \in Clients : Connect(c) \/ Send(c) \/ Finish(c) \/ Leave(c)
    BY <1>2, ClientStep
  <1>3. CASE UNCHANGED vars
    BY <1>3 DEF vars, session, SessionIInv, SessionInv, TypeOK, OneOperation, Listening,
       NoLeak, Accepted, BytesLeft
  <1> QED BY <1>1, <1>2, <1>3 DEF Next

(* The life of the Sessions, for any number of clients and any limit on the *)
(* descriptors: no handler runs on a deleted Session, none is forgotten,    *)
(* one is always at accept, and a descriptor that is in use is a living     *)
(* Session's.  ("delete this", handle_accept, ~Session.)                    *)
THEOREM SessionCorrect == Spec => []SessionInv
  <1>1. Spec => []SessionIInv
    BY SessionInit, SessionNext, PTL DEF Spec
  <1>2. SessionIInv => SessionInv
    BY DEF SessionIInv
  <1> QED BY <1>1, <1>2, PTL
-----------------------------------------------------------------------------
(* The echo.                                                                *)

\* Nothing has happened on a connection that is not accepted.
Fresh ==
    \A c \in Clients : client[c] \in {"new", "backlog", "aborted"} =>
        echoed[c] = <<>> /\ taken[c] = 0 /\ logged[c] = 0

\* n bytes have been written to c, and it has them unless it went.
Echoed(c, n) == Len(echoed[c]) <= n /\ (client[c] = "gone" \/ Len(echoed[c]) = n)

\* While a Session reads, all that it took is echoed; while it writes, data_
\* holds the last bytes it took and those before done are echoed.
InStep(o) ==
    LET c == peer[o.session]
    IN  /\ o.kind = "accept" => c = None
        /\ o.kind = "read" => Echoed(c, taken[c])
        /\ o.kind = "write" =>
              /\ o.size <= taken[c] /\ Echoed(c, taken[c] - o.size + o.done)
              /\ \A i \in 1 .. o.size : data[o.session][i] = taken[c] - o.size + i

LogsAll == \A s \in heap : peer[s] # None /\ logOpen[s] => logged[peer[s]] = taken[peer[s]]

\* What EchoInOrder needs to be inductive.
EchoIInv == EchoIsInput /\ Fresh /\ LogsAll /\ \A o \in ops : InStep(o)

LEMMA EchoImplies == SessionIInv /\ EchoIInv => EchoInOrder
  <1> SUFFICES ASSUME SessionIInv, EchoIInv, NEW s \in heap, peer[s] # None, logOpen[s]
               PROVE  Len(echoed[peer[s]]) <= taken[peer[s]]
    BY DEF EchoInOrder, LoggedFirst, EchoIInv, LogsAll
  <1>1. PICK o \in ops : o.session = s
    BY DEF SessionIInv, SessionInv, OneOperation
  <1>2. /\ o.kind \in {"read", "write"} /\ InStep(o)
        /\ o.size \in Nat /\ o.done \in Nat
        /\ o.kind = "write" => o.done < o.size
    BY <1>1, SizeAssumption DEF SessionIInv, SessionInv, TypeOK, Ops, BytesLeft, EchoIInv, InStep
  <1>3. taken[peer[s]] \in Nat /\ Len(echoed[peer[s]]) \in Nat
    BY DEF SessionIInv, SessionInv, TypeOK
  <1>4. CASE o.kind = "read"
    BY <1>1, <1>2, <1>4 DEF InStep, Echoed
  <1>5. CASE o.kind = "write"
    BY <1>1, <1>2, <1>3, <1>5 DEF InStep, Echoed
  <1> QED BY <1>2, <1>4, <1>5

LEMMA EchoInit == Init => EchoIInv
  <1> SUFFICES ASSUME Init PROVE EchoIInv
    OBVIOUS
  <1>1. EchoIsInput /\ Fresh /\ LogsAll
    BY DEF Init, EchoIsInput, Fresh, LogsAll
  <1>2. \A o \in ops : o.kind = "accept" /\ o.session \in Sessions
    BY OpFields DEF Init
  <1>3. \A o \in ops : InStep(o)
    BY <1>2 DEF Init, InStep
  <1> QED BY <1>1, <1>3 DEF EchoIInv

(* A pending operation keeps in step when its connection is not touched,    *)
(* except that the client may go.                                           *)
LEMMA Untouched ==
  ASSUME SessionIInv, NEW o \in ops, InStep(o),
         peer'[o.session] = peer[o.session],
         peer[o.session] # None =>
            /\ data'[o.session] = data[o.session]
            /\ taken'[peer[o.session]] = taken[peer[o.session]]
            /\ echoed'[peer[o.session]] = echoed[peer[o.session]]
            /\ client[peer[o.session]] = "gone" => client'[peer[o.session]] = "gone"
  PROVE  InStep(o)'
  <1>1. CASE o.kind = "accept"
    BY <1>1 DEF InStep
  <1>2. CASE o.kind # "accept"
    <2>1. peer[o.session] # None
      BY <1>2, Connected
    <2> QED BY <1>2, <2>1 DEF InStep, Echoed
  <1> QED BY <1>1, <1>2

LEMMA Distinct ==
  ASSUME SessionIInv, NEW o \in ops, NEW q \in ops, o # q, o.kind # "accept"
  PROVE  o.session # q.session /\ peer[o.session] # peer[q.session]
  <1>1. o.session # q.session /\ q.session \in heap
    BY DEF SessionIInv, SessionInv, OneOperation
  <1>2. o.session \in heap /\ peer[o.session] # None
    BY Connected
  <1> QED BY <1>1, <1>2 DEF SessionIInv, SessionInv, Listening

LEMMA EchoAccepted ==
  ASSUME SessionIInv, EchoIInv, NEW s \in Sessions, HandleAccepted(s)
  PROVE  EchoIInv'
  <1>1. PICK c \in Clients :
            /\ client[c] = "backlog" /\ client' = [client EXCEPT ![c] = "open"]
            /\ start_accept(heap, (ops \ {Accept(s)}) \cup {Read(s)},
                            [peer EXCEPT ![s] = c], logOpen)
    BY DEF HandleAccepted
  <1>2. PICK t \in Sessions \ heap :
            /\ heap' = heap \cup {t}
            /\ ops' = ((ops \ {Accept(s)}) \cup {Read(s)}) \cup {Accept(t)}
            /\ peer' = [peer EXCEPT ![s] = c]
            /\ logOpen' = [logOpen EXCEPT ![t] = FdsUsed([peer EXCEPT ![s] = c], logOpen) < limit]
    BY <1>1 DEF start_accept
  <1>3. /\ TypeOK /\ Accept(s) \in ops /\ c # None
        /\ UNCHANGED <<limit, data, sent, taken, echoed, logged>>
    BY SizeAssumption DEF SessionIInv, SessionInv, HandleAccepted
  <1>4. s \in heap /\ peer[s] = None /\ \A o \in ops : o # Accept(s) => o.session # s
    BY <1>3, Acceptor
  <1>5. t # s /\ peer'[s] = c /\ peer'[t] = None /\ \A u \in Sessions : u # s => peer'[u] = peer[u]
    BY <1>2, <1>3, <1>4 DEF TypeOK, SessionIInv, SessionInv, NoLeak
  <1>6. \A u \in Sessions : peer[u] # c
    BY <1>1, <1>3 DEF SessionIInv, Accepted
  <1>7. echoed[c] = <<>> /\ taken[c] = 0 /\ logged[c] = 0
    BY <1>1 DEF EchoIInv, Fresh
  <1>8. ASSUME NEW o \in ops \ {Accept(s)} PROVE InStep(o)'
    <2>1. o.session \in Sessions /\ o.session # s /\ InStep(o)
      BY <1>4 DEF SessionIInv, SessionInv, TypeOK, Ops, EchoIInv
    <2>2. peer[o.session] # None => client'[peer[o.session]] = client[peer[o.session]]
      BY <1>1, <1>3, <1>6, <2>1 DEF TypeOK
    <2> QED BY <1>3, <1>5, <2>1, <2>2, Untouched
  <1>9. InStep(Read(s))'
    BY <1>3, <1>5, <1>7, OpFields DEF InStep, Echoed
  <1>10. InStep(Accept(t))'
    BY <1>5, OpFields DEF InStep
  <1>11. \A o \in ops' : InStep(o)'
    BY <1>2, <1>8, <1>9, <1>10
  <1>12. EchoIsInput' /\ Fresh'
    BY <1>1, <1>3 DEF EchoIInv, EchoIsInput, Fresh, TypeOK
  <1>13. LogsAll'
    <2>1. ASSUME NEW u \in heap', peer'[u] # None, logOpen'[u]
          PROVE  logged[peer'[u]] = taken[peer'[u]]
      <3>1. CASE u = s
        BY <3>1, <1>5, <1>7
      <3>2. CASE u # s
        <4>1. u \in heap /\ u \in Sessions /\ peer[u] # None /\ logOpen[u] /\ peer'[u] = peer[u]
          BY <1>2, <1>3, <1>5, <2>1, <3>2 DEF TypeOK
        <4> QED BY <4>1 DEF EchoIInv, LogsAll
      <3> QED BY <3>1, <3>2
    <2> QED BY <1>3, <2>1 DEF LogsAll
  <1> QED BY <1>11, <1>12, <1>13 DEF EchoIInv

LEMMA EchoAcceptError ==
  ASSUME SessionIInv, EchoIInv, NEW s \in Sessions, HandleAcceptError(s)
  PROVE  EchoIInv'
  <1>1. PICK t \in Sessions \ (heap \ {s}) :
            /\ heap' = (heap \ {s}) \cup {t}
            /\ ops' = (ops \ {Accept(s)}) \cup {Accept(t)}
            /\ peer' = peer
            /\ logOpen' = [[logOpen EXCEPT ![s] = FALSE] EXCEPT
                             ![t] = FdsUsed(peer, [logOpen EXCEPT ![s] = FALSE]) < limit]
    BY DEF HandleAcceptError, start_accept
  <1>2. /\ TypeOK /\ Accept(s) \in ops /\ AcceptFails
        /\ UNCHANGED <<limit, data, sent, taken, echoed, logged>>
    BY DEF SessionIInv, SessionInv, HandleAcceptError
  <1>3. s \in heap /\ peer[s] = None /\ peer[t] = None
    BY <1>2, Acceptor DEF SessionIInv, SessionInv, NoLeak
  <1>4. \A c \in Clients : /\ client[c] \in {"open", "finished", "gone"} => client'[c] = client[c]
                           /\ client'[c] \in {"new", "backlog", "aborted"} => client'[c] = client[c]
    BY <1>2 DEF AcceptFails, TypeOK
  <1>5. ASSUME NEW o \in ops \ {Accept(s)} PROVE InStep(o)'
    <2>1. o.session \in Sessions /\ InStep(o)
      BY DEF SessionIInv, SessionInv, TypeOK, Ops, EchoIInv
    <2>2. peer[o.session] # None => client'[peer[o.session]] = client[peer[o.session]]
      BY <1>2, <1>4, <2>1 DEF TypeOK, SessionIInv, Accepted
    <2> QED BY <1>1, <1>2, <2>1, <2>2, Untouched
  <1>6. InStep(Accept(t))'
    BY <1>1, <1>3, OpFields DEF InStep
  <1>7. EchoIsInput' /\ Fresh'
    BY <1>2, <1>4 DEF EchoIInv, EchoIsInput, Fresh
  <1>8. LogsAll'
    BY <1>1, <1>2, <1>3 DEF EchoIInv, LogsAll, TypeOK
  <1> QED BY <1>1, <1>5, <1>6, <1>7, <1>8 DEF EchoIInv

LEMMA EchoRead ==
  ASSUME SessionIInv, EchoIInv, NEW s \in Sessions, HandleRead(s)
  PROVE  EchoIInv'
  <1> DEFINE c == peer[s]
  <1>1. PICK n \in 1 .. MaxLength :
            ReadCompletes(s, n) /\ ops' = (ops \ {Read(s)}) \cup {Write(s, 0, n)}
    BY DEF HandleRead
  <1>2. /\ TypeOK /\ UNCHANGED <<limit, heap, peer, logOpen, client, sent, echoed>>
        /\ n \in Nat /\ MaxLength \in Nat /\ n <= MaxLength
    BY SizeAssumption DEF SessionIInv, SessionInv, HandleRead
  <1>3. Read(s) \in ops /\ Read(s).kind = "read" /\ Read(s).session = s
    BY <1>1, OpFields DEF ReadCompletes
  <1>4. s \in heap /\ c \in Clients /\ c # None
    BY <1>3, Connected
  <1>5. taken[c] \in Nat /\ logged[c] \in Nat /\ Echoed(c, taken[c])
    BY <1>2, <1>3, <1>4 DEF TypeOK, EchoIInv, InStep
  <1>6. /\ taken' = [taken EXCEPT ![c] = taken[c] + n]
        /\ logged' = [logged EXCEPT ![c] = IF logOpen[s] THEN logged[c] + n ELSE logged[c]]
        /\ data' = [data EXCEPT ![s] = Stored(s, n)]
    BY <1>1 DEF ReadCompletes
  <1>7. /\ taken'[c] = taken[c] + n /\ data'[s] = Stored(s, n)
        /\ logOpen[s] => logged'[c] = logged[c] + n
    BY <1>2, <1>4, <1>6 DEF TypeOK
  <1>8. InStep(Write(s, 0, n))'
    <2>1. /\ Write(s, 0, n).kind = "write" /\ Write(s, 0, n).session = s
          /\ Write(s, 0, n).done = 0 /\ Write(s, 0, n).size = n
      BY OpFields
    <2>2. \A i \in 1 .. n : data'[s][i] = taken'[c] - n + i
      BY <1>2, <1>5, <1>7 DEF Stored
    <2>3. n <= taken'[c] /\ taken'[c] - n + 0 = taken[c]
      BY <1>2, <1>5, <1>7
    <2>4. /\ Len(echoed'[c]) <= taken'[c] - n + 0
          /\ client'[c] = "gone" \/ Len(echoed'[c]) = taken'[c] - n + 0
      BY <1>2, <1>5, <2>3 DEF Echoed
    <2> QED BY <1>2, <2>1, <2>2, <2>3, <2>4 DEF InStep, Echoed
  <1>9. ASSUME NEW o \in ops \ {Read(s)} PROVE InStep(o)'
    <2>1. o.session \in Sessions /\ InStep(o) /\ o.session # s /\ peer[o.session] # c
      BY <1>3, Distinct DEF SessionIInv, SessionInv, TypeOK, Ops, EchoIInv
    <2>2. peer[o.session] # None =>
            data'[o.session] = data[o.session] /\ taken'[peer[o.session]] = taken[peer[o.session]]
      BY <1>2, <1>6, <2>1 DEF TypeOK
    <2> QED BY <1>2, <2>1, <2>2, Untouched
  <1>10. EchoIsInput'
    BY <1>2 DEF EchoIInv, EchoIsInput
  <1>11. Fresh'
    <2>1. client[c] \in {"open", "finished", "gone"}
      BY <1>2, <1>4 DEF SessionIInv, Accepted, TypeOK
    <2> QED BY <1>2, <1>6, <2>1 DEF EchoIInv, Fresh, TypeOK
  <1>12. LogsAll'
    <2>1. ASSUME NEW u \in heap, peer[u] # None, logOpen[u]
          PROVE  logged'[peer[u]] = taken'[peer[u]]
      <3>1. CASE u = s
        BY <3>1, <1>4, <1>7, <2>1 DEF EchoIInv, LogsAll
      <3>2. CASE u # s
        <4>1. peer[u] # c /\ peer[u] \in Clients
          BY <1>2, <1>4, <2>1, <3>2 DEF SessionIInv, SessionInv, Listening, TypeOK
        <4> QED BY <4>1, <1>2, <1>6, <2>1 DEF EchoIInv, LogsAll, TypeOK
      <3> QED BY <3>1, <3>2
    <2> QED BY <1>2, <2>1 DEF LogsAll
  <1> QED BY <1>1, <1>8, <1>9, <1>10, <1>11, <1>12 DEF EchoIInv

LEMMA Concatenation ==
  ASSUME NEW s \in Seq(Nat), NEW t \in Seq(Nat)
  PROVE  /\ Len(s) \in Nat /\ DOMAIN s = 1 .. Len(s)
         /\ Len(s \o t) = Len(s) + Len(t) /\ DOMAIN (s \o t) = 1 .. Len(s) + Len(t)
         /\ \A i \in 1 .. Len(s) + Len(t) :
               (s \o t)[i] = IF i <= Len(s) THEN s[i] ELSE t[i - Len(s)]
  OBVIOUS

\* n bytes more of a write reach the client, and it stays in step.
LEMMA EchoWritten ==
  ASSUME SessionIInv, EchoIInv, NEW o \in ops, o.kind = "write", NEW n \in Nat,
         n <= o.size - o.done, Written(o, n), NEW q, q.session = o.session,
         \/ q.kind = "read" /\ n = o.size - o.done
         \/ q.kind = "write" /\ q.done = o.done + n /\ q.size = o.size,
         ops' = (ops \ {o}) \cup {q},
         UNCHANGED <<limit, heap, peer, logOpen, data, client, sent, taken, logged>>
  PROVE  EchoIInv'
  <1> DEFINE s == o.session
             c == peer[s]
             bytes == [i \in 1 .. n |-> data[s][o.done + i]]
  <1>1. s \in Sessions /\ c \in Clients /\ c # None /\ TypeOK
    BY Connected DEF SessionIInv, SessionInv
  <1>2. o.size \in Nat /\ o.done \in Nat /\ taken[c] \in Nat /\ echoed[c] \in Seq(Nat)
    BY <1>1, SizeAssumption DEF TypeOK, Ops
  <1>3. /\ o.size <= taken[c] /\ Echoed(c, taken[c] - o.size + o.done)
        /\ \A i \in 1 .. o.size : data[s][i] = taken[c] - o.size + i
    BY DEF EchoIInv, InStep
  <1>4. ASSUME NEW i \in 1 .. n
        PROVE  bytes[i] = taken[c] - o.size + o.done + i /\ bytes[i] \in Nat
    <2>1. o.done + i \in 1 .. o.size
      BY <1>2
    <2>2. data[s][o.done + i] = taken[c] - o.size + (o.done + i)
      BY <1>3, <2>1
    <2>3. bytes[i] = data[s][o.done + i]
      OBVIOUS
    <2>4. taken[c] - o.size \in Nat /\ i \in Nat
      BY <1>2, <1>3
    <2> HIDE DEF bytes
    <2> QED BY <1>2, <2>2, <2>3, <2>4
  <1>5. bytes \in Seq(Nat) /\ Len(bytes) = n
    <2>1. \A i \in 1 .. n : data[s][o.done + i] \in Nat
      BY <1>4
    <2> QED BY <2>1
  <1>6. /\ echoed' \in [Clients -> Seq(Nat)]
        /\ \A d \in Clients : d # c => echoed'[d] = echoed[d]
        /\ client[c] = "gone" => echoed'[c] = echoed[c]
        /\ client[c] # "gone" => echoed'[c] = echoed[c] \o bytes
    <2>1. echoed' \in [Clients -> Seq(Nat)]
      BY WrittenType
    <2> HIDE DEF bytes
    <2>2. echoed' = [echoed EXCEPT ![c] = IF client[c] = "gone" THEN echoed[c]
                                          ELSE echoed[c] \o bytes]
      BY DEF Written, bytes
    <2> QED BY <1>1, <2>1, <2>2 DEF TypeOK
  <1>7. Echoed(c, taken[c] - o.size + o.done + n)'
    <2> HIDE DEF bytes
    <2>1. CASE client[c] = "gone"
      BY <1>2, <1>3, <1>6, <2>1 DEF Echoed
    <2>2. CASE client[c] # "gone"
      <3>1. Len(echoed[c]) = taken[c] - o.size + o.done
        BY <1>3, <2>2 DEF Echoed
      <3>2. Len(echoed'[c]) = Len(echoed[c]) + n
        BY <1>2, <1>5, <1>6, <2>2, Concatenation
      <3> QED BY <1>2, <3>1, <3>2 DEF Echoed
    <2> QED BY <2>1, <2>2
  <1>8. \A i \in DOMAIN echoed'[c] : echoed'[c][i] = i
    <2>1. \A i \in DOMAIN echoed[c] : echoed[c][i] = i
      BY <1>1 DEF EchoIInv, EchoIsInput
    <2>2. CASE client[c] = "gone"
      BY <1>6, <2>1, <2>2
    <2>3. CASE client[c] # "gone"
      <3>1. Len(echoed[c]) = taken[c] - o.size + o.done
        BY <1>3, <2>3 DEF Echoed
      <3>2. ASSUME NEW i \in 1 .. Len(echoed[c]) + n
            PROVE  (echoed[c] \o bytes)[i] = i
        <4> HIDE DEF bytes
        <4>1. CASE i <= Len(echoed[c])
          <5>1. i \in DOMAIN echoed[c] /\ (echoed[c] \o bytes)[i] = echoed[c][i]
            BY <1>2, <1>5, <4>1, Concatenation
          <5> QED BY <2>1, <5>1
        <4>2. CASE i > Len(echoed[c])
          <5>1. i - Len(echoed[c]) \in 1 .. n
            BY <1>2, <4>2
          <5>2. (echoed[c] \o bytes)[i] = bytes[i - Len(echoed[c])]
            BY <1>2, <1>5, <4>2, Concatenation
          <5>3. bytes[i - Len(echoed[c])] = taken[c] - o.size + o.done + (i - Len(echoed[c]))
            BY <1>4, <5>1
          <5> QED BY <1>2, <3>1, <5>2, <5>3
        <4>3. i <= Len(echoed[c]) \/ i > Len(echoed[c])
          BY <1>2
        <4> QED BY <4>1, <4>2, <4>3
      <3>3. DOMAIN (echoed[c] \o bytes) = 1 .. Len(echoed[c]) + n
        <4> HIDE DEF bytes
        <4> QED BY <1>2, <1>5, Concatenation
      <3> HIDE DEF bytes
      <3> QED BY <1>6, <2>3, <3>2, <3>3
    <2> QED BY <2>2, <2>3
  <1>9. EchoIsInput'
    BY <1>1, <1>6, <1>8 DEF EchoIInv, EchoIsInput
  <1>10. InStep(q)'
    <2>1. CASE q.kind = "read" /\ n = o.size - o.done
      <3>1. taken[c] - o.size + o.done + n = taken[c]
        BY <1>2, <2>1
      <3> QED BY <1>7, <2>1, <3>1 DEF InStep
    <2>2. CASE q.kind = "write" /\ q.done = o.done + n /\ q.size = o.size
      <3>1. taken[c] - o.size + o.done + n = taken[c] - o.size + (o.done + n)
        BY <1>2
      <3> QED BY <1>3, <1>7, <2>2, <3>1 DEF InStep
    <2> QED BY <2>1, <2>2
  <1>11. ASSUME NEW r \in ops \ {o} PROVE InStep(r)'
    <2>1. InStep(r) /\ r.session # s /\ peer[r.session] # c /\ r.session \in Sessions
      BY <1>1, Distinct DEF EchoIInv, TypeOK, Ops
    <2>2. peer[r.session] # None => echoed'[peer[r.session]] = echoed[peer[r.session]]
      BY <1>1, <1>6, <2>1 DEF TypeOK
    <2> QED BY <2>1, <2>2, Untouched
  <1>12. Fresh'
    <2>1. client[c] \in {"open", "finished", "gone"}
      BY <1>1 DEF SessionIInv, Accepted
    <2> QED BY <1>6, <2>1 DEF EchoIInv, Fresh
  <1>13. LogsAll'
    BY DEF EchoIInv, LogsAll
  <1> QED BY <1>9, <1>10, <1>11, <1>12, <1>13 DEF EchoIInv

LEMMA EchoDeleted ==
  ASSUME SessionIInv, EchoIInv, NEW o \in ops, o.kind # "accept",
         ops' = ops \ {o}, DeleteThis(o.session)
  PROVE  EchoIInv'
  <1>1. /\ TypeOK /\ o.session \in Sessions
        /\ peer[o.session] \in Clients /\ peer[o.session] # None
    BY Connected DEF SessionIInv, SessionInv
  <1>2. ASSUME NEW r \in ops' PROVE InStep(r)'
    <2>1. InStep(r) /\ r.session # o.session /\ r.session \in Sessions
          /\ peer[r.session] # peer[o.session]
      BY <1>1, Distinct DEF EchoIInv, TypeOK, Ops
    <2>2. /\ peer'[r.session] = peer[r.session]
          /\ peer[r.session] # None => client'[peer[r.session]] = client[peer[r.session]]
      BY <1>1, <2>1 DEF DeleteThis, TypeOK
    <2> QED BY <2>1, <2>2, Untouched DEF DeleteThis
  <1>3. EchoIsInput' /\ Fresh'
    BY <1>1 DEF EchoIInv, EchoIsInput, Fresh, DeleteThis, TypeOK
  <1>4. LogsAll'
    BY <1>1 DEF EchoIInv, LogsAll, DeleteThis, TypeOK
  <1> QED BY <1>2, <1>3, <1>4 DEF EchoIInv

LEMMA EchoClient ==
  ASSUME SessionIInv, EchoIInv, NEW c \in Clients, Connect(c) \/ Send(c) \/ Finish(c) \/ Leave(c)
  PROVE  EchoIInv'
  <1>1. TypeOK /\ UNCHANGED <<limit, heap, ops, peer, logOpen, data, taken, echoed, logged>>
    BY DEF SessionIInv, SessionInv, Connect, Send, Finish, Leave, session
  <1>2. \A d \in Clients : /\ client[d] = "gone" => client'[d] = "gone"
                           /\ client'[d] \in {"new", "backlog", "aborted"} =>
                                 client[d] \in {"new", "backlog", "aborted"}
    BY <1>1 DEF Connect, Send, Finish, Leave, TypeOK
  <1>3. ASSUME NEW o \in ops PROVE InStep(o)'
    <2>1. o.session \in Sessions /\ InStep(o)
      BY <1>1 DEF TypeOK, Ops, EchoIInv
    <2>2. peer[o.session] # None => peer[o.session] \in Clients
      BY <1>1, <2>1 DEF TypeOK
    <2> QED BY <1>1, <1>2, <2>1, <2>2, Untouched
  <1>4. EchoIsInput' /\ Fresh' /\ LogsAll'
    BY <1>1, <1>2 DEF EchoIInv, EchoIsInput, Fresh, LogsAll
  <1> QED BY <1>1, <1>3, <1>4 DEF EchoIInv

LEMMA EchoNext == SessionIInv /\ EchoIInv /\ [Next]_vars => EchoIInv'
  <1> SUFFICES ASSUME SessionIInv, EchoIInv, [Next]_vars PROVE EchoIInv'
    OBVIOUS
  <1>1. ASSUME NEW s \in Sessions, HandleReadError(s) PROVE EchoIInv'
    <2>1. /\ Read(s) \in ops /\ Read(s).kind # "accept" /\ Read(s).session = s
          /\ ops' = ops \ {Read(s)} /\ DeleteThis(s)
      BY <1>1, OpFields DEF HandleReadError
    <2>2. DeleteThis(Read(s).session)
      BY <2>1
    <2> QED BY <2>1, <2>2, EchoDeleted
  <1>2. ASSUME NEW o \in ops, HandleWriteError(o) PROVE EchoIInv'
    BY <1>2, EchoDeleted DEF HandleWriteError
  <1>3. ASSUME NEW o \in ops, WriteSome(o) \/ HandleWrite(o) PROVE EchoIInv'
    <2>1. /\ o.kind = "write" /\ o.size \in Nat /\ o.done \in Nat /\ o.done < o.size
          /\ UNCHANGED <<limit, heap, peer, logOpen, data, client, sent, taken, logged>>
      BY <1>3, SizeAssumption
         DEF WriteSome, HandleWrite, SessionIInv, SessionInv, TypeOK, Ops, BytesLeft
    <2>2. CASE WriteSome(o)
      <3>1. PICK n \in 1 .. o.size - o.done - 1 :
                /\ Written(o, n)
                /\ ops' = (ops \ {o}) \cup {Write(o.session, o.done + n, o.size)}
        BY <2>2 DEF WriteSome
      <3>2. n \in Nat /\ n <= o.size - o.done
        BY <2>1
      <3>3. PICK q : q = Write(o.session, o.done + n, o.size)
        OBVIOUS
      <3>4. q.kind = "write" /\ q.session = o.session /\ q.done = o.done + n /\ q.size = o.size
        BY <3>3, OpFields
      <3> QED BY <2>1, <3>1, <3>2, <3>3, <3>4, EchoWritten
    <2>3. CASE HandleWrite(o)
      <3>1. /\ Written(o, o.size - o.done) /\ ops' = (ops \ {o}) \cup {Read(o.session)}
            /\ o.size - o.done \in Nat /\ o.size - o.done <= o.size - o.done
        BY <2>1, <2>3 DEF HandleWrite
      <3>2. Read(o.session).kind = "read" /\ Read(o.session).session = o.session
        BY OpFields
      <3> QED BY <2>1, <3>1, <3>2, EchoWritten
    <2> QED BY <1>3, <2>2, <2>3
  <1>4. CASE ServerStep
    BY <1>1, <1>2, <1>3, <1>4, EchoAccepted, EchoAcceptError, EchoRead DEF ServerStep
  <1>5. CASE \E c \in Clients : Connect(c) \/ Send(c) \/ Finish(c) \/ Leave(c)
    BY <1>5, EchoClient
  <1>6. CASE UNCHANGED vars
    BY <1>6 DEF vars, session, EchoIInv, EchoIsInput, Fresh, LogsAll, InStep, Echoed
  <1> QED BY <1>4, <1>5, <1>6 DEF Next

(* What a client receives is what it sent, in order, whatever it sends and  *)
(* however its bytes are split into reads and writes, although one buffer   *)
(* serves both; and they are in the log before they are echoed.             *)
(* (data_, handle_read, handle_write.)                                      *)
THEOREM EchoCorrect == Spec => []EchoInOrder
  <1>1. Spec => [](SessionIInv /\ EchoIInv)
    BY SessionInit, SessionNext, EchoInit, EchoNext, PTL DEF Spec
  <1> QED BY <1>1, EchoImplies, PTL
=============================================================================
