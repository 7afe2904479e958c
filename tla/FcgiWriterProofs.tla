-------------------------- MODULE FcgiWriterProofs --------------------------
(***************************************************************************)
(* Proofs about FcgiWriter and about what the web server makes of its      *)
(* bytes (FcgiWire), for every alignment, record layout, buffer size and   *)
(* exit status the assumptions allow.                                      *)
(***************************************************************************)
EXTENDS FcgiWire, FiniteSetTheorems, SequenceTheorems, WellFoundedInduction, TLAPS

USE DEF STDOUT, STDERR
-----------------------------------------------------------------------------
(* Arithmetic: remainders and multiples of a positive number.              *)

LEMMA ModFacts ==
  ASSUME NEW x \in Nat, NEW a \in Nat \ {0}
  PROVE  x % a \in 0 .. a - 1 /\ (x - (x % a)) % a = 0
  <1>1. x % a \in 0 .. a - 1
    OBVIOUS
  <1>2. (x - (x % a)) % a = 0
    <2>1. x = a * (x \div a) + (x % a) /\ x \div a \in Int
      OBVIOUS
    <2>2. PICK q \in Int : q = x \div a
      BY <2>1
    <2>3. x - (x % a) = a * q
      BY <2>1, <2>2
    <2>4. (a * q) % a = 0
      OBVIOUS
    <2> QED BY <2>3, <2>4
  <1> QED BY <1>1, <1>2

LEMMA Multiple ==
  ASSUME NEW x \in Nat, NEW a \in Nat \ {0}, x % a = 0
  PROVE  \E p \in Nat : x = a * p
  OBVIOUS

LEMMA NextMultiple ==
  ASSUME NEW p \in Nat, NEW q \in Nat, NEW a \in Nat \ {0}, a * p < a * q + a
  PROVE  a * p <= a * q
  <1>1. a * p < a * (q + 1)
    OBVIOUS
  <1>2. CASE p <= q
    BY <1>2
  <1>3. CASE p >= q + 1
    <2>1. a * p >= a * (q + 1)
      BY <1>3
    <2> QED BY <2>1, <1>1
  <1> QED BY <1>2, <1>3

LEMMA RoundUp ==
  ASSUME NEW n \in Nat, NEW a \in Nat \ {0}, NEW r \in 0 .. a - 1
  PROVE  /\ n + a - 1 - r \in Nat
         /\ n <= n + a - 1 - r
         /\ n + a - 1 - r - n \in 0 .. a - 1
  OBVIOUS

(* AlignInt8 rounds up to a multiple of Align, by less than Align.          *)
LEMMA AlignUp ==
  ASSUME NEW n \in Nat
  PROVE  /\ AlignInt8(n) \in Nat
         /\ n <= AlignInt8(n)
         /\ AlignInt8(n) - n \in 0 .. Align - 1
         /\ AlignInt8(n) % Align = 0
  <1>1. Align \in Nat \ {0} /\ n + Align - 1 \in Nat
    BY LayoutAssumption
  <1>2. PICK r \in 0 .. Align - 1 : r = (n + Align - 1) % Align
    BY <1>1, ModFacts
  <1>3. AlignInt8(n) = n + Align - 1 - r
    BY <1>2 DEF AlignInt8
  <1>4. (n + Align - 1 - r) % Align = 0
    <2>1. PICK x \in Nat : x = n + Align - 1
      BY <1>1
    <2>2. (x - (x % Align)) % Align = 0
      BY <1>1, ModFacts
    <2>3. r = x % Align
      BY <1>2, <2>1
    <2>4. (x - r) % Align = 0
      BY <2>2, <2>3
    <2>5. x - r = n + Align - 1 - r
      BY <1>1, <2>1
    <2> QED BY <2>4, <2>5
  <1> QED BY <1>1, <1>2, <1>3, <1>4, RoundUp

(* Rounding up does not pass a bound that is itself a multiple of Align:    *)
(* "Padding can't overflow the buffer because the buffer is a multiple of 8 *)
(* bytes in length" (EmptyBuffProc).                                        *)
LEMMA AlignBounded ==
  ASSUME NEW n \in Nat, NEW b \in Nat, n <= b, b % Align = 0
  PROVE  AlignInt8(n) <= b
  <1>1. Align \in Nat \ {0}
    BY LayoutAssumption
  <1>2. PICK e \in Nat : /\ e = AlignInt8(n)
                         /\ e < b + Align
                         /\ e % Align = 0
    <2>1. AlignInt8(n) \in Nat /\ AlignInt8(n) % Align = 0
      BY AlignUp
    <2>2. AlignInt8(n) - n < Align
      BY AlignUp, <1>1
    <2> QED BY <2>1, <2>2, <1>1
  <1>3. PICK p \in Nat : e = Align * p
    BY <1>1, <1>2, Multiple
  <1>4. PICK q \in Nat : b = Align * q
    BY <1>1, Multiple
  <1>5. Align * p < Align * q + Align
    BY <1>2, <1>3, <1>4
  <1>6. Align * p <= Align * q
    BY <1>1, <1>5, NextMultiple
  <1> QED BY <1>2, <1>3, <1>4, <1>6

(* The room for content in a buffer is a multiple of Align.                 *)
LEMMA ContentRoom ==
  ASSUME NEW s \in Streams
  PROVE  /\ BuffLen[s] - HeaderLen \in Nat
         /\ (BuffLen[s] - HeaderLen) % Align = 0
  <1>1. /\ Align \in Nat \ {0} /\ HeaderLen \in Nat /\ BuffLen[s] \in Nat
        /\ HeaderLen % Align = 0 /\ BuffLen[s] % Align = 0
        /\ BuffLen[s] > HeaderLen
    BY LayoutAssumption
  <1>2. PICK p \in Nat : HeaderLen = Align * p
    BY <1>1, Multiple
  <1>3. PICK q \in Nat : BuffLen[s] = Align * q
    BY <1>1, Multiple
  <1>4. BuffLen[s] - HeaderLen = Align * (q - p)
    BY <1>1, <1>2, <1>3
  <1>5. PICK d \in Int : d = q - p
    BY <1>2, <1>3
  <1>6. (Align * d) % Align = 0
    BY <1>1
  <1> QED BY <1>1, <1>4, <1>5, <1>6
-----------------------------------------------------------------------------
(* Sequences of bytes.                                                      *)

LEMMA CopiesType ==
  ASSUME NEW S, NEW c \in S, NEW k \in Nat
  PROVE  Copies(k, c) \in Seq(S) /\ Len(Copies(k, c)) = k
  BY DEF Copies

LEMMA EmptyType ==
  ASSUME NEW S
  PROVE  <<>> \in Seq(S) /\ Len(<<>>) = 0
  OBVIOUS

LEMMA Concat ==
  ASSUME NEW S, NEW u \in Seq(S), NEW v \in Seq(S)
  PROVE  u \o v \in Seq(S) /\ Len(u \o v) = Len(u) + Len(v)
  OBVIOUS

LEMMA Part ==
  ASSUME NEW S, NEW u \in Seq(S), NEW m \in Nat, NEW k \in Nat, k <= Len(u)
  PROVE  /\ SubSeq(u, m + 1, k) \in Seq(S)
         /\ m <= k => Len(SubSeq(u, m + 1, k)) = k - m
  OBVIOUS

LEMMA MakeHeaderType ==
  ASSUME NEW s \in Streams, NEW cLen \in Nat, cLen <= MaxLength,
         NEW padLen \in 0 .. Align - 1
  PROVE  /\ MakeHeader(s, cLen, padLen) \in Seq(Byte)
         /\ Len(MakeHeader(s, cLen, padLen)) = HeaderLen
  <1>1. [kind |-> "header", of |-> s, n |-> cLen, pad |-> padLen] \in Byte
    BY DEF Byte, Cell
  <1> QED BY <1>1, CopiesType, LayoutAssumption DEF MakeHeader

LEMMA PlainByte ==
  ASSUME NEW s \in Streams, NEW n \in Nat,
         NEW kind \in {"body", "pad", "end", "hole"}
  PROVE  [kind |-> kind, of |-> s, n |-> n, pad |-> 0] \in Byte
  BY LayoutAssumption DEF Byte, Cell

LEMMA HoleType ==
  ASSUME NEW s \in Streams
  PROVE  Hole(s) \in Seq(Byte) /\ Len(Hole(s)) = HeaderLen
  BY PlainByte, CopiesType, LayoutAssumption DEF Hole

LEMMA PaddingType ==
  ASSUME NEW s \in Streams, NEW k \in Nat
  PROVE  Padding(s, k) \in Seq(Byte) /\ Len(Padding(s, k)) = k
  BY PlainByte, CopiesType DEF Padding

LEMMA EndRequestType ==
  ASSUME NEW status \in Status
  PROVE  EndRequestRecord(status) \in Seq(Byte)
  <1>1. [kind |-> "end", of |-> STDOUT, n |-> status, pad |-> 0] \in Byte
    BY PlainByte, StatusAssumption DEF Streams
  <1> QED BY <1>1, CopiesType, LayoutAssumption DEF EndRequestRecord

LEMMA NextContentType ==
  ASSUME TypeOK, NEW s \in Streams, NEW k \in Nat
  PROVE  NextContent(s, k) \in Seq(Byte)
  <1>1. ASSUME NEW i \in 1 .. k
        PROVE  [kind |-> "body", of |-> s, n |-> stored[s] + i, pad |-> 0] \in Byte
    <2>1. stored[s] + i \in Nat
      BY DEF TypeOK
    <2> QED BY <2>1, PlainByte
  <1> QED BY <1>1 DEF NextContent

(* An encapsulated buffer is made of bytes and fits the buffer.             *)
LEMMA EncapsulatedType ==
  ASSUME TypeOK, NEW s \in Streams
  PROVE  Encapsulated(s) \in Seq(Byte) /\ Len(Encapsulated(s)) <= BuffLen[s]
  <1> DEFINE cLen == Len(buff[s]) - HeaderLen
             eLen == AlignInt8(cLen)
  <1>1. /\ buff[s] \in Seq(Byte) /\ Len(buff[s]) \in Nat
        /\ Len(buff[s]) <= BuffLen[s] /\ rawWrite[s] \in BOOLEAN
    BY DEF TypeOK
  <1>2. /\ HeaderLen \in Nat \ {0} /\ BuffLen[s] \in Nat /\ MaxLength \in Nat
        /\ BuffLen[s] <= MaxLength + 1
    BY LayoutAssumption
  <1>3. CASE rawWrite[s]
    BY <1>1, <1>3 DEF Encapsulated
  <1>4. CASE ~rawWrite[s] /\ cLen > 0
    <2>1. cLen \in Nat /\ cLen <= MaxLength /\ cLen <= BuffLen[s] - HeaderLen
      BY <1>1, <1>2, <1>4
    <2>2. eLen \in Nat /\ eLen - cLen \in 0 .. Align - 1 /\ cLen <= eLen
      BY <2>1, AlignUp
    <2>3. eLen <= BuffLen[s] - HeaderLen
      BY <2>1, ContentRoom, AlignBounded
    <2>4. PICK pLen \in Nat : pLen = eLen - cLen /\ pLen \in 0 .. Align - 1
      BY <2>1, <2>2
    <2>5. PICK h \in Seq(Byte) : h = MakeHeader(s, cLen, pLen) /\ Len(h) = HeaderLen
      BY <2>1, <2>4, MakeHeaderType
    <2>6. PICK b \in Seq(Byte) : /\ b = SubSeq(buff[s], HeaderLen + 1, Len(buff[s]))
                                 /\ Len(b) = cLen
      <3>1. PICK k \in Nat : k = Len(buff[s]) /\ HeaderLen <= k
        BY <1>1, <1>2, <1>4
      <3>2. /\ SubSeq(buff[s], HeaderLen + 1, k) \in Seq(Byte)
            /\ Len(SubSeq(buff[s], HeaderLen + 1, k)) = k - HeaderLen
        BY <1>1, <1>2, <3>1, Part
      <3> QED BY <3>1, <3>2
    <2>7. PICK p \in Seq(Byte) : p = Padding(s, pLen) /\ Len(p) = pLen
      BY <2>4, PaddingType
    <2>8. Encapsulated(s) = h \o b \o p
      BY <1>4, <2>4, <2>5, <2>6, <2>7 DEF Encapsulated
    <2>9. h \o b \o p \in Seq(Byte) /\ Len(h \o b \o p) = HeaderLen + cLen + pLen
      BY <2>5, <2>6, <2>7, Concat
    <2>10. HeaderLen + cLen + pLen <= BuffLen[s]
      <3> HIDE DEF cLen, eLen
      <3> QED BY <2>1, <2>2, <2>3, <2>4, <1>2
    <2> QED BY <2>8, <2>9, <2>10
  <1>5. CASE ~rawWrite[s] /\ ~(cLen > 0)
    <2>1. Encapsulated(s) = <<>>
      BY <1>5 DEF Encapsulated
    <2> QED BY <2>1, <1>2
  <1> QED BY <1>1, <1>3, <1>4, <1>5
-----------------------------------------------------------------------------
(* The inductive invariant.  TypeOK alone is not inductive: that nWriters   *)
(* stays a number of streams needs ClosersCounted.                          *)
IInv == TypeOK /\ ClosersCounted

LEMMA InitIInv == Init => IInv
  <1> SUFFICES ASSUME Init PROVE IInv
    OBVIOUS
  <1>1. \A s \in Streams : Len(Hole(s)) <= BuffLen[s]
    BY HoleType, LayoutAssumption
  <1>2. TypeOK
    <2>1. buff \in [Streams -> Seq(Byte)] /\ \A s \in Streams : Len(buff[s]) <= BuffLen[s]
      BY <1>1, HoleType DEF Init
    <2>2. call \in [at : {"app", "put", "eof", "end", "flush"}, s : Streams, rest : Seq(Byte)]
      BY DEF Init, Idle, Streams
    <2>3. sent \in Seq(Byte)
      BY EmptyType DEF Init
    <2>4. nWriters \in 0 .. 2 /\ appStatus \in Status /\ stored \in [Streams -> Nat]
      BY StatusAssumption DEF Init
    <2>6. broken \in BOOLEAN
      BY DEF Init
    <2>5. /\ isClosed \in [Streams -> BOOLEAN] /\ wasFCloseCalled \in [Streams -> BOOLEAN]
          /\ FCGI_errno \in [Streams -> BOOLEAN] /\ rawWrite \in [Streams -> BOOLEAN]
          /\ isAnythingWritten \in [Streams -> BOOLEAN]
      BY DEF Init
    <2> QED BY <2>1, <2>2, <2>3, <2>4, <2>5, <2>6 DEF TypeOK
  <1>3. ClosersCounted
    BY DEF Init, ClosersCounted, Counted, Idle, Streams
  <1> QED BY <1>2, <1>3 DEF IInv

(* What EmptyBuffProc leaves in the stream's buffer and hands to the        *)
(* connection.                                                              *)
LEMMA EmptyBuffProcType ==
  ASSUME TypeOK, NEW s \in Streams, EmptyBuffProc(s)
  PROVE  /\ buff' \in [Streams -> Seq(Byte)]
         /\ \A t \in Streams : Len(buff'[t]) <= BuffLen[t]
         /\ sent' \in Seq(Byte)
         /\ isClosed' \in [Streams -> BOOLEAN]
         /\ \A t \in Streams : isClosed[t] => isClosed'[t]
         /\ FCGI_errno' \in [Streams -> BOOLEAN]
         /\ isAnythingWritten' \in [Streams -> BOOLEAN]
         /\ broken' \in BOOLEAN
  <1>1. PICK e \in Seq(Byte) : e = Encapsulated(s) /\ Len(e) <= BuffLen[s]
    BY EncapsulatedType
  <1>2. CASE WriteOk(s, e)
    <2>1. PICK b \in Seq(Byte) :
              b = (IF rawWrite[s] THEN <<>> ELSE Hole(s)) /\ Len(b) <= BuffLen[s]
      <3>1. HeaderLen <= BuffLen[s] /\ 0 <= BuffLen[s]
        BY LayoutAssumption
      <3>2. CASE rawWrite[s]
        BY <3>1, <3>2, EmptyType
      <3>3. CASE ~rawWrite[s]
        BY <3>1, <3>3, HoleType
      <3> QED BY <3>2, <3>3
    <2>2. buff' = [buff EXCEPT ![s] = b]
      BY <1>2, <2>1 DEF WriteOk
    <2> QED BY <1>1, <1>2, <2>1, <2>2 DEF WriteOk, TypeOK
  <1>3. CASE WriteFails(s, e)
    <2>1. PICK k \in Cuts : k < Len(e) /\ sent' = SubSeq(e, 1, k)
      BY <1>3 DEF WriteFails
    <2>2. sent' \in Seq(Byte)
      BY <1>1, <2>1, BoundAssumption
    <2> QED BY <1>1, <1>3, <2>2 DEF WriteFails, TypeOK
  <1> QED BY <1>1, <1>2, <1>3 DEF EmptyBuffProc

(* A call record, as TypeOK has it.                                         *)
LEMMA PuttingType ==
  ASSUME NEW at \in {"app", "put", "eof", "end", "flush"}, NEW s \in Streams,
         NEW bytes \in Seq(Byte)
  PROVE  Putting(at, s, bytes) \in [at : {"app", "put", "eof", "end", "flush"},
                                    s : Streams, rest : Seq(Byte)]
  BY DEF Putting

LEMMA IdleType ==
  Idle \in [at : {"app", "put", "eof", "end", "flush"}, s : Streams, rest : Seq(Byte)]
  BY EmptyType DEF Idle, Streams

(* WriteCloseRecords, behind the stream's own end: the writer that goes on  *)
(* to FCGI_END_REQUEST is the last one.                                     *)
LEMMA AfterEofType ==
  ASSUME IInv, NEW s \in Streams, ~Counted(s), AfterEof(s)
  PROVE  /\ call' \in [at : {"app", "put", "eof", "end", "flush"},
                       s : Streams, rest : Seq(Byte)]
         /\ call'.s = s
         /\ \/ call'.at = "end" /\ nWriters = 1 /\ nWriters' = nWriters
            \/ call'.at = "flush" /\ nWriters = 2 /\ nWriters' = 1
  <1>1. nWriters \in {1, 2}
    BY DEF IInv, ClosersCounted, Streams
  <1>2. CASE nWriters = 1
    <2>1. call' = Putting("end", s, EndRequestRecord(appStatus)) /\ nWriters' = nWriters
      BY <1>2 DEF AfterEof
    <2>2. EndRequestRecord(appStatus) \in Seq(Byte)
      BY EndRequestType DEF IInv, TypeOK
    <2> QED BY <1>2, <2>1, <2>2, PuttingType DEF Putting
  <1>3. CASE nWriters = 2
    <2>1. call' = Putting("flush", s, <<>>) /\ nWriters' = 1
      BY <1>3 DEF AfterEof
    <2> QED BY <1>3, <2>1, EmptyType, PuttingType DEF Putting
  <1> QED BY <1>1, <1>2, <1>3

(* Where the FCGX_PutStr in progress returns to.                            *)
LEMMA PutReturnsType ==
  ASSUME IInv, call.at \in PutPoints, PutReturns
  PROVE  /\ call' \in [at : {"app", "put", "eof", "end", "flush"},
                       s : Streams, rest : Seq(Byte)]
         /\ \/ call'.at = "app" /\ call.at = "put" /\ nWriters' = nWriters
            \/ /\ call.at = "eof" /\ call'.at = "end" /\ call'.s = call.s
               /\ nWriters = 1 /\ nWriters' = nWriters
            \/ /\ call.at \in {"eof", "end"} /\ call'.at = "flush" /\ call'.s = call.s
               /\ nWriters \in {1, 2} /\ nWriters' = nWriters - 1
  <1>0. call.s \in Streams
    BY DEF IInv, TypeOK
  <1>1. CASE call.at = "put"
    BY <1>1, IdleType DEF PutReturns, Idle
  <1>2. CASE call.at = "eof"
    <2>1. AfterEof(call.s)
      BY <1>2 DEF PutReturns
    <2>2. ~Counted(call.s)
      BY <1>2 DEF IInv, ClosersCounted, Counted
    <2> QED BY <1>0, <1>2, <2>1, <2>2, AfterEofType
  <1>3. CASE call.at = "end"
    <2>1. call' = Putting("flush", call.s, <<>>) /\ nWriters' = nWriters - 1
      BY <1>3 DEF PutReturns
    <2>2. nWriters = 1
      BY <1>3 DEF IInv, ClosersCounted
    <2> QED BY <1>0, <1>3, <2>1, <2>2, EmptyType, PuttingType DEF Putting
  <1> QED BY <1>1, <1>2, <1>3 DEF PutPoints

(* ClosersCounted when the closing of the streams moves on to call'.        *)
LEMMA ClosersMove ==
  ASSUME IInv, call' \in [at : {"app", "put", "eof", "end", "flush"},
                          s : Streams, rest : Seq(Byte)],
         UNCHANGED <<wasFCloseCalled, isClosed>>,
         ~wasFCloseCalled[call'.s] \/ call'.at \in {"app", "put"},
         call.at # "flush",
         \/ call'.at \in {"app", "put", "eof"} /\ nWriters' = nWriters
         \/ call'.at = "end" /\ nWriters = 1 /\ nWriters' = nWriters
         \/ call'.at = "flush" /\ nWriters' = nWriters - 1
  PROVE  ClosersCounted'
  BY DEF IInv, TypeOK, ClosersCounted, Counted, Streams
-----------------------------------------------------------------------------
(* Every step keeps the invariant: one lemma for each action.               *)

LEMMA PutStrStep ==
  ASSUME IInv, NEW s \in Streams, NEW n \in PutSizes, PutStr(s, n)
  PROVE  IInv'
  <1>1. NextContent(s, n) \in Seq(Byte)
    BY NextContentType, BoundAssumption DEF IInv
  <1>2. call' \in [at : {"app", "put", "eof", "end", "flush"}, s : Streams, rest : Seq(Byte)]
    BY <1>1, PuttingType DEF PutStr
  <1>3. TypeOK'
    BY <1>2, EmptyType DEF IInv, TypeOK, PutStr, SendsNothing, streamVars
  <1>4. call.at = "app" /\ call'.at = "put"
    BY DEF PutStr, Putting, Idle
  <1>5. ClosersCounted'
    BY <1>2, <1>4, ClosersMove DEF PutStr, streamVars
  <1> QED BY <1>3, <1>5 DEF IInv

LEMMA FFlushStep ==
  ASSUME IInv, NEW s \in Streams, FFlush(s)
  PROVE  IInv'
  <1>1. TypeOK'
    BY EmptyBuffProcType DEF IInv, TypeOK, FFlush, EmptyBuffProc
  <1>2. ClosersCounted'
    BY EmptyBuffProcType DEF IInv, ClosersCounted, Counted, FFlush, EmptyBuffProc
  <1> QED BY <1>1, <1>2 DEF IInv

LEMMA SetExitStatusStep ==
  ASSUME IInv, NEW status \in Status, SetExitStatus(status)
  PROVE  IInv'
  <1>1. TypeOK'
    BY EmptyType DEF IInv, TypeOK, SetExitStatus, SendsNothing, streamVars
  <1>2. ClosersCounted'
    BY DEF IInv, ClosersCounted, Counted, SetExitStatus, streamVars
  <1> QED BY <1>1, <1>2 DEF IInv

LEMMA ClearErrorStep ==
  ASSUME IInv, NEW s \in Streams, ClearError(s)
  PROVE  IInv'
  <1>1. TypeOK'
    BY EmptyType DEF IInv, TypeOK, ClearError, SendsNothing
  <1>2. ClosersCounted'
    BY DEF IInv, ClosersCounted, Counted, ClearError
  <1> QED BY <1>1, <1>2 DEF IInv

LEMMA FCloseStep ==
  ASSUME IInv, NEW s \in Streams, FClose(s)
  PROVE  IInv'
  <1>1. call.at = "app" /\ ~wasFCloseCalled[s] /\ ~Counted(s)
    BY DEF FClose, Idle, Counted
  <1>2. /\ call' \in [at : {"app", "put", "eof", "end", "flush"}, s : Streams, rest : Seq(Byte)]
        /\ call'.s = s
        /\ \/ call'.at = "eof" /\ nWriters' = nWriters
           \/ call'.at = "end" /\ nWriters = 1 /\ nWriters' = nWriters
           \/ call'.at = "flush" /\ nWriters = 2 /\ nWriters' = 1
    <2>1. CASE NeedsEof(s, Encapsulated(s))
      <3>1. call' = Putting("eof", s, MakeHeader(s, 0, 0)) /\ nWriters' = nWriters
        BY <2>1 DEF FClose
      <3>2. MakeHeader(s, 0, 0) \in Seq(Byte)
        BY MakeHeaderType, LayoutAssumption
      <3> QED BY <3>1, <3>2, PuttingType DEF Putting
    <2>2. CASE ~NeedsEof(s, Encapsulated(s))
      <3>1. AfterEof(s)
        BY <2>2 DEF FClose
      <3> QED BY <1>1, <3>1, AfterEofType
    <2> QED BY <2>1, <2>2
  <1>3. buff' \in [Streams -> Seq(Byte)] /\ \A t \in Streams : Len(buff'[t]) <= BuffLen[t]
    BY EncapsulatedType DEF IInv, TypeOK, FClose
  <1>4. nWriters' \in 0 .. 2
    BY <1>2 DEF IInv, TypeOK
  <1>5. rawWrite' \in [Streams -> BOOLEAN]
    BY DEF IInv, TypeOK, FClose
  <1>6. TypeOK'
    BY <1>2, <1>3, <1>4, <1>5, EmptyType DEF IInv, TypeOK, FClose, SendsNothing
  <1>7. ClosersCounted'
    <2>1. UNCHANGED <<wasFCloseCalled, isClosed>>
      BY DEF FClose
    <2> QED BY <1>1, <1>2, <2>1, ClosersMove
  <1> QED BY <1>6, <1>7 DEF IInv

LEMMA PutCopyStep ==
  ASSUME IInv, PutCopy
  PROVE  IInv'
  <1> DEFINE s == call.s
             r == Len(call.rest)
             m == IF r <= Room(s) THEN r ELSE Room(s)
  <1>1. /\ s \in Streams /\ call.rest \in Seq(Byte) /\ r \in Nat
        /\ BuffLen[s] \in Nat /\ buff[s] \in Seq(Byte) /\ Len(buff[s]) \in Nat
        /\ Len(buff[s]) <= BuffLen[s]
    BY LayoutAssumption DEF IInv, TypeOK
  <1>2. PICK k \in Nat : k = m /\ k > 0 /\ k <= r /\ k <= BuffLen[s] - Len(buff[s])
    BY <1>1 DEF PutCopy, Room
  <1>3. PICK part \in Seq(Byte) : part = SubSeq(call.rest, 1, k) /\ Len(part) = k
    <2>1. SubSeq(call.rest, 1, k) \in Seq(Byte) /\ Len(SubSeq(call.rest, 1, k)) = k
      <3>1. PICK u \in Seq(Byte) : u = call.rest /\ k <= Len(u)
        BY <1>1, <1>2
      <3>2. SubSeq(u, 1, k) \in Seq(Byte) /\ Len(SubSeq(u, 1, k)) = k
        BY <1>2, <3>1
      <3> QED BY <3>1, <3>2
    <2> QED BY <2>1
  <1>4. buff' \in [Streams -> Seq(Byte)] /\ \A t \in Streams : Len(buff'[t]) <= BuffLen[t]
    <2>1. buff' = [buff EXCEPT ![s] = buff[s] \o part]
      BY <1>2, <1>3 DEF PutCopy
    <2>2. buff[s] \o part \in Seq(Byte) /\ Len(buff[s] \o part) <= BuffLen[s]
      BY <1>1, <1>2, <1>3, Concat
    <2> QED BY <1>1, <2>1, <2>2 DEF IInv, TypeOK
  <1>5. stored' \in [Streams -> Nat]
    <2>1. stored' = [stored EXCEPT ![s] = IF call.at = "put" THEN stored[s] + k ELSE stored[s]]
      BY <1>2 DEF PutCopy
    <2> QED BY <1>1, <1>2, <2>1 DEF IInv, TypeOK
  <1>6. /\ call' \in [at : {"app", "put", "eof", "end", "flush"}, s : Streams, rest : Seq(Byte)]
        /\ nWriters' \in 0 .. 2
        /\ ClosersCounted'
    <2>0. /\ UNCHANGED <<wasFCloseCalled, isClosed>> /\ call.at \in PutPoints
          /\ nWriters \in 0 .. 2
      BY DEF PutCopy, streamVars, IInv, TypeOK
    <2>1. CASE k = r
      <3>1. PutReturns
        BY <1>2, <2>1 DEF PutCopy
      <3>2. call.at \in {"eof", "end"} => ~wasFCloseCalled[call.s]
        BY DEF IInv, ClosersCounted
      <3> QED BY <2>0, <3>1, <3>2, PutReturnsType, ClosersMove DEF PutPoints
    <2>2. CASE k # r
      <3>1. call' = [call EXCEPT !.rest = SubSeq(call.rest, k + 1, r)] /\ nWriters' = nWriters
        BY <1>2, <2>2 DEF PutCopy
      <3>2. SubSeq(call.rest, k + 1, r) \in Seq(Byte)
        BY <1>1, <1>2, Part
      <3>3. /\ call' \in [at : {"app", "put", "eof", "end", "flush"},
                          s : Streams, rest : Seq(Byte)]
            /\ call'.at = call.at /\ call'.s = call.s
        BY <3>1, <3>2 DEF IInv, TypeOK
      <3>4. ClosersCounted'
        BY <2>0, <3>1, <3>3 DEF IInv, ClosersCounted, Counted
      <3> QED BY <2>0, <3>1, <3>3, <3>4
    <2> QED BY <2>1, <2>2
  <1>7. TypeOK'
    BY <1>4, <1>5, <1>6, EmptyType DEF IInv, TypeOK, PutCopy, SendsNothing, streamVars
  <1> QED BY <1>6, <1>7 DEF IInv

LEMMA PutEmptyStep ==
  ASSUME IInv, PutEmpty
  PROVE  IInv'
  <1>1. call.s \in Streams /\ EmptyBuffProc(call.s)
    BY DEF IInv, TypeOK, PutEmpty
  <1>2. TypeOK'
    BY <1>1, EmptyBuffProcType DEF IInv, TypeOK, PutEmpty, EmptyBuffProc
  <1>3. ClosersCounted'
    BY <1>1, EmptyBuffProcType DEF IInv, ClosersCounted, Counted, PutEmpty, EmptyBuffProc
  <1> QED BY <1>2, <1>3 DEF IInv

LEMMA PutFailsStep ==
  ASSUME IInv, PutFails
  PROVE  IInv'
  <1>1. /\ UNCHANGED <<wasFCloseCalled, isClosed>> /\ call.at \in PutPoints
        /\ PutReturns /\ nWriters \in 0 .. 2
    BY DEF PutFails, streamVars, IInv, TypeOK
  <1>2. call.at \in {"eof", "end"} => ~wasFCloseCalled[call.s]
    BY DEF IInv, ClosersCounted
  <1>3. /\ call' \in [at : {"app", "put", "eof", "end", "flush"}, s : Streams, rest : Seq(Byte)]
        /\ nWriters' \in 0 .. 2
        /\ ClosersCounted'
    BY <1>1, <1>2, PutReturnsType, ClosersMove DEF PutPoints
  <1>4. TypeOK'
    BY <1>3, EmptyType DEF IInv, TypeOK, PutFails, SendsNothing, streamVars
  <1> QED BY <1>3, <1>4 DEF IInv

LEMMA FCloseEndsStep ==
  ASSUME IInv, FCloseEnds
  PROVE  IInv'
  <1>1. PICK s \in Streams : /\ s = call.s /\ call.at = "flush"
                             /\ buff[s] \in Seq(Byte) /\ BuffLen[s] \in Nat
    BY LayoutAssumption DEF FCloseEnds, IInv, TypeOK
  <1>2. /\ buff' \in [Streams -> Seq(Byte)]
        /\ \A t \in Streams : Len(buff'[t]) <= BuffLen[t]
        /\ sent' \in Seq(Byte)
        /\ FCGI_errno' \in [Streams -> BOOLEAN]
        /\ broken' \in BOOLEAN
    <2>1. CASE sent' = buff[s] /\ buff' = [buff EXCEPT ![s] = <<>>]
               /\ UNCHANGED <<FCGI_errno, broken>>
      BY <1>1, <2>1, EmptyType DEF IInv, TypeOK
    <2>2. CASE \E k \in {c \in Cuts : c < Len(buff[s])} :
                  /\ sent' = SubSeq(buff[s], 1, k)
                  /\ FCGI_errno' = [FCGI_errno EXCEPT ![s] = TRUE]
                  /\ broken' = TRUE
                  /\ UNCHANGED buff
      BY <1>1, <2>2, BoundAssumption DEF IInv, TypeOK
    <2> QED BY <1>1, <2>1, <2>2 DEF FCloseEnds
  <1>3. /\ isAnythingWritten' \in [Streams -> BOOLEAN]
        /\ isClosed' = [isClosed EXCEPT ![s] = TRUE]
        /\ wasFCloseCalled' = [wasFCloseCalled EXCEPT ![s] = TRUE]
        /\ call' = Idle
        /\ UNCHANGED <<rawWrite, nWriters, appStatus, stored>>
    BY <1>1 DEF FCloseEnds, IInv, TypeOK
  <1>4. TypeOK'
    BY <1>2, <1>3, IdleType DEF IInv, TypeOK
  <1>5. ClosersCounted'
    BY <1>1, <1>3 DEF IInv, TypeOK, ClosersCounted, Counted, Idle, Streams
  <1> QED BY <1>4, <1>5 DEF IInv

LEMMA NextIInv == IInv /\ [Next]_vars => IInv'
  <1> SUFFICES ASSUME IInv, [Next]_vars PROVE IInv'
    OBVIOUS
  <1>1. CASE Application
    BY <1>1, PutStrStep, FFlushStep, ClearErrorStep, FCloseStep, SetExitStatusStep
       DEF Application
  <1>2. CASE Library
    BY <1>2, PutCopyStep, PutEmptyStep, PutFailsStep, FCloseEndsStep DEF Library
  <1>3. CASE UNCHANGED vars
    BY <1>3 DEF vars, streamVars, IInv, TypeOK, ClosersCounted, Counted
  <1> QED BY <1>1, <1>2, <1>3 DEF Next
-----------------------------------------------------------------------------
(* Buffers keep their bounds whatever the application writes and however    *)
(* the writes fail: padding never overflows a buffer, and the lengths of    *)
(* every header that is sent fit its fields.  (EmptyBuffProc, MakeHeader.)  *)
THEOREM TypeCorrect == Spec => []TypeOK
  <1>1. Spec => []IInv
    BY InitIInv, NextIInv, PTL DEF Spec
  <1>2. IInv => TypeOK
    BY DEF IInv
  <1> QED BY <1>1, <1>2, PTL

(* nWriters counts the streams still to close, and only the last of them    *)
(* writes FCGI_END_REQUEST.  (WriteCloseRecords, FCGX_FClose.)              *)
THEOREM ClosersCorrect == Spec => []ClosersCounted
  <1>1. Spec => []IInv
    BY InitIInv, NextIInv, PTL DEF Spec
  <1>2. IInv => ClosersCounted
    BY DEF IInv
  <1> QED BY <1>1, <1>2, PTL

(* Nothing is sent for a request that has been ended, whichever stream was  *)
(* closed first and whether or not a write had failed: FCGX_FClose returns  *)
(* at once, FCGX_FFlush and FCGX_PutStr find the stream closed.             *)
THEOREM SilenceCorrect == Spec => SilentAfterEnd
  <1>1. Spec => []IInv
    BY InitIInv, NextIInv, PTL DEF Spec
  <1>2. ASSUME IInv, Next, nWriters = 0, call = Idle
        PROVE  sent' = <<>>
    <2>1. \A s \in Streams : wasFCloseCalled[s] /\ isClosed[s]
      BY <1>2 DEF IInv, ClosersCounted, Counted, Idle, Streams
    <2>2. CASE Application
      BY <1>2, <2>1, <2>2
         DEF Application, PutStr, FFlush, ClearError, FClose, SetExitStatus, SendsNothing
    <2>3. CASE Library
      BY <1>2, <2>3 DEF Library, PutCopy, PutEmpty, PutFails, FCloseEnds, PutPoints, Idle
    <2> QED BY <1>2, <2>2, <2>3 DEF Next
  <1>3. IInv /\ [Next]_vars => [nWriters = 0 /\ call = Idle => sent' = <<>>]_vars
    BY <1>2
  <1> QED BY <1>1, <1>3, PTL DEF Spec, SilentAfterEnd


(* FeedAll's function, without induction over data: two runs that differ,   *)
(* or a byte a run does not reach, would have a least such place.           *)

(* A non-empty set of naturals has a least element: the intervals below its *)
(* elements are finite sets, well-founded under the strict subset order.    *)
LEMMA LeastNat ==
    ASSUME NEW T \in SUBSET Nat, T # {}
    PROVE  \E x \in T : \A y \in T : x <= y
  <1> DEFINE U == {0 .. n : n \in T}
  <1>1. U \subseteq FiniteSubsetsOf(Nat)
    <2> SUFFICES ASSUME NEW n \in T PROVE IsFiniteSet(0 .. n) /\ 0 .. n \in SUBSET Nat
      BY DEF FiniteSubsetsOf
    <2> QED BY FS_Interval
  <1>2. IsWellFoundedOn(StrictSubsetOrdering(Nat), FiniteSubsetsOf(Nat))
    BY FS_StrictSubsetOrderingWellFounded
  <1>3. U # {}
    OBVIOUS
  <1> HIDE DEF U
  <1>4. \E x \in U : \A y \in U : ~(<<y, x>> \in StrictSubsetOrdering(Nat))
    BY <1>1, <1>2, <1>3, WFMin
  <1> USE DEF U
  <1>5. PICK m \in T : \A n \in T : ~(<<0 .. n, 0 .. m>> \in StrictSubsetOrdering(Nat))
    BY <1>4
  <1>6. ASSUME NEW n \in T, n < m PROVE FALSE
    <2>1. 0 .. n \in SUBSET Nat /\ 0 .. m \in SUBSET Nat /\ 0 .. n \subseteq 0 .. m
      BY <1>6
    <2>2. m \in 0 .. m /\ m \notin 0 .. n
      BY <1>6
    <2> QED BY <1>5, <2>1, <2>2 DEF StrictSubsetOrdering
  <1>7. QED
    BY <1>6
-----------------------------------------------------------------------------
\* a[i] is the decoder after the first i of the bytes.
IsRun(a, d, bytes) ==
    a = [i \in 0 .. Len(bytes) |-> IF i = 0 THEN d ELSE Feed(a[i - 1], bytes[i])]

(* There is one run of a sequence of bytes ...                              *)
LEMMA RunUnique ==
    ASSUME NEW a, NEW c, NEW d, NEW bytes, Len(bytes) \in Nat, IsRun(a, d, bytes), IsRun(c, d, bytes)
    PROVE  a = c
  <1> DEFINE Differ == {i \in 0 .. Len(bytes) : a[i] # c[i]}
  <1>1. SUFFICES ASSUME Differ # {} PROVE FALSE
    BY DEF IsRun
  <1>2. PICK m \in Differ : \A k \in Differ : m <= k
    <2>1. Differ \in SUBSET Nat OBVIOUS
    <2> HIDE DEF Differ
    <2> QED BY <1>1, <2>1, LeastNat
  <1>3. m # 0
    <2>1. 0 \in 0 .. Len(bytes)
      OBVIOUS
    <2>2. a[0] = d /\ c[0] = d
      BY <2>1 DEF IsRun
    <2> QED BY <1>2, <2>2
  <1>4. m \in 0 .. Len(bytes) /\ m - 1 \in 0 .. Len(bytes) /\ m - 1 \notin Differ
    BY <1>2, <1>3
  <1>5. a[m] = Feed(a[m - 1], bytes[m]) /\ c[m] = Feed(c[m - 1], bytes[m])
    BY <1>3, <1>4 DEF IsRun
  <1> QED BY <1>2, <1>4, <1>5

(* ... so any run shows what FeedAll is: a formula for every a[i] will do.  *)
LEMMA FeedRun ==
    ASSUME NEW a, NEW d, NEW bytes, Len(bytes) \in Nat, IsRun(a, d, bytes)
    PROVE  FeedAll(d, bytes) = a[Len(bytes)]
  <1> DEFINE after == CHOOSE c : c = [i \in 0 .. Len(bytes) |-> IF i = 0 THEN d ELSE Feed(c[i - 1], bytes[i])]
  <1>1. after = [i \in 0 .. Len(bytes) |-> IF i = 0 THEN d ELSE Feed(after[i - 1], bytes[i])]
    BY DEF IsRun
  <1>2. IsRun(after, d, bytes)
    BY <1>1 DEF IsRun
  <1>3. after = a
    <2> HIDE DEF after
    <2> QED BY <1>2, RunUnique
  <1>4. FeedAll(d, bytes) = after[Len(bytes)]
    BY DEF FeedAll
  <1> QED BY <1>3, <1>4

LEMMA RunExists ==
    ASSUME NEW d, NEW bytes, Len(bytes) \in Nat
    PROVE  \E a : IsRun(a, d, bytes)
  <1> DEFINE Run(a, m) == a = [i \in 0 .. m |-> IF i = 0 THEN d ELSE Feed(a[i - 1], bytes[i])]
             Without == {m \in 0 .. Len(bytes) : ~\E a : Run(a, m)}
  <1>1. SUFFICES ASSUME Without # {} PROVE FALSE
    BY DEF IsRun
  <1>2. PICK m \in Without : \A k \in Without : m <= k
    <2>1. Without \in SUBSET Nat OBVIOUS
    <2> HIDE DEF Without
    <2> QED BY <1>1, <2>1, LeastNat
  <1>3. m # 0
    <2>1. Run([i \in 0 .. 0 |-> d], 0)
      OBVIOUS
    <2> HIDE DEF Run
    <2> QED BY <1>2, <2>1
  <1>4. m \in 1 .. Len(bytes) /\ m - 1 \in 0 .. Len(bytes) /\ m - 1 \notin Without
    BY <1>2, <1>3
  <1>5. PICK a : Run(a, m - 1)
    BY <1>4
  <1> DEFINE c == [i \in 0 .. m |-> IF i = m THEN Feed(a[m - 1], bytes[m]) ELSE a[i]]
  <1>6. Run(c, m)
    <2>1. ASSUME NEW i \in 0 .. m
          PROVE  c[i] = IF i = 0 THEN d ELSE Feed(c[i - 1], bytes[i])
      <3>1. CASE i = m
        <4>1. c[m - 1] = a[m - 1] /\ c[m] = Feed(a[m - 1], bytes[m])
          BY <1>4
        <4> HIDE DEF c
        <4> QED BY <3>1, <4>1, <1>4
      <3>2. CASE i # m
        <4>1. i \in 0 .. m - 1 /\ c[i] = a[i]
          BY <3>2, <1>4
        <4>2. a[i] = IF i = 0 THEN d ELSE Feed(a[i - 1], bytes[i])
          BY <1>5, <4>1
        <4>3. i # 0 => c[i - 1] = a[i - 1]
          BY <4>1, <1>4
        <4> HIDE DEF c, Run
        <4> QED BY <4>1, <4>2, <4>3
      <3> QED BY <3>1, <3>2
    <2> QED BY <2>1
  <1> QED BY <1>2, <1>6

LEMMA FeedNone ==
    ASSUME NEW d
    PROVE  FeedAll(d, <<>>) = d
  <1> DEFINE a == [i \in 0 .. 0 |-> d]
  <1>1. Len(<<>>) = 0
    OBVIOUS
  <1>2. IsRun(a, d, <<>>)
    BY <1>1 DEF IsRun
  <1> HIDE DEF a
  <1>3. FeedAll(d, <<>>) = a[0]
    BY <1>1, <1>2, FeedRun
  <1> QED BY <1>3 DEF a

(* Bytes read in two portions are read as in one.                           *)
LEMMA FeedConcat ==
    ASSUME NEW S, NEW u \in Seq(S), NEW v \in Seq(S), NEW d
    PROVE  FeedAll(d, u \o v) = FeedAll(FeedAll(d, u), v)
  <1>1. Len(u) \in Nat /\ Len(v) \in Nat /\ Len(u \o v) = Len(u) + Len(v)
    BY ConcatProperties, LenProperties
  <1>2. PICK a : IsRun(a, d, u)
    BY <1>1, RunExists
  <1>3. FeedAll(d, u) = a[Len(u)]
    BY <1>1, <1>2, FeedRun
  <1>4. PICK c : IsRun(c, a[Len(u)], v)
    BY <1>1, RunExists
  <1>5. FeedAll(a[Len(u)], v) = c[Len(v)]
    BY <1>1, <1>4, FeedRun
  <1>6. PICK m \in Nat, n \in Nat : m = Len(u) /\ n = Len(v)
    BY <1>1
  <1> DEFINE e == [i \in 0 .. m + n |-> IF i <= m THEN a[i] ELSE c[i - m]]
  <1>7. ASSUME NEW i \in 0 .. m + n
        PROVE  e[i] = IF i = 0 THEN d ELSE Feed(e[i - 1], (u \o v)[i])
    <2>1. CASE i <= m
      <3>1. i \in 0 .. m /\ e[i] = a[i] /\ (i # 0 => i - 1 \in 0 .. m /\ e[i - 1] = a[i - 1])
        BY <2>1
      <3>2. a[i] = IF i = 0 THEN d ELSE Feed(a[i - 1], u[i])
        BY <1>2, <1>6, <3>1 DEF IsRun
      <3>3. i # 0 => (u \o v)[i] = u[i]
        BY <1>1, <1>6, <2>1, ConcatProperties
      <3> HIDE DEF e
      <3> QED BY <3>1, <3>2, <3>3
    <2>2. CASE i > m
      <3>1. i - m \in 0 .. n /\ i - m # 0 /\ e[i] = c[i - m]
        BY <2>2
      <3>2. c[i - m] = Feed(c[i - m - 1], v[i - m])
        BY <1>4, <1>6, <3>1 DEF IsRun
      <3>3. (u \o v)[i] = v[i - m]
        BY <1>1, <1>6, <2>2, ConcatProperties
      <3>4. e[i - 1] = c[i - m - 1]
        <4>1. CASE i - 1 = m
          <5>1. c[0] = a[m]
            BY <1>4, <1>6 DEF IsRun
          <5>2. e[i - 1] = a[m] /\ i - m - 1 = 0
            BY <4>1
          <5> HIDE DEF e
          <5> QED BY <5>1, <5>2
        <4>2. CASE i - 1 # m
          <5>1. i - 1 \in 0 .. m + n /\ ~(i - 1 <= m) /\ i - 1 - m = i - m - 1
            BY <4>2, <2>2
          <5> QED BY <5>1
        <4> QED BY <4>1, <4>2
      <3>5. i # 0
        BY <2>2
      <3> HIDE DEF e
      <3>6. e[i] = Feed(e[i - 1], (u \o v)[i])
        BY <3>1, <3>2, <3>3, <3>4
      <3> QED BY <3>5, <3>6
    <2>3. i <= m \/ i > m
      OBVIOUS
    <2> HIDE DEF e
    <2> QED BY <2>1, <2>2, <2>3
  <1>8. IsRun(e, d, u \o v)
    <2>1. e = [i \in 0 .. m + n |-> e[i]]
      OBVIOUS
    <2> HIDE DEF e
    <2> QED BY <1>1, <1>6, <1>7, <2>1 DEF IsRun
  <1>9. e[m + n] = c[n]
    <2>1. CASE n = 0
      <3>1. c[0] = a[m]
        BY <1>4, <1>6 DEF IsRun
      <3>2. e[m + n] = a[m]
        BY <2>1
      <3> HIDE DEF e
      <3> QED BY <2>1, <3>1, <3>2
    <2>2. CASE n # 0
      BY <2>2
    <2> QED BY <2>1, <2>2
  <1> HIDE DEF e
  <1>10. FeedAll(d, u \o v) = e[m + n]
    <2>1. Len(u \o v) = m + n /\ m + n \in Nat
      BY <1>1, <1>6
    <2>2. FeedAll(d, u \o v) = e[Len(u \o v)]
      BY <1>8, <2>1, FeedRun
    <2> QED BY <2>1, <2>2
  <1> QED BY <1>3, <1>5, <1>6, <1>9, <1>10
-----------------------------------------------------------------------------
(* The decoder, byte by byte.                                               *)

DecoderType ==
    [hdr : Nat, body : Nat, pad : Nat, end : Nat, of : Streams,
     got : [Streams -> Nat], eof : [Streams -> BOOLEAN], exit : Nat \cup {NoStatus}, bad : BOOLEAN]

\* No content is due of a stream that has ended, and no record behind the last.
DecoderOK(d) ==
    /\ d \in DecoderType
    /\ d.body > 0 => ~d.eof[d.of]
    /\ d.exit # NoStatus => d.hdr = 0 /\ d.body = 0 /\ d.pad = 0

\* Reading on takes nothing back: what has ended has all of its content.
Later(d, e) ==
    /\ DecoderOK(e)
    /\ ~e.bad =>
          /\ ~d.bad
          /\ \A s \in Streams : /\ d.got[s] <= e.got[s]
                                /\ d.eof[s] => e.eof[s] /\ e.got[s] = d.got[s]
          /\ d.exit # NoStatus => e.exit = d.exit /\ e.got = d.got /\ e.eof = d.eof

LEMMA LaterSame ==
    ASSUME NEW d, DecoderOK(d)
    PROVE  Later(d, d)
  BY DEF Later, DecoderOK, DecoderType

LEMMA LaterStill ==
    ASSUME NEW d, NEW e, NEW f, DecoderOK(d), Later(d, e), Later(e, f)
    PROVE  Later(d, f)
  <1>1. SUFFICES ASSUME ~f.bad
                 PROVE  /\ ~d.bad
                        /\ \A s \in Streams : /\ d.got[s] <= f.got[s]
                                              /\ d.eof[s] => f.eof[s] /\ f.got[s] = d.got[s]
                        /\ d.exit # NoStatus => f.exit = d.exit /\ f.got = d.got /\ f.eof = d.eof
    BY DEF Later
  <1>2. ~d.bad /\ ~e.bad
    BY <1>1 DEF Later
  <1>3. ASSUME NEW s \in Streams
        PROVE  d.got[s] <= f.got[s] /\ (d.eof[s] => f.eof[s] /\ f.got[s] = d.got[s])
    <2>1. d.got[s] \in Nat /\ e.got[s] \in Nat /\ f.got[s] \in Nat
      BY DEF Later, DecoderOK, DecoderType
    <2> QED BY <1>1, <1>2, <2>1 DEF Later
  <1>4. ASSUME d.exit # NoStatus PROVE f.exit = d.exit /\ f.got = d.got /\ f.eof = d.eof
    BY <1>1, <1>2, <1>4 DEF Later
  <1> QED BY <1>2, <1>3, <1>4

LEMMA ByteType ==
    ASSUME NEW c \in Byte
    PROVE  /\ c.kind \in {"header", "body", "pad", "end", "hole"} /\ c.of \in Streams
           /\ c.n \in Nat /\ c.pad \in Nat
  BY LayoutAssumption DEF Byte, Cell

LEMMA HeaderSizes ==
    /\ HeaderLen \in Nat /\ HeaderLen - 1 \in Nat /\ HeaderLen > 0
    /\ EndLen \in Nat /\ EndLen - 1 \in Nat /\ EndLen > 0
  BY LayoutAssumption

LEMMA NoneDue ==
    ASSUME NEW i \in Nat, NEW j \in Nat, NEW k \in Nat, NEW m \in Nat, i + j + k + m = 0
    PROVE  i = 0 /\ j = 0 /\ k = 0 /\ m = 0
  OBVIOUS

(* Each byte leaves the decoder later, or bad.                              *)
LEMMA BeginLater ==
    ASSUME NEW d, DecoderOK(d), NEW c \in Byte, AtBoundary(d)
    PROVE  Later(d, Begin(d, c))
  <1>1. d.hdr = 0 /\ d.body = 0 /\ d.pad = 0 /\ d.end = 0
    BY DEF AtBoundary, DecoderOK, DecoderType
  <1>2. CASE c.kind = "header" /\ StreamOpen(d, c.of)
    <2>1. Begin(d, c) = [d EXCEPT !.hdr = HeaderLen - 1, !.body = c.n, !.pad = c.pad,
                                  !.of = c.of, !.eof[c.of] = (c.n = 0)]
      BY <1>2 DEF Begin, Expect
    <2>2. ~d.eof[c.of] /\ d.exit = NoStatus
      BY <1>2 DEF StreamOpen
    <2>3. c.of \in Streams /\ c.n \in Nat /\ c.pad \in Nat /\ HeaderLen - 1 \in Nat
      BY ByteType, HeaderSizes
    <2> DEFINE e == [d EXCEPT !.hdr = HeaderLen - 1, !.body = c.n, !.pad = c.pad,
                              !.of = c.of, !.eof[c.of] = (c.n = 0)]
    <2>4. /\ e \in DecoderType /\ e.got = d.got /\ e.exit = d.exit /\ e.bad = d.bad /\ e.body = c.n /\ e.of = c.of
          /\ e.eof[c.of] = (c.n = 0) /\ \A s \in Streams : s # c.of => e.eof[s] = d.eof[s]
      BY <2>3 DEF DecoderOK, DecoderType
    <2> HIDE DEF e
    <2>5. DecoderOK(e)
      <3>1. c.n > 0 => ~(c.n = 0)
        BY <2>3
      <3>2. e.body > 0 => ~e.eof[e.of]
        BY <2>4, <3>1
      <3>3. ~(e.exit # NoStatus)
        BY <2>2, <2>4
      <3> QED BY <2>4, <3>2, <3>3 DEF DecoderOK
    <2>6. \A s \in Streams : d.got[s] <= d.got[s]
      BY DEF DecoderOK, DecoderType
    <2>7. Later(d, e)
      BY <2>2, <2>4, <2>5, <2>6 DEF Later
    <2> QED BY <2>1, <2>7 DEF e
  <1>3. CASE c.kind = "end" /\ MayEnd(d)
    <2>1. Begin(d, c) = [d EXCEPT !.end = EndLen - 1, !.exit = c.n]
      BY <1>3 DEF Begin, Expect
    <2>2. d.exit = NoStatus
      BY <1>3 DEF MayEnd
    <2>3. c.n \in Nat /\ EndLen - 1 \in Nat
      BY ByteType, HeaderSizes
    <2> DEFINE e == [d EXCEPT !.end = EndLen - 1, !.exit = c.n]
    <2>4. /\ e \in DecoderType /\ e.got = d.got /\ e.eof = d.eof /\ e.bad = d.bad
          /\ e.body = 0 /\ e.hdr = 0 /\ e.pad = 0
      BY <1>1, <2>3 DEF DecoderOK, DecoderType
    <2> HIDE DEF e
    <2>5. DecoderOK(e)
      BY <2>4 DEF DecoderOK
    <2>6. \A s \in Streams : d.got[s] <= d.got[s]
      BY DEF DecoderOK, DecoderType
    <2>7. Later(d, e)
      BY <2>2, <2>4, <2>5, <2>6 DEF Later
    <2> QED BY <2>1, <2>7 DEF e
  <1>4. CASE ~(c.kind = "header" /\ StreamOpen(d, c.of)) /\ ~(c.kind = "end" /\ MayEnd(d))
    <2>1. Begin(d, c) = [d EXCEPT !.bad = TRUE]
      BY <1>4, ByteType DEF Begin, Expect
    <2> QED BY <2>1 DEF Later, DecoderOK, DecoderType
  <1> QED BY <1>2, <1>3, <1>4

LEMMA FeedLater ==
    ASSUME NEW d, DecoderOK(d), NEW c \in Byte
    PROVE  Later(d, Feed(d, c))
  <1>0. /\ d.hdr \in Nat /\ d.body \in Nat /\ d.pad \in Nat /\ d.end \in Nat /\ d.bad \in BOOLEAN
        /\ d.of \in Streams /\ d.got \in [Streams -> Nat]
    BY DEF DecoderOK, DecoderType
  <1>1. CASE d.bad
    <2>1. Feed(d, c) = d
      BY <1>1 DEF Feed
    <2> QED BY <2>1, LaterSame
  <1>2. CASE ~d.bad /\ AtBoundary(d)
    <2>0. d.hdr = 0 /\ d.body = 0 /\ d.pad = 0 /\ d.end = 0
      <3>1. d.hdr + d.body + d.pad + d.end = 0
        BY <1>2 DEF AtBoundary
      <3> QED BY <1>0, <3>1, NoneDue
    <2>1. Feed(d, c) = Begin(d, c)
      BY <1>2, <2>0 DEF Feed
    <2> QED BY <1>2, <2>1, BeginLater
  <1>b. Later(d, [d EXCEPT !.bad = TRUE])
    BY DEF Later, DecoderOK, DecoderType
  <1>3. CASE ~d.bad /\ ~AtBoundary(d) /\ d.hdr > 0
    <2>1. Feed(d, c) = IF c.kind = "header" THEN [d EXCEPT !.hdr = d.hdr - 1] ELSE [d EXCEPT !.bad = TRUE]
      BY <1>3 DEF Feed, Expect
    <2>2. d.exit = NoStatus
      BY <1>3 DEF DecoderOK
    <2>3. Later(d, [d EXCEPT !.hdr = d.hdr - 1])
      BY <1>0, <1>3, <2>2 DEF Later, DecoderOK, DecoderType
    <2> QED BY <1>b, <2>1, <2>3
  <1>4. CASE ~d.bad /\ ~AtBoundary(d) /\ d.hdr = 0 /\ d.body > 0
    <2>1. Feed(d, c) = IF c.kind = "body" /\ c.of = d.of /\ c.n = d.got[d.of] + 1
                       THEN [d EXCEPT !.body = d.body - 1, !.got[d.of] = d.got[d.of] + 1]
                       ELSE [d EXCEPT !.bad = TRUE]
      BY <1>4 DEF Feed, Expect
    <2>2. d.exit = NoStatus /\ ~d.eof[d.of]
      BY <1>4 DEF DecoderOK
    <2> DEFINE e == [d EXCEPT !.body = d.body - 1, !.got[d.of] = d.got[d.of] + 1]
    <2>3. /\ e \in DecoderType /\ e.eof = d.eof /\ e.bad = d.bad /\ e.exit = d.exit /\ e.of = d.of
          /\ e.got[d.of] = d.got[d.of] + 1 /\ \A s \in Streams : s # d.of => e.got[s] = d.got[s]
      <3>1. d.body - 1 \in Nat /\ d.got[d.of] + 1 \in Nat
        BY <1>0, <1>4
      <3> DEFINE b == d.body - 1
                 g == d.got[d.of] + 1
      <3>2. b \in Nat /\ g \in Nat /\ g = d.got[d.of] + 1
        BY <3>1
      <3>3. e = [d EXCEPT !.body = b, !.got[d.of] = g]
        OBVIOUS
      <3> HIDE DEF b, g, e
      <3>4. [d.got EXCEPT ![d.of] = g] \in [Streams -> Nat]
        BY <1>0, <3>2
      <3>5. [d EXCEPT !.body = b, !.got = [d.got EXCEPT ![d.of] = g]] \in DecoderType
        BY <3>2, <3>4 DEF DecoderOK, DecoderType
      <3>6. e = [d EXCEPT !.body = b, !.got = [d.got EXCEPT ![d.of] = g]]
        BY <3>3
      <3>7. e.got = [d.got EXCEPT ![d.of] = g] /\ e.eof = d.eof /\ e.bad = d.bad /\ e.exit = d.exit /\ e.of = d.of
        BY <3>6 DEF DecoderOK, DecoderType
      <3> QED BY <1>0, <3>2, <3>5, <3>6, <3>7
    <2> HIDE DEF e
    <2>4. DecoderOK(e)
      BY <2>2, <2>3 DEF DecoderOK
    <2>5. \A s \in Streams : d.got[s] \in Nat /\ d.got[s] <= e.got[s]
      BY <1>0, <2>3
    <2>6. Later(d, e)
      BY <2>2, <2>3, <2>4, <2>5 DEF Later
    <2> QED BY <1>b, <2>1, <2>6 DEF e
  <1>5. CASE ~d.bad /\ ~AtBoundary(d) /\ d.hdr = 0 /\ d.body = 0 /\ d.pad > 0
    <2>1. Feed(d, c) = IF c.kind = "pad" THEN [d EXCEPT !.pad = d.pad - 1] ELSE [d EXCEPT !.bad = TRUE]
      BY <1>5 DEF Feed, Expect
    <2>2. d.exit = NoStatus
      BY <1>5 DEF DecoderOK
    <2>3. Later(d, [d EXCEPT !.pad = d.pad - 1])
      BY <1>0, <1>5, <2>2 DEF Later, DecoderOK, DecoderType
    <2> QED BY <1>b, <2>1, <2>3
  <1>6. CASE ~d.bad /\ ~AtBoundary(d) /\ d.hdr = 0 /\ d.body = 0 /\ d.pad = 0
    <2>1. Feed(d, c) = IF c.kind = "end" THEN [d EXCEPT !.end = d.end - 1] ELSE [d EXCEPT !.bad = TRUE]
      BY <1>6 DEF Feed, Expect
    <2>2. d.end > 0
      BY <1>0, <1>6 DEF AtBoundary
    <2>3. Later(d, [d EXCEPT !.end = d.end - 1])
      BY <1>0, <1>6, <2>2 DEF Later, DecoderOK, DecoderType
    <2> QED BY <1>b, <2>1, <2>3
  <1> QED BY <1>0, <1>1, <1>2, <1>3, <1>4, <1>5, <1>6

(* So do all of them: a prefix of a good reading is good.                   *)
LEMMA FeedAllLater ==
    ASSUME NEW d, DecoderOK(d), NEW bytes \in Seq(Byte)
    PROVE  Later(d, FeedAll(d, bytes))
  <1>1. Len(bytes) \in Nat
    BY LenProperties
  <1>2. PICK a : IsRun(a, d, bytes)
    BY <1>1, RunExists
  <1> DEFINE Odd == {i \in 0 .. Len(bytes) : ~Later(d, a[i])}
  <1>3. Odd = {}
    <2>1. SUFFICES ASSUME Odd # {} PROVE FALSE
      OBVIOUS
    <2>2. PICK m \in Odd : \A k \in Odd : m <= k
      <3>1. Odd \in SUBSET Nat BY <1>1
      <3> HIDE DEF Odd
      <3> QED BY <2>1, <3>1, LeastNat
    <2>3. m # 0
      <3>1. a[0] = d
        BY <1>1, <1>2 DEF IsRun
      <3> QED BY <2>2, <3>1, LaterSame
    <2>4. m \in 1 .. Len(bytes) /\ m \in 0 .. Len(bytes) /\ m - 1 \in 0 .. Len(bytes) /\ m - 1 \notin Odd
      BY <1>1, <2>2, <2>3
    <2>5. a[m] = Feed(a[m - 1], bytes[m]) /\ bytes[m] \in Byte
      BY <1>2, <2>3, <2>4, ElementOfSeq DEF IsRun
    <2>6. Later(d, a[m - 1])
      BY <2>4
    <2>7. Later(a[m - 1], a[m])
      BY <2>5, <2>6, FeedLater DEF Later
    <2>8. Later(d, a[m])
      BY <2>6, <2>7, LaterStill
    <2> QED BY <2>2, <2>8
  <1>4. Later(d, a[Len(bytes)])
    BY <1>1, <1>3
  <1> QED BY <1>1, <1>2, <1>4, FeedRun
-----------------------------------------------------------------------------
(* The records the writer makes, as the decoder reads them.                 *)

Content(s, i) == [kind |-> "body", of |-> s, n |-> i, pad |-> 0]

\* The first k of the bytes are the content of s behind its first n bytes.
Carries(bytes, s, n, k) == \A i \in 1 .. k : bytes[i] = Content(s, n + i)

\* A decoder that has read whole records only.
Ready(d) == DecoderOK(d) /\ ~d.bad /\ AtBoundary(d)

LEMMA ReadyParts ==
    ASSUME NEW d, Ready(d)
    PROVE  d.hdr = 0 /\ d.body = 0 /\ d.pad = 0 /\ d.end = 0 /\ d \in DecoderType
  <1>1. d.hdr \in Nat /\ d.body \in Nat /\ d.pad \in Nat /\ d.end \in Nat
    BY DEF Ready, DecoderOK, DecoderType
  <1>2. d.hdr + d.body + d.pad + d.end = 0
    BY DEF Ready, AtBoundary
  <1>3. d \in DecoderType
    BY DEF Ready, DecoderOK
  <1> QED BY <1>1, <1>2, <1>3, NoneDue

\* The steps of a run of k bytes, one by one.
Run(a, d, bytes, k) ==
    /\ Len(bytes) = k
    /\ a = [i \in 0 .. k |-> a[i]]
    /\ a[0] = d
    /\ \A i \in 1 .. k : a[i] = Feed(a[i - 1], bytes[i])

LEMMA RunTo ==
    ASSUME NEW a, NEW d, NEW bytes, NEW k \in Nat, Run(a, d, bytes, k)
    PROVE  FeedAll(d, bytes) = a[k]
  <1> USE DEF Run
  <1>1. ASSUME NEW i \in 0 .. k PROVE a[i] = IF i = 0 THEN d ELSE Feed(a[i - 1], bytes[i])
    OBVIOUS
  <1>2. IsRun(a, d, bytes)
    BY <1>1 DEF IsRun
  <1> QED BY <1>2, FeedRun

\* The decoder behind a header.
Headed(d, s, n, p) == [d EXCEPT !.hdr = 0, !.body = n, !.pad = p, !.of = s, !.eof[s] = (n = 0)]

(* A header on an open stream announces its record.                         *)
LEMMA HeaderRead ==
    ASSUME NEW d, Ready(d), NEW s \in Streams, StreamOpen(d, s), NEW n \in Nat, NEW p \in Nat
    PROVE  FeedAll(d, MakeHeader(s, n, p)) = Headed(d, s, n, p)
  <1> DEFINE c == [kind |-> "header", of |-> s, n |-> n, pad |-> p]
             At(i) == [d EXCEPT !.hdr = HeaderLen - i, !.body = n, !.pad = p, !.of = s, !.eof[s] = (n = 0)]
             a == [i \in 0 .. HeaderLen |-> IF i = 0 THEN d ELSE At(i)]
             bytes == MakeHeader(s, n, p)
  <1>1. Len(bytes) = HeaderLen /\ HeaderLen \in Nat /\ HeaderLen > 0 /\ \A i \in 1 .. HeaderLen : bytes[i] = c
    BY LayoutAssumption DEF MakeHeader, Copies
  <1>2. d.bad = FALSE /\ AtBoundary(d) /\ d \in DecoderType
    BY ReadyParts DEF Ready, DecoderOK, DecoderType
  <1>3. Feed(d, c) = At(1)
    <2>1. c.kind = "header" /\ c.of = s /\ c.n = n /\ c.pad = p
      OBVIOUS
    <2>2. Begin(d, c) = [d EXCEPT !.hdr = HeaderLen - 1, !.body = n, !.pad = p, !.of = s, !.eof[s] = (n = 0)]
      <3> HIDE DEF c
      <3> QED BY <2>1 DEF Begin, Expect
    <2>3. Feed(d, c) = Begin(d, c)
      <3> HIDE DEF c
      <3> QED BY <1>2, ReadyParts DEF Feed
    <2> HIDE DEF c
    <2> QED BY <2>2, <2>3
  <1>4. ASSUME NEW i \in 2 .. HeaderLen PROVE Feed(At(i - 1), c) = At(i)
    <2>1. At(i - 1).hdr = HeaderLen - (i - 1) /\ At(i - 1).bad = FALSE
      BY <1>2 DEF DecoderType
    <2>2. At(i - 1).body \in Nat /\ At(i - 1).pad \in Nat /\ At(i - 1).end \in Nat
      BY <1>2 DEF DecoderType
    <2>3. HeaderLen - (i - 1) \in Nat /\ HeaderLen - (i - 1) > 0 /\ HeaderLen - (i - 1) - 1 = HeaderLen - i
      BY <1>1, <1>4
    <2>4. ~AtBoundary(At(i - 1))
      <3> DEFINE b == At(i - 1)
      <3>1. b.hdr \in Nat /\ b.body \in Nat /\ b.pad \in Nat /\ b.end \in Nat /\ b.hdr > 0
        BY <2>1, <2>2, <2>3
      <3> HIDE DEF b
      <3>2. ~AtBoundary(b)
        BY <3>1 DEF AtBoundary
      <3> QED BY <3>2 DEF b
    <2>5. [At(i - 1) EXCEPT !.hdr = HeaderLen - i] = At(i)
      BY <1>2 DEF DecoderType
    <2> DEFINE b == At(i - 1)
    <2>6. b.hdr > 0 /\ b.bad = FALSE /\ ~AtBoundary(b) /\ [b EXCEPT !.hdr = b.hdr - 1] = At(i)
      BY <2>1, <2>3, <2>4, <2>5
    <2>7. c.kind = "header"
      OBVIOUS
    <2> HIDE DEF b, c, At
    <2>8. Feed(b, c) = At(i)
      BY <2>6, <2>7 DEF Feed, Expect
    <2> QED BY <2>8 DEF b
  <1>5. a[0] = d /\ \A i \in 1 .. HeaderLen : a[i] = At(i)
    <2> HIDE DEF At
    <2> QED BY <1>1
  <1>6. ASSUME NEW i \in 1 .. HeaderLen PROVE a[i] = Feed(a[i - 1], bytes[i])
    <2> HIDE DEF a, At, c, bytes
    <2>1. CASE i = 1
      BY <1>1, <1>3, <1>5, <2>1
    <2>2. CASE i # 1
      <3>1. i \in 2 .. HeaderLen /\ i - 1 \in 1 .. HeaderLen
        BY <2>2, <1>1
      <3> QED BY <1>1, <1>4, <1>5, <3>1
    <2> QED BY <2>1, <2>2
  <1>7. At(HeaderLen) = Headed(d, s, n, p)
    <2>1. HeaderLen - HeaderLen = 0
      BY <1>1
    <2> QED BY <2>1 DEF Headed
  <1>8. a = [i \in 0 .. HeaderLen |-> a[i]] /\ HeaderLen \in 1 .. HeaderLen
    BY <1>1
  <1>9. FeedAll(d, bytes) = a[HeaderLen]
    <2> HIDE DEF a, bytes, At
    <2>1. Run(a, d, bytes, HeaderLen)
      BY <1>1, <1>5, <1>6, <1>8 DEF Run
    <2> QED BY <1>1, <2>1, RunTo
  <1>10. a[HeaderLen] = At(HeaderLen)
    BY <1>5, <1>8
  <1> QED BY <1>7, <1>9, <1>10

\* The decoder behind k bytes of content.
Bodied(d, s, k) == [d EXCEPT !.body = 0, !.got[s] = d.got[s] + k]

(* The content announced is counted, and only the right content is.        *)
LEMMA BodyRead ==
    ASSUME NEW d \in DecoderType, NEW s \in Streams, NEW bytes, NEW k \in Nat, Len(bytes) = k,
           ~d.bad, d.hdr = 0, d.body = k, d.of = s,
           Carries(bytes, s, d.got[s], k)
    PROVE  FeedAll(d, bytes) = Bodied(d, s, k)
  <1> DEFINE At(i) == [d EXCEPT !.body = k - i, !.got[s] = d.got[s] + i]
             a == [i \in 0 .. k |-> At(i)]
  <1>0. d.got[s] \in Nat /\ d.got \in [Streams -> Nat] /\ d.pad \in Nat /\ d.end \in Nat
    BY DEF DecoderType
  <1>1. At(0) = d
    <2>1. k - 0 = d.body /\ d.got[s] + 0 = d.got[s]
      BY <1>0
    <2> QED BY <1>0, <2>1 DEF DecoderType
  <1>2. ASSUME NEW i \in 1 .. k PROVE Feed(At(i - 1), bytes[i]) = At(i)
    <2> DEFINE b == At(i - 1)
    <2>1. /\ b.hdr = 0 /\ b.bad = d.bad /\ b.of = s /\ b.pad = d.pad /\ b.end = d.end
          /\ b.body = k - (i - 1) /\ b.got = [d.got EXCEPT ![s] = d.got[s] + (i - 1)]
      BY DEF DecoderType
    <2>2. b.got[s] = d.got[s] + (i - 1) /\ b.got[s] + 1 = d.got[s] + i
      <3>1. b.got[s] = d.got[s] + (i - 1)
        BY <1>0, <2>1
      <3> HIDE DEF b
      <3> QED BY <1>0, <3>1
    <2>3. b.body - 1 = k - i /\ b.body > 0 /\ b.body \in Nat
      <3> HIDE DEF b
      <3> QED BY <2>1
    <2>4. [b EXCEPT !.body = k - i, !.got[s] = d.got[s] + i] = At(i)
      BY <1>0 DEF DecoderType
    <2>5. bytes[i].kind = "body" /\ bytes[i].of = s /\ bytes[i].n = d.got[s] + i
      BY DEF Carries, Content
    <2>6. ~AtBoundary(b)
      <3> HIDE DEF b
      <3> QED BY <1>0, <2>1, <2>3 DEF AtBoundary
    <2> HIDE DEF b, At
    <2>7. Feed(b, bytes[i]) = [b EXCEPT !.body = b.body - 1, !.got[s] = b.got[s] + 1]
      BY <2>1, <2>2, <2>3, <2>5, <2>6 DEF Feed, Expect
    <2>8. Feed(b, bytes[i]) = [b EXCEPT !.body = k - i, !.got[s] = d.got[s] + i]
      BY <2>2, <2>3, <2>7
    <2> QED BY <2>4, <2>8 DEF b
  <1>3. At(k) = Bodied(d, s, k)
    <2>1. k - k = 0
      OBVIOUS
    <2> QED BY <2>1 DEF Bodied
  <1>4. \A i \in 0 .. k : a[i] = At(i)
    OBVIOUS
  <1> HIDE DEF At
  <1>5. a[0] = d /\ a[k] = At(k) /\ a = [i \in 0 .. k |-> a[i]]
    BY <1>1
  <1>6. ASSUME NEW i \in 1 .. k PROVE a[i] = Feed(a[i - 1], bytes[i])
    <2>1. i \in 0 .. k /\ i - 1 \in 0 .. k
      OBVIOUS
    <2> QED BY <1>2, <1>4, <2>1
  <1> HIDE DEF a
  <1>7. FeedAll(d, bytes) = a[k]
    <2>1. Run(a, d, bytes, k)
      BY <1>5, <1>6 DEF Run
    <2> QED BY <2>1, RunTo
  <1> QED BY <1>3, <1>5, <1>7

LEMMA ByteConcat ==
    ASSUME NEW u \in Seq(Byte), NEW v \in Seq(Byte), NEW d
    PROVE  FeedAll(d, u \o v) = FeedAll(FeedAll(d, u), v)
  BY FeedConcat

(* Padding is passed over.                                                  *)
LEMMA PadRead ==
    ASSUME NEW d \in DecoderType, NEW s \in Streams, NEW k \in Nat,
           ~d.bad, d.hdr = 0, d.body = 0, d.pad = k
    PROVE  FeedAll(d, Padding(s, k)) = [d EXCEPT !.pad = 0]
  <1> DEFINE At(i) == [d EXCEPT !.pad = k - i]
             a == [i \in 0 .. k |-> At(i)]
             bytes == Padding(s, k)
  <1>0. d.end \in Nat /\ Len(bytes) = k /\ \A i \in 1 .. k : bytes[i].kind = "pad"
    BY DEF DecoderType, Padding, Copies
  <1>1. At(0) = d
    <2>1. k - 0 = d.pad
      OBVIOUS
    <2> QED BY <2>1 DEF DecoderType
  <1>2. ASSUME NEW i \in 1 .. k PROVE Feed(At(i - 1), bytes[i]) = At(i)
    <2> DEFINE b == At(i - 1)
    <2>1. /\ b.hdr = 0 /\ b.bad = d.bad /\ b.body = 0 /\ b.end = d.end /\ b.pad = k - (i - 1)
          /\ [b EXCEPT !.pad = k - i] = At(i)
      BY DEF DecoderType
    <2>2. bytes[i].kind = "pad"
      BY <1>0
    <2> HIDE DEF b, At, bytes
    <2>3. b.pad - 1 = k - i /\ b.pad > 0 /\ b.pad \in Nat
      BY <2>1
    <2>4. ~AtBoundary(b)
      BY <1>0, <2>1, <2>3 DEF AtBoundary
    <2>5. Feed(b, bytes[i]) = [b EXCEPT !.pad = b.pad - 1]
      BY <2>1, <2>2, <2>3, <2>4 DEF Feed, Expect
    <2>6. Feed(b, bytes[i]) = [b EXCEPT !.pad = k - i]
      BY <2>3, <2>5
    <2> QED BY <2>1, <2>6 DEF b
  <1>3. At(k) = [d EXCEPT !.pad = 0]
    <2>1. k - k = 0
      OBVIOUS
    <2> QED BY <2>1
  <1>4. \A i \in 0 .. k : a[i] = At(i)
    OBVIOUS
  <1> HIDE DEF At
  <1>5. a[0] = d /\ a[k] = At(k) /\ a = [i \in 0 .. k |-> a[i]]
    BY <1>1
  <1> HIDE DEF a, bytes
  <1>6. ASSUME NEW i \in 1 .. k PROVE a[i] = Feed(a[i - 1], bytes[i])
    <2>1. i \in 0 .. k /\ i - 1 \in 0 .. k
      OBVIOUS
    <2> QED BY <1>2, <1>4, <2>1
  <1>7. FeedAll(d, bytes) = a[k]
    <2>1. Run(a, d, bytes, k)
      BY <1>0, <1>5, <1>6 DEF Run
    <2> QED BY <2>1, RunTo
  <1> QED BY <1>3, <1>5, <1>7 DEF bytes

(* FCGI_END_REQUEST carries the status.                                     *)
LEMMA EndRead ==
    ASSUME NEW d, Ready(d), MayEnd(d), NEW status \in Nat
    PROVE  FeedAll(d, EndRequestRecord(status)) = [d EXCEPT !.end = 0, !.exit = status]
  <1> DEFINE c == [kind |-> "end", of |-> STDOUT, n |-> status, pad |-> 0]
             At(i) == [d EXCEPT !.end = EndLen - i, !.exit = status]
             a == [i \in 0 .. EndLen |-> IF i = 0 THEN d ELSE At(i)]
             bytes == EndRequestRecord(status)
  <1>1. Len(bytes) = EndLen /\ EndLen \in Nat /\ EndLen > 0 /\ \A i \in 1 .. EndLen : bytes[i] = c
    BY LayoutAssumption DEF EndRequestRecord, Copies
  <1>2. /\ d.bad = FALSE /\ AtBoundary(d) /\ d \in DecoderType
        /\ d.hdr = 0 /\ d.body = 0 /\ d.pad = 0
    BY ReadyParts DEF Ready, DecoderOK, DecoderType
  <1>3. Feed(d, c) = At(1)
    <2>1. c.kind = "end" /\ c.n = status
      OBVIOUS
    <2> HIDE DEF c
    <2>2. Begin(d, c) = [d EXCEPT !.end = EndLen - 1, !.exit = status]
      BY <2>1 DEF Begin, Expect
    <2>3. Feed(d, c) = Begin(d, c)
      BY <1>2 DEF Feed
    <2> QED BY <2>2, <2>3
  <1>4. ASSUME NEW i \in 2 .. EndLen PROVE Feed(At(i - 1), c) = At(i)
    <2> DEFINE b == At(i - 1)
    <2>1. /\ b.hdr = 0 /\ b.bad = FALSE /\ b.body = 0 /\ b.pad = 0 /\ b.end = EndLen - (i - 1)
          /\ [b EXCEPT !.end = EndLen - i] = At(i)
      BY <1>2 DEF DecoderType
    <2>2. c.kind = "end"
      OBVIOUS
    <2> HIDE DEF b, c, At
    <2>3. b.end - 1 = EndLen - i /\ b.end > 0
      BY <1>1, <2>1
    <2>4. ~AtBoundary(b)
      BY <2>1, <2>3, <1>1 DEF AtBoundary
    <2>5. Feed(b, c) = [b EXCEPT !.end = b.end - 1]
      BY <2>1, <2>2, <2>4 DEF Feed, Expect
    <2>6. Feed(b, c) = [b EXCEPT !.end = EndLen - i]
      BY <2>3, <2>5
    <2> QED BY <2>1, <2>6 DEF b
  <1>5. a[0] = d /\ \A i \in 1 .. EndLen : a[i] = At(i)
    <2> HIDE DEF At
    <2> QED BY <1>1
  <1>6. ASSUME NEW i \in 1 .. EndLen PROVE a[i] = Feed(a[i - 1], bytes[i])
    <2> HIDE DEF a, At, c, bytes
    <2>1. CASE i = 1
      BY <1>1, <1>3, <1>5, <2>1
    <2>2. CASE i # 1
      <3>1. i \in 2 .. EndLen /\ i - 1 \in 1 .. EndLen
        BY <2>2, <1>1
      <3> QED BY <1>1, <1>4, <1>5, <3>1
    <2> QED BY <2>1, <2>2
  <1>7. At(EndLen) = [d EXCEPT !.end = 0, !.exit = status]
    <2>1. EndLen - EndLen = 0
      BY <1>1
    <2> QED BY <2>1
  <1>8. a = [i \in 0 .. EndLen |-> a[i]] /\ EndLen \in 1 .. EndLen
    BY <1>1
  <1>9. FeedAll(d, bytes) = a[EndLen]
    <2> HIDE DEF a, bytes, At
    <2>1. Run(a, d, bytes, EndLen)
      BY <1>1, <1>5, <1>6, <1>8 DEF Run
    <2> QED BY <1>1, <2>1, RunTo
  <1>10. a[EndLen] = At(EndLen)
    BY <1>5, <1>8
  <1> QED BY <1>7, <1>9, <1>10

(* A whole record of content: what it announces is read, and the decoder is *)
(* at a boundary again.                                                     *)
LEMMA RecordRead ==
    ASSUME NEW d, Ready(d), NEW s \in Streams, StreamOpen(d, s), NEW k \in Nat, k > 0, k <= MaxLength,
           NEW p \in 0 .. Align - 1, NEW bytes \in Seq(Byte), Len(bytes) = k,
           Carries(bytes, s, d.got[s], k)
    PROVE  LET e == FeedAll(d, MakeHeader(s, k, p) \o bytes \o Padding(s, p))
           IN  Ready(e) /\ e.exit = d.exit /\ e.eof = d.eof /\ e.got = [d.got EXCEPT ![s] = d.got[s] + k]
  <1> DEFINE h == MakeHeader(s, k, p)
             q == Padding(s, p)
             e1 == FeedAll(d, h)
             e2 == FeedAll(e1, bytes)
             e3 == FeedAll(e2, q)
  <1>0. p \in Nat
    BY LayoutAssumption
  <1>1. h \in Seq(Byte) /\ q \in Seq(Byte)
    BY <1>0, MakeHeaderType, PaddingType
  <1>a. e1 = Headed(d, s, k, p)
    BY <1>0, HeaderRead
  <1> HIDE DEF h, q
  <1>2. FeedAll(d, h \o bytes \o q) = e3
    <2>1. h \o bytes \in Seq(Byte)
      BY <1>1, Concat
    <2>2. FeedAll(d, h \o bytes \o q) = FeedAll(FeedAll(d, h \o bytes), q)
      BY <1>1, <2>1, ByteConcat
    <2>3. FeedAll(d, h \o bytes) = e2
      BY <1>1, ByteConcat
    <2> QED BY <2>2, <2>3
  <1>3. /\ d \in DecoderType /\ d.hdr = 0 /\ d.body = 0 /\ d.pad = 0 /\ d.end = 0 /\ d.bad = FALSE
        /\ d.eof[s] = FALSE /\ d.exit = NoStatus
    BY ReadyParts DEF Ready, DecoderOK, DecoderType, StreamOpen
  <1>4. e1 = [d EXCEPT !.hdr = 0, !.body = k, !.pad = p, !.of = s, !.eof[s] = (k = 0)]
    BY <1>a DEF Headed
  <1> HIDE DEF e1
  <1>b. e1 = [d EXCEPT !.hdr = 0, !.body = k, !.pad = p, !.of = s, !.eof[s] = FALSE]
    <2>1. (k = 0) = FALSE
      OBVIOUS
    <2> QED BY <1>4, <2>1
  <1>5. /\ e1 \in DecoderType /\ e1.hdr = 0 /\ e1.body = k /\ e1.pad = p /\ e1.of = s /\ e1.end = 0
        /\ e1.bad = FALSE /\ e1.got = d.got /\ e1.exit = NoStatus
    BY <1>0, <1>3, <1>b DEF DecoderType
  <1>6. e1.eof = d.eof
    <2>1. e1.eof = [d.eof EXCEPT ![s] = FALSE]
      BY <1>3, <1>b DEF DecoderType
    <2>3. [d.eof EXCEPT ![s] = FALSE] = d.eof
      BY <1>3 DEF DecoderType
    <2> QED BY <2>1, <2>3
  <1>7. e2 = [e1 EXCEPT !.body = 0, !.got[s] = e1.got[s] + k]
    <2>1. Carries(bytes, s, e1.got[s], k)
      BY <1>5
    <2>2. ~e1.bad
      BY <1>5
    <2>a. e1 \in DecoderType /\ e1.hdr = 0 /\ e1.body = k /\ e1.of = s
      BY <1>5
    <2>3. FeedAll(e1, bytes) = Bodied(e1, s, k)
      BY <2>a, <2>1, <2>2, BodyRead
    <2> QED BY <2>3 DEF Bodied
  <1> HIDE DEF e2
  <1>8. /\ e2 \in DecoderType /\ e2.hdr = 0 /\ e2.body = 0 /\ e2.pad = p /\ e2.end = 0
        /\ e2.bad = FALSE /\ e2.exit = NoStatus /\ e2.eof = d.eof /\ e2.got = [d.got EXCEPT ![s] = d.got[s] + k]
    <2>1. d.got[s] + k \in Nat /\ e1.got[s] + k = d.got[s] + k
      BY <1>3, <1>5 DEF DecoderType
    <2>2. PICK g \in Nat : g = d.got[s] + k
      BY <2>1
    <2>3. e2 = [e1 EXCEPT !.body = 0, !.got[s] = g]
      BY <1>7, <2>1, <2>2
    <2>4. e2 \in DecoderType /\ e2.got = [e1.got EXCEPT ![s] = g]
      BY <1>5, <2>3 DEF DecoderType
    <2>5. /\ e2.hdr = 0 /\ e2.body = 0 /\ e2.pad = p /\ e2.end = 0
          /\ e2.bad = FALSE /\ e2.exit = NoStatus /\ e2.eof = d.eof
      BY <1>5, <1>6, <2>3 DEF DecoderType
    <2> QED BY <1>5, <2>2, <2>4, <2>5
  <1>9. e3 = [e2 EXCEPT !.pad = 0]
    BY <1>0, <1>8, PadRead DEF q
  <1> HIDE DEF e3
  <1>10. /\ e3 \in DecoderType /\ e3.hdr = 0 /\ e3.body = 0 /\ e3.pad = 0 /\ e3.end = 0
         /\ e3.bad = FALSE /\ e3.exit = NoStatus /\ e3.eof = d.eof /\ e3.got = [d.got EXCEPT ![s] = d.got[s] + k]
    BY <1>8, <1>9 DEF DecoderType
  <1>11. Ready(e3)
    BY <1>10 DEF Ready, DecoderOK, AtBoundary
  <1> QED BY <1>2, <1>3, <1>10, <1>11 DEF h, q

(* An empty record ends its stream.                                         *)
LEMMA EofRead ==
    ASSUME NEW d, Ready(d), NEW s \in Streams, StreamOpen(d, s)
    PROVE  LET e == FeedAll(d, MakeHeader(s, 0, 0))
           IN  Ready(e) /\ e.exit = NoStatus /\ e.got = d.got /\ e.eof = [d.eof EXCEPT ![s] = TRUE]
  <1> DEFINE e == FeedAll(d, MakeHeader(s, 0, 0))
  <1>1. e = [d EXCEPT !.hdr = 0, !.body = 0, !.pad = 0, !.of = s, !.eof[s] = (0 = 0)]
    <2>1. PICK n \in Nat : n = 0
      OBVIOUS
    <2>2. FeedAll(d, MakeHeader(s, n, n)) = Headed(d, s, n, n)
      BY HeaderRead
    <2> QED BY <2>1, <2>2 DEF Headed
  <1>2. /\ d \in DecoderType /\ d.hdr = 0 /\ d.body = 0 /\ d.pad = 0 /\ d.end = 0 /\ d.bad = FALSE
        /\ d.exit = NoStatus
    BY ReadyParts DEF Ready, DecoderOK, DecoderType, StreamOpen
  <1> HIDE DEF e
  <1>3. e = [d EXCEPT !.hdr = 0, !.body = 0, !.pad = 0, !.of = s, !.eof[s] = TRUE]
    BY <1>1
  <1>4. /\ e \in DecoderType /\ e.hdr = 0 /\ e.body = 0 /\ e.pad = 0 /\ e.end = 0 /\ e.bad = FALSE
        /\ e.exit = NoStatus /\ e.got = d.got /\ e.eof = [d.eof EXCEPT ![s] = TRUE]
    BY <1>2, <1>3 DEF DecoderType
  <1>5. Ready(e)
    BY <1>4 DEF Ready, DecoderOK, AtBoundary
  <1> QED BY <1>4, <1>5 DEF e

(* FCGI_END_REQUEST, where it may stand.                                    *)
LEMMA EndRequestRead ==
    ASSUME NEW d, Ready(d), MayEnd(d), NEW status \in Nat
    PROVE  LET e == FeedAll(d, EndRequestRecord(status))
           IN  Ready(e) /\ e.exit = status /\ e.got = d.got /\ e.eof = d.eof
  <1> DEFINE e == FeedAll(d, EndRequestRecord(status))
  <1>1. e = [d EXCEPT !.end = 0, !.exit = status]
    BY EndRead
  <1>2. /\ d \in DecoderType /\ d.hdr = 0 /\ d.body = 0 /\ d.pad = 0 /\ d.end = 0 /\ d.bad = FALSE
    BY ReadyParts DEF Ready, DecoderOK, DecoderType
  <1> HIDE DEF e
  <1>3. /\ e \in DecoderType /\ e.hdr = 0 /\ e.body = 0 /\ e.pad = 0 /\ e.end = 0 /\ e.bad = FALSE
        /\ e.exit = status /\ e.got = d.got /\ e.eof = d.eof
    BY <1>1, <1>2 DEF DecoderType
  <1>4. Ready(e)
    BY <1>3 DEF Ready, DecoderOK, AtBoundary
  <1> QED BY <1>3, <1>4 DEF e

(* What a failing write sent is on the way to what it would have sent.      *)
LEMMA PrefixRead ==
    ASSUME NEW d, DecoderOK(d), NEW bytes \in Seq(Byte), NEW k \in Nat, k <= Len(bytes)
    PROVE  LET e == FeedAll(d, SubSeq(bytes, 1, k))
           IN  Later(d, e) /\ Later(e, FeedAll(d, bytes))
  <1> DEFINE u == SubSeq(bytes, 1, k)
             v == SubSeq(bytes, k + 1, Len(bytes))
             e == FeedAll(d, u)
  <1>1. Len(bytes) \in Nat
    BY LenProperties
  <1>2. u \in Seq(Byte) /\ v \in Seq(Byte)
    <2>1. v \in Seq(Byte)
      BY <1>1, Part
    <2>2. SubSeq(bytes, 0 + 1, k) \in Seq(Byte)
      BY <1>1, Part
    <2> QED BY <2>1, <2>2
  <1>3. bytes = u \o v
    <2>1. 1 \in 1 .. Len(bytes) + 1 /\ k \in 1 - 1 .. Len(bytes) /\ Len(bytes) \in k .. Len(bytes)
      BY <1>1
    <2>2. u \o v = SubSeq(bytes, 1, Len(bytes))
      BY <2>1, ConcatAdjacentSubSeq
    <2>3. SubSeq(bytes, 1, Len(bytes)) = bytes
      BY SubSeqFull
    <2> QED BY <2>2, <2>3
  <1> HIDE DEF u, v
  <1>4. FeedAll(d, bytes) = FeedAll(e, v)
    BY <1>2, <1>3, ByteConcat
  <1>5. Later(d, e)
    BY <1>2, FeedAllLater
  <1>6. Later(e, FeedAll(e, v))
    BY <1>2, <1>5, FeedAllLater DEF Later
  <1> QED BY <1>4, <1>5, <1>6 DEF u
-----------------------------------------------------------------------------
(* The inductive invariant of the writer and its reader.  That the bytes    *)
(* sent so far are well formed is not inductive: the invariant has to say   *)
(* what is still due, in an open stream's buffer (Buffered) and in a close  *)
(* under way (CloseGoesOn), and that reading it on gives whole records.     *)

Closing(s) == call.at \in {"eof", "end", "flush"} /\ call.s = s
Finished(d, s) == d.got[s] = stored[s] /\ (d.eof[s] \/ (s = STDERR /\ stored[s] = 0))

\* A reading that goes no further than what was stored; an end is in place.
Within(d) == \A s \in Streams : /\ d.got[s] <= stored[s]
                                /\ d.eof[s] => rawWrite[s] /\ d.got[s] = stored[s]

\* Whether or not a write has failed.
Phases ==
    /\ call.at = "app" => call = Idle
    /\ \A s \in Streams : rawWrite[s] <=> wasFCloseCalled[s] \/ Closing(s)
    /\ \A s \in Streams : stored[s] <= MaxStored
    /\ call.at = "put" => /\ stored[call.s] + Len(call.rest) <= MaxStored
                          /\ Carries(call.rest, call.s, stored[call.s], Len(call.rest))

\* What the web server lacks of an open stream is behind the header's space.
Buffered(s) ==
    /\ Len(buff[s]) = HeaderLen + (stored[s] - seen.got[s])
    /\ \A i \in 1 .. stored[s] - seen.got[s] : buff[s][HeaderLen + i] = Content(s, seen.got[s] + i)

\* What the close in progress has still to send makes whole records, and
\* with them the web server has all of the stream.
CloseGoesOn ==
    LET s == call.s
        d == FeedAll(seen, buff[s] \o call.rest)
    IN  /\ Ready(d)
        /\ \A t \in Streams \ {s} : d.got[t] = seen.got[t] /\ d.eof[t] = seen.eof[t]
        /\ Finished(d, s)
        /\ call.at = "eof" => d.eof[s] /\ d.exit = NoStatus
        /\ call.at = "end" => d.exit = appStatus
        /\ call.at = "flush" => /\ call.rest = <<>>
                                /\ d.exit = IF nWriters = 0 THEN appStatus ELSE NoStatus

OnWire ==
    /\ \A s \in Streams : /\ isClosed[s] => wasFCloseCalled[s]
                          /\ ~rawWrite[s] => Buffered(s)
                          /\ ~isAnythingWritten[s] => seen.got[s] = 0
                          /\ wasFCloseCalled[s] => Finished(seen, s)
    /\ call.at \in {"app", "put"} => AtBoundary(seen) /\ (seen.exit = NoStatus <=> nWriters > 0)
    /\ call.at \in {"eof", "end", "flush"} => CloseGoesOn

WireOK ==
    /\ DecoderOK(seen) /\ ~seen.bad
    /\ Phases
    /\ Within(seen)
    /\ ~broken => OnWire

WireIInv == IInv /\ WireOK
-----------------------------------------------------------------------------
LEMMA SeenType ==
    ASSUME DecoderOK(seen), NEW s \in Streams
    PROVE  /\ seen.got \in [Streams -> Nat] /\ seen.eof \in [Streams -> BOOLEAN]
           /\ seen.got[s] \in Nat /\ seen.eof[s] \in BOOLEAN /\ seen.exit \in Nat \cup {NoStatus}
  BY DEF DecoderOK, DecoderType

(* EmptyBuffProc's record carries what the web server lacks of the stream.  *)
LEMMA EncapsulatedRead ==
    ASSUME TypeOK, NEW s \in Streams, ~rawWrite[s], Ready(seen), StreamOpen(seen, s), Buffered(s),
           seen.got[s] <= stored[s]
    PROVE  LET e == FeedAll(seen, Encapsulated(s))
           IN  /\ Ready(e) /\ e.exit = seen.exit /\ e.eof = seen.eof
               /\ e.got = [seen.got EXCEPT ![s] = stored[s]]
               /\ Encapsulated(s) = <<>> => e = seen
  <1>1. /\ seen.got[s] \in Nat /\ seen.got \in [Streams -> Nat] /\ stored[s] \in Nat /\ HeaderLen \in Nat
        /\ buff[s] \in Seq(Byte) /\ Len(buff[s]) \in Nat /\ Len(buff[s]) <= BuffLen[s]
        /\ BuffLen[s] \in Nat /\ MaxLength \in Nat /\ BuffLen[s] <= MaxLength + 1 /\ HeaderLen > 0
    BY SeenType, LayoutAssumption DEF Ready, TypeOK
  <1>2. PICK k \in Nat : k = stored[s] - seen.got[s]
    BY <1>1
  <1>3. Len(buff[s]) = HeaderLen + k /\ \A i \in 1 .. k : buff[s][HeaderLen + i] = Content(s, seen.got[s] + i)
    BY <1>2 DEF Buffered
  <1>4. Len(buff[s]) - HeaderLen = k /\ seen.got[s] + k = stored[s]
    BY <1>1, <1>2, <1>3
  <1>5. Encapsulated(s) = <<>> => FeedAll(seen, Encapsulated(s)) = seen
    BY FeedNone
  <1>6. CASE k = 0
    <2>1. Encapsulated(s) = <<>>
      BY <1>4, <1>6 DEF Encapsulated
    <2>2. [seen.got EXCEPT ![s] = stored[s]] = seen.got
      <3>1. stored[s] = seen.got[s]
        BY <1>1, <1>4, <1>6
      <3> QED BY <1>1, <3>1
    <2> QED BY <1>5, <2>1, <2>2
  <1>7. CASE k > 0
    <2>1. PICK p \in 0 .. Align - 1 : p = AlignInt8(k) - k
      BY AlignUp
    <2> DEFINE b == SubSeq(buff[s], HeaderLen + 1, Len(buff[s]))
    <2>2. Encapsulated(s) = MakeHeader(s, k, p) \o b \o Padding(s, p)
      BY <1>4, <1>7, <2>1 DEF Encapsulated
    <2>3. b \in Seq(Byte) /\ Len(b) = k
      <3>1. HeaderLen <= Len(buff[s])
        BY <1>1, <1>3
      <3> QED BY <1>1, <1>4, <3>1, Part
    <2>4. Carries(b, s, seen.got[s], k)
      <3>1. ASSUME NEW i \in 1 .. k PROVE b[i] = buff[s][HeaderLen + i]
        BY <1>1, <1>3
      <3> HIDE DEF b
      <3> QED BY <1>3, <3>1 DEF Carries
    <2>5. k <= MaxLength
      BY <1>1, <1>3
    <2> HIDE DEF b
    <2> DEFINE e == FeedAll(seen, MakeHeader(s, k, p) \o b \o Padding(s, p))
    <2>6. Ready(e) /\ e.exit = seen.exit /\ e.eof = seen.eof /\ e.got = [seen.got EXCEPT ![s] = seen.got[s] + k]
      BY <1>7, <2>3, <2>4, <2>5, RecordRead
    <2> HIDE DEF e
    <2>7. FeedAll(seen, Encapsulated(s)) = e
      BY <2>2 DEF e
    <2> QED BY <1>4, <1>5, <2>6, <2>7
  <1> QED BY <1>6, <1>7
-----------------------------------------------------------------------------
(* A step of the writer, as the web server sees it.                         *)

Answers == [Response!Next]_(Response!vars)

(* Part of a sending that ends within what was stored.                      *)
LEMMA SendWithin ==
    ASSUME DecoderOK(seen), TypeOK, NEW f, NEW e, Later(seen, f), Later(f, e), ~e.bad, Within(e)
    PROVE  DecoderOK(f) /\ ~f.bad /\ Within(f)
  <1>1. DecoderOK(f) /\ ~f.bad /\ DecoderOK(e)
    BY DEF Later
  <1>2. ASSUME NEW s \in Streams
        PROVE  f.got[s] <= stored[s] /\ (f.eof[s] => rawWrite[s] /\ f.got[s] = stored[s])
    <2>1. f.got[s] \in Nat /\ e.got[s] \in Nat /\ stored[s] \in Nat
      BY <1>1 DEF DecoderOK, DecoderType, TypeOK
    <2>2. f.got[s] <= e.got[s] /\ (f.eof[s] => e.eof[s] /\ e.got[s] = f.got[s])
      BY DEF Later
    <2>3. e.got[s] <= stored[s] /\ (e.eof[s] => rawWrite[s] /\ e.got[s] = stored[s])
      BY DEF Within
    <2> QED BY <2>1, <2>2, <2>3
  <1> QED BY <1>1, <1>2 DEF Within

\* A reading that ends the request has all of it.
Ends(d) == d.exit # NoStatus => d.exit = appStatus /\ \A s \in Streams : Finished(d, s)

(* Such a sending is one Deliver of the response, or no step of it.         *)
LEMMA SendDelivers ==
    ASSUME DecoderOK(seen), TypeOK, Phases, NEW f, NEW e, seen' = f, Later(seen, f), Later(f, e), ~e.bad, Within(e),
           seen.exit = NoStatus => Ends(e), UNCHANGED <<stored, appStatus>>
    PROVE  Answers
  <1>0. DecoderOK(f) /\ ~f.bad /\ DecoderOK(e)
    BY DEF Later
  <1>1. CASE seen.exit # NoStatus
    <2>1. f.exit = seen.exit /\ f.got = seen.got /\ f.eof = seen.eof
      BY <1>0, <1>1 DEF Later
    <2> QED BY <2>1 DEF Answers, Response!vars
  <1>2. CASE seen.exit = NoStatus
    <2>1. \A s \in Streams : /\ seen.got[s] \in Nat /\ f.got[s] \in Nat /\ e.got[s] \in Nat
                             /\ stored[s] \in Nat /\ stored[s] <= MaxStored /\ MaxStored \in Nat
      BY <1>0, BoundAssumption DEF DecoderOK, DecoderType, TypeOK, Phases
    <2>2. f.got \in [Streams -> Nat] /\ f.eof \in [Streams -> BOOLEAN]
      BY <1>0 DEF DecoderOK, DecoderType
    <2>3. \A s \in Streams : /\ seen.got[s] <= f.got[s]
                             /\ seen.eof[s] => f.eof[s]
                             /\ f.got[s] <= e.got[s] /\ e.got[s] <= stored[s]
                             /\ f.eof[s] => e.eof[s] /\ e.got[s] = f.got[s]
                             /\ e.eof[s] => e.got[s] = stored[s]
      BY <1>0 DEF Later, Within
    <2>4. \A s \in Streams : /\ seen.got[s] <= f.got[s] /\ f.got[s] <= stored[s]
                             /\ f.got[s] \in 0 .. MaxStored
                             /\ seen.eof[s] => f.eof[s]
                             /\ f.eof[s] => f.got[s] = stored[s]
      <3> TAKE s \in Streams
      <3>1. PICK i \in Nat, j \in Nat, k \in Nat, m \in Nat :
                i = seen.got[s] /\ j = f.got[s] /\ k = e.got[s] /\ m = stored[s]
        BY <2>1
      <3>2. i <= j /\ j <= k /\ k <= m /\ m <= MaxStored /\ MaxStored \in Nat
        BY <2>1, <2>3, <3>1
      <3>3. i <= j /\ j <= m /\ j \in 0 .. MaxStored
        BY <3>2
      <3>4. /\ seen.eof[s] => f.eof[s]
            /\ f.eof[s] => f.got[s] = stored[s]
        BY <2>3
      <3> QED BY <3>1, <3>3, <3>4
    <2>5. Response!Streams = Streams
      BY DEF Response!Streams, Streams
    <2>6. f.got \in [Streams -> 0 .. MaxStored]
      <3>1. \A s \in Streams : f.got[s] \in 0 .. MaxStored
        BY <2>4
      <3> QED BY <2>2, <3>1
    <2>7. f.exit = NoStatus \/ (f.exit = appStatus /\ \A s \in Streams : Response!Complete(s))
      <3>1. SUFFICES ASSUME f.exit # NoStatus
                     PROVE  f.exit = appStatus /\ \A s \in Streams : Response!Complete(s)
        OBVIOUS
      <3>2. e.exit = f.exit /\ e.got = f.got /\ e.eof = f.eof
        BY <3>1 DEF Later
      <3>3. Ends(e) /\ e.exit # NoStatus
        BY <1>2, <3>1, <3>2
      <3>4. e.exit = appStatus /\ \A s \in Streams : Finished(e, s)
        BY <3>3 DEF Ends
      <3> QED BY <3>2, <3>4 DEF Finished, Response!Complete
    <2>8. Response!Deliver
      <3>1. seen.exit = Response!Running
        BY <1>2 DEF NoStatus, Response!Running
      <3>2. f.exit = Response!Running \/ (f.exit = appStatus /\ \A s \in Response!Streams : Response!Complete(s))
        BY <2>5, <2>7 DEF NoStatus, Response!Running
      <3> HIDE DEF Streams
      <3>3. \A s \in Response!Streams : /\ seen.got[s] <= f.got[s] /\ f.got[s] <= stored[s]
                                        /\ seen.eof[s] => f.eof[s]
                                        /\ f.eof[s] => f.got[s] = stored[s]
        BY <2>4, <2>5
      <3>4. f.got \in [Response!Streams -> 0 .. MaxStored] /\ f.eof \in [Response!Streams -> BOOLEAN]
        BY <2>2, <2>5, <2>6
      <3> QED BY <3>1, <3>2, <3>3, <3>4 DEF Response!Deliver
    <2> QED BY <2>8 DEF Answers, Response!Next
  <1> QED BY <1>1, <1>2

LEMMA Quiet ==
    ASSUME Reads, sent' = <<>>
    PROVE  seen' = seen
  BY FeedNone DEF Reads

LEMMA Unseen ==
    ASSUME seen' = seen, UNCHANGED <<stored, appStatus>>
    PROVE  Answers
  BY DEF Answers, Response!vars

(* An open stream, between calls or in an FCGX_PutStr.                      *)
LEMMA OpenStream ==
    ASSUME WireIInv, NEW s \in Streams, call.at \in {"app", "put"}, ~wasFCloseCalled[s], ~broken
    PROVE  Ready(seen) /\ StreamOpen(seen, s) /\ ~rawWrite[s] /\ Buffered(s) /\ ~isClosed[s]
  <1>1. ~Closing(s) /\ ~Counted(s)
    BY DEF Closing, Counted
  <1>2. ~rawWrite[s]
    BY <1>1 DEF WireIInv, WireOK, Phases
  <1>3. ~seen.eof[s]
    BY <1>2 DEF WireIInv, WireOK, Within
  <1>4. nWriters > 0
    <2>1. nWriters = 1 \/ nWriters = 2
      BY <1>1 DEF WireIInv, IInv, ClosersCounted, Streams
    <2> QED BY <2>1
  <1>5. AtBoundary(seen) /\ seen.exit = NoStatus /\ Buffered(s) /\ ~isClosed[s]
    BY <1>2, <1>4 DEF WireIInv, WireOK, OnWire
  <1> QED BY <1>2, <1>3, <1>5 DEF WireIInv, WireOK, Ready, StreamOpen

(* What its record would bring is within what was stored.                   *)
LEMMA OpenRecord ==
    ASSUME WireIInv, NEW s \in Streams, call.at \in {"app", "put"}, ~wasFCloseCalled[s], ~broken
    PROVE  LET e == FeedAll(seen, Encapsulated(s))
           IN  /\ Ready(e) /\ Within(e) /\ e.exit = NoStatus /\ e.eof = seen.eof
               /\ e.got = [seen.got EXCEPT ![s] = stored[s]]
               /\ Encapsulated(s) = <<>> => e = seen
  <1> DEFINE e == FeedAll(seen, Encapsulated(s))
  <1>1. Ready(seen) /\ StreamOpen(seen, s) /\ ~rawWrite[s] /\ Buffered(s)
    BY OpenStream
  <1>2. TypeOK /\ seen.got[s] <= stored[s] /\ DecoderOK(seen) /\ Within(seen)
    BY DEF WireIInv, WireOK, IInv, Within
  <1>3. /\ Ready(e) /\ e.exit = seen.exit /\ e.eof = seen.eof
        /\ e.got = [seen.got EXCEPT ![s] = stored[s]]
        /\ Encapsulated(s) = <<>> => e = seen
    BY <1>1, <1>2, EncapsulatedRead
  <1> HIDE DEF e
  <1>4. Within(e)
    <2>1. ASSUME NEW t \in Streams
          PROVE  e.got[t] <= stored[t] /\ (e.eof[t] => rawWrite[t] /\ e.got[t] = stored[t])
      <3>1. seen.got \in [Streams -> Nat] /\ stored[t] \in Nat
        BY <1>2, SeenType DEF TypeOK
      <3>2. CASE t = s
        BY <1>1, <1>3, <3>1, <3>2 DEF StreamOpen
      <3>3. CASE t # s
        BY <1>2, <1>3, <3>1, <3>3 DEF Within
      <3> QED BY <3>2, <3>3
    <2> QED BY <2>1 DEF Within
  <1> QED BY <1>1, <1>3, <1>4 DEF e, StreamOpen

(* What the close in progress still brings is within it too.                *)
LEMMA CloseGoal ==
    ASSUME WireIInv, ~broken, call.at \in {"eof", "end", "flush"}
    PROVE  LET d == FeedAll(seen, buff[call.s] \o call.rest)
           IN  Ready(d) /\ Within(d) /\ Ends(d)
  <1> DEFINE d == FeedAll(seen, buff[call.s] \o call.rest)
  <1>1. /\ Ready(d) /\ Finished(d, call.s)
        /\ \A t \in Streams \ {call.s} : d.got[t] = seen.got[t] /\ d.eof[t] = seen.eof[t]
        /\ call.at = "eof" => d.exit = NoStatus
        /\ call.at = "end" => d.exit = appStatus
        /\ call.at = "flush" => d.exit = IF nWriters = 0 THEN appStatus ELSE NoStatus
    BY DEF WireIInv, WireOK, OnWire, CloseGoesOn
  <1>2. rawWrite[call.s] /\ call.s \in Streams /\ stored \in [Streams -> Nat]
    BY DEF WireIInv, WireOK, Phases, Closing, IInv, TypeOK
  <1> HIDE DEF d
  <1>3. Within(d)
    <2>1. ASSUME NEW t \in Streams
          PROVE  d.got[t] <= stored[t] /\ (d.eof[t] => rawWrite[t] /\ d.got[t] = stored[t])
      <3>2. CASE t = call.s
        BY <1>1, <1>2, <3>2 DEF Finished
      <3>3. CASE t # call.s
        BY <1>1, <3>3 DEF WireIInv, WireOK, Within
      <3> QED BY <3>2, <3>3
    <2> QED BY <2>1 DEF Within
  <1>4. ASSUME d.exit # NoStatus PROVE d.exit = appStatus /\ \A t \in Streams : Finished(d, t)
    <2>1. d.exit = appStatus /\ (call.at = "end" \/ (call.at = "flush" /\ nWriters = 0))
      BY <1>1, <1>4
    <2>2. ASSUME NEW t \in Streams, t # call.s PROVE wasFCloseCalled[t]
      <3>1. Counted(t)
        <4>1. CASE call.at = "end"
          <5>1. nWriters = 1 /\ ~Counted(call.s)
            BY <4>1 DEF WireIInv, IInv, ClosersCounted, Counted
          <5> QED BY <1>2, <2>2, <5>1 DEF WireIInv, IInv, ClosersCounted, Streams
        <4>2. CASE call.at = "flush" /\ nWriters = 0
          BY <2>2, <4>2 DEF WireIInv, IInv, ClosersCounted, Streams
        <4> QED BY <2>1, <4>1, <4>2
      <3> QED BY <2>2, <3>1 DEF Counted
    <2>3. ASSUME NEW t \in Streams, t # call.s PROVE Finished(d, t)
      <3>1. Finished(seen, t)
        BY <2>2, <2>3 DEF WireIInv, WireOK, OnWire
      <3> QED BY <1>1, <2>3, <3>1 DEF Finished
    <2> QED BY <1>1, <2>1, <2>3
  <1> QED BY <1>1, <1>3, <1>4 DEF d, Ends
-----------------------------------------------------------------------------
(* Steps that do not look at the wire any more, and steps that fail on it.  *)

LEMMA PhasesSame ==
    ASSUME Phases, UNCHANGED <<call, rawWrite, wasFCloseCalled, stored>>
    PROVE  Phases'
  BY DEF Phases, Closing

LEMMA BrokenStep ==
    ASSUME WireIInv, IInv', broken, broken', Reads, Phases',
           \A s \in Streams : /\ rawWrite[s] => rawWrite'[s] /\ stored'[s] = stored[s]
                              /\ stored[s] <= stored'[s]
    PROVE  WireOK' /\ seen' = seen
  <1>1. seen' = seen
    BY DEF Reads
  <1>2. Within(seen)'
    <2>1. ASSUME NEW s \in Streams
          PROVE  seen.got[s] <= stored'[s] /\ (seen.eof[s] => rawWrite'[s] /\ seen.got[s] = stored'[s])
      <3>1. seen.got[s] <= stored[s] /\ (seen.eof[s] => rawWrite[s] /\ seen.got[s] = stored[s])
        BY DEF WireIInv, WireOK, Within
      <3>2. CASE rawWrite[s]
        BY <3>1, <3>2
      <3>3. CASE ~rawWrite[s]
        <4>1. seen.got[s] \in Nat /\ stored[s] \in Nat /\ stored'[s] \in Nat
          BY SeenType DEF WireIInv, WireOK, IInv, TypeOK
        <4> QED BY <3>1, <3>3, <4>1
      <3> QED BY <3>2, <3>3
    <2> QED BY <1>1, <2>1 DEF Within
  <1> QED BY <1>1, <1>2 DEF WireIInv, WireOK

(* A write, as far as it got, on the way to a reading that is within what   *)
(* was stored.                                                              *)
LEMMA SendStep ==
    ASSUME WireIInv, NEW f, NEW e, seen' = f, Later(seen, f), Later(f, e), ~e.bad, Within(e),
           seen.exit = NoStatus => Ends(e), UNCHANGED <<stored, rawWrite, appStatus>>
    PROVE  DecoderOK(seen)' /\ ~seen'.bad /\ Within(seen)' /\ Answers
  <1>1. TypeOK /\ Phases /\ DecoderOK(seen)
    BY DEF WireIInv, WireOK, IInv
  <1>2. DecoderOK(f) /\ ~f.bad /\ Within(f)
    BY <1>1, SendWithin
  <1>3. Within(seen)'
    BY <1>2 DEF Within
  <1>4. Answers
    BY <1>1, SendDelivers
  <1> QED BY <1>2, <1>3, <1>4

(* A write that fails after any prefix of the bytes.                        *)
LEMMA FailedSend ==
    ASSUME WireIInv, ~broken, broken', Reads, Phases',
           NEW bytes \in Seq(Byte), NEW k \in Nat, k <= Len(bytes), sent' = SubSeq(bytes, 1, k),
           NEW e, Later(FeedAll(seen, bytes), e), ~e.bad, Within(e),
           seen.exit = NoStatus => Ends(e), UNCHANGED <<stored, rawWrite, appStatus>>
    PROVE  WireOK' /\ Answers
  <1> DEFINE f == FeedAll(seen, SubSeq(bytes, 1, k))
  <1>1. DecoderOK(seen)
    BY DEF WireIInv, WireOK
  <1>2. seen' = f
    BY DEF Reads
  <1>3. Later(seen, f) /\ Later(f, FeedAll(seen, bytes))
    BY <1>1, PrefixRead
  <1> HIDE DEF f
  <1>4. Later(f, e)
    BY <1>3, LaterStill DEF Later
  <1>5. DecoderOK(seen)' /\ ~seen'.bad /\ Within(seen)' /\ Answers
    BY <1>2, <1>3, <1>4, SendStep
  <1> QED BY <1>5 DEF WireOK

(* EmptyBuffProc on an open stream: FCGX_FFlush, or FCGX_PutStr on its way. *)
LEMMA OpenFlush ==
    ASSUME WireIInv, IInv', NEW s \in Streams, call.at \in {"app", "put"}, ~isClosed[s],
           EmptyBuffProc(s), Reads, UNCHANGED <<call, stored>>
    PROVE  WireOK' /\ Answers
  <1> DEFINE bytes == Encapsulated(s)
             e == FeedAll(seen, bytes)
  <1>1. ~wasFCloseCalled[s] /\ TypeOK /\ Phases /\ DecoderOK(seen) /\ Within(seen)
    BY DEF WireIInv, WireOK, IInv, ClosersCounted
  <1>2. UNCHANGED <<wasFCloseCalled, rawWrite, nWriters, appStatus>>
    BY DEF EmptyBuffProc
  <1>3. Phases'
    BY <1>1, <1>2, PhasesSame
  <1>4. bytes \in Seq(Byte)
    BY <1>1, EncapsulatedType
  <1>5. CASE broken
    <2>1. broken'
      BY <1>5 DEF EmptyBuffProc, WriteOk, WriteFails
    <2>2. \A t \in Streams : /\ rawWrite[t] => rawWrite'[t] /\ stored'[t] = stored[t]
                             /\ stored[t] <= stored'[t]
      BY <1>1, <1>2 DEF TypeOK
    <2>3. WireOK' /\ seen' = seen
      BY <1>3, <1>5, <2>1, <2>2, BrokenStep
    <2> QED BY <1>2, <2>3, Unseen
  <1>6. ASSUME ~broken
        PROVE  /\ Ready(e) /\ Within(e) /\ e.exit = NoStatus /\ e.eof = seen.eof
               /\ e.got = [seen.got EXCEPT ![s] = stored[s]]
               /\ bytes = <<>> => e = seen
               /\ ~rawWrite[s]
    BY <1>1, <1>6, OpenRecord, OpenStream
  <1>a. ASSUME ~broken PROVE Later(seen, e) /\ Later(e, e) /\ ~e.bad /\ Ends(e)
    <2>1. Ready(e) /\ e.exit = NoStatus
      BY <1>a, <1>6
    <2>2. Later(seen, e)
      BY <1>1, <1>4, FeedAllLater
    <2> HIDE DEF e
    <2> QED BY <2>1, <2>2, LaterSame DEF Ready, Ends
  <1>7. CASE ~broken /\ WriteFails(s, bytes)
    <2>1. PICK k \in Cuts : k < Len(bytes) /\ sent' = SubSeq(bytes, 1, k) /\ broken'
      BY <1>7 DEF WriteFails
    <2>2. k \in Nat /\ k <= Len(bytes)
      BY <1>4, <2>1, BoundAssumption
    <2>3. Later(FeedAll(seen, bytes), e) /\ ~e.bad /\ Within(e) /\ Ends(e)
      BY <1>6, <1>7, <1>a
    <2> HIDE DEF e, bytes
    <2> QED BY <1>2, <1>3, <1>4, <1>7, <2>1, <2>2, <2>3, FailedSend
  <1>8. CASE ~broken /\ WriteOk(s, bytes)
    <2>1. seen' = e
      BY <1>8 DEF WriteOk, Reads
    <2>2. /\ Ready(e) /\ Within(e) /\ e.exit = NoStatus /\ e.eof = seen.eof
          /\ e.got = [seen.got EXCEPT ![s] = stored[s]]
          /\ bytes = <<>> => e = seen
          /\ ~rawWrite[s] /\ Later(seen, e) /\ Later(e, e) /\ ~e.bad /\ Ends(e)
      BY <1>6, <1>8, <1>a
    <2> HIDE DEF e, bytes
    <2>3. DecoderOK(seen)' /\ ~seen'.bad /\ Within(seen)' /\ Answers
      BY <1>2, <2>1, <2>2, SendStep
    <2>4. /\ buff' = [buff EXCEPT ![s] = Hole(s)]
          /\ isAnythingWritten' = [isAnythingWritten EXCEPT ![s] = @ \/ bytes # <<>>]
          /\ UNCHANGED <<isClosed, broken>>
      BY <1>8, <2>2 DEF WriteOk
    <2>5. OnWire /\ nWriters > 0
      <3>1. StreamOpen(seen, s)
        BY <1>1, <1>8, OpenStream
      <3>2. OnWire
        BY <1>8 DEF WireIInv, WireOK
      <3> QED BY <3>1, <3>2 DEF OnWire, StreamOpen
    <2>6. ASSUME NEW t \in Streams
          PROVE  /\ isClosed'[t] => wasFCloseCalled'[t]
                 /\ ~rawWrite'[t] => Buffered(t)'
                 /\ ~isAnythingWritten'[t] => seen'.got[t] = 0
                 /\ wasFCloseCalled'[t] => Finished(seen, t)'
      <3>1. /\ isClosed[t] => wasFCloseCalled[t]
            /\ ~rawWrite[t] => Buffered(t)
            /\ ~isAnythingWritten[t] => seen.got[t] = 0
            /\ wasFCloseCalled[t] => Finished(seen, t)
        BY <2>5 DEF OnWire
      <3>2. seen.got \in [Streams -> Nat] /\ stored[t] \in Nat
        BY <1>1, SeenType DEF TypeOK
      <3>3. CASE t = s
        <4>1. seen'.got[s] = stored[s] /\ buff'[s] = Hole(s) /\ Len(Hole(s)) = HeaderLen /\ HeaderLen \in Nat
          BY <1>1, <2>1, <2>2, <2>4, <3>2, HoleType, LayoutAssumption DEF TypeOK
        <4>2. Buffered(s)'
          <5>1. stored'[s] - seen'.got[s] = 0
            BY <3>2, <3>3, <4>1
          <5> QED BY <4>1, <5>1 DEF Buffered
        <4>3. ~isAnythingWritten'[s] => seen'.got[s] = 0
          <5>1. isAnythingWritten'[s] = (isAnythingWritten[s] \/ bytes # <<>>)
            BY <1>1, <2>4 DEF TypeOK
          <5> QED BY <2>1, <2>2, <3>1, <3>3, <5>1
        <4> QED BY <1>1, <1>2, <2>4, <3>1, <3>3, <4>2, <4>3
      <3>4. CASE t # s
        <4>1. seen'.got[t] = seen.got[t] /\ seen'.eof[t] = seen.eof[t] /\ buff'[t] = buff[t]
              /\ isAnythingWritten'[t] = isAnythingWritten[t]
          BY <1>1, <2>1, <2>2, <2>4, <3>2, <3>4 DEF TypeOK
        <4> QED BY <1>2, <2>4, <3>1, <4>1 DEF Buffered, Finished
      <3> QED BY <3>3, <3>4
    <2>7. AtBoundary(seen)' /\ (seen'.exit = NoStatus <=> nWriters' > 0)
      BY <1>2, <2>1, <2>2, <2>5 DEF Ready
    <2>8. OnWire'
      BY <2>6, <2>7 DEF OnWire
    <2> QED BY <1>3, <2>3, <2>8 DEF WireOK
  <1> QED BY <1>5, <1>7, <1>8 DEF EmptyBuffProc

(* EmptyBuffProc on a stream that is being closed: raw bytes go out, and    *)
(* what is left of the close still makes the same reading.                  *)
LEMMA ClosingFlush ==
    ASSUME WireIInv, IInv', call.at \in {"eof", "end"}, ~isClosed[call.s],
           EmptyBuffProc(call.s), Reads, UNCHANGED <<call, stored>>
    PROVE  WireOK' /\ Answers
  <1> DEFINE s == call.s
             bytes == buff[s]
             d == FeedAll(seen, bytes \o call.rest)
             f == FeedAll(seen, bytes)
  <1>1. /\ s \in Streams /\ TypeOK /\ Phases /\ DecoderOK(seen) /\ Within(seen) /\ rawWrite[s]
        /\ ~wasFCloseCalled[s]
    BY DEF WireIInv, WireOK, IInv, ClosersCounted, TypeOK, Phases, Closing
  <1>2. UNCHANGED <<wasFCloseCalled, rawWrite, nWriters, appStatus>>
    BY DEF EmptyBuffProc
  <1>3. Phases'
    BY <1>1, <1>2, PhasesSame
  <1>4. bytes \in Seq(Byte) /\ call.rest \in Seq(Byte) /\ Encapsulated(s) = bytes
    BY <1>1 DEF TypeOK, Encapsulated
  <1>5. CASE broken
    <2>1. broken'
      BY <1>5 DEF EmptyBuffProc, WriteOk, WriteFails
    <2>2. \A t \in Streams : /\ rawWrite[t] => rawWrite'[t] /\ stored'[t] = stored[t]
                             /\ stored[t] <= stored'[t]
      BY <1>1, <1>2 DEF TypeOK
    <2>3. WireOK' /\ seen' = seen
      BY <1>3, <1>5, <2>1, <2>2, BrokenStep
    <2> QED BY <1>2, <2>3, Unseen
  <1>6. ASSUME ~broken PROVE Ready(d) /\ Within(d) /\ Ends(d)
    BY <1>6, CloseGoal
  <1>7. d = FeedAll(f, call.rest)
    BY <1>4, ByteConcat
  <1>8. Later(seen, f) /\ Later(f, d)
    <2>1. Later(seen, f)
      BY <1>1, <1>4, FeedAllLater
    <2> HIDE DEF f
    <2>2. Later(f, FeedAll(f, call.rest))
      BY <1>4, <2>1, FeedAllLater DEF Later
    <2> QED BY <1>7, <2>1, <2>2
  <1>9. CASE ~broken /\ WriteFails(s, bytes)
    <2>1. PICK k \in Cuts : k < Len(bytes) /\ sent' = SubSeq(bytes, 1, k) /\ broken'
      BY <1>9 DEF WriteFails
    <2>2. k \in Nat /\ k <= Len(bytes)
      BY <1>4, <2>1, BoundAssumption
    <2>3. Later(FeedAll(seen, bytes), d) /\ ~d.bad /\ Within(d) /\ Ends(d)
      BY <1>6, <1>8, <1>9 DEF Ready
    <2> HIDE DEF d, bytes
    <2> QED BY <1>2, <1>3, <1>4, <1>9, <2>1, <2>2, <2>3, FailedSend
  <1>10. CASE ~broken /\ WriteOk(s, bytes)
    <2>1. seen' = f
      BY <1>10 DEF WriteOk, Reads
    <2>2. Ready(d) /\ Within(d) /\ Ends(d) /\ ~d.bad
      BY <1>6, <1>10 DEF Ready
    <2>3. /\ buff' = [buff EXCEPT ![s] = <<>>]
          /\ isAnythingWritten' = [isAnythingWritten EXCEPT ![s] = @ \/ bytes # <<>>]
          /\ UNCHANGED <<isClosed, broken>>
      BY <1>1, <1>10 DEF WriteOk
    <2>4. OnWire /\ CloseGoesOn
      BY <1>10 DEF WireIInv, WireOK, OnWire
    <2>5. /\ Finished(d, s)
          /\ \A t \in Streams \ {s} : d.got[t] = seen.got[t] /\ d.eof[t] = seen.eof[t]
          /\ call.at = "eof" => d.eof[s] /\ d.exit = NoStatus
          /\ call.at = "end" => d.exit = appStatus
      BY <2>4 DEF CloseGoesOn
    <2>6. bytes = <<>> => f = seen
      BY FeedNone
    <2> HIDE DEF d, f, bytes
    <2>7. DecoderOK(seen)' /\ ~seen'.bad /\ Within(seen)' /\ Answers
      BY <1>2, <1>8, <2>1, <2>2, SendStep
    <2>8. ASSUME NEW t \in Streams, t # s
          PROVE  f.got[t] = seen.got[t] /\ f.eof[t] = seen.eof[t]
      <3>1. seen.got[t] \in Nat /\ f.got[t] \in Nat /\ seen.eof[t] \in BOOLEAN /\ f.eof[t] \in BOOLEAN
        BY <1>1, <1>8, SeenType DEF Later, DecoderOK, DecoderType
      <3>2. seen.got[t] <= f.got[t] /\ f.got[t] <= d.got[t] /\ (seen.eof[t] => f.eof[t]) /\ (f.eof[t] => d.eof[t])
        BY <1>8, <2>2 DEF Later
      <3>3. d.got[t] = seen.got[t] /\ d.eof[t] = seen.eof[t]
        BY <2>5, <2>8
      <3> QED BY <3>1, <3>2, <3>3
    <2>9. ASSUME NEW t \in Streams
          PROVE  /\ isClosed'[t] => wasFCloseCalled'[t]
                 /\ ~rawWrite'[t] => Buffered(t)'
                 /\ ~isAnythingWritten'[t] => seen'.got[t] = 0
                 /\ wasFCloseCalled'[t] => Finished(seen, t)'
      <3>1. /\ isClosed[t] => wasFCloseCalled[t]
            /\ ~rawWrite[t] => Buffered(t)
            /\ ~isAnythingWritten[t] => seen.got[t] = 0
            /\ wasFCloseCalled[t] => Finished(seen, t)
        BY <2>4 DEF OnWire
      <3>2. CASE t = s
        <4>1. ~isAnythingWritten'[s] => seen'.got[s] = 0
          <5>1. isAnythingWritten'[s] = (isAnythingWritten[s] \/ bytes # <<>>)
            BY <1>1, <2>3 DEF TypeOK
          <5> QED BY <2>1, <2>6, <3>1, <3>2, <5>1
        <4> QED BY <1>1, <1>2, <2>3, <3>1, <3>2, <4>1
      <3>3. CASE t # s
        <4>1. seen'.got[t] = seen.got[t] /\ seen'.eof[t] = seen.eof[t] /\ buff'[t] = buff[t]
              /\ isAnythingWritten'[t] = isAnythingWritten[t]
          BY <1>1, <2>1, <2>3, <2>8, <3>3 DEF TypeOK
        <4> QED BY <1>2, <2>3, <3>1, <4>1 DEF Buffered, Finished
      <3> QED BY <3>2, <3>3
    <2>10. CloseGoesOn'
      <3>1. buff'[s] = <<>> /\ buff'[s] \o call.rest = call.rest
        <4>1. buff'[s] = <<>>
          BY <1>1, <2>3 DEF TypeOK
        <4> QED BY <1>4, <4>1
      <3>2. FeedAll(seen', buff'[call'.s] \o call'.rest) = d /\ call' = call
        BY <1>7, <2>1, <3>1
      <3>3. d.got[s] = stored'[s] /\ (d.eof[s] \/ (s = STDERR /\ stored'[s] = 0))
        BY <2>5 DEF Finished
      <3>4. \A t \in Streams \ {s} : d.got[t] = seen'.got[t] /\ d.eof[t] = seen'.eof[t]
        BY <2>1, <2>5, <2>8
      <3>5. call'.at \in {"eof", "end"} /\ call'.s = s /\ appStatus' = appStatus
        BY <1>2
      <3> HIDE DEF s
      <3> QED BY <2>2, <2>5, <3>2, <3>3, <3>4, <3>5 DEF CloseGoesOn, Finished
    <2>11. OnWire'
      BY <2>9, <2>10 DEF OnWire
    <2> QED BY <1>3, <2>7, <2>11 DEF WireOK
  <1> QED BY <1>4, <1>5, <1>9, <1>10 DEF EmptyBuffProc

LEMMA StatusIsNone ==
    ASSUME TypeOK
    PROVE  appStatus \in Nat /\ appStatus # NoStatus
  <1>1. appStatus \in Nat
    BY StatusAssumption DEF TypeOK
  <1> QED BY <1>1 DEF NoStatus

(* The final write of FCGX_FClose makes the stream's reading complete.      *)
LEMMA EndsClose ==
    ASSUME WireIInv, IInv', FCloseEnds, Reads
    PROVE  WireOK' /\ Answers
  <1>0. PICK s \in Streams : s = call.s
    BY DEF WireIInv, IInv, TypeOK
  <1> DEFINE bytes == buff[s]
             d == FeedAll(seen, bytes)
  <1>1. /\ s \in Streams /\ TypeOK /\ Phases /\ DecoderOK(seen) /\ Within(seen) /\ rawWrite[s]
        /\ call.at = "flush"
    BY <1>0 DEF WireIInv, WireOK, IInv, TypeOK, Phases, Closing, FCloseEnds
  <1>2. /\ UNCHANGED <<rawWrite, nWriters, appStatus, stored>> /\ call' = Idle
        /\ wasFCloseCalled' = [wasFCloseCalled EXCEPT ![s] = TRUE]
        /\ isClosed' = [isClosed EXCEPT ![s] = TRUE]
        /\ isAnythingWritten' = [isAnythingWritten EXCEPT ![s] = @ \/ bytes # <<>>]
    BY <1>0 DEF FCloseEnds
  <1>3. Phases'
    <2>1. ASSUME NEW t \in Streams PROVE rawWrite'[t] <=> wasFCloseCalled'[t]
      <3>1. rawWrite[t] <=> wasFCloseCalled[t] \/ t = s
        BY <1>0, <1>1 DEF Phases, Closing
      <3> QED BY <1>1, <1>2, <3>1 DEF TypeOK
    <2>2. call'.at = "app"
      BY <1>2 DEF Idle
    <2> QED BY <1>1, <1>2, <2>1 DEF Phases, Closing, Idle
  <1>4. bytes \in Seq(Byte)
    BY <1>1 DEF TypeOK
  <1>5. CASE broken
    <2>1. broken'
      BY <1>5 DEF FCloseEnds
    <2>2. \A t \in Streams : /\ rawWrite[t] => rawWrite'[t] /\ stored'[t] = stored[t]
                             /\ stored[t] <= stored'[t]
      BY <1>1, <1>2 DEF TypeOK
    <2>3. WireOK' /\ seen' = seen
      BY <1>3, <1>5, <2>1, <2>2, BrokenStep
    <2> QED BY <1>2, <2>3, Unseen
  <1>6. ASSUME ~broken
        PROVE  /\ Ready(d) /\ Within(d) /\ Ends(d) /\ Finished(d, s)
               /\ \A t \in Streams \ {s} : d.got[t] = seen.got[t] /\ d.eof[t] = seen.eof[t]
               /\ d.exit = IF nWriters = 0 THEN appStatus ELSE NoStatus
    <2>1. CloseGoesOn
      BY <1>1, <1>6 DEF WireIInv, WireOK, OnWire
    <2>2. call.rest = <<>>
      BY <1>1, <2>1 DEF CloseGoesOn
    <2>3. bytes \o call.rest = bytes
      BY <1>4, <2>2
    <2>4. FeedAll(seen, buff[call.s] \o call.rest) = d
      BY <1>0, <2>3
    <2> HIDE DEF d
    <2>5. Ready(d) /\ Within(d) /\ Ends(d)
      BY <1>1, <1>6, <2>4, CloseGoal
    <2> QED BY <1>0, <1>1, <2>1, <2>4, <2>5 DEF CloseGoesOn
  <1>7. Later(seen, d)
    BY <1>1, <1>4, FeedAllLater
  <1>8. ASSUME ~broken PROVE Later(d, d) /\ ~d.bad
    <2> HIDE DEF d
    <2> QED BY <1>6, <1>8, LaterSame DEF Ready
  <1>9. CASE ~broken /\ \E k \in {c \in Cuts : c < Len(bytes)} : sent' = SubSeq(bytes, 1, k) /\ broken'
    <2>1. PICK k \in Cuts : k < Len(bytes) /\ sent' = SubSeq(bytes, 1, k) /\ broken'
      BY <1>9
    <2>2. k \in Nat /\ k <= Len(bytes)
      BY <1>4, <2>1, BoundAssumption
    <2>3. Later(FeedAll(seen, bytes), d) /\ ~d.bad /\ Within(d) /\ Ends(d)
      BY <1>6, <1>8, <1>9
    <2> HIDE DEF d, bytes
    <2> QED BY <1>2, <1>3, <1>4, <1>9, <2>1, <2>2, <2>3, FailedSend
  <1>10. CASE ~broken /\ sent' = bytes /\ buff' = [buff EXCEPT ![s] = <<>>] /\ UNCHANGED broken
    <2>1. seen' = d
      BY <1>10 DEF Reads
    <2>2. /\ Ready(d) /\ Within(d) /\ Ends(d) /\ Finished(d, s)
          /\ \A t \in Streams \ {s} : d.got[t] = seen.got[t] /\ d.eof[t] = seen.eof[t]
          /\ d.exit = IF nWriters = 0 THEN appStatus ELSE NoStatus
          /\ Later(d, d) /\ ~d.bad
      BY <1>6, <1>8, <1>10
    <2>3. bytes = <<>> => d = seen
      BY FeedNone
    <2> HIDE DEF d, bytes
    <2>4. DecoderOK(seen)' /\ ~seen'.bad /\ Within(seen)' /\ Answers
      BY <1>2, <1>7, <2>1, <2>2, SendStep
    <2>5. ASSUME NEW t \in Streams
          PROVE  /\ isClosed'[t] => wasFCloseCalled'[t]
                 /\ ~rawWrite'[t] => Buffered(t)'
                 /\ ~isAnythingWritten'[t] => seen'.got[t] = 0
                 /\ wasFCloseCalled'[t] => Finished(seen, t)'
      <3>1. /\ isClosed[t] => wasFCloseCalled[t]
            /\ ~rawWrite[t] => Buffered(t)
            /\ ~isAnythingWritten[t] => seen.got[t] = 0
            /\ wasFCloseCalled[t] => Finished(seen, t)
        BY <1>10 DEF WireIInv, WireOK, OnWire
      <3>2. CASE t = s
        <4>1. ~isAnythingWritten'[s] => seen'.got[s] = 0
          <5>1. isAnythingWritten'[s] = (isAnythingWritten[s] \/ bytes # <<>>)
            BY <1>1, <1>2 DEF TypeOK
          <5> QED BY <2>1, <2>3, <3>1, <3>2, <5>1
        <4>2. Finished(seen, s)'
          BY <1>2, <2>1, <2>2 DEF Finished
        <4>3. wasFCloseCalled'[s]
          BY <1>1, <1>2 DEF TypeOK
        <4> QED BY <1>1, <1>2, <3>2, <4>1, <4>2, <4>3
      <3>3. CASE t # s
        <4>1. seen'.got[t] = seen.got[t] /\ seen'.eof[t] = seen.eof[t] /\ buff'[t] = buff[t]
              /\ isAnythingWritten'[t] = isAnythingWritten[t] /\ isClosed'[t] = isClosed[t]
              /\ wasFCloseCalled'[t] = wasFCloseCalled[t]
          BY <1>1, <1>2, <1>10, <2>1, <2>2, <3>3 DEF TypeOK
        <4> QED BY <1>2, <3>1, <4>1 DEF Buffered, Finished
      <3> QED BY <3>2, <3>3
    <2>6. AtBoundary(seen)' /\ (seen'.exit = NoStatus <=> nWriters' > 0)
      <3>1. AtBoundary(d) /\ d.exit = IF nWriters = 0 THEN appStatus ELSE NoStatus
        BY <2>2 DEF Ready
      <3>2. nWriters = 0 \/ nWriters > 0
        BY <1>1 DEF TypeOK
      <3> QED BY <1>1, <1>2, <2>1, <3>1, <3>2, StatusIsNone
    <2>7. call'.at = "app"
      BY <1>2 DEF Idle
    <2>8. OnWire'
      BY <2>5, <2>6, <2>7 DEF OnWire
    <2> QED BY <1>3, <2>4, <2>8 DEF WireOK
  <1>11. \/ sent' = bytes /\ buff' = [buff EXCEPT ![s] = <<>>] /\ UNCHANGED broken
         \/ \E k \in {c \in Cuts : c < Len(bytes)} : sent' = SubSeq(bytes, 1, k) /\ broken'
    BY <1>0 DEF FCloseEnds
  <1> QED BY <1>5, <1>9, <1>10, <1>11
-----------------------------------------------------------------------------
(* The steps that send nothing.                                             *)

LEMMA PutStrWire ==
    ASSUME WireIInv, IInv', NEW s \in Streams, NEW n \in PutSizes, PutStr(s, n), Reads
    PROVE  WireOK' /\ Answers
  <1>1. seen' = seen
    BY Quiet DEF PutStr, SendsNothing
  <1>2. Answers
    BY <1>1, Unseen DEF PutStr
  <1>3. n \in Nat /\ stored[s] + n <= MaxStored /\ call.at = "app" /\ TypeOK
    BY BoundAssumption DEF PutStr, Idle, WireIInv, IInv
  <1>4. /\ call' = Putting("put", s, NextContent(s, n))
        /\ UNCHANGED <<buff, streamVars, nWriters, appStatus, stored, broken>>
    BY DEF PutStr
  <1>5. Len(NextContent(s, n)) = n /\ Carries(NextContent(s, n), s, stored[s], n)
    BY <1>3 DEF NextContent, Carries, Content
  <1>6. call'.at = "put" /\ call'.s = s /\ call'.rest = NextContent(s, n)
    BY <1>4 DEF Putting
  <1>7. Phases'
    <2>1. \A t \in Streams : (rawWrite'[t] <=> wasFCloseCalled'[t] \/ Closing(t)') /\ stored'[t] <= MaxStored
      BY <1>3, <1>4, <1>6 DEF WireIInv, WireOK, Phases, Closing, streamVars
    <2>2. stored'[s] + Len(call'.rest) <= MaxStored /\ Carries(call'.rest, s, stored'[s], Len(call'.rest))
      BY <1>3, <1>4, <1>5, <1>6
    <2> QED BY <1>6, <2>1, <2>2 DEF Phases
  <1>8. Within(seen)' /\ DecoderOK(seen)' /\ ~seen'.bad
    BY <1>1, <1>4 DEF WireIInv, WireOK, Within, streamVars
  <1>9. ~broken' => OnWire'
    BY <1>1, <1>3, <1>4, <1>6 DEF WireIInv, WireOK, OnWire, Buffered, Finished, streamVars
  <1> QED BY <1>2, <1>7, <1>8, <1>9 DEF WireOK

LEMMA SetExitStatusWire ==
    ASSUME WireIInv, IInv', NEW status \in Status, SetExitStatus(status), Reads
    PROVE  WireOK' /\ Answers
  <1>1. seen' = seen
    BY Quiet DEF SetExitStatus, SendsNothing
  <1>2. call' = call /\ call.at = "app" /\ UNCHANGED <<buff, streamVars, nWriters, stored, broken>>
    BY DEF SetExitStatus, Idle
  <1>3. Answers
    <2>1. Response!SetStatus
      BY <1>1, <1>2 DEF SetExitStatus, Response!SetStatus
    <2> QED BY <2>1 DEF Answers, Response!Next
  <1>4. Phases' /\ Within(seen)' /\ DecoderOK(seen)' /\ ~seen'.bad
    BY <1>1, <1>2, PhasesSame DEF WireIInv, WireOK, Within, streamVars
  <1>5. ~broken' => OnWire'
    BY <1>1, <1>2 DEF WireIInv, WireOK, OnWire, Buffered, Finished, streamVars
  <1> QED BY <1>3, <1>4, <1>5 DEF WireOK

LEMMA ClearErrorWire ==
    ASSUME WireIInv, IInv', NEW s \in Streams, ClearError(s), Reads
    PROVE  WireOK' /\ Answers
  <1>1. seen' = seen
    BY Quiet DEF ClearError, SendsNothing
  <1>2. call' = call /\ call.at = "app"
        /\ UNCHANGED <<buff, isClosed, wasFCloseCalled, rawWrite, isAnythingWritten, nWriters, appStatus, stored, broken>>
    BY DEF ClearError, Idle
  <1>3. Answers
    BY <1>1, <1>2, Unseen
  <1>4. Phases' /\ Within(seen)' /\ DecoderOK(seen)' /\ ~seen'.bad
    BY <1>1, <1>2, PhasesSame DEF WireIInv, WireOK, Within
  <1>5. ~broken' => OnWire'
    BY <1>1, <1>2 DEF WireIInv, WireOK, OnWire, Buffered, Finished
  <1> QED BY <1>3, <1>4, <1>5 DEF WireOK
-----------------------------------------------------------------------------
(* The steps of a close: what is still to be sent makes a longer reading.   *)

(* Behind the stream's end, the last writer's FCGI_END_REQUEST is in place. *)
LEMMA AfterEofGoesOn ==
    ASSUME WireIInv, ~broken, NEW s \in Streams, ~Counted(s), call.at # "flush", AfterEof(s),
           NEW e, Ready(e), e.exit = NoStatus, Finished(e, s),
           \A t \in Streams \ {s} : e.got[t] = seen.got[t] /\ e.eof[t] = seen.eof[t]
    PROVE  LET g == FeedAll(e, call'.rest)
           IN  /\ Ready(g) /\ Finished(g, s)
               /\ \A t \in Streams \ {s} : g.got[t] = seen.got[t] /\ g.eof[t] = seen.eof[t]
               /\ call'.at = "end" => g.exit = appStatus
               /\ call'.at = "flush" => call'.rest = <<>> /\ g.exit = NoStatus /\ nWriters' # 0
  <1>1. nWriters \in {1, 2} /\ TypeOK
    BY DEF WireIInv, IInv, ClosersCounted, Streams
  <1>2. CASE nWriters = 1
    <2>1. call' = Putting("end", s, EndRequestRecord(appStatus))
      BY <1>2 DEF AfterEof
    <2>2. ASSUME NEW t \in Streams PROVE Finished(e, t)
      <3>1. CASE t = s
        BY <3>1
      <3>2. CASE t # s
        <4>1. Counted(t)
          BY <1>2, <3>2 DEF WireIInv, IInv, ClosersCounted, Streams
        <4>2. wasFCloseCalled[t]
          BY <4>1 DEF Counted
        <4>3. Finished(seen, t)
          BY <4>2 DEF WireIInv, WireOK, OnWire
        <4> QED BY <3>2, <4>3 DEF Finished
      <3> QED BY <3>1, <3>2
    <2>3. STDOUT \in Streams /\ STDERR \in Streams
      BY DEF Streams
    <2>4. MayEnd(e)
      <3>1. e.eof[STDOUT]
        BY <2>2, <2>3 DEF Finished
      <3>2. e.got[STDERR] = stored[STDERR] /\ (e.eof[STDERR] \/ stored[STDERR] = 0)
        BY <2>2, <2>3 DEF Finished
      <3> QED BY <3>1, <3>2 DEF MayEnd
    <2>5. appStatus \in Nat
      BY <1>1, StatusIsNone
    <2> DEFINE g == FeedAll(e, EndRequestRecord(appStatus))
    <2>6. Ready(g) /\ g.exit = appStatus /\ g.got = e.got /\ g.eof = e.eof
      BY <2>4, <2>5, EndRequestRead
    <2> HIDE DEF g
    <2>7. call'.at = "end" /\ FeedAll(e, call'.rest) = g
      BY <2>1 DEF Putting, g
    <2> QED BY <2>6, <2>7 DEF Finished
  <1>3. CASE nWriters = 2
    <2>1. call' = Putting("flush", s, <<>>) /\ nWriters' = 1
      BY <1>3 DEF AfterEof
    <2>2. call'.at = "flush" /\ call'.rest = <<>>
      BY <2>1 DEF Putting
    <2>3. FeedAll(e, call'.rest) = e
      BY <2>2, FeedNone
    <2> QED BY <2>1, <2>2, <2>3
  <1> QED BY <1>1, <1>2, <1>3

(* A step of the close that sends nothing leaves the rest of OnWire alone.  *)
LEMMA CloseMoves ==
    ASSUME WireIInv, ~broken, seen' = seen, NEW s \in Streams,
           UNCHANGED <<isClosed, wasFCloseCalled, isAnythingWritten, stored, appStatus>>,
           rawWrite'[s], \A t \in Streams \ {s} : rawWrite'[t] = rawWrite[t] /\ buff'[t] = buff[t],
           call'.at \in {"eof", "end", "flush"}, CloseGoesOn'
    PROVE  OnWire'
  <1>1. ASSUME NEW t \in Streams
        PROVE  /\ isClosed'[t] => wasFCloseCalled'[t]
               /\ ~rawWrite'[t] => Buffered(t)'
               /\ ~isAnythingWritten'[t] => seen'.got[t] = 0
               /\ wasFCloseCalled'[t] => Finished(seen, t)'
    <2>1. /\ isClosed[t] => wasFCloseCalled[t]
          /\ ~rawWrite[t] => Buffered(t)
          /\ ~isAnythingWritten[t] => seen.got[t] = 0
          /\ wasFCloseCalled[t] => Finished(seen, t)
      BY DEF WireIInv, WireOK, OnWire
    <2>2. ~rawWrite'[t] => Buffered(t)'
      <3>1. CASE t = s
        BY <3>1
      <3>2. CASE t # s
        <4>1. rawWrite'[t] = rawWrite[t] /\ buff'[t] = buff[t]
          BY <3>2
        <4> QED BY <2>1, <4>1 DEF Buffered
      <3> QED BY <3>1, <3>2
    <2>3. Finished(seen, t) => Finished(seen, t)'
      BY DEF Finished
    <2> QED BY <2>1, <2>2, <2>3
  <1> QED BY <1>1 DEF OnWire

(* FCGX_FClose: the last record and the stream's end are in the buffer.     *)
LEMMA FCloseWire ==
    ASSUME WireIInv, IInv', NEW s \in Streams, FClose(s), Reads
    PROVE  WireOK' /\ Answers
  <1>1. seen' = seen
    BY Quiet DEF FClose, SendsNothing
  <1>2. /\ UNCHANGED <<isClosed, wasFCloseCalled, FCGI_errno, isAnythingWritten, appStatus, stored, broken>>
        /\ buff' = [buff EXCEPT ![s] = Encapsulated(s)]
        /\ rawWrite' = [rawWrite EXCEPT ![s] = TRUE]
        /\ call.at = "app" /\ ~wasFCloseCalled[s] /\ ~Counted(s)
    BY DEF FClose, Idle, Counted
  <1>3. Answers
    BY <1>1, <1>2, Unseen
  <1>4. TypeOK /\ IInv /\ Phases /\ DecoderOK(seen) /\ Within(seen) /\ ~seen.bad
    BY DEF WireIInv, WireOK, IInv
  <1>6. call'.s = s /\ call'.at \in {"eof", "end", "flush"} /\ call'.rest \in Seq(Byte)
    <2>1. CASE NeedsEof(s, Encapsulated(s))
      <3>1. call' = Putting("eof", s, MakeHeader(s, 0, 0))
        BY <2>1 DEF FClose
      <3>2. MakeHeader(s, 0, 0) \in Seq(Byte)
        BY MakeHeaderType, LayoutAssumption
      <3> QED BY <3>1, <3>2 DEF Putting
    <2>2. CASE ~NeedsEof(s, Encapsulated(s))
      <3>1. AfterEof(s)
        BY <2>2 DEF FClose
      <3> QED BY <1>2, <1>4, <3>1, AfterEofType
    <2> QED BY <2>1, <2>2
  <1>7. \A t \in Streams : /\ rawWrite'[s] /\ buff'[s] = Encapsulated(s)
                           /\ t # s => rawWrite'[t] = rawWrite[t] /\ buff'[t] = buff[t]
    BY <1>2, <1>4 DEF TypeOK
  <1>8. Phases'
    <2>1. ASSUME NEW t \in Streams PROVE rawWrite'[t] <=> wasFCloseCalled'[t] \/ Closing(t)'
      <3>1. rawWrite[t] <=> wasFCloseCalled[t]
        BY <1>2, <1>4 DEF Phases, Closing
      <3>2. Closing(t)' <=> t = s
        BY <1>6 DEF Closing
      <3> QED BY <1>2, <1>7, <3>1, <3>2
    <2> QED BY <1>2, <1>4, <1>6, <2>1 DEF Phases
  <1>9. CASE broken
    <2>1. broken'
      BY <1>2, <1>9
    <2>2. \A t \in Streams : /\ rawWrite[t] => rawWrite'[t] /\ stored'[t] = stored[t]
                             /\ stored[t] <= stored'[t]
      BY <1>2, <1>4, <1>7 DEF TypeOK
    <2> QED BY <1>3, <1>8, <1>9, <2>1, <2>2, BrokenStep
  <1>10. CASE ~broken
    <2> DEFINE e == FeedAll(seen, Encapsulated(s))
               g == FeedAll(e, call'.rest)
    <2>1. /\ Ready(e) /\ Within(e) /\ e.exit = NoStatus /\ e.eof = seen.eof
          /\ e.got = [seen.got EXCEPT ![s] = stored[s]]
          /\ Encapsulated(s) = <<>> => e = seen
      BY <1>2, <1>10, OpenRecord
    <2>2. StreamOpen(seen, s)
      BY <1>2, <1>10, OpenStream
    <2>3. seen.got \in [Streams -> Nat] /\ seen.eof \in [Streams -> BOOLEAN] /\ stored[s] \in Nat
      BY <1>4, SeenType DEF TypeOK
    <2>4. FeedAll(seen, buff'[s] \o call'.rest) = g
      <3>1. Encapsulated(s) \in Seq(Byte)
        BY <1>4, EncapsulatedType
      <3> QED BY <1>6, <1>7, <3>1, ByteConcat
    <2> HIDE DEF e
    <2>5. e.got[s] = stored[s] /\ \A t \in Streams \ {s} : e.got[t] = seen.got[t] /\ e.eof[t] = seen.eof[t]
      BY <2>1, <2>3
    <2>6. /\ Ready(g) /\ Finished(g, s)
          /\ \A t \in Streams \ {s} : g.got[t] = seen.got[t] /\ g.eof[t] = seen.eof[t]
          /\ call'.at = "eof" => g.eof[s] /\ g.exit = NoStatus
          /\ call'.at = "end" => g.exit = appStatus
          /\ call'.at = "flush" => call'.rest = <<>> /\ g.exit = NoStatus /\ nWriters' # 0
      <3>1. CASE NeedsEof(s, Encapsulated(s))
        <4>1. call' = Putting("eof", s, MakeHeader(s, 0, 0))
          BY <3>1 DEF FClose
        <4>2. call'.at = "eof" /\ call'.rest = MakeHeader(s, 0, 0)
          BY <4>1 DEF Putting
        <4>3. StreamOpen(e, s)
          BY <2>1, <2>2 DEF StreamOpen
        <4>4. Ready(g) /\ g.exit = NoStatus /\ g.got = e.got /\ g.eof = [e.eof EXCEPT ![s] = TRUE]
          BY <2>1, <4>2, <4>3, EofRead
        <4> HIDE DEF g
        <4>5. g.eof[s] /\ g.got[s] = stored[s] /\ \A t \in Streams \ {s} : g.got[t] = seen.got[t] /\ g.eof[t] = seen.eof[t]
          BY <2>1, <2>3, <2>5, <4>4
        <4> QED BY <4>2, <4>4, <4>5 DEF Finished
      <3>2. CASE ~NeedsEof(s, Encapsulated(s))
        <4>1. AfterEof(s)
          BY <3>2 DEF FClose
        <4>2. s = STDERR /\ Encapsulated(s) = <<>> /\ ~isAnythingWritten[s]
          BY <3>2 DEF NeedsEof
        <4>3. seen.got[s] = 0
          BY <1>10, <4>2 DEF WireIInv, WireOK, OnWire
        <4>4. Finished(e, s)
          BY <2>1, <2>5, <4>2, <4>3 DEF Finished
        <4>5. call'.at # "eof"
          BY <1>2, <1>4, <4>1, AfterEofType
        <4>6. call.at # "flush"
          BY <1>2
        <4> QED BY <1>2, <1>10, <2>1, <2>5, <4>1, <4>4, <4>5, <4>6, AfterEofGoesOn
      <3> QED BY <3>1, <3>2
    <2> HIDE DEF g
    <2>7. CloseGoesOn'
      <3>1. FeedAll(seen', buff'[call'.s] \o call'.rest) = g
        BY <1>1, <1>6, <2>4
      <3>2. g.got[s] = stored'[s] /\ (g.eof[s] \/ (s = STDERR /\ stored'[s] = 0))
        BY <1>2, <2>6 DEF Finished
      <3> QED BY <1>1, <1>2, <1>6, <2>6, <3>1, <3>2 DEF CloseGoesOn, Finished
    <2>8. OnWire'
      BY <1>1, <1>2, <1>6, <1>7, <1>10, <2>7, CloseMoves
    <2>9. Within(seen)'
      BY <1>1, <1>2, <1>4, <1>7 DEF Within
    <2> QED BY <1>1, <1>3, <1>4, <1>8, <2>8, <2>9 DEF WireOK
  <1> QED BY <1>9, <1>10

(* A close behind its FCGX_PutStr: of the end of the stream, or of the      *)
(* FCGI_END_REQUEST record.                                                 *)
LEMMA CloseReturns ==
    ASSUME WireIInv, NEW s \in Streams, s = call.s, call.at \in {"eof", "end"}, PutReturns
    PROVE  call'.s = s /\ call'.at \in {"end", "flush"} /\ call'.rest \in Seq(Byte)
  <1>1. IInv
    BY DEF WireIInv
  <1>2. CASE call.at = "eof"
    <2>1. ~Counted(s) /\ AfterEof(s)
      BY <1>2 DEF WireIInv, IInv, ClosersCounted, Counted, PutReturns
    <2> QED BY <1>1, <2>1, AfterEofType
  <1>3. CASE call.at = "end"
    <2>1. call' = Putting("flush", s, <<>>)
      BY <1>3 DEF PutReturns
    <2> QED BY <2>1, EmptyType DEF Putting
  <1> QED BY <1>2, <1>3

LEMMA ClosingPhases ==
    ASSUME WireIInv, NEW s \in Streams, s = call.s, call.at \in {"eof", "end"},
           call'.s = s, call'.at \in {"eof", "end", "flush"}, UNCHANGED <<rawWrite, wasFCloseCalled, stored>>
    PROVE  Phases'
  <1>1. \A t \in Streams : Closing(t)' <=> Closing(t)
    BY DEF Closing
  <1> QED BY <1>1 DEF WireIInv, WireOK, Phases

(* FCGX_PutStr of a close's own bytes: they move from rest to the buffer.   *)
LEMMA CopyCloseWire ==
    ASSUME WireIInv, IInv', PutCopy, call.at \in {"eof", "end"}, Reads
    PROVE  WireOK' /\ Answers
  <1>0. PICK s \in Streams : s = call.s
    BY DEF WireIInv, IInv, TypeOK
  <1>1. /\ TypeOK /\ IInv /\ Phases /\ DecoderOK(seen) /\ Within(seen) /\ ~seen.bad
        /\ call.rest \in Seq(Byte) /\ buff[s] \in Seq(Byte) /\ Len(call.rest) \in Nat /\ rawWrite[s]
    BY <1>0 DEF WireIInv, WireOK, IInv, TypeOK, Phases, Closing
  <1>2. PICK m \in Nat : /\ m = (IF Len(call.rest) <= Room(s) THEN Len(call.rest) ELSE Room(s))
                         /\ 0 < m /\ m <= Len(call.rest)
    <2>1. Room(s) \in Int
      BY <1>1, LayoutAssumption DEF Room, TypeOK
    <2>2. (IF Len(call.rest) <= Room(s) THEN Len(call.rest) ELSE Room(s)) > 0
      BY <1>0 DEF PutCopy
    <2> QED BY <1>1, <2>1, <2>2
  <1>3. /\ buff' = [buff EXCEPT ![s] = buff[s] \o SubSeq(call.rest, 1, m)]
        /\ UNCHANGED <<streamVars, appStatus, broken>> /\ stored' = stored
        /\ IF m = Len(call.rest) THEN PutReturns
           ELSE call' = [call EXCEPT !.rest = SubSeq(call.rest, m + 1, Len(call.rest))] /\ UNCHANGED nWriters
    <2>1. stored' = [stored EXCEPT ![s] = stored[s]]
      BY <1>0 DEF PutCopy
    <2>2. stored' = stored
      BY <1>1, <2>1 DEF TypeOK
    <2> QED BY <1>0, <1>2, <2>2 DEF PutCopy
  <1>4. seen' = seen /\ Answers
    <2>1. seen' = seen
      BY Quiet DEF PutCopy, SendsNothing
    <2> QED BY <1>3, <2>1, Unseen
  <1> DEFINE u == SubSeq(call.rest, 1, m)
             v == SubSeq(call.rest, m + 1, Len(call.rest))
  <1>5. u \in Seq(Byte) /\ v \in Seq(Byte) /\ call.rest = u \o v
    <2>1. v \in Seq(Byte)
      BY <1>1, Part
    <2>2. SubSeq(call.rest, 0 + 1, m) \in Seq(Byte)
      BY <1>1, <1>2, Part
    <2>3. 1 \in 1 .. Len(call.rest) + 1 /\ m \in 1 - 1 .. Len(call.rest) /\ Len(call.rest) \in m .. Len(call.rest)
      BY <1>1, <1>2
    <2>4. u \o v = SubSeq(call.rest, 1, Len(call.rest))
      BY <1>1, <2>3, ConcatAdjacentSubSeq
    <2>5. SubSeq(call.rest, 1, Len(call.rest)) = call.rest
      BY <1>1, SubSeqFull
    <2>6. u \in Seq(Byte)
      BY <2>2
    <2>7. u \o v = call.rest
      BY <2>4, <2>5
    <2> HIDE DEF u, v
    <2> QED BY <2>1, <2>6, <2>7
  <1>6. m = Len(call.rest) => u = call.rest
    BY <1>1, SubSeqFull
  <1>7. buff'[s] = buff[s] \o u /\ \A t \in Streams \ {s} : buff'[t] = buff[t]
    BY <1>1, <1>3 DEF TypeOK
  <1> HIDE DEF u, v
  <1>8. call'.s = s /\ call'.at \in {"eof", "end", "flush"} /\ call'.rest \in Seq(Byte)
    <2>1. CASE m = Len(call.rest)
      BY <1>0, <1>3, <2>1, CloseReturns
    <2>2. CASE m # Len(call.rest)
      BY <1>0, <1>1, <1>3, <1>5, <2>2 DEF TypeOK, v
    <2> QED BY <2>1, <2>2
  <1>9. Phases'
    BY <1>0, <1>3, <1>8, ClosingPhases DEF streamVars
  <1>10. CASE broken
    <2>1. \A t \in Streams : /\ rawWrite[t] => rawWrite'[t] /\ stored'[t] = stored[t]
                             /\ stored[t] <= stored'[t]
      BY <1>1, <1>3 DEF TypeOK, streamVars
    <2>2. broken'
      BY <1>3, <1>10
    <2> QED BY <1>4, <1>9, <1>10, <2>1, <2>2, BrokenStep
  <1>11. CASE ~broken
    <2>a. PICK d : d = FeedAll(seen, buff[s] \o call.rest)
      OBVIOUS
    <2>b. PICK g : g = FeedAll(seen, buff'[s] \o call'.rest)
      OBVIOUS
    <2> DEFINE Goal == /\ Ready(g) /\ Finished(g, s)
                       /\ \A t \in Streams \ {s} : g.got[t] = seen.got[t] /\ g.eof[t] = seen.eof[t]
                       /\ call'.at = "eof" => g.eof[s] /\ g.exit = NoStatus
                       /\ call'.at = "end" => g.exit = appStatus
                       /\ call'.at = "flush" => /\ call'.rest = <<>>
                                                /\ g.exit = IF nWriters' = 0 THEN appStatus ELSE NoStatus
    <2>1. /\ Ready(d) /\ Finished(d, s)
          /\ \A t \in Streams \ {s} : d.got[t] = seen.got[t] /\ d.eof[t] = seen.eof[t]
          /\ call.at = "eof" => d.eof[s] /\ d.exit = NoStatus
          /\ call.at = "end" => d.exit = appStatus
      BY <1>0, <1>11, <2>a DEF WireIInv, WireOK, OnWire, CloseGoesOn
    <2> HIDE DEF Goal
    <2>2. ASSUME m # Len(call.rest) PROVE Goal
      <3>1. call'.rest = v /\ call'.at = call.at
        BY <1>1, <1>3, <2>2 DEF TypeOK, v
      <3>2. buff'[s] \o call'.rest = buff[s] \o call.rest
        <4>1. PICK x \in Seq(Byte), y \in Seq(Byte), z \in Seq(Byte) : x = buff[s] /\ y = u /\ z = v
          BY <1>1, <1>5
        <4>2. (x \o y) \o z = x \o (y \o z)
          OBVIOUS
        <4> QED BY <1>5, <1>7, <3>1, <4>1, <4>2
      <3>3. g = d
        BY <2>a, <2>b, <3>2
      <3>4. call'.at # "flush"
        BY <3>1
      <3> QED BY <2>1, <3>1, <3>3, <3>4 DEF Goal
    <2>3. ASSUME m = Len(call.rest) PROVE Goal
      <3>1. PutReturns /\ buff'[s] = buff[s] \o call.rest
        BY <1>3, <1>6, <1>7, <2>3
      <3>2. g = FeedAll(d, call'.rest)
        <4>1. buff'[s] \in Seq(Byte)
          BY <1>1, <3>1, Concat
        <4>2. PICK x \in Seq(Byte), y \in Seq(Byte) : x = buff'[s] /\ y = call'.rest
          BY <1>8, <4>1
        <4>3. FeedAll(seen, x \o y) = FeedAll(FeedAll(seen, x), y)
          BY ByteConcat
        <4>4. FeedAll(seen, x) = d
          BY <2>a, <3>1, <4>2
        <4> QED BY <2>b, <4>2, <4>3, <4>4
      <3>3. CASE call.at = "eof"
        <4>1. AfterEof(s) /\ ~Counted(s) /\ d.exit = NoStatus /\ call.at # "flush"
          BY <1>0, <1>1, <2>1, <3>1, <3>3 DEF PutReturns, IInv, ClosersCounted, Counted
        <4>2. call'.at # "eof"
          BY <1>0, <1>3, <2>3, CloseReturns
        <4>3. /\ Ready(FeedAll(d, call'.rest)) /\ Finished(FeedAll(d, call'.rest), s)
              /\ \A t \in Streams \ {s} : /\ FeedAll(d, call'.rest).got[t] = seen.got[t]
                                          /\ FeedAll(d, call'.rest).eof[t] = seen.eof[t]
              /\ call'.at = "end" => FeedAll(d, call'.rest).exit = appStatus
              /\ call'.at = "flush" => /\ call'.rest = <<>>
                                       /\ FeedAll(d, call'.rest).exit = NoStatus /\ nWriters' # 0
          BY <1>11, <2>1, <4>1, AfterEofGoesOn
        <4> QED BY <3>2, <4>2, <4>3 DEF Goal
      <3>4. CASE call.at = "end"
        <4>1. call' = Putting("flush", s, <<>>) /\ nWriters' = nWriters - 1 /\ nWriters = 1
          BY <1>0, <1>1, <3>1, <3>4 DEF PutReturns, IInv, ClosersCounted
        <4>2. call'.at = "flush" /\ call'.rest = <<>> /\ nWriters' = 0
          BY <4>1 DEF Putting
        <4>3. g = d
          BY <3>2, <4>2, FeedNone
        <4> QED BY <2>1, <3>4, <4>2, <4>3 DEF Goal
      <3> QED BY <1>1, <3>3, <3>4
    <2>4. Goal
      BY <2>2, <2>3
    <2>5. CloseGoesOn'
      <3> DEFINE h == FeedAll(seen', buff'[call'.s] \o call'.rest)
      <3>1. h = g
        BY <1>4, <1>8, <2>b
      <3> HIDE DEF h
      <3>2. g.got[s] = stored'[s] /\ (g.eof[s] \/ (s = STDERR /\ stored'[s] = 0))
        BY <1>3, <2>4 DEF Goal, Finished
      <3>3. /\ Ready(h) /\ h.got[s] = stored'[s] /\ (h.eof[s] \/ (s = STDERR /\ stored'[s] = 0))
            /\ \A t \in Streams \ {s} : h.got[t] = seen'.got[t] /\ h.eof[t] = seen'.eof[t]
            /\ call'.at = "eof" => h.eof[s] /\ h.exit = NoStatus
            /\ call'.at = "end" => h.exit = appStatus'
            /\ call'.at = "flush" => /\ call'.rest = <<>>
                                     /\ h.exit = IF nWriters' = 0 THEN appStatus' ELSE NoStatus
        BY <1>3, <1>4, <2>4, <3>1, <3>2 DEF Goal
      <3> QED BY <1>8, <3>3 DEF CloseGoesOn, Finished, h
    <2>6. UNCHANGED <<isClosed, wasFCloseCalled, isAnythingWritten, stored, appStatus, rawWrite>>
      BY <1>3 DEF streamVars
    <2>7. rawWrite'[s] /\ \A t \in Streams \ {s} : rawWrite'[t] = rawWrite[t] /\ buff'[t] = buff[t]
      BY <1>1, <1>7, <2>6
    <2>8. OnWire'
      BY <1>4, <1>8, <1>11, <2>5, <2>6, <2>7, CloseMoves
    <2>9. Within(seen)'
      BY <1>1, <1>4, <2>6 DEF Within
    <2> QED BY <1>1, <1>4, <1>9, <2>8, <2>9 DEF WireOK
  <1> QED BY <1>10, <1>11

LEMMA Split ==
    ASSUME NEW S, NEW u \in Seq(S), NEW m \in Nat, m <= Len(u)
    PROVE  /\ SubSeq(u, 1, m) \in Seq(S) /\ Len(SubSeq(u, 1, m)) = m
           /\ \A i \in 1 .. m : SubSeq(u, 1, m)[i] = u[i]
           /\ Len(SubSeq(u, m + 1, Len(u))) = Len(u) - m
           /\ \A i \in 1 .. Len(u) - m : SubSeq(u, m + 1, Len(u))[i] = u[m + i]
  <1>1. Len(u) \in Nat /\ \A i \in 1 .. Len(u) : u[i] \in S
    BY LenProperties, ElementOfSeq
  <1>2. PICK n \in Nat : n = Len(u)
    BY <1>1
  <1>3. \A i \in 1 .. m : u[i] \in S
    BY <1>1
  <1>4. /\ SubSeq(u, 1, m) \in Seq(S)
        /\ Len(SubSeq(u, 1, m)) = IF 1 <= m THEN m - 1 + 1 ELSE 0
        /\ \A i \in 1 .. m - 1 + 1 : SubSeq(u, 1, m)[i] = u[1 + i - 1]
    BY <1>3, SubSeqProperties
  <1>5. \A i \in m + 1 .. n : u[i] \in S
    BY <1>1, <1>2
  <1>6. /\ Len(SubSeq(u, m + 1, n)) = IF m + 1 <= n THEN n - (m + 1) + 1 ELSE 0
        /\ \A i \in 1 .. n - (m + 1) + 1 : SubSeq(u, m + 1, n)[i] = u[(m + 1) + i - 1]
    <2>1. PICK j \in Nat : j = m + 1
      OBVIOUS
    <2> QED BY <1>5, <2>1, SubSeqProperties
  <1>7. \A i \in 1 .. m : i \in 1 .. m - 1 + 1 /\ 1 + i - 1 = i
    OBVIOUS
  <1>8. \A i \in 1 .. n - m : i \in 1 .. n - (m + 1) + 1 /\ (m + 1) + i - 1 = m + i
    OBVIOUS
  <1>9. Len(SubSeq(u, 1, m)) = m /\ Len(SubSeq(u, m + 1, n)) = n - m
    BY <1>2, <1>4, <1>6
  <1> QED BY <1>2, <1>4, <1>6, <1>7, <1>8, <1>9

(* FCGX_PutStr of the application's bytes: the buffer carries them on.      *)
LEMMA CopyPutWire ==
    ASSUME WireIInv, IInv', PutCopy, call.at = "put", Reads
    PROVE  WireOK' /\ Answers
  <1>0. PICK s \in Streams : s = call.s
    BY DEF WireIInv, IInv, TypeOK
  <1>1. /\ TypeOK /\ IInv /\ Phases /\ DecoderOK(seen) /\ Within(seen) /\ ~seen.bad
        /\ call.rest \in Seq(Byte) /\ buff[s] \in Seq(Byte) /\ Len(call.rest) \in Nat /\ Len(buff[s]) \in Nat
        /\ stored[s] \in Nat /\ stored \in [Streams -> Nat] /\ MaxStored \in Nat
        /\ stored[s] + Len(call.rest) <= MaxStored /\ Carries(call.rest, s, stored[s], Len(call.rest))
    <2>1. /\ TypeOK /\ IInv /\ Phases /\ DecoderOK(seen) /\ Within(seen) /\ ~seen.bad /\ call.s = s
      BY <1>0 DEF WireIInv, WireOK, IInv
    <2>2. /\ call.rest \in Seq(Byte) /\ buff[s] \in Seq(Byte)
          /\ stored[s] \in Nat /\ stored \in [Streams -> Nat] /\ MaxStored \in Nat
      BY <2>1, BoundAssumption DEF TypeOK
    <2>3. Len(call.rest) \in Nat /\ Len(buff[s]) \in Nat
      BY <2>2, LenProperties
    <2>4. stored[s] + Len(call.rest) <= MaxStored /\ Carries(call.rest, s, stored[s], Len(call.rest))
      BY <2>1 DEF Phases
    <2> QED BY <2>1, <2>2, <2>3, <2>4
  <1>2. PICK m \in Nat : /\ m = (IF Len(call.rest) <= Room(s) THEN Len(call.rest) ELSE Room(s))
                         /\ 0 < m /\ m <= Len(call.rest)
    <2>1. Room(s) \in Int
      BY <1>1, LayoutAssumption DEF Room, TypeOK
    <2>2. (IF Len(call.rest) <= Room(s) THEN Len(call.rest) ELSE Room(s)) > 0
      BY <1>0 DEF PutCopy
    <2> QED BY <1>1, <2>1, <2>2
  <1>3. /\ buff' = [buff EXCEPT ![s] = buff[s] \o SubSeq(call.rest, 1, m)]
        /\ stored' = [stored EXCEPT ![s] = stored[s] + m]
        /\ UNCHANGED <<streamVars, appStatus, broken, nWriters>>
        /\ IF m = Len(call.rest) THEN call' = Idle
           ELSE call' = [call EXCEPT !.rest = SubSeq(call.rest, m + 1, Len(call.rest))]
    BY <1>0, <1>2 DEF PutCopy, PutReturns
  <1>4. seen' = seen
    BY Quiet DEF PutCopy, SendsNothing
  <1>5. ~wasFCloseCalled[s] /\ ~rawWrite[s] /\ \A t \in Streams : rawWrite[t] <=> wasFCloseCalled[t]
    <2>1. ~wasFCloseCalled[s]
      BY <1>1, <1>2 DEF Room
    <2> QED BY <1>1, <2>1 DEF Phases, Closing
  <1>6. /\ stored'[s] = stored[s] + m /\ \A t \in Streams \ {s} : stored'[t] = stored[t]
        /\ buff'[s] = buff[s] \o SubSeq(call.rest, 1, m) /\ \A t \in Streams \ {s} : buff'[t] = buff[t]
    BY <1>1, <1>3 DEF TypeOK
  <1>7. /\ m # Len(call.rest) => /\ call'.at = "put" /\ call'.s = s
                                 /\ call'.rest = SubSeq(call.rest, m + 1, Len(call.rest))
        /\ m = Len(call.rest) => call' = Idle /\ call'.at = "app"
    BY <1>0, <1>1, <1>3 DEF TypeOK, Idle
  <1>8. Phases'
    <2>1. \A t \in Streams : (rawWrite'[t] <=> wasFCloseCalled'[t]) /\ ~Closing(t)'
      BY <1>3, <1>5, <1>7 DEF streamVars, Closing
    <2>2. \A t \in Streams : stored'[t] <= MaxStored
      <3> TAKE t \in Streams
      <3>1. CASE t = s
        BY <1>1, <1>2, <1>6, <3>1
      <3>2. CASE t # s
        BY <1>1, <1>6, <3>2 DEF Phases
      <3> QED BY <3>1, <3>2
    <2>3. CASE m = Len(call.rest)
      BY <1>7, <2>1, <2>2, <2>3 DEF Phases
    <2>4. CASE m # Len(call.rest)
      <3> DEFINE v == SubSeq(call.rest, m + 1, Len(call.rest))
      <3>1. Len(v) = Len(call.rest) - m
        BY <1>1, <1>2, Split
      <3>2. ASSUME NEW i \in 1 .. Len(call.rest) - m PROVE v[i] = Content(s, stored'[s] + i)
        <4>1. v[i] = call.rest[m + i]
          BY <1>1, <1>2, Split
        <4>2. m + i \in 1 .. Len(call.rest) /\ stored[s] + (m + i) = stored'[s] + i
          BY <1>1, <1>2, <1>6
        <4>3. call.rest[m + i] = Content(s, stored[s] + (m + i))
          BY <1>1, <4>2 DEF Carries
        <4> QED BY <4>1, <4>2, <4>3
      <3> HIDE DEF v
      <3>3. Carries(v, s, stored'[s], Len(v))
        BY <3>1, <3>2 DEF Carries
      <3>4. stored'[s] + Len(v) <= MaxStored
        BY <1>1, <1>2, <1>6, <3>1
      <3>5. call'.at = "put" /\ call'.s = s /\ call'.rest = v
        BY <1>7, <2>4 DEF v
      <3> QED BY <2>1, <2>2, <3>3, <3>4, <3>5 DEF Phases
    <2> QED BY <2>3, <2>4
  <1>9. Within(seen)'
    <2>1. ASSUME NEW t \in Streams
          PROVE  seen.got[t] <= stored'[t] /\ (seen.eof[t] => rawWrite'[t] /\ seen.got[t] = stored'[t])
      <3>1. seen.got[t] \in Nat /\ seen.got[t] <= stored[t] /\ (seen.eof[t] => rawWrite[t] /\ seen.got[t] = stored[t])
        BY <1>1, SeenType DEF Within
      <3> QED BY <1>1, <1>2, <1>3, <1>5, <1>6, <3>1 DEF streamVars
    <2> QED BY <1>4, <2>1 DEF Within
  <1>10. Answers
    <2>1. Response!Streams = Streams
      BY DEF Response!Streams, Streams
    <2>2. ASSUME NEW t \in Streams
          PROVE  stored'[t] >= stored[t] /\ (seen.eof[t] => stored'[t] = stored[t]) /\ stored'[t] \in 0 .. MaxStored
      <3>1. stored'[t] <= MaxStored /\ stored[t] \in Nat
        BY <1>1, <1>8 DEF Phases
      <3>2. seen.eof[t] => rawWrite[t]
        BY <1>1 DEF Within
      <3> QED BY <1>1, <1>2, <1>5, <1>6, <3>1, <3>2
    <2>3. stored' \in [Streams -> 0 .. MaxStored]
      <3>1. DOMAIN stored' = Streams /\ stored' = [t \in Streams |-> stored'[t]]
        BY <1>1, <1>3
      <3> QED BY <2>2, <3>1
    <2> HIDE DEF Streams
    <2>4. Response!Give
      BY <1>3, <1>4, <2>1, <2>2, <2>3 DEF Response!Give
    <2> QED BY <2>4 DEF Answers, Response!Next
  <1>11. ASSUME ~broken PROVE OnWire'
    <2>1. OnWire /\ Buffered(s)
      BY <1>5, <1>11 DEF WireIInv, WireOK, OnWire
    <2>2. Buffered(s)'
      <3>1. PICK k \in Nat : k = stored[s] - seen.got[s]
        BY <1>1, SeenType DEF Within
      <3>2. Len(buff[s]) = HeaderLen + k /\ \A i \in 1 .. k : buff[s][HeaderLen + i] = Content(s, seen.got[s] + i)
        BY <2>1, <3>1 DEF Buffered
      <3>3. HeaderLen \in Nat /\ seen.got[s] \in Nat /\ stored'[s] - seen.got[s] = k + m
        BY <1>1, <1>6, <3>1, SeenType, LayoutAssumption
      <3> DEFINE u == SubSeq(call.rest, 1, m)
      <3>4. u \in Seq(Byte) /\ Len(u) = m /\ \A i \in 1 .. m : u[i] = call.rest[i]
        BY <1>1, <1>2, Split
      <3> HIDE DEF u
      <3>5. buff'[s] = buff[s] \o u
        BY <1>6 DEF u
      <3>6. Len(buff'[s]) = HeaderLen + (k + m)
        <4>1. PICK n \in Nat : n = HeaderLen
          BY <3>3
        <4>2. Len(buff'[s]) = Len(buff[s]) + Len(u)
          BY <1>1, <3>4, <3>5, Concat
        <4> QED BY <3>2, <3>4, <4>1, <4>2
      <3>7. ASSUME NEW i \in 1 .. k + m PROVE buff'[s][HeaderLen + i] = Content(s, seen.got[s] + i)
        <4>1. CASE i <= k
          <5>1. buff'[s][HeaderLen + i] = buff[s][HeaderLen + i]
            <6>1. HeaderLen + i \in 1 .. Len(buff[s]) + Len(u) /\ HeaderLen + i <= Len(buff[s])
              BY <3>2, <3>3, <3>4, <4>1
            <6> QED BY <1>1, <3>4, <3>5, <6>1, ConcatProperties
          <5> QED BY <3>2, <4>1, <5>1
        <4>2. CASE i > k
          <5>1. i - k \in 1 .. m /\ (HeaderLen + i) - Len(buff[s]) = i - k
            BY <3>2, <3>3, <4>2
          <5>2. buff'[s][HeaderLen + i] = u[i - k]
            <6>1. (buff[s] \o u)[HeaderLen + i] = u[(HeaderLen + i) - Len(buff[s])]
              <7>1. HeaderLen + i \in 1 .. Len(buff[s]) + Len(u) /\ ~(HeaderLen + i <= Len(buff[s]))
                BY <3>2, <3>3, <3>4, <4>2
              <7> QED BY <1>1, <3>4, <7>1, ConcatProperties
            <6> QED BY <3>5, <5>1, <6>1
          <5>3. u[i - k] = Content(s, stored[s] + (i - k))
            BY <1>1, <1>2, <3>4, <5>1 DEF Carries
          <5>4. stored[s] + (i - k) = seen.got[s] + i
            <6>1. PICK a \in Nat, b \in Nat : a = stored[s] /\ b = seen.got[s]
              BY <1>1, <3>3
            <6> QED BY <3>1, <6>1
          <5> QED BY <5>2, <5>3, <5>4
        <4> QED BY <4>1, <4>2
      <3> QED BY <1>4, <3>3, <3>6, <3>7 DEF Buffered
    <2>3. ASSUME NEW t \in Streams
          PROVE  /\ isClosed'[t] => wasFCloseCalled'[t]
                 /\ ~rawWrite'[t] => Buffered(t)'
                 /\ ~isAnythingWritten'[t] => seen'.got[t] = 0
                 /\ wasFCloseCalled'[t] => Finished(seen, t)'
      <3>1. /\ isClosed[t] => wasFCloseCalled[t]
            /\ ~rawWrite[t] => Buffered(t)
            /\ ~isAnythingWritten[t] => seen.got[t] = 0
            /\ wasFCloseCalled[t] => Finished(seen, t)
        BY <2>1 DEF OnWire
      <3>2. CASE t = s
        BY <1>3, <1>4, <1>5, <2>2, <3>1, <3>2 DEF streamVars
      <3>3. CASE t # s
        BY <1>3, <1>4, <1>6, <3>1, <3>3 DEF streamVars, Buffered, Finished
      <3> QED BY <3>2, <3>3
    <2>4. AtBoundary(seen)' /\ (seen'.exit = NoStatus <=> nWriters' > 0)
      BY <1>3, <1>4, <2>1 DEF OnWire
    <2>5. call'.at \in {"app", "put"}
      BY <1>7
    <2> QED BY <2>3, <2>4, <2>5 DEF OnWire
  <1>12. broken' = broken
    BY <1>3
  <1> QED BY <1>1, <1>4, <1>8, <1>9, <1>10, <1>11, <1>12 DEF WireOK

(* FCGX_PutStr gives up only on a stream that was closed, by FCGX_FClose or *)
(* by the failure of a write; a close's own bytes only by the latter.       *)
LEMMA PutFailsWire ==
    ASSUME WireIInv, IInv', PutFails, Reads
    PROVE  WireOK' /\ Answers
  <1>0. PICK s \in Streams : s = call.s
    BY DEF WireIInv, IInv, TypeOK
  <1>1. TypeOK /\ IInv /\ Phases /\ DecoderOK(seen) /\ Within(seen) /\ ~seen.bad
    BY DEF WireIInv, WireOK, IInv
  <1>2. UNCHANGED <<buff, streamVars, appStatus, stored, broken>> /\ isClosed[s] /\ PutReturns
        /\ call.at \in {"put", "eof", "end"}
    BY <1>0 DEF PutFails, PutPoints
  <1>3. seen' = seen /\ Answers
    <2>1. seen' = seen
      BY Quiet DEF PutFails, SendsNothing
    <2> QED BY <1>2, <2>1, Unseen
  <1>4. Within(seen)'
    BY <1>1, <1>2, <1>3 DEF Within, streamVars
  <1>5. CASE call.at = "put"
    <2>1. call' = Idle /\ nWriters' = nWriters /\ call'.at = "app"
      BY <1>2, <1>5 DEF PutReturns, Idle
    <2>2. Phases'
      BY <1>1, <1>2, <1>5, <2>1 DEF Phases, Closing, streamVars
    <2>3. ~broken' => OnWire'
      BY <1>2, <1>3, <1>5, <2>1 DEF WireIInv, WireOK, OnWire, Buffered, Finished, streamVars
    <2> QED BY <1>1, <1>3, <1>4, <2>2, <2>3 DEF WireOK
  <1>6. CASE call.at \in {"eof", "end"}
    <2>1. broken
      <3>1. ~wasFCloseCalled[s]
        BY <1>0, <1>1, <1>6 DEF IInv, ClosersCounted
      <3> QED BY <1>2, <3>1 DEF WireIInv, WireOK, OnWire
    <2>2. call'.s = s /\ call'.at \in {"end", "flush"}
      BY <1>0, <1>2, <1>6, CloseReturns
    <2>3. UNCHANGED <<rawWrite, wasFCloseCalled, stored>>
      BY <1>2 DEF streamVars
    <2>4. Phases'
      BY <1>0, <1>6, <2>2, <2>3, ClosingPhases
    <2>5. broken'
      BY <1>2, <2>1
    <2> QED BY <1>1, <1>3, <1>4, <2>4, <2>5 DEF WireOK
  <1> QED BY <1>2, <1>5, <1>6
-----------------------------------------------------------------------------
LEMMA InitWire == WireInit => WireIInv
  <1> SUFFICES ASSUME WireInit PROVE WireIInv
    OBVIOUS
  <1>1. IInv
    BY InitIInv DEF WireInit
  <1>2. DecoderOK(seen) /\ ~seen.bad /\ AtBoundary(seen)
    BY DEF WireInit, Decoder, DecoderOK, DecoderType, AtBoundary, Streams
  <1>3. Phases
    BY BoundAssumption DEF WireInit, Init, Phases, Idle, Closing
  <1>4. Within(seen)
    BY DEF WireInit, Init, Decoder, Within
  <1>5. OnWire
    <2>1. ASSUME NEW s \in Streams PROVE Buffered(s)
      <3>1. stored[s] = 0 /\ seen.got[s] = 0 /\ buff[s] = Hole(s)
        BY DEF WireInit, Init, Decoder
      <3>2. Len(buff[s]) = HeaderLen /\ HeaderLen \in Nat
        BY <3>1, HoleType, LayoutAssumption
      <3> QED BY <3>1, <3>2 DEF Buffered
    <2>2. call.at = "app" /\ nWriters > 0 /\ seen.exit = NoStatus
      BY DEF WireInit, Init, Decoder, Idle
    <2>3. ASSUME NEW s \in Streams PROVE ~isClosed[s] /\ ~wasFCloseCalled[s] /\ seen.got[s] = 0
      BY DEF WireInit, Init, Decoder
    <2> QED BY <1>2, <2>1, <2>2, <2>3 DEF OnWire
  <1> QED BY <1>1, <1>2, <1>3, <1>4, <1>5 DEF WireIInv, WireOK

(* Every step keeps the invariant, and is a step of FcgiResponse or none.   *)
LEMMA NextWire == WireIInv /\ [WireNext]_WireVars => WireIInv' /\ Answers
  <1> SUFFICES ASSUME WireIInv, [WireNext]_WireVars PROVE WireIInv' /\ Answers
    OBVIOUS
  <1>1. CASE UNCHANGED WireVars
    <2>1. seen' = seen /\ UNCHANGED vars
      BY <1>1 DEF WireVars
    <2>2. UNCHANGED <<buff, isClosed, wasFCloseCalled, FCGI_errno, rawWrite, isAnythingWritten, nWriters,
                      appStatus, sent, call, stored, broken>>
      BY <2>1 DEF vars, streamVars
    <2>3. Answers
      BY <2>1, <2>2, Unseen
    <2>4. IInv'
      BY <2>1, NextIInv DEF WireIInv
    <2>5. Phases' /\ Within(seen)'
      BY <2>1, <2>2, PhasesSame DEF WireIInv, WireOK, Within
    <2>6. ~broken' => OnWire'
      BY <2>1, <2>2 DEF WireIInv, WireOK, OnWire, Buffered, Finished, CloseGoesOn
    <2> QED BY <2>1, <2>3, <2>4, <2>5, <2>6 DEF WireIInv, WireOK
  <1>2. CASE WireNext
    <2>1. IInv' /\ Next /\ Reads
      BY <1>2, NextIInv DEF WireIInv, WireNext
    <2>2. CASE Application
      <3>1. ASSUME NEW s \in Streams, FFlush(s) PROVE WireOK' /\ Answers
        <4>1. call.at \in {"app", "put"} /\ ~isClosed[s] /\ EmptyBuffProc(s) /\ UNCHANGED <<call, stored>>
          BY <3>1 DEF FFlush, Idle
        <4> QED BY <2>1, <4>1, OpenFlush
      <3> QED BY <2>1, <2>2, <3>1, PutStrWire, ClearErrorWire, FCloseWire, SetExitStatusWire DEF Application, WireIInv
    <2>3. CASE Library
      <3>1. CASE PutCopy
        <4>1. call.at \in {"put", "eof", "end"}
          BY <3>1 DEF PutCopy, PutPoints
        <4> QED BY <2>1, <3>1, <4>1, CopyPutWire, CopyCloseWire DEF WireIInv
      <3>2. CASE PutEmpty
        <4>1. /\ call.at \in {"put", "eof", "end"} /\ ~isClosed[call.s] /\ EmptyBuffProc(call.s)
              /\ UNCHANGED <<call, stored>> /\ call.s \in Streams
          BY <3>2 DEF PutEmpty, PutPoints, WireIInv, IInv, TypeOK
        <4>2. CASE call.at = "put"
          BY <2>1, <4>1, <4>2, OpenFlush DEF WireIInv
        <4>3. CASE call.at \in {"eof", "end"}
          BY <2>1, <4>1, <4>3, ClosingFlush DEF WireIInv
        <4> QED BY <4>1, <4>2, <4>3
      <3> QED BY <2>1, <2>3, <3>1, <3>2, PutFailsWire, EndsClose DEF Library, WireIInv
    <2> QED BY <2>1, <2>2, <2>3 DEF Next
  <1> QED BY <1>1, <1>2

(* Whatever the application writes, flushes and closes, and wherever the    *)
(* first failing write stops, what is on the connection are the records     *)
(* FastCGI promises the web server.  (PutStr, EmptyBuffProc,                *)
(* WriteCloseRecords.)                                                      *)
THEOREM WellFormedCorrect == WireSpec => []WellFormed
  <1>1. WireIInv => WellFormed
    BY DEF WireIInv, WireOK, WellFormed
  <1> QED BY <1>1, InitWire, NextWire, PTL DEF WireSpec

(* No byte is lost between the application's call and the connection: it is *)
(* sent or in the buffer, and a closed request is a whole one.              *)
(* (EmptyBuffProc, FCGX_FClose.)                                            *)
THEOREM NothingLostCorrect == WireSpec => []NothingLost
  <1>1. WireIInv => BuffersHoldTheRest
    <2> SUFFICES ASSUME WireIInv, call = Idle, ~broken
                 PROVE  /\ AtBoundary(seen)
                        /\ \A s \in Streams :
                              stored[s] = seen.got[s] + (IF wasFCloseCalled[s] THEN 0
                                                         ELSE Len(buff[s]) - HeaderLen)
      BY DEF BuffersHoldTheRest
    <2>1. call.at = "app" /\ OnWire /\ TypeOK /\ DecoderOK(seen) /\ Phases
      BY DEF Idle, WireIInv, WireOK, IInv
    <2>2. AtBoundary(seen)
      BY <2>1 DEF OnWire
    <2>3. ASSUME NEW s \in Streams
          PROVE  stored[s] = seen.got[s] + (IF wasFCloseCalled[s] THEN 0 ELSE Len(buff[s]) - HeaderLen)
      <3>1. seen.got[s] \in Nat /\ stored[s] \in Nat /\ HeaderLen \in Nat
        BY <2>1, SeenType, LayoutAssumption DEF TypeOK
      <3>2. CASE wasFCloseCalled[s]
        BY <2>1, <3>1, <3>2 DEF OnWire, Finished
      <3>3. CASE ~wasFCloseCalled[s]
        <4>1. Buffered(s)
          BY <2>1, <3>3 DEF OnWire, Phases, Closing
        <4> QED BY <3>1, <3>3, <4>1 DEF Buffered
      <3> QED BY <3>2, <3>3
    <2> QED BY <2>2, <2>3
  <1>2. WireIInv => ClosedMeansEnded
    <2> SUFFICES ASSUME WireIInv, \A s \in Streams : wasFCloseCalled[s], ~broken
                 PROVE  Ended(seen) /\ \A s \in Streams : seen.eof[s] \/ (s = STDERR /\ stored[s] = 0)
      BY DEF ClosedMeansEnded
    <2>1. OnWire /\ TypeOK /\ ClosersCounted /\ call.s \in Streams
      BY DEF WireIInv, WireOK, IInv, TypeOK
    <2>2. call.at \in {"app", "put"} /\ nWriters = 0
      BY <2>1 DEF ClosersCounted, Counted, TypeOK, Streams
    <2>3. AtBoundary(seen) /\ seen.exit # NoStatus
      BY <2>1, <2>2 DEF OnWire
    <2> QED BY <2>1, <2>3 DEF Ended, OnWire, Finished
  <1>3. WireIInv => NothingLost
    BY <1>1, <1>2 DEF NothingLost
  <1> QED BY <1>3, InitWire, NextWire, PTL DEF WireSpec

(* The writer implements FcgiResponse.                                      *)
THEOREM RespondsCorrect == WireSpec => Responds
  <1>1. WireInit => Response!Init
    BY DEF WireInit, Init, Decoder, NoStatus, Streams, Response!Init, Response!Streams, Response!Running
  <1>2. WireIInv /\ [WireNext]_WireVars => [Response!Next]_(Response!vars)
    BY NextWire DEF Answers
  <1> QED BY <1>1, <1>2, InitWire, NextWire, PTL DEF WireSpec, Responds, Response!Spec
=============================================================================
