--------------------------- MODULE FcgiReaderProofs ---------------------------
(***************************************************************************)
(* Proofs about FcgiReader.  First, for any scripts: the types and the     *)
(* order of the pointers into the buffer, and the one character of         *)
(* pushback that rests on that order (PointerIInv).  Then, for web servers *)
(* that keep to RequestScript: the reader's place in the records, and with *)
(* it what the streams deliver and which records are answered              *)
(* (ReaderIInv; CutIInv once a failing read has lost it).                  *)
(***************************************************************************)
EXTENDS FcgiReader, FiniteSetTheorems, SequenceTheorems, WellFoundedInduction, TLAPS

(* Induction.  The theorems of the library that take a predicate cannot be  *)
(* instantiated by the provers; the least element of a set of numbers       *)
(* serves instead.                                                          *)

LEMMA LeastNat ==
    ASSUME NEW T \in SUBSET Nat, T # {}
    PROVE  \E x \in T : \A y \in T : x <= y
<1> DEFINE U == {0 .. n : n \in T}
<1>1. U \subseteq FiniteSubsetsOf(Nat)
  <2> SUFFICES ASSUME NEW n \in T PROVE IsFiniteSet(0 .. n) /\ 0 .. n \in SUBSET Nat
    BY DEF FiniteSubsetsOf
  <2> QED BY FS_Interval
<1>2. IsWellFoundedOn(StrictSubsetOrdering(Nat), FiniteSubsetsOf(Nat))
  BY FS_StrictSubsetOrderingWellFounded
<1>3. U # {}
  OBVIOUS
<1> HIDE DEF U
<1>4. \E x \in U : \A y \in U : ~(<<y, x>> \in StrictSubsetOrdering(Nat))
  BY <1>1, <1>2, <1>3, WFMin
<1> USE DEF U
<1>5. PICK m \in T : \A n \in T : ~(<<0 .. n, 0 .. m>> \in StrictSubsetOrdering(Nat))
  BY <1>4
<1>6. ASSUME NEW n \in T, n < m PROVE FALSE
  <2>1. 0 .. n \in SUBSET Nat /\ 0 .. m \in SUBSET Nat /\ 0 .. n \subseteq 0 .. m
    BY <1>6
  <2>2. m \in 0 .. m /\ m \notin 0 .. n
    BY <1>6
  <2> QED BY <1>5, <2>1, <2>2 DEF StrictSubsetOrdering
<1>7. QED
  BY <1>6
-----------------------------------------------------------------------------
(* Where the records end.                                                   *)

\* e is what a recursive definition of sums over g says, up to m.
IsSum(e, g, m) == e = [n \in 0 .. m |-> IF n = 0 THEN 0 ELSE e[n - 1] + g[n]]

LEMMA SumsExist ==
    ASSUME NEW N \in Nat, NEW g
    PROVE  \E e : IsSum(e, g, N)
<1> DEFINE Without == {m \in Nat : ~\E e : IsSum(e, g, m)}
<1>1. SUFFICES ASSUME Without # {} PROVE FALSE
  OBVIOUS
<1>2. PICK m \in Without : \A k \in Without : m <= k
  <2> HIDE DEF Without
  <2>1. Without \subseteq Nat BY DEF Without
  <2> QED BY <1>1, <2>1, LeastNat
<1>3. m # 0
  <2>1. IsSum([n \in 0 .. 0 |-> 0], g, 0)
    BY DEF IsSum
  <2> QED BY <2>1, <1>2
<1>4. PICK e : IsSum(e, g, m - 1)
  BY <1>2, <1>3
<1> DEFINE f == [n \in 0 .. m |-> IF n = m THEN e[m - 1] + g[m] ELSE e[n]]
<1>5. IsSum(f, g, m)
  <2>1. ASSUME NEW n \in 0 .. m
        PROVE  f[n] = IF n = 0 THEN 0 ELSE f[n - 1] + g[n]
    <3>1. CASE n = m
      BY <3>1, <1>3, <1>2
    <3>2. CASE n # m
      <4>1. n \in 0 .. m - 1 /\ f[n] = e[n]
        BY <3>2, <1>2
      <4>2. e[n] = IF n = 0 THEN 0 ELSE e[n - 1] + g[n]
        BY <1>4, <4>1 DEF IsSum
      <4>3. n # 0 => f[n - 1] = e[n - 1]
        BY <4>1, <1>2
      <4> QED BY <4>1, <4>2, <4>3
    <3> QED BY <3>1, <3>2
  <2> QED BY <2>1 DEF IsSum
<1>6. QED
  BY <1>5, <1>2

InputOK == input \in Seq(Record)

\* The recursive definition of Ends has the function it means.
LEMMA EndsEquation ==
    ASSUME InputOK
    PROVE  Ends = [i \in 0 .. Len(input) |->
                      IF i = 0 THEN 0 ELSE Ends[i - 1] + RecordLen(input[i])]
<1> DEFINE g == [i \in 1 .. Len(input) |-> RecordLen(input[i])]
<1>1. \E e : IsSum(e, g, Len(input))
  <2>1. Len(input) \in Nat BY DEF InputOK
  <2> HIDE DEF g
  <2> QED BY <2>1, SumsExist
<1>2. PICK e : IsSum(e, g, Len(input))
  BY <1>1
<1>3. e = [i \in 0 .. Len(input) |-> IF i = 0 THEN 0 ELSE e[i - 1] + RecordLen(input[i])]
  <2>1. Len(input) \in Nat BY DEF InputOK
  <2>2. \A i \in 0 .. Len(input) : i # 0 => g[i] = RecordLen(input[i])
    BY <2>1
  <2> HIDE DEF g
  <2> QED BY <1>2, <2>2 DEF IsSum
<1>4. QED
  BY <1>3 DEF Ends

RecordLens == \A i \in 1 .. Len(input) :
    /\ input[i] \in Record
    /\ Ends[i - 1] \in Nat /\ Ends[i] \in Nat
    /\ Ends[i] = Ends[i - 1] + HeaderLen + input[i].len + input[i].pad

LEMMA EndsFacts ==
    ASSUME InputOK
    PROVE  /\ Len(input) \in Nat
           /\ Ends[0] = 0 /\ \A i \in 0 .. Len(input) : Ends[i] \in Nat
           /\ RecordLens
<1>0. Len(input) \in Nat
  BY DEF InputOK
<1>1. Ends[0] = 0
  BY <1>0, EndsEquation
<1>2. \A i \in 1 .. Len(input) : Ends[i] = Ends[i - 1] + RecordLen(input[i])
  BY <1>0, EndsEquation
<1>3. \A i \in 1 .. Len(input) : input[i] \in Record /\ RecordLen(input[i]) \in Nat
  <2> SUFFICES ASSUME NEW i \in 1 .. Len(input)
               PROVE  input[i] \in Record /\ RecordLen(input[i]) \in Nat
    OBVIOUS
  <2>1. input[i] \in Record
    BY DEF InputOK
  <2>2. input[i].len \in Nat /\ input[i].pad \in Nat /\ HeaderLen \in Nat
    BY <2>1, SizeAssumption DEF Record
  <2>3. HeaderLen + input[i].len + input[i].pad \in Nat
    BY <2>2
  <2> QED BY <2>1, <2>3 DEF RecordLen
<1> DEFINE Odd == {i \in 0 .. Len(input) : Ends[i] \notin Nat}
<1>4. Odd = {}
  <2>1. SUFFICES ASSUME Odd # {} PROVE FALSE
    OBVIOUS
  <2>2. PICK i \in Odd : \A j \in Odd : i <= j
    <3>1. Odd \in SUBSET Nat BY <1>0
    <3> HIDE DEF Odd
    <3> QED BY <2>1, <3>1, LeastNat
  <2>3. i # 0 /\ i \in 1 .. Len(input) /\ i - 1 \notin Odd /\ i - 1 \in 0 .. Len(input)
    BY <1>0, <1>1, <2>2
  <2> QED BY <1>2, <1>3, <2>2, <2>3
<1>5. \A i \in 0 .. Len(input) : Ends[i] \in Nat
  BY <1>4
<1>6. RecordLens
  <2> SUFFICES ASSUME NEW i \in 1 .. Len(input)
               PROVE  /\ input[i] \in Record
                      /\ Ends[i - 1] \in Nat /\ Ends[i] \in Nat
                      /\ Ends[i] = Ends[i - 1] + HeaderLen + input[i].len + input[i].pad
    BY DEF RecordLens
  <2>1. i - 1 \in 0 .. Len(input) /\ i \in 0 .. Len(input)
    BY <1>0
  <2>2. Ends[i] = Ends[i - 1] + RecordLen(input[i]) /\ input[i] \in Record
    BY <1>2, <1>3
  <2>3. Ends[i - 1] \in Nat /\ Ends[i] \in Nat
    BY <1>5, <2>1
  <2>4. input[i].len \in Nat /\ input[i].pad \in Nat /\ HeaderLen \in Nat
    BY <2>2, SizeAssumption DEF Record
  <2>5. Ends[i] = Ends[i - 1] + (HeaderLen + input[i].len + input[i].pad)
    BY <2>2 DEF RecordLen
  <2>6. PICK e \in Nat, l \in Nat, q \in Nat : e = Ends[i - 1] /\ l = input[i].len /\ q = input[i].pad
    BY <2>3, <2>4
  <2>7. Ends[i - 1] + (HeaderLen + input[i].len + input[i].pad)
          = Ends[i - 1] + HeaderLen + input[i].len + input[i].pad
    <3>1. e + (HeaderLen + l + q) = e + HeaderLen + l + q
      BY <2>4
    <3> QED BY <2>6, <3>1
  <2> QED BY <2>2, <2>3, <2>5, <2>7
<1> QED BY <1>0, <1>1, <1>5, <1>6

\* Records lie one behind the other, each with its header first.
LEMMA EndsOrdered ==
    ASSUME InputOK, NEW i \in 0 .. Len(input), NEW j \in 0 .. Len(input), i < j
    PROVE  Ends[i] + HeaderLen <= Ends[j]
<1>0. Len(input) \in Nat /\ HeaderLen \in Nat /\ RecordLens /\ \A k \in 0 .. Len(input) : Ends[k] \in Nat
  BY EndsFacts, SizeAssumption
<1> DEFINE Low == {k \in i + 1 .. Len(input) : ~(Ends[i] + HeaderLen <= Ends[k])}
<1>1. SUFFICES ASSUME Low # {} PROVE FALSE
  BY <1>0
<1>2. PICK k \in Low : \A l \in Low : k <= l
  <2>1. Low \in SUBSET Nat BY <1>0
  <2> HIDE DEF Low
  <2> QED BY <1>1, <2>1, LeastNat
<1>3. k \in 1 .. Len(input) /\ k - 1 \in 0 .. Len(input) /\ k \in 0 .. Len(input)
  BY <1>0, <1>2
<1>4. Ends[k] = Ends[k - 1] + HeaderLen + input[k].len + input[k].pad /\ input[k] \in Record
  BY <1>0, <1>3 DEF RecordLens
<1>5. input[k].len \in Nat /\ input[k].pad \in Nat
  BY <1>4 DEF Record
<1>6. Ends[k - 1] >= Ends[i]
  <2>1. CASE k - 1 = i
    BY <2>1, <1>0
  <2>2. CASE k - 1 # i
    <3>1. k - 1 \in i + 1 .. Len(input) /\ k - 1 \notin Low
      BY <2>2, <1>2, <1>0
    <3> QED BY <3>1, <1>0, <1>3
  <2> QED BY <2>1, <2>2
<1>7. Ends[k - 1] \in Nat /\ Ends[k] \in Nat /\ Ends[i] \in Nat
  BY <1>0, <1>3
<1>8. ~(Ends[i] + HeaderLen <= Ends[k])
  BY <1>2
<1>9. HeaderLen \in Nat
  BY <1>0
<1>10. \A a, b, c, h, l, p \in Nat : c >= a /\ b = c + h + l + p => a + h <= b
  OBVIOUS
<1> HIDE DEF Low
<1>11. Ends[i] + HeaderLen <= Ends[k]
  BY <1>4, <1>5, <1>6, <1>7, <1>9, <1>10
<1> QED BY <1>8, <1>11
-----------------------------------------------------------------------------
(* The types and the pointers, for any script.                              *)

\* TypeOK, by kinds of variables.
Places ==
    /\ buff \in Nat /\ rd \in Nat /\ bufStop \in Nat /\ stop \in Nat /\ stopUnget \in Nat
    /\ contentLen \in Nat /\ paddingLen \in Nat /\ headerLen \in Nat /\ headerLen < HeaderLen
    /\ buff <= rd /\ rd <= bufStop /\ stop <= bufStop /\ bufStop <= Ends[Len(input)]
Flags ==
    /\ skip \in BOOLEAN /\ isClosed \in BOOLEAN /\ isBeginProcessed \in BOOLEAN
    /\ type \in StreamTypes \cup {"none"} /\ FCGI_errno \in Errors
    /\ requestId \in Nat /\ role \in Roles
    /\ pc \in {"app", "get", "fill", "pad", "next", "closed", "begun"}
    /\ phase \in {"begin", "params", "stdin", "data", "failed"}
FramesType == frames \in Seq(Frame) /\ Len(frames) <= 2
RepliesType ==
    replies \in Seq({"CANT_MPX_CONN", "UNKNOWN_TYPE", "GET_VALUES_RESULT"} \X (1 .. Len(input)))
DeliveredType == delivered \in [StreamTypes -> Seq(1 .. Ends[Len(input)])]

\* Which calls are in progress in each phase of the request, and which
\* streams have not been opened yet.
Stages ==
    /\ pc = "app" <=> frames = <<>>
    /\ phase \in {"begin", "params"} => pc # "app"
    /\ phase = "failed" => pc = "app"
    /\ frames # <<>> => /\ phase = "begin" => frames[1].who = "accept"
                        /\ phase = "params" => frames[1].who \in {"params", "pair"}
                        /\ phase \in {"stdin", "data"} => frames[1].who = "app"
    /\ eorStop => /\ frames[2].who \in {"begin", "values", "value"}
                  /\ frames[2].who = "begin" => phase = "begin"
                  /\ pc # "begun"
    /\ pc = "begun" => phase = "begin"
    /\ pc = "get" /\ ~eorStop => phase # "begin"
    /\ phase \in {"params", "stdin", "data"} \/ pc = "begun" => isBeginProcessed

StreamOpen ==
    /\ phase = "begin" => type = "none" /\ \A t \in StreamTypes : delivered[t] = <<>>
    /\ phase = "params" => type = "PARAMS" /\ \A t \in {"STDIN", "DATA"} : delivered[t] = <<>>
    /\ phase = "stdin" => type = "STDIN" /\ delivered["DATA"] = <<>>
    /\ phase = "data" => type = "DATA"

\* A caller of FCGX_GetStr takes bytes, or the application may push one back.
Reading == ~isClosed /\ ((pc = "app" /\ Accepted) \/ (pc = "get" /\ ~eorStop))

\* There are bytes that may be taken or pushed back.
Pushable == Reading /\ (rd < stop \/ delivered[type] # <<>>)

Pointers ==
    /\ pc \in {"get", "fill", "pad", "next", "begun"} => ~isClosed
    /\ pc = "closed" /\ ~isClosed => phase = "begin"
    /\ Reading \/ pc = "get" => rd <= stop
    /\ pc \in {"fill", "pad", "next"} \/ (pc = "closed" /\ eorStop) => stop <= rd
    /\ pc \in {"pad", "next"} => contentLen = 0
    /\ pc = "next" => paddingLen = 0
    /\ headerLen > 0 => contentLen = 0 /\ paddingLen = 0 /\ ~eorStop /\ pc \in {"fill", "pad", "next"}
    /\ Pushable => buff <= stopUnget /\ stopUnget <= rd

PointerIInv ==
    /\ input \in Scripts /\ Places /\ Flags /\ FramesType /\ RepliesType /\ DeliveredType
    /\ Stages /\ StreamOpen /\ Pointers
-----------------------------------------------------------------------------
LEMMA Sizes ==
    /\ HeaderLen \in Nat /\ HeaderLen > 0 /\ BodyLen \in Nat /\ BodyLen > 0
    /\ BuffLen \in Nat /\ BuffLen > 0 /\ PairLen \in Nat /\ PairLen - 1 \in Nat
    /\ \A n \in ReadSizes : n \in Nat
  BY SizeAssumption

LEMMA TypeParts ==
    TypeOK <=> /\ ended \in BOOLEAN
               /\ input \in Scripts /\ Places /\ Flags /\ FramesType /\ RepliesType /\ DeliveredType
<1>1. headerLen \in 0 .. HeaderLen - 1 <=> headerLen \in Nat /\ headerLen < HeaderLen
  BY Sizes
<1>2. {buff, rd, bufStop, stop, stopUnget, contentLen, paddingLen} \subseteq Nat
        <=> /\ buff \in Nat /\ rd \in Nat /\ bufStop \in Nat /\ stop \in Nat /\ stopUnget \in Nat
            /\ contentLen \in Nat /\ paddingLen \in Nat
  OBVIOUS
<1> QED BY <1>1, <1>2 DEF TypeOK, Places, Flags, FramesType, RepliesType, DeliveredType

LEMMA ScriptOK == ASSUME input \in Scripts PROVE InputOK
  BY ScriptAssumption DEF InputOK

LEMMA EndsStay == ASSUME UNCHANGED input PROVE Ends' = Ends
  BY DEF Ends

\* The web server sends whole records.
LEMMA SentWithin ==
    ASSUME input \in Scripts
    PROVE  SentLen \in Nat /\ SentLen <= Ends[Len(input)]
<1>1. Len(input) \in Nat /\ \A i \in 0 .. Len(input) : Ends[i] \in Nat
  BY ScriptOK, EndsFacts
<1>2. \A i \in 0 .. Len(input) : Ends[i] <= Ends[Len(input)]
  <2> SUFFICES ASSUME NEW i \in 0 .. Len(input), i # Len(input)
               PROVE  Ends[i] <= Ends[Len(input)]
    BY <1>1
  <2>1. Ends[i] + HeaderLen <= Ends[Len(input)]
    BY <1>1, ScriptOK, EndsOrdered
  <2> QED BY <1>1, <2>1, Sizes
<1> DEFINE holds == {i \in 1 .. Len(input) : input[i].after > Len(replies)}
           first == CHOOSE i \in holds : \A j \in holds : i <= j
<1>3. CASE holds = {}
  BY <1>1, <1>3 DEF SentLen
<1>4. CASE holds # {}
  <2>1. \E i \in holds : \A j \in holds : i <= j
    <3>1. holds \in SUBSET Nat BY <1>1
    <3> HIDE DEF holds
    <3> QED BY <1>4, <3>1, LeastNat
  <2>2. first \in 1 .. Len(input)
    BY <2>1
  <2>3. SentLen = Ends[first - 1]
    BY <1>4 DEF SentLen
  <2>4. first - 1 \in 0 .. Len(input)
    BY <1>1, <2>2
  <2> QED BY <1>1, <1>2, <2>3, <2>4
<1> QED BY <1>3, <1>4

LEMMA LeastFacts ==
    ASSUME NEW m \in Nat, NEW n \in Nat
    PROVE  /\ Least(m, n) \in Nat /\ Least(m, n) <= m /\ Least(m, n) <= n
           /\ Least(m, n) = m \/ Least(m, n) = n
  BY DEF Least

LEMMA Appended ==
    ASSUME NEW S, NEW s \in Seq(S), NEW c \in S
    PROVE  /\ Append(s, c) \in Seq(S) /\ Len(Append(s, c)) = Len(s) + 1
           /\ Append(s, c)[Len(s) + 1] = c
           /\ \A i \in 1 .. Len(s) : Append(s, c)[i] = s[i]
           /\ Append(s, c) # <<>>
  OBVIOUS

LEMMA ReplyType ==
    ASSUME RepliesType, NEW i \in 1 .. Len(input),
           NEW kind \in {"CANT_MPX_CONN", "UNKNOWN_TYPE", "GET_VALUES_RESULT"}
    PROVE  LET r == Append(replies, <<kind, i>>)
           IN  /\ r \in Seq({"CANT_MPX_CONN", "UNKNOWN_TYPE", "GET_VALUES_RESULT"} \X (1 .. Len(input)))
               /\ Len(r) = Len(replies) + 1 /\ r[Len(replies) + 1] = <<kind, i>>
               /\ \A l \in 1 .. Len(replies) : r[l] = replies[l]
  BY Appended DEF RepliesType

LEMMA Shortened ==
    ASSUME NEW S, NEW s \in Seq(S), s # <<>>
    PROVE  /\ Len(s) \in Nat /\ Len(s) > 0 /\ s[Len(s)] \in S /\ s[1] \in S
           /\ SubSeq(s, 1, Len(s) - 1) \in Seq(S)
           /\ Len(SubSeq(s, 1, Len(s) - 1)) = Len(s) - 1
           /\ \A i \in 1 .. Len(s) - 1 : SubSeq(s, 1, Len(s) - 1)[i] = s[i]
<1>1. Len(s) \in Nat /\ Len(s) > 0
  BY EmptySeq
<1>2. \A i \in 1 .. Len(s) : s[i] \in S
  OBVIOUS
<1>3. 1 \in Int /\ Len(s) - 1 \in Int /\ \A i \in 1 .. Len(s) - 1 : s[i] \in S
  BY <1>1, <1>2
<1> DEFINE n == Len(s) - 1
<1> HIDE DEF n
<1>4. /\ SubSeq(s, 1, n) \in Seq(S)
      /\ Len(SubSeq(s, 1, n)) = IF 1 <= n THEN n - 1 + 1 ELSE 0
      /\ \A i \in 1 .. n - 1 + 1 : SubSeq(s, 1, n)[i] = s[1 + i - 1]
  BY <1>3, SubSeqProperties DEF n
<1>5. n \in Nat
  BY <1>1 DEF n
<1>6. Len(SubSeq(s, 1, n)) = n /\ \A i \in 1 .. n : SubSeq(s, 1, n)[i] = s[i]
  BY <1>4, <1>5
<1>7. s[Len(s)] \in S /\ s[1] \in S
  BY <1>1, <1>2
<1> QED BY <1>1, <1>4, <1>6, <1>7 DEF n

LEMMA FrameFacts ==
    ASSUME FramesType, Stages, pc # "app"
    PROVE  /\ Len(frames) \in 1 .. 2 /\ frames[1] \in Frame
           /\ ~eorStop => Len(frames) = 1 /\ Top = frames[1]
           /\ eorStop => Len(frames) = 2 /\ Top = frames[2] /\ frames[2] \in Frame
           /\ frames # <<>> /\ Top \in Frame
<1>1. frames # <<>> /\ frames \in Seq(Frame) /\ Len(frames) <= 2
  BY DEF Stages, FramesType
<1>2. Len(frames) \in Nat /\ Len(frames) > 0 /\ frames[Len(frames)] \in Frame /\ frames[1] \in Frame
  BY <1>1, Shortened
<1>3. \A n \in Nat : n > 0 /\ n <= 2 => n \in 1 .. 2
  OBVIOUS
<1>4. Len(frames) \in 1 .. 2
  BY <1>1, <1>2, <1>3
<1>5. Len(frames) = 1 \/ Len(frames) = 2
  BY <1>4
<1> QED BY <1>1, <1>2, <1>4, <1>5 DEF eorStop, Top

LEMMA Popping ==
    ASSUME FramesType, Len(frames) \in 1 .. 2
    PROVE  /\ Pop \in Seq(Frame) /\ Len(Pop) = Len(frames) - 1
           /\ Len(frames) = 2 => Pop[1] = frames[1]
<1>0. frames \in Seq(Frame)
  BY DEF FramesType
<1>1. frames # <<>>
  BY EmptySeq
<1>2. /\ SubSeq(frames, 1, Len(frames) - 1) \in Seq(Frame)
      /\ Len(SubSeq(frames, 1, Len(frames) - 1)) = Len(frames) - 1
      /\ \A i \in 1 .. Len(frames) - 1 : SubSeq(frames, 1, Len(frames) - 1)[i] = frames[i]
  BY <1>0, <1>1, Shortened
<1>3. Len(frames) = 2 => 1 \in 1 .. Len(frames) - 1
  OBVIOUS
<1> QED BY <1>2, <1>3 DEF Pop

LEMMA Replaced ==
    ASSUME FramesType, Len(frames) \in 1 .. 2, NEW c \in Frame, frames' = Append(Pop, c)
    PROVE  /\ FramesType' /\ Len(frames') = Len(frames) /\ frames'[Len(frames)] = c
           /\ Len(frames) = 2 => frames'[1] = frames[1]
           /\ frames' # <<>>
<1>1. Pop \in Seq(Frame) /\ Len(Pop) = Len(frames) - 1 /\ (Len(frames) = 2 => Pop[1] = frames[1])
  BY Popping
<1>2. /\ frames' \in Seq(Frame) /\ Len(frames') = Len(Pop) + 1 /\ frames'[Len(Pop) + 1] = c
      /\ \A i \in 1 .. Len(Pop) : frames'[i] = Pop[i]
      /\ frames' # <<>>
  BY <1>1, Appended
<1>3. Len(Pop) + 1 = Len(frames) /\ (Len(frames) = 2 => 1 \in 1 .. Len(Pop))
  BY <1>1
<1> QED BY <1>1, <1>2, <1>3 DEF FramesType

LEMMA Popped ==
    ASSUME FramesType, Len(frames) = 2, frames' = Pop
    PROVE  FramesType' /\ Len(frames') = 1 /\ frames'[1] = frames[1] /\ frames' # <<>>
<1>1. Pop \in Seq(Frame) /\ Len(Pop) = 1 /\ Pop[1] = frames[1]
  BY Popping
<1>2. Pop # <<>>
  <2>1. Len(<<>>) # 1
    OBVIOUS
  <2> QED BY <1>1, <2>1
<1> QED BY <1>1, <1>2 DEF FramesType

LEMMA Pushed ==
    ASSUME FramesType, Len(frames) = 1, NEW c \in Frame, frames' = Append(frames, c)
    PROVE  /\ FramesType' /\ Len(frames') = 2 /\ frames'[2] = c /\ frames'[1] = frames[1]
           /\ frames' # <<>>
<1>0. frames \in Seq(Frame)
  BY DEF FramesType
<1> DEFINE f == Append(frames, c)
<1>b. \A s \in Seq(Frame), d \in Frame :
         /\ Append(s, d) \in Seq(Frame) /\ Len(Append(s, d)) = Len(s) + 1
         /\ Append(s, d)[Len(s) + 1] = d
         /\ \A i \in 1 .. Len(s) : Append(s, d)[i] = s[i]
         /\ Append(s, d) # <<>>
  BY Appended
<1>a. /\ f \in Seq(Frame) /\ Len(f) = Len(frames) + 1 /\ f[Len(frames) + 1] = c
      /\ \A i \in 1 .. Len(frames) : f[i] = frames[i]
      /\ f # <<>>
  BY <1>0, <1>b, Zenon
<1> HIDE DEF f
<1>1. /\ frames' \in Seq(Frame) /\ Len(frames') = Len(frames) + 1 /\ frames'[Len(frames) + 1] = c
      /\ \A i \in 1 .. Len(frames) : frames'[i] = frames[i]
      /\ frames' # <<>>
  BY <1>a DEF f
<1>2. Len(frames) + 1 = 2 /\ 1 \in 1 .. Len(frames)
  OBVIOUS
<1> QED BY <1>1, <1>2 DEF FramesType

LEMMA Alone ==
    ASSUME NEW c \in Frame, frames' = <<c>>
    PROVE  FramesType' /\ Len(frames') = 1 /\ frames'[1] = c /\ frames' # <<>>
  BY DEF FramesType


LEMMA FillDeliverPointers ==
    ASSUME PointerIInv, FillDeliver
    PROVE  PointerIInv'
<1> USE Sizes DEF PointerIInv
<1>0. Ends' = Ends /\ input' = input /\ frames' = frames /\ replies' = replies /\ delivered' = delivered
  BY EndsStay DEF FillDeliver
<1>1. pc = "fill" /\ rd # bufStop /\ contentLen > 0
  BY DEF FillDeliver
<1>2. PICK count \in Nat : count = Least(contentLen, bufStop - rd)
  BY LeastFacts DEF Places
<1>3. /\ contentLen' = contentLen - count /\ stop' = rd + count
      /\ stopUnget' = (IF Top.who = "accept" THEN stopUnget ELSE rd)
      /\ pc' = IF Top.who = "accept" THEN "closed" ELSE "get"
      /\ UNCHANGED <<buff, rd, bufStop, paddingLen, skip, type, isClosed, FCGI_errno,
                       headerLen, request, phase>>
  BY <1>2 DEF FillDeliver
<1>4. count <= contentLen /\ count <= bufStop - rd
  BY <1>2, LeastFacts DEF Places
<1>5. Places' /\ Flags'
  BY <1>0, <1>3, <1>4 DEF Places, Flags, request
<1>6. FramesType' /\ RepliesType' /\ DeliveredType'
  BY <1>0 DEF FramesType, RepliesType, DeliveredType
<1>7. Stages'
  BY <1>0, <1>1, <1>3, FrameFacts DEF Stages, eorStop, request
<1>8. StreamOpen'
  BY <1>0, <1>3 DEF StreamOpen
<1>9. Pointers'
  BY <1>0, <1>4, <1>1, <1>3, FrameFacts DEF Places, Flags, Pointers, Pushable, Reading, Stages, eorStop
<1> QED BY <1>0, <1>5, <1>6, <1>7, <1>8, <1>9

\* What a read leaves alone, and what else comes of it: bytes, or an error.
LEMMA ReadOutcome ==
    ASSUME FillRead \/ ReadFails
    PROVE  /\ UNCHANGED <<input, rd, stop, stopUnget, current, request, frames, phase, replies, delivered>>
           /\ pc = "fill" /\ rd = bufStop
           /\ ReadSome \/ ReadError("protocol") \/ ReadError("os")
  BY DEF FillRead, ReadFails

LEMMA FillReadPointers ==
    ASSUME PointerIInv, FillRead \/ ReadFails
    PROVE  PointerIInv'
<1> USE Sizes DEF PointerIInv
<1>0. /\ Ends' = Ends /\ input' = input /\ frames' = frames /\ replies' = replies
      /\ delivered' = delivered
      /\ UNCHANGED <<rd, stop, stopUnget, current, request, phase>>
  BY ReadOutcome, EndsStay
<1>1. pc = "fill" /\ rd = bufStop
  BY ReadOutcome
<1>2. Ends[Len(input)] \in Nat /\ Len(input) \in Nat
  BY ScriptOK, EndsFacts
<1>3. SentLen <= Ends[Len(input)]
  BY SentWithin
<1>4. \/ /\ bufStop' \in Nat /\ bufStop' >= bufStop /\ bufStop' <= Ends[Len(input)]
         /\ buff' = rd
         /\ UNCHANGED <<isClosed, FCGI_errno, pc, headerLen>>
      \/ /\ isClosed' = TRUE /\ pc' = "closed" /\ FCGI_errno' \in Errors
         /\ headerLen' = 0
         /\ UNCHANGED <<buff, bufStop>>
  <2>1. CASE ReadError("protocol") \/ ReadError("os")
    BY <2>1 DEF ReadError, SetError, FirstError, Errors, Flags
  <2>2. CASE ReadSome
    <3>1. PICK count \in 1 .. BuffLen : bufStop + count <= SentLen /\ bufStop' = bufStop + count
      BY <2>2 DEF ReadSome
    <3>2. SentLen \in Nat
      BY SentWithin
    <3>3. count \in Nat /\ bufStop \in Nat
      BY <3>1 DEF Places
    <3>4. buff' = rd /\ UNCHANGED <<isClosed, FCGI_errno, pc, headerLen>>
      BY <2>2 DEF ReadSome
    <3> QED BY <1>2, <1>3, <3>1, <3>2, <3>3, <3>4
  <2> QED BY <2>1, <2>2, ReadOutcome
<1>5. Places'
  BY <1>0, <1>1, <1>2, <1>4 DEF Places, current
<1>6. Flags'
  BY <1>0, <1>4 DEF Flags, current, request
<1>7. FramesType' /\ RepliesType' /\ DeliveredType'
  BY <1>0 DEF FramesType, RepliesType, DeliveredType
<1>8. Stages'
  BY <1>0, <1>1, <1>4 DEF Stages, eorStop, request
<1>9. StreamOpen'
  BY <1>0 DEF StreamOpen, current
<1>10. Pointers'
  BY <1>0, <1>1, <1>4 DEF Pointers, Pushable, Reading, eorStop, current, Flags
<1> QED BY <1>0, <1>5, <1>6, <1>7, <1>8, <1>9, <1>10

LEMMA FillSkipPointers ==
    ASSUME PointerIInv, FillSkip
    PROVE  PointerIInv'
<1> USE Sizes DEF PointerIInv
<1>0. /\ Ends' = Ends /\ input' = input /\ frames' = frames /\ replies' = replies
      /\ delivered' = delivered
      /\ UNCHANGED <<buff, bufStop, stop, stopUnget, paddingLen, type, isClosed,
                     FCGI_errno, headerLen, request, phase>>
  BY EndsStay DEF FillSkip
<1>1. pc = "fill" /\ contentLen > 0 /\ skip
  BY DEF FillSkip
<1>2. PICK count \in Nat : count = Least(contentLen, bufStop - rd)
  BY LeastFacts DEF Places
<1>3. count <= contentLen /\ count <= bufStop - rd
  BY <1>2, LeastFacts DEF Places
<1>4. /\ contentLen' = contentLen - count /\ rd' = rd + count
      /\ \/ contentLen' > 0 /\ UNCHANGED <<skip, pc>>
         \/ ~(contentLen' > 0) /\ skip' = FALSE /\ pc' = "pad"
  BY <1>2 DEF FillSkip
<1>a. /\ contentLen' \in Nat /\ rd' \in Nat /\ rd' <= bufStop /\ rd <= rd'
      /\ UNCHANGED <<skip, pc>> \/ (contentLen' = 0 /\ skip' = FALSE /\ pc' = "pad")
  BY <1>3, <1>4 DEF Places
<1>5. Places' /\ Flags'
  <2>1. Flags'
    BY <1>0, <1>a DEF Flags, request
  <2>2. Places'
    BY <1>0, <1>a DEF Places
  <2> QED BY <2>1, <2>2
<1>6. FramesType' /\ RepliesType' /\ DeliveredType'
  BY <1>0 DEF FramesType, RepliesType, DeliveredType
<1>7. Stages'
  BY <1>0, <1>1, <1>4 DEF Stages, eorStop, request
<1>8. StreamOpen'
  BY <1>0 DEF StreamOpen
<1>9. Pointers'
  <2>1. stop <= rd /\ ~isClosed /\ headerLen = 0
    BY <1>1 DEF Pointers, Places
  <2>2. stop <= rd'
    BY <2>1, <1>a DEF Places
  <2>3. pc' = "fill" \/ (pc' = "pad" /\ contentLen' = 0)
    BY <1>1, <1>a
  <2>4. ~Reading' /\ ~isClosed' /\ headerLen' = 0 /\ stop' <= rd'
    BY <1>0, <2>1, <2>2, <2>3 DEF Reading
  <2> QED BY <2>3, <2>4 DEF Pointers, Pushable
<1> QED BY <1>0, <1>5, <1>6, <1>7, <1>8, <1>9

LEMMA FillPaddingPointers ==
    ASSUME PointerIInv, FillPadding
    PROVE  PointerIInv'
<1> USE Sizes DEF PointerIInv
<1>0. /\ Ends' = Ends /\ input' = input /\ frames' = frames /\ replies' = replies
      /\ delivered' = delivered
      /\ UNCHANGED <<buff, bufStop, stop, stopUnget, contentLen, skip, type, isClosed,
                     FCGI_errno, headerLen, request, phase>>
  BY EndsStay DEF FillPadding
<1>1. pc \in {"pad", "fill"} /\ contentLen = 0
  BY DEF FillPadding, Pointers
<1>2. PICK count \in Nat : count = Least(paddingLen, bufStop - rd)
  BY LeastFacts DEF Places
<1>3. count <= paddingLen /\ count <= bufStop - rd
  BY <1>2, LeastFacts DEF Places
<1>4. /\ paddingLen' = paddingLen - count /\ rd' = rd + count
      /\ pc' = IF paddingLen' > 0 THEN "fill" ELSE "next"
  BY <1>2 DEF FillPadding
<1>a. paddingLen' \in Nat /\ rd' \in Nat /\ rd' <= bufStop /\ buff <= rd'
  BY <1>3, <1>4 DEF Places
<1>5. Places' /\ Flags'
  <2>1. pc' \in {"fill", "next"}
    BY <1>4
  <2>2. Flags'
    BY <1>0, <2>1 DEF Flags, request
  <2>3. Places'
    BY <1>0, <1>a DEF Places
  <2> QED BY <2>2, <2>3
<1>6. FramesType' /\ RepliesType' /\ DeliveredType'
  BY <1>0 DEF FramesType, RepliesType, DeliveredType
<1>7. Stages'
  BY <1>0, <1>1, <1>4 DEF Stages, eorStop, request
<1>8. StreamOpen'
  BY <1>0 DEF StreamOpen
<1>9. Pointers'
  <2>1. pc' = "fill" \/ (pc' = "next" /\ paddingLen' = 0)
    BY <1>a, <1>4
  <2>2. stop <= rd /\ ~isClosed
    BY <1>1 DEF Pointers
  <2>3. stop <= rd'
    BY <2>2, <1>4 DEF Places
  <2>4. headerLen > 0 => paddingLen' = 0
    BY <1>3, <1>4 DEF Pointers, Places
  <2> QED BY <1>0, <1>1, <2>1, <2>2, <2>3, <2>4 DEF Pointers, Pushable, Reading, eorStop
<1> QED BY <1>0, <1>5, <1>6, <1>7, <1>8, <1>9

LEMMA FillEndOfRecordPointers ==
    ASSUME PointerIInv, FillEndOfRecord
    PROVE  PointerIInv'
<1> USE Sizes DEF PointerIInv
<1>0. /\ Ends' = Ends /\ input' = input /\ frames' = frames /\ replies' = replies
      /\ delivered' = delivered
      /\ UNCHANGED <<buff, rd, bufStop, stopUnget, current, FCGI_errno, headerLen, request, phase>>
  BY EndsStay DEF FillEndOfRecord
<1>1. pc = "next" /\ eorStop /\ stop' = rd /\ isClosed' = TRUE /\ pc' = "closed"
  BY DEF FillEndOfRecord
<1>5. Places' /\ Flags'
  BY <1>0, <1>1 DEF Places, Flags, request, current
<1>6. FramesType' /\ RepliesType' /\ DeliveredType'
  BY <1>0 DEF FramesType, RepliesType, DeliveredType
<1>7. Stages'
  BY <1>0, <1>1 DEF Stages, eorStop, request
<1>8. StreamOpen'
  BY <1>0 DEF StreamOpen, current
<1>9. Pointers'
  BY <1>0, <1>1 DEF Places, Pointers, Pushable, Reading, eorStop, current
<1> QED BY <1>0, <1>5, <1>6, <1>7, <1>8, <1>9

LEMMA FillHeaderPartPointers ==
    ASSUME PointerIInv, FillHeaderPart
    PROVE  PointerIInv'
<1> USE Sizes DEF PointerIInv
<1>0. /\ Ends' = Ends /\ input' = input /\ frames' = frames /\ replies' = replies
      /\ delivered' = delivered
      /\ UNCHANGED <<buff, bufStop, stop, stopUnget, current, isClosed, FCGI_errno,
                     request, phase>>
  BY EndsStay DEF FillHeaderPart
<1>1. pc = "next" /\ ~eorStop /\ pc' = "fill"
  BY DEF FillHeaderPart
<1>2. /\ bufStop - rd \in Nat /\ bufStop - rd < HeaderLen - headerLen
      /\ headerLen' = headerLen + (bufStop - rd) /\ rd' = rd + (bufStop - rd)
  BY DEF FillHeaderPart, Places
<1>5. Places' /\ Flags'
  BY <1>0, <1>1, <1>2 DEF Places, Flags, request, current
<1>6. FramesType' /\ RepliesType' /\ DeliveredType'
  BY <1>0 DEF FramesType, RepliesType, DeliveredType
<1>7. Stages'
  BY <1>0, <1>1 DEF Stages, eorStop, request
<1>8. StreamOpen'
  BY <1>0 DEF StreamOpen, current
<1>9. Pointers'
  BY <1>0, <1>1, <1>2 DEF Places, Pointers, Pushable, Reading, eorStop, current
<1> QED BY <1>0, <1>5, <1>6, <1>7, <1>8, <1>9

\* What ProcessHeader comes to.
Interpreted(c) ==
    \/ pc' = "fill" /\ isClosed' = isClosed /\ frames' = frames
    \/ pc' = "closed" /\ isClosed' = TRUE /\ frames' = frames
    \/ pc' = "get" /\ isClosed' = isClosed /\ frames' = Append(frames, c)
                   /\ (c.who = "begin" => phase = "begin") /\ c.who \in {"begin", "values"}

LEMMA ReplyOutcome ==
    ASSUME PointerIInv, NEW i \in 1 .. Len(input), input' = input,
           NEW kind \in {"CANT_MPX_CONN", "UNKNOWN_TYPE", "GET_VALUES_RESULT"},
           Reply(kind, i)
    PROVE  /\ RepliesType' /\ FCGI_errno' \in Errors
           /\ \/ pc' = "fill" /\ isClosed' = isClosed
              \/ pc' = "closed" /\ isClosed' = TRUE
<1> USE DEF PointerIInv
<1>1. CASE replies' = Append(replies, <<kind, i>>) /\ pc' = "fill" /\ UNCHANGED <<isClosed, FCGI_errno>>
  BY <1>1, ReplyType DEF RepliesType, Flags
<1>2. CASE SetError("os") /\ UNCHANGED replies
  BY <1>2 DEF SetError, FirstError, Flags, Errors, RepliesType
<1> QED BY <1>1, <1>2 DEF Reply

LEMMA HeaderOutcome ==
    ASSUME PointerIInv, FillHeader
    PROVE  /\ contentLen' \in Nat /\ paddingLen' \in Nat /\ skip' \in BOOLEAN
           /\ requestId' \in Nat /\ FCGI_errno' \in Errors /\ RepliesType'
           /\ \E c \in Frame : Interpreted(c)
<1> USE Sizes DEF PointerIInv
<1>0. /\ input' = input /\ pc = "next" /\ ~eorStop /\ ~isClosed
      /\ skip \in BOOLEAN /\ requestId \in Nat /\ FCGI_errno \in Errors
  BY DEF FillHeader, Pointers, Flags
<1>1. Call("begin", BodyLen) \in Frame /\ Call("values", 1) \in Frame
  BY DEF Call, Frame
<1>2. CASE /\ HeaderEndingAt(rd') = {} /\ SetError("version")
           /\ UNCHANGED <<contentLen, paddingLen, skip, requestId, frames, replies>>
  BY <1>0, <1>1, <1>2 DEF SetError, FirstError, Errors, Places, Flags, RepliesType, Interpreted
<1>3. ASSUME NEW i \in HeaderEndingAt(rd'), contentLen' = input[i].len,
             paddingLen' = input[i].pad, ProcessHeader(i)
      PROVE  /\ contentLen' \in Nat /\ paddingLen' \in Nat /\ skip' \in BOOLEAN
             /\ requestId' \in Nat /\ FCGI_errno' \in Errors /\ RepliesType'
             /\ \E c \in Frame : Interpreted(c)
  <2>1. i \in 1 .. Len(input) /\ input[i] \in Record
    BY <1>3, ScriptOK DEF HeaderEndingAt, InputOK
  <2>2. /\ input[i].len \in Nat /\ input[i].pad \in Nat /\ input[i].id \in Nat
        /\ input[i].type \in RecordTypes
    BY <2>1 DEF Record
  <2>3. skip' \in BOOLEAN /\ requestId' \in Nat /\ FCGI_errno' \in Errors /\ RepliesType'
        /\ \E c \in Frame : Interpreted(c)
    <3>1. CASE SetError("protocol") /\ UNCHANGED <<skip, requestId, frames, replies>>
      BY <1>0, <1>1, <3>1 DEF SetError, FirstError, Errors, Flags, RepliesType, Interpreted
    <3>2. CASE ProcessBeginRecord(i)
      <4>1. CASE input[i].id = 0 \/ input[i].len # BodyLen
        BY <3>1, <3>2, <4>1 DEF ProcessBeginRecord
      <4>2. CASE ~(input[i].id = 0 \/ input[i].len # BodyLen) /\ isBeginProcessed
        <5>1. Reply("CANT_MPX_CONN", i) /\ skip' = (skip \/ pc' = "fill") /\ UNCHANGED <<requestId, frames>>
          BY <3>2, <4>2 DEF ProcessBeginRecord
        <5>2. /\ RepliesType' /\ FCGI_errno' \in Errors
              /\ (pc' = "fill" /\ isClosed' = isClosed) \/ (pc' = "closed" /\ isClosed' = TRUE)
          BY <1>0, <2>1, <5>1, ReplyOutcome
        <5>3. skip' \in BOOLEAN /\ requestId' \in Nat
          BY <1>0, <5>1
        <5> QED BY <1>1, <5>1, <5>2, <5>3 DEF Interpreted
      <4>3. CASE ~(input[i].id = 0 \/ input[i].len # BodyLen) /\ ~isBeginProcessed
        <5>1. /\ requestId' = input[i].id /\ frames' = Append(frames, Call("begin", BodyLen))
              /\ pc' = "get" /\ UNCHANGED <<skip, isClosed, FCGI_errno, replies>>
          BY <3>2, <4>3 DEF ProcessBeginRecord
        <5>2. phase = "begin"
          BY <4>3, <1>0 DEF Stages, Flags
        <5>3. Interpreted(Call("begin", BodyLen))
          BY <5>1, <5>2 DEF Interpreted, Call
        <5> QED BY <1>0, <1>1, <2>2, <5>1, <5>3 DEF RepliesType
      <4> QED BY <4>1, <4>2, <4>3
    <3>3. CASE ProcessManagementRecord(i)
      <4>1. CASE input[i].type = "GET_VALUES"
        <5>1. /\ frames' = Append(frames, Call("values", 1)) /\ pc' = "get"
              /\ UNCHANGED <<skip, requestId, isClosed, FCGI_errno, replies>>
          BY <3>3, <4>1 DEF ProcessManagementRecord
        <5>2. Interpreted(Call("values", 1))
          BY <5>1 DEF Interpreted, Call
        <5> QED BY <1>0, <1>1, <5>1, <5>2 DEF RepliesType
      <4>2. CASE input[i].type # "GET_VALUES"
        <5>1. Reply("UNKNOWN_TYPE", i) /\ UNCHANGED <<skip, requestId, frames>>
          BY <3>3, <4>2 DEF ProcessManagementRecord
        <5>2. /\ RepliesType' /\ FCGI_errno' \in Errors
              /\ (pc' = "fill" /\ isClosed' = isClosed) \/ (pc' = "closed" /\ isClosed' = TRUE)
          BY <1>0, <2>1, <5>1, ReplyOutcome
        <5> QED BY <1>0, <1>1, <5>1, <5>2 DEF Interpreted
      <4> QED BY <4>1, <4>2
    <3>4. CASE ProcessStreamRecord(i) \/ SkipRecord
      BY <1>0, <1>1, <3>4 DEF ProcessStreamRecord, SkipRecord, Interpreted, RepliesType
    <3>5. CASE input[i].type = "BEGIN"
      BY <1>3, <3>2, <3>5 DEF ProcessHeader
    <3>6. CASE input[i].type # "BEGIN" /\ input[i].id = 0
      BY <1>3, <3>3, <3>6 DEF ProcessHeader
    <3>7. CASE input[i].type # "BEGIN" /\ input[i].id \notin {0, requestId}
      BY <1>3, <3>4, <3>7 DEF ProcessHeader
    <3>8. CASE input[i].type # "BEGIN" /\ input[i].id # 0 /\ input[i].id = requestId
      BY <1>3, <3>1, <3>4, <3>8 DEF ProcessHeader
    <3> QED BY <3>5, <3>6, <3>7, <3>8
  <2> QED BY <1>3, <2>2, <2>3
<1> QED BY <1>2, <1>3 DEF FillHeader

LEMMA FillHeaderPointers ==
    ASSUME PointerIInv, FillHeader
    PROVE  PointerIInv'
<1> USE Sizes DEF PointerIInv
<1>0. /\ Ends' = Ends /\ input' = input /\ delivered' = delivered
      /\ UNCHANGED <<buff, bufStop, stopUnget, type, isBeginProcessed, role, phase>>
  BY EndsStay DEF FillHeader
<1>1. /\ pc = "next" /\ ~eorStop /\ rd' = rd + HeaderLen - headerLen /\ headerLen' = 0
      /\ stop' = rd' /\ bufStop - rd >= HeaderLen - headerLen
  BY DEF FillHeader
<1>2. PICK c \in Frame : Interpreted(c)
  BY HeaderOutcome
<1>3. /\ contentLen' \in Nat /\ paddingLen' \in Nat /\ skip' \in BOOLEAN
      /\ requestId' \in Nat /\ FCGI_errno' \in Errors /\ RepliesType'
  BY HeaderOutcome
<1>4. Len(frames) = 1 /\ frames # <<>> /\ frames[1] \in Frame
  BY <1>1, FrameFacts
<1>5. \/ pc' = "fill" /\ isClosed' = FALSE /\ frames' = frames
      \/ pc' = "closed" /\ isClosed' = TRUE /\ frames' = frames
      \/ /\ pc' = "get" /\ isClosed' = FALSE /\ Len(frames') = 2 /\ frames'[2] = c /\ frames'[1] = frames[1]
         /\ frames' # <<>>
         /\ (c.who = "begin" => phase = "begin") /\ c.who \in {"begin", "values"}
  <2>1. ~isClosed /\ isClosed = FALSE
    BY <1>1 DEF Pointers, Flags
  <2>2. CASE frames' = Append(frames, c)
    BY <1>2, <1>4, <2>1, <2>2, Pushed DEF Interpreted
  <2>3. CASE frames' = frames
    BY <1>2, <1>4, <2>1, <2>3, Pushed DEF Interpreted
  <2> QED BY <1>2, <2>2, <2>3 DEF Interpreted
<1>6. FramesType'
  BY <1>2, <1>4, Pushed DEF Interpreted, FramesType
<1>7. Places'
  BY <1>0, <1>1, <1>3 DEF Places
<1>8. pc' \in {"fill", "closed", "get"} /\ isClosed' \in BOOLEAN /\ (isClosed' <=> pc' = "closed")
  BY <1>5
<1>a. Flags'
  BY <1>0, <1>3, <1>8 DEF Flags
<1>9. DeliveredType'
  BY <1>0 DEF DeliveredType
<1>10. Stages'
  BY <1>0, <1>1, <1>4, <1>5 DEF Stages, eorStop
<1>11. StreamOpen'
  BY <1>0 DEF StreamOpen
<1>12. Pointers'
  <2>1. ~Reading'
    BY <1>5, <1>8 DEF Reading, eorStop
  <2>2. stop' <= rd' /\ rd' <= stop' /\ ~(headerLen' > 0)
    BY <1>1, <1>7 DEF Places
  <2> QED BY <1>8, <2>1, <2>2 DEF Pointers, Pushable
<1> QED BY <1>0, <1>3, <1>6, <1>7, <1>a, <1>9, <1>10, <1>11, <1>12

LEMMA BegunPointers ==
    ASSUME PointerIInv, Begun
    PROVE  PointerIInv'
<1> USE Sizes DEF PointerIInv
<1>0. /\ Ends' = Ends /\ input' = input /\ replies' = replies /\ delivered' = delivered
      /\ UNCHANGED <<buff, rd, bufStop, stopUnget, FCGI_errno, headerLen, request>>
  BY EndsStay DEF Begun
<1>1. pc = "begun" /\ phase = "begin" /\ isBeginProcessed
  BY DEF Begun, Stages
<1>2. \/ /\ phase' = "failed" /\ pc' = "app" /\ frames' = <<>>
         /\ UNCHANGED <<stop, current, isClosed>>
      \/ /\ type' = "PARAMS" /\ skip' = FALSE /\ contentLen' = 0 /\ paddingLen' = 0
         /\ stop' = rd /\ isClosed' = FALSE
         /\ phase' = "params" /\ frames' = <<Call("params", 1)>> /\ pc' = "get"
  BY DEF Begun, SetReaderType
<1>3. Call("params", 1) \in Frame /\ Call("params", 1).who = "params"
  BY DEF Frame, Call
<1>4. FramesType' /\ (frames' # <<>> => Len(frames') = 1 /\ frames'[1] = Call("params", 1))
      /\ Len(frames') \in 0 .. 1
  <2>1. CASE frames' = <<>>
    BY <2>1, EmptySeq DEF FramesType
  <2>2. CASE frames' = <<Call("params", 1)>>
    BY <2>2, <1>3, Alone
  <2> QED BY <1>2, <2>1, <2>2
<1>5. Places'
  BY <1>0, <1>2 DEF Places, current
<1>6. Flags'
  BY <1>0, <1>2 DEF Flags, current, request, StreamTypes
<1>7. RepliesType' /\ DeliveredType'
  BY <1>0 DEF RepliesType, DeliveredType
<1>8. Stages'
  <2>1. CASE frames' = <<>>
    BY <1>0, <1>1, <1>2, <1>4, <2>1 DEF Stages, eorStop, request
  <2>2. CASE frames' # <<>>
    BY <1>0, <1>1, <1>2, <1>3, <1>4, <2>2, Alone DEF Stages, eorStop, request
  <2> QED BY <2>1, <2>2
<1>9. StreamOpen'
  BY <1>0, <1>1, <1>2 DEF StreamOpen, StreamTypes
<1>10. Pointers'
  <2>1. delivered["PARAMS"] = <<>> /\ headerLen = 0
    BY <1>1 DEF StreamOpen, StreamTypes, Pointers, Places
  <2>2. rd \in Nat /\ stop' \in Nat
    BY <1>5, <1>0 DEF Places
  <2> QED BY <1>0, <1>1, <1>2, <2>1, <2>2 DEF Pointers, Pushable, Reading, Accepted
<1> QED BY <1>0, <1>4, <1>5, <1>6, <1>7, <1>8, <1>9, <1>10

LEMMA EnvironmentReadPointers ==
    ASSUME PointerIInv, EnvironmentRead
    PROVE  PointerIInv'
<1> USE Sizes DEF PointerIInv
<1>0. /\ Ends' = Ends /\ input' = input /\ replies' = replies /\ delivered' = delivered
      /\ UNCHANGED <<buff, rd, bufStop, stopUnget, FCGI_errno, headerLen, request>>
  BY EndsStay DEF EnvironmentRead
<1>1. pc = "closed" /\ ~eorStop /\ frames[1].who = "params"
  BY FrameFacts DEF EnvironmentRead
<1>2. phase = "params" /\ isBeginProcessed
  BY <1>1 DEF Stages, Flags
<1>3. /\ type' = "STDIN" /\ skip' = FALSE /\ contentLen' = 0 /\ paddingLen' = 0
      /\ stop' = rd /\ isClosed' = FALSE
      /\ phase' = "stdin" /\ frames' = <<>> /\ pc' = "app"
  BY DEF EnvironmentRead, SetReaderType
<1>4. FramesType' /\ Len(frames') = 0
  BY <1>3, EmptySeq DEF FramesType
<1>5. Places'
  BY <1>0, <1>3 DEF Places
<1>6. Flags'
  BY <1>0, <1>3 DEF Flags, request, StreamTypes
<1>7. RepliesType' /\ DeliveredType'
  BY <1>0 DEF RepliesType, DeliveredType
<1>8. Stages'
  BY <1>0, <1>1, <1>2, <1>3, <1>4 DEF Stages, eorStop, request
<1>9. StreamOpen'
  BY <1>0, <1>2, <1>3 DEF StreamOpen, StreamTypes
<1>10. Pointers'
  <2>1. delivered["STDIN"] = <<>> /\ headerLen = 0
    BY <1>1, <1>2 DEF StreamOpen, StreamTypes, Pointers, Places
  <2>2. rd \in Nat /\ stop' \in Nat
    BY <1>5, <1>0 DEF Places
  <2> QED BY <1>0, <1>1, <1>3, <2>1, <2>2 DEF Pointers, Pushable, Reading, Accepted
<1> QED BY <1>0, <1>4, <1>5, <1>6, <1>7, <1>8, <1>9, <1>10

LEMMA CallReturnsPointers ==
    ASSUME PointerIInv, TryAgain \/ GetEnds
    PROVE  PointerIInv'
<1> USE Sizes DEF PointerIInv
<1>0. /\ Ends' = Ends /\ input' = input /\ replies' = replies /\ delivered' = delivered
      /\ UNCHANGED <<position, current, isClosed, FCGI_errno, headerLen, request>>
  BY EndsStay DEF TryAgain, GetEnds
<1>1. /\ pc = "closed" /\ ~eorStop /\ frames' = <<>> /\ pc' = "app"
      /\ phase' = "failed" \/ (phase' = phase /\ frames[1].who = "app")
  BY FrameFacts DEF TryAgain, GetEnds
<1>2. phase' = phase => Accepted /\ isClosed
  BY <1>1, FrameFacts DEF Stages, Flags, Pointers, Accepted
<1>4. FramesType' /\ Len(frames') = 0
  BY <1>1, EmptySeq DEF FramesType
<1>5. Places'
  BY <1>0 DEF Places, position, current
<1>6. Flags'
  BY <1>0, <1>1 DEF Flags, current, request
<1>7. RepliesType' /\ DeliveredType'
  BY <1>0 DEF RepliesType, DeliveredType
<1>8. Stages'
  BY <1>0, <1>1, <1>2, <1>4 DEF Stages, eorStop, request, Accepted
<1>9. StreamOpen'
  BY <1>0, <1>1 DEF StreamOpen, current
<1>10. Pointers'
  <2>1. ~Reading' /\ pc' = "app"
    BY <1>0, <1>1, <1>2 DEF Reading, Accepted
  <2>2. ~(headerLen' > 0)
    BY <1>0, <1>1 DEF Pointers
  <2> QED BY <2>1, <2>2 DEF Pointers, Pushable
<1> QED BY <1>0, <1>4, <1>5, <1>6, <1>7, <1>8, <1>9, <1>10

LEMMA GetStrPointers ==
    ASSUME PointerIInv, NEW n \in ReadSizes, GetStr(n)
    PROVE  PointerIInv'
<1> USE Sizes DEF PointerIInv
<1>0. /\ Ends' = Ends /\ input' = input /\ replies' = replies /\ delivered' = delivered
      /\ UNCHANGED <<position, current, isClosed, FCGI_errno, headerLen, request, phase>>
  BY EndsStay DEF GetStr
<1>1. pc = "app" /\ Accepted /\ ~isClosed /\ pc' = "get" /\ frames' = <<Call("app", n)>>
  BY DEF GetStr
<1>3. Call("app", n) \in Frame /\ Call("app", n).who = "app"
  BY DEF Frame, Call
<1>4. FramesType' /\ Len(frames') = 1 /\ frames'[1] = Call("app", n) /\ frames' # <<>>
  BY <1>1, <1>3, Alone
<1>5. Places'
  BY <1>0 DEF Places, position, current
<1>6. Flags'
  BY <1>0, <1>1 DEF Flags, current, request
<1>7. RepliesType' /\ DeliveredType'
  BY <1>0 DEF RepliesType, DeliveredType
<1>8. Stages'
  BY <1>0, <1>1, <1>3, <1>4 DEF Stages, eorStop, request, Accepted
<1>9. StreamOpen'
  BY <1>0 DEF StreamOpen, current
<1>10. Pointers'
  <2>1. Reading /\ ~(headerLen > 0)
    BY <1>1 DEF Reading, Pointers
  <2>2. UNCHANGED <<buff, rd, bufStop, stop, stopUnget, contentLen, paddingLen, type>>
    BY <1>0 DEF position, current
  <2> QED BY <1>0, <1>1, <2>1, <2>2 DEF Pointers, Pushable
<1> QED BY <1>0, <1>4, <1>5, <1>6, <1>7, <1>8, <1>9, <1>10

LEMMA StartFilterDataPointers ==
    ASSUME PointerIInv, StartFilterData
    PROVE  PointerIInv'
<1> USE Sizes DEF PointerIInv
<1>0. /\ Ends' = Ends /\ input' = input /\ replies' = replies /\ delivered' = delivered
      /\ UNCHANGED <<buff, rd, bufStop, stopUnget, headerLen, request, pc, frames>>
  BY EndsStay DEF StartFilterData
<1>1. pc = "app" /\ Accepted
  BY DEF StartFilterData
<1>2. \/ /\ type = "STDIN" /\ type' = "DATA" /\ skip' = FALSE /\ contentLen' = 0 /\ paddingLen' = 0
         /\ stop' = rd /\ isClosed' = FALSE /\ phase' = "data" /\ FCGI_errno' = FCGI_errno
      \/ /\ FCGI_errno' \in Errors /\ isClosed' = TRUE
         /\ UNCHANGED <<stop, current, phase>>
  BY DEF StartFilterData, SetReaderType, FirstError, Errors, Flags
<1>5. Places'
  BY <1>0, <1>2 DEF Places, current
<1>6. Flags'
  BY <1>0, <1>2 DEF Flags, current, request, StreamTypes
<1>7. RepliesType' /\ DeliveredType' /\ FramesType'
  BY <1>0 DEF RepliesType, DeliveredType, FramesType
<1>8. Stages'
  BY <1>0, <1>1, <1>2 DEF Stages, eorStop, request, Accepted
<1>9. StreamOpen'
  BY <1>0, <1>1, <1>2 DEF StreamOpen, current, Accepted
<1>10. Pointers'
  <2>1. ~(headerLen > 0)
    BY <1>1 DEF Pointers
  <2>2. CASE isClosed' = TRUE
    BY <1>0, <1>1, <2>1, <2>2 DEF Pointers, Pushable, Reading
  <2>3. CASE type' = "DATA" /\ type = "STDIN" /\ stop' = rd /\ isClosed' = FALSE
    <3>1. delivered["DATA"] = <<>>
      BY <1>1, <2>3 DEF StreamOpen, Accepted
    <3>2. rd \in Nat
      BY DEF Places
    <3> QED BY <1>0, <1>1, <2>1, <2>3, <3>1, <3>2 DEF Pointers, Pushable
  <2> QED BY <1>2, <2>2, <2>3
<1> QED BY <1>0, <1>5, <1>6, <1>7, <1>8, <1>9, <1>10

LEMMA NestedFailsPointers ==
    ASSUME PointerIInv, NestedFails
    PROVE  PointerIInv'
<1> USE Sizes DEF PointerIInv
<1>0. /\ Ends' = Ends /\ input' = input /\ replies' = replies /\ delivered' = delivered
      /\ UNCHANGED <<position, current, headerLen, request, phase>>
  BY EndsStay DEF NestedFails
<1>1. /\ pc = "closed" /\ eorStop /\ frames' = Pop /\ isClosed' = TRUE /\ pc' = "closed"
      /\ FCGI_errno' \in Errors
  BY DEF NestedFails, SetError, FirstError, Flags, Errors
<1>4. FramesType' /\ Len(frames') = 1 /\ frames'[1] = frames[1] /\ frames' # <<>>
  BY <1>1, Popped DEF eorStop
<1>5. Places'
  BY <1>0 DEF Places, position, current
<1>6. Flags'
  BY <1>0, <1>1 DEF Flags, current, request
<1>7. RepliesType' /\ DeliveredType'
  BY <1>0 DEF RepliesType, DeliveredType
<1>8. Stages'
  BY <1>0, <1>1, <1>4, FrameFacts DEF Stages, eorStop, request
<1>9. StreamOpen'
  BY <1>0 DEF StreamOpen, current
<1>10. Pointers'
  <2>1. ~Reading' /\ ~(headerLen' > 0) /\ ~eorStop'
    BY <1>0, <1>1, <1>4 DEF Reading, Pointers, eorStop
  <2> QED BY <1>1, <2>1 DEF Pointers, Pushable
<1> QED BY <1>0, <1>4, <1>5, <1>6, <1>7, <1>8, <1>9, <1>10

LEMMA ValuesReadPointers ==
    ASSUME PointerIInv, ValuesRead
    PROVE  PointerIInv'
<1> USE Sizes DEF PointerIInv
<1>0. /\ Ends' = Ends /\ input' = input /\ delivered' = delivered
      /\ UNCHANGED <<position, current, headerLen, request, phase>>
  BY EndsStay DEF ValuesRead
<1>1. pc = "closed" /\ Top.who = "values" /\ FCGI_errno = "none" /\ frames' = Pop
  BY DEF ValuesRead
<1>2. eorStop
  BY <1>1, FrameFacts DEF Stages, Flags
<1>3. /\ RepliesType' /\ FCGI_errno' \in Errors
      /\ \/ pc' = "fill" /\ isClosed' = FALSE
         \/ pc' = "closed" /\ isClosed' = TRUE
  <2>1. PICK i \in 1 .. Len(input) :
           \/ /\ replies' = Append(replies, <<"GET_VALUES_RESULT", i>>)
              /\ pc' = "fill" /\ isClosed' = FALSE /\ UNCHANGED FCGI_errno
           \/ SetError("os") /\ UNCHANGED replies
    BY DEF ValuesRead
  <2>2. CASE /\ replies' = Append(replies, <<"GET_VALUES_RESULT", i>>)
             /\ pc' = "fill" /\ isClosed' = FALSE /\ UNCHANGED FCGI_errno
    BY <1>0, <1>1, <2>2, ReplyType DEF RepliesType, Flags
  <2>3. CASE SetError("os") /\ UNCHANGED replies
    BY <1>0, <2>3 DEF SetError, FirstError, Errors, Flags, RepliesType
  <2> QED BY <2>1, <2>2, <2>3
<1>4. FramesType' /\ Len(frames') = 1 /\ frames'[1] = frames[1] /\ frames' # <<>>
  BY <1>1, <1>2, Popped DEF eorStop
<1>5. Places'
  BY <1>0 DEF Places, position, current
<1>6. Flags'
  BY <1>0, <1>1, <1>3 DEF Flags, current, request
<1>7. DeliveredType'
  BY <1>0 DEF DeliveredType
<1>8. Stages'
  BY <1>0, <1>1, <1>2, <1>3, <1>4, FrameFacts DEF Stages, eorStop, request
<1>9. StreamOpen'
  BY <1>0 DEF StreamOpen, current
<1>10. Pointers'
  <2>1. ~Reading' /\ ~(headerLen' > 0)
    BY <1>0, <1>1, <1>3 DEF Reading, Pointers
  <2>2. stop <= rd
    BY <1>1, <1>2 DEF Pointers
  <2> QED BY <1>0, <1>3, <2>1, <2>2 DEF Pointers, Pushable, position
<1> QED BY <1>0, <1>3, <1>4, <1>5, <1>6, <1>7, <1>8, <1>9, <1>10

LEMMA UnGetCharPointers ==
    ASSUME PointerIInv, UnGetChar
    PROVE  PointerIInv'
<1> USE Sizes DEF PointerIInv
<1>0. /\ Ends' = Ends /\ input' = input /\ replies' = replies
      /\ UNCHANGED <<buff, bufStop, stop, stopUnget, current, isClosed, FCGI_errno,
                     headerLen, request, pc, frames, phase>>
  BY EndsStay DEF UnGetChar
<1>1. /\ pc = "app" /\ Accepted /\ ~isClosed /\ rd # stopUnget /\ delivered[type] # <<>>
      /\ rd' = rd - 1
      /\ delivered' = [delivered EXCEPT ![type] = SubSeq(@, 1, Len(@) - 1)]
  BY DEF UnGetChar
<1>2. buff <= stopUnget /\ stopUnget < rd /\ rd <= stop
  BY <1>1 DEF Pointers, Pushable, Reading, Places
<1>3. buff <= rd' /\ rd' \in Nat /\ rd' <= rd /\ stopUnget <= rd' /\ rd' <= stop
  BY <1>1, <1>2 DEF Places
<1>4. type \in StreamTypes /\ \A t \in StreamTypes \ {type} : delivered'[t] = delivered[t]
  BY <1>1 DEF Accepted, StreamOpen, StreamTypes, DeliveredType
<1>5. Places'
  BY <1>0, <1>3 DEF Places, current
<1>6. Flags'
  BY <1>0 DEF Flags, current, request
<1>7. RepliesType' /\ FramesType'
  BY <1>0 DEF RepliesType, FramesType
<1>8. DeliveredType'
  <2>1. delivered[type] \in Seq(1 .. Ends[Len(input)])
    BY <1>4 DEF DeliveredType
  <2>2. SubSeq(delivered[type], 1, Len(delivered[type]) - 1) \in Seq(1 .. Ends[Len(input)])
    BY <1>1, <2>1, Shortened
  <2> QED BY <1>0, <1>1, <1>4, <2>2 DEF DeliveredType
<1>9. Stages'
  BY <1>0 DEF Stages, eorStop, request
<1>10. StreamOpen'
  BY <1>0, <1>1, <1>4 DEF StreamOpen, current, Accepted, StreamTypes
<1>11. Pointers'
  <2>1. ~(headerLen > 0)
    BY <1>1 DEF Pointers
  <2> QED BY <1>0, <1>1, <1>2, <1>3, <2>1 DEF Pointers, Pushable
<1> QED BY <1>0, <1>5, <1>6, <1>7, <1>8, <1>9, <1>10, <1>11

\* What the caller of FCGX_GetStr comes to: it returns, goes on reading, or
\* (ProcessHeader) has the begin-request body.
Continued(c) ==
    \/ /\ Top.who = "app" /\ frames' = <<>> /\ pc' = "app"
       /\ UNCHANGED <<isBeginProcessed, role>>
    \/ /\ frames' = Append(Pop, c)
       /\ pc' = "get" \/ (pc' = "fill" /\ rd' = stop)
       /\ \/ c.who = Top.who
          \/ c.who \in {"params", "pair"} /\ Top.who \in {"params", "pair"}
          \/ c.who \in {"values", "value"} /\ Top.who \in {"values", "value"}
       /\ UNCHANGED <<isBeginProcessed, role>>
    \/ /\ Top.who = "begin" /\ frames' = Pop /\ pc' = "begun"
       /\ isBeginProcessed' = TRUE /\ role' \in Roles

LEMMA TakeOutcome ==
    ASSUME PointerIInv, Take
    PROVE  /\ phase' = phase /\ \E c \in Frame : Continued(c)
           /\ \E m \in Nat : /\ m <= stop - rd /\ rd' = rd + m
                             /\ delivered' = IF eorStop THEN delivered
                                   ELSE [delivered EXCEPT ![type] = @ \o NextBytes(m)]
                             /\ m = 0 => rd = stop \/ Top.want = 0
<1> USE Sizes DEF PointerIInv
<1>0. pc = "get" /\ rd <= stop /\ ~isClosed /\ input' = input /\ Ends' = Ends /\ stop' = stop
  BY EndsStay DEF Take, Pointers
<1>1. Top \in Frame /\ Top.want \in Nat /\ ~(Top.who = "accept")
  BY <1>0, FrameFacts DEF Frame, Stages, Flags
<1>2. stop - rd \in Nat
  BY <1>0 DEF Places
<1>3. PICK m \in Nat : m = Least(Top.want, stop - rd)
  BY <1>1, <1>2, LeastFacts
<1>4. m <= stop - rd /\ m <= Top.want /\ (m # Top.want => m = stop - rd)
  BY <1>1, <1>2, <1>3, LeastFacts
<1>5. /\ rd' = rd + m
      /\ delivered' = (IF eorStop THEN delivered
                       ELSE [delivered EXCEPT ![type] = @ \o NextBytes(m)])
  BY <1>3 DEF Take
<1>6. \/ m = Top.want /\ Satisfied
      \/ /\ m # Top.want /\ frames' = Append(Pop, Call(Top.who, Top.want - m))
         /\ pc' = "fill" /\ UNCHANGED <<isBeginProcessed, role, phase>>
  BY <1>0, <1>3 DEF Take
<1>7. phase' = phase /\ \E c \in Frame : Continued(c)
  <2>1. CASE /\ m # Top.want /\ frames' = Append(Pop, Call(Top.who, Top.want - m))
             /\ pc' = "fill" /\ UNCHANGED <<isBeginProcessed, role, phase>>
    <3>1. Call(Top.who, Top.want - m) \in Frame /\ Call(Top.who, Top.want - m).who = Top.who
      BY <1>1, <1>4 DEF Call, Frame
    <3>2. rd' = stop
      BY <1>4, <1>5, <2>1 DEF Places
    <3> QED BY <2>1, <3>1, <3>2 DEF Continued
  <2>2. CASE Satisfied
    <3>1. CASE Top.who = "app"
      BY <1>1, <2>2, <3>1 DEF Satisfied, Continued
    <3>2. CASE Top.who \in {"params", "values"}
      <4> DEFINE c == Call(IF Top.who = "params" THEN "pair" ELSE "value", PairLen - 1)
      <4>1. c \in Frame /\ c.who = IF Top.who = "params" THEN "pair" ELSE "value"
        BY DEF Call, Frame
      <4>2. frames' = Append(Pop, c) /\ pc' = pc /\ UNCHANGED <<isBeginProcessed, role, phase>>
        BY <2>2, <3>2 DEF Satisfied
      <4> QED BY <1>0, <3>2, <4>1, <4>2 DEF Continued
    <3>3. CASE Top.who \in {"pair", "value"}
      <4> DEFINE c == Call(IF Top.who = "pair" THEN "params" ELSE "values", 1)
      <4>1. c \in Frame /\ c.who = IF Top.who = "pair" THEN "params" ELSE "values"
        BY DEF Call, Frame
      <4>2. frames' = Append(Pop, c) /\ pc' = pc /\ UNCHANGED <<isBeginProcessed, role, phase>>
        BY <2>2, <3>3 DEF Satisfied
      <4> QED BY <1>0, <3>3, <4>1, <4>2 DEF Continued
    <3>4. CASE Top.who = "begin"
      <4>1. /\ frames' = Pop /\ pc' = "begun" /\ isBeginProcessed' = TRUE /\ phase' = phase
            /\ \E i \in 1 .. Len(input) : role' = input[i].role
        BY <2>2, <3>4 DEF Satisfied
      <4>2. role' \in Roles
        BY <4>1, ScriptOK, EndsFacts DEF RecordLens, Record
      <4> QED BY <1>1, <3>4, <4>1, <4>2 DEF Continued
    <3> QED BY <1>1, <3>1, <3>2, <3>3, <3>4 DEF Frame
  <2> QED BY <1>6, <2>1, <2>2
<1>8. m = 0 => rd = stop \/ Top.want = 0
  BY <1>4 DEF Places
<1> QED BY <1>4, <1>5, <1>7, <1>8

LEMMA TakePointers ==
    ASSUME PointerIInv, Take
    PROVE  PointerIInv' /\ (pc' = "app" /\ delivered' # delivered => rd' # stopUnget')
<1> USE Sizes DEF PointerIInv
<1>0. /\ Ends' = Ends /\ input' = input /\ replies' = replies /\ phase' = phase
      /\ UNCHANGED <<buff, bufStop, stop, stopUnget, current, isClosed, FCGI_errno,
                     headerLen, requestId>>
  BY EndsStay, TakeOutcome DEF Take
<1>1. pc = "get" /\ rd <= stop /\ ~isClosed /\ ~(headerLen > 0)
  BY DEF Take, Pointers
<1>2. PICK m \in Nat : /\ m <= stop - rd /\ rd' = rd + m
                       /\ delivered' = IF eorStop THEN delivered
                             ELSE [delivered EXCEPT ![type] = @ \o NextBytes(m)]
  BY TakeOutcome
<1>3. PICK c \in Frame : Continued(c)
  BY TakeOutcome
<1>4. rd' \in Nat /\ rd <= rd' /\ rd' <= stop /\ (m > 0 => rd < rd') /\ (m = 0 => rd' = rd)
  BY <1>2 DEF Places
<1>5. Places'
  BY <1>0, <1>4 DEF Places, current
<1>6. Flags'
  BY <1>0, <1>3 DEF Flags, current, Continued
<1>7. RepliesType'
  BY <1>0 DEF RepliesType
<1>8. ~eorStop => type \in StreamTypes /\ phase # "begin"
  BY <1>1 DEF Stages, StreamOpen, StreamTypes, Flags
<1>9. DeliveredType' /\ (m = 0 => delivered' = delivered)
      /\ (~eorStop => \A t \in StreamTypes \ {type} : delivered'[t] = delivered[t])
  <2>1. CASE eorStop
    BY <1>0, <1>2, <2>1 DEF DeliveredType
  <2>2. CASE ~eorStop
    <3>1. delivered[type] \in Seq(1 .. Ends[Len(input)]) /\ Ends[Len(input)] \in Nat
      BY <1>8, <2>2, ScriptOK, EndsFacts DEF DeliveredType
    <3>2. NextBytes(m) \in Seq(1 .. Ends[Len(input)])
      BY <1>2, <3>1 DEF NextBytes, Places
    <3>3. \A T : \A s, u \in Seq(T) : s \o u \in Seq(T) /\ (u = <<>> => s \o u = s)
      OBVIOUS
    <3>4. m = 0 => NextBytes(m) = <<>>
      BY DEF NextBytes
    <3>5. delivered[type] \o NextBytes(m) \in Seq(1 .. Ends[Len(input)])
      BY <3>1, <3>2, <3>3
    <3>6. m = 0 => delivered[type] \o NextBytes(m) = delivered[type]
      BY <3>1, <3>2, <3>3, <3>4
    <3> QED BY <1>0, <1>2, <1>8, <2>2, <3>5, <3>6 DEF DeliveredType
  <2> QED BY <2>1, <2>2
<1>10. Len(frames) \in 1 .. 2 /\ (eorStop <=> Len(frames) = 2)
  BY <1>1, FrameFacts DEF eorStop
<1>11. /\ FramesType'
       /\ \/ Top.who = "app" /\ frames' = <<>> /\ Len(frames') = 0 /\ pc' = "app"
          \/ /\ Len(frames') = Len(frames) /\ frames'[Len(frames)] = c /\ frames' # <<>>
             /\ Len(frames) = 2 => frames'[1] = frames[1]
             /\ pc' = "get" \/ (pc' = "fill" /\ rd' = stop)
             /\ \/ c.who = Top.who
                \/ c.who \in {"params", "pair"} /\ Top.who \in {"params", "pair"}
                \/ c.who \in {"values", "value"} /\ Top.who \in {"values", "value"}
          \/ /\ Top.who = "begin" /\ pc' = "begun" /\ isBeginProcessed' = TRUE
             /\ eorStop => Len(frames') = 1 /\ frames'[1] = frames[1] /\ frames' # <<>>
  <2>1. CASE frames' = <<>> /\ Top.who = "app" /\ pc' = "app"
    BY <2>1, EmptySeq DEF FramesType
  <2>2. CASE frames' = Append(Pop, c)
    BY <1>3, <1>10, <2>2, Replaced DEF Continued
  <2>3. CASE frames' = Pop /\ Top.who = "begin" /\ pc' = "begun" /\ isBeginProcessed' = TRUE
    <3>1. eorStop
      BY <1>1, <2>3, FrameFacts DEF Stages, Flags
    <3> QED BY <2>3, <3>1, Popped DEF eorStop
  <2> QED BY <1>3, <2>1, <2>2, <2>3 DEF Continued
<1>12. Top.who = "begin" => eorStop
  BY <1>1, FrameFacts DEF Stages, Flags
<1>13. isBeginProcessed => isBeginProcessed'
  BY <1>3, <1>11 DEF Continued
<1>14. Stages'
  BY <1>0, <1>1, <1>8, <1>10, <1>11, <1>12, <1>13, FrameFacts DEF Stages, eorStop, Flags
<1>15. StreamOpen'
  <2>1. CASE eorStop
    BY <1>0, <1>2, <2>1 DEF StreamOpen, current
  <2>2. CASE ~eorStop
    BY <1>0, <1>8, <1>9, <2>2 DEF StreamOpen, current, StreamTypes
  <2> QED BY <2>1, <2>2
<1>16. Reading' => ~eorStop
  BY <1>1, <1>10, <1>11, <1>14, FrameFacts DEF Reading, eorStop, Stages
<1>17. ~eorStop => Reading
  BY <1>1 DEF Reading
<1>18. Pushable' => buff' <= stopUnget' /\ stopUnget' <= rd'
  <2>1. SUFFICES ASSUME Pushable' PROVE Pushable
    BY <1>0, <1>4, <2>1 DEF Pointers, Places
  <2>2. Reading
    BY <1>16, <1>17, <2>1 DEF Pushable
  <2>3. CASE m = 0
    BY <1>0, <1>4, <1>9, <2>1, <2>2, <2>3 DEF Pushable, current
  <2>4. CASE m # 0
    BY <1>2, <1>4, <2>2, <2>4 DEF Pushable, Places
  <2> QED BY <2>3, <2>4
<1>19. Pointers'
  <2>1. pc' \in {"app", "get", "begun"} \/ (pc' = "fill" /\ rd' = stop)
    BY <1>11
  <2>2. ~isClosed' /\ ~(headerLen' > 0) /\ rd' <= stop'
    BY <1>0, <1>1, <1>4
  <2>3. pc' = "fill" => stop' <= rd'
    BY <1>0, <2>1, <1>4 DEF Places
  <2> QED BY <1>18, <2>1, <2>2, <2>3 DEF Pointers
<1>20. pc' = "app" /\ delivered' # delivered => rd' # stopUnget'
  <2>1. SUFFICES ASSUME delivered' # delivered PROVE stopUnget < rd'
    BY <1>0 DEF Places
  <2>2. ~eorStop /\ m # 0 /\ m > 0
    BY <1>2, <1>9, <2>1
  <2>3. rd < stop
    BY <1>2, <2>2 DEF Places
  <2>4. Pushable
    BY <1>17, <2>2, <2>3 DEF Pushable
  <2> QED BY <1>4, <2>2, <2>4 DEF Pointers, Places
<1> QED BY <1>0, <1>5, <1>6, <1>7, <1>9, <1>11, <1>14, <1>15, <1>19, <1>20

LEMMA InitPointers == Init => PointerIInv
<1> SUFFICES ASSUME Init PROVE PointerIInv
  OBVIOUS
<1> USE Sizes DEF Init
<1>1. Ends[Len(input)] \in Nat
  BY ScriptOK, EndsFacts
<1>2. Call("accept", 0) \in Frame /\ Call("accept", 0).who = "accept"
  BY DEF Call, Frame
<1>3. FramesType /\ Len(frames) = 1 /\ frames[1] = Call("accept", 0) /\ frames # <<>>
  BY <1>2 DEF FramesType
<1>a. Places
  BY <1>1 DEF Places
<1>4. Flags
  BY DEF Flags, Errors, Roles
<1>5. RepliesType /\ DeliveredType
  BY DEF RepliesType, DeliveredType
<1>6. Stages
  BY <1>2, <1>3 DEF Stages, eorStop
<1>7. StreamOpen
  BY DEF StreamOpen, StreamTypes
<1>8. Pointers
  BY DEF Pointers, Pushable, Reading, Accepted
<1> QED BY <1>a, <1>3, <1>4, <1>5, <1>6, <1>7, <1>8 DEF PointerIInv

LEMMA StutterPointers ==
    ASSUME PointerIInv, UNCHANGED vars
    PROVE  PointerIInv'
<1>0. /\ Ends' = Ends
      /\ UNCHANGED <<input, buff, rd, bufStop, stop, stopUnget, contentLen, paddingLen, skip,
                     type, isClosed, FCGI_errno, headerLen, requestId, isBeginProcessed, role,
                     pc, frames, phase, replies, delivered>>
  BY EndsStay DEF vars, position, current, request
<1>1. Places' /\ Flags' /\ FramesType' /\ RepliesType' /\ DeliveredType'
  BY <1>0 DEF PointerIInv, Places, Flags, FramesType, RepliesType, DeliveredType
<1>2. Stages' /\ StreamOpen'
  BY <1>0 DEF PointerIInv, Stages, StreamOpen, eorStop
<1>3. Pointers'
  BY <1>0 DEF PointerIInv, Pointers, Pushable, Reading, Accepted, eorStop
<1> QED BY <1>0, <1>1, <1>2, <1>3 DEF PointerIInv

LEMMA PointerStep == PointerIInv /\ [Next]_vars => PointerIInv'
<1> SUFFICES ASSUME PointerIInv, [Next]_vars PROVE PointerIInv'
  OBVIOUS
<1>1. ASSUME Application PROVE PointerIInv'
  BY <1>1, GetStrPointers, UnGetCharPointers, StartFilterDataPointers DEF Application
<1>2. ASSUME Take \/ FillRead \/ FillDeliver \/ FillSkip \/ FillPadding \/ FillEndOfRecord
      PROVE  PointerIInv'
  BY <1>2, TakePointers, FillReadPointers, FillDeliverPointers, FillSkipPointers,
     FillPaddingPointers, FillEndOfRecordPointers
<1>3. ASSUME FillHeaderPart \/ FillHeader \/ ValuesRead \/ NestedFails
      PROVE  PointerIInv'
  BY <1>3, FillHeaderPartPointers, FillHeaderPointers, ValuesReadPointers, NestedFailsPointers
<1>4. ASSUME Begun \/ EnvironmentRead \/ TryAgain \/ GetEnds
      PROVE  PointerIInv'
  BY <1>4, BegunPointers, EnvironmentReadPointers, CallReturnsPointers
<1>5. CASE Next
  BY <1>1, <1>2, <1>3, <1>4, <1>5, FillReadPointers DEF Next, Library
<1>6. CASE UNCHANGED vars
  BY <1>6, StutterPointers
<1> QED BY <1>5, <1>6

\* However OS_Read cuts the connection, and whatever is on it, the pointers
\* into the buffer stay in order and every variable within its type.
\* (FillBuffProc, ProcessHeader, FCGX_GetStr, FCGX_UnGetChar, SetReaderType.)
THEOREM TypeCorrect == Spec => []TypeOK
<1>1. PointerIInv /\ ended \in BOOLEAN => TypeOK
  BY TypeParts DEF PointerIInv
<1>2. Init => ended \in BOOLEAN
  BY DEF Init
<1>3. ended \in BOOLEAN /\ [Next]_vars => (ended \in BOOLEAN)'
  <2> SUFFICES ASSUME ended \in BOOLEAN, [Next]_vars PROVE ended' \in BOOLEAN
    OBVIOUS
  <2>1. ended' = ended \/ ended' = TRUE
    BY DEF Next, Application, Library, GetStr, UnGetChar, StartFilterData, Take, FillRead, ReadFails,
           FillDeliver, FillSkip, FillPadding, FillEndOfRecord, FillHeaderPart, FillHeader,
           ValuesRead, NestedFails, Begun, EnvironmentRead, TryAgain, GetEnds, vars
  <2> QED BY <2>1
<1> QED BY <1>1, <1>2, <1>3, InitPointers, PointerStep, PTL DEF Spec

\* One character of pushback: after any call of FCGX_GetStr that delivered
\* something, FCGX_UnGetChar has a character it can put back, on any
\* connection.
THEOREM UngetCorrect == Spec => UngetGuaranteed
<1>1. ASSUME PointerIInv, [Next]_vars
      PROVE  [pc = "get" /\ pc' = "app" /\ ~isClosed' /\ delivered' # delivered
                => rd' # stopUnget']_vars
  <2> SUFFICES ASSUME Next, pc = "get", pc' = "app", delivered' # delivered
               PROVE  rd' # stopUnget'
    BY <1>1
  <2>1. Take
    BY DEF Next, Application, Library, GetStr, UnGetChar, StartFilterData, FillRead, ReadFails,
           ReadSome, ReadError, SetError, FillDeliver, FillSkip, FillPadding, FillEndOfRecord, FillHeaderPart, FillHeader,
           ValuesRead, NestedFails, Begun, EnvironmentRead, TryAgain, GetEnds
  <2> QED BY <1>1, <2>1, TakePointers
<1> QED BY <1>1, InitPointers, PointerStep, PTL DEF Spec, UngetGuaranteed
-----------------------------------------------------------------------------
(* What the streams deliver and what is answered.                           *)

\* Every connection is one on which the web server keeps to its side.
RequestScripts == \A s \in Scripts : RequestScript(s)
-----------------------------------------------------------------------------
(* Where the reader is in the script.                                       *)

\* The last byte that has been taken or made ready to take.
Ready == IF stop > rd THEN stop ELSE rd

\* Record k is the one whose header was read last.
At(k) ==
    /\ Ready + contentLen + paddingLen = Ends[k] + headerLen
    /\ k = 0 => contentLen = 0 /\ paddingLen = 0
    /\ k > 0 => /\ contentLen <= input[k].len /\ paddingLen <= input[k].pad
                /\ contentLen > 0 => paddingLen = input[k].pad

\* Whose the content is that is left of it.
Content(k) ==
    /\ skip => contentLen > 0 /\ ~eorStop /\ \A t \in StreamTypes : k \notin OwnRecords(t)
    /\ contentLen > 0 /\ ~skip /\ ~eorStop /\ ~isClosed => k \in OwnRecords(type)
    /\ isClosed /\ FCGI_errno = "none" => /\ contentLen = 0 /\ paddingLen = 0 /\ stop <= rd
                                          /\ ~eorStop => k \in OwnRecords(type) /\ input[k].len = 0
    /\ pc = "begun" => /\ contentLen = 0 /\ paddingLen = 0 /\ rd = stop
                       /\ IsFirst(input, k) /\ requestId = input[k].id

\* A record that ProcessHeader reads the content of.
Inner(k) ==
    eorStop =>
        /\ k > 0 /\ Ends[k - 1] + HeaderLen <= rd
        /\ \A l \in DOMAIN replies : replies[l][2] < k
        /\ IF frames[2].who = "begin"
             THEN /\ IsFirst(input, k) /\ requestId = input[k].id /\ requestId # 0
                  /\ pc # "closed" => /\ frames[2].want > 0
                                      /\ frames[2].want = Ready - rd + contentLen
             ELSE input[k].type = "GET_VALUES" /\ input[k].id = 0

\* What has been delivered of the stream being read.
UpToHere == type \in StreamTypes => DeliveredSet(type) = OwnBytes(type) \cap 1 .. rd

\* No record of the streams to come has been read as one of the environment.
InTurn(k) ==
    phase = "params" =>
        \A t \in {"STDIN", "DATA"} : \A j \in OwnRecords(t) :
            k < j \/ (k = j /\ isClosed /\ contentLen = input[k].len)

AllAnswered(k) ==
    FCGI_errno = "none" =>
        \A i \in 1 .. k : Due(i) /\ ~(eorStop /\ i = k) => \E l \in DOMAIN replies : replies[l][2] = i

Unbegun(k) == requestId = 0 /\ FCGI_errno = "none" => \A j \in 1 .. k : input[j].type # "BEGIN"

Place(k) ==
    At(k) /\ Content(k) /\ Inner(k) /\ UpToHere /\ InTurn(k) /\ AllAnswered(k) /\ Unbegun(k)

\* SetReaderType dropped what was left of a record in which an error was met.
Dropped ==
    /\ FCGI_errno # "none" /\ phase \in {"stdin", "data"}
    /\ contentLen = 0 /\ paddingLen = 0 /\ ~skip /\ ~eorStop /\ stop <= rd
    /\ delivered[type] = <<>>
    /\ ~isClosed => OwnBytes(type) \cap 1 .. rd - headerLen = {}
    /\ phase = "stdin" /\ ~isClosed => OwnBytes("DATA") \cap 1 .. rd - headerLen + HeaderLen = {}

\* A read failed within a header, and what had been read of it is forgotten.
\* The streams that may still be opened are all to come.
Cut ==
    /\ FCGI_errno # "none" /\ isClosed /\ pc \in {"closed", "app"} /\ ~eorStop
    /\ phase = "params" => /\ OwnBytes("STDIN") \cap 1 .. rd = {}
                           /\ OwnBytes("DATA") \cap 1 .. rd + HeaderLen = {}

\* What is ready to be taken or pushed back is the stream's.
WindowOwn == Pushable => stopUnget + 1 .. stop \subseteq OwnBytes(type)

DataAhead == phase = "stdin" => OwnBytes("DATA") \cap 1 .. rd = {}

\* The request the reader has accepted, if it has.
BeginRead ==
    requestId # 0 => \E b \in 1 .. Len(input) : /\ IsFirst(input, b) /\ requestId = input[b].id
                                               /\ Ends[b - 1] + HeaderLen <= rd - headerLen

Request ==
    /\ isBeginProcessed => requestId # 0
    /\ phase = "begin" /\ requestId # 0 /\ FCGI_errno = "none" =>
          pc = "begun" \/ (eorStop /\ frames[2].who = "begin")
    /\ phase \in {"begin", "params"} /\ FCGI_errno # "none" => isClosed
    /\ pc = "closed" => isClosed

\* What has been answered.
RepliesDue ==
    \A l \in DOMAIN replies :
        LET i == replies[l][2]
        IN  /\ Due(i) /\ replies[l][1] = Answer(i)
            /\ input[i].type = "BEGIN" => requestId # 0
            /\ Ends[i - 1] + HeaderLen <= rd - headerLen
            /\ \A m \in DOMAIN replies : l < m => i < replies[m][2]

ReaderIInv ==
    /\ PointerIInv
    /\ (\E k \in 0 .. Len(input) : Place(k)) \/ Dropped
    /\ NothingForeign /\ NothingMissing /\ HeadersAtRecordStarts /\ EnvironmentWhole
    /\ WindowOwn /\ DataAhead /\ BeginRead /\ Request /\ RepliesDue

\* The same of a reader that has lost its place and may not read on.
CutIInv ==
    /\ PointerIInv /\ Cut
    /\ NothingForeign /\ NothingMissing /\ HeadersAtRecordStarts /\ EnvironmentWhole
    /\ DataAhead /\ BeginRead /\ Request /\ RepliesDue
-----------------------------------------------------------------------------
(* The extents of the records.                                              *)

LEMMA EndsMonotone ==
    ASSUME InputOK, NEW i \in 0 .. Len(input), NEW j \in 0 .. Len(input), i <= j
    PROVE  Ends[i] <= Ends[j]
<1>1. CASE i = j
  BY <1>1, EndsFacts
<1>2. CASE i # j
  <2>1. Ends[i] + HeaderLen <= Ends[j]
    BY <1>2, EndsOrdered
  <2> QED BY <2>1, EndsFacts, Sizes
<1> QED BY <1>1, <1>2

\* Records do not overlap.
LEMMA OneRecord ==
    ASSUME InputOK, NEW i \in 1 .. Len(input), NEW j \in 1 .. Len(input), NEW p \in Int,
           Ends[i - 1] < p, p <= Ends[i], Ends[j - 1] < p, p <= Ends[j]
    PROVE  i = j
<1>0. /\ Len(input) \in Nat /\ i - 1 \in 0 .. Len(input) /\ j - 1 \in 0 .. Len(input)
      /\ i \in 0 .. Len(input) /\ j \in 0 .. Len(input)
      /\ \A k \in 0 .. Len(input) : Ends[k] \in Nat
  BY EndsFacts
<1>1. ASSUME NEW a \in 1 .. Len(input), NEW b \in 1 .. Len(input), a < b,
             p <= Ends[a], Ends[b - 1] < p
      PROVE  FALSE
  <2>1. a \in 0 .. Len(input) /\ b - 1 \in 0 .. Len(input) /\ a <= b - 1
    BY <1>0, <1>1
  <2>2. Ends[a] <= Ends[b - 1]
    BY <2>1, EndsMonotone
  <2>3. Ends[a] \in Nat /\ Ends[b - 1] \in Nat
    BY <1>0, <2>1
  <2> QED BY <1>1, <2>2, <2>3
<1>2. ~(i < j) /\ ~(j < i)
  BY <1>1
<1> QED BY <1>0, <1>2

LEMMA OwnFacts ==
    ASSUME InputOK, NEW t
    PROVE  /\ \A i \in OwnRecords(t) : /\ i \in 1 .. Len(input) /\ input[i] \in Record
                                       /\ input[i].type = t /\ input[i].id = requestId
           /\ \A p : p \in OwnBytes(t) <=>
                 \E i \in OwnRecords(t) : p \in Ends[i - 1] + HeaderLen + 1 ..
                                                Ends[i - 1] + HeaderLen + input[i].len
<1>1. \A i \in OwnRecords(t) : /\ i \in 1 .. Len(input) /\ input[i] \in Record
                               /\ input[i].type = t /\ input[i].id = requestId
  BY EndsFacts DEF OwnRecords, RecordLens
<1> QED BY <1>1 DEF OwnBytes

\* Where the content of record k begins and ends.
Start(k) == Ends[k - 1] + HeaderLen
Body(k) == Start(k) + input[k].len

LEMMA SpanFacts ==
    ASSUME InputOK, NEW k \in 1 .. Len(input)
    PROVE  /\ k - 1 \in 0 .. Len(input) /\ k \in 0 .. Len(input) /\ input[k] \in Record
           /\ Ends[k - 1] \in Nat /\ Start(k) \in Nat /\ Body(k) \in Nat /\ Ends[k] \in Nat
           /\ input[k].len \in Nat /\ input[k].pad \in Nat
           /\ Start(k) = Ends[k - 1] + HeaderLen /\ Ends[k - 1] < Start(k)
           /\ Body(k) = Start(k) + input[k].len /\ Ends[k] = Body(k) + input[k].pad
           /\ Start(k) <= Body(k) /\ Body(k) <= Ends[k]
<1>1. /\ k - 1 \in 0 .. Len(input) /\ k \in 0 .. Len(input) /\ input[k] \in Record
      /\ Ends[k - 1] \in Nat /\ Ends[k] \in Nat
      /\ Ends[k] = Ends[k - 1] + HeaderLen + input[k].len + input[k].pad
  BY EndsFacts DEF RecordLens
<1>2. input[k].len \in Nat /\ input[k].pad \in Nat
  BY <1>1 DEF Record
<1>3. Start(k) = Ends[k - 1] + HeaderLen /\ Start(k) \in Nat /\ Ends[k - 1] < Start(k)
  BY <1>1, Sizes DEF Start
<1>4. Body(k) = Start(k) + input[k].len /\ Body(k) \in Nat /\ Start(k) <= Body(k)
  BY <1>2, <1>3 DEF Body
<1>5. Ends[k] = Body(k) + input[k].pad
  BY <1>1 DEF Body, Start
<1>6. Body(k) <= Ends[k]
  BY <1>1, <1>2, <1>4, <1>5
<1> QED BY <1>1, <1>2, <1>3, <1>4, <1>5, <1>6

\* Of the bytes of a record, its stream has the content.
LEMMA RecordBytes ==
    ASSUME InputOK, NEW k \in 1 .. Len(input), NEW t, NEW p \in Int,
           Ends[k - 1] < p, p <= Ends[k]
    PROVE  p \in OwnBytes(t) <=> k \in OwnRecords(t) /\ Start(k) < p /\ p <= Body(k)
<1>1. ASSUME NEW i \in OwnRecords(t), p \in Start(i) + 1 .. Body(i)
      PROVE  i = k /\ Start(i) < p /\ p <= Body(i)
  <2>1. i \in 1 .. Len(input)
    BY OwnFacts
  <2>2. /\ Ends[i - 1] \in Nat /\ Ends[i - 1] < Start(i) /\ Body(i) <= Ends[i]
        /\ Start(i) \in Nat /\ Body(i) \in Nat /\ Ends[i] \in Nat
    BY <2>1, SpanFacts
  <2>3. Ends[i - 1] < p /\ p <= Ends[i] /\ Start(i) < p /\ p <= Body(i)
    BY <1>1, <2>2
  <2> QED BY <2>1, <2>3, OneRecord
<1>2. ASSUME k \in OwnRecords(t), Start(k) < p, p <= Body(k)
      PROVE  p \in OwnBytes(t)
  <2>1. p \in Start(k) + 1 .. Body(k)
    BY <1>2, SpanFacts
  <2> QED BY <1>2, <2>1, OwnFacts DEF Start, Body
<1>3. p \in OwnBytes(t) <=> \E i \in OwnRecords(t) : p \in Start(i) + 1 .. Body(i)
  BY OwnFacts DEF Start, Body
<1> QED BY <1>1, <1>2, <1>3

\* The bytes of the header behind record k are no stream's.
LEMMA HeaderBytes ==
    ASSUME InputOK, NEW k \in 0 .. Len(input), NEW t, NEW p \in Int,
           Ends[k] < p, p <= Ends[k] + HeaderLen
    PROVE  p \notin OwnBytes(t)
<1> SUFFICES ASSUME p \in OwnBytes(t) PROVE FALSE
  OBVIOUS
<1>0. HeaderLen \in Nat /\ Len(input) \in Nat /\ Ends[k] \in Nat
  BY EndsFacts, Sizes
<1>1. PICK i \in OwnRecords(t) : p \in Start(i) + 1 .. Body(i)
  BY OwnFacts DEF Start, Body
<1>2. i \in 1 .. Len(input)
  BY OwnFacts
<1>3. /\ i \in 0 .. Len(input) /\ i - 1 \in 0 .. Len(input)
      /\ Ends[i - 1] \in Nat /\ Start(i) = Ends[i - 1] + HeaderLen /\ Body(i) <= Ends[i]
      /\ Start(i) \in Nat /\ Body(i) \in Nat /\ Ends[i] \in Nat
  BY <1>2, SpanFacts
<1>4. Start(i) < p /\ p <= Body(i)
  BY <1>1, <1>3
<1>5. CASE i <= k
  <2>1. Ends[i] <= Ends[k]
    BY <1>3, <1>5, EndsMonotone
  <2> QED BY <1>0, <1>3, <1>4, <2>1
<1>6. CASE ~(i <= k)
  <2>1. k <= i - 1
    BY <1>0, <1>2, <1>6
  <2>2. Ends[k] <= Ends[i - 1]
    BY <1>3, <2>1, EndsMonotone
  <2> QED BY <1>0, <1>3, <1>4, <2>2
<1> QED BY <1>5, <1>6

\* A record behind record k has its content behind the header that follows k.
LEMMA Behind ==
    ASSUME InputOK, NEW k \in 0 .. Len(input), NEW j \in 1 .. Len(input), k < j
    PROVE  Ends[k] + HeaderLen <= Start(j) /\ Ends[k] <= Ends[j - 1]
<1>0. Len(input) \in Nat /\ HeaderLen \in Nat /\ Ends[k] \in Nat
  BY EndsFacts, Sizes
<1>1. j - 1 \in 0 .. Len(input) /\ k <= j - 1 /\ Ends[j - 1] \in Nat
      /\ Start(j) = Ends[j - 1] + HeaderLen
  BY <1>0, SpanFacts
<1>2. Ends[k] <= Ends[j - 1]
  BY <1>1, EndsMonotone
<1> QED BY <1>0, <1>1, <1>2

-----------------------------------------------------------------------------
(* What a step leaves alone.                                                *)

LEMMA OwnStay ==
    ASSUME UNCHANGED <<input, requestId>>
    PROVE  /\ Ends' = Ends
           /\ \A t : OwnRecords(t)' = OwnRecords(t) /\ OwnBytes(t)' = OwnBytes(t)
           /\ \A i : (Due(i)' <=> Due(i)) /\ Answer(i)' = Answer(i)
<1>1. Ends' = Ends
  BY EndsStay
<1>2. \A t : OwnRecords(t)' = OwnRecords(t)
  BY DEF OwnRecords
<1>3. \A t : OwnBytes(t)' = OwnBytes(t)
  BY <1>1, <1>2 DEF OwnBytes
<1>4. \A i : (Due(i)' <=> Due(i)) /\ Answer(i)' = Answer(i)
  BY DEF Due, Answer
<1> QED BY <1>1, <1>2, <1>3, <1>4

LEMMA StreamsStay ==
    ASSUME UNCHANGED <<input, requestId, delivered>>, NothingForeign, NothingMissing
    PROVE  NothingForeign' /\ NothingMissing' /\ \A t : DeliveredSet(t)' = DeliveredSet(t)
<1>1. \A t : DeliveredSet(t)' = DeliveredSet(t)
  BY DEF DeliveredSet
<1>2. \A t : OwnBytes(t)' = OwnBytes(t)
  BY OwnStay
<1>3. NothingForeign'
  BY <1>1, <1>2 DEF NothingForeign
<1>4. NothingMissing'
  BY <1>1, <1>2 DEF NothingMissing
<1> QED BY <1>1, <1>3, <1>4

LEMMA EnvironmentStays ==
    ASSUME InputOK, UNCHANGED <<input, requestId>>, EnvironmentWhole,
           rd \in Int, rd' \in Int, rd <= rd',
           Accepted' /\ FCGI_errno' = "none" =>
              Accepted /\ FCGI_errno = "none" /\ delivered'["PARAMS"] = delivered["PARAMS"]
    PROVE  EnvironmentWhole'
<1> SUFFICES ASSUME Accepted', FCGI_errno' = "none"
             PROVE  DeliveredSet("PARAMS")' = OwnBytes("PARAMS")' /\ EndRead("PARAMS")'
  BY DEF EnvironmentWhole
<1>1. DeliveredSet("PARAMS") = OwnBytes("PARAMS") /\ EndRead("PARAMS")
  BY DEF EnvironmentWhole
<1>2. DeliveredSet("PARAMS")' = DeliveredSet("PARAMS") /\ OwnBytes("PARAMS")' = OwnBytes("PARAMS")
  BY OwnStay DEF DeliveredSet
<1>3. PICK i \in OwnRecords("PARAMS") : input[i].len = 0 /\ Ends[i - 1] + HeaderLen <= rd
  BY <1>1 DEF EndRead
<1>4. Ends[i - 1] + HeaderLen \in Nat
  BY OwnFacts, EndsFacts, Sizes DEF RecordLens
<1>5. i \in OwnRecords("PARAMS")' /\ input'[i].len = 0 /\ Ends'[i - 1] + HeaderLen <= rd'
  BY <1>3, <1>4, OwnStay
<1> QED BY <1>1, <1>2, <1>5 DEF EndRead

LEMMA BeginStays ==
    ASSUME InputOK, UNCHANGED <<input, requestId>>, BeginRead,
           rd - headerLen \in Int, (rd - headerLen)' \in Int, rd - headerLen <= (rd - headerLen)'
    PROVE  BeginRead'
<1> SUFFICES ASSUME requestId' # 0
             PROVE  \E b \in 1 .. Len(input') :
                       /\ IsFirst(input', b) /\ requestId' = input'[b].id
                       /\ Ends'[b - 1] + HeaderLen <= (rd - headerLen)'
  BY DEF BeginRead
<1>1. PICK b \in 1 .. Len(input) : /\ IsFirst(input, b) /\ requestId = input[b].id
                                   /\ Ends[b - 1] + HeaderLen <= rd - headerLen
  BY DEF BeginRead
<1>2. Ends[b - 1] + HeaderLen \in Nat
  BY EndsFacts, Sizes DEF RecordLens
<1>3. Ends[b - 1] + HeaderLen <= (rd - headerLen)'
  BY <1>1, <1>2
<1> QED BY <1>1, <1>3, OwnStay

LEMMA RepliesStay ==
    ASSUME InputOK, RepliesType, UNCHANGED <<input, requestId, replies>>, RepliesDue,
           rd - headerLen \in Int, (rd - headerLen)' \in Int, rd - headerLen <= (rd - headerLen)'
    PROVE  RepliesDue'
<1> SUFFICES ASSUME NEW l \in DOMAIN replies
             PROVE  /\ Due(replies[l][2])' /\ replies[l][1] = Answer(replies[l][2])'
                    /\ input[replies[l][2]].type = "BEGIN" => requestId # 0
                    /\ Ends'[replies[l][2] - 1] + HeaderLen <= (rd - headerLen)'
                    /\ \A m \in DOMAIN replies : l < m => replies[l][2] < replies[m][2]
  BY DEF RepliesDue
<1>1. replies[l][2] \in 1 .. Len(input)
  BY DEF RepliesType
<1>2. /\ Due(replies[l][2]) /\ replies[l][1] = Answer(replies[l][2])
      /\ input[replies[l][2]].type = "BEGIN" => requestId # 0
      /\ Ends[replies[l][2] - 1] + HeaderLen <= rd - headerLen
      /\ \A m \in DOMAIN replies : l < m => replies[l][2] < replies[m][2]
  BY DEF RepliesDue
<1>3. Ends[replies[l][2] - 1] + HeaderLen \in Nat
  BY <1>1, EndsFacts, Sizes DEF RecordLens
<1>4. Ends[replies[l][2] - 1] + HeaderLen <= (rd - headerLen)'
  BY <1>2, <1>3
<1> QED BY <1>2, <1>4, OwnStay

\* Bytes passed over that are no stream's.
LEMMA PassedOver ==
    ASSUME UNCHANGED <<input, requestId, delivered, type, phase>>,
           rd \in Nat, rd' \in Nat, rd <= rd',
           \A t \in StreamTypes : \A p \in rd + 1 .. rd' : p \notin OwnBytes(t),
           UpToHere, DataAhead
    PROVE  UpToHere' /\ DataAhead'
<1>1. \A t \in StreamTypes : OwnBytes(t)' \cap 1 .. rd' = OwnBytes(t) \cap 1 .. rd
  <2> SUFFICES ASSUME NEW t \in StreamTypes
               PROVE  OwnBytes(t) \cap 1 .. rd' = OwnBytes(t) \cap 1 .. rd
    BY OwnStay
  <2>1. \A p \in 1 .. rd' : p \in 1 .. rd \/ p \in rd + 1 .. rd'
    OBVIOUS
  <2>2. \A p \in 1 .. rd : p \in 1 .. rd'
    OBVIOUS
  <2> QED BY <2>1, <2>2
<1>2. \A t : DeliveredSet(t)' = DeliveredSet(t)
  BY DEF DeliveredSet
<1>3. UpToHere'
  BY <1>1, <1>2 DEF UpToHere
<1>4. DataAhead'
  BY <1>1 DEF DataAhead, StreamTypes
<1> QED BY <1>3, <1>4

LEMMA PlaceStays ==
    ASSUME UNCHANGED <<input, requestId>>, NEW k, FCGI_errno' = "none" => FCGI_errno = "none"
    PROVE  /\ Unbegun(k) => Unbegun(k)'
           /\ AllAnswered(k) /\ UNCHANGED replies /\ (eorStop => eorStop') => AllAnswered(k)'
           /\ InTurn(k) /\ UNCHANGED phase /\ (isClosed => isClosed' /\ UNCHANGED contentLen) => InTurn(k)'
<1>1. Unbegun(k) => Unbegun(k)'
  BY DEF Unbegun
<1>2. AllAnswered(k) /\ UNCHANGED replies /\ (eorStop => eorStop') => AllAnswered(k)'
  BY OwnStay DEF AllAnswered
<1>3. InTurn(k) /\ UNCHANGED phase /\ (isClosed => isClosed' /\ UNCHANGED contentLen) => InTurn(k)'
  BY OwnStay DEF InTurn
<1> QED BY <1>1, <1>2, <1>3

LEMMA Basics ==
    ASSUME PointerIInv
    PROVE  /\ InputOK /\ Len(input) \in Nat /\ RepliesType /\ DeliveredType /\ RecordLens
           /\ \A i \in 0 .. Len(input) : Ends[i] \in Nat
           /\ HeaderLen \in Nat /\ HeaderLen > 0
           /\ rd \in Nat /\ stop \in Nat /\ bufStop \in Nat /\ stopUnget \in Nat
           /\ contentLen \in Nat /\ paddingLen \in Nat /\ headerLen \in Nat
           /\ headerLen < HeaderLen /\ rd <= bufStop /\ stop <= bufStop
           /\ bufStop <= Ends[Len(input)] /\ rd - headerLen \in Int
  BY ScriptOK, EndsFacts, Sizes DEF PointerIInv, Places

\* What is left of a record that is being read, when nothing is ready to take.
LEMMA ContentLeft ==
    ASSUME PointerIInv, NEW k \in 0 .. Len(input), At(k), stop <= rd, contentLen > 0
    PROVE  /\ k \in 1 .. Len(input) /\ headerLen = 0 /\ Ready = rd
           /\ contentLen <= input[k].len /\ paddingLen = input[k].pad
           /\ rd + contentLen + paddingLen = Ends[k]
           /\ rd + contentLen = Body(k) /\ Start(k) <= rd
<1>1. k \in 1 .. Len(input) /\ headerLen = 0 /\ Ready = rd
  <2>1. headerLen = 0 /\ Ready = rd
    BY Basics DEF Ready, PointerIInv, Pointers
  <2>2. k # 0
    BY Basics DEF At
  <2> QED BY <2>1, <2>2, Basics
<1>2. contentLen <= input[k].len /\ paddingLen = input[k].pad /\ rd + contentLen + paddingLen = Ends[k]
  BY <1>1, Basics DEF At
<1>3. /\ Start(k) \in Nat /\ Body(k) \in Nat /\ input[k].len \in Nat /\ input[k].pad \in Nat
      /\ Body(k) = Start(k) + input[k].len /\ Ends[k] = Body(k) + input[k].pad
  BY <1>1, SpanFacts, Basics
<1>4. rd \in Nat /\ contentLen \in Nat
  BY Basics
<1>5. rd + contentLen = Body(k)
  BY <1>2, <1>3, <1>4, SMTT(30)
<1>6. Start(k) <= rd
  BY <1>2, <1>3, <1>4, <1>5
<1> QED BY <1>1, <1>2, <1>5, <1>6

LEMMA FillDeliverReader ==
    ASSUME ReaderIInv, FillDeliver
    PROVE  ReaderIInv'
<1>p. /\ PointerIInv /\ NothingForeign /\ NothingMissing /\ HeadersAtRecordStarts
      /\ EnvironmentWhole /\ WindowOwn /\ DataAhead /\ BeginRead /\ Request /\ RepliesDue
  BY DEF ReaderIInv
<1>0. /\ Ends' = Ends
      /\ UNCHANGED <<input, rd, paddingLen, skip, type, isClosed, FCGI_errno, headerLen,
                     requestId, isBeginProcessed, frames, phase, replies, delivered>>
  BY EndsStay DEF FillDeliver, request
<1>1. /\ pc = "fill" /\ rd # bufStop /\ contentLen > 0 /\ ~skip /\ ~isClosed /\ stop <= rd
      /\ headerLen = 0
  BY <1>p, Basics DEF FillDeliver, PointerIInv, Pointers
<1>2. PICK k \in 0 .. Len(input) : Place(k)
  BY <1>1 DEF Dropped, ReaderIInv
<1>k. At(k) /\ Content(k) /\ Inner(k) /\ UpToHere /\ InTurn(k) /\ AllAnswered(k) /\ Unbegun(k)
  BY <1>2 DEF Place
<1>a. contentLen \in Nat /\ bufStop - rd \in Nat
  BY <1>p, Basics
<1>3. PICK count \in Nat : /\ count = Least(contentLen, bufStop - rd)
                           /\ count <= contentLen /\ count <= bufStop - rd
  BY <1>a, LeastFacts
<1>4. /\ k \in 1 .. Len(input) /\ Ready = rd /\ contentLen <= input[k].len
      /\ paddingLen = input[k].pad /\ rd + contentLen + paddingLen = Ends[k]
      /\ rd + contentLen = Body(k) /\ Start(k) <= rd
  BY <1>p, <1>1, <1>k, ContentLeft
<1>5. Top.who # "accept"
  <2>1. SUFFICES ASSUME Top.who = "accept" PROVE FALSE
    OBVIOUS
  <2>2. ~eorStop /\ phase = "begin" /\ type = "none"
    BY <1>p, <1>1, <2>1, FrameFacts DEF PointerIInv, Stages, StreamOpen, Flags
  <2>3. k \in OwnRecords("none")
    BY <1>1, <1>k, <2>2 DEF Content
  <2> QED BY <1>p, <2>3, OwnFacts, Basics DEF Record, RecordTypes
<1>6. /\ contentLen' = contentLen - count /\ stop' = rd + count /\ stopUnget' = rd
      /\ pc' = "get"
  BY <1>3, <1>5 DEF FillDeliver
<1>7. PointerIInv'
  BY <1>p, FillDeliverPointers
<1>8. NothingForeign' /\ NothingMissing' /\ \A t : DeliveredSet(t)' = DeliveredSet(t)
  BY <1>p, <1>0, StreamsStay
<1>9. BeginRead' /\ RepliesDue'
  <2>1. (rd - headerLen)' = rd - headerLen
    BY <1>0
  <2> QED BY <1>p, <1>0, <2>1, Basics, BeginStays, RepliesStay
<1>10. EnvironmentWhole' /\ HeadersAtRecordStarts'
  BY <1>p, <1>0, Basics, EnvironmentStays DEF Accepted, HeadersAtRecordStarts
<1>11. DataAhead'
  BY <1>p, <1>0, OwnStay DEF DataAhead
<1>12. Request'
  BY <1>p, <1>0, <1>1, <1>6 DEF Request, eorStop
<1>13. WindowOwn'
  <2> SUFFICES ASSUME Reading', NEW p \in rd + 1 .. rd + count
               PROVE  p \in OwnBytes(type)
    BY <1>0, <1>6, OwnStay DEF WindowOwn, Pushable
  <2>1. ~eorStop
    BY <1>0, <1>6 DEF Reading, eorStop
  <2>2. k \in OwnRecords(type)
    BY <1>1, <1>k, <2>1 DEF Content
  <2>3. p \in Int /\ rd < p /\ p <= rd + count
    BY <1>p, Basics
  <2>4. /\ Ends[k - 1] \in Nat /\ Start(k) \in Nat /\ Body(k) \in Nat /\ Ends[k] \in Nat
        /\ Ends[k - 1] < Start(k) /\ Body(k) <= Ends[k]
    BY <1>p, <1>4, Basics, SpanFacts
  <2>5. p <= rd + contentLen /\ rd \in Nat
    BY <1>p, <1>3, <1>a, <2>3, Basics, SMTT(30)
  <2>6. Start(k) < p /\ p <= Body(k) /\ Ends[k - 1] < p /\ p <= Ends[k]
    BY <1>4, <2>3, <2>4, <2>5
  <2> QED BY <1>p, <1>4, <2>2, <2>3, <2>6, Basics, RecordBytes
<1>14. Place(k)'
  <2>1. Ready = rd /\ Ready' = rd + count
    <3>1. rd \in Nat /\ stop \in Nat
      BY <1>p, Basics
    <3>2. Ready = rd
      BY <1>1, <3>1 DEF Ready
    <3>3. rd' = rd /\ stop' = rd + count
      BY <1>0, <1>6
    <3>4. Ready' = rd + count
      BY <3>1, <3>3 DEF Ready
    <3> QED BY <3>2, <3>4
  <2>2. At(k)'
    <3>1. /\ contentLen' = contentLen - count /\ paddingLen' = paddingLen /\ Ready' = rd + count
          /\ headerLen' = 0 /\ input' = input /\ Ends' = Ends
      BY <1>0, <1>1, <1>6, <2>1
    <3>2. Ready' + contentLen' + paddingLen' = Ends[k] /\ contentLen' <= input[k].len
      <4>1. rd \in Nat /\ paddingLen \in Nat /\ input[k].len \in Nat
        BY <1>p, <1>4, Basics, SpanFacts
      <4>2. (rd + count) + (contentLen - count) + paddingLen = rd + contentLen + paddingLen
        BY <1>a, <4>1
      <4>3. contentLen - count <= input[k].len
        BY <1>4, <1>a, <4>1
      <4> QED BY <1>4, <3>1, <4>2, <4>3
    <3>3. Ends[k] \in Nat
      BY <1>p, Basics
    <3> QED BY <1>4, <1>k, <3>1, <3>2, <3>3 DEF At
  <2>3. Content(k)'
    BY <1>0, <1>1, <1>k, <1>6, <1>3, <1>4, <1>a, OwnStay DEF Content, eorStop
  <2>4. Inner(k)'
    <3>1. (eorStop' <=> eorStop) /\ pc = "fill" /\ pc' # "closed"
      BY <1>0, <1>1, <1>6 DEF eorStop
    <3>2. Ready - rd + contentLen = Ready' - rd' + contentLen'
      <4>1. \A r, c, n \in Nat : r - r + c = (r + n) - r + (c - n)
        OBVIOUS
      <4>2. rd \in Nat /\ contentLen \in Nat
        BY <1>p, <1>a, Basics
      <4>3. Ready = rd /\ Ready' = rd + count /\ rd' = rd /\ contentLen' = contentLen - count
        BY <1>0, <1>6, <2>1
      <4>4. rd - rd + contentLen = (rd + count) - rd + (contentLen - count)
        BY <4>1, <4>2
      <4> QED BY <4>3, <4>4
    <3> QED BY <1>0, <1>k, <3>1, <3>2 DEF Inner
  <2>5. UpToHere'
    BY <1>0, <1>k, <1>8, OwnStay DEF UpToHere
  <2>6. InTurn(k)' /\ AllAnswered(k)' /\ Unbegun(k)'
    BY <1>0, <1>1, <1>k, PlaceStays DEF eorStop
  <2> QED BY <2>2, <2>3, <2>4, <2>5, <2>6 DEF Place
<1> QED BY <1>0, <1>7, <1>8, <1>9, <1>10, <1>11, <1>12, <1>13, <1>14 DEF ReaderIInv

LEMMA PaddingLeft ==
    ASSUME PointerIInv, NEW k \in 0 .. Len(input), At(k), stop <= rd, contentLen = 0, paddingLen > 0
    PROVE  /\ k \in 1 .. Len(input) /\ headerLen = 0 /\ Ready = rd
           /\ paddingLen <= input[k].pad /\ rd + paddingLen = Ends[k] /\ Body(k) <= rd
<1>1. k \in 1 .. Len(input) /\ headerLen = 0 /\ Ready = rd
  BY Basics DEF At, Ready, PointerIInv, Pointers
<1>2. paddingLen <= input[k].pad /\ rd + paddingLen = Ends[k]
  BY <1>1, Basics DEF At
<1>3. Body(k) \in Nat /\ input[k].pad \in Nat /\ Ends[k] = Body(k) + input[k].pad
  BY <1>1, SpanFacts, Basics
<1>4. rd \in Nat /\ paddingLen \in Nat
  BY Basics
<1>5. Body(k) <= rd
  BY <1>2, <1>3, <1>4
<1> QED BY <1>1, <1>2, <1>5

LEMMA FillSkipReader ==
    ASSUME ReaderIInv, FillSkip
    PROVE  ReaderIInv'
<1>p. /\ PointerIInv /\ NothingForeign /\ NothingMissing /\ HeadersAtRecordStarts
      /\ EnvironmentWhole /\ WindowOwn /\ DataAhead /\ BeginRead /\ Request /\ RepliesDue
  BY DEF ReaderIInv
<1>0. /\ Ends' = Ends
      /\ UNCHANGED <<input, stop, paddingLen, type, isClosed, FCGI_errno, headerLen,
                     requestId, isBeginProcessed, frames, phase, replies, delivered>>
  BY EndsStay DEF FillSkip, request
<1>1. pc = "fill" /\ contentLen > 0 /\ skip /\ ~isClosed /\ stop <= rd /\ headerLen = 0
  BY <1>p, Basics DEF FillSkip, PointerIInv, Pointers
<1>2. PICK k \in 0 .. Len(input) : Place(k)
  BY <1>1 DEF Dropped, ReaderIInv
<1>k. At(k) /\ Content(k) /\ Inner(k) /\ UpToHere /\ InTurn(k) /\ AllAnswered(k) /\ Unbegun(k)
  BY <1>2 DEF Place
<1>n. /\ rd \in Nat /\ contentLen \in Nat /\ paddingLen \in Nat /\ headerLen \in Nat
      /\ bufStop \in Nat /\ rd <= bufStop
  BY <1>p, Basics
<1>a. bufStop - rd \in Nat
  BY <1>n
<1>3. PICK count \in Nat : /\ count = Least(contentLen, bufStop - rd)
                           /\ count <= contentLen /\ count <= bufStop - rd
  BY <1>n, <1>a, LeastFacts
<1>4. /\ k \in 1 .. Len(input) /\ Ready = rd /\ contentLen <= input[k].len
      /\ paddingLen = input[k].pad /\ rd + contentLen + paddingLen = Ends[k]
      /\ rd + contentLen = Body(k) /\ Start(k) <= rd
  BY <1>p, <1>1, <1>k, ContentLeft
<1>5. /\ contentLen' = contentLen - count /\ rd' = rd + count
      /\ \/ contentLen' > 0 /\ UNCHANGED <<skip, pc>>
         \/ ~(contentLen' > 0) /\ skip' = FALSE /\ pc' = "pad"
  BY <1>3 DEF FillSkip
<1>6. rd \in Nat /\ rd' \in Nat /\ rd <= rd' /\ contentLen' \in Nat /\ contentLen' <= contentLen
      /\ rd' <= rd + contentLen
  BY <1>n, <1>a, <1>3, <1>5
<1>7. PointerIInv'
  BY <1>p, FillSkipPointers
<1>8. NothingForeign' /\ NothingMissing'
  BY <1>p, <1>0, StreamsStay
<1>9. BeginRead' /\ RepliesDue'
  <2>1. headerLen' = headerLen
    BY <1>0
  <2>2. rd - headerLen \in Int /\ (rd - headerLen)' \in Int /\ rd - headerLen <= (rd - headerLen)'
    <3>1. \A a, b, h \in Nat : a <= b => a - h \in Int /\ b - h \in Int /\ a - h <= b - h
      OBVIOUS
    <3>2. rd' \in Nat /\ rd <= rd'
      BY <1>6
    <3> QED BY <2>1, <1>n, <3>1, <3>2
  <2> QED BY <1>p, <1>0, <2>2, Basics, BeginStays, RepliesStay
<1>10. EnvironmentWhole' /\ HeadersAtRecordStarts'
  BY <1>p, <1>0, <1>6, Basics, EnvironmentStays DEF Accepted, HeadersAtRecordStarts
<1>11. UpToHere' /\ DataAhead'
  <2>1. ASSUME NEW t \in StreamTypes, NEW p \in rd + 1 .. rd' PROVE p \notin OwnBytes(t)
    <3>1. p \in Int /\ rd < p /\ p <= rd'
      BY <1>n, <1>6
    <3>2. Ends[k - 1] < p /\ p <= Ends[k]
      <4>1. /\ Ends[k - 1] \in Nat /\ Start(k) \in Nat /\ Ends[k] \in Nat /\ Body(k) \in Nat
            /\ Ends[k - 1] < Start(k) /\ Body(k) <= Ends[k]
        BY <1>p, <1>4, Basics, SpanFacts
      <4>2. rd' <= Body(k)
        BY <1>4, <1>6
      <4>3. Start(k) < p
        BY <1>4, <1>n, <3>1, <4>1
      <4>4. p <= Body(k)
        BY <1>6, <3>1, <4>1, <4>2
      <4> QED BY <3>1, <4>1, <4>3, <4>4
    <3>3. k \notin OwnRecords(t)
      BY <1>1, <1>k DEF Content
    <3> QED BY <1>p, <1>4, <3>1, <3>2, <3>3, Basics, RecordBytes
  <2> QED BY <1>p, <1>k, <1>0, <1>6, <2>1, PassedOver
<1>12. Request'
  BY <1>p, <1>0, <1>1, <1>5 DEF Request, eorStop
<1>13. WindowOwn'
  BY <1>1, <1>5 DEF WindowOwn, Pushable, Reading
<1>14. Place(k)'
  <2>1. Ready' = rd'
    BY <1>p, <1>0, <1>1, <1>6, Basics DEF Ready
  <2>2. At(k)'
    <3>1. Ends[k] \in Nat /\ paddingLen \in Nat /\ input[k].len \in Nat
      BY <1>p, <1>4, Basics, SpanFacts
    <3>2. rd' + contentLen' + paddingLen = Ends[k]
      <4>1. rd' + contentLen' = rd + contentLen
        BY <1>5, <1>n
      <4> QED BY <1>4, <4>1
    <3>4. contentLen' <= input[k].len
      BY <1>4, <1>6, <1>n, <3>1
    <3> QED BY <1>0, <1>1, <1>4, <2>1, <3>1, <3>2, <3>4 DEF At
  <2>3. Content(k)'
    BY <1>0, <1>1, <1>k, <1>5, <1>6, OwnStay DEF Content, eorStop
  <2>4. Inner(k)'
    BY <1>0, <1>1, <1>k DEF Inner, Content, eorStop
  <2>5. InTurn(k)' /\ AllAnswered(k)' /\ Unbegun(k)'
    BY <1>0, <1>1, <1>k, PlaceStays DEF eorStop
  <2> QED BY <1>11, <2>2, <2>3, <2>4, <2>5 DEF Place
<1> QED BY <1>0, <1>7, <1>8, <1>9, <1>10, <1>11, <1>12, <1>13, <1>14 DEF ReaderIInv

LEMMA FillPaddingReader ==
    ASSUME ReaderIInv, FillPadding
    PROVE  ReaderIInv'
<1>p. /\ PointerIInv /\ NothingForeign /\ NothingMissing /\ HeadersAtRecordStarts
      /\ EnvironmentWhole /\ WindowOwn /\ DataAhead /\ BeginRead /\ Request /\ RepliesDue
  BY DEF ReaderIInv
<1>0. /\ Ends' = Ends
      /\ UNCHANGED <<input, stop, contentLen, skip, type, isClosed, FCGI_errno, headerLen,
                     requestId, isBeginProcessed, frames, phase, replies, delivered>>
  BY EndsStay DEF FillPadding, request
<1>1. pc \in {"pad", "fill"} /\ contentLen = 0 /\ ~isClosed /\ stop <= rd
      /\ (headerLen > 0 => paddingLen = 0)
  BY <1>p DEF FillPadding, PointerIInv, Pointers
<1>n. /\ rd \in Nat /\ contentLen \in Nat /\ paddingLen \in Nat /\ headerLen \in Nat
      /\ bufStop \in Nat /\ rd <= bufStop
  BY <1>p, Basics
<1>a. bufStop - rd \in Nat
  BY <1>n
<1>3. PICK count \in Nat : /\ count = Least(paddingLen, bufStop - rd)
                           /\ count <= paddingLen /\ count <= bufStop - rd
  BY <1>n, <1>a, LeastFacts
<1>5. /\ paddingLen' = paddingLen - count /\ rd' = rd + count
      /\ pc' = (IF paddingLen' > 0 THEN "fill" ELSE "next") /\ pc' \in {"fill", "next"}
  BY <1>3 DEF FillPadding
<1>6. rd \in Nat /\ rd' \in Nat /\ rd <= rd' /\ paddingLen' \in Nat /\ paddingLen' <= paddingLen
      /\ rd' <= rd + paddingLen /\ headerLen \in Nat
  BY <1>n, <1>a, <1>3, <1>5
<1>7. PointerIInv'
  BY <1>p, FillPaddingPointers
<1>8. NothingForeign' /\ NothingMissing'
  BY <1>p, <1>0, StreamsStay
<1>9. BeginRead' /\ RepliesDue'
  <2>1. headerLen' = headerLen
    BY <1>0
  <2>2. rd - headerLen \in Int /\ (rd - headerLen)' \in Int /\ rd - headerLen <= (rd - headerLen)'
    <3>1. \A a, b, h \in Nat : a <= b => a - h \in Int /\ b - h \in Int /\ a - h <= b - h
      OBVIOUS
    <3>2. rd' \in Nat /\ rd <= rd'
      BY <1>6
    <3> QED BY <2>1, <1>n, <3>1, <3>2
  <2> QED BY <1>p, <1>0, <2>2, Basics, BeginStays, RepliesStay
<1>10. EnvironmentWhole' /\ HeadersAtRecordStarts'
  BY <1>p, <1>0, <1>6, Basics, EnvironmentStays DEF Accepted, HeadersAtRecordStarts
<1>11. Request'
  BY <1>p, <1>0, <1>1, <1>5 DEF Request, eorStop
<1>12. WindowOwn'
  BY <1>1, <1>5 DEF WindowOwn, Pushable, Reading
<1>13. ASSUME NEW k \in 0 .. Len(input), Place(k)
       PROVE  Place(k)' /\ DataAhead'
  <2>k. At(k) /\ Content(k) /\ Inner(k) /\ UpToHere /\ InTurn(k) /\ AllAnswered(k) /\ Unbegun(k)
    BY <1>13 DEF Place
  <2>1. paddingLen > 0 => /\ k \in 1 .. Len(input) /\ headerLen = 0
                          /\ paddingLen <= input[k].pad /\ rd + paddingLen = Ends[k] /\ Body(k) <= rd
    BY <1>p, <1>1, <2>k, PaddingLeft
  <2>2. UpToHere' /\ DataAhead'
    <3>1. ASSUME NEW t \in StreamTypes, NEW p \in rd + 1 .. rd' PROVE p \notin OwnBytes(t)
      <4>1. p \in Int /\ rd < p /\ p <= rd' /\ paddingLen > 0
        BY <1>n, <1>6
      <4>2. Ends[k - 1] < p /\ p <= Ends[k] /\ ~(p <= Body(k))
        <5>1. /\ Ends[k - 1] \in Nat /\ Start(k) \in Nat /\ Ends[k] \in Nat /\ Body(k) \in Nat
              /\ Ends[k - 1] < Start(k) /\ Start(k) <= Body(k)
          BY <1>p, <2>1, <4>1, Basics, SpanFacts
        <5>2. Body(k) <= rd /\ rd + paddingLen = Ends[k]
          BY <2>1, <4>1
        <5>3. rd' <= Ends[k]
          BY <1>6, <5>2
        <5> QED BY <1>6, <4>1, <5>1, <5>2, <5>3
      <4> QED BY <1>p, <2>1, <4>1, <4>2, Basics, RecordBytes
    <3> QED BY <1>p, <2>k, <1>0, <1>6, <3>1, PassedOver
  <2>3. Ready = rd /\ Ready' = rd'
    BY <1>p, <1>0, <1>1, <1>6, Basics DEF Ready
  <2>4. At(k)'
    <3>1. rd' + paddingLen' = rd + paddingLen
      BY <1>3, <1>5, <1>6, <1>n
    <3>2. rd' + contentLen' + paddingLen' = Ends[k] + headerLen
      <4>1. rd + contentLen + paddingLen = Ends[k] + headerLen
        BY <2>3, <2>k DEF At
      <4>2. contentLen = 0 /\ contentLen' = 0
        BY <1>0, <1>1
      <4>3. rd' \in Nat /\ paddingLen' \in Nat
        BY <1>6
      <4>4. rd + paddingLen = Ends[k] + headerLen
        BY <1>n, <4>1, <4>2
      <4>5. rd' + contentLen' = rd'
        <5>1. \A a, b \in Int : b = 0 => a + b = a
          OBVIOUS
        <5>2. rd' \in Int /\ contentLen' \in Int
          BY <4>2, <4>3
        <5> QED BY <4>2, <5>1, <5>2
      <4> QED BY <3>1, <4>4, <4>5
    <3>3. k = 0 => paddingLen' = 0
      BY <1>6, <1>n, <2>k DEF At
    <3>4. k > 0 => paddingLen' <= input[k].pad /\ contentLen' <= input[k].len
      <4> SUFFICES ASSUME k > 0 PROVE paddingLen' <= input[k].pad /\ contentLen' <= input[k].len
        OBVIOUS
      <4>1. k \in 1 .. Len(input)
        BY <1>p, Basics
      <4>2. input[k].pad \in Nat /\ input[k].len \in Nat
        BY <1>p, <4>1, Basics, SpanFacts
      <4>3. contentLen <= input[k].len /\ paddingLen <= input[k].pad
        BY <2>k, <4>1 DEF At
      <4> QED BY <1>0, <1>6, <1>n, <4>2, <4>3
    <3> QED BY <1>0, <1>1, <2>3, <3>2, <3>3, <3>4 DEF At
  <2>5. Content(k)'
    BY <1>0, <1>1, <2>k, <1>5, OwnStay DEF Content, eorStop
  <2>6. Inner(k)'
    <3>1. ASSUME eorStop, frames[2].who = "begin" PROVE FALSE
      <4>1. frames[2].want > 0 /\ frames[2].want = Ready - rd + contentLen
        BY <1>1, <2>k, <3>1 DEF Inner
      <4>2. Ready - rd + contentLen = 0
        BY <1>1, <1>n, <2>3
      <4> QED BY <4>1, <4>2
    <3>2. \A s \in Nat : s <= rd => s <= rd'
      BY <1>6
    <3>3. eorStop => k \in 1 .. Len(input) /\ Ends[k - 1] + HeaderLen \in Nat
      <4>1. SUFFICES ASSUME eorStop PROVE k \in 1 .. Len(input) /\ Ends[k - 1] + HeaderLen \in Nat
        OBVIOUS
      <4>2. k \in 1 .. Len(input)
        BY <2>k, <1>p, <4>1, Basics DEF Inner
      <4> QED BY <1>p, <4>2, Basics, SpanFacts
    <3> QED BY <1>0, <2>k, <3>1, <3>2, <3>3 DEF Inner, eorStop
  <2>7. InTurn(k)' /\ AllAnswered(k)' /\ Unbegun(k)'
    BY <1>0, <1>1, <2>k, PlaceStays DEF eorStop
  <2> QED BY <2>2, <2>4, <2>5, <2>6, <2>7 DEF Place
<1>14. ASSUME Dropped PROVE Dropped' /\ DataAhead'
  <2>1. count = 0 /\ rd' = rd /\ paddingLen' = 0
    BY <1>3, <1>5, <1>6, <1>n, <1>14 DEF Dropped
  <2>2. Dropped'
    BY <1>0, <1>14, <2>1, OwnStay DEF Dropped, eorStop
  <2>3. DataAhead'
    BY <1>p, <1>0, <2>1, OwnStay DEF DataAhead
  <2> QED BY <2>2, <2>3
<1> QED BY <1>0, <1>7, <1>8, <1>9, <1>10, <1>11, <1>12, <1>13, <1>14 DEF ReaderIInv


LEMMA FillEndOfRecordReader ==
    ASSUME ReaderIInv, FillEndOfRecord
    PROVE  ReaderIInv'
<1>p. /\ PointerIInv /\ NothingForeign /\ NothingMissing /\ HeadersAtRecordStarts
      /\ EnvironmentWhole /\ WindowOwn /\ DataAhead /\ BeginRead /\ Request /\ RepliesDue
  BY DEF ReaderIInv
<1>0. /\ Ends' = Ends
      /\ UNCHANGED <<input, rd, contentLen, paddingLen, skip, type, FCGI_errno, headerLen,
                     requestId, isBeginProcessed, frames, phase, replies, delivered>>
  BY EndsStay DEF FillEndOfRecord, current, request
<1>1. pc = "next" /\ eorStop /\ eorStop' /\ contentLen = 0 /\ paddingLen = 0 /\ stop <= rd
  BY <1>p DEF FillEndOfRecord, PointerIInv, Pointers, eorStop
<1>2. PICK k \in 0 .. Len(input) : Place(k)
  BY <1>1 DEF Dropped, ReaderIInv
<1>k. At(k) /\ Content(k) /\ Inner(k) /\ UpToHere /\ InTurn(k) /\ AllAnswered(k) /\ Unbegun(k)
  BY <1>2 DEF Place
<1>3. stop' = rd /\ isClosed' = TRUE /\ pc' = "closed"
  BY DEF FillEndOfRecord
<1>4. PointerIInv'
  BY <1>p, FillEndOfRecordPointers
<1>5. NothingForeign' /\ NothingMissing' /\ \A t : DeliveredSet(t)' = DeliveredSet(t)
  BY <1>p, <1>0, StreamsStay
<1>6. BeginRead' /\ RepliesDue'
  <2>1. (rd - headerLen)' = rd - headerLen
    BY <1>0
  <2> QED BY <1>p, <1>0, <2>1, Basics, BeginStays, RepliesStay
<1>7. EnvironmentWhole' /\ HeadersAtRecordStarts'
  BY <1>p, <1>0, Basics, EnvironmentStays DEF Accepted, HeadersAtRecordStarts
<1>8. DataAhead'
  BY <1>p, <1>0, OwnStay DEF DataAhead
<1>9. Request'
  BY <1>p, <1>0, <1>1, <1>3 DEF Request, eorStop
<1>10. WindowOwn'
  BY <1>3 DEF WindowOwn, Pushable, Reading
<1>11. Place(k)'
  <2>1. Ready = rd /\ Ready' = rd
    BY <1>p, <1>0, <1>1, <1>3, Basics DEF Ready
  <2>2. At(k)'
    BY <1>0, <1>k, <2>1 DEF At
  <2>3. Content(k)'
    <3>1. stop' <= rd'
      BY <1>p, <1>0, <1>3, Basics
    <3> QED BY <1>0, <1>1, <1>3, <1>k, <3>1, OwnStay DEF Content
  <2>4. Inner(k)'
    BY <1>0, <1>1, <1>3, <1>k DEF Inner, eorStop
  <2>5. UpToHere'
    BY <1>0, <1>5, <1>k, OwnStay DEF UpToHere
  <2>6. InTurn(k)'
    BY <1>0, <1>3, <1>k, PlaceStays
  <2>7. AllAnswered(k)' /\ Unbegun(k)'
    BY <1>0, <1>1, <1>k, PlaceStays DEF eorStop
  <2> QED BY <2>2, <2>3, <2>4, <2>5, <2>6, <2>7 DEF Place
<1> QED BY <1>0, <1>4, <1>5, <1>6, <1>7, <1>8, <1>9, <1>10, <1>11 DEF ReaderIInv

LEMMA FillHeaderPartReader ==
    ASSUME ReaderIInv, FillHeaderPart
    PROVE  ReaderIInv'
<1>p. /\ PointerIInv /\ NothingForeign /\ NothingMissing /\ HeadersAtRecordStarts
      /\ EnvironmentWhole /\ WindowOwn /\ DataAhead /\ BeginRead /\ Request /\ RepliesDue
  BY DEF ReaderIInv
<1>0. /\ Ends' = Ends
      /\ UNCHANGED <<input, stop, contentLen, paddingLen, skip, type, isClosed, FCGI_errno,
                     requestId, isBeginProcessed, frames, phase, replies, delivered>>
  BY EndsStay DEF FillHeaderPart, current, request
<1>1. /\ pc = "next" /\ ~eorStop /\ contentLen = 0 /\ paddingLen = 0 /\ stop <= rd /\ ~isClosed
      /\ pc' = "fill"
  BY <1>p DEF FillHeaderPart, PointerIInv, Pointers
<1>n. rd \in Nat /\ headerLen \in Nat /\ bufStop \in Nat /\ rd <= bufStop /\ HeaderLen \in Nat
  BY <1>p, Basics
<1>2. PICK count \in Nat : count = bufStop - rd
  BY <1>n
<1>3. rd' = rd + count /\ headerLen' = headerLen + count /\ count < HeaderLen - headerLen
  BY <1>2 DEF FillHeaderPart
<1>4. /\ rd' \in Nat /\ rd <= rd' /\ rd' <= rd - headerLen + HeaderLen
      /\ headerLen' \in Nat /\ rd' - headerLen' = rd - headerLen
      /\ rd - headerLen \in Int
  BY <1>n, <1>3
<1>7. PointerIInv'
  BY <1>p, FillHeaderPartPointers
<1>8. NothingForeign' /\ NothingMissing'
  BY <1>p, <1>0, StreamsStay
<1>9. BeginRead' /\ RepliesDue'
  <2>1. (rd - headerLen)' = rd - headerLen
    BY <1>4
  <2>2. (rd - headerLen)' \in Int /\ rd - headerLen <= (rd - headerLen)'
    BY <1>4, <2>1
  <2> QED BY <1>p, <1>0, <1>4, <2>2, Basics, BeginStays, RepliesStay
<1>10. EnvironmentWhole' /\ HeadersAtRecordStarts'
  BY <1>p, <1>0, <1>4, Basics, EnvironmentStays DEF Accepted, HeadersAtRecordStarts
<1>11. Request'
  BY <1>p, <1>0, <1>1 DEF Request, eorStop
<1>12. WindowOwn'
  BY <1>1 DEF WindowOwn, Pushable, Reading
<1>13. ASSUME NEW k \in 0 .. Len(input), Place(k)
       PROVE  Place(k)' /\ DataAhead'
  <2>k. At(k) /\ Content(k) /\ Inner(k) /\ UpToHere /\ InTurn(k) /\ AllAnswered(k) /\ Unbegun(k)
    BY <1>13 DEF Place
  <2>1. Ready = rd /\ Ready' = rd'
    <3>1. stop \in Nat
      BY <1>p, Basics
    <3>2. stop' = stop /\ ~(stop > rd) /\ ~(stop > rd')
      BY <1>0, <1>1, <1>4, <1>n, <3>1
    <3> QED BY <3>2 DEF Ready
  <2>2. Ends[k] \in Nat /\ contentLen \in Nat /\ paddingLen \in Nat
    BY <1>p, Basics
  <2>3. rd = Ends[k] + headerLen
    BY <1>1, <1>n, <2>k, <2>1, <2>2 DEF At
  <2>4. rd' = Ends[k] + headerLen' /\ rd' <= Ends[k] + HeaderLen
    <3>1. \A e, h, c, H \in Nat : c < H - h => e + h + c = e + (h + c) /\ e + h + c <= e + H
      OBVIOUS
    <3>2. count < HeaderLen - headerLen
      BY <1>3
    <3>3. headerLen' = headerLen + count /\ rd' = rd + count
      BY <1>3
    <3>4. /\ Ends[k] + headerLen + count = Ends[k] + (headerLen + count)
          /\ Ends[k] + headerLen + count <= Ends[k] + HeaderLen
      BY <1>n, <2>2, <3>1, <3>2
    <3> QED BY <2>3, <3>3, <3>4
  <2>5. UpToHere' /\ DataAhead'
    <3>1. ASSUME NEW t \in StreamTypes, NEW p \in rd + 1 .. rd' PROVE p \notin OwnBytes(t)
      <4>1. p \in Int /\ rd < p /\ p <= rd'
        BY <1>n, <1>4
      <4>2. Ends[k] < p
        BY <1>n, <2>2, <2>3, <4>1
      <4>3. p <= Ends[k] + HeaderLen
        <5>1. \A x, y, z \in Int : x <= y /\ y <= z => x <= z
          OBVIOUS
        <5>2. rd' \in Int /\ Ends[k] + HeaderLen \in Int
          BY <1>n, <1>4, <2>2
        <5> QED BY <2>4, <4>1, <5>1, <5>2
      <4> QED BY <1>p, <4>1, <4>2, <4>3, Basics, HeaderBytes
    <3> QED BY <1>p, <2>k, <1>0, <1>4, <1>n, <3>1, PassedOver
  <2>6. At(k)'
    <3>1. Ready' + contentLen' + paddingLen' = Ends[k] + headerLen'
      <4>1. contentLen' = 0 /\ paddingLen' = 0
        BY <1>0, <1>1
      <4>2. \A a, b, c \in Int : b = 0 /\ c = 0 => a + b + c = a
        OBVIOUS
      <4>3. rd' \in Int /\ contentLen' \in Int /\ paddingLen' \in Int
        BY <1>4, <4>1
      <4> QED BY <2>1, <2>4, <4>1, <4>2, <4>3
    <3> QED BY <1>0, <1>1, <2>k, <3>1 DEF At
  <2>7. Content(k)'
    BY <1>0, <1>1, <2>k, OwnStay DEF Content, eorStop
  <2>8. Inner(k)'
    BY <1>0, <1>1 DEF Inner, eorStop
  <2>9. InTurn(k)' /\ AllAnswered(k)' /\ Unbegun(k)'
    BY <1>0, <1>1, <2>k, PlaceStays DEF eorStop
  <2> QED BY <2>5, <2>6, <2>7, <2>8, <2>9 DEF Place
<1>14. ASSUME Dropped PROVE Dropped' /\ DataAhead'
  <2>1. (rd - headerLen)' = rd - headerLen /\ (rd - headerLen + HeaderLen)' = rd - headerLen + HeaderLen
    BY <1>4
  <2>2. stop' <= rd'
    <3>1. stop \in Nat
      BY <1>p, Basics
    <3> QED BY <1>0, <1>1, <1>n, <1>4, <3>1
  <2>3. Dropped'
    BY <1>0, <1>1, <1>14, <2>1, <2>2, OwnStay DEF Dropped, eorStop
  <2>4. DataAhead'
    <3> SUFFICES ASSUME phase = "stdin", NEW p \in OwnBytes("DATA"), p \in 1 .. rd'
                 PROVE  FALSE
      BY <1>0, OwnStay DEF DataAhead
    <3>1. p \in 1 .. rd - headerLen + HeaderLen
      BY <1>n, <1>4
    <3> QED BY <1>1, <1>14, <3>1 DEF Dropped
  <2> QED BY <2>3, <2>4
<1> QED BY <1>0, <1>7, <1>8, <1>9, <1>10, <1>11, <1>12, <1>13, <1>14 DEF ReaderIInv
-----------------------------------------------------------------------------
(* The next header.                                                         *)

\* What holds where a header is read, whatever record is behind.
LEMMA BeforeHeader ==
    ASSUME ReaderIInv, pc = "next", ~eorStop
    PROVE  /\ contentLen = 0 /\ paddingLen = 0 /\ stop <= rd /\ ~isClosed /\ ~skip
           /\ phase \in {"begin", "params"} => FCGI_errno = "none"
           /\ phase = "begin" => requestId = 0 /\ ~isBeginProcessed
           /\ phase \in {"begin", "params", "stdin", "data"}
           /\ (phase # "begin" => isBeginProcessed /\ requestId # 0)
<1>p. PointerIInv /\ Request
  BY DEF ReaderIInv
<1>1. contentLen = 0 /\ paddingLen = 0 /\ stop <= rd /\ ~isClosed
  BY <1>p DEF PointerIInv, Pointers
<1>2. ~skip
  <2>1. ASSUME NEW k \in 0 .. Len(input), Place(k) PROVE ~skip
    <3>1. contentLen \in Nat /\ Content(k)
      BY <1>p, <2>1, Basics DEF Place
    <3> QED BY <1>1, <3>1 DEF Content
  <2> QED BY <2>1 DEF ReaderIInv, Dropped
<1>3. phase \in {"begin", "params", "stdin", "data"}
  BY <1>p DEF PointerIInv, Flags, Stages
<1>4. phase \in {"begin", "params"} => FCGI_errno = "none"
  BY <1>p, <1>1 DEF Request
<1>5. phase = "begin" => requestId = 0 /\ ~isBeginProcessed
  BY <1>p, <1>4 DEF Request
<1>6. phase # "begin" => isBeginProcessed /\ requestId # 0
  BY <1>p, <1>3 DEF PointerIInv, Stages, Request
<1> QED BY <1>1, <1>2, <1>3, <1>4, <1>5, <1>6

\* Record i is the one whose header is read.
HeaderOf(i) ==
    /\ i \in 1 .. Len(input) /\ Ends[i - 1] = rd - headerLen /\ rd' = Start(i)
    /\ contentLen' = input[i].len /\ paddingLen' = input[i].pad
    /\ Place(i - 1) \/ Dropped

LEMMA HeaderRead ==
    ASSUME ReaderIInv, FillHeader
    PROVE  /\ UNCHANGED <<input, type, isBeginProcessed, phase, delivered>>
           /\ pc = "next" /\ ~eorStop
           /\ rd' = rd - headerLen + HeaderLen /\ stop' = rd' /\ headerLen' = 0
           /\ rd' \in Nat /\ rd <= rd' /\ rd - headerLen \in Int
           /\ \/ \E i \in 1 .. Len(input) : HeaderOf(i) /\ ProcessHeader(i)
              \/ /\ Dropped /\ SetError("version")
                 /\ UNCHANGED <<contentLen, paddingLen, skip, requestId, frames, replies>>
<1>p. PointerIInv
  BY DEF ReaderIInv
<1>n. /\ rd \in Nat /\ headerLen \in Nat /\ HeaderLen \in Nat /\ headerLen < HeaderLen /\ HeaderLen > 0
      /\ bufStop \in Nat /\ bufStop <= Ends[Len(input)] /\ Len(input) \in Nat
      /\ Ends[Len(input)] \in Nat
  BY <1>p, Basics
<1>1. /\ pc = "next" /\ ~eorStop /\ rd' = rd + HeaderLen - headerLen /\ headerLen' = 0
      /\ stop' = rd' /\ bufStop - rd >= HeaderLen - headerLen
      /\ UNCHANGED <<input, type, isBeginProcessed, phase, delivered>>
  BY DEF FillHeader
<1>2. /\ rd' = rd - headerLen + HeaderLen /\ rd' \in Nat /\ rd <= rd' /\ rd - headerLen \in Int
      /\ rd' <= bufStop
  BY <1>1, <1>n
<1>3. /\ contentLen = 0 /\ paddingLen = 0 /\ stop <= rd
  BY <1>1, BeforeHeader
<1>4. ASSUME NEW i \in HeaderEndingAt(rd')
      PROVE  i \in 1 .. Len(input) /\ Ends[i - 1] = rd - headerLen /\ rd' = Start(i)
  <2>1. i \in 1 .. Len(input) /\ Ends[i - 1] + HeaderLen = rd'
    BY <1>4 DEF HeaderEndingAt
  <2>2. Ends[i - 1] \in Nat
    BY <1>p, <2>1, Basics DEF RecordLens
  <2>3. Ends[i - 1] = rd - headerLen
    BY <1>2, <1>n, <2>1, <2>2
  <2> QED BY <2>1, <2>3 DEF Start
<1>5. ASSUME NEW k \in 0 .. Len(input), Place(k)
      PROVE  k + 1 \in HeaderEndingAt(rd') /\ \A i \in HeaderEndingAt(rd') : i = k + 1
  <2>1. Ends[k] \in Nat /\ Ready = rd
    BY <1>p, <1>3, Basics DEF Ready
  <2>2. rd + contentLen + paddingLen = Ends[k] + headerLen
    BY <1>5, <2>1 DEF Place, At
  <2>3. rd = Ends[k] + headerLen
    BY <1>3, <1>n, <2>1, <2>2
  <2>4. rd' = Ends[k] + HeaderLen /\ rd' <= Ends[Len(input)]
    <3>1. rd - headerLen = Ends[k]
      BY <1>n, <2>1, <2>3
    <3>2. rd' <= Ends[Len(input)]
      BY <1>2, <1>n
    <3> QED BY <1>2, <3>1, <3>2
  <2>5. k # Len(input)
    <3> SUFFICES ASSUME k = Len(input) PROVE FALSE
      OBVIOUS
    <3>1. Ends[k] + HeaderLen <= Ends[k]
      BY <2>4
    <3> QED BY <3>1, <2>1, <1>n
  <2>6. k + 1 \in 1 .. Len(input) /\ k + 1 - 1 = k
    BY <2>5, <1>n
  <2>7. k + 1 \in HeaderEndingAt(rd')
    BY <2>4, <2>6 DEF HeaderEndingAt
  <2>8. ASSUME NEW i \in HeaderEndingAt(rd') PROVE i = k + 1
    <3>1. i \in 1 .. Len(input) /\ Ends[i - 1] = rd - headerLen /\ i - 1 \in 0 .. Len(input)
      BY <1>4
    <3>2. Ends[i - 1] = Ends[k] /\ Ends[i - 1] \in Nat
      <4>1. rd - headerLen = Ends[k]
        BY <1>n, <2>1, <2>3
      <4> QED BY <2>1, <3>1, <4>1
    <3>3. ~(i - 1 < k) /\ ~(k < i - 1)
      <4>1. ASSUME NEW a \in 0 .. Len(input), NEW b \in 0 .. Len(input), Ends[a] = Ends[b], a < b
            PROVE  FALSE
        <5>1. Ends[a] + HeaderLen <= Ends[b]
          BY <1>p, <4>1, Basics, EndsOrdered
        <5>2. Ends[a] \in Nat
          BY <1>p, Basics
        <5> QED BY <1>n, <4>1, <5>1, <5>2
      <4> QED BY <3>1, <3>2, <4>1
    <3> QED BY <1>n, <3>1, <3>3
  <2> QED BY <2>7, <2>8
<1>6. CASE \E i \in HeaderEndingAt(rd') :
             contentLen' = input[i].len /\ paddingLen' = input[i].pad /\ ProcessHeader(i)
  <2>1. PICK i \in HeaderEndingAt(rd') :
            contentLen' = input[i].len /\ paddingLen' = input[i].pad /\ ProcessHeader(i)
    BY <1>6
  <2>2. i \in 1 .. Len(input) /\ Ends[i - 1] = rd - headerLen /\ rd' = Start(i)
    BY <1>4
  <2>3. Place(i - 1) \/ Dropped
    <3>1. ASSUME NEW k \in 0 .. Len(input), Place(k) PROVE Place(i - 1)
      <4>1. i - 1 = k
        BY <1>5, <1>n, <2>2, <3>1
      <4> QED BY <3>1, <4>1
    <3> QED BY <3>1 DEF ReaderIInv
  <2> QED BY <1>1, <1>2, <2>1, <2>2, <2>3 DEF HeaderOf
<1>7. CASE /\ HeaderEndingAt(rd') = {} /\ SetError("version")
           /\ UNCHANGED <<contentLen, paddingLen, skip, requestId, frames, replies>>
  <2>1. Dropped
    BY <1>5, <1>7 DEF ReaderIInv
  <2> QED BY <1>1, <1>2, <1>7, <2>1
<1> QED BY <1>6, <1>7 DEF FillHeader
-----------------------------------------------------------------------------
(* What ProcessHeader comes to.                                             *)

HeaderError ==
    /\ isClosed' = TRUE /\ pc' = "closed" /\ FCGI_errno' # "none" /\ FCGI_errno' # "version"
    /\ UNCHANGED <<skip, requestId, frames, replies>>
HeaderReply(i) ==
    /\ Due(i) /\ (input[i].type = "BEGIN" => requestId # 0)
    /\ replies' = Append(replies, <<Answer(i), i>>) /\ pc' = "fill"
    /\ \/ skip' = TRUE /\ input[i].len > 0 /\ input[i].type = "BEGIN"
       \/ skip' = skip /\ input[i].len = 0
    /\ UNCHANGED <<isClosed, FCGI_errno, requestId, frames>>
HeaderBegin(i) ==
    /\ phase = "begin" /\ IsFirst(input, i) /\ input[i].len = BodyLen
    /\ requestId' = input[i].id /\ requestId' # 0 /\ \A j \in 1 .. i - 1 : input[j].type # "BEGIN"
    /\ frames' = Append(frames, Call("begin", BodyLen)) /\ pc' = "get"
    /\ UNCHANGED <<skip, isClosed, FCGI_errno, replies>>
HeaderValues(i) ==
    /\ input[i].type = "GET_VALUES" /\ input[i].id = 0
    /\ frames' = Append(frames, Call("values", 1)) /\ pc' = "get"
    /\ UNCHANGED <<skip, requestId, isClosed, FCGI_errno, replies>>
HeaderSkip(i) ==
    /\ ~Due(i) /\ input[i].type # "BEGIN" /\ input[i].len > 0 /\ \A t : i \notin OwnRecords(t)
    /\ skip' = TRUE /\ pc' = "fill"
    /\ UNCHANGED <<requestId, frames, isClosed, FCGI_errno, replies>>
HeaderStream(i) ==
    /\ ~Due(i) /\ input[i].type # "BEGIN" /\ i \in OwnRecords(type)
    /\ \/ input[i].len = 0 /\ input[i].pad = 0 /\ isClosed' = TRUE /\ pc' = "closed"
       \/ input[i].len > 0 /\ isClosed' = isClosed /\ pc' = "fill"
    /\ UNCHANGED <<skip, requestId, frames, FCGI_errno, replies>>

LEMMA OneFirst ==
    ASSUME InputOK, NEW a, NEW b, IsFirst(input, a), IsFirst(input, b)
    PROVE  a = b
<1>1. Len(input) \in Nat
  BY EndsFacts
<1>2. ~(a < b) /\ ~(b < a)
  BY <1>1 DEF IsFirst
<1> QED BY <1>1, <1>2 DEF IsFirst

\* A record of the request that is being read.
LEMMA OfThis ==
    ASSUME InputOK, RequestScript(input), BeginRead, requestId # 0, headerLen \in Nat, rd \in Nat,
           NEW i \in 1 .. Len(input), input[i].id = requestId, Ends[i - 1] >= rd - headerLen
    PROVE  /\ input[i].type # "BEGIN"
           /\ input[i].len = 0 => input[i].pad = 0
<1>1. PICK b \in 1 .. Len(input) : /\ IsFirst(input, b) /\ requestId = input[b].id
                                   /\ Ends[b - 1] + HeaderLen <= rd - headerLen
  BY DEF BeginRead
<1>2. b # i
  <2>1. HeaderLen \in Nat /\ HeaderLen > 0 /\ Ends[b - 1] \in Nat
    BY <1>1, Sizes, SpanFacts
  <2>2. rd - headerLen \in Int
    OBVIOUS
  <2> QED BY <1>1, <2>1, <2>2
<1>3. OfRequest(input, b, i)
  BY <1>1 DEF OfRequest
<1> QED BY <1>1, <1>2, <1>3 DEF RequestScript

LEMMA HeaderOutcomes ==
    ASSUME RequestScript(input), ReaderIInv, FillHeader,
           NEW i \in 1 .. Len(input), HeaderOf(i), ProcessHeader(i)
    PROVE  \/ HeaderError \/ HeaderReply(i) \/ HeaderBegin(i) \/ HeaderValues(i)
           \/ HeaderSkip(i) \/ HeaderStream(i)
<1>p. PointerIInv /\ HeadersAtRecordStarts /\ BeginRead /\ Request
  BY DEF ReaderIInv
<1>b. InputOK /\ rd \in Nat /\ headerLen \in Nat /\ Ends[i - 1] >= rd - headerLen
  <2>1. Ends[i - 1] = rd - headerLen /\ rd - headerLen \in Int
    BY <1>p, Basics DEF HeaderOf
  <2> QED BY <1>p, <2>1, Basics
<1>0. /\ pc = "next" /\ ~eorStop
  BY DEF FillHeader
<1>1. /\ ~isClosed /\ ~skip
      /\ phase \in {"begin", "params"} => FCGI_errno = "none"
      /\ phase = "begin" => requestId = 0 /\ ~isBeginProcessed
      /\ phase # "begin" => isBeginProcessed /\ requestId # 0
  BY <1>0, BeforeHeader
<1>2. input[i] \in Record /\ input[i].len \in Nat /\ input[i].pad \in Nat
      /\ input[i].type \in RecordTypes /\ input[i].id \in Nat
  BY <1>b, SpanFacts DEF Record
<1>3. ASSUME NEW e \in {"protocol", "os", "version"}, SetError(e), FCGI_errno # "none" \/ e # "version"
      PROVE  isClosed' = TRUE /\ pc' = "closed" /\ FCGI_errno' # "none" /\ FCGI_errno' # "version"
  BY <1>p, <1>3 DEF SetError, FirstError, HeadersAtRecordStarts
<1>4. CASE SetError("protocol") /\ UNCHANGED <<skip, requestId, frames, replies>>
  BY <1>3, <1>4 DEF HeaderError
<1>5. requestId = 0 => \A j \in 1 .. i - 1 : input[j].type # "BEGIN"
  <2>1. requestId = 0 => phase = "begin" /\ FCGI_errno = "none"
    BY <1>1
  <2>2. requestId = 0 => Unbegun(i - 1)
    BY <2>1 DEF HeaderOf, Dropped, Place
  <2> QED BY <2>1, <2>2 DEF Unbegun
<1>6. CASE input[i].type = "BEGIN" /\ ProcessBeginRecord(i)
  <2>1. CASE input[i].id = 0 \/ input[i].len # BodyLen
    BY <1>4, <1>6, <2>1 DEF ProcessBeginRecord
  <2>2. CASE ~(input[i].id = 0 \/ input[i].len # BodyLen) /\ isBeginProcessed
    <3>1. Reply("CANT_MPX_CONN", i) /\ skip' = (skip \/ pc' = "fill") /\ UNCHANGED <<requestId, frames>>
      BY <1>6, <2>2 DEF ProcessBeginRecord
    <3>2. requestId # 0
      BY <1>1, <2>2
    <3>3. input[i].id # requestId
      BY <1>6, <1>b, <1>p, <3>2, OfThis
    <3>4. Due(i) /\ Answer(i) = "CANT_MPX_CONN"
      BY <1>6, <3>3 DEF Due, Answer
    <3>5. CASE replies' = Append(replies, <<"CANT_MPX_CONN", i>>) /\ pc' = "fill"
               /\ UNCHANGED <<isClosed, FCGI_errno>>
      <4>1. skip' = TRUE
        BY <3>1, <3>5
      <4>2. input[i].len > 0
        BY <2>2, Sizes
      <4> QED BY <1>6, <3>1, <3>2, <3>4, <3>5, <4>1, <4>2 DEF HeaderReply
    <3>6. CASE SetError("os") /\ UNCHANGED replies
      <4>1. isClosed' = TRUE /\ pc' = "closed" /\ FCGI_errno' # "none" /\ FCGI_errno' # "version"
        BY <1>3, <3>6
      <4>2. skip' = skip
        BY <1>1, <1>p, <3>1, <4>1 DEF PointerIInv, Flags
      <4> QED BY <3>1, <3>6, <4>1, <4>2 DEF HeaderError
    <3> QED BY <3>1, <3>5, <3>6 DEF Reply
  <2>3. CASE ~(input[i].id = 0 \/ input[i].len # BodyLen) /\ ~isBeginProcessed
    <3>1. phase = "begin" /\ requestId = 0
      BY <1>1, <2>3
    <3>2. IsFirst(input, i)
      BY <1>5, <1>6, <3>1 DEF IsFirst
    <3> QED BY <1>5, <1>6, <2>3, <3>1, <3>2 DEF ProcessBeginRecord, HeaderBegin
  <2> QED BY <2>1, <2>2, <2>3
<1>7. CASE input[i].type # "BEGIN" /\ input[i].id = 0 /\ ProcessManagementRecord(i)
  <2>1. CASE input[i].type = "GET_VALUES"
    BY <1>7, <2>1 DEF ProcessManagementRecord, HeaderValues
  <2>2. CASE input[i].type # "GET_VALUES"
    <3>1. Reply("UNKNOWN_TYPE", i) /\ UNCHANGED <<skip, requestId, frames>>
      BY <1>7, <2>2 DEF ProcessManagementRecord
    <3>2. Due(i) /\ Answer(i) = "UNKNOWN_TYPE" /\ input[i].len = 0
      BY <1>7, <2>2 DEF Due, Answer, RequestScript
    <3>3. CASE replies' = Append(replies, <<"UNKNOWN_TYPE", i>>) /\ pc' = "fill"
               /\ UNCHANGED <<isClosed, FCGI_errno>>
      BY <1>7, <3>1, <3>2, <3>3 DEF HeaderReply
    <3>4. CASE SetError("os") /\ UNCHANGED replies
      BY <1>3, <3>1, <3>4 DEF HeaderError
    <3> QED BY <3>1, <3>3, <3>4 DEF Reply
  <2> QED BY <2>1, <2>2
<1>8. CASE input[i].type # "BEGIN" /\ input[i].id \notin {0, requestId} /\ SkipRecord
  <2>1. ~Due(i) /\ \A t : i \notin OwnRecords(t)
    BY <1>8 DEF Due, OwnRecords
  <2>2. input[i].len # 0
    <3> SUFFICES ASSUME input[i].len = 0 PROVE FALSE
      OBVIOUS
    <3>1. PICK b \in 1 .. Len(input) : OfRequest(input, b, i)
      BY <1>8 DEF RequestScript
    <3>2. IsFirst(input, b) /\ input[i].id = input[b].id
      BY <3>1 DEF OfRequest
    <3>3. b # i /\ b < i
      BY <1>8, <3>1, <3>2 DEF RequestScript, IsFirst
    <3>4. CASE requestId = 0
      BY <1>5, <3>2, <3>3, <3>4 DEF IsFirst
    <3>5. CASE requestId # 0
      <4>1. PICK c \in 1 .. Len(input) : IsFirst(input, c) /\ requestId = input[c].id
        BY <1>p, <3>5 DEF BeginRead
      <4>2. c = b
        BY <1>b, <3>2, <4>1, OneFirst
      <4> QED BY <1>8, <3>2, <4>1, <4>2
    <3> QED BY <3>4, <3>5
  <2>3. input[i].len > 0
    BY <1>2, <2>2
  <2> QED BY <1>8, <2>1, <2>3 DEF SkipRecord, HeaderSkip
<1>9. CASE /\ input[i].type # "BEGIN" /\ input[i].id # 0 /\ input[i].id = requestId
           /\ input[i].type = type /\ ProcessStreamRecord(i)
  <2>1. ~Due(i) /\ i \in OwnRecords(type)
    BY <1>9 DEF Due, OwnRecords
  <2>2. CASE input[i].len = 0
    <3>1. input[i].pad = 0
      BY <1>9, <1>b, <1>p, <2>2, OfThis
    <3> QED BY <1>9, <2>1, <2>2, <3>1 DEF ProcessStreamRecord, HeaderStream
  <2>3. CASE input[i].len # 0
    <3>1. input[i].len > 0
      BY <1>2, <2>3
    <3> QED BY <1>9, <2>1, <2>3, <3>1 DEF ProcessStreamRecord, HeaderStream
  <2> QED BY <2>2, <2>3
<1>10. CASE input[i].type = "BEGIN"
  BY <1>6, <1>10 DEF ProcessHeader
<1>11. CASE input[i].type # "BEGIN" /\ input[i].id = 0
  BY <1>7, <1>11 DEF ProcessHeader
<1>12. CASE input[i].type # "BEGIN" /\ input[i].id \notin {0, requestId}
  BY <1>8, <1>12 DEF ProcessHeader
<1>13. CASE input[i].type # "BEGIN" /\ input[i].id # 0 /\ input[i].id = requestId
  BY <1>4, <1>9, <1>13 DEF ProcessHeader
<1> QED BY <1>10, <1>11, <1>12, <1>13

\* The records answered lie before the header that has been read.
LEMMA AnsweredBefore ==
    ASSUME PointerIInv, RepliesDue, NEW i \in 1 .. Len(input), Ends[i - 1] >= rd - headerLen
    PROVE  \A l \in DOMAIN replies : replies[l][2] \in 1 .. Len(input) /\ replies[l][2] < i
<1> SUFFICES ASSUME NEW l \in DOMAIN replies
             PROVE  replies[l][2] \in 1 .. Len(input) /\ replies[l][2] < i
  OBVIOUS
<1>1. replies[l][2] \in 1 .. Len(input)
  <2>1. RepliesType
    BY Basics
  <2> QED BY <2>1 DEF RepliesType
<1>2. PICK j \in 1 .. Len(input) : j = replies[l][2]
  BY <1>1
<1>3. Ends[j - 1] + HeaderLen <= rd - headerLen
  BY <1>2 DEF RepliesDue
<1>4. /\ Len(input) \in Nat /\ i - 1 \in 0 .. Len(input) /\ j - 1 \in 0 .. Len(input)
      /\ Ends[i - 1] \in Nat /\ Ends[j - 1] \in Nat /\ HeaderLen \in Nat /\ HeaderLen > 0
      /\ rd - headerLen \in Int
  BY Basics, SpanFacts
<1>5. Ends[j - 1] < Ends[i - 1]
  BY <1>3, <1>4
<1>6. CASE i <= j
  <2>1. i - 1 <= j - 1
    BY <1>6, <1>4
  <2>2. Ends[i - 1] <= Ends[j - 1]
    BY <1>4, <2>1, Basics, EndsMonotone
  <2> QED BY <1>4, <1>5, <2>2
<1>7. CASE ~(i <= j)
  BY <1>1, <1>2, <1>4, <1>7
<1> QED BY <1>6, <1>7

LEMMA ReplyAdded ==
    ASSUME InputOK, RepliesType, RepliesDue, UNCHANGED <<input, requestId>>,
           NEW i \in 1 .. Len(input), Due(i), input[i].type = "BEGIN" => requestId # 0,
           replies' = Append(replies, <<Answer(i), i>>),
           \A l \in DOMAIN replies : replies[l][2] < i,
           rd - headerLen \in Int, (rd - headerLen)' \in Int, rd - headerLen <= (rd - headerLen)',
           Ends[i - 1] + HeaderLen <= (rd - headerLen)'
    PROVE  /\ RepliesDue'
           /\ \A j : (\E l \in DOMAIN replies : replies[l][2] = j) \/ j = i =>
                         \E l \in DOMAIN replies' : replies'[l][2] = j
<1>1. Answer(i) \in {"CANT_MPX_CONN", "UNKNOWN_TYPE", "GET_VALUES_RESULT"}
  BY DEF Answer
<1>2. PICK n \in Nat : n = Len(replies) /\ DOMAIN replies = 1 .. n
  BY DEF RepliesType
<1>3. /\ DOMAIN replies' = 1 .. n + 1 /\ replies'[n + 1] = <<Answer(i), i>>
      /\ \A l \in 1 .. n : replies'[l] = replies[l]
  <2>1. <<Answer(i), i>> \in {"CANT_MPX_CONN", "UNKNOWN_TYPE", "GET_VALUES_RESULT"} \X (1 .. Len(input))
    BY <1>1
  <2>2. /\ replies' \in Seq({"CANT_MPX_CONN", "UNKNOWN_TYPE", "GET_VALUES_RESULT"} \X (1 .. Len(input)))
        /\ Len(replies') = n + 1 /\ replies'[n + 1] = <<Answer(i), i>>
        /\ \A l \in 1 .. n : replies'[l] = replies[l]
    BY <1>2, <2>1, Appended DEF RepliesType
  <2> QED BY <2>2
<1>4. replies'[n + 1][1] = Answer(i) /\ replies'[n + 1][2] = i
  BY <1>3
<1>5. ASSUME NEW l \in 1 .. n
      PROVE  \E j \in 1 .. Len(input) :
                /\ j = replies[l][2] /\ Due(j) /\ replies[l][1] = Answer(j)
                /\ input[j].type = "BEGIN" => requestId # 0
                /\ Ends[j - 1] + HeaderLen <= (rd - headerLen)'
                /\ \A m \in 1 .. n : l < m => j < replies[m][2]
  <2>1. PICK j \in 1 .. Len(input) : j = replies[l][2]
    BY <1>2 DEF RepliesType
  <2>2. /\ Due(j) /\ replies[l][1] = Answer(j) /\ (input[j].type = "BEGIN" => requestId # 0)
        /\ Ends[j - 1] + HeaderLen <= rd - headerLen
        /\ \A m \in 1 .. n : l < m => j < replies[m][2]
    BY <1>2, <2>1 DEF RepliesDue
  <2>3. Ends[j - 1] \in Nat /\ HeaderLen \in Nat
    BY SpanFacts, Sizes
  <2>4. Ends[j - 1] + HeaderLen <= (rd - headerLen)'
    <3>1. \A x, y, z \in Int : x <= y /\ y <= z => x <= z
      OBVIOUS
    <3>2. Ends[j - 1] + HeaderLen \in Int
      BY <2>3
    <3> QED BY <2>2, <3>1, <3>2
  <2> QED BY <2>1, <2>2, <2>4
<1>6. /\ Ends' = Ends /\ \A j : (Due(j)' <=> Due(j)) /\ Answer(j)' = Answer(j)
  BY OwnStay
<1>7. RepliesDue'
  <2>1. ASSUME NEW l \in DOMAIN replies'
        PROVE  \E j \in 1 .. Len(input) :
                  /\ j = replies'[l][2] /\ Due(j) /\ replies'[l][1] = Answer(j)
                  /\ input[j].type = "BEGIN" => requestId # 0
                  /\ Ends[j - 1] + HeaderLen <= (rd - headerLen)'
                  /\ \A m \in DOMAIN replies' : l < m => j < replies'[m][2]
    <3>1. CASE l = n + 1
      <4>1. \A m \in 1 .. n + 1 : ~(l < m)
        BY <3>1
      <4>2. replies'[l][2] = i /\ replies'[l][1] = Answer(i)
        BY <1>4, <3>1
      <4>3. \A m \in DOMAIN replies' : l < m => i < replies'[m][2]
        BY <1>3, <4>1
      <4> WITNESS i \in 1 .. Len(input)
      <4> QED BY <4>2, <4>3
    <3>2. CASE l # n + 1
      <4>1. l \in 1 .. n /\ replies'[l] = replies[l]
        BY <1>3, <3>2
      <4>2. \A m \in 1 .. n + 1 : m \in 1 .. n \/ m = n + 1
        OBVIOUS
      <4>3. PICK j \in 1 .. Len(input) :
                /\ j = replies[l][2] /\ Due(j) /\ replies[l][1] = Answer(j)
                /\ input[j].type = "BEGIN" => requestId # 0
                /\ Ends[j - 1] + HeaderLen <= (rd - headerLen)'
                /\ \A m \in 1 .. n : l < m => j < replies[m][2]
        BY <1>5, <4>1
      <4>4. j < i
        BY <1>2, <4>1, <4>3
      <4>5. \A m \in 1 .. n + 1 : l < m => j < replies'[m][2]
        <5> SUFFICES ASSUME NEW m \in 1 .. n + 1, l < m PROVE j < replies'[m][2]
          OBVIOUS
        <5>1. CASE m \in 1 .. n
          BY <1>3, <4>3, <5>1
        <5>2. CASE m = n + 1
          BY <1>4, <4>4, <5>2
        <5> QED BY <4>2, <5>1, <5>2
      <4> WITNESS j \in 1 .. Len(input)
      <4> QED BY <1>3, <4>1, <4>3, <4>5
    <3> QED BY <3>1, <3>2
  <2>2. ASSUME NEW l \in DOMAIN replies', NEW r, r = replies'[l][2]
        PROVE  /\ Due(r)' /\ replies'[l][1] = Answer(r)'
               /\ input'[r].type = "BEGIN" => requestId' # 0
               /\ Ends'[r - 1] + HeaderLen <= (rd - headerLen)'
               /\ \A m \in DOMAIN replies' : l < m => r < replies'[m][2]
    BY <1>6, <2>1, <2>2
  <2> QED BY <2>2 DEF RepliesDue
<1>8. ASSUME NEW j, (\E l \in DOMAIN replies : replies[l][2] = j) \/ j = i
      PROVE  \E l \in DOMAIN replies' : replies'[l][2] = j
  <2>1. CASE j = i
    <3>1. n + 1 \in 1 .. n + 1
      OBVIOUS
    <3> QED BY <1>3, <1>4, <2>1, <3>1
  <2>2. CASE \E l \in DOMAIN replies : replies[l][2] = j
    <3>1. PICK l \in 1 .. n : replies[l][2] = j
      BY <1>2, <2>2
    <3>2. l \in 1 .. n + 1
      OBVIOUS
    <3> QED BY <1>3, <3>1, <3>2
  <2> QED BY <1>8, <2>1, <2>2
<1> QED BY <1>7, <1>8

\* What is kept when a header is read and the request stays.
LEMMA HeaderKeeps ==
    ASSUME ReaderIInv, FillHeader, UNCHANGED requestId, FCGI_errno' = "none" => FCGI_errno = "none"
    PROVE  /\ PointerIInv' /\ NothingForeign' /\ NothingMissing' /\ EnvironmentWhole'
           /\ BeginRead' /\ DataAhead' /\ (UNCHANGED replies => RepliesDue')
           /\ (rd - headerLen)' = rd' /\ (rd - headerLen)' \in Int
           /\ rd - headerLen \in Int /\ rd - headerLen <= (rd - headerLen)'
<1>p. /\ PointerIInv /\ NothingForeign /\ NothingMissing /\ EnvironmentWhole
      /\ DataAhead /\ BeginRead /\ RepliesDue
  BY DEF ReaderIInv
<1>0. /\ UNCHANGED <<input, type, isBeginProcessed, phase, delivered>>
      /\ pc = "next" /\ ~eorStop
      /\ rd' = rd - headerLen + HeaderLen /\ stop' = rd' /\ headerLen' = 0
      /\ rd' \in Nat /\ rd <= rd' /\ rd - headerLen \in Int
  BY HeaderRead
<1>n. rd \in Nat /\ headerLen \in Nat /\ HeaderLen \in Nat
  BY <1>p, Basics
<1>1. PointerIInv'
  BY <1>p, FillHeaderPointers
<1>2. NothingForeign' /\ NothingMissing'
  BY <1>p, <1>0, StreamsStay
<1>3. EnvironmentWhole'
  BY <1>p, <1>0, <1>n, Basics, EnvironmentStays DEF Accepted
<1>4. (rd - headerLen)' = rd'
  BY <1>0
<1>5. (rd - headerLen)' \in Int /\ rd - headerLen <= (rd - headerLen)'
  BY <1>0, <1>n, <1>4
<1>6. BeginRead'
  BY <1>p, <1>0, <1>5, Basics, BeginStays
<1>7. UNCHANGED replies => RepliesDue'
  BY <1>p, <1>0, <1>5, Basics, RepliesStay
<1>8. DataAhead'
  <2> SUFFICES ASSUME phase = "stdin", NEW p \in OwnBytes("DATA"), p \in 1 .. rd'
               PROVE  FALSE
    BY <1>0, OwnStay DEF DataAhead
  <2>1. CASE Dropped
    <3>1. ~isClosed
      BY <1>0, BeforeHeader
    <3> QED BY <1>0, <2>1, <3>1 DEF Dropped
  <2>2. ASSUME NEW k \in 0 .. Len(input), Place(k) PROVE FALSE
    <3>1. ~(p \in 1 .. rd) /\ p \in Int /\ rd < p /\ p <= rd'
      BY <1>p, <1>0, <1>n DEF DataAhead
    <3>2. contentLen = 0 /\ paddingLen = 0 /\ stop <= rd
      BY <1>0, BeforeHeader
    <3>3. Ends[k] \in Nat /\ Ready = rd
      BY <1>p, <3>2, Basics DEF Ready
    <3>4. rd + contentLen + paddingLen = Ends[k] + headerLen
      BY <2>2, <3>3 DEF Place, At
    <3>5. rd = Ends[k] + headerLen
      BY <1>n, <3>2, <3>3, <3>4
    <3>6. Ends[k] < p
      BY <1>n, <3>1, <3>3, <3>5
    <3>7. rd - headerLen = Ends[k]
      BY <1>n, <3>3, <3>5
    <3>8. p <= Ends[k] + HeaderLen
      BY <1>0, <3>1, <3>7
    <3> QED BY <1>p, <3>1, <3>6, <3>8, Basics, HeaderBytes
  <2> QED BY <2>1, <2>2 DEF ReaderIInv
<1> QED BY <1>0, <1>1, <1>2, <1>3, <1>4, <1>5, <1>6, <1>7, <1>8

LEMMA HeaderAt ==
    ASSUME ReaderIInv, FillHeader, NEW i \in 1 .. Len(input), HeaderOf(i)
    PROVE  At(i)' /\ Ready' = rd' /\ rd' = Start(i) /\ Start(i) \in Nat
           /\ Ends' = Ends /\ Ends[i - 1] + HeaderLen <= rd'
<1>p. PointerIInv
  BY DEF ReaderIInv
<1>0. rd' = Start(i) /\ stop' = rd' /\ headerLen' = 0 /\ input' = input /\ Ends' = Ends
      /\ contentLen' = input[i].len /\ paddingLen' = input[i].pad
  BY HeaderRead, EndsStay DEF HeaderOf
<1>1. /\ Start(i) \in Nat /\ Body(i) \in Nat /\ Ends[i] \in Nat /\ Ends[i - 1] \in Nat
      /\ input[i].len \in Nat /\ input[i].pad \in Nat /\ HeaderLen \in Nat
      /\ Body(i) = Start(i) + input[i].len /\ Ends[i] = Body(i) + input[i].pad
      /\ Start(i) = Ends[i - 1] + HeaderLen
  BY <1>p, Basics, SpanFacts
<1>2. Ready' = rd'
  BY <1>0 DEF Ready
<1>3. Ready' + contentLen' + paddingLen' = Ends[i] + headerLen'
  <2>1. Start(i) + input[i].len + input[i].pad = Ends[i] + 0
    BY <1>1
  <2> QED BY <1>0, <1>2, <2>1
<1>4. i # 0
  OBVIOUS
<1>5. At(i)'
  BY <1>0, <1>1, <1>3, <1>4 DEF At
<1> QED BY <1>0, <1>1, <1>2, <1>5

LEMMA HeaderUpTo ==
    ASSUME ReaderIInv, FillHeader, NEW i \in 1 .. Len(input), HeaderOf(i), UNCHANGED requestId
    PROVE  UpToHere'
<1>p. PointerIInv /\ DataAhead
  BY DEF ReaderIInv
<1>0. /\ UNCHANGED <<input, type, isBeginProcessed, phase, delivered>>
      /\ pc = "next" /\ ~eorStop
      /\ rd' = rd - headerLen + HeaderLen
      /\ rd' \in Nat /\ rd <= rd' /\ rd - headerLen \in Int
  BY HeaderRead
<1>n. rd \in Nat /\ headerLen \in Nat /\ HeaderLen \in Nat
  BY <1>p, Basics
<1>1. Ends[i - 1] = rd - headerLen /\ i - 1 \in 0 .. Len(input) /\ Ends[i - 1] \in Nat
  BY <1>p, Basics, SpanFacts DEF HeaderOf
<1>2. ASSUME NEW t \in StreamTypes, NEW p \in 1 .. rd', ~(p \in 1 .. rd - headerLen)
      PROVE  p \notin OwnBytes(t)
  <2>1. p \in Int /\ Ends[i - 1] < p /\ p <= Ends[i - 1] + HeaderLen
    BY <1>0, <1>1, <1>2, <1>n
  <2> QED BY <1>p, <1>1, <2>1, Basics, HeaderBytes
<1>3. CASE Place(i - 1)
  <2>1. \A t \in StreamTypes : \A p \in rd + 1 .. rd' : p \notin OwnBytes(t)
    <3> SUFFICES ASSUME NEW t \in StreamTypes, NEW p \in rd + 1 .. rd' PROVE p \notin OwnBytes(t)
      OBVIOUS
    <3>1. p \in 1 .. rd' /\ ~(p \in 1 .. rd - headerLen)
      BY <1>0, <1>n
    <3> QED BY <1>2, <3>1
  <2>2. UpToHere
    BY <1>3 DEF Place
  <2> QED BY <1>p, <1>0, <1>n, <2>1, <2>2, PassedOver
<1>4. CASE Dropped
  <2>1. ~isClosed
    BY <1>0, BeforeHeader
  <2>2. delivered[type] = <<>> /\ OwnBytes(type) \cap 1 .. rd - headerLen = {}
    BY <1>4, <2>1 DEF Dropped
  <2>3. DeliveredSet(type)' = {}
    BY <1>0, <2>2 DEF DeliveredSet
  <2>4. type \in StreamTypes => OwnBytes(type)' \cap 1 .. rd' = {}
    BY <1>0, <1>2, <2>2, OwnStay
  <2> QED BY <1>0, <2>3, <2>4 DEF UpToHere
<1> QED BY <1>3, <1>4 DEF HeaderOf

LEMMA HeaderRest ==
    ASSUME ReaderIInv, FillHeader, NEW i \in 1 .. Len(input), HeaderOf(i), UNCHANGED requestId,
           FCGI_errno' = "none" => FCGI_errno = "none",
           \A j : (\E l \in DOMAIN replies : replies[l][2] = j) =>
                     \E l \in DOMAIN replies' : replies'[l][2] = j,
           Due(i) /\ ~eorStop' /\ FCGI_errno' = "none" => \E l \in DOMAIN replies' : replies'[l][2] = i,
           i \in OwnRecords("STDIN") \cup OwnRecords("DATA") /\ phase = "params" =>
               isClosed' /\ contentLen' = input[i].len,
           input[i].type # "BEGIN" \/ requestId # 0 \/ FCGI_errno' # "none"
    PROVE  AllAnswered(i)' /\ InTurn(i)' /\ Unbegun(i)'
<1>0. UNCHANGED <<input, type, isBeginProcessed, phase, delivered>> /\ pc = "next" /\ ~eorStop
  BY HeaderRead
<1>1. ~isClosed
  BY <1>0, BeforeHeader
<1>2. FCGI_errno = "none" => AllAnswered(i - 1) /\ Unbegun(i - 1)
  BY DEF HeaderOf, Dropped, Place
<1>3. phase = "params" => InTurn(i - 1)
  BY DEF HeaderOf, Dropped, Place
<1>4. \A j \in 1 .. i : j \in 1 .. i - 1 \/ j = i
  OBVIOUS
<1>5. AllAnswered(i)'
  <2> SUFFICES ASSUME FCGI_errno' = "none", NEW j \in 1 .. i, Due(j), ~(eorStop' /\ j = i)
               PROVE  \E l \in DOMAIN replies' : replies'[l][2] = j
    BY <1>0, OwnStay DEF AllAnswered
  <2>1. CASE j = i
    BY <2>1
  <2>2. CASE j \in 1 .. i - 1
    <3>1. \E l \in DOMAIN replies : replies[l][2] = j
      BY <1>0, <1>2, <2>2 DEF AllAnswered
    <3> QED BY <3>1
  <2> QED BY <1>4, <2>1, <2>2
<1>6. InTurn(i)'
  <2> SUFFICES ASSUME phase = "params", NEW t \in {"STDIN", "DATA"}, NEW j \in OwnRecords(t)
               PROVE  i < j \/ (i = j /\ isClosed' /\ contentLen' = input[i].len)
    BY <1>0, OwnStay DEF InTurn
  <2>1. i - 1 < j
    BY <1>1, <1>3 DEF InTurn
  <2>2. j \in 1 .. Len(input)
    BY DEF OwnRecords
  <2>3. CASE j = i
    BY <2>3
  <2>4. CASE j # i
    BY <2>1, <2>2, <2>4
  <2> QED BY <2>3, <2>4
<1>7. Unbegun(i)'
  BY <1>0, <1>2, <1>4 DEF Unbegun
<1> QED BY <1>5, <1>6, <1>7

LEMMA HeaderErrorReader ==
    ASSUME ReaderIInv, FillHeader, HeaderError,
           (\E i \in 1 .. Len(input) : HeaderOf(i))
             \/ (Dropped /\ UNCHANGED <<contentLen, paddingLen>>)
    PROVE  ReaderIInv'
<1>p. RepliesDue /\ Request /\ PointerIInv
  BY DEF ReaderIInv
<1>0. /\ UNCHANGED <<input, type, isBeginProcessed, phase, delivered>> /\ pc = "next" /\ ~eorStop
      /\ stop' = rd' /\ rd' \in Nat
  BY HeaderRead
<1>1. /\ isClosed' = TRUE /\ pc' = "closed" /\ FCGI_errno' # "none" /\ FCGI_errno' # "version"
      /\ UNCHANGED <<skip, requestId, frames, replies>> /\ ~eorStop' /\ ~skip
  BY <1>0, BeforeHeader DEF HeaderError, eorStop
<1>2. /\ PointerIInv' /\ NothingForeign' /\ NothingMissing' /\ EnvironmentWhole'
      /\ BeginRead' /\ DataAhead' /\ RepliesDue'
  BY <1>1, HeaderKeeps
<1>3. HeadersAtRecordStarts'
  BY <1>1 DEF HeadersAtRecordStarts
<1>4. Request'
  BY <1>p, <1>0, <1>1 DEF Request
<1>5. WindowOwn'
  BY <1>1 DEF WindowOwn, Pushable, Reading
<1>6. (\E k \in 0 .. Len(input) : Place(k)') \/ Dropped'
  <2>1. ASSUME NEW i \in 1 .. Len(input), HeaderOf(i) PROVE Place(i)'
    <3>1. At(i)' /\ UpToHere'
      BY <1>1, <2>1, HeaderAt, HeaderUpTo
    <3>2. Content(i)' /\ Inner(i)'
      BY <1>1 DEF Content, Inner
    <3>3. contentLen' = input[i].len
      BY <2>1 DEF HeaderOf
    <3>4. AllAnswered(i)' /\ InTurn(i)' /\ Unbegun(i)'
      BY <1>1, <2>1, <3>3, HeaderRest
    <3> QED BY <3>1, <3>2, <3>4 DEF Place
  <2>2. ASSUME Dropped, UNCHANGED <<contentLen, paddingLen>> PROVE Dropped'
    <3>1. stop' <= rd'
      BY <1>0
    <3> QED BY <1>0, <1>1, <2>2, <3>1 DEF Dropped
  <2>3. \A i \in 1 .. Len(input) : i \in 0 .. Len(input)
    BY <1>p, Basics
  <2> QED BY <2>1, <2>2, <2>3
<1> QED BY <1>0, <1>2, <1>3, <1>4, <1>5, <1>6 DEF ReaderIInv

LEMMA HeaderReplyReader ==
    ASSUME ReaderIInv, FillHeader, NEW i \in 1 .. Len(input), HeaderOf(i), HeaderReply(i)
    PROVE  ReaderIInv'
<1>p. RepliesDue /\ Request /\ PointerIInv /\ HeadersAtRecordStarts
  BY DEF ReaderIInv
<1>0. /\ UNCHANGED <<input, type, isBeginProcessed, phase, delivered>> /\ pc = "next" /\ ~eorStop
      /\ stop' = rd' /\ rd' \in Nat
  BY HeaderRead
<1>1. /\ pc' = "fill" /\ UNCHANGED <<isClosed, FCGI_errno, requestId, frames>>
      /\ ~eorStop' /\ ~skip /\ ~isClosed /\ ~isClosed'
      /\ replies' = Append(replies, <<Answer(i), i>>)
      /\ Due(i) /\ (input[i].type = "BEGIN" => requestId # 0)
  BY <1>0, BeforeHeader DEF HeaderReply, eorStop
<1>2. /\ PointerIInv' /\ NothingForeign' /\ NothingMissing' /\ EnvironmentWhole'
      /\ BeginRead' /\ DataAhead'
      /\ (rd - headerLen)' = rd' /\ (rd - headerLen)' \in Int
      /\ rd - headerLen \in Int /\ rd - headerLen <= (rd - headerLen)'
  BY <1>1, HeaderKeeps
<1>3. HeadersAtRecordStarts'
  BY <1>p, <1>1 DEF HeadersAtRecordStarts
<1>4. Request'
  BY <1>p, <1>0, <1>1 DEF Request, eorStop
<1>5. WindowOwn'
  BY <1>1 DEF WindowOwn, Pushable, Reading
<1>6. At(i)' /\ UpToHere' /\ Ends[i - 1] + HeaderLen <= rd' /\ contentLen' = input[i].len
  BY <1>1, HeaderAt, HeaderUpTo DEF HeaderOf
<1>7. \A l \in DOMAIN replies : replies[l][2] < i
  <2>1. Ends[i - 1] >= rd - headerLen
    <3>1. Ends[i - 1] = rd - headerLen
      BY DEF HeaderOf
    <3> QED BY <1>2, <3>1
  <2> QED BY <1>p, <2>1, AnsweredBefore
<1>8. /\ RepliesDue'
      /\ \A j : (\E l \in DOMAIN replies : replies[l][2] = j) \/ j = i =>
                    \E l \in DOMAIN replies' : replies'[l][2] = j
  <2>1. Ends[i - 1] + HeaderLen <= (rd - headerLen)'
    BY <1>2, <1>6
  <2> QED BY <1>p, <1>0, <1>1, <1>2, <1>7, <2>1, Basics, ReplyAdded
<1>9. input[i].type \notin {"STDIN", "DATA"} \/ input[i].id # requestId \/ phase # "params"
  <2>1. phase = "params" => requestId # 0
    BY <1>0, BeforeHeader
  <2> QED BY <1>1, <2>1 DEF Due
<1>10. AllAnswered(i)' /\ InTurn(i)' /\ Unbegun(i)'
  <2>1. i \in OwnRecords("STDIN") \cup OwnRecords("DATA") => phase # "params"
    BY <1>9 DEF OwnRecords
  <2>2. input[i].type # "BEGIN" \/ requestId # 0
    BY <1>1
  <2> QED BY <1>1, <1>8, <2>1, <2>2, HeaderRest
<1>11. Content(i)'
  <2>1. CASE skip' = TRUE /\ input[i].len > 0 /\ input[i].type = "BEGIN"
    <3>1. \A t \in StreamTypes : i \notin OwnRecords(t)'
      BY <1>0, <2>1 DEF OwnRecords, StreamTypes
    <3> QED BY <1>1, <1>6, <2>1, <3>1 DEF Content
  <2>2. CASE skip' = skip /\ input[i].len = 0
    <3>1. ~(contentLen' > 0) /\ ~skip'
      BY <1>1, <1>6, <2>2
    <3> QED BY <1>1, <3>1 DEF Content
  <2> QED BY <2>1, <2>2 DEF HeaderReply
<1>12. Inner(i)'
  BY <1>1 DEF Inner
<1>13. Place(i)' /\ i \in 0 .. Len(input)
  BY <1>p, <1>6, <1>10, <1>11, <1>12, Basics DEF Place
<1> QED BY <1>0, <1>2, <1>3, <1>4, <1>5, <1>8, <1>13 DEF ReaderIInv

\* A record that is skipped, or of the stream that is read: nothing is answered.
LEMMA HeaderQuietReader ==
    ASSUME ReaderIInv, FillHeader, NEW i \in 1 .. Len(input), HeaderOf(i),
           HeaderSkip(i) \/ HeaderStream(i)
    PROVE  ReaderIInv'
<1>p. RepliesDue /\ Request /\ PointerIInv /\ HeadersAtRecordStarts
  BY DEF ReaderIInv
<1>0. /\ UNCHANGED <<input, type, isBeginProcessed, phase, delivered>> /\ pc = "next" /\ ~eorStop
      /\ stop' = rd' /\ rd' \in Nat /\ ~skip /\ ~isClosed
      /\ phase = "begin" => requestId = 0
      /\ phase \in {"begin", "params"} => FCGI_errno = "none"
  BY HeaderRead, BeforeHeader
<1>1. /\ UNCHANGED <<FCGI_errno, requestId, frames, replies>>
      /\ ~eorStop' /\ ~Due(i) /\ input[i].type # "BEGIN" /\ pc' \in {"fill", "closed"}
      /\ (pc' = "closed" => isClosed')
  BY <1>0 DEF HeaderSkip, HeaderStream, eorStop
<1>2. /\ PointerIInv' /\ NothingForeign' /\ NothingMissing' /\ EnvironmentWhole'
      /\ BeginRead' /\ DataAhead' /\ RepliesDue'
  BY <1>1, HeaderKeeps
<1>3. HeadersAtRecordStarts'
  BY <1>p, <1>1 DEF HeadersAtRecordStarts
<1>4. Request'
  BY <1>p, <1>0, <1>1 DEF Request, eorStop
<1>5. WindowOwn'
  BY <1>1 DEF WindowOwn, Pushable, Reading
<1>6. At(i)' /\ UpToHere' /\ contentLen' = input[i].len /\ paddingLen' = input[i].pad
  BY <1>1, HeaderAt, HeaderUpTo DEF HeaderOf
<1>9. i \in OwnRecords("STDIN") \cup OwnRecords("DATA") => phase # "params"
  <2>1. phase = "params" => type = "PARAMS"
    BY <1>p DEF PointerIInv, StreamOpen
  <2> QED BY <2>1 DEF OwnRecords, HeaderSkip, HeaderStream
<1>10. AllAnswered(i)' /\ InTurn(i)' /\ Unbegun(i)'
  BY <1>1, <1>9, HeaderRest
<1>11. Content(i)'
  <2>1. CASE HeaderSkip(i)
    <3>1. \A t : i \notin OwnRecords(t)'
      BY <1>0, <1>1, <2>1, OwnStay DEF HeaderSkip
    <3> QED BY <1>0, <1>1, <1>6, <2>1, <3>1 DEF Content, HeaderSkip
  <2>2. CASE HeaderStream(i)
    <3>1. i \in OwnRecords(type)' /\ ~skip'
      BY <1>0, <1>1, <2>2, OwnStay DEF HeaderStream
    <3>2. stop' <= rd'
      BY <1>0
    <3>3. isClosed' => input[i].len = 0 /\ input[i].pad = 0
      BY <1>0, <2>2 DEF HeaderStream
    <3> QED BY <1>0, <1>1, <1>6, <3>1, <3>2, <3>3 DEF Content
  <2> QED BY <2>1, <2>2
<1>12. Inner(i)'
  BY <1>1 DEF Inner
<1>13. Place(i)' /\ i \in 0 .. Len(input)
  BY <1>p, <1>6, <1>10, <1>11, <1>12, Basics DEF Place
<1> QED BY <1>0, <1>2, <1>3, <1>4, <1>5, <1>13 DEF ReaderIInv

LEMMA HeaderValuesReader ==
    ASSUME ReaderIInv, FillHeader, NEW i \in 1 .. Len(input), HeaderOf(i), HeaderValues(i)
    PROVE  ReaderIInv'
<1>p. RepliesDue /\ Request /\ PointerIInv /\ HeadersAtRecordStarts
  BY DEF ReaderIInv
<1>0. /\ UNCHANGED <<input, type, isBeginProcessed, phase, delivered>> /\ pc = "next" /\ ~eorStop
      /\ stop' = rd' /\ rd' \in Nat /\ ~skip /\ ~isClosed
      /\ phase = "begin" => requestId = 0
  BY HeaderRead, BeforeHeader
<1>1. /\ UNCHANGED <<FCGI_errno, requestId, skip, isClosed, replies>> /\ pc' = "get"
      /\ input[i].type = "GET_VALUES" /\ input[i].id = 0
      /\ frames' = Append(frames, Call("values", 1))
  BY DEF HeaderValues
<1>2. eorStop' /\ frames'[2].who = "values"
  <2>1. Len(frames) = 1 /\ frames \in Seq(Frame)
    BY <1>p, <1>0, FrameFacts DEF PointerIInv, FramesType
  <2>2. Call("values", 1) \in Frame
    BY DEF Call, Frame
  <2> QED BY <1>1, <2>1, <2>2, Appended DEF eorStop, Call
<1>3. /\ PointerIInv' /\ NothingForeign' /\ NothingMissing' /\ EnvironmentWhole'
      /\ BeginRead' /\ DataAhead' /\ RepliesDue' /\ rd - headerLen \in Int
  BY <1>1, HeaderKeeps
<1>4. HeadersAtRecordStarts'
  BY <1>p, <1>1 DEF HeadersAtRecordStarts
<1>5. Request'
  BY <1>p, <1>0, <1>1 DEF Request
<1>6. WindowOwn'
  BY <1>1, <1>2 DEF WindowOwn, Pushable, Reading
<1>7. At(i)' /\ UpToHere' /\ Ends' = Ends /\ Ends[i - 1] + HeaderLen <= rd'
  BY <1>1, HeaderAt, HeaderUpTo
<1>8. AllAnswered(i)' /\ InTurn(i)' /\ Unbegun(i)'
  <2>1. i \notin OwnRecords("STDIN") \cup OwnRecords("DATA")
    BY <1>1 DEF OwnRecords
  <2> QED BY <1>1, <1>2, <2>1, HeaderRest
<1>9. Content(i)'
  BY <1>0, <1>1, <1>2 DEF Content
<1>10. \A l \in DOMAIN replies : replies[l][2] < i
  <2>1. Ends[i - 1] >= rd - headerLen
    <3>1. Ends[i - 1] = rd - headerLen
      BY DEF HeaderOf
    <3> QED BY <1>3, <3>1
  <2> QED BY <1>p, <2>1, AnsweredBefore
<1>11. Inner(i)'
  <2>1. i > 0
    OBVIOUS
  <2> QED BY <1>0, <1>1, <1>2, <1>7, <1>10, <2>1 DEF Inner
<1>12. Place(i)' /\ i \in 0 .. Len(input)
  BY <1>p, <1>7, <1>8, <1>9, <1>11, Basics DEF Place
<1> QED BY <1>0, <1>3, <1>4, <1>5, <1>6, <1>12 DEF ReaderIInv

LEMMA HeaderBeginReader ==
    ASSUME ReaderIInv, FillHeader, NEW i \in 1 .. Len(input), HeaderOf(i), HeaderBegin(i)
    PROVE  ReaderIInv'
<1>p. RepliesDue /\ Request /\ PointerIInv /\ HeadersAtRecordStarts
  BY DEF ReaderIInv
<1>0. /\ UNCHANGED <<input, type, isBeginProcessed, phase, delivered>> /\ pc = "next" /\ ~eorStop
      /\ stop' = rd' /\ rd' \in Nat /\ ~skip /\ ~isClosed /\ headerLen' = 0
      /\ phase = "begin" => requestId = 0 /\ ~isBeginProcessed
      /\ rd - headerLen \in Int
  BY HeaderRead, BeforeHeader
<1>1. /\ UNCHANGED <<FCGI_errno, skip, isClosed, replies>> /\ pc' = "get"
      /\ phase = "begin" /\ IsFirst(input, i) /\ input[i].len = BodyLen
      /\ requestId' = input[i].id /\ requestId' # 0
      /\ \A j \in 1 .. i - 1 : input[j].type # "BEGIN"
      /\ frames' = Append(frames, Call("begin", BodyLen))
  BY DEF HeaderBegin
<1>2. eorStop' /\ frames'[2].who = "begin" /\ frames'[2].want = BodyLen
  <2>1. Len(frames) = 1 /\ FramesType
    BY <1>p, <1>0, FrameFacts DEF PointerIInv
  <2>2. PICK c \in Frame : c = Call("begin", BodyLen)
    BY Sizes DEF Call, Frame
  <2>3. Len(frames') = 2 /\ frames'[2] = Call("begin", BodyLen)
    <3>1. frames' = Append(frames, c)
      BY <1>1, <2>2
    <3> QED BY <2>1, <2>2, <3>1, Pushed
  <2> QED BY <2>3 DEF eorStop, Call
<1>3. PointerIInv'
  BY <1>p, FillHeaderPointers
<1>4. type = "none" /\ \A t \in StreamTypes : delivered[t] = <<>>
  BY <1>p, <1>1 DEF PointerIInv, StreamOpen
<1>5. \A t \in StreamTypes : DOMAIN delivered'[t] = {} /\ DeliveredSet(t)' = {}
  BY <1>0, <1>4 DEF DeliveredSet
<1>6. NothingForeign' /\ NothingMissing'
  BY <1>5 DEF NothingForeign, NothingMissing
<1>7. HeadersAtRecordStarts' /\ EnvironmentWhole' /\ DataAhead'
  BY <1>p, <1>0, <1>1 DEF HeadersAtRecordStarts, EnvironmentWhole, Accepted, DataAhead
<1>8. Request'
  BY <1>p, <1>0, <1>1, <1>2 DEF Request
<1>9. WindowOwn'
  BY <1>1, <1>2 DEF WindowOwn, Pushable, Reading
<1>10. /\ At(i)' /\ Ready' = rd' /\ Ends' = Ends /\ Ends[i - 1] + HeaderLen <= rd'
       /\ contentLen' = BodyLen
  BY <1>1, HeaderAt DEF HeaderOf
<1>11. BeginRead'
  <2>1. (rd - headerLen)' = rd'
    <3>1. rd' \in Nat /\ headerLen' \in Nat /\ headerLen' = 0
      BY <1>0
    <3>2. \A a, b \in Nat : b = 0 => a - b = a
      OBVIOUS
    <3> QED BY <3>1, <3>2
  <2> QED BY <1>0, <1>1, <1>10, <2>1 DEF BeginRead
<1>12. \A l \in DOMAIN replies : replies[l][2] \in 1 .. Len(input) /\ replies[l][2] < i
  <2>1. Ends[i - 1] >= rd - headerLen
    <3>1. Ends[i - 1] = rd - headerLen
      BY DEF HeaderOf
    <3> QED BY <1>0, <3>1
  <2> QED BY <1>p, <2>1, AnsweredBefore
<1>13. \A j : input[j].type # "BEGIN" => (Due(j)' <=> Due(j)) /\ Answer(j)' = Answer(j)
  BY <1>0 DEF Due, Answer
<1>14. RepliesDue'
  <2> SUFFICES ASSUME NEW l \in DOMAIN replies, NEW r, r = replies[l][2]
               PROVE  /\ Due(r)' /\ replies[l][1] = Answer(r)'
                      /\ input[r].type = "BEGIN" => requestId' # 0
                      /\ Ends[r - 1] + HeaderLen <= (rd - headerLen)'
                      /\ \A m \in DOMAIN replies : l < m => r < replies[m][2]
    BY <1>0, <1>1, <1>10 DEF RepliesDue
  <2>1. /\ Due(r) /\ replies[l][1] = Answer(r) /\ input[r].type # "BEGIN"
        /\ Ends[r - 1] + HeaderLen <= rd - headerLen
        /\ \A m \in DOMAIN replies : l < m => r < replies[m][2]
    BY <1>p, <1>0, <1>1 DEF RepliesDue
  <2>2. Ends[r - 1] + HeaderLen <= (rd - headerLen)'
    <3>1. r \in 1 .. Len(input) /\ Ends[r - 1] \in Nat /\ HeaderLen \in Nat
      BY <1>p, <1>12, Basics DEF RecordLens
    <3>2. rd - headerLen <= rd' /\ (rd - headerLen)' = rd'
      <4>1. rd' = rd - headerLen + HeaderLen
        BY HeaderRead
      <4> QED BY <1>0, <3>1, <4>1
    <3> QED BY <1>0, <2>1, <3>1, <3>2
  <2> QED BY <1>13, <2>1, <2>2
<1>15. AllAnswered(i)'
  <2> SUFFICES ASSUME FCGI_errno = "none", NEW j \in 1 .. i, Due(j)', j # i
               PROVE  \E l \in DOMAIN replies : replies[l][2] = j
    BY <1>0, <1>1, <1>2 DEF AllAnswered
  <2>1. j \in 1 .. i - 1
    OBVIOUS
  <2>2. Due(j)
    BY <1>1, <1>13, <2>1
  <2>3. AllAnswered(i - 1)
    BY DEF HeaderOf, Dropped, Place
  <2> QED BY <1>0, <2>1, <2>2, <2>3 DEF AllAnswered
<1>16. InTurn(i)' /\ Unbegun(i)' /\ UpToHere'
  BY <1>0, <1>1, <1>4 DEF InTurn, Unbegun, UpToHere, StreamTypes
<1>17. Content(i)'
  BY <1>0, <1>1, <1>2 DEF Content
<1>18. Inner(i)'
  <2>1. i > 0
    OBVIOUS
  <2>2. frames'[2].want > 0
    BY <1>2, Sizes
  <2>3. frames'[2].want = Ready' - rd' + contentLen'
    <3>1. \A a, b \in Nat : a - a + b = b
      OBVIOUS
    <3>2. rd' \in Nat /\ BodyLen \in Nat
      BY <1>0, Sizes
    <3> QED BY <1>2, <1>10, <3>1, <3>2
  <2> QED BY <1>0, <1>1, <1>2, <1>10, <1>12, <2>1, <2>2, <2>3 DEF Inner
<1>19. Place(i)' /\ i \in 0 .. Len(input)
  BY <1>p, <1>10, <1>15, <1>16, <1>17, <1>18, Basics DEF Place
<1> QED BY <1>0, <1>3, <1>6, <1>7, <1>8, <1>9, <1>11, <1>14, <1>19 DEF ReaderIInv

LEMMA FillHeaderReader ==
    ASSUME ReaderIInv, FillHeader, RequestScript(input)
    PROVE  ReaderIInv'
<1>1. CASE Dropped /\ SetError("version")
           /\ UNCHANGED <<contentLen, paddingLen, skip, requestId, frames, replies>>
  <2>1. FCGI_errno # "none" /\ FCGI_errno # "version"
    BY <1>1 DEF ReaderIInv, Dropped, HeadersAtRecordStarts
  <2>2. HeaderError
    BY <1>1, <2>1 DEF SetError, FirstError, HeaderError
  <2> QED BY <1>1, <2>2, HeaderErrorReader
<1>2. ASSUME NEW i \in 1 .. Len(input), HeaderOf(i), ProcessHeader(i)
      PROVE  ReaderIInv'
  <2>1. CASE HeaderError
    BY <1>2, <2>1, HeaderErrorReader
  <2>2. CASE HeaderReply(i)
    BY <1>2, <2>2, HeaderReplyReader
  <2>3. CASE HeaderBegin(i)
    BY <1>2, <2>3, HeaderBeginReader
  <2>4. CASE HeaderValues(i)
    BY <1>2, <2>4, HeaderValuesReader
  <2>5. CASE HeaderSkip(i) \/ HeaderStream(i)
    BY <1>2, <2>5, HeaderQuietReader
  <2> QED BY <1>2, <2>1, <2>2, <2>3, <2>4, <2>5, HeaderOutcomes
<1> QED BY <1>1, <1>2, HeaderRead
-----------------------------------------------------------------------------
(* The calls that begin and end, and nothing at all.                        *)

LEMMA InitReader == Init => ReaderIInv
<1> SUFFICES ASSUME Init PROVE ReaderIInv
  OBVIOUS
<1>p. PointerIInv
  BY InitPointers
<1>0. /\ rd = 0 /\ stop = 0 /\ contentLen = 0 /\ paddingLen = 0 /\ headerLen = 0
      /\ skip = FALSE /\ type = "none" /\ isClosed = FALSE /\ FCGI_errno = "none"
      /\ requestId = 0 /\ isBeginProcessed = FALSE /\ pc = "fill" /\ phase = "begin"
      /\ replies = <<>>
  BY DEF Init
<1>1. ~eorStop
  BY DEF Init, eorStop
<1>2. \A t \in StreamTypes : DOMAIN delivered[t] = {} /\ DeliveredSet(t) = {}
  BY DEF Init, DeliveredSet
<1>3. NothingForeign /\ NothingMissing
  BY <1>2 DEF NothingForeign, NothingMissing
<1>4. HeadersAtRecordStarts /\ EnvironmentWhole /\ DataAhead /\ BeginRead /\ Request
  BY <1>0 DEF HeadersAtRecordStarts, EnvironmentWhole, Accepted, DataAhead, BeginRead, Request
<1>5. WindowOwn
  BY <1>0 DEF WindowOwn, Pushable, Reading
<1>6. RepliesDue
  <2>1. DOMAIN replies = {}
    BY <1>0
  <2> QED BY <2>1 DEF RepliesDue
<1>7. Place(0)
  <2>1. At(0)
    <3>1. Ends[0] = 0
      BY <1>p, Basics, EndsFacts
    <3> QED BY <1>0, <3>1 DEF At, Ready
  <2>2. Content(0) /\ Inner(0) /\ UpToHere /\ InTurn(0)
    BY <1>0, <1>1 DEF Content, Inner, UpToHere, InTurn, StreamTypes
  <2>3. AllAnswered(0) /\ Unbegun(0)
    BY DEF AllAnswered, Unbegun
  <2> QED BY <2>1, <2>2, <2>3 DEF Place
<1>8. 0 \in 0 .. Len(input)
  BY <1>p, Basics
<1> QED BY <1>p, <1>3, <1>4, <1>5, <1>6, <1>7, <1>8 DEF ReaderIInv

\* A step that only begins or ends a call of FCGX_GetStr, or none at all.
LEMMA OnlyCalls ==
    ASSUME ReaderIInv, PointerIInv',
           UNCHANGED <<input, rd, stop, stopUnget, contentLen, paddingLen, skip, type, isClosed,
                       FCGI_errno, headerLen, requestId, isBeginProcessed, replies, delivered>>,
           UNCHANGED <<pc, frames, phase>> \/ (~eorStop /\ ~eorStop' /\ pc' \in {"app", "get"}
                                                /\ phase' \notin {"begin", "params"}),
           phase' = phase \/ phase' = "failed", Dropped => phase' = phase, Reading' => Reading
    PROVE  ReaderIInv'
<1>p. /\ PointerIInv /\ NothingForeign /\ NothingMissing /\ HeadersAtRecordStarts
      /\ EnvironmentWhole /\ WindowOwn /\ DataAhead /\ BeginRead /\ Request /\ RepliesDue
  BY DEF ReaderIInv
<1>0. Ends' = Ends /\ (eorStop' <=> eorStop)
  BY EndsStay DEF eorStop
<1>1. NothingForeign' /\ NothingMissing' /\ \A t : DeliveredSet(t)' = DeliveredSet(t)
  BY <1>p, StreamsStay
<1>2. BeginRead' /\ RepliesDue'
  <2>1. (rd - headerLen)' = rd - headerLen /\ rd - headerLen \in Int
    BY <1>p, Basics
  <2>2. (rd - headerLen)' \in Int /\ rd - headerLen <= (rd - headerLen)'
    BY <2>1
  <2> QED BY <1>p, <2>1, <2>2, Basics, BeginStays, RepliesStay
<1>3. EnvironmentWhole' /\ HeadersAtRecordStarts'
  <2>1. rd \in Int /\ rd' \in Int /\ rd <= rd'
    BY <1>p, Basics
  <2> QED BY <1>p, <2>1, Basics, EnvironmentStays DEF Accepted, HeadersAtRecordStarts
<1>4. DataAhead'
  BY <1>p, OwnStay DEF DataAhead
<1>5. WindowOwn'
  BY <1>p, OwnStay DEF WindowOwn, Pushable
<1>6. Request'
  BY <1>p DEF Request, eorStop
<1>7. ASSUME NEW k \in 0 .. Len(input), Place(k) PROVE Place(k)'
  <2>k. At(k) /\ Content(k) /\ Inner(k) /\ UpToHere /\ InTurn(k) /\ AllAnswered(k) /\ Unbegun(k)
    BY <1>7 DEF Place
  <2>1. At(k)'
    BY <1>0, <2>k DEF At, Ready
  <2>2. Content(k)'
    BY <1>0, <2>k, OwnStay DEF Content
  <2>3. Inner(k)'
    BY <1>0, <2>k DEF Inner, Ready, eorStop
  <2>4. UpToHere'
    BY <1>1, <2>k, OwnStay DEF UpToHere
  <2>5. InTurn(k)' /\ AllAnswered(k)' /\ Unbegun(k)'
    <3>1. InTurn(k)'
      BY <2>k, OwnStay DEF InTurn
    <3> QED BY <1>0, <2>k, <3>1, PlaceStays
  <2> QED BY <2>1, <2>2, <2>3, <2>4, <2>5 DEF Place
<1>8. ASSUME Dropped PROVE Dropped'
  BY <1>0, <1>8, OwnStay DEF Dropped
<1> QED BY <1>1, <1>2, <1>3, <1>4, <1>5, <1>6, <1>7, <1>8 DEF ReaderIInv

LEMMA StutterReader ==
    ASSUME ReaderIInv, UNCHANGED vars
    PROVE  ReaderIInv'
<1>1. PointerIInv'
  BY StutterPointers DEF ReaderIInv
<1>2. UNCHANGED <<input, rd, stop, stopUnget, contentLen, paddingLen, skip, type, isClosed,
                  FCGI_errno, headerLen, requestId, isBeginProcessed, replies, delivered,
                  pc, frames, phase>>
  BY DEF vars, position, current, request
<1>3. Reading' => Reading
  BY <1>2 DEF Reading, Accepted, eorStop
<1> QED BY <1>1, <1>2, <1>3, OnlyCalls

LEMMA CallReturnsReader ==
    ASSUME ReaderIInv, TryAgain \/ GetEnds
    PROVE  ReaderIInv'
<1>p. PointerIInv /\ Request
  BY DEF ReaderIInv
<1>0. /\ UNCHANGED <<input, rd, stop, stopUnget, contentLen, paddingLen, skip, type, isClosed,
                     FCGI_errno, headerLen, requestId, isBeginProcessed, replies, delivered>>
      /\ pc = "closed" /\ ~eorStop /\ frames' = <<>> /\ pc' = "app"
      /\ phase' = "failed" \/ (phase' = phase /\ Top.who = "app")
      /\ phase' = phase \/ Top.who \in {"accept", "pair"}
  BY DEF TryAgain, GetEnds, position, current, request
<1>1. PointerIInv' /\ ~eorStop'
  BY <1>p, <1>0, CallReturnsPointers DEF eorStop
<1>2. phase' \notin {"begin", "params"} /\ (Dropped => phase' = phase)
  BY <1>p, <1>0, FrameFacts DEF PointerIInv, Stages, Dropped
<1>3. Reading' => Reading
  BY <1>p, <1>0 DEF Request, Reading
<1> QED BY <1>0, <1>1, <1>2, <1>3, OnlyCalls

LEMMA GetStrReader ==
    ASSUME ReaderIInv, NEW n \in ReadSizes, GetStr(n)
    PROVE  ReaderIInv'
<1>p. PointerIInv
  BY DEF ReaderIInv
<1>0. /\ UNCHANGED <<input, rd, stop, stopUnget, contentLen, paddingLen, skip, type, isClosed,
                     FCGI_errno, headerLen, requestId, isBeginProcessed, replies, delivered, phase>>
      /\ pc = "app" /\ Accepted /\ ~isClosed /\ frames' = <<Call("app", n)>> /\ pc' = "get"
  BY DEF GetStr, position, current, request
<1>1. PointerIInv' /\ ~eorStop' /\ ~eorStop
  BY <1>p, <1>0, GetStrPointers DEF eorStop, PointerIInv, Stages
<1>2. phase' \notin {"begin", "params"} /\ Reading
  BY <1>0 DEF Accepted, Reading
<1> QED BY <1>0, <1>1, <1>2, OnlyCalls
-----------------------------------------------------------------------------
(* The content of a begin-request or get-values record has ended.           *)

LEMMA NestedErrorReader ==
    ASSUME ReaderIInv, PointerIInv', eorStop, ~eorStop', isClosed' = TRUE, pc' = "closed",
           FCGI_errno' # "none", FCGI_errno' # "version",
           UNCHANGED <<input, rd, stop, stopUnget, contentLen, paddingLen, skip, type, headerLen,
                       requestId, isBeginProcessed, phase, replies, delivered>>
    PROVE  ReaderIInv'
<1>p. /\ PointerIInv /\ NothingForeign /\ NothingMissing /\ HeadersAtRecordStarts
      /\ EnvironmentWhole /\ WindowOwn /\ DataAhead /\ BeginRead /\ Request /\ RepliesDue
  BY DEF ReaderIInv
<1>0. Ends' = Ends
  BY EndsStay
<1>1. NothingForeign' /\ NothingMissing' /\ \A t : DeliveredSet(t)' = DeliveredSet(t)
  BY <1>p, StreamsStay
<1>2. BeginRead' /\ RepliesDue'
  <2>1. (rd - headerLen)' = rd - headerLen /\ rd - headerLen \in Int
    BY <1>p, Basics
  <2>2. (rd - headerLen)' \in Int /\ rd - headerLen <= (rd - headerLen)'
    BY <2>1
  <2> QED BY <1>p, <2>1, <2>2, Basics, BeginStays, RepliesStay
<1>3. EnvironmentWhole' /\ HeadersAtRecordStarts'
  BY DEF EnvironmentWhole, HeadersAtRecordStarts
<1>4. DataAhead'
  BY <1>p, OwnStay DEF DataAhead
<1>5. WindowOwn'
  BY DEF WindowOwn, Pushable, Reading
<1>6. Request'
  BY <1>p DEF Request
<1>7. PICK k \in 0 .. Len(input) : Place(k)
  BY DEF ReaderIInv, Dropped
<1>k. At(k) /\ Content(k) /\ Inner(k) /\ UpToHere /\ InTurn(k) /\ AllAnswered(k) /\ Unbegun(k)
  BY <1>7 DEF Place
<1>8. Place(k)'
  <2>1. At(k)'
    BY <1>0, <1>k DEF At, Ready
  <2>2. Content(k)' /\ Inner(k)'
    BY <1>k DEF Content, Inner
  <2>3. UpToHere'
    BY <1>1, <1>k, OwnStay DEF UpToHere
  <2>4. InTurn(k)' /\ AllAnswered(k)' /\ Unbegun(k)'
    BY <1>k, PlaceStays DEF AllAnswered, Unbegun
  <2> QED BY <2>1, <2>2, <2>3, <2>4 DEF Place
<1> QED BY <1>1, <1>2, <1>3, <1>4, <1>5, <1>6, <1>8 DEF ReaderIInv

LEMMA NestedFailsReader ==
    ASSUME ReaderIInv, NestedFails
    PROVE  ReaderIInv'
<1>p. PointerIInv /\ HeadersAtRecordStarts
  BY DEF ReaderIInv
<1>0. /\ eorStop /\ isClosed' = TRUE /\ pc' = "closed" /\ frames' = Pop
      /\ UNCHANGED <<input, rd, stop, stopUnget, contentLen, paddingLen, skip, type, headerLen,
                     requestId, isBeginProcessed, phase, replies, delivered>>
  BY DEF NestedFails, SetError, position, current, request
<1>1. FCGI_errno' # "none" /\ FCGI_errno' # "version"
  BY <1>p DEF NestedFails, SetError, FirstError, HeadersAtRecordStarts
<1>2. PointerIInv'
  BY <1>p, NestedFailsPointers
<1>3. ~eorStop'
  BY <1>p, <1>0, Popped DEF eorStop, PointerIInv
<1> QED BY <1>0, <1>1, <1>2, <1>3, NestedErrorReader

LEMMA ValuesReadReader ==
    ASSUME ReaderIInv, ValuesRead
    PROVE  ReaderIInv'
<1>p. /\ PointerIInv /\ NothingForeign /\ NothingMissing /\ HeadersAtRecordStarts
      /\ EnvironmentWhole /\ WindowOwn /\ DataAhead /\ BeginRead /\ Request /\ RepliesDue
  BY DEF ReaderIInv
<1>0. /\ UNCHANGED <<input, rd, stop, stopUnget, contentLen, paddingLen, skip, type, headerLen,
                     requestId, isBeginProcessed, phase, delivered>>
      /\ pc = "closed" /\ Top.who = "values" /\ FCGI_errno = "none" /\ frames' = Pop
      /\ Ends' = Ends
  BY EndsStay DEF ValuesRead, position, current, request
<1>1. eorStop /\ Top = frames[2]
  BY <1>p, <1>0, FrameFacts DEF PointerIInv, Stages, Flags
<1>2. ~eorStop'
  BY <1>p, <1>0, <1>1, Popped DEF eorStop, PointerIInv
<1>3. PointerIInv'
  BY <1>p, ValuesReadPointers
<1>4. isClosed
  BY <1>p, <1>0 DEF Request
<1>5. PICK k \in 0 .. Len(input) : Place(k)
  BY <1>1 DEF ReaderIInv, Dropped
<1>k. At(k) /\ Content(k) /\ Inner(k) /\ UpToHere /\ InTurn(k) /\ AllAnswered(k) /\ Unbegun(k)
  BY <1>5 DEF Place
<1>6. /\ contentLen = 0 /\ paddingLen = 0 /\ stop <= rd /\ ~skip
      /\ k \in 1 .. Len(input) /\ input[k].type = "GET_VALUES" /\ input[k].id = 0
      /\ Ends[k - 1] + HeaderLen <= rd /\ \A l \in DOMAIN replies : replies[l][2] < k
  <2>1. contentLen = 0 /\ paddingLen = 0 /\ stop <= rd /\ ~skip
    BY <1>k, <1>0, <1>1, <1>4 DEF Content
  <2>2. k > 0 /\ input[k].type = "GET_VALUES" /\ input[k].id = 0
        /\ Ends[k - 1] + HeaderLen <= rd /\ \A l \in DOMAIN replies : replies[l][2] < k
    BY <1>k, <1>0, <1>1 DEF Inner
  <2> QED BY <1>p, <2>1, <2>2, Basics
<1>7. headerLen = 0 /\ rd = Ends[k]
  <2>1. headerLen = 0
    BY <1>p, <1>0, Basics DEF PointerIInv, Pointers
  <2>2. Ready = rd
    BY <1>p, <1>6, Basics DEF Ready
  <2>3. \A a, b, c, d, e \in Nat : b = 0 /\ c = 0 /\ d = 0 /\ a + b + c = e + d => a = e
    OBVIOUS
  <2>4. rd \in Nat /\ contentLen \in Nat /\ paddingLen \in Nat /\ headerLen \in Nat /\ Ends[k] \in Nat
    BY <1>p, <1>6, Basics
  <2>5. rd + contentLen + paddingLen = Ends[k] + headerLen
    BY <1>k, <2>2 DEF At
  <2> QED BY <1>6, <2>1, <2>3, <2>4, <2>5
<1>8. PICK i \in 1 .. Len(input) :
         /\ Ends[i] = rd
         /\ \/ /\ replies' = Append(replies, <<"GET_VALUES_RESULT", i>>)
               /\ pc' = "fill" /\ isClosed' = FALSE
               /\ UNCHANGED FCGI_errno
            \/ SetError("os") /\ UNCHANGED replies
  BY DEF ValuesRead
<1>9. i = k
  <2>1. /\ Ends[i - 1] < Ends[i] /\ Ends[k - 1] < Ends[k]
        /\ Ends[i] \in Nat /\ Ends[k] \in Nat
    <3>1. \A j \in 1 .. Len(input) : Ends[j - 1] < Ends[j] /\ Ends[j] \in Nat
      <4> SUFFICES ASSUME NEW j \in 1 .. Len(input) PROVE Ends[j - 1] < Ends[j] /\ Ends[j] \in Nat
        OBVIOUS
      <4>1. /\ Ends[j - 1] \in Nat /\ Start(j) \in Nat /\ Body(j) \in Nat /\ Ends[j] \in Nat
            /\ Ends[j - 1] < Start(j) /\ Start(j) <= Body(j) /\ Body(j) <= Ends[j]
        BY <1>p, Basics, SpanFacts
      <4> QED BY <4>1
    <3> QED BY <1>6, <3>1
  <2>2. rd \in Int /\ Ends[i - 1] < rd /\ rd <= Ends[i] /\ Ends[k - 1] < rd /\ rd <= Ends[k]
    BY <1>7, <1>8, <2>1
  <2> QED BY <1>p, <1>6, <2>2, Basics, OneRecord
<1>10. CASE SetError("os") /\ UNCHANGED replies
  <2>1. FCGI_errno' # "none" /\ FCGI_errno' # "version" /\ isClosed' = TRUE /\ pc' = "closed"
    BY <1>0, <1>10 DEF SetError, FirstError
  <2> QED BY <1>0, <1>1, <1>2, <1>3, <1>10, <2>1, NestedErrorReader
<1>11. CASE /\ replies' = Append(replies, <<"GET_VALUES_RESULT", k>>)
            /\ pc' = "fill" /\ isClosed' = FALSE /\ UNCHANGED FCGI_errno
  <2>1. NothingForeign' /\ NothingMissing' /\ \A t : DeliveredSet(t)' = DeliveredSet(t)
    BY <1>p, <1>0, StreamsStay
  <2>2. /\ (rd - headerLen)' = rd - headerLen /\ rd - headerLen \in Int
        /\ (rd - headerLen)' \in Int /\ rd - headerLen <= (rd - headerLen)'
    <3>1. (rd - headerLen)' = rd - headerLen /\ rd - headerLen \in Int
      BY <1>p, <1>0, Basics
    <3> QED BY <3>1
  <2>3. BeginRead'
    BY <1>p, <1>0, <2>2, Basics, BeginStays
  <2>4. Due(k) /\ Answer(k) = "GET_VALUES_RESULT"
    BY <1>6 DEF Due, Answer
  <2>5. Ends[k - 1] + HeaderLen <= (rd - headerLen)'
    <3>1. rd - headerLen = rd
      BY <1>p, <1>7, Basics
    <3> QED BY <1>6, <2>2, <3>1
  <2>6. /\ RepliesDue'
        /\ \A j : (\E l \in DOMAIN replies : replies[l][2] = j) \/ j = k =>
                      \E l \in DOMAIN replies' : replies'[l][2] = j
    BY <1>p, <1>0, <1>6, <1>11, <2>2, <2>4, <2>5, Basics, ReplyAdded
  <2>7. EnvironmentWhole' /\ HeadersAtRecordStarts'
    <3>1. rd \in Int /\ rd' \in Int /\ rd <= rd'
      BY <1>p, <1>0, Basics
    <3> QED BY <1>p, <1>0, <1>11, <3>1, Basics, EnvironmentStays DEF Accepted, HeadersAtRecordStarts
  <2>8. DataAhead'
    BY <1>p, <1>0, OwnStay DEF DataAhead
  <2>9. WindowOwn'
    BY <1>11 DEF WindowOwn, Pushable, Reading
  <2>10. Request'
    BY <1>p, <1>0, <1>1, <1>11 DEF Request
  <2>11. At(k)' /\ Content(k)' /\ Inner(k)'
    <3>1. At(k)'
      BY <1>0, <1>k DEF At, Ready
    <3>2. Content(k)'
      <4>1. ~(contentLen > 0)
        BY <1>6
      <4> QED BY <1>0, <1>6, <1>11, <4>1 DEF Content
    <3> QED BY <1>2, <3>1, <3>2 DEF Inner
  <2>12. UpToHere'
    BY <1>0, <1>k, <2>1, OwnStay DEF UpToHere
  <2>13. Unbegun(k)'
    BY <1>0, <1>11, <1>k, PlaceStays
  <2>14. AllAnswered(k)'
    <3> SUFFICES ASSUME NEW j \in 1 .. k, Due(j) PROVE \E l \in DOMAIN replies' : replies'[l][2] = j
      BY <1>0, OwnStay DEF AllAnswered
    <3>1. j # k => \E l \in DOMAIN replies : replies[l][2] = j
      BY <1>0, <1>k DEF AllAnswered
    <3> QED BY <2>6, <3>1
  <2>15. InTurn(k)'
    <3>1. \A t \in {"STDIN", "DATA"} : k \notin OwnRecords(t)
      BY <1>6 DEF OwnRecords
    <3>2. phase = "params" => \A t \in {"STDIN", "DATA"} : \A j \in OwnRecords(t) : k < j
      BY <1>k, <3>1 DEF InTurn
    <3> QED BY <1>0, <3>2, OwnStay DEF InTurn
  <2> QED BY <1>0, <1>3, <2>1, <2>3, <2>6, <2>7, <2>8, <2>9, <2>10, <2>11, <2>12, <2>13, <2>14, <2>15
          DEF ReaderIInv, Place
<1> QED BY <1>8, <1>9, <1>10, <1>11
-----------------------------------------------------------------------------
(* SetReaderType: from one stream to the next.                              *)

\* The records of the request, behind its begin-request record.
LEMMA OwnAfter ==
    ASSUME InputOK, RequestScript(input), requestId # 0,
           NEW b, IsFirst(input, b), requestId = input[b].id,
           NEW t \in StreamTypes, NEW i \in OwnRecords(t)
    PROVE  /\ b \in 1 .. Len(input) /\ i \in 1 .. Len(input) /\ b < i
           /\ Ends[b] + HeaderLen <= Start(i)
           /\ input[i].len = 0 => input[i].pad = 0 /\ \A j \in OwnRecords(t) : ~(i < j)
           /\ t = "DATA" => \E j \in OwnRecords("STDIN") : j < i
<1>0. i \in 1 .. Len(input) /\ input[i].type = t /\ input[i].id = requestId
  BY OwnFacts
<1>1. b \in 1 .. Len(input) /\ input[b].type = "BEGIN" /\ i # b
  BY <1>0 DEF IsFirst, StreamTypes
<1>2. OfRequest(input, b, i)
  BY <1>0, <1>1 DEF OfRequest
<1>3. /\ b < i
      /\ input[i].len = 0 => /\ input[i].pad = 0
                             /\ \A j \in i + 1 .. Len(input) :
                                   ~(input[j].id = input[i].id /\ input[j].type = input[i].type)
      /\ input[i].type = "DATA" =>
             \E j \in 1 .. i - 1 : input[j].id = input[i].id /\ input[j].type = "STDIN"
  BY <1>0, <1>1, <1>2 DEF RequestScript
<1>4. Len(input) \in Nat
  BY EndsFacts
<1>5. Ends[b] + HeaderLen <= Start(i)
  <2>1. b \in 0 .. Len(input)
    BY <1>1
  <2> QED BY <1>0, <1>3, <2>1, Behind
<1>6. ASSUME input[i].len = 0, NEW j \in OwnRecords(t), i < j PROVE FALSE
  <2>1. j \in 1 .. Len(input) /\ input[j].type = t /\ input[j].id = requestId
    BY OwnFacts
  <2>2. j \in i + 1 .. Len(input)
    BY <1>0, <1>4, <1>6, <2>1
  <2> QED BY <1>0, <1>3, <1>6, <2>1, <2>2
<1>7. ASSUME t = "DATA" PROVE \E j \in OwnRecords("STDIN") : j < i
  <2>1. PICK j \in 1 .. i - 1 : input[j].id = input[i].id /\ input[j].type = "STDIN"
    BY <1>0, <1>3, <1>7
  <2>2. j \in 1 .. Len(input) /\ j < i
    BY <1>0, <1>4
  <2> QED BY <1>0, <2>1, <2>2 DEF OwnRecords
<1> QED BY <1>0, <1>1, <1>3, <1>5, <1>6, <1>7

\* No stream has content up to p when all its records begin behind p.
LEMMA NoneUpTo ==
    ASSUME InputOK, NEW t, NEW p \in Int,
           \A i \in OwnRecords(t) : input[i].len = 0 \/ p <= Start(i)
    PROVE  OwnBytes(t) \cap 1 .. p = {}
<1> SUFFICES ASSUME NEW q \in OwnBytes(t), q \in 1 .. p PROVE FALSE
  OBVIOUS
<1>1. PICK i \in OwnRecords(t) : q \in Start(i) + 1 .. Body(i)
  BY OwnFacts DEF Start, Body
<1>2. /\ Start(i) \in Nat /\ Body(i) = Start(i) + input[i].len /\ input[i].len \in Nat
  BY OwnFacts, SpanFacts
<1>3. input[i].len # 0
  BY <1>1, <1>2
<1>4. p <= Start(i)
  BY <1>3
<1> QED BY <1>1, <1>2, <1>4

LEMMA BegunReader ==
    ASSUME ReaderIInv, Begun, RequestScript(input)
    PROVE  ReaderIInv'
<1>p. /\ PointerIInv /\ NothingForeign /\ NothingMissing /\ HeadersAtRecordStarts
      /\ EnvironmentWhole /\ WindowOwn /\ DataAhead /\ BeginRead /\ Request /\ RepliesDue
  BY DEF ReaderIInv
<1>0. /\ UNCHANGED <<input, rd, stopUnget, FCGI_errno, headerLen, requestId, isBeginProcessed,
                     replies, delivered>>
      /\ pc = "begun" /\ Ends' = Ends
  BY EndsStay DEF Begun, request
<1>1. /\ phase = "begin" /\ ~eorStop /\ ~isClosed /\ isBeginProcessed /\ requestId # 0
      /\ FCGI_errno = "none" /\ type = "none" /\ headerLen = 0 /\ delivered["PARAMS"] = <<>>
  BY <1>p, <1>0, Basics DEF PointerIInv, Stages, Request, Pointers, StreamOpen, StreamTypes
<1>2. PointerIInv'
  BY <1>p, BegunPointers
<1>3. CASE /\ phase' = "failed" /\ pc' = "app" /\ frames' = <<>>
           /\ UNCHANGED <<stop, current, isClosed>>
  <2>1. ~eorStop' /\ ~Reading'
    BY <1>3 DEF eorStop, Reading, Accepted
  <2>2. UNCHANGED <<contentLen, paddingLen, skip, type>>
    BY <1>3 DEF current
  <2>3. ~Dropped
    BY <1>1 DEF Dropped
  <2> QED BY <1>0, <1>1, <1>2, <1>3, <2>1, <2>2, <2>3, OnlyCalls
<1>4. CASE /\ type' = "PARAMS" /\ skip' = FALSE /\ contentLen' = 0 /\ paddingLen' = 0
           /\ stop' = rd /\ isClosed' = FALSE
           /\ phase' = "params" /\ frames' = <<Call("params", 1)>> /\ pc' = "get"
  <2>1. PICK k \in 0 .. Len(input) : Place(k)
    BY <1>1 DEF ReaderIInv, Dropped
  <2>k. At(k) /\ Content(k) /\ Inner(k) /\ UpToHere /\ InTurn(k) /\ AllAnswered(k) /\ Unbegun(k)
    BY <2>1 DEF Place
  <2>2. contentLen = 0 /\ paddingLen = 0 /\ rd = stop /\ IsFirst(input, k) /\ requestId = input[k].id
    BY <1>0, <2>k DEF Content
  <2>3. ~eorStop'
    BY <1>4 DEF eorStop
  <2>4. Ready = rd /\ Ready' = rd
    BY <1>0, <1>4, <2>2 DEF Ready
  <2>5. rd = Ends[k] /\ rd \in Nat /\ Ends[k] \in Nat
    <3>1. \A a, b, c, d, e \in Nat : b = 0 /\ c = 0 /\ d = 0 /\ a + b + c = e + d => a = e
      OBVIOUS
    <3>2. rd \in Nat /\ contentLen \in Nat /\ paddingLen \in Nat /\ headerLen \in Nat /\ Ends[k] \in Nat
      BY <1>p, Basics
    <3>3. rd + contentLen + paddingLen = Ends[k] + headerLen
      BY <2>k, <2>4 DEF At
    <3> QED BY <1>1, <2>2, <3>1, <3>2, <3>3
  <2>6. \A t \in StreamTypes : \A i \in OwnRecords(t) : k < i /\ rd <= Start(i)
    <3> SUFFICES ASSUME NEW t \in StreamTypes, NEW i \in OwnRecords(t) PROVE k < i /\ rd <= Start(i)
      OBVIOUS
    <3>1. /\ k < i /\ Ends[k] + HeaderLen <= Start(i) /\ i \in 1 .. Len(input)
      BY <1>p, <1>1, <2>2, Basics, OwnAfter
    <3>2. Start(i) \in Nat /\ HeaderLen \in Nat
      BY <1>p, <3>1, Basics, SpanFacts
    <3> QED BY <2>5, <3>1, <3>2
  <2>7. OwnBytes("PARAMS") \cap 1 .. rd = {}
    <3>1. \A i \in OwnRecords("PARAMS") : rd <= Start(i)
      BY <2>6 DEF StreamTypes
    <3>2. InputOK /\ rd \in Int
      BY <1>p, Basics
    <3> QED BY <3>1, <3>2, NoneUpTo
  <2>8. NothingForeign' /\ NothingMissing' /\ \A t : DeliveredSet(t)' = DeliveredSet(t)
    BY <1>p, <1>0, StreamsStay
  <2>9. BeginRead' /\ RepliesDue'
    <3>1. (rd - headerLen)' = rd - headerLen /\ rd - headerLen \in Int
      BY <1>p, <1>0, Basics
    <3>2. (rd - headerLen)' \in Int /\ rd - headerLen <= (rd - headerLen)'
      BY <3>1
    <3> QED BY <1>p, <1>0, <3>1, <3>2, Basics, BeginStays, RepliesStay
  <2>10. EnvironmentWhole' /\ HeadersAtRecordStarts' /\ DataAhead' /\ Request'
    BY <1>p, <1>0, <1>1, <1>4
       DEF EnvironmentWhole, Accepted, HeadersAtRecordStarts, DataAhead, Request
  <2>11. WindowOwn'
    BY <1>0, <1>1, <1>4, <2>5 DEF WindowOwn, Pushable
  <2>12. At(k)' /\ Content(k)' /\ Inner(k)'
    <3>1. At(k)'
      BY <1>0, <1>4, <2>k, <2>2, <2>4 DEF At
    <3> QED BY <1>4, <2>3, <3>1 DEF Content, Inner
  <2>13. UpToHere'
    <3>1. DeliveredSet("PARAMS") = {}
      BY <1>1 DEF DeliveredSet
    <3> QED BY <1>0, <1>4, <2>7, <2>8, <3>1, OwnStay DEF UpToHere
  <2>14. InTurn(k)'
    BY <1>0, <2>6, OwnStay DEF InTurn, StreamTypes
  <2>15. AllAnswered(k)' /\ Unbegun(k)'
    BY <1>0, <1>1, <2>k, <2>3, PlaceStays
  <2> QED BY <1>0, <1>2, <2>8, <2>9, <2>10, <2>11, <2>12, <2>13, <2>14, <2>15 DEF ReaderIInv, Place
<1> QED BY <1>3, <1>4 DEF Begun, SetReaderType

\* What SetReaderType leaves when no error was met: nothing is dropped.
LEMMA AtEndOfStream ==
    ASSUME PointerIInv, NEW k \in 0 .. Len(input), At(k), contentLen = 0, paddingLen = 0,
           stop <= rd, headerLen = 0
    PROVE  rd = Ends[k] /\ Ready = rd
<1>1. Ready = rd
  BY Basics DEF Ready
<1>2. \A a, b, c, d, e \in Nat : b = 0 /\ c = 0 /\ d = 0 /\ a + b + c = e + d => a = e
  OBVIOUS
<1>3. rd \in Nat /\ contentLen \in Nat /\ paddingLen \in Nat /\ headerLen \in Nat /\ Ends[k] \in Nat
  BY Basics
<1>4. rd + contentLen + paddingLen = Ends[k] + headerLen
  BY <1>1 DEF At
<1> QED BY <1>1, <1>2, <1>3, <1>4

\* Where the streams to come begin, when the environment has ended.
LEMMA StreamsAhead ==
    ASSUME PointerIInv, BeginRead, RequestScript(input), phase = "params", requestId # 0,
           headerLen = 0, NEW k \in 0 .. Len(input), At(k), InTurn(k)
    PROVE  /\ OwnBytes("STDIN") \cap 1 .. rd = {}
           /\ OwnBytes("DATA") \cap 1 .. rd + HeaderLen = {}
<1>n. InputOK /\ rd \in Nat /\ stop \in Nat /\ HeaderLen \in Nat /\ Ends[k] \in Nat /\ contentLen \in Nat
      /\ paddingLen \in Nat /\ headerLen \in Nat
  BY Basics
<1>1. Ready \in Nat /\ rd <= Ready
  BY <1>n DEF Ready
<1>2. Ready + contentLen + paddingLen = Ends[k]
  <2>1. \A a, h \in Nat : h = 0 => a + h = a
    OBVIOUS
  <2>2. Ready + contentLen + paddingLen = Ends[k] + headerLen
    BY DEF At
  <2> QED BY <1>n, <2>1, <2>2
<1>3. rd <= Ends[k]
  BY <1>n, <1>1, <1>2
<1>4. ASSUME NEW j \in 1 .. Len(input), k < j PROVE rd + HeaderLen <= Start(j) /\ rd <= Start(j)
  <2>1. Ends[k] + HeaderLen <= Start(j) /\ Start(j) \in Nat
    BY <1>n, <1>4, Behind, SpanFacts
  <2> QED BY <1>n, <1>3, <2>1
<1>5. \A t \in {"STDIN", "DATA"} : \A j \in OwnRecords(t) :
         j \in 1 .. Len(input) /\ (k < j \/ (k = j /\ contentLen = input[k].len))
  BY <1>n, OwnFacts DEF InTurn
<1>6. ASSUME NEW j \in OwnRecords("STDIN"), input[j].len # 0 PROVE rd <= Start(j)
  <2>1. CASE k < j
    BY <1>4, <1>5, <2>1
  <2>2. CASE k = j /\ contentLen = input[k].len
    <3>1. /\ k \in 1 .. Len(input) /\ Start(k) \in Nat /\ Body(k) \in Nat
          /\ input[k].len \in Nat /\ input[k].pad \in Nat
          /\ Body(k) = Start(k) + input[k].len /\ Ends[k] = Body(k) + input[k].pad
      BY <1>n, <1>5, <2>2, SpanFacts
    <3>2. contentLen > 0
      BY <1>6, <2>2, <3>1
    <3>3. paddingLen = input[k].pad
      BY <3>1, <3>2 DEF At
    <3>5. Ready = Start(k)
      <4>1. Ready + input[k].len + input[k].pad = Ends[k]
        BY <1>2, <2>2, <3>3
      <4>2. /\ Ready \in Nat /\ input[k].len \in Nat /\ input[k].pad \in Nat
            /\ Start(k) \in Nat /\ Body(k) \in Nat /\ Ends[k] \in Nat
        BY <1>n, <1>1, <3>1
      <4>3. Body(k) = Start(k) + input[k].len /\ Ends[k] = Body(k) + input[k].pad
        BY <3>1
      <4>4. PICK r \in Nat, b \in Nat, l \in Nat, q \in Nat :
               r = Ready /\ b = Start(k) /\ l = input[k].len /\ q = input[k].pad
        BY <4>2
      <4>5. r + l + q = b + l + q
        BY <4>1, <4>3, <4>4
      <4>6. r = b
        BY <4>5
      <4> QED BY <4>4, <4>6
    <3> QED BY <1>1, <2>2, <3>5
  <2> QED BY <1>5, <2>1, <2>2
<1>7. ASSUME NEW j \in OwnRecords("DATA") PROVE rd + HeaderLen <= Start(j)
  <2>1. PICK b \in 1 .. Len(input) : IsFirst(input, b) /\ requestId = input[b].id
    BY DEF BeginRead
  <2>2. PICK i \in OwnRecords("STDIN") : i < j
    <3>1. "DATA" \in StreamTypes
      BY DEF StreamTypes
    <3> QED BY <1>n, <2>1, <3>1, OwnAfter
  <2>3. i \in 1 .. Len(input) /\ j \in 1 .. Len(input) /\ ~(j < i) /\ i # j
    BY <1>5, <2>2
  <2>4. k < j
    BY <1>5, <2>2, <2>3
  <2> QED BY <1>4, <2>3, <2>4
<1>8. OwnBytes("STDIN") \cap 1 .. rd = {}
  <2>1. \A j \in OwnRecords("STDIN") : input[j].len = 0 \/ rd <= Start(j)
    BY <1>6
  <2>2. rd \in Int
    BY <1>n
  <2> QED BY <1>n, <2>1, <2>2, NoneUpTo
<1>9. OwnBytes("DATA") \cap 1 .. rd + HeaderLen = {}
  <2>1. \A j \in OwnRecords("DATA") : input[j].len = 0 \/ rd + HeaderLen <= Start(j)
    BY <1>7
  <2>2. rd + HeaderLen \in Int
    BY <1>n
  <2> QED BY <1>n, <2>1, <2>2, NoneUpTo
<1> QED BY <1>8, <1>9

\* The same within the header of a record to come.
LEMMA AheadOfHeader ==
    ASSUME PointerIInv, BeginRead, RequestScript(input), phase = "params", requestId # 0, ~isClosed,
           NEW k \in 0 .. Len(input), At(k), InTurn(k), contentLen = 0, paddingLen = 0, stop <= rd
    PROVE  /\ OwnBytes("STDIN") \cap 1 .. rd = {}
           /\ OwnBytes("DATA") \cap 1 .. rd + HeaderLen = {}
<1>n. /\ InputOK /\ rd \in Nat /\ stop \in Nat /\ HeaderLen \in Nat /\ Ends[k] \in Nat
      /\ headerLen \in Nat /\ headerLen < HeaderLen /\ Len(input) \in Nat
  BY Basics
<1>1. rd = Ends[k] + headerLen
  <2>1. Ready = rd
    BY <1>n DEF Ready
  <2>2. Ready + contentLen + paddingLen = Ends[k] + headerLen
    BY DEF At
  <2>3. \A a, b, c, d \in Nat : b = 0 /\ c = 0 /\ a + b + c = d => a = d
    OBVIOUS
  <2>4. contentLen \in Nat /\ paddingLen \in Nat /\ Ends[k] + headerLen \in Nat
    BY <1>n
  <2> QED BY <1>n, <2>1, <2>2, <2>3, <2>4
<1>2. \A t \in {"STDIN", "DATA"} : \A j \in OwnRecords(t) : j \in 1 .. Len(input) /\ k < j
  BY <1>n, OwnFacts DEF InTurn
<1>3. ASSUME NEW j \in 1 .. Len(input), k < j
      PROVE  /\ Ends[k] + HeaderLen <= Start(j) /\ rd <= Start(j) /\ Start(j) \in Nat
  <2>1. Ends[k] + HeaderLen <= Start(j) /\ Start(j) \in Nat
    BY <1>n, <1>3, Behind, SpanFacts
  <2> QED BY <1>n, <1>1, <2>1
<1>4. ASSUME NEW j \in OwnRecords("DATA") PROVE rd + HeaderLen <= Start(j)
  <2>1. PICK b \in 1 .. Len(input) : IsFirst(input, b) /\ requestId = input[b].id
    BY DEF BeginRead
  <2>2. PICK i \in OwnRecords("STDIN") : i < j
    <3>1. "DATA" \in StreamTypes
      BY DEF StreamTypes
    <3> QED BY <1>n, <2>1, <3>1, OwnAfter
  <2>3. i \in 1 .. Len(input) /\ j \in 1 .. Len(input) /\ k < i
    BY <1>2
  <2>4. /\ Start(i) \in Nat /\ Body(i) \in Nat /\ Ends[i] \in Nat
        /\ Start(i) <= Body(i) /\ Body(i) <= Ends[i] /\ i \in 0 .. Len(input)
    BY <1>n, <2>3, SpanFacts
  <2>5. Ends[i] + HeaderLen <= Start(j) /\ Start(j) \in Nat
    BY <1>n, <2>2, <2>3, <2>4, Behind, SpanFacts
  <2>6. Ends[k] + HeaderLen <= Start(i)
    BY <1>3, <2>3
  <2>7. \A e, h, l, si, bi, ei, sj \in Nat :
           l < h /\ e + h <= si /\ si <= bi /\ bi <= ei /\ ei + h <= sj => e + l + h <= sj
    OBVIOUS
  <2> QED BY <1>n, <1>1, <2>4, <2>5, <2>6, <2>7
<1>5. OwnBytes("STDIN") \cap 1 .. rd = {}
  <2>1. \A j \in OwnRecords("STDIN") : input[j].len = 0 \/ rd <= Start(j)
    BY <1>2, <1>3
  <2>2. rd \in Int
    BY <1>n
  <2> QED BY <1>n, <2>1, <2>2, NoneUpTo
<1>6. OwnBytes("DATA") \cap 1 .. rd + HeaderLen = {}
  <2>1. \A j \in OwnRecords("DATA") : input[j].len = 0 \/ rd + HeaderLen <= Start(j)
    BY <1>4
  <2>2. rd + HeaderLen \in Int
    BY <1>n
  <2> QED BY <1>n, <2>1, <2>2, NoneUpTo
<1> QED BY <1>5, <1>6

\* The connection breaks, or OS_Read fails: the reader keeps its place unless
\* part of a header had been read.
LEMMA FillReadReader ==
    ASSUME ReaderIInv, FillRead \/ ReadFails, RequestScript(input)
    PROVE  ReaderIInv' \/ CutIInv'
<1>p. /\ PointerIInv /\ NothingForeign /\ NothingMissing /\ HeadersAtRecordStarts
      /\ EnvironmentWhole /\ WindowOwn /\ DataAhead /\ BeginRead /\ Request /\ RepliesDue
  BY DEF ReaderIInv
<1>0. /\ Ends' = Ends
      /\ UNCHANGED <<input, rd, stop, stopUnget, contentLen, paddingLen, skip, type, requestId,
                     isBeginProcessed, frames, phase, replies, delivered>>
  BY ReadOutcome, EndsStay DEF current, request
<1>1. pc = "fill" /\ rd = bufStop /\ ~isClosed /\ stop <= rd
  BY <1>p, ReadOutcome DEF PointerIInv, Pointers
<1>2. \/ UNCHANGED <<isClosed, FCGI_errno, pc, headerLen>>
      \/ /\ isClosed' = TRUE /\ pc' = "closed" /\ FCGI_errno' # "none" /\ headerLen' = 0
         /\ (FCGI_errno # "none" => FCGI_errno' = FCGI_errno) /\ FCGI_errno' # "version"
  BY <1>p, ReadOutcome DEF ReadSome, ReadError, SetError, FirstError, HeadersAtRecordStarts
<1>3. PointerIInv'
  BY <1>p, FillReadPointers
<1>4. NothingForeign' /\ NothingMissing' /\ \A t : DeliveredSet(t)' = DeliveredSet(t)
  BY <1>p, <1>0, StreamsStay
<1>5. rd - headerLen <= (rd - headerLen)' /\ (rd - headerLen)' \in Int
  BY <1>p, <1>0, <1>2, Basics
<1>6. BeginRead' /\ RepliesDue'
  BY <1>p, <1>0, <1>5, Basics, BeginStays, RepliesStay
<1>7. EnvironmentWhole'
  <2>1. rd \in Int /\ rd' \in Int /\ rd <= rd'
    BY <1>p, <1>0, Basics
  <2> QED BY <1>p, <1>0, <1>2, <2>1, Basics, EnvironmentStays DEF Accepted
<1>8. HeadersAtRecordStarts'
  BY <1>p, <1>2 DEF HeadersAtRecordStarts
<1>9. WindowOwn'
  BY <1>1, <1>2 DEF WindowOwn, Pushable, Reading
<1>10. DataAhead'
  BY <1>p, <1>0, OwnStay DEF DataAhead
<1>11. Request'
  BY <1>p, <1>0, <1>1, <1>2 DEF Request, eorStop
<1>12. ASSUME NEW k \in 0 .. Len(input), Place(k), UNCHANGED headerLen
       PROVE  Place(k)'
  <2>k. At(k) /\ Content(k) /\ Inner(k) /\ UpToHere /\ InTurn(k) /\ AllAnswered(k) /\ Unbegun(k)
    BY <1>12 DEF Place
  <2>1. At(k)'
    BY <1>0, <1>12, <2>k DEF At, Ready
  <2>2. Content(k)'
    BY <1>0, <1>1, <1>2, <2>k, OwnStay DEF Content, eorStop
  <2>3. Inner(k)'
    BY <1>0, <1>1, <1>2, <2>k DEF Inner, eorStop, Ready
  <2>4. UpToHere'
    BY <1>0, <1>4, <2>k, OwnStay DEF UpToHere
  <2>5. InTurn(k)' /\ AllAnswered(k)' /\ Unbegun(k)'
    BY <1>0, <1>1, <1>2, <2>k, PlaceStays DEF eorStop
  <2> QED BY <2>1, <2>2, <2>3, <2>4, <2>5 DEF Place
<1>13. ASSUME Dropped PROVE Dropped'
  BY <1>0, <1>2, <1>13, OwnStay DEF Dropped, eorStop
<1>14. ASSUME NEW k \in 0 .. Len(input), Place(k), headerLen' # headerLen
       PROVE  Cut'
  <2>1. headerLen > 0 /\ contentLen = 0 /\ paddingLen = 0 /\ ~eorStop
    BY <1>p, <1>2, <1>14, Basics DEF PointerIInv, Pointers
  <2>2. /\ isClosed' = TRUE /\ pc' = "closed" /\ FCGI_errno' # "none" /\ ~eorStop'
    BY <1>0, <1>2, <1>14, <2>1 DEF eorStop
  <2>3. ASSUME phase = "params"
        PROVE  /\ OwnBytes("STDIN") \cap 1 .. rd = {}
               /\ OwnBytes("DATA") \cap 1 .. rd + HeaderLen = {}
    <3>1. requestId # 0
      BY <1>p, <2>3 DEF PointerIInv, Stages, Request
    <3>2. At(k) /\ InTurn(k)
      BY <1>14 DEF Place
    <3> QED BY <1>p, <1>1, <2>1, <2>3, <3>1, <3>2, AheadOfHeader
  <2> QED BY <1>0, <2>2, <2>3, OwnStay DEF Cut
<1> QED BY <1>0, <1>3, <1>4, <1>6, <1>7, <1>8, <1>9, <1>10, <1>11, <1>12, <1>13, <1>14
        DEF ReaderIInv, CutIInv

LEMMA EnvironmentReadReader ==
    ASSUME ReaderIInv, EnvironmentRead, RequestScript(input)
    PROVE  ReaderIInv'
<1>p. /\ PointerIInv /\ NothingForeign /\ NothingMissing /\ HeadersAtRecordStarts
      /\ EnvironmentWhole /\ WindowOwn /\ DataAhead /\ BeginRead /\ Request /\ RepliesDue
  BY DEF ReaderIInv
<1>0. /\ UNCHANGED <<input, rd, stopUnget, FCGI_errno, headerLen, requestId, isBeginProcessed,
                     replies, delivered>>
      /\ pc = "closed" /\ ~eorStop /\ Top.who = "params" /\ Ends' = Ends
      /\ type' = "STDIN" /\ skip' = FALSE /\ contentLen' = 0 /\ paddingLen' = 0
      /\ stop' = rd /\ isClosed' = FALSE /\ phase' = "stdin" /\ frames' = <<>> /\ pc' = "app"
  BY EndsStay DEF EnvironmentRead, SetReaderType, request
<1>1. /\ phase = "params" /\ isClosed /\ isBeginProcessed /\ requestId # 0
      /\ type = "PARAMS" /\ headerLen = 0 /\ delivered["STDIN"] = <<>>
  <2>1. phase = "params" /\ frames[1].who = "params"
    BY <1>p, <1>0, FrameFacts DEF PointerIInv, Stages, Flags
  <2> QED BY <1>p, <1>0, <2>1, Basics DEF PointerIInv, Stages, Request, Pointers, StreamOpen
<1>2. PointerIInv' /\ ~eorStop'
  BY <1>p, <1>0, EnvironmentReadPointers DEF eorStop
<1>3. PICK k \in 0 .. Len(input) : Place(k)
  BY <1>1 DEF ReaderIInv, Dropped
<1>k. At(k) /\ Content(k) /\ Inner(k) /\ UpToHere /\ InTurn(k) /\ AllAnswered(k) /\ Unbegun(k)
  BY <1>3 DEF Place
<1>n. InputOK /\ rd \in Nat /\ HeaderLen \in Nat /\ Ends[k] \in Nat
  BY <1>p, Basics
<1>4. /\ OwnBytes("STDIN") \cap 1 .. rd = {}
      /\ OwnBytes("DATA") \cap 1 .. rd + HeaderLen = {}
  BY <1>p, <1>1, <1>k, StreamsAhead
<1>5. NothingForeign' /\ NothingMissing' /\ \A t : DeliveredSet(t)' = DeliveredSet(t)
  BY <1>p, <1>0, StreamsStay
<1>6. BeginRead' /\ RepliesDue'
  <2>1. (rd - headerLen)' = rd - headerLen /\ rd - headerLen \in Int
    BY <1>p, <1>0, Basics
  <2>2. (rd - headerLen)' \in Int /\ rd - headerLen <= (rd - headerLen)'
    BY <2>1
  <2> QED BY <1>p, <1>0, <2>1, <2>2, Basics, BeginStays, RepliesStay
<1>7. HeadersAtRecordStarts' /\ Request'
  BY <1>p, <1>0, <1>1 DEF HeadersAtRecordStarts, Request
<1>8. DataAhead'
  <2>1. OwnBytes("DATA") \cap 1 .. rd = {}
    <3>1. 1 .. rd \subseteq 1 .. rd + HeaderLen
      BY <1>n
    <3> QED BY <1>4, <3>1
  <2> QED BY <1>0, <2>1, OwnStay DEF DataAhead
<1>9. WindowOwn'
  BY <1>0, <1>1, <1>n DEF WindowOwn, Pushable
<1>10. FCGI_errno # "none" => Dropped'
  <2>1. rd' - headerLen' = rd
    BY <1>0, <1>1, <1>n
  <2>2. stop' <= rd'
    BY <1>0, <1>n
  <2> QED BY <1>0, <1>1, <1>2, <1>4, <2>1, <2>2, OwnStay DEF Dropped
<1>11. ASSUME FCGI_errno = "none" PROVE EnvironmentWhole' /\ Place(k)'
  <2>1. /\ contentLen = 0 /\ paddingLen = 0 /\ stop <= rd
        /\ k \in OwnRecords("PARAMS") /\ input[k].len = 0
    BY <1>0, <1>1, <1>k, <1>11 DEF Content
  <2>2. rd = Ends[k] /\ Ready = rd
    BY <1>p, <1>1, <1>k, <2>1, AtEndOfStream
  <2>3. k \in 1 .. Len(input) /\ Start(k) \in Nat /\ Start(k) <= rd
    <3>1. k \in 1 .. Len(input)
      BY <1>n, <2>1, OwnFacts
    <3>2. Start(k) \in Nat /\ Body(k) \in Nat /\ Start(k) <= Body(k) /\ Body(k) <= Ends[k]
      BY <1>n, <3>1, SpanFacts
    <3> QED BY <1>n, <2>2, <3>1, <3>2
  <2>4. OwnBytes("PARAMS") \subseteq 1 .. rd
    <3> SUFFICES ASSUME NEW q \in OwnBytes("PARAMS") PROVE q \in 1 .. rd
      OBVIOUS
    <3>1. PICK i \in OwnRecords("PARAMS") : q \in Start(i) + 1 .. Body(i)
      BY <1>n, OwnFacts DEF Start, Body
    <3>2. i \in 1 .. Len(input) /\ i \in 0 .. Len(input) /\ Start(i) \in Nat /\ Body(i) \in Nat
          /\ Ends[i] \in Nat /\ Body(i) <= Ends[i]
      BY <1>n, OwnFacts, SpanFacts
    <3>3. PICK b \in 1 .. Len(input) : IsFirst(input, b) /\ requestId = input[b].id
      BY <1>p, <1>1 DEF BeginRead
    <3>4. ~(k < i)
      <4>1. "PARAMS" \in StreamTypes
        BY DEF StreamTypes
      <4> QED BY <1>n, <1>1, <2>1, <3>3, <4>1, OwnAfter
    <3>5. i <= k
      BY <2>3, <3>2, <3>4
    <3>6. Ends[i] <= Ends[k]
      BY <1>n, <3>2, <3>5, EndsMonotone
    <3> QED BY <1>n, <2>2, <3>1, <3>2, <3>6
  <2>5. DeliveredSet("PARAMS") = OwnBytes("PARAMS")
    BY <1>1, <1>k, <2>4 DEF UpToHere, StreamTypes
  <2>6. EnvironmentWhole'
    <3>1. EndRead("PARAMS")
      BY <2>1, <2>3 DEF EndRead, Start
    <3>2. EndRead("PARAMS")'
      BY <1>0, <3>1, OwnStay DEF EndRead
    <3> QED BY <1>0, <1>5, <2>5, <3>2, OwnStay DEF EnvironmentWhole
  <2>7. At(k)'
    <3>1. Ready' = rd
      BY <1>0 DEF Ready
    <3> QED BY <1>0, <1>k, <2>1, <2>2, <3>1 DEF At
  <2>8. Content(k)' /\ Inner(k)'
    BY <1>0, <1>2 DEF Content, Inner
  <2>9. UpToHere'
    <3>1. DeliveredSet("STDIN") = {}
      BY <1>1 DEF DeliveredSet
    <3> QED BY <1>0, <1>4, <1>5, <3>1, OwnStay DEF UpToHere
  <2>10. InTurn(k)' /\ AllAnswered(k)' /\ Unbegun(k)'
    <3>1. InTurn(k)'
      BY <1>0 DEF InTurn
    <3> QED BY <1>0, <1>1, <1>k, <1>2, <3>1, PlaceStays
  <2> QED BY <2>6, <2>7, <2>8, <2>9, <2>10 DEF Place
<1>12. EnvironmentWhole'
  <2>1. CASE FCGI_errno = "none"
    BY <1>11, <2>1
  <2>2. CASE FCGI_errno # "none"
    BY <1>0, <2>2 DEF EnvironmentWhole
  <2> QED BY <2>1, <2>2
<1> QED BY <1>0, <1>2, <1>5, <1>6, <1>7, <1>8, <1>9, <1>10, <1>11, <1>12 DEF ReaderIInv

LEMMA StartFilterDataReader ==
    ASSUME ReaderIInv, StartFilterData
    PROVE  ReaderIInv'
<1>p. /\ PointerIInv /\ NothingForeign /\ NothingMissing /\ HeadersAtRecordStarts
      /\ EnvironmentWhole /\ WindowOwn /\ DataAhead /\ BeginRead /\ Request /\ RepliesDue
  BY DEF ReaderIInv
<1>0. /\ UNCHANGED <<input, rd, stopUnget, headerLen, requestId, isBeginProcessed, pc, frames,
                     replies, delivered>>
      /\ pc = "app" /\ Accepted /\ Ends' = Ends
  BY EndsStay DEF StartFilterData, request
<1>1. /\ ~eorStop /\ ~eorStop' /\ headerLen = 0 /\ PointerIInv'
  BY <1>p, <1>0, StartFilterDataPointers, Basics DEF PointerIInv, Stages, Pointers, eorStop
<1>2. \/ /\ isClosed /\ type = "STDIN" /\ UNCHANGED FCGI_errno
         /\ type' = "DATA" /\ skip' = FALSE /\ contentLen' = 0 /\ paddingLen' = 0
         /\ stop' = rd /\ isClosed' = FALSE /\ phase' = "data"
      \/ /\ FCGI_errno' = FirstError("call sequence") /\ isClosed' = TRUE
         /\ UNCHANGED <<stop, contentLen, paddingLen, skip, type, phase>>
  BY DEF StartFilterData, SetReaderType, current
<1>n. InputOK /\ rd \in Nat /\ HeaderLen \in Nat
  BY <1>p, Basics
<1>3. NothingForeign' /\ NothingMissing' /\ \A t : DeliveredSet(t)' = DeliveredSet(t)
  BY <1>p, <1>0, StreamsStay
<1>4. BeginRead' /\ RepliesDue'
  <2>1. (rd - headerLen)' = rd - headerLen /\ rd - headerLen \in Int
    BY <1>p, <1>0, Basics
  <2>2. (rd - headerLen)' \in Int /\ rd - headerLen <= (rd - headerLen)'
    BY <2>1
  <2> QED BY <1>p, <1>0, <2>1, <2>2, Basics, BeginStays, RepliesStay
<1>5. /\ FCGI_errno' = "none" => FCGI_errno = "none"
      /\ FCGI_errno' # "version" /\ Accepted'
  BY <1>p, <1>0, <1>2 DEF FirstError, HeadersAtRecordStarts, Accepted
<1>6. EnvironmentWhole' /\ HeadersAtRecordStarts'
  <2>1. rd \in Int /\ rd' \in Int /\ rd <= rd'
    BY <1>0, <1>n
  <2>2. Accepted' /\ FCGI_errno' = "none" =>
              Accepted /\ FCGI_errno = "none" /\ delivered'["PARAMS"] = delivered["PARAMS"]
    BY <1>0, <1>5
  <2> QED BY <1>0, <1>n, <1>p, <1>5, <2>1, <2>2, EnvironmentStays DEF HeadersAtRecordStarts
<1>7. Request'
  BY <1>p, <1>0, <1>5 DEF Request, Accepted
<1>8. CASE /\ isClosed /\ type = "STDIN" /\ UNCHANGED FCGI_errno
           /\ type' = "DATA" /\ skip' = FALSE /\ contentLen' = 0 /\ paddingLen' = 0
           /\ stop' = rd /\ isClosed' = FALSE /\ phase' = "data"
  <2>1. phase = "stdin" /\ delivered["DATA"] = <<>> /\ OwnBytes("DATA") \cap 1 .. rd = {}
    BY <1>p, <1>0, <1>8 DEF PointerIInv, StreamOpen, Accepted, DataAhead
  <2>2. DataAhead' /\ WindowOwn'
    BY <1>0, <1>8, <1>n, <2>1 DEF DataAhead, WindowOwn, Pushable
  <2>3. ASSUME FCGI_errno # "none" PROVE Dropped'
    <3>1. rd' - headerLen' = rd /\ stop' <= rd'
      BY <1>0, <1>1, <1>8, <1>n
    <3> QED BY <1>0, <1>1, <1>8, <2>1, <2>3, <3>1, OwnStay DEF Dropped
  <2>4. ASSUME FCGI_errno = "none" PROVE \E k \in 0 .. Len(input) : Place(k)'
    <3>1. PICK k \in 0 .. Len(input) : Place(k)
      BY <2>4 DEF ReaderIInv, Dropped
    <3>k. At(k) /\ Content(k) /\ Inner(k) /\ UpToHere /\ InTurn(k) /\ AllAnswered(k) /\ Unbegun(k)
      BY <3>1 DEF Place
    <3>2. contentLen = 0 /\ paddingLen = 0 /\ stop <= rd
      BY <1>8, <2>4, <3>k DEF Content
    <3>3. Ready = rd /\ Ready' = rd
      BY <1>0, <1>1, <1>8, <1>p, <3>k, <3>2, AtEndOfStream DEF Ready
    <3>4. At(k)'
      BY <1>0, <1>8, <3>k, <3>2, <3>3 DEF At
    <3>5. Content(k)' /\ Inner(k)' /\ InTurn(k)'
      BY <1>0, <1>1, <1>8 DEF Content, Inner, InTurn
    <3>6. UpToHere'
      <4>1. DeliveredSet("DATA") = {}
        BY <2>1 DEF DeliveredSet
      <4> QED BY <1>0, <1>3, <1>8, <2>1, <4>1, OwnStay DEF UpToHere
    <3>7. AllAnswered(k)' /\ Unbegun(k)'
      BY <1>0, <1>1, <1>5, <3>k, PlaceStays
    <3> QED BY <3>4, <3>5, <3>6, <3>7 DEF Place
  <2> QED BY <1>0, <1>1, <1>3, <1>4, <1>6, <1>7, <2>2, <2>3, <2>4 DEF ReaderIInv
<1>9. CASE /\ FCGI_errno' = FirstError("call sequence") /\ isClosed' = TRUE
           /\ UNCHANGED <<stop, contentLen, paddingLen, skip, type, phase>>
  <2>1. FCGI_errno' # "none" /\ phase \in {"stdin", "data"}
    BY <1>0, <1>9 DEF FirstError, Accepted
  <2>2. DataAhead' /\ WindowOwn'
    BY <1>p, <1>0, <1>9, OwnStay DEF DataAhead, WindowOwn, Pushable, Reading
  <2>3. ASSUME Dropped PROVE Dropped'
    BY <1>0, <1>1, <1>9, <2>1, <2>3, OwnStay DEF Dropped
  <2>4. ASSUME NEW k \in 0 .. Len(input), Place(k) PROVE Place(k)'
    <3>k. At(k) /\ Content(k) /\ Inner(k) /\ UpToHere /\ InTurn(k) /\ AllAnswered(k) /\ Unbegun(k)
      BY <2>4 DEF Place
    <3>1. At(k)'
      BY <1>0, <1>9, <3>k DEF At, Ready
    <3>2. Content(k)' /\ Inner(k)' /\ InTurn(k)'
      BY <1>0, <1>1, <1>9, <2>1, <3>k, OwnStay DEF Content, Inner, InTurn
    <3>3. UpToHere'
      BY <1>0, <1>3, <1>9, <3>k, OwnStay DEF UpToHere
    <3>4. AllAnswered(k)' /\ Unbegun(k)'
      BY <2>1 DEF AllAnswered, Unbegun
    <3> QED BY <3>1, <3>2, <3>3, <3>4 DEF Place
  <2> QED BY <1>0, <1>1, <1>3, <1>4, <1>6, <1>7, <2>2, <2>3, <2>4 DEF ReaderIInv
<1> QED BY <1>2, <1>8, <1>9
-----------------------------------------------------------------------------
(* A character is put back.                                                 *)

Rising(s) == \A i, j \in DOMAIN s : i < j => s[i] < s[j]
Upto(s, n) == \A i \in DOMAIN s : s[i] <= n
In(x, s) == \E i \in DOMAIN s : s[i] = x

\* What a stream has delivered up to byte n, without byte n itself.
LEMMA LastTaken ==
    ASSUME NEW N \in Nat, NEW s \in Seq(1 .. N), s # <<>>, NEW n \in Nat,
           Rising(s), Upto(s, n), In(n, s), NEW u, u = SubSeq(s, 1, Len(s) - 1)
    PROVE  /\ \A x : In(x, u) <=> In(x, s) /\ x # n
           /\ Rising(u)
<1> USE DEF Rising, Upto, In
<1>1. /\ Len(s) \in Nat /\ Len(s) > 0 /\ u \in Seq(1 .. N) /\ Len(u) = Len(s) - 1
      /\ \A i \in 1 .. Len(s) - 1 : u[i] = s[i]
  BY Shortened
<1>2. PICK m \in Nat : m = Len(s) - 1 /\ Len(s) = m + 1
  <2>1. \A l \in Nat : l > 0 => l - 1 \in Nat /\ l = l - 1 + 1
    OBVIOUS
  <2>2. Len(s) - 1 \in Nat /\ Len(s) = Len(s) - 1 + 1
    BY <1>1, <2>1
  <2> QED BY <2>2
<1>3. DOMAIN s = 1 .. m + 1 /\ DOMAIN u = 1 .. m /\ \A i \in 1 .. m : u[i] = s[i] /\ i \in 1 .. m + 1
  BY <1>1, <1>2
<1>4. \A i \in 1 .. m + 1 : s[i] \in 1 .. N
  <2>1. \A i \in 1 .. Len(s) : s[i] \in 1 .. N
    OBVIOUS
  <2> QED BY <1>2, <2>1
<1>5. s[m + 1] = n
  <2>1. PICK i \in 1 .. m + 1 : s[i] = n
    BY <1>3
  <2>2. m + 1 \in 1 .. m + 1 /\ (i # m + 1 => i < m + 1)
    OBVIOUS
  <2>3. ~(i < m + 1)
    <3>1. SUFFICES ASSUME i < m + 1 PROVE FALSE
      OBVIOUS
    <3>2. n < s[m + 1] /\ s[m + 1] <= n
      BY <1>3, <2>1, <2>2, <3>1
    <3> QED BY <1>4, <2>2, <3>2
  <2> QED BY <2>1, <2>2, <2>3
<1>6. \A i \in 1 .. m : s[i] < n
  <2>1. \A i \in 1 .. m : i \in 1 .. m + 1 /\ i < m + 1 /\ m + 1 \in 1 .. m + 1
    OBVIOUS
  <2> QED BY <1>3, <1>5, <2>1
<1>7. \A i \in 1 .. m : s[i] # n
  <2>1. \A i \in 1 .. m : s[i] \in Int
    BY <1>3, <1>4
  <2> QED BY <1>6, <2>1
<1>8. \A i \in 1 .. m + 1 : i \in 1 .. m \/ i = m + 1
  OBVIOUS
<1>9. ASSUME NEW x
      PROVE  In(x, u) <=> In(x, s) /\ x # n
  <2>1. ASSUME NEW i \in 1 .. m, u[i] = x PROVE (\E l \in DOMAIN s : s[l] = x) /\ x # n
    BY <1>3, <1>7, <2>1
  <2>2. ASSUME NEW i \in 1 .. m + 1, s[i] = x, x # n PROVE \E l \in DOMAIN u : u[l] = x
    <3>1. i \in 1 .. m
      BY <1>5, <1>8, <2>2
    <3> QED BY <1>3, <2>2, <3>1
  <2> QED BY <1>3, <2>1, <2>2
<1> QED BY <1>3, <1>9

\* A record that has begun before byte n of another one has begun before n - 1.
LEMMA BegunBefore ==
    ASSUME InputOK, NEW j \in 1 .. Len(input), NEW n \in Nat, Start(j) < n, n <= Body(j),
           NEW i \in 1 .. Len(input), i # j, Start(i) <= n
    PROVE  Start(i) <= n - 1
<1>1. /\ Ends[j - 1] \in Nat /\ Start(j) \in Nat /\ Body(j) \in Nat /\ Ends[j] \in Nat
      /\ Ends[j - 1] < Start(j) /\ Body(j) <= Ends[j]
  BY SpanFacts
<1>2. /\ Ends[i - 1] \in Nat /\ Start(i) \in Nat /\ Body(i) \in Nat /\ Ends[i] \in Nat
      /\ Ends[i - 1] < Start(i) /\ Start(i) <= Body(i) /\ Body(i) <= Ends[i]
  BY SpanFacts
<1>3. Start(i) # n
  <2>1. SUFFICES ASSUME Start(i) = n PROVE FALSE
    OBVIOUS
  <2>2. Ends[j - 1] < n /\ n <= Ends[j]
    BY <1>1
  <2>3. Ends[i - 1] < n /\ n <= Ends[i]
    BY <1>2, <2>1
  <2> QED BY <2>2, <2>3, OneRecord
<1> QED BY <1>2, <1>3

LEMMA UnGetCharReader ==
    ASSUME ReaderIInv, UnGetChar
    PROVE  ReaderIInv'
<1>p. /\ PointerIInv /\ NothingForeign /\ NothingMissing /\ HeadersAtRecordStarts
      /\ EnvironmentWhole /\ WindowOwn /\ DataAhead /\ BeginRead /\ Request /\ RepliesDue
  BY DEF ReaderIInv
<1>0. /\ UNCHANGED <<input, stop, stopUnget, contentLen, paddingLen, skip, type, isClosed,
                     FCGI_errno, headerLen, requestId, isBeginProcessed, pc, frames, phase, replies>>
      /\ pc = "app" /\ Accepted /\ ~isClosed /\ rd # stopUnget /\ delivered[type] # <<>>
      /\ rd' = rd - 1
      /\ delivered' = [delivered EXCEPT ![type] = SubSeq(@, 1, Len(@) - 1)]
      /\ Ends' = Ends
  BY EndsStay DEF UnGetChar, current, request
<1>n. InputOK /\ rd \in Nat /\ stop \in Nat /\ stopUnget \in Nat /\ HeaderLen \in Nat /\ headerLen \in Nat
  BY <1>p, Basics
<1>1. /\ ~eorStop /\ headerLen = 0 /\ type \in {"STDIN", "DATA"} /\ type \in StreamTypes
      /\ phase \in {"stdin", "data"} /\ isBeginProcessed /\ requestId # 0
      /\ Reading /\ Pushable
  BY <1>p, <1>0, Basics DEF PointerIInv, Stages, Pointers, StreamOpen, StreamTypes, Request,
        Accepted, Reading, Pushable, eorStop
<1>2. PointerIInv'
  BY <1>p, UnGetCharPointers
<1>3. stopUnget < rd /\ rd <= stop /\ rd' \in Nat /\ rd' < rd
  <2>1. stopUnget <= rd /\ rd <= stop
    BY <1>p, <1>1 DEF PointerIInv, Pointers
  <2> QED BY <1>0, <1>n, <2>1
<1>4. PICK k \in 0 .. Len(input) : Place(k)
  BY <1>0 DEF ReaderIInv, Dropped
<1>k. At(k) /\ Content(k) /\ Inner(k) /\ UpToHere /\ InTurn(k) /\ AllAnswered(k) /\ Unbegun(k)
  BY <1>4 DEF Place
<1>5. rd \in OwnBytes(type) /\ rd \in DeliveredSet(type)
  <2>1. rd \in stopUnget + 1 .. stop /\ rd \in 1 .. rd
    BY <1>3, <1>n
  <2> QED BY <1>p, <1>1, <1>k, <2>1 DEF WindowOwn, UpToHere
<1>6. PICK j \in OwnRecords(type) : j \in 1 .. Len(input) /\ Start(j) < rd /\ rd <= Body(j)
  <2>1. PICK j \in OwnRecords(type) : rd \in Start(j) + 1 .. Body(j)
    BY <1>5, <1>n, OwnFacts DEF Start, Body
  <2>2. j \in 1 .. Len(input) /\ Start(j) \in Nat /\ Body(j) \in Nat
    BY <1>n, OwnFacts, SpanFacts
  <2> QED BY <2>1, <2>2
<1>7. \A i \in 1 .. Len(input) : i # j /\ Start(i) <= rd => Start(i) <= rd'
  BY <1>0, <1>6, <1>n, BegunBefore
<1>8. /\ delivered'[type] = SubSeq(delivered[type], 1, Len(delivered[type]) - 1)
      /\ \A t \in StreamTypes \ {type} : delivered'[t] = delivered[t]
  BY <1>p, <1>0, <1>1 DEF PointerIInv, DeliveredType
<1>9. /\ DeliveredSet(type)' = DeliveredSet(type) \ {rd}
      /\ \A i, l \in DOMAIN delivered'[type] : i < l => delivered'[type][i] < delivered'[type][l]
  <2> DEFINE s == delivered[type]
             u == delivered'[type]
  <2>1. s \in Seq(1 .. Ends[Len(input)]) /\ Ends[Len(input)] \in Nat
    BY <1>p, <1>1, Basics DEF DeliveredType
  <2>2. Rising(s)
    BY <1>p, <1>1 DEF NothingMissing, Rising
  <2>3. Upto(s, rd)
    <3> SUFFICES ASSUME NEW i \in DOMAIN s PROVE s[i] <= rd
      BY DEF Upto
    <3>1. s[i] \in DeliveredSet(type)
      BY DEF DeliveredSet
    <3>2. s[i] \in 1 .. rd
      BY <1>1, <1>k, <3>1 DEF UpToHere
    <3> QED BY <1>n, <3>2
  <2>4. In(rd, s)
    BY <1>5 DEF DeliveredSet, In
  <2>5. s # <<>> /\ u = SubSeq(s, 1, Len(s) - 1)
    BY <1>0, <1>8
  <2> HIDE DEF s, u
  <2>6. (\A x : In(x, u) <=> In(x, s) /\ x # rd) /\ Rising(u)
    <3>1. \A N \in Nat : \A z \in Seq(1 .. N) : \A n \in Nat : \A w :
             z # <<>> /\ Rising(z) /\ Upto(z, n) /\ In(n, z) /\ w = SubSeq(z, 1, Len(z) - 1) =>
                (\A x : In(x, w) <=> In(x, z) /\ x # n) /\ Rising(w)
      BY LastTaken
    <3>2. rd \in Nat
      BY <1>n
    <3>3. \A n \in Nat : \A w :
             s # <<>> /\ Rising(s) /\ Upto(s, n) /\ In(n, s) /\ w = SubSeq(s, 1, Len(s) - 1) =>
                (\A x : In(x, w) <=> In(x, s) /\ x # n) /\ Rising(w)
      BY <2>1, <3>1
    <3> QED BY <2>2, <2>3, <2>4, <2>5, <3>2, <3>3
  <2>7. type' = type
    BY <1>0
  <2>8. DeliveredSet(type)' = {u[i] : i \in DOMAIN u} /\ DeliveredSet(type) = {s[i] : i \in DOMAIN s}
    BY <2>7 DEF DeliveredSet, s, u
  <2>9. DeliveredSet(type)' = DeliveredSet(type) \ {rd}
    BY <2>6, <2>8 DEF In
  <2> QED BY <2>6, <2>9 DEF u, Rising
<1>10. \A t \in StreamTypes \ {type} : DeliveredSet(t)' = DeliveredSet(t)
  BY <1>8 DEF DeliveredSet
<1>11. DeliveredSet(type)' = OwnBytes(type) \cap 1 .. rd'
  <2>1. \A x \in 1 .. rd : x # rd <=> x \in 1 .. rd'
    BY <1>0, <1>n, <1>3
  <2>2. 1 .. rd' \subseteq 1 .. rd
    BY <1>n, <1>3
  <2>3. DeliveredSet(type) = OwnBytes(type) \cap 1 .. rd
    BY <1>1, <1>k DEF UpToHere
  <2> QED BY <1>9, <2>1, <2>2, <2>3
<1>12. NothingForeign'
  <2> SUFFICES ASSUME NEW t \in StreamTypes PROVE DeliveredSet(t)' \subseteq OwnBytes(t)
    BY <1>0, OwnStay DEF NothingForeign
  <2>1. DeliveredSet(t) \subseteq OwnBytes(t)
    BY <1>p DEF NothingForeign
  <2>2. CASE t = type
    <3>1. DeliveredSet(t)' = DeliveredSet(type)'
      BY <1>0, <2>2
    <3> QED BY <1>11, <2>2, <3>1
  <2>3. CASE t # type
    BY <1>10, <2>1, <2>3
  <2> QED BY <2>2, <2>3
<1>13. NothingMissing'
  <2> SUFFICES ASSUME NEW t \in StreamTypes
               PROVE  /\ \A i, l \in DOMAIN delivered'[t] : i < l => delivered'[t][i] < delivered'[t][l]
                      /\ \A p \in OwnBytes(t) :
                            (\E q \in DeliveredSet(t)' : p < q) => p \in DeliveredSet(t)'
    BY <1>0, OwnStay DEF NothingMissing
  <2>1. /\ \A i, l \in DOMAIN delivered[t] : i < l => delivered[t][i] < delivered[t][l]
        /\ \A p \in OwnBytes(t) : (\E q \in DeliveredSet(t) : p < q) => p \in DeliveredSet(t)
    BY <1>p DEF NothingMissing
  <2>2. CASE t = type
    <3>1. DeliveredSet(t)' = DeliveredSet(type)'
      BY <1>0, <2>2
    <3>2. ASSUME NEW p \in OwnBytes(type), NEW q \in DeliveredSet(type)', p < q
          PROVE  p \in DeliveredSet(type)'
      <4>1. q \in DeliveredSet(type) /\ q \in 1 .. rd'
        BY <1>9, <1>11
      <4>2. p \in DeliveredSet(type)
        BY <2>1, <2>2, <3>2, <4>1
      <4>3. p \in 1 .. rd
        BY <1>1, <1>k, <4>2 DEF UpToHere
      <4>4. p # rd
        BY <1>n, <1>3, <3>2, <4>1, <4>3
      <4> QED BY <1>9, <4>2, <4>4
    <3> QED BY <1>9, <2>2, <3>1, <3>2
  <2>3. CASE t # type
    BY <1>8, <1>10, <2>1, <2>3
  <2> QED BY <2>2, <2>3
<1>14. HeadersAtRecordStarts' /\ Request'
  BY <1>p, <1>0, <1>1 DEF HeadersAtRecordStarts, Request, eorStop
<1>15. EnvironmentWhole'
  <2> SUFFICES ASSUME FCGI_errno = "none"
               PROVE  DeliveredSet("PARAMS")' = OwnBytes("PARAMS")' /\ EndRead("PARAMS")'
    BY <1>0 DEF EnvironmentWhole
  <2>1. DeliveredSet("PARAMS") = OwnBytes("PARAMS") /\ EndRead("PARAMS")
    BY <1>p, <1>0 DEF EnvironmentWhole
  <2>2. PICK i \in OwnRecords("PARAMS") : input[i].len = 0 /\ Start(i) <= rd
    BY <2>1 DEF EndRead, Start
  <2>3. i \in 1 .. Len(input) /\ i # j
    <3>1. i \in 1 .. Len(input) /\ input[i].type = "PARAMS" /\ input[j].type = type
      BY <1>n, OwnFacts
    <3> QED BY <1>1, <3>1
  <2>4. Start(i) <= rd'
    BY <1>7, <2>2, <2>3
  <2>5. EndRead("PARAMS")'
    BY <1>0, <2>2, <2>4, OwnStay DEF EndRead, Start
  <2>6. DeliveredSet("PARAMS")' = DeliveredSet("PARAMS")
    BY <1>1, <1>10 DEF StreamTypes
  <2> QED BY <1>0, <2>1, <2>5, <2>6, OwnStay
<1>16. DataAhead'
  <2>1. 1 .. rd' \subseteq 1 .. rd
    BY <1>n, <1>3
  <2> QED BY <1>p, <1>0, <2>1, OwnStay DEF DataAhead
<1>17. WindowOwn'
  BY <1>p, <1>0, <1>1, OwnStay DEF WindowOwn
<1>18. rd - headerLen = rd /\ rd' - headerLen' = rd'
  BY <1>0, <1>1, <1>n, <1>3
<1>19. BeginRead'
  <2>1. PICK b \in 1 .. Len(input) : /\ IsFirst(input, b) /\ requestId = input[b].id
                                     /\ Start(b) <= rd
    BY <1>p, <1>1, <1>18 DEF BeginRead, Start
  <2>2. b # j
    BY <1>1, <1>n, <1>6, <2>1, OwnFacts DEF IsFirst
  <2>3. Start(b) <= rd'
    BY <1>7, <2>1, <2>2
  <2> QED BY <1>0, <1>18, <2>1, <2>3 DEF BeginRead, Start
<1>20. RepliesDue'
  <2>1. \A l \in DOMAIN replies : replies[l][2] \in 1 .. Len(input)
    BY <1>p DEF PointerIInv, RepliesType
  <2>2. ~Due(j)
    BY <1>1, <1>n, <1>6, OwnFacts DEF Due
  <2> SUFFICES ASSUME NEW l \in DOMAIN replies, NEW r, r = replies[l][2]
               PROVE  /\ Due(r)' /\ replies[l][1] = Answer(r)'
                      /\ input[r].type = "BEGIN" => requestId # 0
                      /\ Start(r) <= rd'
                      /\ \A m \in DOMAIN replies : l < m => r < replies[m][2]
    BY <1>0, <1>18 DEF RepliesDue, Start
  <2>3. /\ Due(r) /\ replies[l][1] = Answer(r)
        /\ input[r].type = "BEGIN" => requestId # 0
        /\ Start(r) <= rd
        /\ \A m \in DOMAIN replies : l < m => r < replies[m][2]
    BY <1>p, <1>18 DEF RepliesDue, Start
  <2>4. r \in 1 .. Len(input) /\ r # j
    BY <2>1, <2>2, <2>3
  <2> QED BY <1>0, <1>7, <2>3, <2>4, OwnStay
<1>21. Place(k)'
  <2>1. Ready = stop /\ Ready' = stop
    BY <1>0, <1>n, <1>3 DEF Ready
  <2>2. At(k)'
    BY <1>0, <1>k, <2>1 DEF At
  <2>3. Content(k)' /\ Inner(k)'
    BY <1>0, <1>1, <1>k, OwnStay DEF Content, Inner, eorStop
  <2>4. UpToHere'
    BY <1>0, <1>11, OwnStay DEF UpToHere
  <2>5. InTurn(k)'
    BY <1>0, <1>1 DEF InTurn
  <2>6. AllAnswered(k)' /\ Unbegun(k)'
    BY <1>0, <1>1, <1>k, PlaceStays DEF eorStop
  <2> QED BY <2>2, <2>3, <2>4, <2>5, <2>6 DEF Place
<1> QED BY <1>0, <1>2, <1>12, <1>13, <1>14, <1>15, <1>16, <1>17, <1>19, <1>20, <1>21 DEF ReaderIInv
-----------------------------------------------------------------------------
(* Bytes are taken.                                                         *)

LEMMA TakeFrames ==
    ASSUME PointerIInv, Take
    PROVE  /\ ~eorStop => ~eorStop' /\ pc' \in {"app", "get", "fill"} /\ UNCHANGED isBeginProcessed
           /\ eorStop =>
                 \/ /\ frames[2].who # "begin" /\ eorStop' /\ frames'[2].who # "begin"
                    /\ pc' \in {"get", "fill"} /\ UNCHANGED isBeginProcessed
                 \/ /\ frames[2].who = "begin" /\ ~eorStop' /\ pc' = "begun"
                    /\ Least(frames[2].want, stop - rd) = frames[2].want
                 \/ /\ frames[2].who = "begin" /\ eorStop' /\ pc' = "fill"
                    /\ Least(frames[2].want, stop - rd) # frames[2].want
                    /\ frames'[2] = Call("begin", frames[2].want - Least(frames[2].want, stop - rd))
                    /\ UNCHANGED isBeginProcessed
<1>0. pc = "get" /\ ~isClosed /\ FramesType /\ Stages
  BY DEF Take, PointerIInv, Pointers
<1>1. PICK c \in Frame : Continued(c)
  BY TakeOutcome
<1>2. /\ Len(frames) \in 1 .. 2 /\ (eorStop <=> Len(frames) = 2) /\ Top \in Frame
      /\ eorStop => Top = frames[2] /\ frames[2].who \in {"begin", "values", "value"}
      /\ ~eorStop => Top = frames[1] /\ frames[1].who \in {"params", "pair", "app", "accept"}
  BY <1>0, FrameFacts DEF eorStop, Stages, PointerIInv, Flags
<1>3. ASSUME frames' = Append(Pop, c)
      PROVE  Len(frames') = Len(frames) /\ frames'[Len(frames)] = c
  BY <1>0, <1>2, <1>3, Replaced
<1>4. CASE ~eorStop
  <2>1. Top.who # "begin"
    BY <1>2, <1>4
  <2>2. UNCHANGED isBeginProcessed
    BY <1>1, <2>1 DEF Continued
  <2>3. CASE frames' = <<>> /\ pc' = "app"
    BY <1>4, <2>2, <2>3 DEF eorStop
  <2>4. CASE frames' = Append(Pop, c) /\ pc' \in {"get", "fill"}
    <3>1. ~eorStop'
      BY <1>2, <1>3, <1>4, <2>4 DEF eorStop
    <3> QED BY <1>4, <2>2, <2>4, <3>1
  <2> QED BY <1>1, <2>1, <2>3, <2>4 DEF Continued
<1>5. CASE eorStop /\ frames[2].who # "begin"
  <2>1. Top.who \in {"values", "value"} /\ Len(frames) = 2
    BY <1>2, <1>5
  <2>2. frames' = Append(Pop, c) /\ c.who # "begin" /\ pc' \in {"get", "fill"} /\ UNCHANGED isBeginProcessed
    BY <1>1, <2>1 DEF Continued
  <2>3. eorStop' /\ frames'[2] = c
    BY <1>3, <2>1, <2>2 DEF eorStop
  <2> QED BY <1>5, <2>2, <2>3
<1>6. CASE eorStop /\ frames[2].who = "begin"
  <2>1. Top = frames[2] /\ Top.who = "begin" /\ Len(frames) = 2 /\ frames[2].want \in Nat
    BY <1>2, <1>6 DEF Frame
  <2>2. CASE Least(Top.want, stop - rd) = Top.want
    <3>1. frames' = Pop /\ pc' = "begun"
      BY <2>1, <2>2 DEF Take, Satisfied
    <3>2. ~eorStop'
      BY <1>0, <2>1, <3>1, Popped DEF eorStop
    <3> QED BY <1>6, <2>1, <2>2, <3>1, <3>2
  <2>3. CASE Least(Top.want, stop - rd) # Top.want
    <3> DEFINE d == Call("begin", Top.want - Least(Top.want, stop - rd))
    <3>1. frames' = Append(Pop, d) /\ pc' = "fill" /\ UNCHANGED isBeginProcessed
      BY <1>0, <2>1, <2>3 DEF Take
    <3>2. stop - rd \in Nat
      BY <1>0, Basics DEF PointerIInv, Pointers
    <3>3. Top.want - Least(Top.want, stop - rd) \in Nat
      <4>1. /\ Least(Top.want, stop - rd) \in Nat /\ Least(Top.want, stop - rd) <= Top.want
        BY <2>1, <3>2, LeastFacts
      <4> QED BY <2>1, <4>1
    <3>4. d \in Frame
      BY <3>3 DEF Call, Frame
    <3>5. Len(frames') = 2 /\ frames'[2] = d
      BY <1>0, <1>2, <2>1, <3>1, <3>4, Replaced
    <3> QED BY <1>6, <2>1, <2>3, <3>1, <3>5 DEF eorStop
  <2> QED BY <2>2, <2>3
<1> QED BY <1>4, <1>5, <1>6

\* What a stream has delivered, with the next m bytes.
LEMMA NextTaken ==
    ASSUME NEW N \in Nat, NEW s \in Seq(1 .. N), NEW n \in Nat, NEW m \in Nat,
           Rising(s), Upto(s, n), NEW b, b = [i \in 1 .. m |-> n + i], NEW u, u = s \o b
    PROVE  /\ \A x : In(x, u) <=> In(x, s) \/ x \in n + 1 .. n + m
           /\ Rising(u)
<1> USE DEF Rising, Upto, In
<1>1. PICK l \in Nat : l = Len(s) /\ DOMAIN s = 1 .. l
  OBVIOUS
<1>2. b \in Seq(Int) /\ Len(b) = m /\ \A i \in 1 .. m : b[i] = n + i
  OBVIOUS
<1>3. s \in Seq(Int) /\ \A i \in 1 .. l : s[i] \in Int
  BY <1>1
<1>4. u \in Seq(Int) /\ Len(u) = l + m /\ \A i \in 1 .. l + m : u[i] = IF i <= l THEN s[i] ELSE b[i - l]
  <2>1. \A f, g \in Seq(Int) : /\ f \o g \in Seq(Int) /\ Len(f \o g) = Len(f) + Len(g)
                               /\ \A i \in 1 .. Len(f) + Len(g) :
                                     (f \o g)[i] = IF i <= Len(f) THEN f[i] ELSE g[i - Len(f)]
    BY ConcatProperties
  <2> QED BY <1>1, <1>2, <1>3, <2>1
<1>5. DOMAIN u = 1 .. l + m
  BY <1>4
<1>6. \A i \in 1 .. l : i \in 1 .. l + m /\ u[i] = s[i]
  BY <1>4
<1>7. \A i \in 1 .. m : l + i \in 1 .. l + m /\ u[l + i] = n + i
  <2> SUFFICES ASSUME NEW i \in 1 .. m PROVE l + i \in 1 .. l + m /\ u[l + i] = n + i
    OBVIOUS
  <2>1. l + i \in 1 .. l + m /\ ~(l + i <= l) /\ l + i - l = i
    OBVIOUS
  <2>2. PICK j \in 1 .. l + m : j = l + i
    BY <2>1
  <2>3. ~(j <= l) /\ j - l = i
    BY <2>1, <2>2
  <2>4. u[j] = b[i]
    BY <1>4, <2>3
  <2> QED BY <1>2, <2>2, <2>4
<1>8. \A i \in 1 .. l + m : i \in 1 .. l \/ \E j \in 1 .. m : i = l + j
  <2> SUFFICES ASSUME NEW i \in 1 .. l + m, i \notin 1 .. l PROVE \E j \in 1 .. m : i = l + j
    OBVIOUS
  <2>1. i - l \in 1 .. m /\ i = l + (i - l)
    OBVIOUS
  <2> QED BY <2>1
<1>9. ASSUME NEW x PROVE In(x, u) <=> In(x, s) \/ x \in n + 1 .. n + m
  <2>1. ASSUME NEW i \in 1 .. l + m, u[i] = x PROVE In(x, s) \/ x \in n + 1 .. n + m
    <3>1. CASE i \in 1 .. l
      BY <1>1, <1>6, <2>1, <3>1
    <3>2. ASSUME NEW j \in 1 .. m, i = l + j PROVE x \in n + 1 .. n + m
      <4>1. x = n + j
        BY <1>7, <2>1, <3>2
      <4> QED BY <4>1
    <3> QED BY <1>8, <3>1, <3>2
  <2>2. ASSUME NEW i \in 1 .. l, s[i] = x PROVE \E j \in 1 .. l + m : u[j] = x
    BY <1>6, <2>2
  <2>3. ASSUME x \in n + 1 .. n + m PROVE \E j \in 1 .. l + m : u[j] = x
    <3>1. PICK j \in 1 .. m : x = n + j
      <4>1. x - n \in 1 .. m /\ x = n + (x - n)
        BY <2>3
      <4> QED BY <4>1
    <3> QED BY <1>7, <3>1
  <2> QED BY <1>1, <1>5, <2>1, <2>2, <2>3
<1>10. ASSUME NEW i \in 1 .. l + m, NEW j \in 1 .. l + m, i < j PROVE u[i] < u[j]
  <2>1. CASE i \in 1 .. l /\ j \in 1 .. l
    BY <1>1, <1>6, <1>10, <2>1
  <2>2. ASSUME i \in 1 .. l, NEW q \in 1 .. m, j = l + q PROVE u[i] < u[j]
    <3>1. s[i] <= n /\ s[i] \in Int /\ u[i] = s[i] /\ u[j] = n + q
      BY <1>1, <1>3, <1>6, <1>7, <2>2
    <3>2. \A y \in Int : y <= n => y < n + q
      OBVIOUS
    <3> QED BY <3>1, <3>2
  <2>3. ASSUME NEW p \in 1 .. m, i = l + p, NEW q \in 1 .. m, j = l + q PROVE u[i] < u[j]
    <3>1. u[i] = n + p /\ u[j] = n + q
      BY <1>7, <2>3
    <3>2. p < q
      BY <1>10, <2>3
    <3>3. n + p < n + q
      BY <3>2
    <3> QED BY <3>1, <3>3
  <2>4. ASSUME NEW p \in 1 .. m, i = l + p, j \in 1 .. l PROVE FALSE
    BY <1>10, <2>4
  <2> QED BY <1>8, <2>1, <2>2, <2>3, <2>4
<1> QED BY <1>5, <1>9, <1>10

\* What taking bytes leaves alone.
LEMMA TakeKeeps ==
    ASSUME ReaderIInv, Take
    PROVE  /\ UNCHANGED <<input, stop, stopUnget, contentLen, paddingLen, skip, type, isClosed,
                          FCGI_errno, headerLen, requestId, phase, replies>>
           /\ Ends' = Ends /\ pc = "get" /\ ~isClosed /\ headerLen = 0 /\ rd <= stop
           /\ rd' \in Nat /\ rd <= rd' /\ rd' <= stop
           /\ PointerIInv' /\ BeginRead' /\ RepliesDue' /\ HeadersAtRecordStarts'
           /\ Ready = stop /\ Ready' = stop
           /\ \A k \in 0 .. Len(input) : At(k) =>
                 /\ At(k)' /\ stop \in Nat /\ stop + contentLen + paddingLen = Ends[k]
<1>p. PointerIInv /\ BeginRead /\ RepliesDue /\ HeadersAtRecordStarts
  BY DEF ReaderIInv
<1>0. /\ UNCHANGED <<input, stop, stopUnget, contentLen, paddingLen, skip, type, isClosed,
                     FCGI_errno, headerLen, requestId, phase, replies>>
      /\ Ends' = Ends
  BY <1>p, EndsStay, TakeOutcome DEF Take, current
<1>1. pc = "get" /\ ~isClosed /\ headerLen = 0 /\ rd <= stop
  BY <1>p, Basics DEF Take, PointerIInv, Pointers
<1>n. rd \in Nat /\ stop \in Nat /\ headerLen \in Nat
  BY <1>p, Basics
<1>2. PICK m \in Nat : m <= stop - rd /\ rd' = rd + m
  BY <1>p, TakeOutcome
<1>3. rd' \in Nat /\ rd <= rd' /\ rd' <= stop
  BY <1>n, <1>2
<1>4. PointerIInv'
  BY <1>p, TakePointers
<1>5. BeginRead' /\ RepliesDue'
  <2>0. \A a, b \in Nat : b = 0 => a - b = a
    OBVIOUS
  <2>h. headerLen' = headerLen /\ headerLen = 0 /\ headerLen \in Nat /\ rd \in Nat /\ rd' \in Nat
    BY <1>0, <1>1, <1>n, <1>3
  <2>1. rd - headerLen = rd /\ rd' - headerLen' = rd'
    BY <2>0, <2>h
  <2>2. rd - headerLen \in Int /\ (rd - headerLen)' \in Int /\ rd - headerLen <= (rd - headerLen)'
    BY <1>n, <1>3, <2>1
  <2> QED BY <1>p, <1>0, <2>2, Basics, BeginStays, RepliesStay
<1>6. HeadersAtRecordStarts'
  BY <1>p, <1>0 DEF HeadersAtRecordStarts
<1>7. Ready = stop /\ Ready' = stop
  <2>1. \A a, b \in Nat : b <= a /\ ~(a > b) => b = a
    OBVIOUS
  <2>2. stop' = stop
    BY <1>0
  <2>3. Ready = stop
    BY <1>1, <1>n, <2>1 DEF Ready
  <2>4. Ready' = stop
    BY <1>3, <1>n, <2>1, <2>2 DEF Ready
  <2> QED BY <2>3, <2>4
<1>8. ASSUME NEW k \in 0 .. Len(input), At(k)
      PROVE  At(k)' /\ stop + contentLen + paddingLen = Ends[k]
  <2>1. At(k)'
    BY <1>0, <1>7, <1>8 DEF At
  <2>2. \A e, h \in Nat : h = 0 => e + h = e
    OBVIOUS
  <2>3. Ends[k] \in Nat /\ stop + contentLen + paddingLen = Ends[k] + headerLen
    BY <1>p, <1>7, <1>8, Basics DEF At
  <2> QED BY <1>1, <1>n, <2>1, <2>2, <2>3
<1> QED BY <1>0, <1>1, <1>n, <1>3, <1>4, <1>5, <1>6, <1>7, <1>8

\* ProcessHeader reads the content of a begin-request or get-values record.
LEMMA TakeNestedReader ==
    ASSUME ReaderIInv, Take, eorStop, RequestScript(input)
    PROVE  ReaderIInv'
<1>p. /\ PointerIInv /\ NothingForeign /\ NothingMissing /\ HeadersAtRecordStarts
      /\ EnvironmentWhole /\ WindowOwn /\ DataAhead /\ BeginRead /\ Request /\ RepliesDue
  BY DEF ReaderIInv
<1>0. /\ UNCHANGED <<input, stop, stopUnget, contentLen, paddingLen, skip, type, isClosed,
                     FCGI_errno, headerLen, requestId, phase, replies, delivered>>
      /\ Ends' = Ends /\ pc = "get" /\ ~isClosed /\ headerLen = 0 /\ rd <= stop
      /\ rd' \in Nat /\ rd <= rd' /\ rd' <= stop
      /\ Ready = stop /\ Ready' = stop
  BY TakeKeeps DEF Take
<1>1. PointerIInv' /\ BeginRead' /\ RepliesDue' /\ HeadersAtRecordStarts'
  BY TakeKeeps
<1>n. /\ InputOK /\ rd \in Nat /\ stop \in Nat /\ contentLen \in Nat /\ paddingLen \in Nat
      /\ HeaderLen \in Nat /\ Len(input) \in Nat
  BY <1>p, Basics
<1>2. PICK k \in 0 .. Len(input) : Place(k)
  BY DEF ReaderIInv, Dropped
<1>k. At(k) /\ Content(k) /\ Inner(k) /\ UpToHere /\ InTurn(k) /\ AllAnswered(k) /\ Unbegun(k)
  BY <1>2 DEF Place
<1>3. /\ k \in 1 .. Len(input) /\ Ends[k - 1] + HeaderLen <= rd /\ ~skip
      /\ \A l \in DOMAIN replies : replies[l][2] < k
      /\ frames[2].who # "begin" => input[k].type = "GET_VALUES" /\ input[k].id = 0
      /\ frames[2].who = "begin" =>
            /\ IsFirst(input, k) /\ requestId = input[k].id /\ requestId # 0
            /\ frames[2].want > 0 /\ frames[2].want = stop - rd + contentLen
  <2>1. k > 0 /\ Ends[k - 1] + HeaderLen <= rd /\ \A l \in DOMAIN replies : replies[l][2] < k
    BY <1>k DEF Inner
  <2>2. /\ frames[2].who # "begin" => input[k].type = "GET_VALUES" /\ input[k].id = 0
        /\ frames[2].who = "begin" =>
            /\ IsFirst(input, k) /\ requestId = input[k].id /\ requestId # 0
            /\ frames[2].want > 0 /\ frames[2].want = stop - rd + contentLen
    BY <1>0, <1>k DEF Inner
  <2>3. ~skip
    BY <1>k DEF Content
  <2> QED BY <1>n, <2>1, <2>2, <2>3
<1>4. At(k)' /\ stop + contentLen + paddingLen = Ends[k] /\ Ends[k] \in Nat
  BY <1>p, <1>k, TakeKeeps, Basics
<1>5. \A t \in StreamTypes : k \notin OwnRecords(t)
  BY <1>3 DEF OwnRecords, StreamTypes, IsFirst
<1>6. UpToHere' /\ DataAhead'
  <2>1. ASSUME NEW t \in StreamTypes, NEW p \in rd + 1 .. rd' PROVE p \notin OwnBytes(t)
    <3>1. p \in Int /\ rd < p /\ p <= rd'
      BY <1>0, <1>n
    <3>2. Ends[k - 1] < p /\ p <= Ends[k]
      <4>1. Ends[k - 1] \in Nat
        BY <1>n, <1>3, SpanFacts
      <4>2. rd' <= Ends[k]
        BY <1>0, <1>n, <1>4
      <4>3. Ends[k - 1] + HeaderLen <= rd /\ Ends[k] \in Nat
        BY <1>3, <1>4
      <4>4. Ends[k - 1] <= rd
        BY <1>n, <4>1, <4>3
      <4> QED BY <1>0, <1>n, <3>1, <4>1, <4>2, <4>3, <4>4
    <3> QED BY <1>n, <1>3, <1>5, <3>1, <3>2, RecordBytes
  <2> QED BY <1>p, <1>k, <1>0, <1>n, <2>1, PassedOver
<1>7. NothingForeign' /\ NothingMissing'
  BY <1>p, <1>0, StreamsStay
<1>8. EnvironmentWhole'
  BY <1>p, <1>0, <1>n, EnvironmentStays DEF Accepted
<1>9. \/ /\ frames[2].who # "begin" /\ eorStop' /\ frames'[2].who # "begin"
         /\ pc' \in {"get", "fill"} /\ UNCHANGED isBeginProcessed
      \/ /\ frames[2].who = "begin" /\ ~eorStop' /\ pc' = "begun"
         /\ Least(frames[2].want, stop - rd) = frames[2].want
      \/ /\ frames[2].who = "begin" /\ eorStop' /\ pc' = "fill"
         /\ Least(frames[2].want, stop - rd) # frames[2].want
         /\ frames'[2] = Call("begin", frames[2].want - Least(frames[2].want, stop - rd))
         /\ UNCHANGED isBeginProcessed
  BY <1>p, TakeFrames
<1>10. WindowOwn' /\ Request'
  <2>1. ~Reading'
    BY <1>9 DEF Reading
  <2>2. isBeginProcessed' => requestId' # 0
    BY <1>p, <1>0, <1>3, <1>9 DEF Request
  <2>3. frames[2].who = "begin" /\ eorStop' => frames'[2].who = "begin"
    BY <1>9 DEF Call
  <2>4. phase' = "begin" /\ requestId' # 0 /\ FCGI_errno' = "none" =>
          pc' = "begun" \/ (eorStop' /\ frames'[2].who = "begin")
    BY <1>p, <1>0, <1>9, <2>3 DEF Request
  <2>5. pc' # "closed"
    BY <1>9
  <2>6. phase' \in {"begin", "params"} /\ FCGI_errno' # "none" => isClosed'
    BY <1>p, <1>0 DEF Request
  <2> QED BY <2>1, <2>2, <2>4, <2>5, <2>6 DEF WindowOwn, Pushable, Request
<1>11. frames[2].who = "begin" => frames[2].want \in Nat /\ stop - rd \in Nat
                                  /\ Top = frames[2]
  <2>1. frames[2] \in Frame /\ Top = frames[2]
    BY <1>p, <1>0, FrameFacts DEF PointerIInv
  <2>2. stop - rd \in Nat
    BY <1>0, <1>n
  <2> QED BY <2>1, <2>2 DEF Frame
<1>12. CASE frames[2].who # "begin"
  <2>1. eorStop' /\ frames'[2].who # "begin" /\ pc' \in {"get", "fill"}
    BY <1>9, <1>12
  <2>2. Content(k)'
    BY <1>0, <1>3, <2>1 DEF Content
  <2>3. Inner(k)'
    <3>1. Ends[k - 1] + HeaderLen <= rd' /\ k > 0
      <4>1. Ends[k - 1] \in Nat
        BY <1>n, <1>3, SpanFacts
      <4> QED BY <1>0, <1>n, <1>3, <4>1
    <3> QED BY <1>0, <1>3, <1>12, <2>1, <3>1 DEF Inner
  <2>4. InTurn(k)' /\ AllAnswered(k)' /\ Unbegun(k)'
    BY <1>0, <1>k, <2>1, PlaceStays
  <2> QED BY <1>0, <1>1, <1>4, <1>6, <1>7, <1>8, <1>10, <2>2, <2>3, <2>4 DEF ReaderIInv, Place
<1>13. CASE frames[2].who = "begin" /\ ~eorStop' /\ pc' = "begun"
            /\ Least(frames[2].want, stop - rd) = frames[2].want
  <2>1. contentLen = 0 /\ rd' = stop
    <3>1. frames[2].want <= stop - rd
      BY <1>11, <1>13, LeastFacts
    <3>2. contentLen = 0 /\ frames[2].want = stop - rd
      BY <1>0, <1>n, <1>3, <1>11, <1>13, <3>1
    <3>3. rd' = rd + Least(frames[2].want, stop - rd)
      BY <1>11, <1>13 DEF Take
    <3>4. rd' = rd + (stop - rd)
      BY <1>13, <3>2, <3>3
    <3> QED BY <1>n, <3>2, <3>4
  <2>2. paddingLen = 0
    <3>1. input[k].pad = 0
      BY <1>3, <1>13 DEF RequestScript
    <3>2. paddingLen <= input[k].pad
      BY <1>k, <1>3 DEF At
    <3> QED BY <1>n, <3>1, <3>2
  <2>3. Content(k)' /\ Inner(k)'
    BY <1>0, <1>3, <1>13, <2>1, <2>2 DEF Content, Inner
  <2>4. InTurn(k)' /\ Unbegun(k)'
    BY <1>0, <1>k, PlaceStays
  <2>5. AllAnswered(k)'
    <3>1. ~Due(k)
      BY <1>3, <1>13 DEF Due, IsFirst
    <3> QED BY <1>0, <1>k, <1>13, <3>1, OwnStay DEF AllAnswered
  <2> QED BY <1>0, <1>1, <1>4, <1>6, <1>7, <1>8, <1>10, <2>3, <2>4, <2>5 DEF ReaderIInv, Place
<1>14. CASE /\ frames[2].who = "begin" /\ eorStop' /\ pc' = "fill"
            /\ Least(frames[2].want, stop - rd) # frames[2].want
            /\ frames'[2] = Call("begin", frames[2].want - Least(frames[2].want, stop - rd))
  <2>1. PICK m \in Nat : /\ m = Least(frames[2].want, stop - rd)
                         /\ m <= frames[2].want
    BY <1>11, <1>14, LeastFacts
  <2>2. rd' = rd + m
    BY <1>11, <1>14, <2>1 DEF Take
  <2>3. frames'[2].who = "begin" /\ frames'[2].want = frames[2].want - m
    BY <1>14, <2>1 DEF Call
  <2>4. frames'[2].want > 0
    <3>1. m # frames[2].want /\ frames[2].want \in Nat
      BY <1>11, <1>14, <2>1
    <3> QED BY <2>1, <2>3, <3>1
  <2>5. frames'[2].want = stop - rd' + contentLen
    <3>1. (stop - rd + contentLen) - m = stop - (rd + m) + contentLen
      BY <1>n
    <3>2. frames[2].want = stop - rd + contentLen
      BY <1>3, <1>14
    <3>3. frames[2].want - m = (stop - rd + contentLen) - m
      BY <3>2
    <3>4. stop - rd' + contentLen = stop - (rd + m) + contentLen
      BY <2>2
    <3> QED BY <2>3, <3>1, <3>3, <3>4
  <2>6. Content(k)'
    BY <1>0, <1>3, <1>14 DEF Content
  <2>7. Inner(k)'
    <3>1. Ends[k - 1] + HeaderLen <= rd' /\ k > 0
      <4>1. Ends[k - 1] \in Nat
        BY <1>n, <1>3, SpanFacts
      <4> QED BY <1>0, <1>n, <1>3, <4>1
    <3> QED BY <1>0, <1>3, <1>14, <2>3, <2>4, <2>5, <3>1 DEF Inner
  <2>8. InTurn(k)' /\ AllAnswered(k)' /\ Unbegun(k)'
    BY <1>0, <1>k, <1>14, PlaceStays
  <2> QED BY <1>0, <1>1, <1>4, <1>6, <1>7, <1>8, <1>10, <2>6, <2>7, <2>8 DEF ReaderIInv, Place
<1> QED BY <1>9, <1>12, <1>13, <1>14

\* Bytes are taken of the stream that is being read.
LEMMA TakeStream ==
    ASSUME PointerIInv, Take, ~eorStop
    PROVE  /\ type \in StreamTypes /\ phase \in {"params", "stdin", "data"} /\ Reading
           /\ ~eorStop' /\ pc' \in {"app", "get", "fill"} /\ UNCHANGED isBeginProcessed
           /\ \A t \in StreamTypes \ {type} : delivered'[t] = delivered[t]
           /\ \E m \in Nat : /\ m <= stop - rd /\ rd' = rd + m
                             /\ delivered'[type] = delivered[type] \o NextBytes(m)
                             /\ m = 0 => delivered' = delivered
<1>1. pc = "get" /\ ~isClosed
  BY DEF Take, PointerIInv, Pointers
<1>2. type \in StreamTypes /\ phase \in {"params", "stdin", "data"} /\ Reading
  BY <1>1 DEF PointerIInv, Stages, StreamOpen, StreamTypes, Flags, Reading
<1>3. ~eorStop' /\ pc' \in {"app", "get", "fill"} /\ UNCHANGED isBeginProcessed
  BY TakeFrames
<1>4. PICK m \in Nat : /\ m <= stop - rd /\ rd' = rd + m
                       /\ delivered' = [delivered EXCEPT ![type] = @ \o NextBytes(m)]
  BY TakeOutcome
<1>5. /\ delivered'[type] = delivered[type] \o NextBytes(m)
      /\ \A t \in StreamTypes \ {type} : delivered'[t] = delivered[t]
  BY <1>2, <1>4 DEF PointerIInv, DeliveredType
<1>6. ASSUME m = 0 PROVE delivered' = delivered
  <2>1. delivered[type] \in Seq(1 .. Ends[Len(input)])
    BY <1>2 DEF PointerIInv, DeliveredType
  <2>2. \A T : \A s, u \in Seq(T) : u = <<>> => s \o u = s
    OBVIOUS
  <2>3. NextBytes(m) = <<>> /\ NextBytes(m) \in Seq(1 .. Ends[Len(input)])
    BY <1>6 DEF NextBytes
  <2>4. delivered[type] \o NextBytes(m) = delivered[type]
    BY <2>1, <2>2, <2>3
  <2> QED BY <1>2, <1>4, <2>4 DEF PointerIInv, DeliveredType
<1> QED BY <1>2, <1>3, <1>4, <1>5, <1>6

\* The parts of the invariant that taking of a stream does not decide.
LEMMA TakePlace ==
    ASSUME ReaderIInv, Take, ~eorStop, NEW k \in 0 .. Len(input), Place(k)
    PROVE  At(k)' /\ Content(k)' /\ Inner(k)' /\ InTurn(k)' /\ AllAnswered(k)' /\ Unbegun(k)'
<1>p. PointerIInv
  BY DEF ReaderIInv
<1>0. /\ UNCHANGED <<input, contentLen, paddingLen, skip, type, isClosed, FCGI_errno,
                     requestId, phase, replies>>
      /\ ~isClosed /\ ~eorStop' /\ pc' \in {"app", "get", "fill"}
  BY <1>p, TakeKeeps, TakeStream
<1>k. At(k) /\ Content(k) /\ InTurn(k) /\ AllAnswered(k) /\ Unbegun(k)
  BY DEF Place
<1>1. At(k)'
  BY <1>k, TakeKeeps
<1>2. Content(k)' /\ Inner(k)'
  BY <1>0, <1>k, OwnStay DEF Content, Inner
<1>3. InTurn(k)' /\ AllAnswered(k)' /\ Unbegun(k)'
  BY <1>0, <1>k, PlaceStays
<1> QED BY <1>1, <1>2, <1>3

LEMMA TakeNoneReader ==
    ASSUME ReaderIInv, Take, ~eorStop, rd' = rd, delivered' = delivered
    PROVE  ReaderIInv'
<1>p. /\ PointerIInv /\ NothingForeign /\ NothingMissing
      /\ EnvironmentWhole /\ WindowOwn /\ DataAhead /\ Request
  BY DEF ReaderIInv
<1>0. /\ UNCHANGED <<input, stop, stopUnget, contentLen, paddingLen, skip, type, isClosed,
                     FCGI_errno, headerLen, requestId, phase, replies>>
      /\ ~isClosed
  BY TakeKeeps
<1>1. PointerIInv' /\ BeginRead' /\ RepliesDue' /\ HeadersAtRecordStarts'
  BY TakeKeeps
<1>2. /\ phase \in {"params", "stdin", "data"} /\ Reading
      /\ ~eorStop' /\ pc' \in {"app", "get", "fill"} /\ UNCHANGED isBeginProcessed
  BY <1>p, TakeStream
<1>n. InputOK /\ rd \in Nat
  BY <1>p, Basics
<1>3. NothingForeign' /\ NothingMissing' /\ \A t : DeliveredSet(t)' = DeliveredSet(t)
  BY <1>p, <1>0, StreamsStay
<1>4. EnvironmentWhole'
  <2>1. rd \in Int /\ rd' \in Int /\ rd <= rd'
    BY <1>n
  <2>2. Accepted' /\ FCGI_errno' = "none" =>
              Accepted /\ FCGI_errno = "none" /\ delivered'["PARAMS"] = delivered["PARAMS"]
    BY <1>0 DEF Accepted
  <2> QED BY <1>0, <1>n, <1>p, <2>1, <2>2, EnvironmentStays
<1>5. WindowOwn' /\ DataAhead'
  BY <1>p, <1>0, <1>2, OwnStay DEF WindowOwn, DataAhead, Pushable
<1>6. Request'
  BY <1>p, <1>0, <1>2 DEF Request
<1>7. UpToHere => UpToHere'
  BY <1>0, <1>3, OwnStay DEF UpToHere
<1>8. Dropped => Dropped'
  BY <1>0, <1>2, OwnStay DEF Dropped
<1>9. ASSUME NEW k \in 0 .. Len(input), Place(k) PROVE Place(k)'
  BY <1>7, <1>9, TakePlace DEF Place
<1> QED BY <1>0, <1>1, <1>3, <1>4, <1>5, <1>6, <1>8, <1>9 DEF ReaderIInv

\* No byte is the content of two streams.
LEMMA BytesApart ==
    ASSUME InputOK, NEW t, NEW u, t # u
    PROVE  OwnBytes(t) \cap OwnBytes(u) = {}
<1> SUFFICES ASSUME NEW p \in OwnBytes(t), p \in OwnBytes(u) PROVE FALSE
  OBVIOUS
<1>1. PICK i \in OwnRecords(t) : p \in Start(i) + 1 .. Body(i)
  BY OwnFacts DEF Start, Body
<1>2. i \in 1 .. Len(input) /\ input[i].type = t
  BY OwnFacts
<1>3. p \in Int /\ Ends[i - 1] < p /\ p <= Ends[i]
  <2>1. /\ Ends[i - 1] \in Nat /\ Start(i) \in Nat /\ Body(i) \in Nat /\ Ends[i] \in Nat
        /\ Ends[i - 1] < Start(i) /\ Body(i) <= Ends[i]
    BY <1>2, SpanFacts
  <2> QED BY <1>1, <2>1
<1>4. i \in OwnRecords(u)
  BY <1>2, <1>3, RecordBytes
<1> QED BY <1>2, <1>4, OwnFacts

\* The bytes of a stream are numbered from 1.
LEMMA BytesPositive == ASSUME InputOK, NEW t, NEW p \in OwnBytes(t) PROVE p \in Nat /\ 1 <= p
<1>1. PICK i \in OwnRecords(t) : p \in Start(i) + 1 .. Body(i)
  BY OwnFacts DEF Start, Body
<1>2. Start(i) \in Nat /\ Body(i) \in Nat
  BY OwnFacts, SpanFacts
<1> QED BY <1>1, <1>2

\* What the stream has delivered once bytes were taken of it.
LEMMA TakeDelivers ==
    ASSUME PointerIInv, NothingMissing, Take, ~eorStop, DeliveredSet(type) \subseteq 1 .. rd
    PROVE  /\ DeliveredSet(type)' = DeliveredSet(type) \cup (rd + 1 .. rd')
           /\ Rising(delivered'[type])
<1>1. type \in StreamTypes /\ type' = type
  BY TakeStream DEF Take, current
<1>2. PICK m \in Nat : rd' = rd + m /\ delivered'[type] = delivered[type] \o NextBytes(m)
  BY TakeStream
<1>n. rd \in Nat
  BY Basics
<1> DEFINE s == delivered[type]
           u == delivered'[type]
           b == NextBytes(m)
<1>3. s \in Seq(1 .. Ends[Len(input)]) /\ Ends[Len(input)] \in Nat
  BY <1>1, Basics DEF DeliveredType
<1>4. Rising(s)
  BY <1>1 DEF NothingMissing, Rising
<1>5. Upto(s, rd)
  <2> SUFFICES ASSUME NEW i \in DOMAIN s PROVE s[i] <= rd
    BY DEF Upto
  <2>1. s[i] \in 1 .. rd
    BY DEF DeliveredSet
  <2> QED BY <1>n, <2>1
<1>6. u = s \o b /\ b = [i \in 1 .. m |-> rd + i]
  BY <1>2 DEF NextBytes
<1>7. DeliveredSet(type)' = {u[i] : i \in DOMAIN u} /\ DeliveredSet(type) = {s[i] : i \in DOMAIN s}
  BY <1>1 DEF DeliveredSet
<1> HIDE DEF s, u, b
<1>8. (\A x : In(x, u) <=> In(x, s) \/ x \in rd + 1 .. rd + m) /\ Rising(u)
  <2>1. \A N \in Nat : \A z \in Seq(1 .. N) : \A n, l \in Nat : \A c, w :
           Rising(z) /\ Upto(z, n) /\ c = [i \in 1 .. l |-> n + i] /\ w = z \o c =>
              (\A x : In(x, w) <=> In(x, z) \/ x \in n + 1 .. n + l) /\ Rising(w)
    BY NextTaken
  <2>2. \A n, l \in Nat : \A c, w :
           Rising(s) /\ Upto(s, n) /\ c = [i \in 1 .. l |-> n + i] /\ w = s \o c =>
              (\A x : In(x, w) <=> In(x, s) \/ x \in n + 1 .. n + l) /\ Rising(w)
    BY <1>3, <2>1
  <2>3. \A c, w :
           Rising(s) /\ Upto(s, rd) /\ c = [i \in 1 .. m |-> rd + i] /\ w = s \o c =>
              (\A x : In(x, w) <=> In(x, s) \/ x \in rd + 1 .. rd + m) /\ Rising(w)
    BY <1>n, <2>2
  <2> QED BY <1>4, <1>5, <1>6, <2>3
<1>9. DeliveredSet(type)' = DeliveredSet(type) \cup (rd + 1 .. rd')
  BY <1>2, <1>7, <1>8 DEF In
<1> QED BY <1>8, <1>9 DEF u

LEMMA TakeSomeReader ==
    ASSUME ReaderIInv, Take, ~eorStop, rd' # rd
    PROVE  ReaderIInv'
<1>p. /\ PointerIInv /\ NothingForeign /\ NothingMissing
      /\ EnvironmentWhole /\ WindowOwn /\ DataAhead /\ Request
  BY DEF ReaderIInv
<1>0. /\ UNCHANGED <<input, stop, stopUnget, contentLen, paddingLen, skip, type, isClosed,
                     FCGI_errno, headerLen, requestId, phase, replies>>
      /\ ~isClosed /\ rd' \in Nat /\ rd <= rd' /\ rd' <= stop
  BY TakeKeeps
<1>1. PointerIInv' /\ BeginRead' /\ RepliesDue' /\ HeadersAtRecordStarts'
  BY TakeKeeps
<1>2. /\ type \in StreamTypes /\ phase \in {"params", "stdin", "data"} /\ Reading
      /\ ~eorStop' /\ pc' \in {"app", "get", "fill"} /\ UNCHANGED isBeginProcessed
      /\ \A t \in StreamTypes \ {type} : delivered'[t] = delivered[t]
  BY <1>p, TakeStream
<1>n. InputOK /\ rd \in Nat /\ stop \in Nat /\ stopUnget \in Nat
  BY <1>p, Basics
<1>3. rd < rd' /\ rd < stop
  BY <1>0, <1>n
<1>4. Pushable
  BY <1>2, <1>3 DEF Pushable
<1>5. stopUnget <= rd
  BY <1>p, <1>4 DEF PointerIInv, Pointers
<1>6. PICK k \in 0 .. Len(input) : Place(k)
  BY <1>3, <1>n DEF ReaderIInv, Dropped
<1>7. rd + 1 .. rd' \subseteq OwnBytes(type)
  <2>1. rd + 1 .. rd' \subseteq stopUnget + 1 .. stop
    BY <1>0, <1>n, <1>5
  <2> QED BY <1>p, <1>4, <2>1 DEF WindowOwn
<1>8. DeliveredSet(type) = OwnBytes(type) \cap 1 .. rd
  BY <1>2, <1>6 DEF Place, UpToHere
<1>9. DeliveredSet(type)' = DeliveredSet(type) \cup (rd + 1 .. rd') /\ Rising(delivered'[type])
  BY <1>p, <1>8, TakeDelivers
<1>10. DeliveredSet(type)' = OwnBytes(type) \cap 1 .. rd'
  <2>1. 1 .. rd' = (1 .. rd) \cup (rd + 1 .. rd')
    BY <1>0, <1>n
  <2> QED BY <1>7, <1>8, <1>9, <2>1
<1>11. \A t \in StreamTypes \ {type} : DeliveredSet(t)' = DeliveredSet(t)
  BY <1>2 DEF DeliveredSet
<1>12. NothingForeign'
  <2> SUFFICES ASSUME NEW t \in StreamTypes PROVE DeliveredSet(t)' \subseteq OwnBytes(t)
    BY <1>0, OwnStay DEF NothingForeign
  <2>1. DeliveredSet(t) \subseteq OwnBytes(t)
    BY <1>p DEF NothingForeign
  <2>2. CASE t = type
    <3>1. DeliveredSet(t)' = DeliveredSet(type)'
      BY <1>0, <2>2
    <3> QED BY <1>10, <2>2, <3>1
  <2>3. CASE t # type
    BY <1>11, <2>1, <2>3
  <2> QED BY <2>2, <2>3
<1>13. NothingMissing'
  <2> SUFFICES ASSUME NEW t \in StreamTypes
               PROVE  /\ \A i, l \in DOMAIN delivered'[t] : i < l => delivered'[t][i] < delivered'[t][l]
                      /\ \A p \in OwnBytes(t) :
                            (\E q \in DeliveredSet(t)' : p < q) => p \in DeliveredSet(t)'
    BY <1>0, OwnStay DEF NothingMissing
  <2>1. /\ \A i, l \in DOMAIN delivered[t] : i < l => delivered[t][i] < delivered[t][l]
        /\ \A p \in OwnBytes(t) : (\E q \in DeliveredSet(t) : p < q) => p \in DeliveredSet(t)
    BY <1>p DEF NothingMissing
  <2>2. CASE t = type
    <3>1. DeliveredSet(t)' = DeliveredSet(type)'
      BY <1>0, <2>2
    <3>2. ASSUME NEW p \in OwnBytes(type), NEW q \in DeliveredSet(type)', p < q
          PROVE  p \in DeliveredSet(type)'
      <4>1. q \in 1 .. rd'
        BY <1>10
      <4>2. p \in Nat /\ 1 <= p
        BY <1>n, BytesPositive
      <4>3. p \in 1 .. rd'
        BY <1>0, <3>2, <4>1, <4>2
      <4> QED BY <1>10, <4>3
    <3> QED BY <1>9, <2>2, <3>1, <3>2 DEF Rising
  <2>3. CASE t # type
    BY <1>2, <1>11, <2>1, <2>3
  <2> QED BY <2>2, <2>3
<1>14. EnvironmentWhole'
  <2>1. rd \in Int /\ rd' \in Int /\ rd <= rd'
    BY <1>0, <1>n
  <2>2. Accepted' /\ FCGI_errno' = "none" =>
              Accepted /\ FCGI_errno = "none" /\ delivered'["PARAMS"] = delivered["PARAMS"]
    <3>1. Accepted => type # "PARAMS"
      BY <1>p DEF Accepted, PointerIInv, StreamOpen
    <3> QED BY <1>0, <1>2, <3>1 DEF Accepted, StreamTypes
  <2> QED BY <1>0, <1>n, <1>p, <2>1, <2>2, EnvironmentStays
<1>15. DataAhead'
  <2> SUFFICES ASSUME phase = "stdin", NEW p \in OwnBytes("DATA"), p \in 1 .. rd' PROVE FALSE
    BY <1>0, OwnStay DEF DataAhead
  <2>1. type = "STDIN" /\ p \notin 1 .. rd
    BY <1>p DEF PointerIInv, StreamOpen, DataAhead
  <2>2. p \in rd + 1 .. rd'
    BY <1>0, <1>n, <2>1
  <2>3. p \in OwnBytes("STDIN")
    BY <1>7, <2>1, <2>2
  <2>4. "DATA" # "STDIN"
    OBVIOUS
  <2> QED BY <1>n, <2>3, <2>4, BytesApart
<1>16. WindowOwn'
  BY <1>p, <1>0, <1>4, OwnStay DEF WindowOwn
<1>17. Request'
  BY <1>p, <1>0, <1>2 DEF Request
<1>18. UpToHere'
  BY <1>0, <1>10, OwnStay DEF UpToHere
<1>19. Place(k)'
  BY <1>6, <1>18, TakePlace DEF Place
<1> QED BY <1>0, <1>1, <1>12, <1>13, <1>14, <1>15, <1>16, <1>17, <1>19 DEF ReaderIInv

LEMMA TakeReader ==
    ASSUME ReaderIInv, Take, RequestScript(input)
    PROVE  ReaderIInv'
<1>1. CASE eorStop
  BY <1>1, TakeNestedReader
<1>2. CASE ~eorStop /\ rd' = rd
  <2>1. PointerIInv /\ rd \in Nat
    BY Basics DEF ReaderIInv
  <2>2. PICK m \in Nat : rd' = rd + m /\ (m = 0 => delivered' = delivered)
    BY <1>2, <2>1, TakeStream
  <2>3. m = 0
    BY <1>2, <2>1, <2>2
  <2> QED BY <1>2, <2>2, <2>3, TakeNoneReader
<1>3. CASE ~eorStop /\ rd' # rd
  BY <1>3, TakeSomeReader
<1> QED BY <1>1, <1>2, <1>3
-----------------------------------------------------------------------------
(* What follows from the invariant.                                         *)

LEMMA ReaderStep ==
    ASSUME ReaderIInv, RequestScript(input), [Next]_vars
    PROVE  ReaderIInv' \/ CutIInv'
<1>1. ASSUME Application PROVE ReaderIInv'
  BY <1>1, GetStrReader, UnGetCharReader, StartFilterDataReader DEF Application
<1>2. ASSUME Take \/ FillRead \/ FillDeliver \/ FillSkip \/ FillPadding \/ FillEndOfRecord
      PROVE  ReaderIInv' \/ CutIInv'
  BY <1>2, TakeReader, FillReadReader, FillDeliverReader, FillSkipReader,
     FillPaddingReader, FillEndOfRecordReader
<1>3. ASSUME FillHeaderPart \/ FillHeader \/ ValuesRead \/ NestedFails
      PROVE  ReaderIInv'
  BY <1>3, FillHeaderPartReader, FillHeaderReader, ValuesReadReader, NestedFailsReader
<1>4. ASSUME Begun \/ EnvironmentRead \/ TryAgain \/ GetEnds
      PROVE  ReaderIInv'
  BY <1>4, BegunReader, EnvironmentReadReader, CallReturnsReader
<1>5. CASE Next
  BY <1>1, <1>2, <1>3, <1>4, <1>5, FillReadReader DEF Next, Library
<1>6. CASE UNCHANGED vars
  BY <1>6, StutterReader
<1> QED BY <1>5, <1>6
-----------------------------------------------------------------------------
(* After a read that failed within a header.                                *)

\* Calls that return, and others that leave the streams alone.
LEMMA CutStays ==
    ASSUME CutIInv, PointerIInv',
           UNCHANGED <<input, rd, type, isClosed, headerLen, requestId, isBeginProcessed, replies, delivered>>,
           FCGI_errno' = FCGI_errno, pc' \in {"closed", "app"}, ~eorStop',
           phase' = phase \/ phase' = "failed"
    PROVE  CutIInv'
<1>p. /\ PointerIInv /\ NothingForeign /\ NothingMissing /\ HeadersAtRecordStarts
      /\ EnvironmentWhole /\ DataAhead /\ BeginRead /\ Request /\ RepliesDue /\ Cut
  BY DEF CutIInv
<1>1. NothingForeign' /\ NothingMissing'
  BY <1>p, StreamsStay
<1>2. BeginRead' /\ RepliesDue'
  <2>1. (rd - headerLen)' = rd - headerLen /\ rd - headerLen \in Int
    BY <1>p, Basics
  <2>2. (rd - headerLen)' \in Int /\ rd - headerLen <= (rd - headerLen)'
    BY <2>1
  <2> QED BY <1>p, <2>1, <2>2, Basics, BeginStays, RepliesStay
<1>3. EnvironmentWhole' /\ HeadersAtRecordStarts'
  BY <1>p DEF Cut, EnvironmentWhole, HeadersAtRecordStarts
<1>4. DataAhead'
  BY <1>p, OwnStay DEF DataAhead
<1>5. Request' /\ Cut'
  BY <1>p, OwnStay DEF Request, Cut
<1> QED BY <1>1, <1>2, <1>3, <1>4, <1>5 DEF CutIInv

\* A stream that is opened then has lost its place, and delivers only what it
\* reads from a record's start.
LEMMA CutOpens ==
    ASSUME CutIInv, PointerIInv', EnvironmentRead \/ (StartFilterData /\ ~isClosed')
    PROVE  ReaderIInv'
<1>p. /\ PointerIInv /\ NothingForeign /\ NothingMissing /\ HeadersAtRecordStarts
      /\ EnvironmentWhole /\ DataAhead /\ BeginRead /\ Request /\ RepliesDue /\ Cut
  BY DEF CutIInv
<1>0. /\ UNCHANGED <<input, rd, stopUnget, FCGI_errno, headerLen, requestId, isBeginProcessed,
                     replies, delivered>>
      /\ pc' = "app" /\ skip' = FALSE /\ contentLen' = 0 /\ paddingLen' = 0
      /\ stop' = rd /\ isClosed' = FALSE /\ Ends' = Ends
      /\ \/ Top.who = "params" /\ pc = "closed" /\ frames' = <<>> /\ phase' = "stdin" /\ type' = "STDIN"
         \/ Accepted /\ pc = "app" /\ frames' = frames /\ type = "STDIN" /\ phase' = "data" /\ type' = "DATA"
  BY EndsStay DEF EnvironmentRead, StartFilterData, SetReaderType, request
<1>n. InputOK /\ rd \in Nat /\ HeaderLen \in Nat /\ headerLen = 0
  BY <1>p, Basics DEF Cut, PointerIInv, Pointers
<1>1. \/ phase = "params" /\ phase' = "stdin" /\ type' = "STDIN" /\ delivered["STDIN"] = <<>>
         /\ isBeginProcessed
      \/ phase = "stdin" /\ phase' = "data" /\ type' = "DATA" /\ delivered["DATA"] = <<>>
  <2>1. CASE Top.who = "params" /\ pc = "closed" /\ phase' = "stdin" /\ type' = "STDIN"
    <3>1. phase = "params"
      <4>1. ~eorStop
        BY <1>p DEF Cut
      <4> QED BY <1>p, <2>1, <4>1, FrameFacts DEF PointerIInv, Stages, Flags
    <3> QED BY <1>p, <2>1, <3>1 DEF PointerIInv, StreamOpen, Stages
  <2>2. CASE Accepted /\ type = "STDIN" /\ phase' = "data" /\ type' = "DATA"
    BY <1>p, <2>2 DEF PointerIInv, StreamOpen, Accepted
  <2> QED BY <1>0, <2>1, <2>2
<1>2. OwnBytes(type)' \cap 1 .. rd = {} /\ delivered'[type'] = <<>>
  <2>1. CASE phase = "params" /\ type' = "STDIN" /\ delivered["STDIN"] = <<>>
    <3>1. OwnBytes(type)' = OwnBytes("STDIN")
      BY <1>0, <2>1, OwnStay
    <3> QED BY <1>p, <1>0, <2>1, <3>1 DEF Cut
  <2>2. CASE phase = "stdin" /\ type' = "DATA" /\ delivered["DATA"] = <<>>
    <3>1. OwnBytes(type)' = OwnBytes("DATA")
      BY <1>0, <2>2, OwnStay
    <3> QED BY <1>p, <1>0, <2>2, <3>1 DEF DataAhead
  <2> QED BY <1>1, <2>1, <2>2
<1>3. phase' = "stdin" => OwnBytes("DATA")' \cap 1 .. rd + HeaderLen = {}
  BY <1>p, <1>0, <1>1, OwnStay DEF Cut
<1>4. NothingForeign' /\ NothingMissing'
  BY <1>p, <1>0, StreamsStay
<1>5. BeginRead' /\ RepliesDue'
  <2>1. (rd - headerLen)' = rd - headerLen /\ rd - headerLen \in Int
    BY <1>p, <1>0, Basics
  <2>2. (rd - headerLen)' \in Int /\ rd - headerLen <= (rd - headerLen)'
    BY <2>1
  <2> QED BY <1>p, <1>0, <2>1, <2>2, Basics, BeginStays, RepliesStay
<1>6. EnvironmentWhole' /\ HeadersAtRecordStarts'
  BY <1>p, <1>0 DEF Cut, EnvironmentWhole, HeadersAtRecordStarts
<1>7. DataAhead'
  <2>1. 1 .. rd \subseteq 1 .. rd + HeaderLen
    BY <1>n
  <2> QED BY <1>0, <1>1, <1>3, <2>1 DEF DataAhead
<1>8. WindowOwn'
  BY <1>0, <1>1, <1>n DEF WindowOwn, Pushable
<1>9. ~eorStop'
  <2>1. pc' = "app"
    BY <1>0
  <2> QED BY <2>1 DEF PointerIInv, Stages, eorStop
<1>10. Request'
  BY <1>p, <1>0, <1>1 DEF Request
<1>11. Dropped'
  <2>1. rd' - headerLen' = rd /\ stop' <= rd'
    BY <1>0, <1>n
  <2> QED BY <1>p, <1>0, <1>1, <1>2, <1>3, <1>9, <2>1 DEF Dropped, Cut
<1> QED BY <1>4, <1>5, <1>6, <1>7, <1>8, <1>10, <1>11 DEF ReaderIInv

LEMMA CutStep ==
    ASSUME CutIInv, [Next]_vars
    PROVE  ReaderIInv' \/ CutIInv'
<1>p. PointerIInv /\ Cut /\ Request
  BY DEF CutIInv
<1>0. pc \in {"closed", "app"} /\ isClosed /\ ~eorStop /\ FCGI_errno # "none"
  BY <1>p DEF Cut
<1>1. PointerIInv'
  BY <1>p, PointerStep
<1>2. CASE TryAgain \/ GetEnds
  <2>1. /\ UNCHANGED <<input, rd, type, isClosed, headerLen, requestId, isBeginProcessed, replies, delivered>>
        /\ FCGI_errno' = FCGI_errno /\ pc' = "app" /\ frames' = <<>>
        /\ phase' = phase \/ phase' = "failed"
    BY <1>2 DEF TryAgain, GetEnds, position, current, request
  <2>2. ~eorStop'
    BY <2>1 DEF eorStop
  <2> QED BY <1>1, <2>1, <2>2, CutStays
<1>3. CASE EnvironmentRead \/ (StartFilterData /\ ~isClosed')
  BY <1>1, <1>3, CutOpens
<1>4. CASE StartFilterData /\ isClosed'
  <2>1. /\ UNCHANGED <<input, rd, type, isClosed, headerLen, requestId, isBeginProcessed, replies, delivered>>
        /\ FCGI_errno' = FCGI_errno /\ pc' = "app" /\ frames' = frames /\ phase' = phase
    BY <1>0, <1>4 DEF StartFilterData, SetReaderType, FirstError, current, request
  <2>2. ~eorStop'
    BY <1>0, <2>1 DEF eorStop
  <2> QED BY <1>1, <2>1, <2>2, CutStays
<1>5. CASE UNCHANGED vars
  <2>1. /\ UNCHANGED <<input, rd, type, isClosed, headerLen, requestId, isBeginProcessed, replies, delivered>>
        /\ FCGI_errno' = FCGI_errno /\ pc' = pc /\ frames' = frames /\ phase' = phase
    BY <1>5 DEF vars, position, current, request
  <2>2. ~eorStop'
    BY <1>0, <2>1 DEF eorStop
  <2> QED BY <1>0, <1>1, <2>1, <2>2, CutStays
<1>6. ASSUME Next, ~(TryAgain \/ GetEnds \/ EnvironmentRead \/ StartFilterData)
      PROVE  FALSE
  BY <1>0, <1>6 DEF Next, Application, Library, GetStr, UnGetChar, Take, FillRead, ReadFails,
     FillDeliver, FillSkip, FillPadding, FillEndOfRecord, FillHeaderPart, FillHeader,
     ValuesRead, NestedFails, Begun
<1> QED BY <1>2, <1>3, <1>4, <1>5, <1>6

\* What a stream that ended without an error has delivered.
LEMMA WholeStream ==
    ASSUME PointerIInv, BeginRead, RequestScript(input), NEW k \in 0 .. Len(input),
           At(k), Content(k), UpToHere, isClosed, FCGI_errno = "none", ~eorStop,
           type \in StreamTypes, requestId # 0, headerLen = 0
    PROVE  DeliveredSet(type) = OwnBytes(type) /\ EndRead(type)
<1>n. InputOK /\ rd \in Nat
  BY Basics
<1>1. /\ contentLen = 0 /\ paddingLen = 0 /\ stop <= rd
      /\ k \in OwnRecords(type) /\ input[k].len = 0
  BY DEF Content
<1>2. rd = Ends[k] /\ Ready = rd
  BY <1>1, AtEndOfStream
<1>3. k \in 1 .. Len(input) /\ Start(k) \in Nat /\ Start(k) <= rd
  <2>1. k \in 1 .. Len(input)
    BY <1>n, <1>1, OwnFacts
  <2>2. Start(k) \in Nat /\ Body(k) \in Nat /\ Start(k) <= Body(k) /\ Body(k) <= Ends[k]
    BY <1>n, <2>1, SpanFacts
  <2> QED BY <1>n, <1>2, <2>1, <2>2
<1>4. OwnBytes(type) \subseteq 1 .. rd
  <2> SUFFICES ASSUME NEW q \in OwnBytes(type) PROVE q \in 1 .. rd
    OBVIOUS
  <2>1. PICK i \in OwnRecords(type) : q \in Start(i) + 1 .. Body(i)
    BY <1>n, OwnFacts DEF Start, Body
  <2>2. i \in 1 .. Len(input) /\ i \in 0 .. Len(input) /\ Start(i) \in Nat /\ Body(i) \in Nat
        /\ Ends[i] \in Nat /\ Body(i) <= Ends[i]
    BY <1>n, OwnFacts, SpanFacts
  <2>3. PICK b \in 1 .. Len(input) : IsFirst(input, b) /\ requestId = input[b].id
    BY DEF BeginRead
  <2>4. ~(k < i)
    BY <1>n, <1>1, <2>3, OwnAfter
  <2>5. i <= k
    BY <1>3, <2>2, <2>4
  <2>6. Ends[i] <= Ends[k]
    BY <1>n, <2>2, <2>5, EndsMonotone
  <2> QED BY <1>n, <1>2, <2>1, <2>2, <2>6
<1>5. DeliveredSet(type) = OwnBytes(type)
  BY <1>4 DEF UpToHere
<1>6. EndRead(type)
  BY <1>1, <1>3 DEF EndRead, Start
<1> QED BY <1>5, <1>6

LEMMA ReaderDelivers ==
    ASSUME ReaderIInv, RequestScript(input)
    PROVE  DeliversOwnContent /\ EofMeansAll
<1>p. PointerIInv /\ BeginRead /\ Request
  BY DEF ReaderIInv
<1>1. DeliversOwnContent /\ EnvironmentWhole
  BY DEF ReaderIInv, DeliversOwnContent
<1>2. InputWhole
  <2> SUFFICES ASSUME pc = "app", Accepted, isClosed, FCGI_errno = "none"
               PROVE  DeliveredSet(type) = OwnBytes(type) /\ EndRead(type)
    BY DEF InputWhole
  <2>1. ~eorStop /\ headerLen = 0 /\ type \in StreamTypes /\ requestId # 0
    BY <1>p, Basics DEF PointerIInv, Stages, Pointers, StreamOpen, StreamTypes, Request,
          Accepted, eorStop
  <2>2. PICK k \in 0 .. Len(input) : Place(k)
    BY DEF ReaderIInv, Dropped
  <2> QED BY <1>p, <2>1, <2>2, WholeStream DEF Place
<1> QED BY <1>1, <1>2 DEF EofMeansAll

LEMMA CutDelivers == ASSUME CutIInv PROVE DeliversOwnContent /\ EofMeansAll
  BY DEF CutIInv, Cut, DeliversOwnContent, EofMeansAll, InputWhole

\* What has been answered is a record whose header has been read.
LEMMA AnswersDue ==
    ASSUME PointerIInv, RepliesDue, NEW l \in DOMAIN replies, NEW i, i = replies[l][2]
    PROVE  /\ Due(i) /\ replies[l][1] = Answer(i)
           /\ Ends[i - 1] + HeaderLen <= rd
           /\ \A m \in DOMAIN replies : l < m => i < replies[m][2]
<1>n. InputOK /\ rd \in Nat /\ headerLen \in Nat
  BY Basics
<1>1. /\ Due(i) /\ replies[l][1] = Answer(i)
      /\ Start(i) <= rd - headerLen
      /\ \A m \in DOMAIN replies : l < m => i < replies[m][2]
  BY DEF RepliesDue, Start
<1>2. i \in 1 .. Len(input)
  BY DEF PointerIInv, RepliesType
<1>3. Start(i) \in Nat
  BY <1>n, <1>2, SpanFacts
<1>4. Start(i) <= rd
  BY <1>n, <1>1, <1>3
<1> QED BY <1>1, <1>4 DEF Start

LEMMA ReaderAnswers ==
    ASSUME ReaderIInv
    PROVE  RepliesInOrder
<1>p. PointerIInv /\ RepliesDue
  BY DEF ReaderIInv
<1>n. InputOK /\ rd \in Nat /\ stop \in Nat /\ headerLen \in Nat /\ Len(input) \in Nat
  BY <1>p, Basics
<1>2. ASSUME pc = "app", Accepted, FCGI_errno = "none",
             NEW i \in 1 .. Len(input), Due(i), Ends[i] <= rd
      PROVE  \E l \in DOMAIN replies : replies[l][2] = i
  <2>1. ~eorStop /\ headerLen = 0
    BY <1>p, <1>2, Basics DEF PointerIInv, Stages, Pointers, Accepted, eorStop
  <2>2. PICK k \in 0 .. Len(input) : Place(k)
    BY <1>2 DEF ReaderIInv, Dropped
  <2>3. rd <= Ends[k]
    <3>1. Ready + contentLen + paddingLen = Ends[k] + headerLen /\ Ends[k] \in Nat
      BY <1>p, <2>2, Basics DEF Place, At
    <3>2. contentLen \in Nat /\ paddingLen \in Nat /\ Ready \in Nat /\ rd <= Ready
      BY <1>p, <1>n, Basics DEF Ready
    <3> QED BY <1>n, <2>1, <3>1, <3>2
  <2>4. i \in 1 .. k
    <3>1. ~(k < i)
      <4>1. SUFFICES ASSUME k < i PROVE FALSE
        OBVIOUS
      <4>2. /\ Ends[k] + HeaderLen <= Start(i) /\ Start(i) \in Nat /\ Ends[i] \in Nat
            /\ Start(i) <= Body(i) /\ Body(i) <= Ends[i] /\ Body(i) \in Nat
        BY <1>n, <4>1, Behind, SpanFacts
      <4>3. Ends[k] \in Nat /\ HeaderLen \in Nat /\ HeaderLen > 0
        BY <1>p, Basics
      <4> QED BY <1>n, <1>2, <2>3, <4>2, <4>3
    <3> QED BY <1>n, <3>1
  <2> QED BY <1>2, <2>1, <2>2, <2>4 DEF Place, AllAnswered
<1> QED BY <1>p, <1>2, AnswersDue DEF RepliesInOrder

LEMMA CutAnswers == ASSUME CutIInv PROVE RepliesInOrder
<1>1. PointerIInv /\ RepliesDue /\ FCGI_errno # "none"
  BY DEF CutIInv, Cut
<1> QED BY <1>1, AnswersDue DEF RepliesInOrder

LEMMA ScriptKept == ASSUME RequestScripts, ReaderIInv \/ CutIInv PROVE RequestScript(input)
  BY DEF RequestScripts, ReaderIInv, CutIInv, PointerIInv

\* On a connection whose web server keeps to its side, the application gets
\* the content of its own streams, in order and with no gap, however OS_Read
\* cuts it; an end of file without an error is the whole stream, and a
\* request accepted without an error has its whole environment.
\* (FillBuffProc, ProcessHeader, FCGX_GetStr, SetReaderType.)
THEOREM DeliveryCorrect == ASSUME RequestScripts PROVE Spec => []DeliveryInv
<1>1. Init => ReaderIInv
  BY InitReader
<1>2. (ReaderIInv \/ CutIInv) /\ [Next]_vars => (ReaderIInv \/ CutIInv)'
  BY ReaderStep, CutStep, ScriptKept
<1>3. ReaderIInv \/ CutIInv => DeliversOwnContent /\ EofMeansAll
  BY ReaderDelivers, CutDelivers, ScriptKept
<1> QED BY <1>1, <1>2, <1>3, TypeCorrect, PTL DEF Spec, DeliveryInv

\* On such a connection every management record and every attempt to
\* multiplex is answered once, in order and with the right answer.
\* (ProcessManagementRecord, ProcessBeginRecord.)
THEOREM RepliesCorrect == ASSUME RequestScripts PROVE Spec => []RepliesInOrder
<1>1. Init => ReaderIInv
  BY InitReader
<1>2. (ReaderIInv \/ CutIInv) /\ [Next]_vars => (ReaderIInv \/ CutIInv)'
  BY ReaderStep, CutStep, ScriptKept
<1>3. ReaderIInv \/ CutIInv => RepliesInOrder
  BY ReaderAnswers, CutAnswers
<1> QED BY <1>1, <1>2, <1>3, PTL DEF Spec
================================================================================
