------------------------- MODULE FcgiInterfacesProofs ------------------------
(***************************************************************************)
(* Proofs about FcgiInterfaces.  Each interface has an inductive invariant *)
(* of its own; what is done through the others leaves its variables alone. *)
(***************************************************************************)
EXTENDS FcgiInterfaces, Integers, Sequences, WellFoundedInduction, TLAPS

\* The least element of a set of natural numbers.
LEMMA LeastNat ==
  ASSUME NEW S \in SUBSET Nat, S # {}
  PROVE  \E x \in S : \A y \in S : x <= y
  <1> DEFINE R == OpToRel(<, Nat)
  <1>1. IsWellFoundedOn(R, Nat)
    BY NatLessThanWellFounded
  <1>2. PICK x \in S : \A y \in S : <<y, x>> \notin R
    <2> HIDE DEF R
    <2> QED BY <1>1, WFMin
  <1>3. \A y \in S : ~ (y < x)
    BY <1>2 DEF OpToRel
  <1> QED BY <1>3
-----------------------------------------------------------------------------
(* FcgiParams.                                                             *)

\* The vector is what was sent, and its NULL; the place of that is counted.
Pair == Names \X Values
NameValueAt(i) == Params!NameValue(sent[i][1], sent[i][2])
ParamsIInv ==
    /\ sent \in Seq(Pair) /\ Len(sent) <= MaxParams
    /\ length \in Nat /\ Len(sent) + 1 <= length
    /\ vec = [i \in 1 .. Len(sent) + 1 |-> IF i <= Len(sent) THEN NameValueAt(i) ELSE NULL]

LEMMA Texts ==
  ASSUME NEW name \in Names, NEW value \in Values
  PROVE  LET text == Params!NameValue(name, value) IN
         /\ name \in Seq(Characters) /\ value \in Seq(Characters) /\ text \in Seq(Characters)
         /\ text # NULL
         /\ Len(text) = Len(name) + 1 + Len(value)
         /\ \A i \in 1 .. Len(name) : text[i] = name[i] /\ name[i] # Equals
         /\ text[Len(name) + 1] = Equals
         /\ \A i \in 1 .. Len(value) : text[Len(name) + 1 + i] = value[i]
  <1> DEFINE text == Params!NameValue(name, value)
  <1>1. /\ name \in Seq(Characters) /\ value \in Seq(Characters) /\ Equals \in Characters
        /\ NULL \notin Seq(Characters) /\ \A i \in DOMAIN name : name[i] # Equals
    BY InterfacesAssumption DEF Params!ParamsAssumption
  <1>2. text = name \o <<Equals>> \o value
    BY DEF Params!NameValue
  <1>3. \A s, t \in Seq(Characters) :
           /\ s \o t \in Seq(Characters) /\ Len(s \o t) = Len(s) + Len(t)
           /\ \A i \in 1 .. Len(s) : (s \o t)[i] = s[i]
           /\ \A i \in 1 .. Len(t) : (s \o t)[Len(s) + i] = t[i]
    OBVIOUS
  <1>4. /\ <<Equals>> \in Seq(Characters) /\ Len(<<Equals>>) = 1 /\ <<Equals>>[1] = Equals
    BY <1>1
  <1> DEFINE head == name \o <<Equals>>
  <1>5. /\ head \in Seq(Characters) /\ Len(head) = Len(name) + 1 /\ head[Len(name) + 1] = Equals
        /\ \A i \in 1 .. Len(name) : head[i] = name[i]
    BY <1>1, <1>3, <1>4
  <1>6. Len(name) \in Nat /\ Len(value) \in Nat /\ DOMAIN name = 1 .. Len(name)
    BY <1>1
  <1> HIDE DEF head
  <1>7. /\ text = head \o value
    BY <1>2 DEF head
  <1> HIDE DEF text
  <1>8. /\ text \in Seq(Characters) /\ Len(text) = Len(head) + Len(value)
        /\ \A i \in 1 .. Len(head) : text[i] = head[i]
        /\ \A i \in 1 .. Len(value) : text[Len(head) + i] = value[i]
    BY <1>1, <1>3, <1>5, <1>7
  <1>9. /\ text \in Seq(Characters) /\ text # NULL /\ Len(text) = Len(name) + 1 + Len(value)
        /\ \A i \in 1 .. Len(name) : text[i] = name[i] /\ name[i] # Equals
        /\ text[Len(name) + 1] = Equals
        /\ \A i \in 1 .. Len(value) : text[Len(name) + 1 + i] = value[i]
    <2>1. \A i \in 1 .. Len(name) : i \in 1 .. Len(head) /\ i \in DOMAIN name
      BY <1>5, <1>6
    <2>2. Len(name) + 1 \in 1 .. Len(head)
      BY <1>5, <1>6
    <2>3. \A i \in 1 .. Len(name) : text[i] = name[i] /\ name[i] # Equals
      BY <1>1, <1>5, <1>8, <2>1
    <2>4. text[Len(name) + 1] = Equals
      BY <1>5, <1>8, <2>2
    <2>5. /\ Len(text) = Len(name) + 1 + Len(value)
          /\ \A i \in 1 .. Len(value) : text[Len(name) + 1 + i] = value[i]
      BY <1>5, <1>8
    <2> QED BY <1>1, <1>8, <2>3, <2>4, <2>5
  <1> QED BY <1>1, <1>9 DEF text

(* A text begins with a name and a '=' if it was made from that name.      *)
LEMMA BeginsWithItsName ==
  ASSUME NEW name \in Names, NEW other \in Names, NEW value \in Values
  PROVE  Params!IsPrefix(Append(name, Equals), Params!NameValue(other, value)) <=> name = other
  <1> DEFINE text == Params!NameValue(other, value)
             key == Append(name, Equals)
  <1>1. /\ name \in Seq(Characters) /\ other \in Seq(Characters) /\ value \in Seq(Characters)
        /\ \A i \in 1 .. Len(name) : name[i] # Equals
        /\ text \in Seq(Characters)
        /\ Len(text) = Len(other) + 1 + Len(value)
        /\ \A i \in 1 .. Len(other) : text[i] = other[i] /\ other[i] # Equals
        /\ text[Len(other) + 1] = Equals
    BY Texts
  <1>2. Len(name) \in Nat /\ Len(other) \in Nat /\ Len(value) \in Nat
    BY <1>1
  <1>3. /\ key \in Seq(Characters) /\ Len(key) = Len(name) + 1 /\ key[Len(name) + 1] = Equals
        /\ \A i \in 1 .. Len(name) : key[i] = name[i]
    BY <1>1, InterfacesAssumption DEF Params!ParamsAssumption
  <1> HIDE DEF text, key
  <1>4. Params!IsPrefix(key, text)
           <=> Len(key) <= Len(text) /\ \A i \in 1 .. Len(key) : key[i] = text[i]
    <2>1. SubSeq(key, 1, Len(key)) = [i \in 1 .. Len(key) |-> key[i]]
      BY <1>3
    <2>2. SubSeq(text, 1, Len(key)) = [i \in 1 .. Len(key) |-> text[i]]
      BY <1>1, <1>2, <1>3
    <2>3. [i \in 1 .. Len(key) |-> key[i]] = [i \in 1 .. Len(key) |-> text[i]]
             <=> \A i \in 1 .. Len(key) : key[i] = text[i]
      OBVIOUS
    <2> QED BY <2>1, <2>2, <2>3 DEF Params!IsPrefix
  <1>5. ASSUME name = other PROVE Params!IsPrefix(key, text)
    BY <1>1, <1>2, <1>3, <1>4, <1>5
  <1>6. ASSUME Params!IsPrefix(key, text) PROVE name = other
    <2>1. Len(name) + 1 <= Len(text) /\ \A i \in 1 .. Len(name) + 1 : key[i] = text[i]
      BY <1>3, <1>4, <1>6
    <2>2. ~ (Len(name) < Len(other))
      BY <1>1, <1>2, <1>3, <2>1
    <2>3. ~ (Len(other) < Len(name))
      <3> SUFFICES ASSUME Len(other) < Len(name) PROVE FALSE
        OBVIOUS
      <3>1. Len(other) + 1 \in 1 .. Len(name) /\ Len(other) + 1 \in 1 .. Len(name) + 1
        BY <1>2
      <3>2. key[Len(other) + 1] = name[Len(other) + 1] /\ name[Len(other) + 1] # Equals
        BY <1>1, <1>3, <3>1
      <3> QED BY <1>1, <2>1, <3>1, <3>2
    <2>4. Len(name) = Len(other) /\ \A i \in 1 .. Len(name) : name[i] = other[i]
      BY <1>1, <1>2, <1>3, <2>1, <2>2, <2>3
    <2> QED BY <1>1, <2>4
  <1> QED BY <1>5, <1>6 DEF text, key

(* What PutParam does to the vector.                                       *)
LEMMA PutParamStep ==
  ASSUME ParamsIInv, Params!Next
  PROVE  ParamsIInv'
  <1>1. PICK name \in Names, value \in Values : Params!PutParam(name, value)
    BY DEF Params!Next
  <1> PICK n \in Nat : n = Len(sent)
    BY DEF ParamsIInv
  <1> DEFINE text == Params!NameValue(name, value)
             pair == <<name, value>>
  <1>2. /\ n < MaxParams /\ sent' = Append(sent, pair)
        /\ vec' = Append(Params!Front(vec), text) \o <<NULL>>
        /\ length' = IF n + 1 >= length THEN 2 * length ELSE length
    BY <1>1 DEF Params!PutParam, Params!Put
  <1>3. length \in Nat /\ n + 1 <= length /\ MaxParams \in Nat /\ sent \in Seq(Pair)
    BY InterfacesAssumption DEF ParamsIInv, Params!ParamsAssumption
  <1>4. /\ sent' \in Seq(Pair) /\ Len(sent') = n + 1 /\ sent'[n + 1] = pair
        /\ \A i \in 1 .. n : sent'[i] = sent[i]
    BY <1>2, <1>3 DEF Pair
  <1>5. Len(sent') <= MaxParams /\ length' \in Nat /\ Len(sent') + 1 <= length'
    BY <1>2, <1>3, <1>4
  <1> DEFINE Entry == Seq(Characters) \cup {NULL}
             front == [i \in 1 .. n |-> NameValueAt(i)]
  <1>6. \A i \in 1 .. n : NameValueAt(i) \in Entry
    <2> SUFFICES ASSUME NEW i \in 1 .. n PROVE NameValueAt(i) \in Seq(Characters)
      OBVIOUS
    <2>1. sent[i] \in Pair
      BY <1>3
    <2>2. sent[i][1] \in Names /\ sent[i][2] \in Values
      BY <2>1 DEF Pair
    <2> QED BY <2>2, Texts DEF NameValueAt
  <1>7. text \in Entry /\ NULL \in Entry
    BY Texts
  <1> HIDE DEF Entry, text
  <1>8. vec \in Seq(Entry) /\ Len(vec) = n + 1 /\ \A i \in 1 .. n : vec[i] = NameValueAt(i)
    <2>1. vec = [i \in 1 .. n + 1 |-> IF i <= n THEN NameValueAt(i) ELSE NULL]
      BY DEF ParamsIInv
    <2>2. vec \in [1 .. n + 1 -> Entry]
      BY <2>1, <1>6, <1>7
    <2>3. vec \in Seq(Entry) /\ Len(vec) = n + 1
      BY <2>2
    <2>4. \A i \in 1 .. n : vec[i] = NameValueAt(i)
      <3> HIDE DEF NameValueAt
      <3> QED BY <2>1
    <2> QED BY <2>3, <2>4
  <1>9. Params!Front(vec) = front
    <2>1. SubSeq(vec, 1, n) = [i \in 1 .. n |-> vec[i]]
      BY <1>3, <1>8
    <2> QED BY <1>3, <1>8, <2>1 DEF Params!Front
  <1>10. front \in Seq(Entry) /\ Len(front) = n
    BY <1>3, <1>6
  <1> HIDE DEF front
  <1>11. Append(front, text) \in Seq(Entry) /\ Len(Append(front, text)) = n + 1
    BY <1>7, <1>10
  <1>12. /\ vec' \in Seq(Entry) /\ Len(vec') = n + 2
         /\ vec'[n + 1] = text /\ vec'[n + 2] = NULL /\ \A i \in 1 .. n : vec'[i] = front[i]
    <2> DEFINE more == Append(front, text)
    <2>1. more \in Seq(Entry) /\ Len(more) = n + 1 /\ more[n + 1] = text /\ \A i \in 1 .. n : more[i] = front[i]
      BY <1>3, <1>7, <1>10, <1>11
    <2>2. vec' = more \o <<NULL>> /\ <<NULL>> \in Seq(Entry) /\ Len(<<NULL>>) = 1
      BY <1>2, <1>7, <1>9
    <2> HIDE DEF more
    <2> QED BY <2>1, <2>2
  <1>13. vec' = [i \in 1 .. Len(sent') + 1 |-> IF i <= Len(sent') THEN NameValueAt(i)' ELSE NULL]
    <2>1. Len(sent') = n + 1
      BY <1>4
    <2>2. \A i \in 1 .. n : vec'[i] = NameValueAt(i)'
      BY <1>4, <1>12 DEF front, NameValueAt
    <2>3. vec'[n + 1] = NameValueAt(n + 1)'
      BY <1>4, <1>12 DEF NameValueAt, text
    <2>4. vec' = [i \in 1 .. n + 2 |-> vec'[i]]
      BY <1>12, <2>1
    <2>5. \A i \in 1 .. n + 2 : vec'[i] = IF i <= n + 1 THEN NameValueAt(i)' ELSE NULL
      BY <1>12, <2>1, <2>2, <2>3
    <2> QED BY <2>1, <2>4, <2>5
  <1> QED BY <1>4, <1>5, <1>13 DEF ParamsIInv

(* The vector finds a name where it was sent.                              *)
LEMMA ParamsFound ==
  ASSUME ParamsIInv
  PROVE  ParamsInv
  <1> DEFINE n == Len(sent)
  <1>1. /\ n \in Nat /\ length \in Nat /\ n + 1 <= length /\ sent \in Seq(Pair)
        /\ vec = [i \in 1 .. n + 1 |-> IF i <= n THEN NameValueAt(i) ELSE NULL]
    BY DEF ParamsIInv
  <1>2. \A i \in 1 .. n : sent[i][1] \in Names /\ sent[i][2] \in Values
    <2> SUFFICES ASSUME NEW i \in 1 .. n PROVE sent[i][1] \in Names /\ sent[i][2] \in Values
      OBVIOUS
    <2>1. sent[i] \in Pair
      BY <1>1
    <2> QED BY <2>1 DEF Pair
  <1>3. \A i \in 1 .. n : NameValueAt(i) # NULL
    BY <1>2, Texts DEF NameValueAt
  <1>4. Len(vec) = n + 1 /\ DOMAIN vec = 1 .. n + 1
    <2> DEFINE S == {vec[i] : i \in 1 .. n + 1}
    <2>1. n + 1 \in Nat /\ vec \in [1 .. n + 1 -> S]
      <3> HIDE DEF n, NameValueAt
      <3> DEFINE f(i) == IF i <= n THEN NameValueAt(i) ELSE NULL
      <3>1. n + 1 \in Nat /\ vec = [i \in 1 .. n + 1 |-> f(i)]
        BY <1>1
      <3> HIDE DEF f
      <3> QED BY <3>1
    <2> HIDE DEF S, n
    <2> QED BY <2>1
  <1>5. Params!HasRoom
    <2> HIDE DEF n
    <2> QED BY <1>1, <1>3, <1>4 DEF Params!HasRoom
  <1>6. ASSUME NEW name \in Names
        PROVE  LET of == {i \in DOMAIN sent : sent[i][1] = name}
               IN  Params!GetParam(name) = IF of = {} THEN NULL ELSE sent[Params!Min(of)][2]
    <2> DEFINE of == {i \in DOMAIN sent : sent[i][1] = name}
               found == {i \in 1 .. Len(vec) - 1 : Params!IsPrefix(Append(name, Equals), vec[i])}
               m == Params!Min(of)
    <2>1. found = of
      <3>1. Len(vec) - 1 = n /\ DOMAIN sent = 1 .. n
        BY <1>1, <1>4
      <3>2. ASSUME NEW i \in 1 .. n
            PROVE  Params!IsPrefix(Append(name, Equals), vec[i]) <=> sent[i][1] = name
        <4>1. vec[i] = Params!NameValue(sent[i][1], sent[i][2])
          <5> HIDE DEF n
          <5> QED BY <1>1 DEF NameValueAt
        <4> QED BY <1>2, <4>1, BeginsWithItsName
      <3> QED BY <3>1, <3>2
    <2>2. Params!GetParam(name) = IF of = {} THEN NULL ELSE SubSeq(vec[m], Len(name) + 2, Len(vec[m]))
      BY <2>1 DEF Params!GetParam
    <2>3. CASE of = {}
      BY <2>2, <2>3
    <2>4. CASE of # {}
      <3>1. \E i \in of : \A j \in of : i <= j
        <4>1. of \in SUBSET Nat
          BY <1>1
        <4> QED BY <2>4, <4>1, LeastNat
      <3>2. m \in of
        <4> HIDE DEF of
        <4> QED BY <3>1 DEF Params!Min
      <3>3. m \in 1 .. n /\ sent[m][1] = name
        BY <1>1, <3>2
      <3> HIDE DEF m, of
      <3> DEFINE value == sent[m][2]
                 text == Params!NameValue(name, value)
      <3>4. value \in Values /\ vec[m] = text
        <4> HIDE DEF n
        <4> QED BY <1>1, <1>2, <3>3 DEF NameValueAt
      <3>5. /\ name \in Seq(Characters) /\ value \in Seq(Characters) /\ text \in Seq(Characters)
            /\ Len(text) = Len(name) + 1 + Len(value)
            /\ \A i \in 1 .. Len(value) : text[Len(name) + 1 + i] = value[i]
        BY <3>4, Texts
      <3> HIDE DEF value, text
      <3>6. Len(name) \in Nat /\ Len(value) \in Nat
        BY <3>5
      <3>7. SubSeq(text, Len(name) + 2, Len(text)) = value
        <4> DEFINE rest == SubSeq(text, Len(name) + 2, Len(text))
        <4>1. rest \in Seq(Characters) /\ Len(rest) = Len(value)
          BY <3>5, <3>6
        <4>2. \A i \in 1 .. Len(value) : rest[i] = text[Len(name) + 1 + i]
          BY <3>5, <3>6
        <4> HIDE DEF rest
        <4>3. \A s, t \in Seq(Characters) :
                 Len(s) = Len(t) /\ (\A i \in 1 .. Len(t) : s[i] = t[i]) => s = t
          OBVIOUS
        <4>4. \A i \in 1 .. Len(value) : rest[i] = value[i]
          BY <3>5, <4>2
        <4> QED BY <3>5, <4>1, <4>3, <4>4 DEF rest
      <3> QED BY <2>2, <2>4, <3>4, <3>7 DEF value, m, of
    <2> QED BY <2>3, <2>4
  <1> QED BY <1>5, <1>6 DEF ParamsInv, Params!ParamsInv, Params!FindsOwn

LEMMA ParamsKept ==
  ASSUME ParamsIInv, UNCHANGED paramsVars
  PROVE  ParamsIInv'
  BY DEF ParamsIInv, NameValueAt, paramsVars

LEMMA ParamsInitial ==
  ASSUME Params!Init
  PROVE  ParamsIInv
  <1>1. length \in Nat \ {0} /\ vec = <<NULL>> /\ sent = <<>> /\ MaxParams \in Nat
    BY InterfacesAssumption DEF Params!Init, Params!ParamsAssumption
  <1>2. sent \in Seq(Pair) /\ Len(sent) = 0
    BY <1>1
  <1>3. Len(sent) <= MaxParams /\ length \in Nat /\ Len(sent) + 1 <= length /\ Len(sent) + 1 = 1
    BY <1>1, <1>2
  <1>4. <<NULL>> = [i \in 1 .. 1 |-> IF i <= 0 THEN NameValueAt(i) ELSE NULL]
    <2>1. \A i \in 1 .. 1 : ~ (i <= 0)
      OBVIOUS
    <2>2. [i \in 1 .. 1 |-> IF i <= 0 THEN NameValueAt(i) ELSE NULL] = [i \in 1 .. 1 |-> NULL]
      BY <2>1
    <2>3. <<NULL>> = [i \in 1 .. 1 |-> NULL]
      OBVIOUS
    <2> QED BY <2>2, <2>3
  <1> QED BY <1>1, <1>2, <1>3, <1>4 DEF ParamsIInv
-----------------------------------------------------------------------------
(* FcgiLines.                                                              *)

\* Where a call of this size that began at `from' stops, and what it returns.
StopOf(s) ==
    LET end == Lines!LineEnd(from)
    IN  IF s = Unlimited THEN end ELSE Lines!Min({end, from + Lines!Max({s - 1, 0})})
LineFrom(s, stop) ==
    IF s = Unlimited /\ from < stop /\ content[stop] = Newline
    THEN SubSeq(content, from + 1, stop - 1) ELSE SubSeq(content, from + 1, stop)
Returns(s, line) ==
    /\ position = StopOf(s) /\ line = LineFrom(s, position)
    /\ from < Len(content) \/ s \in {0, 1}

\* The loop has met no newline, and has room for another character.
NoNewline(stop) == \A i \in from + 1 .. stop : content[i] # Newline
Looping ==
    /\ NoNewline(position) /\ str = SubSeq(content, from + 1, position)
    /\ size # Unlimited => position - from < size - 1

LinesIInv ==
    /\ content \in Contents /\ Lines!TypeOK /\ Lines!InBounds
    /\ size # -1 /\ ~ends => Looping
    /\ size # -1 /\ ends => Returns(size, str)
    /\ size = -1 /\ answer # NULL => Returns(answer.size, answer.line)
    /\ Lines!NullAtEnd

LEMMA LinesConstants ==
  ASSUME LinesIInv
  PROVE  /\ content \in Seq(Characters) /\ Len(content) \in Nat /\ Newline \in Characters
         /\ position \in Nat /\ from \in Nat /\ from <= position /\ position <= Len(content)
         /\ Sizes \subseteq Nat /\ Unlimited \notin Int
         /\ size \in Sizes \cup {Unlimited, -1} /\ ends \in BOOLEAN
  <1>1. content \in Seq(Characters) /\ Newline \in Characters /\ Sizes \subseteq Nat /\ Unlimited \notin Int
    BY InterfacesAssumption DEF LinesIInv, Lines!LinesAssumption
  <1>2. position \in 0 .. Len(content) /\ from \in 0 .. position
        /\ size \in Sizes \cup {Unlimited, -1} /\ ends \in BOOLEAN
    BY DEF LinesIInv, Lines!TypeOK
  <1>3. Len(content) \in Nat
    BY <1>1
  <1> QED BY <1>1, <1>2, <1>3

LEMMA MinOf ==
  ASSUME NEW a \in Int, NEW b \in Int
  PROVE  Lines!Min({a, b}) = IF a <= b THEN a ELSE b
  <1> DEFINE m == IF a <= b THEN a ELSE b
  <1>1. m \in {a, b} /\ \A y \in {a, b} : m <= y
    OBVIOUS
  <1>2. \A x \in {a, b} : (\A y \in {a, b} : x <= y) => x = m
    OBVIOUS
  <1> HIDE DEF m
  <1>3. (CHOOSE x \in {a, b} : \A y \in {a, b} : x <= y) = m
    BY <1>1, <1>2
  <1> QED BY <1>3 DEF Lines!Min, m

LEMMA MaxOf ==
  ASSUME NEW a \in Int, NEW b \in Int
  PROVE  Lines!Max({a, b}) = IF a >= b THEN a ELSE b
  <1> DEFINE m == IF a >= b THEN a ELSE b
  <1>1. m \in {a, b} /\ \A y \in {a, b} : m >= y
    OBVIOUS
  <1>2. \A x \in {a, b} : (\A y \in {a, b} : x >= y) => x = m
    OBVIOUS
  <1> HIDE DEF m
  <1>3. (CHOOSE x \in {a, b} : \A y \in {a, b} : x >= y) = m
    BY <1>1, <1>2
  <1> QED BY <1>3 DEF Lines!Max, m

(* A line ends at its first newline, or at the end of the stream.          *)
LEMMA LineEnds ==
  ASSUME content \in Seq(Characters), NEW start \in Nat, start <= Len(content)
  PROVE  LET end == Lines!LineEnd(start) IN
         /\ end \in start .. Len(content)
         /\ \A p \in start .. Len(content) :
               (\A i \in start + 1 .. p : content[i] # Newline) => p <= end
         /\ \A p \in start + 1 .. Len(content) :
               content[p] = Newline /\ (\A i \in start + 1 .. p - 1 : content[i] # Newline) => end = p
         /\ (\A i \in start + 1 .. Len(content) : content[i] # Newline) => end = Len(content)
  <1> PICK n \in Nat : n = Len(content)
    OBVIOUS
  <1> DEFINE newlines == {i \in start + 1 .. n : content[i] = Newline}
             end == Lines!LineEnd(start)
  <1>1. end = IF newlines = {} THEN n ELSE Lines!Min(newlines)
    BY DEF Lines!LineEnd
  <1>2. CASE newlines = {}
    <2>1. end = n /\ \A i \in start + 1 .. n : content[i] # Newline
      BY <1>1, <1>2
    <2> HIDE DEF end
    <2> QED BY <2>1 DEF end
  <1>3. CASE newlines # {}
    <2>1. newlines \in SUBSET Nat
      OBVIOUS
    <2>2. \E x \in newlines : \A y \in newlines : x <= y
      BY <1>3, <2>1, LeastNat
    <2>3. end \in newlines /\ \A y \in newlines : end <= y
      <3>1. end = CHOOSE x \in newlines : \A y \in newlines : x <= y
        BY <1>1, <1>3 DEF Lines!Min
      <3> HIDE DEF newlines, end
      <3> QED BY <2>2, <3>1
    <2>4. end \in start + 1 .. n /\ content[end] = Newline
      BY <2>3
    <2>5. \A y \in start + 1 .. n : content[y] = Newline => end <= y
      BY <2>3
    <2> HIDE DEF newlines, end
    <2> QED BY <2>4, <2>5 DEF end
  <1> QED BY <1>2, <1>3

(* What is stored, one character at a time.                                *)
LEMMA StoredNext ==
  ASSUME content \in Seq(Characters), NEW i \in Nat, NEW p \in Nat, i <= p, p < Len(content)
  PROVE  /\ SubSeq(content, i + 1, p) \in Seq(Characters)
         /\ Len(SubSeq(content, i + 1, p)) = p - i
         /\ Append(SubSeq(content, i + 1, p), content[p + 1]) = SubSeq(content, i + 1, p + 1)
  <1> PICK n \in Nat : n = Len(content)
    OBVIOUS
  <1> DEFINE s == SubSeq(content, i + 1, p)
             t == SubSeq(content, i + 1, p + 1)
  <1>1. s \in Seq(Characters) /\ Len(s) = p - i /\ \A k \in 1 .. p - i : s[k] = content[i + k]
    OBVIOUS
  <1>2. t \in Seq(Characters) /\ Len(t) = p + 1 - i /\ \A k \in 1 .. p + 1 - i : t[k] = content[i + k]
    OBVIOUS
  <1>3. content[p + 1] \in Characters
    OBVIOUS
  <1> HIDE DEF s, t
  <1> DEFINE c == content[p + 1]
             more == Append(s, c)
  <1>4. /\ more \in Seq(Characters) /\ Len(more) = p + 1 - i /\ more[p + 1 - i] = c
        /\ \A k \in 1 .. p - i : more[k] = s[k]
    BY <1>1, <1>3
  <1>5. t[p + 1 - i] = c
    BY <1>2
  <1> HIDE DEF more, c
  <1>6. \A k \in 1 .. p + 1 - i : more[k] = t[k]
    <2>1. \A k \in 1 .. p + 1 - i : k \in 1 .. p - i \/ k = p + 1 - i
      OBVIOUS
    <2> QED BY <1>1, <1>2, <1>4, <1>5, <2>1
  <1>7. \A u, v \in Seq(Characters) :
           Len(u) = Len(v) /\ (\A k \in 1 .. Len(u) : u[k] = v[k]) => u = v
    OBVIOUS
  <1>8. more = t
    BY <1>2, <1>4, <1>6, <1>7
  <1> QED BY <1>1, <1>8 DEF s, t, more, c

(* Where the call stops when it has met no newline.                        *)
LEMMA StopsAt ==
  ASSUME LinesIInv, NEW s \in Sizes \cup {Unlimited}, NEW p \in from .. Len(content),
         \/ NoNewline(p) /\ p = Len(content)
         \/ NoNewline(p) /\ s # Unlimited
         \/ p > from /\ NoNewline(p - 1) /\ content[p] = Newline,
         s # Unlimited => /\ p - from <= s - 1 \/ (p = from /\ s = 0)
                          /\ \/ p - from = s - 1
                             \/ p = from /\ s = 0
                             \/ NoNewline(p) /\ p = Len(content)
                             \/ p > from /\ NoNewline(p - 1) /\ content[p] = Newline
  PROVE  StopOf(s) = p
  <1> DEFINE end == Lines!LineEnd(from)
  <1>1. /\ content \in Seq(Characters) /\ Len(content) \in Nat /\ from \in Nat /\ from <= Len(content)
        /\ Sizes \subseteq Nat /\ Unlimited \notin Int
    BY LinesConstants
  <1>2. /\ end \in from .. Len(content)
        /\ NoNewline(p) => p <= end
        /\ p > from /\ NoNewline(p - 1) /\ content[p] = Newline => end = p
        /\ NoNewline(p) /\ p = Len(content) => end = p
    BY <1>1, LineEnds DEF NoNewline
  <1> HIDE DEF end
  <1>3. CASE s = Unlimited
    BY <1>2, <1>3 DEF StopOf, end
  <1>4. CASE s # Unlimited
    <2>1. s \in Nat
      BY <1>1, <1>4
    <2>2. Lines!Max({s - 1, 0}) = IF s - 1 >= 0 THEN s - 1 ELSE 0
      BY <2>1, MaxOf
    <2> DEFINE room == IF s - 1 >= 0 THEN s - 1 ELSE 0
    <2>3. room \in Nat /\ (s = 0 => room = 0) /\ (s # 0 => room = s - 1)
      BY <2>1
    <2>4. Lines!Min({end, from + room}) = IF end <= from + room THEN end ELSE from + room
      BY <1>1, <1>2, <2>3, MinOf
    <2>5. StopOf(s) = Lines!Min({end, from + room})
      BY <1>4, <2>2 DEF StopOf, end
    <2> HIDE DEF room
    <2>6. p \in Nat /\ end \in Nat
      BY <1>1, <1>2
    <2> QED BY <1>1, <1>2, <1>4, <2>1, <2>3, <2>4, <2>5, <2>6
  <1> QED BY <1>3, <1>4

LEMMA CallStep ==
  ASSUME LinesIInv, NEW s \in Sizes \cup {Unlimited}, Lines!Call(s)
  PROVE  LinesIInv'
  <1>1. /\ content \in Seq(Characters) /\ Len(content) \in Nat /\ position \in Nat /\ position <= Len(content)
        /\ Sizes \subseteq Nat /\ Unlimited \notin Int
    BY LinesConstants
  <1>2. /\ size' = s /\ from' = position /\ str' = <<>> /\ ends' = (s \in {0, 1})
        /\ UNCHANGED <<content, position, answer>> /\ content \in Contents
    BY DEF Lines!Call, LinesIInv
  <1>3. s # -1
    BY <1>1
  <1>4. Lines!TypeOK' /\ Lines!InBounds' /\ Lines!NullAtEnd'
    <2>1. from' \in 0 .. position' /\ position' \in 0 .. Len(content')
      BY <1>1, <1>2
    <2>2. Len(<<>>) = 0
      OBVIOUS
    <2> QED BY <1>2, <1>3, <2>1, <2>2 DEF Lines!TypeOK, Lines!InBounds, Lines!NullAtEnd
  <1>5. SubSeq(content, position + 1, position) = <<>>
    BY <1>1
  <1>6. CASE s \notin {0, 1}
    <2>1. s # Unlimited => 0 < s - 1
      BY <1>1, <1>6
    <2>2. position - position = 0 /\ \A i \in position + 1 .. position : FALSE
      BY <1>1
    <2>3. Looping'
      BY <1>2, <1>5, <2>1, <2>2 DEF Looping, NoNewline
    <2> QED BY <1>2, <1>3, <1>4, <1>6, <2>3 DEF LinesIInv
  <1>7. CASE s \in {0, 1}
    <2>1. s # Unlimited /\ s \in Nat
      BY <1>1, <1>7
    <2>2. StopOf(s)' = position
      <3>1. StopOf(s)' = Lines!Min({Lines!LineEnd(position), position + Lines!Max({s - 1, 0})})
        BY <1>2, <2>1 DEF StopOf, Lines!LineEnd
      <3>2. Lines!Max({s - 1, 0}) = 0
        BY <1>7, <2>1, MaxOf
      <3>3. Lines!LineEnd(position) \in position .. Len(content)
        BY <1>1, LineEnds
      <3>4. position + Lines!Max({s - 1, 0}) = position
        BY <1>1, <3>2
      <3> DEFINE end == Lines!LineEnd(position)
      <3>5. end \in Int /\ position <= end
        BY <1>1, <3>3
      <3> HIDE DEF end
      <3>6. Lines!Min({end, position}) = position
        BY <1>1, <3>5, MinOf
      <3> QED BY <3>1, <3>4, <3>6 DEF end
    <2>3. LineFrom(s, position)' = <<>>
      BY <1>2, <1>5, <2>1 DEF LineFrom
    <2>4. Returns(s, <<>>)'
      BY <1>2, <1>7, <2>2, <2>3 DEF Returns
    <2> QED BY <1>2, <1>3, <1>4, <1>7, <2>4 DEF LinesIInv
  <1> QED BY <1>6, <1>7

LEMMA StoreStep ==
  ASSUME LinesIInv, Lines!Store
  PROVE  LinesIInv'
  <1>1. /\ content \in Seq(Characters) /\ Len(content) \in Nat /\ position \in Nat /\ position <= Len(content)
        /\ from \in Nat /\ from <= position
        /\ Sizes \subseteq Nat /\ Unlimited \notin Int /\ size \in Sizes \cup {Unlimited, -1}
    BY LinesConstants
  <1> PICK p \in Nat : p = position + 1
    BY <1>1
  <1> DEFINE c == content[p]
             cut == size = Unlimited /\ c = Newline
  <1>2. /\ size # -1 /\ ~ends /\ position # Len(content) /\ position' = p
        /\ str' = IF cut THEN str ELSE Append(str, c)
        /\ ends' = (c = Newline \/ (size # Unlimited /\ Lines!Room = 1))
        /\ UNCHANGED <<content, size, from, answer>> /\ content \in Contents
    BY DEF Lines!Store, Lines!Char, Lines!AtEnd, LinesIInv
  <1>3. /\ NoNewline(position) /\ str = SubSeq(content, from + 1, position)
        /\ size # Unlimited => position - from < size - 1
    BY <1>2 DEF LinesIInv, Looping
  <1>4. /\ str \in Seq(Characters) /\ Len(str) = position - from
        /\ Append(str, c) = SubSeq(content, from + 1, p) /\ p <= Len(content) /\ from < p
    <2>1. position < Len(content)
      BY <1>1, <1>2
    <2> QED BY <1>1, <1>3, <2>1, StoredNext
  <1>5. size \in Sizes \cup {Unlimited} /\ (size # Unlimited => size \in Nat)
    BY <1>1, <1>2
  <1>6. Lines!TypeOK'
    <2>1. p \in 0 .. Len(content) /\ from \in 0 .. p
      BY <1>1, <1>4
    <2> QED BY <1>2, <1>5, <2>1 DEF Lines!TypeOK
  <1>7. Lines!InBounds' /\ Lines!NullAtEnd'
    <2>1. size \in Nat \ {0} => Len(str') < size
      <3> SUFFICES ASSUME size \in Nat \ {0} PROVE Len(str') < size
        OBVIOUS
      <3>1. size # Unlimited
        BY <1>1
      <3>2. c \in Characters
        BY <1>1, <1>4
      <3>3. Len(str') = Len(str) + 1
        <4>1. str' = Append(str, c)
          BY <1>2, <3>1
        <4> HIDE DEF c
        <4>2. Len(Append(str, c)) = Len(str) + 1
          <5>1. str \in Seq(Characters)
            BY <1>4
          <5> QED BY <3>2, <5>1
        <4> QED BY <4>1, <4>2
      <3> QED BY <1>1, <1>3, <1>4, <3>1, <3>3
    <2> QED BY <1>2, <2>1 DEF Lines!InBounds, Lines!NullAtEnd
  <1>8. p - 1 = position /\ \A i \in from + 1 .. p : i \in from + 1 .. position \/ i = p
    BY <1>1
  <1>9. size # Unlimited => Lines!Room = size - 1 - (position - from)
    BY <1>4 DEF Lines!Room
  <1> HIDE DEF c
  <1>10. CASE ~ends'
    <2>1. c # Newline /\ (size # Unlimited => Lines!Room # 1)
      BY <1>2, <1>10
    <2>2. NoNewline(p)
      BY <1>3, <1>8, <2>1 DEF NoNewline, c
    <2>3. size # Unlimited => p - from < size - 1
      BY <1>1, <1>3, <1>5, <1>9, <2>1
    <2>4. str' = SubSeq(content, from + 1, p)
      BY <1>2, <1>4, <2>1
    <2>5. Looping'
      BY <1>2, <2>2, <2>3, <2>4 DEF Looping, NoNewline
    <2> QED BY <1>2, <1>6, <1>7, <1>10, <2>5 DEF LinesIInv
  <1>11. CASE ends'
    <2>1. c = Newline \/ (c # Newline /\ size # Unlimited /\ Lines!Room = 1)
      BY <1>2, <1>11
    <2>2. c # Newline => NoNewline(p)
      BY <1>3, <1>8 DEF NoNewline, c
    <2>3. c = Newline => p > from /\ NoNewline(p - 1) /\ content[p] = Newline
      BY <1>3, <1>4, <1>8 DEF c
    <2>4. size # Unlimited => p - from <= size - 1 /\ (c # Newline => p - from = size - 1)
      BY <1>1, <1>3, <1>5, <1>9, <2>1
    <2>5. StopOf(size) = p
      <3>1. p \in from .. Len(content)
        BY <1>1, <1>4
      <3> QED BY <1>5, <2>1, <2>2, <2>3, <2>4, <3>1, StopsAt
    <2>6. StopOf(size)' = p
      BY <1>2, <2>5 DEF StopOf, Lines!LineEnd
    <2>7. str' = LineFrom(size, p)
      BY <1>2, <1>3, <1>4, <1>8 DEF LineFrom, c
    <2>8. LineFrom(size, position)' = LineFrom(size, p)
      BY <1>2 DEF LineFrom
    <2>9. from < Len(content)
      BY <1>1, <1>4
    <2>10. Returns(size, str)'
      BY <1>2, <2>6, <2>7, <2>8, <2>9 DEF Returns
    <2> QED BY <1>2, <1>6, <1>7, <1>11, <2>10 DEF LinesIInv
  <1> QED BY <1>10, <1>11

LEMMA StoreEofStep ==
  ASSUME LinesIInv, Lines!StoreEof
  PROVE  LinesIInv'
  <1>1. /\ content \in Seq(Characters) /\ Len(content) \in Nat /\ position \in Nat
        /\ from \in Nat /\ from <= position
        /\ Sizes \subseteq Nat /\ Unlimited \notin Int /\ size \in Sizes \cup {Unlimited, -1}
        /\ ends \in BOOLEAN
    BY LinesConstants
  <1>2. /\ size # -1 /\ ~ends /\ position = Len(content)
        /\ IF str = <<>> THEN answer' = NULL /\ size' = -1 /\ UNCHANGED ends
                         ELSE ends' = TRUE /\ UNCHANGED <<answer, size>>
        /\ UNCHANGED <<content, position, from, str>> /\ content \in Contents
    BY DEF Lines!StoreEof, Lines!AtEnd, LinesIInv
  <1>3. /\ NoNewline(position) /\ str = SubSeq(content, from + 1, position)
        /\ size # Unlimited => position - from < size - 1
    BY <1>2 DEF LinesIInv, Looping
  <1>4. Len(str) = position - from
    <2>1. Len(SubSeq(content, from + 1, position)) = position - from
      BY <1>1, <1>2
    <2> QED BY <1>3, <2>1
  <1>5. position \in 0 .. Len(content) /\ from \in 0 .. position
    BY <1>1, <1>2
  <1>6. CASE str = <<>>
    <2>1. from = position
      BY <1>1, <1>4, <1>6
    <2>2. Lines!TypeOK' /\ Lines!InBounds' /\ Lines!NullAtEnd'
      <3>1. Lines!TypeOK'
        <4>1. size' = -1 /\ ends' \in BOOLEAN /\ content' = content /\ position' = position /\ from' = from
          BY <1>1, <1>2, <1>6
        <4> QED BY <1>5, <4>1 DEF Lines!TypeOK
      <3>2. Lines!InBounds'
        BY <1>2, <1>6 DEF Lines!InBounds
      <3>3. Lines!NullAtEnd'
        BY <1>2, <1>6, <2>1 DEF Lines!NullAtEnd, Lines!AtEnd
      <3> QED BY <3>1, <3>2, <3>3
    <2> QED BY <1>2, <1>6, <2>2 DEF LinesIInv
  <1>7. CASE str # <<>>
    <2>1. from < position
      <3>1. from = position => SubSeq(content, from + 1, position) = <<>>
        BY <1>1, <1>2
      <3> QED BY <1>1, <1>3, <1>7, <3>1
    <2>2. Lines!TypeOK' /\ Lines!InBounds' /\ Lines!NullAtEnd'
      <3>1. Lines!TypeOK'
        BY <1>1, <1>2, <1>5, <1>7 DEF Lines!TypeOK
      <3>2. Lines!InBounds'
        BY <1>2, <1>7 DEF LinesIInv, Lines!InBounds
      <3> QED BY <1>2, <1>7, <3>1, <3>2 DEF Lines!NullAtEnd
    <2>3. StopOf(size) = position
      <3>1. position \in from .. Len(content) /\ size \in Sizes \cup {Unlimited}
        BY <1>1, <1>2
      <3>2. size # Unlimited => position - from <= size - 1
        BY <1>1, <1>3
      <3> QED BY <1>2, <1>3, <3>1, <3>2, StopsAt
    <2>4. StopOf(size)' = position
      BY <1>2, <1>7, <2>3 DEF StopOf, Lines!LineEnd
    <2>5. content[position] # Newline
      <3>1. position \in from + 1 .. position
        BY <1>1, <2>1
      <3> QED BY <1>3, <3>1 DEF NoNewline
    <2>6. LineFrom(size, position)' = str
      BY <1>2, <1>3, <1>7, <2>5 DEF LineFrom
    <2>7. Returns(size, str)'
      BY <1>2, <1>7, <2>1, <2>4, <2>6 DEF Returns
    <2> QED BY <1>2, <1>7, <2>2, <2>7 DEF LinesIInv
  <1> QED BY <1>6, <1>7

LEMMA ReturnStep ==
  ASSUME LinesIInv, Lines!Return
  PROVE  LinesIInv'
  <1>1. /\ content \in Seq(Characters) /\ Len(content) \in Nat /\ position \in Nat /\ position <= Len(content)
        /\ from \in Nat /\ from <= position
        /\ Sizes \subseteq Nat /\ size \in Sizes \cup {Unlimited, -1}
    BY LinesConstants
  <1>2. /\ size # -1 /\ ends /\ answer' = [size |-> size, line |-> str] /\ size' = -1
        /\ UNCHANGED <<content, position, from, str, ends>> /\ content \in Contents
    BY DEF Lines!Return, LinesIInv
  <1>3. Returns(size, str)
    BY <1>2 DEF LinesIInv
  <1>4. answer' # NULL
    <2>1. SubSeq(content, from + 1, position - 1) \in Seq(Characters)
          /\ SubSeq(content, from + 1, position) \in Seq(Characters)
      <3>1. position - 1 <= Len(content)
        BY <1>1
      <3> QED BY <1>1, <3>1
    <2>2. str \in Seq(Characters)
      BY <1>3, <2>1 DEF Returns, LineFrom
    <2>3. NULL \notin [size : Sizes \cup {Unlimited}, line : Seq(Characters)]
      BY InterfacesAssumption DEF Lines!LinesAssumption
    <2>4. size \in Sizes \cup {Unlimited}
      BY <1>1, <1>2
    <2> QED BY <1>2, <2>2, <2>3, <2>4
  <1>5. Lines!TypeOK' /\ Lines!InBounds' /\ Lines!NullAtEnd'
    BY <1>2, <1>4 DEF LinesIInv, Lines!TypeOK, Lines!InBounds, Lines!NullAtEnd
  <1>6. Returns(answer.size, answer.line)'
    <2>1. answer'.size = size /\ answer'.line = str
      BY <1>2
    <2> QED BY <1>2, <1>3, <2>1 DEF Returns, StopOf, LineFrom, Lines!LineEnd
  <1> QED BY <1>2, <1>4, <1>5, <1>6 DEF LinesIInv

(* What the run checks is what the invariant says of a call that is over.  *)
LEMMA LinesAnswered ==
  ASSUME LinesIInv
  PROVE  LinesInv
  BY DEF LinesIInv, LinesInv, Lines!LinesInv, Lines!AnswersLine, Returns, StopOf, LineFrom

LEMMA LinesKept ==
  ASSUME LinesIInv, UNCHANGED linesVars
  PROVE  LinesIInv'
  <1>1. UNCHANGED <<content, position, size, from, str, ends, answer>>
    BY DEF linesVars
  <1> QED BY <1>1 DEF LinesIInv, Looping, NoNewline, Returns, StopOf, LineFrom, Lines!LineEnd, Lines!TypeOK,
                      Lines!InBounds, Lines!NullAtEnd, Lines!AtEnd

LEMMA LinesStep ==
  ASSUME LinesIInv, Lines!Next
  PROVE  LinesIInv'
  BY CallStep, StoreStep, StoreEofStep, ReturnStep DEF Lines!Next

LEMMA LinesInitial ==
  ASSUME Lines!Init
  PROVE  LinesIInv
  <1>1. /\ content \in Contents /\ position = 0 /\ size = -1 /\ from = 0 /\ str = <<>>
        /\ ends = FALSE /\ answer = NULL
    BY DEF Lines!Init
  <1>2. content \in Seq(Characters) /\ Sizes \subseteq Nat /\ Unlimited \notin Int
    BY <1>1, InterfacesAssumption DEF Lines!LinesAssumption
  <1>3. Lines!TypeOK
    <2>1. 0 \in 0 .. Len(content) /\ 0 \in 0 .. 0
      BY <1>2
    <2> QED BY <1>1, <2>1 DEF Lines!TypeOK
  <1>4. Lines!InBounds
    BY <1>1 DEF Lines!InBounds
  <1>5. Lines!NullAtEnd
    <2>1. content = <<>> => Len(content) = 0
      OBVIOUS
    <2>2. ~ (0 > 0)
      OBVIOUS
    <2> QED BY <1>1, <2>1, <2>2 DEF Lines!NullAtEnd, Lines!AtEnd
  <1> QED BY <1>1, <1>3, <1>4, <1>5 DEF LinesIInv
-----------------------------------------------------------------------------
(* FcgiStdio.                                                              *)

\* Where the pointers go: an FCGI_FILE on the heap to its own FILE, one of the
\* three also to one that was opened in its place, and never to two objects.
Pointers ==
    /\ stdio_stream \in [Stdio!FcgiFiles -> Stdio!FcgiFiles \cup {NULL}]
    /\ fcgx_stream \in [Stdio!FcgiFiles -> Stdio!Streams \cup {NULL}]
    /\ \A f \in Stdio!FcgiFiles : stdio_stream[f] = NULL \/ fcgx_stream[f] = NULL
    /\ \A f \in Files : /\ stdio_stream[f] \in {f, NULL} /\ fcgx_stream[f] = NULL
                        /\ f \in allocated => stdio_stream[f] = f
    /\ \A f \in Stdio!Std : stdio_stream[f] \in {f, NULL} \cup Files

\* No two wrappers share a FILE, so that one does not close another's.
Distinct ==
    \A f, g \in usable : f # g /\ stdio_stream[f] # NULL => stdio_stream[f] # stdio_stream[g]

NotAccepted == usable \cap Stdio!Std = {} /\ Stdio!Std \subseteq open /\ request = 0 /\ ~isCGI

StdioIInv ==
    /\ Stdio!TypeOK /\ Stdio!TargetsLive /\ Pointers /\ Distinct
    /\ ~acceptCalled => NotAccepted
    /\ ~mayClose => /\ open \ Stdio!Std \subseteq allocated
                    /\ request # 0 => fcgx_stream["stdin"] # NULL
    /\ Stdio!LastStatusCounts

LEMMA StdioConstants ==
    /\ Files \cap Stdio!Std = {} /\ NULL \notin Files \cup Stdio!Std
    /\ MaxRequests \in Nat /\ 0 \in Statuses
    /\ Stdio!FcgiFiles = Stdio!Std \cup Files /\ "stdin" \in Stdio!Std
    /\ \A r \in 1 .. MaxRequests, s \in Stdio!Std :
          Stdio!Stream(r, s) \in Stdio!Streams /\ Stdio!Stream(r, s) # NULL
  BY InterfacesAssumption
     DEF Stdio!NamesAssumption, Stdio!StdioAssumption, Stdio!FcgiFiles, Stdio!Std, Stdio!Streams

LEMMA SetStdIs ==
  ASSUME NEW pointer, NEW values, NEW f \in Stdio!FcgiFiles
  PROVE  Stdio!SetStd(pointer, values)[f] = IF f \in Stdio!Std THEN values[f] ELSE pointer[f]
  BY DEF Stdio!SetStd

LEMMA StdioKept ==
  ASSUME StdioIInv, UNCHANGED stdioVars
  PROVE  StdioIInv'
  BY DEF StdioIInv, stdioVars, Stdio!TypeOK, Stdio!TargetsLive, Stdio!Target, Pointers, Distinct, NotAccepted,
     Stdio!LastStatusCounts, Stdio!Streams

LEMMA AcceptCGIStep ==
  ASSUME StdioIInv, Stdio!AcceptCGI
  PROVE  StdioIInv'
  <1> USE StdioConstants
  <1> HIDE DEF Stdio!Std, Stdio!FcgiFiles
  <1> DEFINE Std == Stdio!Std
             F == Stdio!FcgiFiles
  <1>1. /\ ~acceptCalled /\ acceptCalled' = TRUE /\ isCGI' = TRUE /\ usable' = usable \cup Std
        /\ stdio_stream' = Stdio!SetStd(stdio_stream, [f \in Std |-> f])
        /\ fcgx_stream' = Stdio!SetStd(fcgx_stream, Stdio!Nothing)
        /\ UNCHANGED <<mayClose, request, accepted, appStatus, allocated, open, wanted>>
    BY DEF Stdio!AcceptCGI
  <1>2. /\ stdio_stream' = [f \in F |-> IF f \in Std THEN f ELSE stdio_stream[f]]
        /\ fcgx_stream' = [f \in F |-> IF f \in Std THEN NULL ELSE fcgx_stream[f]]
    BY <1>1 DEF Stdio!SetStd, Stdio!Nothing
  <1>3. Stdio!TypeOK /\ Pointers /\ Distinct /\ NotAccepted /\ Stdio!TargetsLive
    BY <1>1 DEF StdioIInv
  <1>4. Pointers'
    BY <1>1, <1>2, <1>3 DEF Pointers
  <1>5. Stdio!TypeOK'
    BY <1>1, <1>3, <1>4 DEF Stdio!TypeOK, Pointers
  <1>6. \A f \in usable' : /\ f \in Std => stdio_stream'[f] = f
                           /\ f \notin Std => f \in Files /\ f \in usable /\ stdio_stream'[f] = f /\ stdio_stream[f] = f
    BY <1>1, <1>2, <1>3 DEF Stdio!TypeOK, Pointers
  <1>7. Distinct'
    BY <1>6 DEF Distinct
  <1>8. Stdio!TargetsLive'
    <2>1. \A f \in usable' : stdio_stream'[f] # NULL /\ stdio_stream'[f] \in open'
      BY <1>1, <1>3, <1>6 DEF Stdio!TargetsLive, Stdio!Target, NotAccepted
    <2> QED BY <2>1 DEF Stdio!TargetsLive, Stdio!Target
  <1> QED BY <1>1, <1>3, <1>4, <1>5, <1>7, <1>8 DEF StdioIInv, Stdio!LastStatusCounts, NotAccepted

LEMMA AcceptRequestStep ==
  ASSUME StdioIInv, Stdio!AcceptRequest
  PROVE  StdioIInv'
  <1> USE StdioConstants
  <1> HIDE DEF Stdio!Std, Stdio!FcgiFiles
  <1> DEFINE Std == Stdio!Std
             F == Stdio!FcgiFiles
  <1> PICK r : r = accepted + 1
    OBVIOUS
  <1>1. /\ accepted < MaxRequests /\ acceptCalled' = TRUE /\ accepted' = r /\ request' = r
        /\ stdio_stream' = Stdio!SetStd(stdio_stream, Stdio!Nothing)
        /\ fcgx_stream' = Stdio!SetStd(fcgx_stream, [f \in Std |-> Stdio!Stream(r, f)])
        /\ usable' = usable \cup Std /\ wanted' = NULL
        /\ UNCHANGED <<mayClose, isCGI, appStatus, allocated, open>>
    BY DEF Stdio!AcceptRequest
  <1>2. /\ stdio_stream' = [f \in F |-> IF f \in Std THEN NULL ELSE stdio_stream[f]]
        /\ fcgx_stream' = [f \in F |-> IF f \in Std THEN Stdio!Stream(r, f) ELSE fcgx_stream[f]]
    BY <1>1 DEF Stdio!SetStd, Stdio!Nothing
  <1>3. Stdio!TypeOK /\ Pointers /\ Distinct /\ Stdio!TargetsLive
    BY <1>1 DEF StdioIInv
  <1>4. r \in 1 .. MaxRequests /\ r # 0
    BY <1>1, <1>3 DEF Stdio!TypeOK
  <1>5. Pointers'
    <2>1. \A f \in Std : Stdio!Stream(r, f) \in Stdio!Streams
      BY <1>4
    <2> QED BY <1>1, <1>2, <1>3, <2>1 DEF Pointers
  <1>6. Stdio!TypeOK'
    BY <1>1, <1>3, <1>4, <1>5 DEF Stdio!TypeOK, Pointers
  <1>7. \A f \in usable' :
           /\ f \in Std => stdio_stream'[f] = NULL /\ fcgx_stream'[f] = Stdio!Stream(r, f)
           /\ f \notin Std => f \in Files /\ f \in usable /\ stdio_stream'[f] = f /\ stdio_stream[f] = f
    BY <1>1, <1>2, <1>3 DEF Stdio!TypeOK, Pointers
  <1>8. Distinct'
    BY <1>7 DEF Distinct
  <1>9. Stdio!TargetsLive'
    <2>1. \A f \in usable' \ Std : stdio_stream'[f] # NULL /\ stdio_stream'[f] \in open'
      BY <1>1, <1>3, <1>7 DEF Stdio!TargetsLive, Stdio!Target
    <2>2. \A f \in usable' \cap Std : stdio_stream'[f] = NULL /\ request' # 0 /\ fcgx_stream'[f] = Stdio!Stream(r, f)
      BY <1>1, <1>4, <1>7
    <2> QED BY <1>1, <2>1, <2>2 DEF Stdio!TargetsLive, Stdio!Target, Stdio!Stream
  <1>10. fcgx_stream'["stdin"] # NULL
    <2>1. fcgx_stream'["stdin"] = Stdio!Stream(r, "stdin")
      BY <1>2
    <2> QED BY <1>4, <2>1
  <1> QED BY <1>1, <1>3, <1>5, <1>6, <1>8, <1>9, <1>10 DEF StdioIInv, Stdio!LastStatusCounts

\* What is left of the wrappers when the three files may not be used.
LEMMA OthersLive ==
  ASSUME Stdio!TypeOK, Stdio!TargetsLive, Pointers
  PROVE  \A f \in usable \ Stdio!Std : /\ f \in Files /\ f \in allocated
                                       /\ stdio_stream[f] = f /\ f \in open /\ f # NULL
  BY StdioConstants DEF Stdio!TypeOK, Stdio!TargetsLive, Stdio!Target, Pointers

LEMMA AcceptFailsStep ==
  ASSUME StdioIInv, Stdio!AcceptFails
  PROVE  StdioIInv'
  <1> USE StdioConstants
  <1> HIDE DEF Stdio!Std, Stdio!FcgiFiles
  <1>1. /\ acceptCalled' = TRUE /\ request' = 0 /\ usable' = usable \ Stdio!Std /\ wanted' = NULL
        /\ UNCHANGED <<mayClose, isCGI, accepted, appStatus, stdio_stream, fcgx_stream, allocated, open>>
    BY DEF Stdio!AcceptFails
  <1>2. Stdio!TypeOK /\ Pointers /\ Distinct /\ Stdio!TargetsLive
    BY DEF StdioIInv
  <1>3. Pointers'
    BY <1>1, <1>2 DEF Pointers, Stdio!Streams
  <1>4. Stdio!TypeOK'
    BY <1>1, <1>2 DEF Stdio!TypeOK, Stdio!Streams
  <1>5. Distinct'
    BY <1>1, <1>2 DEF Distinct
  <1>6. Stdio!TargetsLive'
    BY <1>1, <1>2, OthersLive DEF Stdio!TargetsLive, Stdio!Target
  <1> QED BY <1>1, <1>3, <1>4, <1>5, <1>6 DEF StdioIInv, Stdio!LastStatusCounts

LEMMA FinishStep ==
  ASSUME StdioIInv, Stdio!Finish
  PROVE  StdioIInv'
  <1> USE StdioConstants
  <1> HIDE DEF Stdio!Std, Stdio!FcgiFiles
  <1> DEFINE Std == Stdio!Std
             F == Stdio!FcgiFiles
  <1>1. /\ acceptCalled /\ request' = 0 /\ usable' = usable \ Std /\ wanted' = NULL
        /\ fcgx_stream' = Stdio!SetStd(fcgx_stream, Stdio!Nothing)
        /\ UNCHANGED <<mayClose, acceptCalled, isCGI, accepted, appStatus, stdio_stream, allocated, open>>
    BY DEF Stdio!Finish
  <1>2. fcgx_stream' = [f \in F |-> IF f \in Std THEN NULL ELSE fcgx_stream[f]]
    BY <1>1 DEF Stdio!SetStd, Stdio!Nothing
  <1>3. Stdio!TypeOK /\ Pointers /\ Distinct /\ Stdio!TargetsLive
    BY DEF StdioIInv
  <1>4. Pointers'
    BY <1>1, <1>2, <1>3 DEF Pointers
  <1>5. Stdio!TypeOK'
    BY <1>1, <1>3, <1>4 DEF Stdio!TypeOK, Pointers
  <1>6. Distinct'
    BY <1>1, <1>3 DEF Distinct
  <1>7. Stdio!TargetsLive'
    BY <1>1, <1>3, OthersLive DEF Stdio!TargetsLive, Stdio!Target
  <1> QED BY <1>1, <1>4, <1>5, <1>6, <1>7 DEF StdioIInv, Stdio!LastStatusCounts

LEMMA SetExitStatusStep ==
  ASSUME StdioIInv, NEW status \in Statuses, Stdio!SetExitStatus(status)
  PROVE  StdioIInv'
  <1>1. /\ usable \cap Stdio!Std # {} /\ request # 0 /\ wanted' = status
        /\ appStatus' = IF fcgx_stream["stdin"] = NULL THEN appStatus ELSE status
        /\ UNCHANGED <<mayClose, acceptCalled, isCGI, request, accepted, stdio_stream, fcgx_stream,
                       allocated, open, usable>>
    BY DEF Stdio!SetExitStatus
  <1>2. Stdio!TypeOK /\ Pointers /\ Distinct /\ Stdio!TargetsLive
    BY DEF StdioIInv
  <1>3. Pointers' /\ Distinct'
    BY <1>1, <1>2 DEF Pointers, Distinct, Stdio!Streams, Stdio!FcgiFiles
  <1>4. Stdio!TypeOK'
    BY <1>1, <1>2 DEF Stdio!TypeOK, Stdio!Streams, Stdio!FcgiFiles
  <1>5. Stdio!TargetsLive'
    BY <1>1, <1>2 DEF Stdio!TargetsLive, Stdio!Target
  <1>6. acceptCalled
    BY <1>1 DEF StdioIInv, NotAccepted
  <1>7. ~mayClose => fcgx_stream["stdin"] # NULL
    BY <1>1 DEF StdioIInv
  <1>8. Stdio!LastStatusCounts'
    BY <1>1, <1>7 DEF Stdio!LastStatusCounts
  <1> QED BY <1>1, <1>3, <1>4, <1>5, <1>6, <1>8 DEF StdioIInv

LEMMA FopenStep ==
  ASSUME StdioIInv, NEW f \in Stdio!FcgiFiles, Stdio!Fopen(f)
  PROVE  StdioIInv'
  <1> USE StdioConstants
  <1> HIDE DEF Stdio!Std, Stdio!FcgiFiles
  <1>1. Stdio!TypeOK /\ Pointers /\ Distinct /\ Stdio!TargetsLive
    BY DEF StdioIInv
  <1>2. /\ f \in Files \ open /\ f \notin allocated
        /\ UNCHANGED <<mayClose, acceptCalled, isCGI, request, accepted, appStatus, wanted>>
    BY DEF Stdio!Fopen
  <1>3. CASE UNCHANGED <<open, allocated, stdio_stream, fcgx_stream, usable>>
    BY <1>2, <1>3, StdioKept DEF stdioVars
  <1>4. CASE /\ open' = open \cup {f} /\ allocated' = allocated \cup {f} /\ usable' = usable \cup {f}
             /\ stdio_stream' = [stdio_stream EXCEPT ![f] = f]
             /\ fcgx_stream' = [fcgx_stream EXCEPT ![f] = NULL]
    <2>1. Pointers'
      BY <1>1, <1>2, <1>4 DEF Pointers
    <2>2. Stdio!TypeOK'
      BY <1>1, <1>2, <1>4, <2>1 DEF Stdio!TypeOK, Pointers
    <2>3. \A g \in usable' : \/ g = f /\ stdio_stream'[g] = f
                             \/ /\ g # f /\ g \in usable /\ stdio_stream'[g] = stdio_stream[g]
                                /\ fcgx_stream'[g] = fcgx_stream[g]
      BY <1>1, <1>2, <1>4 DEF Pointers, Stdio!TypeOK
    <2>4. \A g \in usable : stdio_stream[g] # NULL => stdio_stream[g] \in open
      BY <1>1 DEF Stdio!TargetsLive, Stdio!Target
    <2>5. Distinct'
      BY <1>1, <1>2, <2>3, <2>4 DEF Distinct
    <2>6. Stdio!TargetsLive'
      BY <1>1, <1>2, <1>4, <2>3, <2>4 DEF Stdio!TargetsLive, Stdio!Target
    <2>7. ~acceptCalled' => NotAccepted'
      BY <1>2, <1>4 DEF StdioIInv, NotAccepted
    <2>8. ~mayClose' => /\ open' \ Stdio!Std \subseteq allocated'
                        /\ request' # 0 => fcgx_stream'["stdin"] # NULL
      <3>1. fcgx_stream'["stdin"] = fcgx_stream["stdin"]
        BY <1>1, <1>2, <1>4 DEF Pointers
      <3> QED BY <1>2, <1>4, <3>1 DEF StdioIInv
    <2>9. Stdio!LastStatusCounts'
      BY <1>2 DEF StdioIInv, Stdio!LastStatusCounts
    <2> QED BY <2>1, <2>2, <2>5, <2>6, <2>7, <2>8, <2>9 DEF StdioIInv
  <1> QED BY <1>3, <1>4 DEF Stdio!Fopen

LEMMA FcloseStep ==
  ASSUME StdioIInv, NEW f \in Stdio!FcgiFiles, Stdio!Fclose(f)
  PROVE  StdioIInv'
  <1> USE StdioConstants
  <1> HIDE DEF Stdio!Std, Stdio!FcgiFiles
  <1>1. Stdio!TypeOK /\ Pointers /\ Distinct /\ Stdio!TargetsLive
    BY DEF StdioIInv
  <1>2. /\ f \in usable /\ (f \in Stdio!Std => mayClose)
        /\ allocated' = allocated \ {f}
        /\ usable' = IF f \in Stdio!Std THEN usable ELSE usable \ {f}
        /\ UNCHANGED <<mayClose, acceptCalled, isCGI, request, accepted, appStatus, wanted>>
        /\ IF stdio_stream[f] # NULL
           THEN /\ open' = open \ {stdio_stream[f]} /\ fcgx_stream' = fcgx_stream
                /\ stdio_stream' = [stdio_stream EXCEPT ![f] = NULL]
           ELSE /\ fcgx_stream' = [fcgx_stream EXCEPT ![f] = NULL]
                /\ open' = open /\ stdio_stream' = stdio_stream
    BY DEF Stdio!Fclose
  <1>3. /\ stdio_stream' = [stdio_stream EXCEPT ![f] = NULL]
        /\ fcgx_stream' = [fcgx_stream EXCEPT ![f] = NULL]
        /\ open' = open \ {stdio_stream[f]}
    <2>1. CASE stdio_stream[f] # NULL
      BY <1>1, <1>2, <2>1 DEF Pointers
    <2>2. CASE stdio_stream[f] = NULL
      <3>1. NULL \notin open
        BY <1>1 DEF Stdio!TypeOK
      <3> QED BY <1>1, <1>2, <2>2, <3>1 DEF Pointers
    <2> QED BY <2>1, <2>2
  <1>4. Pointers'
    BY <1>1, <1>2, <1>3 DEF Pointers
  <1>5. Stdio!TypeOK'
    BY <1>1, <1>2, <1>3, <1>4 DEF Stdio!TypeOK, Pointers
  <1>6. \A g \in usable' : \/ g = f /\ stdio_stream'[g] = NULL /\ fcgx_stream'[g] = NULL
                           \/ /\ g # f /\ g \in usable /\ stdio_stream'[g] = stdio_stream[g]
                              /\ fcgx_stream'[g] = fcgx_stream[g]
    BY <1>1, <1>2, <1>3 DEF Pointers, Stdio!TypeOK
  <1>7. Distinct'
    BY <1>1, <1>6 DEF Distinct
  <1>8. Stdio!TargetsLive'
    <2>1. \A g \in usable : g # f /\ stdio_stream[g] # NULL => stdio_stream[g] # stdio_stream[f]
      BY <1>1, <1>2 DEF Distinct
    <2> QED BY <1>1, <1>2, <1>3, <1>6, <2>1 DEF Stdio!TargetsLive, Stdio!Target
  <1>9. ~acceptCalled' => NotAccepted'
    <2> SUFFICES ASSUME ~acceptCalled PROVE NotAccepted'
      BY <1>2
    <2>1. NotAccepted /\ f \in Files
      BY <1>2 DEF StdioIInv, NotAccepted
    <2>2. stdio_stream[f] \notin Stdio!Std
      BY <1>1, <2>1 DEF Pointers
    <2> QED BY <1>2, <1>3, <2>1, <2>2 DEF NotAccepted
  <1>10. ~mayClose' => /\ open' \ Stdio!Std \subseteq allocated'
                       /\ request' # 0 => fcgx_stream'["stdin"] # NULL
    <2> SUFFICES ASSUME ~mayClose
                 PROVE  /\ open' \ Stdio!Std \subseteq allocated'
                        /\ request' # 0 => fcgx_stream'["stdin"] # NULL
      BY <1>2
    <2>1. f \in Files /\ stdio_stream[f] = f
      BY <1>1, <1>2, OthersLive
    <2>2. fcgx_stream'["stdin"] = fcgx_stream["stdin"]
      BY <1>1, <1>3, <2>1 DEF Pointers
    <2> QED BY <1>2, <1>3, <2>1, <2>2 DEF StdioIInv
  <1>11. Stdio!LastStatusCounts'
    BY <1>2 DEF StdioIInv, Stdio!LastStatusCounts
  <1> QED BY <1>4, <1>5, <1>7, <1>8, <1>9, <1>10, <1>11 DEF StdioIInv

LEMMA FreopenFileStep ==
  ASSUME StdioIInv, NEW f \in Stdio!FcgiFiles, Stdio!FreopenFile(f)
  PROVE  StdioIInv'
  <1> USE StdioConstants
  <1> HIDE DEF Stdio!Std, Stdio!FcgiFiles
  <1>1. Stdio!TypeOK /\ Pointers /\ Distinct /\ Stdio!TargetsLive
    BY DEF StdioIInv
  <1>2. /\ f \in usable /\ (f \in Stdio!Std => mayClose) /\ stdio_stream[f] # NULL
        /\ \/ UNCHANGED <<open, usable>>
           \/ open' = open \ {stdio_stream[f]} /\ usable' = usable \ {f}
        /\ UNCHANGED <<mayClose, acceptCalled, isCGI, request, accepted, appStatus, stdio_stream,
                       fcgx_stream, allocated, wanted>>
    BY DEF Stdio!FreopenFile
  <1>3. Pointers'
    BY <1>1, <1>2 DEF Pointers, Stdio!Streams
  <1>4. Stdio!TypeOK' /\ Distinct'
    BY <1>1, <1>2 DEF Stdio!TypeOK, Distinct, Stdio!Streams
  <1>5. Stdio!TargetsLive'
    <2>1. \A g \in usable : g # f /\ stdio_stream[g] # NULL => stdio_stream[g] # stdio_stream[f]
      BY <1>1, <1>2 DEF Distinct
    <2> QED BY <1>1, <1>2, <2>1 DEF Stdio!TargetsLive, Stdio!Target
  <1>6. ~acceptCalled' => NotAccepted'
    <2> SUFFICES ASSUME ~acceptCalled PROVE NotAccepted'
      BY <1>2
    <2>1. NotAccepted /\ f \in Files
      BY <1>2 DEF StdioIInv, NotAccepted
    <2>2. stdio_stream[f] \notin Stdio!Std
      BY <1>1, <2>1 DEF Pointers
    <2> QED BY <1>2, <2>1, <2>2 DEF NotAccepted
  <1> QED BY <1>2, <1>3, <1>4, <1>5, <1>6 DEF StdioIInv, Stdio!LastStatusCounts

LEMMA FreopenStreamStep ==
  ASSUME StdioIInv, NEW f \in Stdio!FcgiFiles, Stdio!FreopenStream(f)
  PROVE  StdioIInv'
  <1> USE StdioConstants
  <1> HIDE DEF Stdio!Std, Stdio!FcgiFiles
  <1>1. Stdio!TypeOK /\ Pointers /\ Distinct /\ Stdio!TargetsLive
    BY DEF StdioIInv
  <1>2. /\ f \in usable /\ mayClose /\ stdio_stream[f] = NULL /\ fcgx_stream[f] # NULL
        /\ UNCHANGED <<mayClose, acceptCalled, isCGI, request, accepted, appStatus, allocated, wanted>>
    BY DEF Stdio!FreopenStream
  <1>3. f \in Stdio!Std
    BY <1>1, <1>2, OthersLive
  <1>4. acceptCalled
    BY <1>2, <1>3 DEF StdioIInv, NotAccepted
  <1>5. CASE usable' = usable \ {f} /\ UNCHANGED <<open, stdio_stream, fcgx_stream>>
    <2>0. /\ stdio_stream' = stdio_stream /\ fcgx_stream' = fcgx_stream /\ open' = open
          /\ allocated' = allocated /\ usable' \subseteq usable
      BY <1>2, <1>5
    <2>1. Pointers' /\ Distinct'
      <3>1. Pointers'
        BY <1>1, <2>0 DEF Pointers, Stdio!Streams
      <3> QED BY <1>1, <2>0, <3>1 DEF Distinct
    <2>2. Stdio!TypeOK'
      <3>1. /\ mayClose' = mayClose /\ acceptCalled' = acceptCalled /\ isCGI' = isCGI
            /\ request' = request /\ accepted' = accepted /\ appStatus' = appStatus /\ wanted' = wanted
        BY <1>2
      <3>2. Stdio!Streams' = Stdio!Streams
        BY DEF Stdio!Streams
      <3> HIDE DEF Stdio!Streams
      <3> QED BY <1>1, <2>0, <3>1, <3>2 DEF Stdio!TypeOK
    <2>3. Stdio!TargetsLive'
      BY <1>1, <1>2, <1>5 DEF Stdio!TargetsLive, Stdio!Target
    <2> QED BY <1>2, <1>4, <2>1, <2>2, <2>3 DEF StdioIInv, Stdio!LastStatusCounts
  <1>6. ASSUME NEW file \in Files \ (open \cup allocated),
               open' = open \cup {file} /\ usable' = usable,
               stdio_stream' = [stdio_stream EXCEPT ![f] = file],
               fcgx_stream' = [fcgx_stream EXCEPT ![f] = NULL]
        PROVE  StdioIInv'
    <2>1. Pointers'
      BY <1>1, <1>2, <1>3, <1>6 DEF Pointers
    <2>2. Stdio!TypeOK'
      BY <1>1, <1>2, <1>6, <2>1 DEF Stdio!TypeOK, Pointers
    <2>3. \A g \in usable : \/ g = f /\ stdio_stream'[g] = file
                            \/ /\ g # f /\ stdio_stream'[g] = stdio_stream[g]
                               /\ fcgx_stream'[g] = fcgx_stream[g]
      BY <1>1, <1>6 DEF Pointers, Stdio!TypeOK
    <2>4. \A g \in usable : stdio_stream[g] # NULL => stdio_stream[g] \in open
      BY <1>1 DEF Stdio!TargetsLive, Stdio!Target
    <2>5. Distinct'
      BY <1>1, <1>6, <2>3, <2>4 DEF Distinct
    <2>6. Stdio!TargetsLive'
      BY <1>1, <1>2, <1>6, <2>3, <2>4 DEF Stdio!TargetsLive, Stdio!Target
    <2> QED BY <1>2, <1>4, <2>1, <2>2, <2>5, <2>6 DEF StdioIInv, Stdio!LastStatusCounts
  <1> QED BY <1>5, <1>6 DEF Stdio!FreopenStream

LEMMA StdioStep ==
  ASSUME StdioIInv, Stdio!Next
  PROVE  StdioIInv'
  <1>1. CASE Stdio!AcceptCGI \/ Stdio!AcceptRequest \/ Stdio!AcceptFails \/ Stdio!Finish
    BY <1>1, AcceptCGIStep, AcceptRequestStep, AcceptFailsStep, FinishStep
  <1>2. CASE \E status \in Statuses : Stdio!SetExitStatus(status)
    BY <1>2, SetExitStatusStep
  <1>3. ASSUME NEW f \in Stdio!FcgiFiles,
               Stdio!Fopen(f) \/ Stdio!Fclose(f) \/ Stdio!Pclose(f) \/ Stdio!FreopenFile(f) \/ Stdio!FreopenStream(f)
        PROVE  StdioIInv'
    BY <1>3, FopenStep, FcloseStep, FreopenFileStep, FreopenStreamStep DEF Stdio!Pclose
  <1> QED BY <1>1, <1>2, <1>3 DEF Stdio!Next

LEMMA StdioInitial ==
  ASSUME Stdio!Init
  PROVE  StdioIInv
  <1> USE StdioConstants
  <1> HIDE DEF Stdio!Std, Stdio!FcgiFiles
  <1>1. Pointers
    BY DEF Stdio!Init, Pointers
  <1>2. Stdio!TypeOK
    <2>1. /\ mayClose \in BOOLEAN /\ acceptCalled = FALSE /\ isCGI = FALSE /\ request = 0 /\ accepted = 0
          /\ appStatus = 0 /\ allocated = {} /\ open = Stdio!Std /\ usable = {} /\ wanted = NULL
          /\ \A f \in Stdio!FcgiFiles : stdio_stream[f] = NULL /\ fcgx_stream[f] = NULL
      BY DEF Stdio!Init
    <2>2. 0 \in 0 .. MaxRequests
      OBVIOUS
    <2> QED BY <2>1, <2>2 DEF Stdio!TypeOK
  <1> QED BY <1>1, <1>2 DEF Stdio!Init, StdioIInv, Stdio!TargetsLive, Distinct, NotAccepted, Stdio!LastStatusCounts

LEMMA StdioChecked ==
  ASSUME StdioIInv
  PROVE  StdioInv
  <1>1. Stdio!Owned
    <2> SUFFICES ASSUME ~mayClose, NEW file \in open \ Stdio!Std
                 PROVE  \E f \in allocated : stdio_stream[f] = file
      BY DEF Stdio!Owned
    <2>1. file \in allocated /\ allocated \subseteq Files
      BY DEF StdioIInv, Stdio!TypeOK
    <2>2. stdio_stream[file] = file
      BY <2>1 DEF StdioIInv, Pointers
    <2> QED BY <2>1, <2>2
  <1> QED BY <1>1 DEF StdioIInv, StdioInv, Stdio!FilesInv
-----------------------------------------------------------------------------
(* FcgiStreambuf.                                                          *)

\* The get area is the last part of what was fetched, and gptr is as far in
\* it as the application is; after EOF nothing more is read.
GetArea ==
    /\ result = expected
    /\ egptr <= fetched
    /\ \A i \in 0 .. egptr - 1 : buf[i] = <<stream, fetched - egptr + i + 1>>
    /\ gptr <= egptr + 1
    /\ result # EOF => gptr <= egptr /\ removed = fetched - egptr + gptr

\* The FCGX_Stream took a first part of what was written; the put area is the
\* rest until the stream fails, and an empty one says that nothing is missing.
PutArea ==
    /\ Len(taken) <= written
    /\ \A i \in 1 .. Len(taken) : taken[i] = i
    /\ area = <<>> => Len(taken) = written
    /\ ~failed => /\ Len(taken) + Len(area) = written
                  /\ \A i \in 1 .. Len(area) : area[i] = Len(taken) + i
    /\ synced <= Len(taken)
    /\ destroyed /\ ~failed => area = <<>>

StreambufIInv == Streambuf!TypeOK /\ GetArea /\ PutArea

LEMMA StreambufTypes ==
  ASSUME Streambuf!TypeOK
  PROVE  /\ BufferSize \in Nat /\ BufferSize # 0 /\ MaxStreams \in Nat /\ MaxStreams # 0
         /\ Length \in Nat /\ MaxWrites \in Nat
         /\ stream \in Nat /\ stream <= MaxStreams /\ bufsize \in {0, BufferSize} /\ bufsize \in Nat
         /\ fetched \in Nat /\ fetched <= Length /\ removed \in Nat /\ removed <= Length
         /\ gptr \in Nat /\ gptr <= BufferSize + 1 /\ egptr \in Nat /\ egptr <= bufsize
         /\ area \in Seq(1 .. MaxWrites) /\ taken \in Seq(1 .. MaxWrites)
         /\ Len(area) \in Nat /\ Len(taken) \in Nat /\ Len(area) <= bufsize
         /\ written \in Nat /\ written <= MaxWrites /\ synced \in Nat /\ synced <= written
  <1>1. /\ BufferSize \in Nat /\ BufferSize # 0 /\ MaxStreams \in Nat /\ MaxStreams # 0
        /\ Length \in Nat /\ MaxWrites \in Nat
    BY InterfacesAssumption DEF Streambuf!StreambufAssumption
  <1>2. area \in Seq(1 .. MaxWrites) /\ taken \in Seq(1 .. MaxWrites) /\ Len(area) <= bufsize
    BY DEF Streambuf!TypeOK
  <1>3. Len(area) \in Nat /\ Len(taken) \in Nat
    BY <1>2
  <1>4. /\ stream \in 1 .. MaxStreams /\ bufsize \in {0, BufferSize}
        /\ fetched \in 0 .. Length /\ removed \in 0 .. Length
        /\ gptr \in 0 .. BufferSize + 1 /\ egptr \in 0 .. bufsize
        /\ written \in 0 .. MaxWrites /\ synced \in 0 .. written
    BY DEF Streambuf!TypeOK
  <1>5. /\ stream \in Nat /\ stream <= MaxStreams /\ bufsize \in Nat
        /\ fetched \in Nat /\ fetched <= Length /\ removed \in Nat /\ removed <= Length
        /\ gptr \in Nat /\ gptr <= BufferSize + 1 /\ written \in Nat /\ written <= MaxWrites
    BY <1>1, <1>4
  <1>6. egptr \in Nat /\ egptr <= bufsize /\ synced \in Nat /\ synced <= written
    BY <1>4, <1>5
  <1> QED BY <1>1, <1>2, <1>3, <1>4, <1>5, <1>6

\* What reading leaves alone, and writing.
LEMMA PutKept ==
  ASSUME PutArea, UNCHANGED <<Streambuf!put, destroyed>>
  PROVE  PutArea'
  BY DEF PutArea, Streambuf!put

LEMMA GetKept ==
  ASSUME GetArea, UNCHANGED <<Streambuf!get, stream>>
  PROVE  GetArea'
  BY DEF GetArea, Streambuf!get

LEMMA ReadTypes ==
  ASSUME Streambuf!TypeOK, UNCHANGED <<Streambuf!object, Streambuf!put>>,
         fetched' \in 0 .. Length, removed' \in 0 .. Length,
         gptr' \in 0 .. BufferSize + 1, egptr' \in 0 .. bufsize
  PROVE  Streambuf!TypeOK'
  BY DEF Streambuf!TypeOK, Streambuf!object, Streambuf!put

(* One call that reads on from the area, or fills it first.                *)
LEMMA UnderflowStep ==
  ASSUME Streambuf!TypeOK, GetArea, Streambuf!MayRead, bufsize # 0,
         NEW bump \in {0, 1}, Streambuf!Underflow(bump), UNCHANGED stream
  PROVE  /\ result' = Streambuf!After(removed)
         /\ fetched' \in Nat /\ fetched' <= Length /\ egptr' \in Nat /\ egptr' <= bufsize
         /\ egptr' <= fetched' /\ gptr' \in Nat /\ gptr' <= egptr' + 1
         /\ \A i \in 0 .. egptr' - 1 : buf'[i] = <<stream, fetched' - egptr' + i + 1>>
         /\ \/ removed = Length /\ result' = EOF
            \/ removed < Length /\ gptr' <= egptr' /\ removed + bump = fetched' - egptr' + gptr'
  <1>1. /\ BufferSize \in Nat /\ BufferSize # 0 /\ Length \in Nat /\ bufsize = BufferSize
        /\ fetched \in Nat /\ fetched <= Length /\ removed \in Nat /\ removed <= Length
        /\ gptr \in Nat /\ egptr \in Nat /\ egptr <= bufsize
    BY StreambufTypes
  <1>2. /\ egptr <= fetched /\ gptr <= egptr /\ removed = fetched - egptr + gptr
        /\ \A i \in 0 .. egptr - 1 : buf[i] = <<stream, fetched - egptr + i + 1>>
    BY DEF GetArea, Streambuf!MayRead
  <1>3. CASE gptr # egptr
    <2>1. gptr' = gptr + bump /\ result' = buf[gptr] /\ UNCHANGED <<buf, fetched, egptr>>
      BY <1>3 DEF Streambuf!Underflow, Streambuf!Refill
    <2>2. gptr \in 0 .. egptr - 1 /\ removed < Length /\ fetched - egptr + gptr + 1 = removed + 1
      BY <1>1, <1>2, <1>3
    <2>3. result' = <<stream, removed + 1>>
      BY <1>2, <2>1, <2>2
    <2>4. result' = Streambuf!After(removed)
      BY <2>2, <2>3 DEF Streambuf!After
    <2>5. /\ gptr' \in Nat /\ gptr' <= egptr /\ removed + bump = fetched - egptr + gptr'
      BY <1>1, <1>2, <1>3, <2>1
    <2> QED BY <1>1, <1>2, <2>1, <2>2, <2>4, <2>5
  <1>4. CASE gptr = egptr
    <2>1. removed = fetched
      BY <1>1, <1>2, <1>4
    <2>2. PICK glen \in Nat : /\ glen = Streambuf!Smaller(BufferSize, Length - fetched)
                              /\ glen <= BufferSize /\ glen <= Length - fetched
                              /\ glen = 0 => fetched = Length
      <3>1. CASE BufferSize < Length - fetched
        <4>1. Streambuf!Smaller(BufferSize, Length - fetched) = BufferSize
          BY <3>1 DEF Streambuf!Smaller
        <4>2. BufferSize <= Length - fetched
          BY <1>1, <3>1
        <4> QED BY <1>1, <4>1, <4>2
      <3>2. CASE ~(BufferSize < Length - fetched)
        <4>1. Streambuf!Smaller(BufferSize, Length - fetched) = Length - fetched
          BY <3>2 DEF Streambuf!Smaller
        <4>2. /\ Length - fetched \in Nat /\ Length - fetched <= BufferSize
              /\ Length - fetched = 0 => fetched = Length
          BY <1>1, <3>2
        <4> QED BY <4>1, <4>2
      <3> QED BY <3>1, <3>2
    <2>3. Streambuf!Refill(bump)
      BY <1>4 DEF Streambuf!Underflow
    <2>4. CASE glen = 0
      <3>1. gptr' = gptr + bump /\ result' = EOF /\ UNCHANGED <<buf, fetched, egptr>>
        BY <2>2, <2>3, <2>4 DEF Streambuf!Refill
      <3>2. removed = Length /\ result' = Streambuf!After(removed)
        BY <1>1, <2>1, <2>2, <2>4, <3>1 DEF Streambuf!After
      <3> QED BY <1>1, <1>2, <1>4, <3>1, <3>2
    <2>5. CASE glen # 0
      <3>1. /\ buf' = Streambuf!Filled(glen) /\ fetched' = fetched + glen /\ egptr' = glen /\ gptr' = bump
            /\ result' = Streambuf!Filled(glen)[0]
        BY <2>2, <2>3, <2>5 DEF Streambuf!Refill
      <3>2. \A i \in 0 .. glen - 1 : Streambuf!Filled(glen)[i] = <<stream, fetched + i + 1>>
        <4> SUFFICES ASSUME NEW i \in 0 .. glen - 1 PROVE Streambuf!Filled(glen)[i] = <<stream, fetched + i + 1>>
          OBVIOUS
        <4>1. i \in 0 .. BufferSize - 1 /\ i < glen
          BY <1>1, <2>2
        <4> QED BY <4>1 DEF Streambuf!Filled
      <3>3. 0 \in 0 .. glen - 1 /\ removed < Length
        BY <1>1, <2>1, <2>2, <2>5
      <3>4. result' = Streambuf!After(removed)
        BY <1>1, <2>1, <3>1, <3>2, <3>3 DEF Streambuf!After
      <3>5. \A i \in 0 .. egptr' - 1 : buf'[i] = <<stream, fetched' - egptr' + i + 1>>
        <4>1. fetched' - egptr' = fetched
          BY <1>1, <2>2, <3>1
        <4> QED BY <3>1, <3>2, <4>1
      <3>6. /\ fetched' \in Nat /\ fetched' <= Length /\ egptr' \in Nat /\ egptr' <= bufsize
            /\ egptr' <= fetched' /\ gptr' \in Nat /\ gptr' <= egptr'
            /\ removed + bump = fetched' - egptr' + gptr'
        BY <1>1, <2>1, <2>2, <2>5, <3>1
      <3>7. gptr' <= egptr' + 1
        <4>1. \A x, y \in Nat : x <= y => x <= y + 1
          OBVIOUS
        <4> QED BY <3>6, <4>1
      <3> QED BY <3>3, <3>4, <3>5, <3>6, <3>7
    <2> QED BY <2>4, <2>5
  <1> QED BY <1>3, <1>4

LEMMA SbumpcStep ==
  ASSUME StreambufIInv, Streambuf!Sbumpc
  PROVE  StreambufIInv'
  <1>1. /\ BufferSize \in Nat /\ BufferSize # 0 /\ Length \in Nat /\ bufsize \in {0, BufferSize}
        /\ fetched \in Nat /\ fetched <= Length /\ removed \in Nat /\ removed <= Length
        /\ gptr \in Nat /\ egptr \in Nat /\ egptr <= bufsize
    BY StreambufTypes DEF StreambufIInv
  <1>2. /\ Streambuf!MayRead /\ expected' = Streambuf!After(removed)
        /\ removed' = Streambuf!Smaller(removed + 1, Length)
        /\ UNCHANGED <<Streambuf!object, Streambuf!put>>
        /\ UNCHANGED <<stream, bufsize, destroyed>>
    BY DEF Streambuf!Sbumpc, Streambuf!object
  <1>3. PutArea'
    BY <1>2, PutKept DEF StreambufIInv
  <1>4. removed' \in 0 .. Length /\ (removed < Length => removed' = removed + 1)
    BY <1>1, <1>2 DEF Streambuf!Smaller
  <1>5. CASE bufsize = 0
    <2>1. /\ result' = Streambuf!After(fetched) /\ fetched' = Streambuf!Smaller(fetched + 1, Length)
          /\ UNCHANGED <<buf, gptr, egptr>>
      BY <1>5 DEF Streambuf!Sbumpc, Streambuf!GetChar
    <2>2. egptr = 0 /\ gptr = 0 /\ removed = fetched
      BY <1>1, <1>2, <1>5 DEF StreambufIInv, GetArea, Streambuf!MayRead
    <2>3. fetched' = removed' /\ fetched' \in 0 .. Length
      BY <1>2, <1>4, <2>1, <2>2
    <2>4. Streambuf!TypeOK'
      BY <1>1, <1>2, <1>4, <1>5, <2>1, <2>2, <2>3, ReadTypes DEF StreambufIInv
    <2>5. GetArea'
      BY <1>1, <1>2, <2>1, <2>2, <2>3 DEF GetArea
    <2> QED BY <1>3, <2>4, <2>5 DEF StreambufIInv
  <1>6. CASE bufsize # 0
    <2>1. Streambuf!Underflow(1)
      BY <1>6 DEF Streambuf!Sbumpc
    <2>2. /\ result' = Streambuf!After(removed)
          /\ fetched' \in Nat /\ fetched' <= Length /\ egptr' \in Nat /\ egptr' <= bufsize
          /\ egptr' <= fetched' /\ gptr' \in Nat /\ gptr' <= egptr' + 1
          /\ \A i \in 0 .. egptr' - 1 : buf'[i] = <<stream, fetched' - egptr' + i + 1>>
          /\ \/ removed = Length /\ result' = EOF
             \/ removed < Length /\ gptr' <= egptr' /\ removed + 1 = fetched' - egptr' + gptr'
      BY <1>2, <1>6, <2>1, UnderflowStep DEF StreambufIInv
    <2>3. Streambuf!TypeOK'
      <3>1. \A x, y, n \in Nat : x <= y + 1 /\ y <= n => x \in 0 .. n + 1 /\ y \in 0 .. n
        OBVIOUS
      <3>2. bufsize = BufferSize /\ fetched' \in 0 .. Length
        BY <1>1, <1>6, <2>2
      <3>3. gptr' \in 0 .. BufferSize + 1 /\ egptr' \in 0 .. bufsize
        BY <1>1, <2>2, <3>1, <3>2
      <3> QED BY <1>2, <1>4, <3>2, <3>3, ReadTypes DEF StreambufIInv
    <2>4. GetArea'
      BY <1>2, <1>4, <2>2 DEF GetArea
    <2> QED BY <1>3, <2>3, <2>4 DEF StreambufIInv
  <1> QED BY <1>5, <1>6

LEMMA SgetcStep ==
  ASSUME StreambufIInv, Streambuf!Sgetc
  PROVE  StreambufIInv'
  <1>1. /\ BufferSize \in Nat /\ Length \in Nat /\ bufsize \in {0, BufferSize}
        /\ removed \in Nat /\ removed <= Length
    BY StreambufTypes DEF StreambufIInv
  <1>2. /\ Streambuf!MayRead /\ bufsize # 0 /\ Streambuf!Underflow(0)
        /\ expected' = Streambuf!After(removed) /\ removed' = removed
        /\ UNCHANGED <<Streambuf!object, Streambuf!put>>
        /\ UNCHANGED <<stream, bufsize, destroyed>>
    BY DEF Streambuf!Sgetc, Streambuf!object
  <1>3. PutArea'
    BY <1>2, PutKept DEF StreambufIInv
  <1>4. /\ result' = Streambuf!After(removed)
        /\ fetched' \in Nat /\ fetched' <= Length /\ egptr' \in Nat /\ egptr' <= bufsize
        /\ egptr' <= fetched' /\ gptr' \in Nat /\ gptr' <= egptr' + 1
        /\ \A i \in 0 .. egptr' - 1 : buf'[i] = <<stream, fetched' - egptr' + i + 1>>
        /\ \/ removed = Length /\ result' = EOF
           \/ removed < Length /\ gptr' <= egptr' /\ removed + 0 = fetched' - egptr' + gptr'
    BY <1>2, UnderflowStep DEF StreambufIInv
  <1>5. Streambuf!TypeOK'
    <2>1. fetched' \in 0 .. Length
      BY <1>1, <1>4
    <2>2. gptr' \in 0 .. BufferSize + 1
      <3>1. \A x, y, n \in Nat : x <= y + 1 /\ y <= n => x \in 0 .. n + 1
        OBVIOUS
      <3>2. bufsize = BufferSize
        BY <1>1, <1>2
      <3> QED BY <1>1, <1>4, <3>1, <3>2
    <2>3. egptr' \in 0 .. bufsize
      BY <1>1, <1>4
    <2>4. removed' \in 0 .. Length
      BY <1>1, <1>2
    <2> QED BY <1>2, <2>1, <2>2, <2>3, <2>4, ReadTypes DEF StreambufIInv
  <1>6. GetArea'
    <2>1. removed + 0 = removed
      BY <1>1
    <2> QED BY <1>2, <1>4, <2>1 DEF GetArea
  <1> QED BY <1>3, <1>5, <1>6 DEF StreambufIInv

LEMMA SungetcStep ==
  ASSUME StreambufIInv, Streambuf!Sungetc
  PROVE  StreambufIInv'
  <1>1. /\ BufferSize \in Nat /\ Length \in Nat /\ bufsize \in {0, BufferSize}
        /\ fetched \in Nat /\ fetched <= Length /\ removed \in Nat /\ removed <= Length
        /\ gptr \in Nat /\ gptr <= BufferSize + 1 /\ egptr \in Nat /\ egptr <= bufsize
    BY StreambufTypes DEF StreambufIInv
  <1>2. /\ Streambuf!MayRead /\ gptr > 0 /\ gptr' = gptr - 1 /\ result' = buf[gptr - 1]
        /\ expected' = Streambuf!After(removed - 1) /\ removed' = removed - 1
        /\ UNCHANGED <<Streambuf!object, Streambuf!put>>
        /\ UNCHANGED <<stream, bufsize, destroyed, fetched, buf, egptr>>
    BY DEF Streambuf!Sungetc, Streambuf!object
  <1>3. PutArea'
    BY <1>2, PutKept DEF StreambufIInv
  <1>4. /\ egptr <= fetched /\ gptr <= egptr /\ removed = fetched - egptr + gptr
        /\ \A i \in 0 .. egptr - 1 : buf[i] = <<stream, fetched - egptr + i + 1>>
    BY <1>2 DEF StreambufIInv, GetArea, Streambuf!MayRead
  <1>5. /\ gptr - 1 \in 0 .. egptr - 1 /\ removed - 1 < Length
        /\ fetched - egptr + (gptr - 1) + 1 = removed - 1 + 1
    BY <1>1, <1>2, <1>4
  <1>6. result' = <<stream, removed - 1 + 1>>
    BY <1>2, <1>4, <1>5
  <1>7. result' = expected'
    BY <1>2, <1>5, <1>6 DEF Streambuf!After
  <1>8. Streambuf!TypeOK'
    <2>1. fetched' \in 0 .. Length /\ egptr' \in 0 .. bufsize
      BY <1>1, <1>2
    <2>2. gptr' \in 0 .. BufferSize + 1
      BY <1>1, <1>2
    <2>3. removed' \in 0 .. Length
      <3>1. removed - 1 \in Nat /\ removed - 1 <= Length
        BY <1>1, <1>2, <1>4
      <3> QED BY <1>1, <1>2, <3>1
    <2> QED BY <1>2, <2>1, <2>2, <2>3, ReadTypes DEF StreambufIInv
  <1>9. GetArea'
    <2>1. gptr' <= egptr' /\ removed' = fetched' - egptr' + gptr' /\ gptr' <= egptr' + 1
      BY <1>1, <1>2, <1>4
    <2> QED BY <1>2, <1>4, <1>7, <2>1 DEF GetArea
  <1> QED BY <1>3, <1>8, <1>9 DEF StreambufIInv

-----------------------------------------------------------------------------
\* Putting one piece behind another.
LEMMA Counted ==
  ASSUME NEW m \in Nat, NEW s \in Seq(1 .. m), NEW u \in Seq(1 .. m),
         \A i \in 1 .. Len(s) : s[i] = i, \A i \in 1 .. Len(u) : u[i] = Len(s) + i
  PROVE  /\ s \o u \in Seq(1 .. m) /\ Len(s \o u) = Len(s) + Len(u)
         /\ \A i \in 1 .. Len(s \o u) : (s \o u)[i] = i
  <1>1. s \o u \in Seq(1 .. m) /\ Len(s \o u) = Len(s) + Len(u)
    OBVIOUS
  <1>2. ASSUME NEW i \in 1 .. Len(s \o u)
        PROVE  (s \o u)[i] = i
    <2>1. CASE i <= Len(s)
      BY <1>1, <2>1
    <2>2. CASE i > Len(s)
      <3>1. (s \o u)[i] = u[i - Len(s)]
        BY <1>1, <2>2
      <3>2. i - Len(s) \in 1 .. Len(u) /\ Len(s) + (i - Len(s)) = i
        BY <1>1, <2>2
      <3> QED BY <3>1, <3>2
    <2> QED BY <1>1, <2>1, <2>2
  <1> QED BY <1>1, <1>2

\* The stream takes the area, and the character after it if there is one.
LEMMA OverflowTakes ==
  ASSUME Streambuf!TypeOK, PutArea, NEW c \in {<<>>, <<written + 1>>}, c = <<>> \/ written < MaxWrites,
         ~failed \/ area \o c = <<>>
  PROVE  /\ taken \o area \o c \in Seq(1 .. MaxWrites)
         /\ Len(taken \o area \o c) = written + Len(c)
         /\ \A i \in 1 .. Len(taken \o area \o c) : (taken \o area \o c)[i] = i
  <1>1. /\ MaxWrites \in Nat /\ area \in Seq(1 .. MaxWrites) /\ taken \in Seq(1 .. MaxWrites)
        /\ Len(area) \in Nat /\ Len(taken) \in Nat /\ written \in Nat /\ written <= MaxWrites
    BY StreambufTypes
  <1>2. area = <<>> \/ ~failed
    <2>1. CASE area \o c = <<>>
      <3>1. Len(area \o c) = Len(area) + Len(c) /\ Len(c) \in Nat
        BY <1>1
      <3> QED BY <1>1, <2>1, <3>1
    <2> QED BY <2>1
  <1>3. /\ Len(taken) + Len(area) = written
        /\ \A i \in 1 .. Len(area) : area[i] = Len(taken) + i
    <2>1. CASE area = <<>>
      BY <1>1, <2>1 DEF PutArea
    <2> QED BY <1>2, <2>1 DEF PutArea
  <1>4. \A i \in 1 .. Len(taken) : taken[i] = i
    BY DEF PutArea
  <1>5. /\ taken \o area \in Seq(1 .. MaxWrites) /\ Len(taken \o area) = written
        /\ \A i \in 1 .. Len(taken \o area) : (taken \o area)[i] = i
    <2>1. /\ taken \o area \in Seq(1 .. MaxWrites) /\ Len(taken \o area) = Len(taken) + Len(area)
          /\ \A i \in 1 .. Len(taken \o area) : (taken \o area)[i] = i
      BY <1>1, <1>3, <1>4, Counted
    <2> QED BY <1>3, <2>1
  <1>6. CASE c = <<>>
    <2>1. taken \o area \o c = taken \o area /\ Len(c) = 0
      BY <1>5, <1>6
    <2> QED BY <1>1, <1>5, <2>1
  <1>7. CASE c # <<>>
    <2>1. c = <<written + 1>> /\ written + 1 \in 1 .. MaxWrites
      BY <1>1, <1>7
    <2>2. c \in Seq(1 .. MaxWrites) /\ Len(c) = 1 /\ \A i \in 1 .. Len(c) : c[i] = written + i
      BY <1>1, <2>1
    <2> QED BY <1>1, <1>5, <2>2, Counted
  <1> QED BY <1>6, <1>7

\* What writing leaves alone.
LEMMA WriteTypes ==
  ASSUME Streambuf!TypeOK, UNCHANGED <<writes, stream, bufsize, Streambuf!get>>,
         destroyed' \in BOOLEAN, failed' \in BOOLEAN,
         area' \in Seq(1 .. MaxWrites), Len(area') <= bufsize, taken' \in Seq(1 .. MaxWrites),
         written' \in 0 .. MaxWrites, synced' \in 0 .. written'
  PROVE  Streambuf!TypeOK'
  BY DEF Streambuf!TypeOK, Streambuf!get

LEMMA OverflowDoneStep ==
  ASSUME StreambufIInv, NEW c \in {<<>>, <<written + 1>>}, c = <<>> \/ written < MaxWrites,
         Streambuf!OverflowDone(c), written' = written + Len(c), synced' \in {synced, written},
         UNCHANGED <<writes, stream, bufsize, Streambuf!get>>, destroyed' \in BOOLEAN
  PROVE  StreambufIInv'
  <1>1. /\ MaxWrites \in Nat /\ bufsize \in Nat /\ written \in Nat /\ written <= MaxWrites
        /\ synced \in Nat /\ synced <= written /\ failed \in BOOLEAN
    BY StreambufTypes DEF StreambufIInv, Streambuf!TypeOK
  <1>2. /\ ~failed \/ area \o c = <<>>
        /\ taken' = taken \o area \o c /\ area' = <<>> /\ failed' = failed
    BY DEF Streambuf!OverflowDone
  <1>3. /\ taken' \in Seq(1 .. MaxWrites) /\ Len(taken') = written'
        /\ \A i \in 1 .. Len(taken') : taken'[i] = i
    BY <1>2, OverflowTakes DEF StreambufIInv
  <1>4. Len(c) \in {0, 1} /\ (Len(c) = 1 => written < MaxWrites)
    OBVIOUS
  <1>5. /\ written' \in Nat /\ written' <= MaxWrites /\ synced' \in Nat /\ synced' <= written'
    <2>1. written' = written \/ (written' = written + 1 /\ written < MaxWrites)
      <3>1. CASE Len(c) = 0
        <4>1. written' = written + 0
          BY <3>1
        <4> QED BY <1>1, <4>1
      <3>2. CASE Len(c) = 1
        <4>1. written' = written + 1
          BY <3>2
        <4> QED BY <1>4, <3>2, <4>1
      <3> QED BY <1>4, <3>1, <3>2
    <2>2. synced' = synced \/ synced' = written
      OBVIOUS
    <2> QED BY <1>1, <2>1, <2>2
  <1>6. area' \in Seq(1 .. MaxWrites) /\ Len(area') = 0
    BY <1>2
  <1>7. Streambuf!TypeOK'
    <2>1. written' \in 0 .. MaxWrites /\ synced' \in 0 .. written'
      BY <1>1, <1>5
    <2>2. Len(area') <= bufsize
      BY <1>1, <1>6
    <2> QED BY <1>1, <1>2, <1>3, <1>6, <2>1, <2>2, WriteTypes DEF StreambufIInv
  <1>8. GetArea'
    BY GetKept DEF StreambufIInv
  <1>9. PutArea'
    <2>1. /\ Len(taken') <= written' /\ synced' <= Len(taken')
          /\ Len(taken') + Len(area') = written'
      BY <1>3, <1>5, <1>6
    <2>2. \A i \in 1 .. Len(area') : area'[i] = Len(taken') + i
      BY <1>6
    <2> QED BY <1>2, <1>3, <2>1, <2>2 DEF PutArea
  <1> QED BY <1>7, <1>8, <1>9 DEF StreambufIInv

LEMMA OverflowFailsStep ==
  ASSUME StreambufIInv, NEW c \in {<<>>, <<written + 1>>},
         Streambuf!OverflowFails(c), UNCHANGED <<written, synced>>,
         UNCHANGED <<writes, stream, bufsize, Streambuf!get>>, destroyed' \in BOOLEAN
  PROVE  StreambufIInv'
  <1>1. /\ MaxWrites \in Nat /\ bufsize \in Nat /\ written \in Nat /\ written <= MaxWrites
        /\ synced \in Nat /\ synced <= written
        /\ area \in Seq(1 .. MaxWrites) /\ taken \in Seq(1 .. MaxWrites)
        /\ Len(area) \in Nat /\ Len(taken) \in Nat /\ Len(area) <= bufsize
    BY StreambufTypes DEF StreambufIInv
  <1>2. failed' = TRUE
    BY DEF Streambuf!OverflowFails
  <1>3. /\ Len(taken) <= written /\ synced <= Len(taken)
        /\ \A i \in 1 .. Len(taken) : taken[i] = i
        /\ area = <<>> => Len(taken) = written
        /\ ~failed => /\ Len(taken) + Len(area) = written
                      /\ \A i \in 1 .. Len(area) : area[i] = Len(taken) + i
    BY DEF StreambufIInv, PutArea
  <1>4. /\ area' \in Seq(1 .. MaxWrites) /\ taken' \in Seq(1 .. MaxWrites) /\ Len(area') <= bufsize
        /\ Len(taken') \in Nat /\ Len(taken') <= written /\ synced <= Len(taken')
        /\ \A i \in 1 .. Len(taken') : taken'[i] = i
        /\ area' = <<>> => Len(taken') = written
    <2>1. CASE UNCHANGED <<area, taken>>
      BY <1>1, <1>3, <2>1
    <2>2. CASE ~failed /\ (\E n \in 0 .. Len(area) - 1 : taken' = taken \o SubSeq(area, 1, n)) /\ UNCHANGED area
      <3>0. PICK n \in 0 .. Len(area) - 1 : taken' = taken \o SubSeq(area, 1, n)
        BY <2>2
      <3>3. n \in Nat /\ n < Len(area) /\ \A i \in 1 .. n : i \in 1 .. Len(area)
        BY <1>1
      <3>2. PICK u \in Seq(1 .. MaxWrites) : u = SubSeq(area, 1, n) /\ Len(u) = n /\ \A i \in 1 .. n : u[i] = area[i]
        <4>1. \A i \in 1 .. n : area[i] \in 1 .. MaxWrites
          BY <1>1, <3>3
        <4>2. /\ SubSeq(area, 1, n) = [i \in 1 .. n |-> area[i]]
              /\ Len(SubSeq(area, 1, n)) = n /\ SubSeq(area, 1, n) \in Seq(1 .. MaxWrites)
          <5>1. 1 \in Nat /\ n <= Len(area)
            BY <1>1, <3>3
          <5> QED BY <1>1, <3>3, <4>1, <5>1
        <4> QED BY <4>2
      <3>1. taken' = taken \o u
        BY <3>0, <3>2
      <3>4. \A i \in 1 .. Len(u) : u[i] = Len(taken) + i
        BY <1>3, <2>2, <3>2, <3>3
      <3>5. /\ taken' \in Seq(1 .. MaxWrites) /\ Len(taken') = Len(taken) + n
            /\ \A i \in 1 .. Len(taken') : taken'[i] = i
        <4>1. /\ taken \o u \in Seq(1 .. MaxWrites) /\ Len(taken \o u) = Len(taken) + Len(u)
              /\ \A i \in 1 .. Len(taken \o u) : (taken \o u)[i] = i
          BY <1>1, <1>3, <3>2, <3>4, Counted
        <4> QED BY <3>1, <3>2, <4>1
      <3>6. area' = area /\ area # <<>>
        BY <1>1, <2>2, <3>3
      <3>7. Len(taken') \in Nat /\ Len(taken') <= written /\ synced <= Len(taken')
        <4>1. Len(taken') = Len(taken) + n
          BY <3>5
        <4>2. Len(taken) + Len(area) = written /\ synced <= Len(taken)
          BY <1>3, <2>2
        <4>3. {Len(taken), Len(area), written, synced, n} \subseteq Nat /\ n < Len(area)
          BY <1>1, <3>3
        <4> QED BY <4>1, <4>2, <4>3
      <3> QED BY <1>1, <3>5, <3>6, <3>7
    <2>3. CASE ~failed /\ taken' = taken \o area /\ area' = <<>>
      <3>1. /\ taken' \in Seq(1 .. MaxWrites) /\ Len(taken') = written
            /\ \A i \in 1 .. Len(taken') : taken'[i] = i
        BY <1>1, <1>3, <2>3, Counted
      <3> QED BY <1>1, <2>3, <3>1
    <2> QED BY <2>1, <2>2, <2>3 DEF Streambuf!OverflowFails
  <1>5. Streambuf!TypeOK'
    <2>1. written' \in 0 .. MaxWrites /\ synced' \in 0 .. written'
      BY <1>1
    <2> QED BY <1>2, <1>4, <2>1, WriteTypes DEF StreambufIInv
  <1>6. GetArea'
    BY GetKept DEF StreambufIInv
  <1>7. PutArea'
    BY <1>2, <1>3, <1>4 DEF PutArea
  <1> QED BY <1>5, <1>6, <1>7 DEF StreambufIInv

LEMMA StoredInArea ==
  ASSUME StreambufIInv, Streambuf!MayWrite, written < MaxWrites, Streambuf!Store,
         UNCHANGED <<Streambuf!object, synced, Streambuf!get>>
  PROVE  StreambufIInv'
  <1>1. /\ MaxWrites \in Nat /\ bufsize \in Nat /\ written \in Nat /\ written <= MaxWrites
        /\ synced \in Nat /\ synced <= written
        /\ area \in Seq(1 .. MaxWrites) /\ taken \in Seq(1 .. MaxWrites)
        /\ Len(area) \in Nat /\ Len(taken) \in Nat
    BY StreambufTypes DEF StreambufIInv
  <1>2. /\ Len(area) < bufsize /\ area' = Append(area, written + 1) /\ written' = written + 1
        /\ taken' = taken /\ failed' = failed /\ synced' = synced /\ ~destroyed
        /\ UNCHANGED <<writes, stream, bufsize, Streambuf!get>> /\ destroyed' = destroyed
    BY DEF Streambuf!Store, Streambuf!MayWrite, Streambuf!object
  <1>3. failed \in BOOLEAN /\ destroyed \in BOOLEAN
    BY DEF StreambufIInv, Streambuf!TypeOK
  <1>4. /\ Len(taken) <= written /\ synced <= Len(taken)
        /\ \A i \in 1 .. Len(taken) : taken[i] = i
        /\ ~failed => /\ Len(taken) + Len(area) = written
                      /\ \A i \in 1 .. Len(area) : area[i] = Len(taken) + i
    BY DEF StreambufIInv, PutArea
  <1>5. written + 1 \in 1 .. MaxWrites
    BY <1>1
  <1>6. /\ area' \in Seq(1 .. MaxWrites) /\ Len(area') = Len(area) + 1
        /\ \A i \in 1 .. Len(area) : area'[i] = area[i]
        /\ area'[Len(area) + 1] = written + 1
    BY <1>1, <1>2, <1>5
  <1>7. Streambuf!TypeOK'
    <2>1. written' \in 0 .. MaxWrites /\ synced' \in 0 .. written' /\ Len(area') <= bufsize
      BY <1>1, <1>2, <1>6
    <2> QED BY <1>1, <1>2, <1>3, <1>6, <2>1, WriteTypes DEF StreambufIInv
  <1>8. GetArea'
    BY <1>2, GetKept DEF StreambufIInv
  <1>9. PutArea'
    <2>1. Len(taken') <= written' /\ synced' <= Len(taken') /\ area' # <<>>
      <3>1. Len(taken) <= written + 1 /\ Len(area) + 1 # 0
        BY <1>1, <1>4
      <3> QED BY <1>2, <1>4, <1>6, <3>1
    <2>2. ~failed' => /\ Len(taken') + Len(area') = written'
                      /\ \A i \in 1 .. Len(area') : area'[i] = Len(taken') + i
      <3>1. \A i \in 1 .. Len(area) + 1 : i \in 1 .. Len(area) \/ i = Len(area) + 1
        BY <1>1
      <3>2. ~failed => Len(taken) + Len(area) + 1 = written + 1 /\ Len(taken) + (Len(area) + 1) = written + 1
        <4>1. \A t, a \in Nat : t + a = written => t + a + 1 = written + 1 /\ t + (a + 1) = written + 1
          OBVIOUS
        <4> QED BY <1>1, <1>4, <4>1
      <3> QED BY <1>2, <1>4, <1>6, <3>1, <3>2
    <2> QED BY <1>2, <1>4, <2>1, <2>2 DEF PutArea
  <1> QED BY <1>7, <1>8, <1>9 DEF StreambufIInv

LEMMA SputcStep ==
  ASSUME StreambufIInv, Streambuf!Sputc
  PROVE  StreambufIInv'
  <1>1. /\ Streambuf!MayWrite /\ written < MaxWrites /\ written \in Nat
        /\ UNCHANGED <<writes, stream, bufsize, Streambuf!get>>
        /\ UNCHANGED <<Streambuf!object, synced, Streambuf!get>>
        /\ synced' = synced /\ destroyed' \in BOOLEAN
    BY StreambufTypes DEF Streambuf!Sputc, Streambuf!object, StreambufIInv, Streambuf!TypeOK
  <1>2. CASE Streambuf!Store
    BY <1>1, <1>2, StoredInArea
  <1>3. CASE Streambuf!OverflowDone(<<written + 1>>) /\ written' = written + 1
    <2>1. Len(<<written + 1>>) = 1
      OBVIOUS
    <2> QED BY <1>1, <1>3, <2>1, OverflowDoneStep
  <1>4. CASE Streambuf!OverflowFails(<<written + 1>>) /\ UNCHANGED written
    BY <1>1, <1>4, OverflowFailsStep
  <1> QED BY <1>2, <1>3, <1>4 DEF Streambuf!Sputc

LEMMA SyncStep ==
  ASSUME StreambufIInv, Streambuf!Sync
  PROVE  StreambufIInv'
  <1>1. /\ written' = written /\ written \in Nat /\ written + Len(<<>>) = written
        /\ UNCHANGED <<writes, stream, bufsize, Streambuf!get>> /\ destroyed' \in BOOLEAN
    BY StreambufTypes DEF Streambuf!Sync, Streambuf!object, StreambufIInv, Streambuf!TypeOK
  <1>2. CASE Streambuf!OverflowDone(<<>>) /\ synced' \in {synced, written}
    BY <1>1, <1>2, OverflowDoneStep
  <1>3. CASE Streambuf!OverflowFails(<<>>) /\ UNCHANGED synced
    BY <1>1, <1>3, OverflowFailsStep
  <1> QED BY <1>2, <1>3 DEF Streambuf!Sync

LEMMA DestroyStep ==
  ASSUME StreambufIInv, Streambuf!Destroy
  PROVE  StreambufIInv'
  <1>1. /\ written' = written /\ synced' = synced /\ written \in Nat /\ written + Len(<<>>) = written
        /\ UNCHANGED <<writes, stream, bufsize, Streambuf!get>> /\ destroyed' \in BOOLEAN
    BY StreambufTypes DEF Streambuf!Destroy, StreambufIInv
  <1>2. CASE Streambuf!OverflowDone(<<>>)
    BY <1>1, <1>2, OverflowDoneStep
  <1>3. CASE Streambuf!OverflowFails(<<>>)
    BY <1>1, <1>3, OverflowFailsStep
  <1> QED BY <1>2, <1>3 DEF Streambuf!Destroy
-----------------------------------------------------------------------------
LEMMA SetbufStep ==
  ASSUME StreambufIInv, Streambuf!Setbuf
  PROVE  StreambufIInv'
  <1>1. /\ BufferSize \in Nat /\ fetched \in Nat /\ removed \in Nat /\ gptr \in Nat
        /\ egptr \in Nat /\ egptr <= bufsize /\ Len(area) \in Nat /\ Len(area) <= bufsize
        /\ area \in Seq(1 .. MaxWrites)
    BY StreambufTypes DEF StreambufIInv
  <1>2. /\ bufsize = 0 /\ bufsize' = BufferSize /\ gptr' = 0 /\ egptr' = 0 /\ area' = <<>>
        /\ UNCHANGED <<writes, stream, destroyed, fetched, buf, removed, result, expected>>
        /\ UNCHANGED <<taken, failed, written, synced>>
    BY DEF Streambuf!Setbuf
  <1>3. egptr = 0 /\ area = <<>>
    BY <1>1, <1>2
  <1>4. Streambuf!TypeOK'
    <2>1. /\ area' \in Seq(1 .. MaxWrites) /\ Len(area') <= bufsize'
          /\ gptr' \in 0 .. BufferSize + 1 /\ egptr' \in 0 .. bufsize'
      BY <1>1, <1>2
    <2> QED BY <1>2, <2>1 DEF StreambufIInv, Streambuf!TypeOK
  <1>5. GetArea'
    <2>1. /\ result = expected /\ gptr <= egptr + 1
          /\ result # EOF => gptr <= egptr /\ removed = fetched - egptr + gptr
      BY DEF StreambufIInv, GetArea
    <2>2. result # EOF => gptr = 0 /\ removed = fetched - 0 + 0
      BY <1>1, <1>3, <2>1
    <2>3. egptr' <= fetched' /\ gptr' <= egptr' + 1 /\ gptr' <= egptr'
      BY <1>1, <1>2
    <2>4. \A i \in 0 .. egptr' - 1 : buf'[i] = <<stream', fetched' - egptr' + i + 1>>
      BY <1>2
    <2> QED BY <1>2, <2>1, <2>2, <2>3, <2>4 DEF GetArea
  <1>6. PutArea'
    BY <1>2, <1>3 DEF StreambufIInv, PutArea
  <1> QED BY <1>4, <1>5, <1>6 DEF StreambufIInv

LEMMA AttachStep ==
  ASSUME StreambufIInv, Streambuf!Attach
  PROVE  StreambufIInv'
  <1>1. /\ BufferSize \in Nat /\ Length \in Nat /\ MaxWrites \in Nat /\ bufsize \in Nat
        /\ stream \in Nat /\ stream < MaxStreams /\ MaxStreams \in Nat
        /\ writes \in BOOLEAN /\ bufsize \in {0, BufferSize} /\ stream \in 1 .. MaxStreams
    BY StreambufTypes DEF StreambufIInv, Streambuf!Attach, Streambuf!NewStream, Streambuf!TypeOK
  <1>2. /\ ~destroyed /\ destroyed' = destroyed /\ stream' = stream + 1
        /\ gptr' = 0 /\ egptr' = 0 /\ area' = <<>> /\ fetched' = 0 /\ removed' = 0
        /\ result' = Garbage /\ expected' = Garbage
        /\ taken' = <<>> /\ failed' = FALSE /\ written' = 0 /\ synced' = 0
        /\ UNCHANGED <<writes, bufsize>>
    BY DEF Streambuf!Attach, Streambuf!NewStream
  <1>3. Streambuf!TypeOK'
    <2>1. /\ stream' \in 1 .. MaxStreams /\ fetched' \in 0 .. Length /\ removed' \in 0 .. Length
          /\ gptr' \in 0 .. BufferSize + 1 /\ egptr' \in 0 .. bufsize'
          /\ written' \in 0 .. MaxWrites /\ synced' \in 0 .. written'
      <3>1. /\ stream + 1 \in 1 .. MaxStreams /\ 0 \in 0 .. Length /\ 0 \in 0 .. BufferSize + 1
            /\ 0 \in 0 .. bufsize /\ 0 \in 0 .. MaxWrites /\ 0 \in 0 .. 0
        BY <1>1
      <3> QED BY <1>2, <3>1
    <2>2. area' \in Seq(1 .. MaxWrites) /\ Len(area') <= bufsize' /\ taken' \in Seq(1 .. MaxWrites)
      BY <1>1, <1>2
    <2>3. destroyed' \in BOOLEAN /\ failed' \in BOOLEAN /\ writes' \in BOOLEAN /\ bufsize' \in {0, BufferSize}
      <3>1. destroyed \in BOOLEAN
        BY DEF StreambufIInv, Streambuf!TypeOK
      <3>2. destroyed' \in BOOLEAN
        BY <1>2, <3>1
      <3>3. failed' \in BOOLEAN
        BY <1>2
      <3> QED BY <1>1, <1>2, <3>2, <3>3
    <2> QED BY <2>1, <2>2, <2>3 DEF Streambuf!TypeOK
  <1>4. GetArea'
    <2>1. /\ egptr' <= fetched' /\ gptr' <= egptr' + 1 /\ gptr' <= egptr'
          /\ removed' = fetched' - egptr' + gptr'
      BY <1>2
    <2>2. \A i \in 0 .. egptr' - 1 : buf'[i] = <<stream', fetched' - egptr' + i + 1>>
      BY <1>2
    <2> QED BY <1>2, <2>1, <2>2 DEF GetArea
  <1>5. PutArea'
    <2>1. Len(taken') = 0 /\ Len(area') = 0
      BY <1>2
    <2> QED BY <1>2, <2>1 DEF PutArea
  <1> QED BY <1>3, <1>4, <1>5 DEF StreambufIInv

LEMMA StreambufKept ==
  ASSUME StreambufIInv, UNCHANGED streambufVars
  PROVE  StreambufIInv'
  <1>1. /\ UNCHANGED <<writes, stream, bufsize, destroyed>>
        /\ UNCHANGED <<fetched, buf, gptr, egptr, removed, result, expected>>
        /\ UNCHANGED <<area, taken, failed, written, synced>>
    BY DEF streambufVars
  <1>2. Streambuf!TypeOK'
    BY <1>1 DEF StreambufIInv, Streambuf!TypeOK
  <1>3. GetArea'
    BY <1>1, GetKept DEF StreambufIInv, Streambuf!get
  <1>4. PutArea'
    BY <1>1, PutKept DEF StreambufIInv, Streambuf!put
  <1> QED BY <1>2, <1>3, <1>4 DEF StreambufIInv

LEMMA StreambufStep ==
  ASSUME StreambufIInv, Streambuf!Next
  PROVE  StreambufIInv'
  BY SbumpcStep, SgetcStep, SungetcStep, SputcStep, SyncStep, SetbufStep, AttachStep, DestroyStep
     DEF Streambuf!Next

LEMMA StreambufInitial ==
  ASSUME Streambuf!Init
  PROVE  StreambufIInv
  <1>1. /\ BufferSize \in Nat /\ Length \in Nat /\ MaxWrites \in Nat /\ MaxStreams \in Nat \ {0}
    BY InterfacesAssumption DEF Streambuf!StreambufAssumption
  <1>2. /\ writes \in BOOLEAN /\ stream = 1 /\ bufsize \in {0, BufferSize} /\ destroyed = FALSE
        /\ fetched = 0 /\ gptr = 0 /\ egptr = 0 /\ removed = 0 /\ result = Garbage /\ expected = Garbage
        /\ area = <<>> /\ taken = <<>> /\ failed = FALSE /\ written = 0 /\ synced = 0
    BY DEF Streambuf!Init
  <1>3. Streambuf!TypeOK
    <2>1. /\ stream \in 1 .. MaxStreams /\ fetched \in 0 .. Length /\ removed \in 0 .. Length
          /\ gptr \in 0 .. BufferSize + 1 /\ egptr \in 0 .. bufsize
          /\ written \in 0 .. MaxWrites /\ synced \in 0 .. written
      BY <1>1, <1>2
    <2>2. area \in Seq(1 .. MaxWrites) /\ Len(area) <= bufsize /\ taken \in Seq(1 .. MaxWrites)
      BY <1>1, <1>2
    <2>3. destroyed \in BOOLEAN /\ failed \in BOOLEAN
      BY <1>2
    <2> QED BY <1>2, <2>1, <2>2, <2>3 DEF Streambuf!TypeOK
  <1>4. GetArea
    <2>1. egptr <= fetched /\ gptr <= egptr + 1 /\ gptr <= egptr /\ removed = fetched - egptr + gptr
      BY <1>2
    <2>2. \A i \in 0 .. egptr - 1 : buf[i] = <<stream, fetched - egptr + i + 1>>
      BY <1>2
    <2> QED BY <1>2, <2>1, <2>2 DEF GetArea
  <1>5. PutArea
    <2>1. Len(taken) = 0 /\ Len(area) = 0
      BY <1>2
    <2> QED BY <1>2, <2>1 DEF PutArea
  <1> QED BY <1>3, <1>4, <1>5 DEF StreambufIInv

\* What the invariant says of the sequences 1 .. n.
LEMMA StreambufChecked ==
  ASSUME StreambufIInv
  PROVE  StreambufInv
  <1>1. /\ MaxWrites \in Nat /\ area \in Seq(1 .. MaxWrites) /\ taken \in Seq(1 .. MaxWrites)
        /\ Len(area) \in Nat /\ Len(taken) \in Nat
        /\ written \in Nat /\ synced \in Nat /\ synced <= written /\ Len(area) <= bufsize
    BY StreambufTypes DEF StreambufIInv
  <1>2. /\ Len(taken) <= written /\ synced <= Len(taken)
        /\ \A i \in 1 .. Len(taken) : taken[i] = i
        /\ ~failed => /\ Len(taken) + Len(area) = written
                      /\ \A i \in 1 .. Len(area) : area[i] = Len(taken) + i
        /\ destroyed /\ ~failed => area = <<>>
    BY DEF StreambufIInv, PutArea
  <1>3. \A n \in Nat : /\ Streambuf!UpTo(n) \in Seq(Nat) /\ Len(Streambuf!UpTo(n)) = n
                       /\ \A i \in 1 .. n : Streambuf!UpTo(n)[i] = i
    BY DEF Streambuf!UpTo
  <1>4. \A n \in Nat : \A s \in Seq(Nat) :
            Len(s) = n /\ (\A i \in 1 .. n : s[i] = i) => s = Streambuf!UpTo(n)
    BY <1>3
  <1>5. \A u \in Seq(Nat), v \in Seq(Nat) :
            /\ Len(u) <= Len(v)
            /\ \A i \in 1 .. Len(u) : u[i] = i
            /\ \A i \in 1 .. Len(v) : v[i] = i
            => Streambuf!IsPrefix(u, v)
    <2> TAKE u \in Seq(Nat), v \in Seq(Nat)
    <2> HAVE /\ Len(u) <= Len(v)
             /\ \A i \in 1 .. Len(u) : u[i] = i
             /\ \A i \in 1 .. Len(v) : v[i] = i
    <2>1. Len(u) \in Nat /\ Len(v) \in Nat /\ \A i \in 1 .. Len(u) : i \in 1 .. Len(v)
      OBVIOUS
    <2>2. /\ SubSeq(u, 1, Len(u)) = Streambuf!UpTo(Len(u))
          /\ SubSeq(v, 1, Len(u)) = Streambuf!UpTo(Len(u))
      BY <2>1 DEF Streambuf!UpTo
    <2> QED BY <2>2 DEF Streambuf!IsPrefix
  <1>6. taken \in Seq(Nat) /\ area \in Seq(Nat)
    BY <1>1
  <1>7. Streambuf!ReadInOrder
    BY DEF StreambufIInv, GetArea, Streambuf!ReadInOrder, Streambuf!ReadsNext
  <1>8. Streambuf!TakenInOrder
    <2>1. Streambuf!IsPrefix(taken, Streambuf!UpTo(written))
      BY <1>1, <1>2, <1>3, <1>5, <1>6
    <2>2. ~failed => taken \o area = Streambuf!UpTo(written)
      <3> SUFFICES ASSUME ~failed PROVE taken \o area = Streambuf!UpTo(written)
        OBVIOUS
      <3>1. /\ taken \o area \in Seq(1 .. MaxWrites) /\ Len(taken \o area) = written
            /\ \A i \in 1 .. Len(taken \o area) : (taken \o area)[i] = i
        BY <1>1, <1>2, Counted
      <3>2. taken \o area \in Seq(Nat)
        BY <1>6
      <3> QED BY <1>1, <1>4, <3>1, <3>2
    <2> QED BY <2>1, <2>2 DEF Streambuf!TakenInOrder
  <1>9. Streambuf!NothingLeft
    <2>1. Streambuf!IsPrefix(Streambuf!UpTo(synced), taken)
      BY <1>1, <1>2, <1>3, <1>5, <1>6
    <2>2. destroyed /\ ~failed => Len(taken) = written
      <3>1. area = <<>> => Len(area) = 0
        OBVIOUS
      <3> QED BY <1>1, <1>2, <3>1
    <2>3. destroyed /\ ~failed => taken = Streambuf!UpTo(written)
      BY <1>1, <1>2, <1>4, <1>6, <2>2
    <2> QED BY <2>1, <2>3 DEF Streambuf!NothingLeft
  <1> QED BY <1>7, <1>8, <1>9 DEF StreambufInv, Streambuf!WrittenInOrder
-----------------------------------------------------------------------------
(* FcgiPrintf.                                                             *)

SlowOps == Printf!Integral \cup {"s", "f", "e", "E", "g", "G"}

\* What the directives before the n-th come to.
IsSum(sum) == sum = [n \in 0 .. Len(format) |->
                        IF n = 0 THEN 0 ELSE sum[n - 1] + Printf!TextLength(format[n])]
Sum == CHOOSE sum : IsSum(sum)

\* The arguments read, up to this one of the directive after the n-th.
Kinds == {"width", "precision", "value"}
InTurn(read, n, order) ==
    /\ read \in Seq(Nat \X Kinds)
    /\ \A i, j \in DOMAIN read : i < j => Printf!Before(read[i], read[j])
    /\ \A i \in DOMAIN read :
          /\ Printf!Has(read[i][1], read[i][2])
          /\ \/ read[i][1] \in 1 .. n
             \/ read[i][1] = n + 1 /\ Printf!Order(read[i][2]) <= order
Reads(read, i, of) == \E j \in DOMAIN read : read[j] = <<i, of>>
Complete(read, n) == \A i \in 1 .. n, of \in Kinds : Printf!Has(i, of) => Reads(read, i, of)

\* How far the arguments of the directive at hand are read.
Turn == CASE stage \in {"fast", "slow", "done"} -> 0
          [] stage = "convert" ->
                IF ~slow THEN 0 ELSE IF Printf!Directive.op \in Printf!ReadsEarly THEN 3 ELSE 2
          [] OTHER -> 3

Converting ==
    /\ Printf!More /\ Printf!Directive.op # "text"
    /\ slow => Printf!Directive.op \in SlowOps
    /\ ~slow => Printf!Plain(Printf!Directive) /\ Printf!Directive.op \in Printf!FastOps

PrintfIInv ==
    /\ format \in Formats \cup {<<>>} /\ Printf!TypeOK
    /\ InTurn(arguments, at, Turn)
    /\ stage # "error" => Complete(arguments, at) /\ streamCount \in Nat /\ streamCount = Sum[at]
    /\ stage = "slow" => slow /\ Printf!More /\ Printf!Directive.op # "text"
    /\ stage = "convert" =>
          /\ Converting
          /\ slow => /\ buffLen >= PRINTF_BUFFLEN
                     /\ \E exp \in Printf!Frexp(Printf!Directive) : buffLen >= Printf!BuffReqd(Printf!Directive, exp)
                     /\ \A of \in Kinds : Printf!Has(at + 1, of) /\ (of # "value" \/ Printf!Directive.op \in Printf!ReadsEarly)
                          => Reads(arguments, at + 1, of)
          /\ ~slow => buffLen = PRINTF_BUFFLEN
    /\ stage = "put" =>
          /\ Printf!More /\ Complete(arguments, at + 1)
          /\ buffCount = Printf!TextLength(Printf!Directive) /\ Printf!Fits
    /\ stage = "done" => at = Len(format)

LEMMA FormatTypes ==
  ASSUME format \in Formats \cup {<<>>}
  PROVE  /\ Len(format) \in Nat /\ PRINTF_BUFFLEN \in Nat /\ PRINTF_BUFFLEN >= 56
         /\ \A k \in 1 .. Len(format) : Printf!IsDirective(format[k])
  <1>1. PRINTF_BUFFLEN \in Nat /\ PRINTF_BUFFLEN >= 56
    BY InterfacesAssumption DEF Printf!PrintfAssumption
  <1>2. CASE format = <<>>
    <2>1. Len(<<>>) = 0
      OBVIOUS
    <2> QED BY <1>1, <1>2, <2>1
  <1>3. CASE format \in Formats
    <2>1. /\ format \in Seq({format[i] : i \in DOMAIN format})
          /\ \A i \in DOMAIN format : Printf!IsDirective(format[i])
      BY <1>3, InterfacesAssumption DEF Printf!PrintfAssumption
    <2>2. Len(format) \in Nat /\ DOMAIN format = 1 .. Len(format)
      BY <2>1
    <2> QED BY <1>1, <2>1, <2>2
  <1> QED BY <1>2, <1>3

LEMMA Smallest ==
  ASSUME NEW a \in Int, NEW b \in Int
  PROVE  Printf!Min({a, b}) = IF a <= b THEN a ELSE b
  <1> DEFINE m == IF a <= b THEN a ELSE b
  <1>1. m \in {a, b} /\ \A y \in {a, b} : m <= y
    OBVIOUS
  <1>2. \A x \in {a, b} : (\A y \in {a, b} : x <= y) => x = m
    OBVIOUS
  <1> HIDE DEF m
  <1>3. (CHOOSE x \in {a, b} : \A y \in {a, b} : x <= y) = m
    BY <1>1, <1>2
  <1> QED BY <1>3 DEF Printf!Min, m

LEMMA Largest ==
  ASSUME NEW a \in Int, NEW b \in Int
  PROVE  Printf!Max({a, b}) = IF a >= b THEN a ELSE b
  <1> DEFINE m == IF a >= b THEN a ELSE b
  <1>1. m \in {a, b} /\ \A y \in {a, b} : m >= y
    OBVIOUS
  <1>2. \A x \in {a, b} : (\A y \in {a, b} : x >= y) => x = m
    OBVIOUS
  <1> HIDE DEF m
  <1>3. (CHOOSE x \in {a, b} : \A y \in {a, b} : x >= y) = m
    BY <1>1, <1>2
  <1> QED BY <1>3 DEF Printf!Max, m

\* The numbers of a conversion.
LEMMA DirectiveTypes ==
  ASSUME NEW d, Printf!IsDirective(d), d.op # "text"
  PROVE  /\ d.length \in Nat /\ d.flags \in Nat /\ d.exp \in Nat /\ d.exp \div 3 \in Nat
         /\ Printf!Precision(d) \in Int /\ Printf!OrSix(Printf!Precision(d)) \in Int
         /\ Printf!MinWidth(d) \in Int /\ Printf!Magnitude(Printf!MinWidth(d)) \in Nat
         /\ Printf!Plain(d) => Printf!Precision(d) = -1 /\ Printf!MinWidth(d) = 0
         /\ d.op \in Printf!Integral => d.length <= 22
         /\ d.op = "f" => d.length <= 1 + d.exp \div 3
         /\ \A exp \in Printf!Frexp(d) : exp \in Nat /\ exp \div 3 \in Nat /\ (Printf!TooLarge(d) \/ exp = d.exp)
  <1>1. /\ d.length \in Nat /\ d.flags \in Nat /\ d.exp \in Nat
        /\ d.width \in Printf!Part("none", Int) \cup Printf!Part("digits", Nat) \cup Printf!Part("star", Int)
        /\ d.precision \in Printf!Part("none", Int) \cup Printf!Part("digits", Nat) \cup Printf!Part("star", Int)
    BY DEF Printf!IsDirective
  <1>2. d.width.value \in Int /\ d.precision.value \in Int
    BY <1>1 DEF Printf!Part
  <1>3. Printf!Precision(d) \in Int
    BY <1>2 DEF Printf!Precision
  <1>4. Printf!OrSix(Printf!Precision(d)) \in Int
    BY <1>3 DEF Printf!OrSix
  <1>5. Printf!MinWidth(d) \in Int
    BY <1>2 DEF Printf!MinWidth
  <1>6. Printf!Magnitude(Printf!MinWidth(d)) \in Nat
    <2>1. \A m \in Int : Printf!Magnitude(m) \in Nat
      BY DEF Printf!Magnitude
    <2> QED BY <1>5, <2>1
  <1>7. Printf!Plain(d) => Printf!Precision(d) = -1 /\ Printf!MinWidth(d) = 0
    BY DEF Printf!Plain, Printf!Precision, Printf!MinWidth
  <1>8. /\ d.op \in Printf!Integral => d.length <= 22
        /\ d.op = "f" => d.length <= 1 + d.exp \div 3
    BY DEF Printf!IsDirective, Printf!Integral
  <1>9. d.exp \div 3 \in Nat
    BY <1>1
  <1>10. ASSUME NEW exp \in Printf!Frexp(d)
         PROVE  exp \in Nat /\ exp \div 3 \in Nat /\ (Printf!TooLarge(d) \/ exp = d.exp)
    <2>1. InfinityExps \subseteq Nat
      BY InterfacesAssumption DEF Printf!PrintfAssumption
    <2>2. exp \in Nat /\ (Printf!TooLarge(d) \/ exp = d.exp)
      BY <1>1, <1>10, <2>1 DEF Printf!Frexp
    <2> QED BY <2>2
  <1> QED BY <1>1, <1>3, <1>4, <1>5, <1>6, <1>7, <1>8, <1>9, <1>10

\* The text of a conversion before it is filled up: within the bound of the
\* slow path, and for a plain one within the buffer on the stack.
LEMMA NaturalFits ==
  ASSUME NEW d, Printf!IsDirective(d), d.op \in SlowOps, NEW exp \in Printf!Frexp(d)
  PROVE  /\ Printf!Natural(d) \in Int /\ Printf!Bound(d, exp) \in Int
         /\ Printf!Misjudged(d) \/ Printf!Natural(d) < Printf!Bound(d, exp) + 10
         /\ Printf!Plain(d) /\ d.op \notin {"f", "s"} => Printf!Natural(d) < 56
         /\ Printf!Plain(d) /\ d.op = "s" => Printf!Natural(d) = d.length
  <1>1. d.op # "text"
    BY DEF SlowOps, Printf!Integral
  <1> PICK p \in Int : p = Printf!Precision(d)
    BY <1>1, DirectiveTypes
  <1> PICK six \in Int : six = Printf!OrSix(Printf!Precision(d))
    BY <1>1, DirectiveTypes
  <1> PICK len \in Nat : len = d.length
    BY <1>1, DirectiveTypes
  <1> PICK third \in Nat : third = d.exp \div 3
    BY <1>1, DirectiveTypes
  <1> PICK found \in Nat : found = exp \div 3 /\ (Printf!TooLarge(d) \/ found = third)
    BY <1>1, DirectiveTypes
  <1>2. /\ Printf!Plain(d) => p = -1 /\ six = 6
        /\ d.op \in Printf!Integral => len <= 22
        /\ d.op = "f" => len <= 1 + third
    BY <1>1, DirectiveTypes DEF Printf!OrSix
  <1>3. CASE d.op \in Printf!Integral \ {"c", "p"}
    <2>1. /\ Printf!Natural(d) = 2 + Printf!Max({p, len}) /\ Printf!Bound(d, exp) = Printf!Max({p, 46})
          /\ d.op \notin {"f", "s"}
      BY <1>3 DEF Printf!Natural, Printf!Bound, Printf!Integral
    <2>2. /\ Printf!Max({p, len}) = (IF p >= len THEN p ELSE len)
          /\ Printf!Max({p, 46}) = (IF p >= 46 THEN p ELSE 46)
      BY Largest
    <2>3. len <= 22
      BY <1>2, <1>3
    <2> QED BY <1>2, <2>1, <2>2, <2>3
  <1>4. CASE d.op \in {"c", "p"}
    <2>1. Printf!Natural(d) = len /\ Printf!Bound(d, exp) = Printf!Max({p, 46}) /\ d.op \in Printf!Integral
      BY <1>4 DEF Printf!Natural, Printf!Bound, Printf!Integral
    <2>2. Printf!Max({p, 46}) = (IF p >= 46 THEN p ELSE 46)
      BY Largest
    <2>3. len <= 22 /\ d.op \notin {"f", "s"}
      BY <1>2, <1>4, <2>1
    <2> QED BY <2>1, <2>2, <2>3
  <1>5. CASE d.op = "s"
    <2>1. /\ Printf!Natural(d) = (IF p = -1 THEN len ELSE Printf!Min({p, len}))
          /\ Printf!Bound(d, exp) = (IF p = -1 THEN len ELSE Printf!Min({p, len}))
      BY <1>5 DEF Printf!Natural, Printf!Bound, Printf!Integral
    <2>2. Printf!Min({p, len}) = (IF p <= len THEN p ELSE len)
      BY Smallest
    <2>3. Printf!Natural(d) \in Int /\ Printf!Bound(d, exp) = Printf!Natural(d)
      BY <2>1, <2>2
    <2>4. p = -1 => Printf!Natural(d) = d.length
      BY <2>1
    <2> QED BY <1>2, <1>5, <2>3, <2>4
  <1>6. CASE d.op = "f"
    <2>1. Printf!Natural(d) = 2 + len + six /\ Printf!Bound(d, exp) = six + 3 + found
      BY <1>6 DEF Printf!Natural, Printf!Bound, Printf!Integral
    <2>2. len <= 1 + third
      BY <1>2, <1>6
    <2>3. Printf!Misjudged(d) \/ found = third
      BY <1>6 DEF Printf!Misjudged
    <2> QED BY <1>6, <2>1, <2>2, <2>3
  <1>7. CASE d.op \in {"e", "E", "g", "G"}
    <2>1. Printf!Natural(d) = 8 + six /\ Printf!Bound(d, exp) = six + 8 /\ d.op \notin {"f", "s"}
      BY <1>7 DEF Printf!Natural, Printf!Bound, Printf!Integral
    <2> QED BY <1>2, <2>1
  <1> QED BY <1>3, <1>4, <1>5, <1>6, <1>7 DEF SlowOps

\* What sprintf writes, against the buffer that either path gives it.
LEMMA SprintfFits ==
  ASSUME NEW d, Printf!IsDirective(d), d.op \in SlowOps, NEW exp \in Printf!Frexp(d)
  PROVE  /\ Printf!Sprintf(d) \in Nat /\ Printf!BuffReqd(d, exp) \in Int
         /\ \A n \in Nat : /\ n >= Printf!BuffReqd(d, exp) /\ n >= PRINTF_BUFFLEN
                           /\ ~Printf!Misjudged(d)
                           => /\ Printf!Sprintf(d) <= n
                              /\ Printf!MinWidth(d) < PRINTF_BUFFLEN => Printf!Sprintf(d) < n
         /\ Printf!Plain(d) /\ d.op \notin {"f", "s"} => Printf!Sprintf(d) < 56
         /\ Printf!Plain(d) /\ d.op = "s" => Printf!Sprintf(d) = d.length
  <1>1. d.op # "text"
    BY DEF SlowOps, Printf!Integral
  <1> PICK natural \in Int : natural = Printf!Natural(d)
    BY NaturalFits
  <1> PICK bound \in Int : bound = Printf!Bound(d, exp)
    BY NaturalFits
  <1> PICK width \in Int : width = Printf!MinWidth(d)
    BY <1>1, DirectiveTypes
  <1> PICK fill \in Nat : fill = Printf!Magnitude(Printf!MinWidth(d))
    BY <1>1, DirectiveTypes
  <1>2. /\ Printf!Misjudged(d) \/ natural < bound + 10
        /\ Printf!Plain(d) => width = 0
        /\ Printf!Plain(d) /\ d.op \notin {"f", "s"} => natural < 56
        /\ Printf!Plain(d) /\ d.op = "s" => natural = d.length
        /\ d.length \in Nat
    BY <1>1, DirectiveTypes, NaturalFits
  <1>3. Printf!Plain(d) => fill = 0
    <2>1. Printf!Magnitude(0) = 0
      BY DEF Printf!Magnitude
    <2> QED BY <1>2, <2>1
  <1>4. Printf!Sprintf(d) = IF natural >= fill THEN natural ELSE fill
    BY Largest DEF Printf!Sprintf
  <1>5. Printf!BuffReqd(d, exp) = IF bound + 10 >= width THEN bound + 10 ELSE width
    <2>1. bound + 10 \in Int
      OBVIOUS
    <2> QED BY <2>1, Largest DEF Printf!BuffReqd
  <1>6. Printf!Sprintf(d) \in Nat /\ Printf!BuffReqd(d, exp) \in Int
    BY <1>4, <1>5
  <1>7. ASSUME NEW n \in Nat, n >= Printf!BuffReqd(d, exp), n >= PRINTF_BUFFLEN, ~Printf!Misjudged(d)
        PROVE  /\ Printf!Sprintf(d) <= n
               /\ Printf!MinWidth(d) < PRINTF_BUFFLEN => Printf!Sprintf(d) < n
    <2>1. PRINTF_BUFFLEN \in Nat
      BY InterfacesAssumption DEF Printf!PrintfAssumption
    <2>2. width > -PRINTF_BUFFLEN
      BY <1>7, <2>1 DEF Printf!Misjudged
    <2>3. fill = IF width < 0 THEN -width ELSE width
      BY DEF Printf!Magnitude
    <2>4. fill <= n /\ (width < PRINTF_BUFFLEN => fill < n)
      BY <1>5, <1>7, <2>1, <2>2, <2>3
    <2>5. natural < n
      BY <1>2, <1>5, <1>7
    <2> QED BY <1>4, <2>4, <2>5
  <1>8. Printf!Plain(d) /\ d.op \notin {"f", "s"} => Printf!Sprintf(d) < 56
    BY <1>2, <1>3, <1>4
  <1>9. Printf!Plain(d) /\ d.op = "s" => Printf!Sprintf(d) = d.length
    BY <1>2, <1>3, <1>4
  <1> QED BY <1>6, <1>7, <1>8, <1>9

\* frexp gives some exponent.
LEMMA ExponentFound ==
  ASSUME NEW d
  PROVE  Printf!Frexp(d) # {}
  BY InterfacesAssumption DEF Printf!Frexp, Printf!PrintfAssumption

LEMMA TextLengths ==
  ASSUME NEW d, Printf!IsDirective(d), d.op \in SlowOps \cup {"text", "%", "n"}
  PROVE  Printf!TextLength(d) \in Nat
  <1>1. d.length \in Nat
    BY DEF Printf!IsDirective
  <1>2. d.op \in SlowOps => Printf!Sprintf(d) \in Nat
    BY ExponentFound, SprintfFits
  <1> QED BY <1>1, <1>2 DEF Printf!TextLength
-----------------------------------------------------------------------------
\* The recursive definition of the sum has a solution.
LEMMA SumExists ==
  ASSUME Len(format) \in Nat
  PROVE  IsSum(Sum)
  <1> DEFINE Part(sum, m) == sum = [n \in 0 .. m |-> IF n = 0 THEN 0 ELSE sum[n - 1] + Printf!TextLength(format[n])]
             Without == {m \in 0 .. Len(format) : ~\E sum : Part(sum, m)}
  <1>1. SUFFICES ASSUME Without # {} PROVE FALSE
    <2>1. Len(format) \notin Without
      BY <1>1
    <2>2. \E sum : IsSum(sum)
      BY <2>1 DEF IsSum
    <2> HIDE DEF Without
    <2> QED BY <2>2 DEF Sum
  <1>2. PICK m \in Without : \A k \in Without : m <= k
    <2>1. Without \in SUBSET Nat
      OBVIOUS
    <2> HIDE DEF Without
    <2> QED BY <1>1, <2>1, LeastNat
  <1>3. m # 0
    <2>1. Part([n \in 0 .. 0 |-> 0], 0)
      OBVIOUS
    <2> HIDE DEF Part
    <2> QED BY <1>2, <2>1
  <1>4. m \in 1 .. Len(format) /\ m - 1 \in 0 .. Len(format) /\ m - 1 \notin Without
    BY <1>2, <1>3
  <1>5. PICK a : Part(a, m - 1)
    BY <1>4
  <1> DEFINE c == [n \in 0 .. m |-> IF n = m THEN a[m - 1] + Printf!TextLength(format[m]) ELSE a[n]]
  <1>6. Part(c, m)
    <2>1. ASSUME NEW n \in 0 .. m
          PROVE  c[n] = IF n = 0 THEN 0 ELSE c[n - 1] + Printf!TextLength(format[n])
      <3>1. CASE n = m
        <4>1. c[m - 1] = a[m - 1] /\ c[m] = a[m - 1] + Printf!TextLength(format[m])
          BY <1>4
        <4> HIDE DEF c
        <4> QED BY <3>1, <4>1, <1>4
      <3>2. CASE n # m
        <4>1. n \in 0 .. m - 1 /\ c[n] = a[n]
          BY <3>2, <1>4
        <4>2. a[n] = IF n = 0 THEN 0 ELSE a[n - 1] + Printf!TextLength(format[n])
          BY <1>5, <4>1
        <4>3. n # 0 => c[n - 1] = a[n - 1]
          BY <4>1, <1>4
        <4> HIDE DEF c, Part
        <4> QED BY <4>1, <4>2, <4>3
      <3> QED BY <3>1, <3>2
    <2> QED BY <2>1
  <1> QED BY <1>2, <1>6

LEMMA SumStep ==
  ASSUME Len(format) \in Nat
  PROVE  /\ Sum[0] = 0
         /\ \A n \in 1 .. Len(format) : Sum[n] = Sum[n - 1] + Printf!TextLength(format[n])
  BY SumExists DEF IsSum
-----------------------------------------------------------------------------
\* One more argument, if there is one.
LEMMA OneMore ==
  ASSUME NEW n \in Nat, NEW order \in Nat, NEW read, InTurn(read, n, order),
         NEW of \in Kinds, Printf!Has(n + 1, of), order < Printf!Order(of)
  PROVE  LET more == Append(read, <<n + 1, of>>) IN
         /\ InTurn(more, n, Printf!Order(of)) /\ Reads(more, n + 1, of)
         /\ \A i \in Nat, kind \in Kinds : Reads(read, i, kind) => Reads(more, i, kind)
  <1> DEFINE more == Append(read, <<n + 1, of>>)
  <1>1. /\ read \in Seq(Nat \X Kinds) /\ <<n + 1, of>> \in Nat \X Kinds
        /\ \A i, j \in DOMAIN read : i < j => Printf!Before(read[i], read[j])
        /\ \A i \in DOMAIN read :
              /\ Printf!Has(read[i][1], read[i][2])
              /\ \/ read[i][1] \in 1 .. n
                 \/ read[i][1] = n + 1 /\ Printf!Order(read[i][2]) <= order
    BY DEF InTurn
  <1> PICK len \in Nat : len = Len(read)
    BY <1>1
  <1>2. /\ more \in Seq(Nat \X Kinds) /\ Len(more) = len + 1
        /\ DOMAIN read = 1 .. len /\ DOMAIN more = 1 .. len + 1
        /\ \A i \in 1 .. len : more[i] = read[i]
        /\ more[len + 1] = <<n + 1, of>>
    BY <1>1
  <1>3. \A i \in 1 .. len + 1 : i \in 1 .. len \/ i = len + 1
    OBVIOUS
  <1>4. \A kind \in Kinds : Printf!Order(kind) \in Nat
    BY DEF Kinds, Printf!Order
  <1>5. \A i \in 1 .. len : read[i][1] \in Nat /\ read[i][2] \in Kinds
    BY <1>1, <1>2
  <1> HIDE DEF more
  <1>6. \A i \in 1 .. len : Printf!Before(read[i], <<n + 1, of>>)
    <2> SUFFICES ASSUME NEW i \in 1 .. len PROVE Printf!Before(read[i], <<n + 1, of>>)
      OBVIOUS
    <2>1. CASE read[i][1] \in 1 .. n
      BY <2>1 DEF Printf!Before
    <2>2. CASE read[i][1] = n + 1 /\ Printf!Order(read[i][2]) <= order
      <3>1. Printf!Order(read[i][2]) < Printf!Order(of)
        BY <1>4, <1>5, <2>2
      <3> QED BY <2>2, <3>1 DEF Printf!Before
    <2> QED BY <1>1, <1>2, <2>1, <2>2
  <1>7. \A i, j \in 1 .. len + 1 : i < j => Printf!Before(more[i], more[j])
    <2> SUFFICES ASSUME NEW i \in 1 .. len + 1, NEW j \in 1 .. len + 1, i < j
                 PROVE  Printf!Before(more[i], more[j])
      OBVIOUS
    <2>1. i \in 1 .. len
      OBVIOUS
    <2>2. CASE j \in 1 .. len
      BY <1>1, <1>2, <2>1, <2>2
    <2>3. CASE j = len + 1
      BY <1>2, <1>6, <2>1, <2>3
    <2> QED BY <1>3, <2>2, <2>3
  <1>8. \A i \in 1 .. len + 1 :
            /\ Printf!Has(more[i][1], more[i][2])
            /\ \/ more[i][1] \in 1 .. n
               \/ more[i][1] = n + 1 /\ Printf!Order(more[i][2]) <= Printf!Order(of)
    <2> SUFFICES ASSUME NEW i \in 1 .. len + 1
                 PROVE  /\ Printf!Has(more[i][1], more[i][2])
                        /\ \/ more[i][1] \in 1 .. n
                           \/ more[i][1] = n + 1 /\ Printf!Order(more[i][2]) <= Printf!Order(of)
      OBVIOUS
    <2>1. CASE i \in 1 .. len
      <3>1. more[i] = read[i]
        BY <1>2, <2>1
      <3>2. Printf!Order(read[i][2]) <= order => Printf!Order(read[i][2]) <= Printf!Order(of)
        BY <1>4, <1>5, <2>1
      <3> QED BY <1>1, <1>2, <2>1, <3>1, <3>2
    <2>2. CASE i = len + 1
      <3>1. more[i][1] = n + 1 /\ more[i][2] = of
        BY <1>2, <2>2
      <3>2. Printf!Order(of) <= Printf!Order(of)
        BY <1>4
      <3> QED BY <3>1, <3>2
    <2> QED BY <1>3, <2>1, <2>2
  <1>9. InTurn(more, n, Printf!Order(of))
    BY <1>2, <1>7, <1>8 DEF InTurn
  <1>10. Reads(more, n + 1, of)
    BY <1>2 DEF Reads
  <1>11. ASSUME NEW i \in Nat, NEW kind \in Kinds, Reads(read, i, kind)
         PROVE  Reads(more, i, kind)
    <2>1. PICK j \in 1 .. len : read[j] = <<i, kind>>
      BY <1>2, <1>11 DEF Reads
    <2>2. j \in 1 .. len + 1 /\ more[j] = <<i, kind>>
      BY <1>2, <2>1
    <2> QED BY <1>2, <2>2 DEF Reads
  <1> QED BY <1>9, <1>10, <1>11 DEF more

LEMMA Single ==
  ASSUME NEW T, NEW x \in T, NEW s \in Seq(T)
  PROVE  <<x>> \in Seq(T) /\ <<>> \in Seq(T) /\ <<x>> # <<>> /\ s \o <<x>> = Append(s, x)
  OBVIOUS

\* An argument that comes if it is there.
Just(n, of) == <<<<n + 1, of>>>>

LEMMA IfThere ==
  ASSUME NEW n \in Nat, NEW order \in Nat, NEW read, InTurn(read, n, order),
         NEW of \in Kinds, order < Printf!Order(of),
         NEW one \in {<<>>, Just(n, of)}, one # <<>> => Printf!Has(n + 1, of)
  PROVE  /\ InTurn(read \o one, n, Printf!Order(of))
         /\ one # <<>> => Reads(read \o one, n + 1, of)
         /\ \A i \in Nat, kind \in Kinds : Reads(read, i, kind) => Reads(read \o one, i, kind)
  <1>1. read \in Seq(Nat \X Kinds) /\ <<n + 1, of>> \in Nat \X Kinds
    BY DEF InTurn
  <1>2. CASE one # <<>>
    <2>1. read \o one = Append(read, <<n + 1, of>>)
      <3> DEFINE x == <<n + 1, of>>
                 T == Nat \X Kinds
      <3>1. one = <<x>> /\ x \in T /\ read \in Seq(T)
        BY <1>1, <1>2 DEF Just
      <3> HIDE DEF x, T
      <3>2. read \o one = Append(read, x)
        BY <3>1, Single
      <3> QED BY <3>2 DEF x
    <2> QED BY <1>2, <2>1, OneMore
  <1>3. CASE one = <<>>
    <2>1. read \o one = read
      BY <1>1, <1>3
    <2>2. InTurn(read, n, Printf!Order(of))
      <3>1. \A kind \in Kinds : Printf!Order(kind) \in Nat
        BY DEF Kinds, Printf!Order
      <3>2. \A i \in DOMAIN read : read[i][2] \in Kinds
        BY <1>1
      <3>3. \A i \in DOMAIN read : Printf!Order(read[i][2]) <= order => Printf!Order(read[i][2]) <= Printf!Order(of)
        BY <3>1, <3>2
      <3> QED BY <3>3 DEF InTurn
    <2> QED BY <1>3, <2>1, <2>2
  <1> QED BY <1>2, <1>3
-----------------------------------------------------------------------------
LEMMA Orders ==
    /\ \A of \in Kinds : Printf!Order(of) \in Nat /\ Printf!Order(of) <= 3
    /\ Printf!Order("width") = 1 /\ Printf!Order("precision") = 2 /\ Printf!Order("value") = 3
    /\ "width" \in Kinds /\ "precision" \in Kinds /\ "value" \in Kinds
  BY DEF Kinds, Printf!Order

\* As far as the end of a directive, and on to the next.
LEMMA WholeDirective ==
  ASSUME NEW n \in Nat, NEW order, NEW read, InTurn(read, n, order)
  PROVE  InTurn(read, n, 3) /\ InTurn(read, n + 1, 0)
  <1>1. \A i \in DOMAIN read : read[i][2] \in Kinds
    BY DEF InTurn
  <1>2. \A i \in DOMAIN read : Printf!Order(read[i][2]) <= 3
    BY <1>1, Orders
  <1>3. InTurn(read, n, 3)
    BY <1>2 DEF InTurn
  <1>4. n + 1 \in 1 .. n + 1 /\ \A k \in 1 .. n : k \in 1 .. n + 1
    OBVIOUS
  <1>5. \A i \in DOMAIN read : read[i][1] \in 1 .. n + 1
    BY <1>4 DEF InTurn
  <1>6. InTurn(read, n + 1, 0)
    BY <1>5 DEF InTurn
  <1> QED BY <1>3, <1>6

LEMMA CompleteNext ==
  ASSUME NEW n \in Nat, NEW read, Complete(read, n),
         \A of \in Kinds : Printf!Has(n + 1, of) => Reads(read, n + 1, of)
  PROVE  Complete(read, n + 1)
  <1>1. \A i \in 1 .. n + 1 : i \in 1 .. n \/ i = n + 1
    OBVIOUS
  <1> QED BY <1>1 DEF Complete

\* Nothing of this looks at more of the next state than the arguments.
LEMMA Carried ==
  ASSUME UNCHANGED format, NEW read, NEW n, arguments' = read, at' = n
  PROVE  /\ \A order : Turn' = order /\ InTurn(read, n, order) => InTurn(arguments, at, Turn)'
         /\ Complete(read, n) => Complete(arguments, at)'
         /\ Complete(read, n + 1) => Complete(arguments, at + 1)'
         /\ Sum' = Sum
  <1>1. \A i, of : Printf!Has(i, of)' <=> Printf!Has(i, of)
    BY DEF Printf!Has
  <1>2. ASSUME NEW order, Turn' = order, InTurn(read, n, order) PROVE InTurn(arguments, at, Turn)'
    BY <1>2 DEF InTurn, Printf!Has
  <1>3. Complete(read, n) => Complete(arguments, at)'
    BY DEF Complete, Reads, Printf!Has
  <1>4. Complete(read, n + 1) => Complete(arguments, at + 1)'
    BY DEF Complete, Reads, Printf!Has
  <1>5. Sum' = Sum
    BY DEF Sum, IsSum
  <1> QED BY <1>2, <1>3, <1>4, <1>5

LEMMA PrintfTypes ==
  ASSUME PrintfIInv
  PROVE  /\ Len(format) \in Nat /\ PRINTF_BUFFLEN \in Nat /\ PRINTF_BUFFLEN >= 56
         /\ at \in Nat /\ at <= Len(format)
         /\ buffLen \in Nat /\ auxBuffLen \in Nat /\ buffCount \in Nat
         /\ slow \in BOOLEAN /\ streamCount \in Nat \cup {-1}
         /\ Printf!More => /\ at + 1 \in 1 .. Len(format) /\ at + 1 \in 0 .. Len(format)
                           /\ Printf!IsDirective(Printf!Directive)
                           /\ Sum[at + 1] = Sum[at] + Printf!TextLength(Printf!Directive)
  <1>1. /\ Len(format) \in Nat /\ PRINTF_BUFFLEN \in Nat /\ PRINTF_BUFFLEN >= 56
        /\ \A k \in 1 .. Len(format) : Printf!IsDirective(format[k])
    BY FormatTypes DEF PrintfIInv
  <1>2. /\ at \in 0 .. Len(format) /\ buffLen \in Nat /\ auxBuffLen \in Nat /\ buffCount \in Nat
        /\ slow \in BOOLEAN /\ streamCount \in Nat \cup {-1}
    BY DEF PrintfIInv, Printf!TypeOK
  <1>3. at \in Nat /\ at <= Len(format)
    BY <1>1, <1>2
  <1>4. Printf!More => at + 1 \in 1 .. Len(format) /\ at + 1 \in 0 .. Len(format)
    BY <1>1, <1>3 DEF Printf!More
  <1>5. ASSUME Printf!More
        PROVE  Sum[at + 1] = Sum[at] + Printf!TextLength(format[at + 1])
    <2>1. PICK k \in 1 .. Len(format) : k = at + 1
      BY <1>4, <1>5
    <2>2. Sum[k] = Sum[k - 1] + Printf!TextLength(format[k])
      BY <1>1, SumStep
    <2>3. k - 1 = at
      BY <1>3, <2>1
    <2> QED BY <2>1, <2>2, <2>3
  <1> QED BY <1>1, <1>2, <1>3, <1>4, <1>5 DEF Printf!Directive

(* An error ends the work where it is.                                     *)
LEMMA ErrorStep ==
  ASSUME PrintfIInv, Printf!Error, UNCHANGED <<format, at, slow, arguments>>,
         buffLen' \in Nat, auxBuffLen' \in Nat, buffCount' \in Nat
  PROVE  PrintfIInv'
  <1>1. stage' = "error" /\ streamCount' = -1
    BY DEF Printf!Error
  <1>2. at \in Nat
    BY PrintfTypes
  <1>3. Printf!TypeOK'
    BY <1>1 DEF PrintfIInv, Printf!TypeOK
  <1>4. InTurn(arguments, at, Turn)'
    <2>1. Turn' = 3
      BY <1>1 DEF Turn
    <2>2. InTurn(arguments, at, 3)
      BY <1>2, WholeDirective DEF PrintfIInv
    <2> QED BY <2>1, <2>2, Carried
  <1> QED BY <1>1, <1>3, <1>4 DEF PrintfIInv

(* A directive is done.                                                    *)
LEMMA NextStep ==
  ASSUME PrintfIInv, Printf!More, stage # "error", stage' = "fast", at' = at + 1,
         Complete(arguments, at + 1), Printf!TextLength(Printf!Directive) \in Nat,
         streamCount' = streamCount + Printf!TextLength(Printf!Directive),
         UNCHANGED <<format, slow, buffLen, auxBuffLen, buffCount, arguments>>
  PROVE  PrintfIInv'
  <1>1. /\ at \in Nat /\ at + 1 \in 0 .. Len(format)
        /\ Sum[at + 1] = Sum[at] + Printf!TextLength(Printf!Directive)
    BY PrintfTypes
  <1>2. streamCount \in Nat /\ streamCount = Sum[at]
    BY DEF PrintfIInv
  <1>3. streamCount' \in Nat /\ streamCount' = Sum[at + 1]
    BY <1>1, <1>2
  <1>4. Printf!TypeOK'
    BY <1>1, <1>3 DEF PrintfIInv, Printf!TypeOK
  <1>5. InTurn(arguments, at, Turn)'
    <2>1. Turn' = 0
      BY DEF Turn
    <2>2. InTurn(arguments, at + 1, 0)
      BY <1>1, WholeDirective DEF PrintfIInv
    <2> QED BY <2>1, <2>2, Carried
  <1>6. Complete(arguments, at)' /\ Sum' = Sum
    BY Carried
  <1>7. (streamCount = Sum[at])'
    BY <1>3, <1>6
  <1> QED BY <1>3, <1>4, <1>5, <1>6, <1>7 DEF PrintfIInv

LEMMA TextStep ==
  ASSUME PrintfIInv, Printf!Text
  PROVE  PrintfIInv'
  <1>1. /\ stage = "fast" /\ Printf!More /\ Printf!Directive.op = "text"
        /\ UNCHANGED <<format, slow, buffLen, auxBuffLen, buffCount, arguments>>
    BY DEF Printf!Text
  <1>2. /\ at \in Nat /\ Printf!IsDirective(Printf!Directive)
        /\ buffLen \in Nat /\ auxBuffLen \in Nat /\ buffCount \in Nat
    BY <1>1, PrintfTypes
  <1>3. Printf!TextLength(Printf!Directive) = Printf!Directive.length /\ Printf!Directive.length \in Nat
    BY <1>1, <1>2 DEF Printf!TextLength, Printf!IsDirective
  <1>4. CASE streamCount' = streamCount + Printf!Directive.length /\ at' = at + 1 /\ UNCHANGED stage
    <2>1. \A of \in Kinds : ~ Printf!Has(at + 1, of)
      BY <1>1 DEF Kinds, Printf!Has, Printf!Directive
    <2>2. Complete(arguments, at + 1)
      BY <1>1, <1>2, <2>1, CompleteNext DEF PrintfIInv
    <2> QED BY <1>1, <1>3, <1>4, <2>2, NextStep
  <1>5. CASE Printf!Error /\ UNCHANGED at
    BY <1>1, <1>2, <1>5, ErrorStep
  <1> QED BY <1>4, <1>5 DEF Printf!Text

LEMMA PutStep ==
  ASSUME PrintfIInv, Printf!Put
  PROVE  PrintfIInv'
  <1>1. /\ stage = "put" /\ UNCHANGED <<format, slow, buffLen, auxBuffLen, buffCount, arguments>>
    BY DEF Printf!Put
  <1>2. /\ Printf!More /\ Complete(arguments, at + 1)
        /\ buffCount = Printf!TextLength(Printf!Directive)
        /\ buffLen \in Nat /\ auxBuffLen \in Nat /\ buffCount \in Nat
    BY <1>1, PrintfTypes DEF PrintfIInv
  <1>3. CASE streamCount' = streamCount + buffCount /\ at' = at + 1 /\ stage' = "fast"
    BY <1>1, <1>2, <1>3, NextStep
  <1>4. CASE Printf!Error /\ UNCHANGED at
    BY <1>1, <1>2, <1>4, ErrorStep
  <1> QED BY <1>3, <1>4 DEF Printf!Put

LEMMA FastStep ==
  ASSUME PrintfIInv, Printf!Fast
  PROVE  PrintfIInv'
  <1>1. /\ stage = "fast" /\ Printf!More /\ Printf!Directive.op # "text"
        /\ slow' = ~ (Printf!Plain(Printf!Directive) /\ Printf!Directive.op \in Printf!FastOps)
        /\ stage' = IF slow' THEN "slow" ELSE "convert"
        /\ buffLen' = PRINTF_BUFFLEN
        /\ UNCHANGED <<format, at, auxBuffLen, buffCount, arguments, streamCount>>
    BY DEF Printf!Fast
  <1>2. /\ PRINTF_BUFFLEN \in Nat /\ slow' \in BOOLEAN
    BY <1>1, PrintfTypes
  <1>3. Printf!More' /\ Printf!Directive' = Printf!Directive
    BY <1>1 DEF Printf!More, Printf!Directive
  <1>4. Printf!TypeOK'
    <2>1. stage' \in {"slow", "convert"}
      BY <1>1
    <2> QED BY <1>1, <1>2, <2>1 DEF PrintfIInv, Printf!TypeOK
  <1>5. InTurn(arguments, at, Turn)'
    <2>1. Turn = 0 /\ Turn' = 0
      BY <1>1 DEF Turn
    <2> QED BY <1>1, <2>1, Carried DEF PrintfIInv
  <1>6. Complete(arguments, at)' /\ streamCount' \in Nat /\ (streamCount = Sum[at])'
    <2>1. Complete(arguments, at) /\ streamCount \in Nat /\ streamCount = Sum[at]
      BY <1>1 DEF PrintfIInv
    <2>2. Complete(arguments, at)' /\ Sum' = Sum
      BY <1>1, <2>1, Carried
    <2> QED BY <1>1, <2>1, <2>2
  <1>7. CASE slow' = TRUE
    <2>1. stage' = "slow"
      BY <1>1, <1>7
    <2> QED BY <1>1, <1>3, <1>4, <1>5, <1>6, <1>7, <2>1 DEF PrintfIInv
  <1>8. CASE slow' = FALSE
    <2>1. stage' = "convert" /\ Printf!Plain(Printf!Directive) /\ Printf!Directive.op \in Printf!FastOps
      BY <1>1, <1>8
    <2>2. Converting'
      BY <1>1, <1>3, <1>8, <2>1 DEF Converting, Printf!Plain, Printf!FastOps
    <2> QED BY <1>1, <1>4, <1>5, <1>6, <1>8, <2>1, <2>2 DEF PrintfIInv
  <1> QED BY <1>2, <1>7, <1>8

LEMMA FinishedStep ==
  ASSUME PrintfIInv, Printf!Return
  PROVE  PrintfIInv'
  <1>1. /\ stage = "fast" /\ ~ Printf!More /\ stage' = "done"
        /\ UNCHANGED <<format, at, slow, buffLen, auxBuffLen, buffCount, arguments, streamCount>>
    BY DEF Printf!Return
  <1>2. at = Len(format)
    BY <1>1, PrintfTypes DEF Printf!More
  <1>3. Printf!TypeOK'
    BY <1>1 DEF PrintfIInv, Printf!TypeOK
  <1>4. InTurn(arguments, at, Turn)'
    <2>1. Turn = 0 /\ Turn' = 0
      BY <1>1 DEF Turn
    <2> QED BY <1>1, <2>1, Carried DEF PrintfIInv
  <1>5. Complete(arguments, at)' /\ streamCount' \in Nat /\ (streamCount = Sum[at])'
    <2>1. Complete(arguments, at) /\ streamCount \in Nat /\ streamCount = Sum[at]
      BY <1>1 DEF PrintfIInv
    <2>2. Complete(arguments, at)' /\ Sum' = Sum
      BY <1>1, <2>1, Carried
    <2> QED BY <1>1, <2>1, <2>2
  <1> QED BY <1>1, <1>2, <1>3, <1>4, <1>5 DEF PrintfIInv

LEMMA SlowStep ==
  ASSUME PrintfIInv, Printf!Slow
  PROVE  PrintfIInv'
  <1> DEFINE d == Printf!Directive
  <1>1. /\ stage = "slow" /\ UNCHANGED <<format, at, slow, buffCount>>
        /\ slow /\ Printf!More /\ d.op # "text"
    BY DEF Printf!Slow, PrintfIInv
  <1>2. /\ at \in Nat /\ PRINTF_BUFFLEN \in Nat /\ Printf!IsDirective(d)
        /\ buffLen \in Nat /\ auxBuffLen \in Nat /\ buffCount \in Nat
    BY <1>1, PrintfTypes
  <1>3. CASE Printf!Error /\ UNCHANGED <<arguments, auxBuffLen, buffLen>>
    BY <1>1, <1>2, <1>3, ErrorStep
  <1> DEFINE width == IF d.width.by = "star" THEN <<<<at + 1, "width">>>> ELSE <<>>
             precision == IF d.precision.by = "star" THEN <<<<at + 1, "precision">>>> ELSE <<>>
             value == IF d.op \in Printf!ReadsEarly THEN <<<<at + 1, "value">>>> ELSE <<>>
             Room(reqd) ==
                /\ auxBuffLen' = IF reqd <= PRINTF_BUFFLEN THEN auxBuffLen ELSE Printf!Max({auxBuffLen, reqd})
                /\ buffLen' = IF reqd <= PRINTF_BUFFLEN THEN PRINTF_BUFFLEN ELSE auxBuffLen'
  <1>4. CASE /\ d.op \in SlowOps
             /\ arguments' = arguments \o (width \o precision) \o value
             /\ \E exp \in Printf!Frexp(d) : Room(Printf!BuffReqd(d, exp))
             /\ stage' = "convert" /\ UNCHANGED streamCount
    <2>1. Printf!More' /\ Printf!Directive' = d
      BY <1>1 DEF Printf!More, Printf!Directive
    <2> PICK exp \in Printf!Frexp(d) : Room(Printf!BuffReqd(d, exp))
      BY <1>4
    <2> DEFINE reqd == Printf!BuffReqd(d, exp)
    <2>2. reqd \in Int /\ Room(reqd)
      BY <1>2, <1>4, SprintfFits
    <2>3. auxBuffLen' \in Nat /\ buffLen' \in Nat /\ buffLen' >= PRINTF_BUFFLEN /\ buffLen' >= reqd
      <3> HIDE DEF reqd
      <3>1. CASE reqd <= PRINTF_BUFFLEN
        BY <1>2, <2>2, <3>1
      <3>2. CASE ~ (reqd <= PRINTF_BUFFLEN)
        <4>1. Printf!Max({auxBuffLen, reqd}) = IF auxBuffLen >= reqd THEN auxBuffLen ELSE reqd
          BY <1>2, <2>2, Largest
        <4>2. auxBuffLen' = (IF auxBuffLen >= reqd THEN auxBuffLen ELSE reqd) /\ buffLen' = auxBuffLen'
          BY <2>2, <3>2, <4>1
        <4> QED BY <1>2, <2>2, <3>2, <4>2
      <3> QED BY <3>1, <3>2
    <2> DEFINE first == arguments \o width
               second == first \o precision
               read == second \o value
    <2>4. arguments' = read
      <3>1. arguments \in Seq(Nat \X Kinds) /\ width \in Seq(Nat \X Kinds) /\ precision \in Seq(Nat \X Kinds)
        <4>1. <<at + 1, "width">> \in Nat \X Kinds /\ <<at + 1, "precision">> \in Nat \X Kinds
          BY <1>2, Orders
        <4>2. arguments \in Seq(Nat \X Kinds)
          BY DEF PrintfIInv, InTurn
        <4>3. width \in {<<>>, <<<<at + 1, "width">>>>} /\ precision \in {<<>>, <<<<at + 1, "precision">>>>}
          OBVIOUS
        <4> DEFINE T == Nat \X Kinds
        <4> HIDE DEF T
        <4>4. \A x \in T : <<x>> \in Seq(T) /\ <<>> \in Seq(T)
          BY Single, <4>2 DEF T
        <4>5. <<<<at + 1, "width">>>> \in Seq(T) /\ <<<<at + 1, "precision">>>> \in Seq(T) /\ <<>> \in Seq(T)
          BY <4>1, <4>4 DEF T
        <4> HIDE DEF width, precision
        <4> QED BY <4>2, <4>3, <4>5 DEF T
      <3> HIDE DEF width, precision
      <3>2. arguments \o (width \o precision) = (arguments \o width) \o precision
        BY <3>1
      <3> QED BY <1>4, <3>2
    <2>5. Turn = 0 /\ InTurn(arguments, at, 0)
      <3>1. Turn = 0
        BY <1>1 DEF Turn
      <3> QED BY <3>1 DEF PrintfIInv
    <2>6. /\ InTurn(first, at, 1) /\ (d.width.by = "star" => Reads(first, at + 1, "width"))
          /\ \A i \in Nat, kind \in Kinds : Reads(arguments, i, kind) => Reads(first, i, kind)
      <3>1. /\ width \in {<<>>, Just(at, "width")} /\ (d.width.by = "star" => width # <<>>)
            /\ width # <<>> => Printf!Has(at + 1, "width")
        <4>1. d.width.by = "star" => Printf!Has(at + 1, "width")
          BY <1>1 DEF Printf!Has, Printf!Directive
        <4>2. <<<<at + 1, "width">>>> # <<>>
          OBVIOUS
        <4> HIDE DEF d
        <4> QED BY <4>1, <4>2 DEF Just
      <3> HIDE DEF width
      <3>2. /\ InTurn(arguments \o width, at, Printf!Order("width"))
            /\ width # <<>> => Reads(arguments \o width, at + 1, "width")
            /\ \A i \in Nat, kind \in Kinds : Reads(arguments, i, kind) => Reads(arguments \o width, i, kind)
        <4>1. PICK of \in Kinds, order \in Nat : of = "width" /\ order = 0 /\ order < Printf!Order(of)
          BY Orders
        <4>2. /\ InTurn(arguments, at, order) /\ width \in {<<>>, Just(at, of)}
              /\ width # <<>> => Printf!Has(at + 1, of)
          BY <2>5, <3>1, <4>1
        <4>3. order < Printf!Order(of)
          BY <4>1
        <4>4. /\ InTurn(arguments \o width, at, Printf!Order(of))
              /\ width # <<>> => Reads(arguments \o width, at + 1, of)
              /\ \A i \in Nat, kind \in Kinds : Reads(arguments, i, kind) => Reads(arguments \o width, i, kind)
          BY <1>2, <4>2, <4>3, IfThere
        <4> QED BY <4>1, <4>4
      <3> QED BY <3>1, <3>2, Orders
    <2>7. /\ InTurn(second, at, 2) /\ (d.precision.by = "star" => Reads(second, at + 1, "precision"))
          /\ \A i \in Nat, kind \in Kinds : Reads(first, i, kind) => Reads(second, i, kind)
      <3>1. /\ precision \in {<<>>, Just(at, "precision")} /\ (d.precision.by = "star" => precision # <<>>)
            /\ precision # <<>> => Printf!Has(at + 1, "precision")
        <4>1. d.precision.by = "star" => Printf!Has(at + 1, "precision")
          BY <1>1 DEF Printf!Has, Printf!Directive
        <4>2. <<<<at + 1, "precision">>>> # <<>>
          OBVIOUS
        <4> HIDE DEF d
        <4> QED BY <4>1, <4>2 DEF Just
      <3> HIDE DEF first, precision
      <3>2. /\ InTurn(first \o precision, at, Printf!Order("precision"))
            /\ precision # <<>> => Reads(first \o precision, at + 1, "precision")
            /\ \A i \in Nat, kind \in Kinds : Reads(first, i, kind) => Reads(first \o precision, i, kind)
        <4>1. PICK of \in Kinds, order \in Nat : of = "precision" /\ order = 1 /\ order < Printf!Order(of)
          BY Orders
        <4>2. /\ InTurn(first, at, order) /\ precision \in {<<>>, Just(at, of)}
              /\ precision # <<>> => Printf!Has(at + 1, of)
          BY <2>6, <3>1, <4>1
        <4>3. order < Printf!Order(of)
          BY <4>1
        <4>4. /\ InTurn(first \o precision, at, Printf!Order(of))
              /\ precision # <<>> => Reads(first \o precision, at + 1, of)
              /\ \A i \in Nat, kind \in Kinds : Reads(first, i, kind) => Reads(first \o precision, i, kind)
          BY <1>2, <4>2, <4>3, IfThere
        <4> QED BY <4>1, <4>4
      <3> QED BY <3>1, <3>2, Orders
    <2>8. /\ InTurn(read, at, 3) /\ (d.op \in Printf!ReadsEarly => Reads(read, at + 1, "value"))
          /\ \A i \in Nat, kind \in Kinds : Reads(second, i, kind) => Reads(read, i, kind)
          /\ d.op \notin Printf!ReadsEarly => InTurn(read, at, 2)
      <3>1. /\ value \in {<<>>, Just(at, "value")} /\ (d.op \in Printf!ReadsEarly => value # <<>>)
            /\ value # <<>> => Printf!Has(at + 1, "value")
        <4>1. d.op \in Printf!ReadsEarly => Printf!Has(at + 1, "value")
          BY <1>1 DEF Printf!Has, Printf!Directive, Printf!ReadsEarly
        <4>2. <<<<at + 1, "value">>>> # <<>>
          OBVIOUS
        <4> HIDE DEF d
        <4> QED BY <4>1, <4>2 DEF Just
      <3>0. d.op \notin Printf!ReadsEarly => value = <<>>
        OBVIOUS
      <3> HIDE DEF second, value
      <3>2. /\ InTurn(second \o value, at, Printf!Order("value"))
            /\ value # <<>> => Reads(second \o value, at + 1, "value")
            /\ \A i \in Nat, kind \in Kinds : Reads(second, i, kind) => Reads(second \o value, i, kind)
        <4>1. PICK of \in Kinds, order \in Nat : of = "value" /\ order = 2 /\ order < Printf!Order(of)
          BY Orders
        <4>2. /\ InTurn(second, at, order) /\ value \in {<<>>, Just(at, of)}
              /\ value # <<>> => Printf!Has(at + 1, of)
          BY <2>7, <3>1, <4>1
        <4>3. order < Printf!Order(of)
          BY <4>1
        <4>4. /\ InTurn(second \o value, at, Printf!Order(of))
              /\ value # <<>> => Reads(second \o value, at + 1, of)
              /\ \A i \in Nat, kind \in Kinds : Reads(second, i, kind) => Reads(second \o value, i, kind)
          BY <1>2, <4>2, <4>3, IfThere
        <4> QED BY <4>1, <4>4
      <3>3. second \in Seq(Nat \X Kinds)
        BY <2>7 DEF InTurn
      <3>4. d.op \notin Printf!ReadsEarly => read = second
        BY <3>0, <3>3
      <3> QED BY <2>7, <3>1, <3>2, <3>4, Orders
    <2> HIDE DEF first, second, read, width, precision, value
    <2>9. at + 1 \in Nat /\ \A i \in 1 .. at : i \in Nat
      BY <1>2
    <2>10. Complete(read, at)
      <3>1. Complete(arguments, at)
        BY <1>1 DEF PrintfIInv
      <3> QED BY <2>6, <2>7, <2>8, <2>9, <3>1 DEF Complete
    <2>11. \A of \in Kinds : Printf!Has(at + 1, of) /\ (of # "value" \/ d.op \in Printf!ReadsEarly)
                              => Reads(read, at + 1, of)
      <3>1. Reads(first, at + 1, "width") => Reads(read, at + 1, "width")
        BY <2>7, <2>8, <2>9, Orders
      <3>2. Reads(second, at + 1, "precision") => Reads(read, at + 1, "precision")
        BY <2>8, <2>9, Orders
      <3>3. /\ Printf!Has(at + 1, "width") => d.width.by = "star"
            /\ Printf!Has(at + 1, "precision") => d.precision.by = "star"
        BY DEF Printf!Has, Printf!Directive
      <3>4. \A of \in Kinds : of = "width" \/ of = "precision" \/ of = "value"
        BY DEF Kinds
      <3> HIDE DEF d
      <3> QED BY <2>6, <2>7, <2>8, <3>1, <3>2, <3>3, <3>4
    <2>12. InTurn(arguments, at, Turn)'
      <3>1. Turn' = IF d.op \in Printf!ReadsEarly THEN 3 ELSE 2
        BY <1>1, <1>4, <2>1 DEF Turn, Printf!ReadsEarly
      <3>2. InTurn(read, at, IF d.op \in Printf!ReadsEarly THEN 3 ELSE 2)
        BY <2>8
      <3> HIDE DEF d
      <3> QED BY <1>1, <2>4, <3>1, <3>2, Carried
    <2>13. Complete(arguments, at)' /\ streamCount' \in Nat /\ (streamCount = Sum[at])'
      <3>1. streamCount \in Nat /\ streamCount = Sum[at]
        BY <1>1 DEF PrintfIInv
      <3>2. Complete(arguments, at)' /\ Sum' = Sum
        BY <1>1, <2>4, <2>10, Carried
      <3> QED BY <1>1, <1>4, <3>1, <3>2
    <2>14. Printf!TypeOK'
      BY <1>1, <1>4, <2>3 DEF PrintfIInv, Printf!TypeOK
    <2>15. Converting'
      BY <1>1, <1>4, <2>1 DEF Converting, SlowOps, Printf!Integral
    <2>16. (\E e \in Printf!Frexp(Printf!Directive) : buffLen >= Printf!BuffReqd(Printf!Directive, e))'
      BY <2>1, <2>3
    <2>17. (\A of \in Kinds : Printf!Has(at + 1, of) /\ (of # "value" \/ Printf!Directive.op \in Printf!ReadsEarly)
                          => Reads(arguments, at + 1, of))'
      BY <1>1, <2>1, <2>4, <2>11 DEF Printf!Has, Printf!ReadsEarly, Reads
    <2>18. slow' /\ stage' = "convert" /\ format' \in Formats \cup {<<>>} /\ buffLen' >= PRINTF_BUFFLEN
      BY <1>1, <1>4, <2>3 DEF PrintfIInv
    <2> HIDE DEF d, width, precision, value, reqd
    <2> QED BY <2>12, <2>13, <2>14, <2>15, <2>16, <2>17, <2>18 DEF PrintfIInv
  <1>5. \/ Printf!Error /\ UNCHANGED <<arguments, auxBuffLen, buffLen>>
        \/ /\ d.op \in SlowOps
           /\ arguments' = arguments \o (width \o precision) \o value
           /\ \E exp \in Printf!Frexp(d) : Room(Printf!BuffReqd(d, exp))
           /\ stage' = "convert" /\ UNCHANGED streamCount
    BY DEF Printf!Slow, SlowOps, Printf!Stars, Printf!Argument
  <1> QED BY <1>3, <1>4, <1>5

LEMMA ConvertStep ==
  ASSUME PrintfIInv, Printf!Convert
  PROVE  PrintfIInv'
  <1> DEFINE d == Printf!Directive
             early == slow /\ d.op \in Printf!ReadsEarly
  <1>1. /\ stage = "convert" /\ UNCHANGED <<format, at, slow, auxBuffLen>>
        /\ Printf!More /\ d.op # "text"
        /\ slow => d.op \in SlowOps
        /\ ~slow => Printf!Plain(d) /\ d.op \in Printf!FastOps
    BY DEF Printf!Convert, PrintfIInv, Converting
  <1>2. /\ at \in Nat /\ PRINTF_BUFFLEN \in Nat /\ PRINTF_BUFFLEN >= 56 /\ Printf!IsDirective(d)
        /\ buffLen \in Nat /\ auxBuffLen \in Nat /\ buffCount \in Nat /\ slow \in BOOLEAN
    BY <1>1, PrintfTypes
  <1>3. CASE Printf!Error /\ UNCHANGED <<arguments, buffCount, buffLen>>
    BY <1>1, <1>2, <1>3, ErrorStep
  <1>4. CASE /\ arguments' = IF d.op = "%" \/ early THEN arguments ELSE Append(arguments, <<at + 1, "value">>)
             /\ buffCount' = CASE d.op = "%" -> 1 [] d.op = "n" -> 0 [] OTHER -> Printf!Sprintf(d)
             /\ buffLen' = IF d.op = "s" /\ ~slow THEN d.length + 1 ELSE buffLen
             /\ stage' = "put" /\ UNCHANGED streamCount
    <2>1. Printf!More' /\ Printf!Directive' = d
      BY <1>1 DEF Printf!More, Printf!Directive
    <2>2. d.op \in SlowOps \cup {"%", "n"}
      BY <1>1, <1>2 DEF SlowOps, Printf!Integral, Printf!FastOps
    <2>3. Printf!TextLength(d) \in Nat /\ d.length \in Nat
      BY <1>2, <2>2, TextLengths DEF Printf!IsDirective
    <2>4. buffCount' = Printf!TextLength(d)
      BY <1>1, <1>4 DEF Printf!TextLength
    <2>5. buffLen' \in Nat
      BY <1>2, <1>4, <2>3
    <2>6. Printf!Misjudged(d) \/ (/\ buffCount' <= buffLen'
                                  /\ Printf!MinWidth(d) < PRINTF_BUFFLEN => buffCount' < buffLen')
      <3>1. CASE slow
        <4>1. d.op \in SlowOps /\ d.op \notin {"%", "n"} /\ buffLen' = buffLen
          BY <1>1, <1>4, <3>1 DEF SlowOps, Printf!Integral
        <4>2. buffCount' = Printf!Sprintf(d)
          BY <1>4, <4>1
        <4>3. /\ buffLen >= PRINTF_BUFFLEN
              /\ \E exp \in Printf!Frexp(d) : buffLen >= Printf!BuffReqd(d, exp)
          BY <1>1, <3>1 DEF PrintfIInv
        <4> HIDE DEF d
        <4>4. PICK exp \in Printf!Frexp(d) : buffLen >= Printf!BuffReqd(d, exp)
          BY <4>3
        <4>5. ~Printf!Misjudged(d) => /\ Printf!Sprintf(d) <= buffLen
                                      /\ Printf!MinWidth(d) < PRINTF_BUFFLEN => Printf!Sprintf(d) < buffLen
          BY <1>2, <4>1, <4>3, <4>4, SprintfFits
        <4> QED BY <4>1, <4>2, <4>5
      <3>2. CASE ~slow
        <4>1. Printf!Plain(d) /\ d.op \in Printf!FastOps /\ buffLen = PRINTF_BUFFLEN
          BY <1>1, <3>2 DEF PrintfIInv
        <4>2. CASE d.op \in {"%", "n"}
          <5>1. buffCount' \in {0, 1} /\ buffLen' = PRINTF_BUFFLEN
            BY <1>4, <4>1, <4>2
          <5> QED BY <1>2, <5>1
        <4>3. CASE d.op = "s"
          <5>1. buffCount' = Printf!Sprintf(d) /\ buffLen' = d.length + 1
            BY <1>4, <3>2, <4>3
          <5>2. Printf!Sprintf(d) = d.length
            BY <1>2, <4>1, <4>3, ExponentFound, SprintfFits DEF SlowOps
          <5> QED BY <2>3, <5>1, <5>2
        <4>4. CASE d.op \notin {"%", "n", "s"}
          <5>1. buffCount' = Printf!Sprintf(d) /\ buffLen' = PRINTF_BUFFLEN /\ d.op # "f"
            BY <1>4, <4>1, <4>4 DEF Printf!FastOps
          <5>2. d.op \in SlowOps
            BY <2>2, <4>4
          <5>3. Printf!Sprintf(d) < 56 /\ Printf!Sprintf(d) \in Nat
            BY <1>2, <4>1, <4>4, <5>1, <5>2, ExponentFound, SprintfFits
          <5> QED BY <1>2, <5>1, <5>3
        <4> QED BY <4>2, <4>3, <4>4
      <3> QED BY <3>1, <3>2
    <2>7. Printf!Fits'
      BY <2>1, <2>6 DEF Printf!Fits, Printf!Misjudged, Printf!TooLarge, Printf!MinWidth
    <2>8. PICK read : read = arguments'
      OBVIOUS
    <2>9. /\ InTurn(arguments, at, Turn) /\ Complete(arguments, at)
          /\ slow => \A of \in Kinds : Printf!Has(at + 1, of) /\ (of # "value" \/ d.op \in Printf!ReadsEarly)
                                       => Reads(arguments, at + 1, of)
      BY <1>1 DEF PrintfIInv
    <2>10. ~slow => ~ Printf!Has(at + 1, "width") /\ ~ Printf!Has(at + 1, "precision")
      BY <1>1 DEF Printf!Has, Printf!Plain, Printf!Directive
    <2>11. /\ d.op = "%" => ~ Printf!Has(at + 1, "value")
           /\ d.op # "%" => Printf!Has(at + 1, "value")
      BY <1>1 DEF Printf!Has, Printf!Directive
    <2>12. \A of \in Kinds : of = "width" \/ of = "precision" \/ of = "value"
      BY DEF Kinds
    <2>13. d.op = "%" => ~slow
      BY <1>1 DEF SlowOps, Printf!Integral
    <2>14. InTurn(read, at, 3) /\ Complete(read, at + 1)
      <3>1. CASE d.op = "%" \/ early
        <4>1. read = arguments
          BY <1>4, <2>8, <3>1
        <4>2. InTurn(read, at, 3)
          BY <1>2, <2>9, <4>1, WholeDirective
        <4>3. \A of \in Kinds : Printf!Has(at + 1, of) => Reads(read, at + 1, of)
          <5>1. CASE early
            BY <2>9, <4>1, <5>1
          <5>2. CASE d.op = "%"
            BY <2>10, <2>11, <2>12, <2>13, <5>2
          <5> QED BY <3>1, <5>1, <5>2
        <4> QED BY <1>2, <2>9, <4>1, <4>2, <4>3, CompleteNext
      <3>2. CASE ~ (d.op = "%" \/ early)
        <4>1. read = Append(arguments, <<at + 1, "value">>)
          BY <1>4, <2>8, <3>2
        <4>2. Turn \in {0, 2}
          BY <1>1, <1>2, <3>2 DEF Turn
        <4>3. Turn \in Nat /\ Turn < Printf!Order("value")
          BY <4>2, Orders
        <4>4. Printf!Has(at + 1, "value")
          BY <2>11, <3>2
        <4> HIDE DEF early, d
        <4>5. /\ InTurn(read, at, Printf!Order("value")) /\ Reads(read, at + 1, "value")
              /\ \A i \in Nat, kind \in Kinds : Reads(arguments, i, kind) => Reads(read, i, kind)
          BY <1>2, <2>9, <4>1, <4>3, <4>4, Orders, OneMore
        <4>6. at + 1 \in Nat /\ \A i \in 1 .. at : i \in Nat
          BY <1>2
        <4>7. Complete(read, at)
          BY <2>9, <4>5, <4>6 DEF Complete
        <4>8. \A of \in Kinds : Printf!Has(at + 1, of) => Reads(read, at + 1, of)
          <5>1. Printf!Has(at + 1, "width") => Reads(arguments, at + 1, "width")
            BY <1>2, <2>9, <2>10, Orders
          <5>2. Printf!Has(at + 1, "precision") => Reads(arguments, at + 1, "precision")
            BY <1>2, <2>9, <2>10, Orders
          <5>3. /\ Reads(arguments, at + 1, "width") => Reads(read, at + 1, "width")
                /\ Reads(arguments, at + 1, "precision") => Reads(read, at + 1, "precision")
            BY <4>5, <4>6, Orders
          <5> QED BY <2>12, <4>5, <5>1, <5>2, <5>3
        <4>9. InTurn(read, at, 3)
          BY <4>5, Orders
        <4> QED BY <1>2, <4>7, <4>8, <4>9, CompleteNext
      <3> QED BY <3>1, <3>2
    <2>15. InTurn(arguments, at, Turn)'
      <3>1. Turn' = 3
        BY <1>4 DEF Turn
      <3> QED BY <1>1, <2>8, <2>14, <3>1, Carried
    <2>16. Complete(arguments, at + 1)' /\ Complete(arguments, at)'
           /\ streamCount' \in Nat /\ (streamCount = Sum[at])'
      <3>1. streamCount \in Nat /\ streamCount = Sum[at]
        BY <1>1 DEF PrintfIInv
      <3>2. Complete(arguments, at + 1)' /\ Sum' = Sum
        BY <1>1, <2>8, <2>14, Carried
      <3>3. Complete(read, at)
        <4>1. \A i \in 1 .. at : i \in 1 .. at + 1
          BY <1>2
        <4> QED BY <2>14, <4>1 DEF Complete
      <3>4. Complete(arguments, at)'
        BY <1>1, <2>8, <3>3, Carried
      <3> QED BY <1>1, <1>4, <3>1, <3>2, <3>4
    <2>17. Printf!TypeOK'
      BY <1>1, <1>4, <2>3, <2>4, <2>5 DEF PrintfIInv, Printf!TypeOK
    <2>18. (buffCount = Printf!TextLength(Printf!Directive))'
      BY <2>1, <2>4 DEF Printf!TextLength
    <2> QED BY <1>1, <1>4, <2>1, <2>7, <2>15, <2>16, <2>17, <2>18 DEF PrintfIInv
  <1>5. \/ Printf!Error /\ UNCHANGED <<arguments, buffCount, buffLen>>
        \/ /\ arguments' = IF d.op = "%" \/ early THEN arguments ELSE Append(arguments, <<at + 1, "value">>)
           /\ buffCount' = CASE d.op = "%" -> 1 [] d.op = "n" -> 0 [] OTHER -> Printf!Sprintf(d)
           /\ buffLen' = IF d.op = "s" /\ ~slow THEN d.length + 1 ELSE buffLen
           /\ stage' = "put" /\ UNCHANGED streamCount
    BY DEF Printf!Convert, Printf!Argument
  <1> QED BY <1>3, <1>4, <1>5

LEMMA PrintfStep ==
  ASSUME PrintfIInv, Printf!Next
  PROVE  PrintfIInv'
  BY TextStep, FastStep, SlowStep, ConvertStep, PutStep, FinishedStep DEF Printf!Next

LEMMA PrintfKept ==
  ASSUME PrintfIInv, UNCHANGED printfVars
  PROVE  PrintfIInv'
  <1>1. UNCHANGED <<format, at, stage, slow, buffLen, auxBuffLen, buffCount, arguments, streamCount>>
    BY DEF printfVars
  <1>2. Printf!More' = Printf!More /\ Printf!Directive' = Printf!Directive /\ Turn' = Turn
    BY <1>1 DEF Printf!More, Printf!Directive, Turn
  <1>3. InTurn(arguments, at, Turn)'
    BY <1>1, <1>2, Carried DEF PrintfIInv
  <1>4. /\ Complete(arguments, at) => Complete(arguments, at)'
        /\ Complete(arguments, at + 1) => Complete(arguments, at + 1)'
        /\ Sum' = Sum
    BY <1>1, Carried
  <1>5. Printf!TypeOK' /\ Converting' = Converting /\ Printf!Fits' = Printf!Fits
    BY <1>1, <1>2 DEF PrintfIInv, Printf!TypeOK, Converting, Printf!Fits
  <1>6. (\A of \in Kinds : Printf!Has(at + 1, of) /\ (of # "value" \/ Printf!Directive.op \in Printf!ReadsEarly)
                          => Reads(arguments, at + 1, of))'
        = (\A of \in Kinds : Printf!Has(at + 1, of) /\ (of # "value" \/ Printf!Directive.op \in Printf!ReadsEarly)
                          => Reads(arguments, at + 1, of))
    BY <1>1, <1>2 DEF Printf!Has, Reads
  <1>7. /\ (\E exp \in Printf!Frexp(Printf!Directive) : buffLen >= Printf!BuffReqd(Printf!Directive, exp))'
           = (\E exp \in Printf!Frexp(Printf!Directive) : buffLen >= Printf!BuffReqd(Printf!Directive, exp))
        /\ Printf!TextLength(Printf!Directive)' = Printf!TextLength(Printf!Directive)
    BY <1>1, <1>2
  <1> QED BY <1>1, <1>2, <1>3, <1>4, <1>5, <1>6, <1>7 DEF PrintfIInv

LEMMA PrintfStart ==
  ASSUME NEW directives \in Formats \cup {<<>>}, Printf!InitWith(directives)
  PROVE  PrintfIInv
  <1>1. /\ format = directives /\ at = 0 /\ stage = "fast" /\ slow = FALSE
        /\ buffLen = PRINTF_BUFFLEN /\ auxBuffLen = 0 /\ buffCount = 0
        /\ arguments = <<>> /\ streamCount = 0
    BY DEF Printf!InitWith
  <1>2. Len(format) \in Nat /\ PRINTF_BUFFLEN \in Nat
    BY <1>1, FormatTypes
  <1>3. Printf!TypeOK
    <2>1. 0 \in 0 .. Len(format)
      BY <1>2
    <2> QED BY <1>1, <1>2, <2>1 DEF Printf!TypeOK
  <1>4. InTurn(arguments, at, Turn) /\ Complete(arguments, at)
    <2>1. arguments \in Seq(Nat \X Kinds) /\ DOMAIN arguments = {} /\ 1 .. at = {}
      BY <1>1
    <2> QED BY <2>1 DEF InTurn, Complete
  <1>5. streamCount = Sum[at]
    BY <1>1, <1>2, SumStep
  <1> QED BY <1>1, <1>3, <1>4, <1>5 DEF PrintfIInv

LEMMA PrintfInitial ==
  ASSUME IF interface = "printf" THEN Printf!Init ELSE Printf!InitWith(<<>>)
  PROVE  PrintfIInv
  <1>1. CASE interface = "printf"
    BY <1>1, PrintfStart DEF Printf!Init
  <1>2. CASE interface # "printf"
    BY <1>2, PrintfStart
  <1> QED BY <1>1, <1>2

LEMMA PrintfChecked ==
  ASSUME PrintfIInv
  PROVE  PrintfInv
  <1>1. at \in Nat
    BY PrintfTypes
  <1>2. Printf!ArgumentsInTurn
    BY DEF PrintfIInv, InTurn, Complete, Reads, Kinds, Printf!ArgumentsInTurn
  <1>3. Printf!Fits
    BY DEF PrintfIInv, Printf!Fits
  <1>4. Printf!CountsAll
    BY DEF PrintfIInv, Sum, IsSum, Printf!CountsAll
  <1> QED BY <1>2, <1>3, <1>4 DEF PrintfIInv, PrintfInv, Printf!PrintfInv
-----------------------------------------------------------------------------
(* A step is one of one interface, and changes nothing of the others.      *)

LEMMA ParamsInvariant == Spec => []ParamsIInv
  <1>1. Init => ParamsIInv
    BY ParamsInitial DEF Init
  <1>2. ParamsIInv /\ [Next]_vars => ParamsIInv'
    <2> SUFFICES ASSUME ParamsIInv, [Next]_vars PROVE ParamsIInv'
      OBVIOUS
    <2>1. CASE Params!Next
      BY <2>1, PutParamStep
    <2>2. CASE UNCHANGED paramsVars
      BY <2>2, ParamsKept
    <2>3. CASE UNCHANGED vars
      BY <2>3, ParamsKept DEF vars
    <2> QED BY <2>1, <2>2, <2>3 DEF Next
  <1> QED BY <1>1, <1>2, PTL DEF Spec

(* FCGX_GetParam finds under each name what PutParam was given for it      *)
(* first, whatever the server sent and however often the vector grew; the  *)
(* vector always has room for its NULL.                                    *)
THEOREM ParamsCorrect == Spec => []ParamsInv
  <1>1. ParamsIInv => ParamsInv
    BY ParamsFound
  <1> QED BY <1>1, ParamsInvariant, PTL

LEMMA LinesInvariant == Spec => []LinesIInv
  <1>1. Init => LinesIInv
    BY LinesInitial DEF Init
  <1>2. LinesIInv /\ [Next]_vars => LinesIInv'
    <2> SUFFICES ASSUME LinesIInv, [Next]_vars PROVE LinesIInv'
      OBVIOUS
    <2>1. CASE Lines!Next
      BY <2>1, LinesStep
    <2>2. CASE UNCHANGED linesVars
      BY <2>2, LinesKept
    <2>3. CASE UNCHANGED vars
      BY <2>3, LinesKept DEF vars
    <2> QED BY <2>1, <2>2, <2>3 DEF Next
  <1> QED BY <1>1, <1>2, PTL DEF Spec

(* FCGX_GetLine and FCGI_gets return the next line of the stream, or what  *)
(* of it fits the array, store within the array, and NULL only at the end. *)
THEOREM LinesCorrect == Spec => []LinesInv
  <1>1. LinesIInv => LinesInv
    BY LinesAnswered
  <1> QED BY <1>1, LinesInvariant, PTL

LEMMA StdioInvariant == Spec => []StdioIInv
  <1>1. Init => StdioIInv
    BY StdioInitial DEF Init
  <1>2. StdioIInv /\ [Next]_vars => StdioIInv'
    <2> SUFFICES ASSUME StdioIInv, [Next]_vars PROVE StdioIInv'
      OBVIOUS
    <2>1. CASE Stdio!Next
      BY <2>1, StdioStep
    <2>2. CASE UNCHANGED stdioVars
      BY <2>2, StdioKept
    <2>3. CASE UNCHANGED vars
      BY <2>3, StdioKept DEF vars
    <2> QED BY <2>1, <2>2, <2>3 DEF Next
  <1> QED BY <1>1, <1>2, PTL DEF Spec

(* Every wrapper an application may call goes to a FILE or FCGX_Stream     *)
(* that is live, no FILE opened is lost, and FCGI_SetExitStatus is what    *)
(* the request finishes with.                                              *)
THEOREM StdioCorrect == Spec => []StdioInv
  <1>1. StdioIInv => StdioInv
    BY StdioChecked
  <1> QED BY <1>1, StdioInvariant, PTL

LEMMA StreambufInvariant == Spec => []StreambufIInv
  <1>1. Init => StreambufIInv
    BY StreambufInitial DEF Init
  <1>2. StreambufIInv /\ [Next]_vars => StreambufIInv'
    <2> SUFFICES ASSUME StreambufIInv, [Next]_vars PROVE StreambufIInv'
      OBVIOUS
    <2>1. CASE Streambuf!Next
      BY <2>1, StreambufStep
    <2>2. CASE UNCHANGED streambufVars
      BY <2>2, StreambufKept
    <2>3. CASE UNCHANGED vars
      BY <2>3, StreambufKept DEF vars
    <2> QED BY <2>1, <2>2, <2>3 DEF Next
  <1> QED BY <1>1, <1>2, PTL DEF Spec

(* fcgi_streambuf returns the characters of the stream attached and hands  *)
(* over those it is given, each once and in order, for streams and buffers *)
(* of every size, until the stream fails.                                  *)
THEOREM StreambufCorrect == Spec => []StreambufInv
  <1>1. StreambufIInv => StreambufInv
    BY StreambufChecked
  <1> QED BY <1>1, StreambufInvariant, PTL

LEMMA PrintfInvariant == Spec => []PrintfIInv
  <1>1. Init => PrintfIInv
    BY PrintfInitial DEF Init
  <1>2. PrintfIInv /\ [Next]_vars => PrintfIInv'
    <2> SUFFICES ASSUME PrintfIInv, [Next]_vars PROVE PrintfIInv'
      OBVIOUS
    <2>1. CASE Printf!Next
      BY <2>1, PrintfStep
    <2>2. CASE UNCHANGED printfVars
      BY <2>2, PrintfKept
    <2>3. CASE UNCHANGED vars
      BY <2>3, PrintfKept DEF vars
    <2> QED BY <2>1, <2>2, <2>3 DEF Next
  <1> QED BY <1>1, <1>2, PTL DEF Spec

(* FCGX_VFPrintF reads the arguments in turn on either path, its texts fit *)
(* their buffers, and it returns the number of characters of the format.   *)
THEOREM PrintfCorrect == Spec => []PrintfInv
  <1>1. PrintfIInv => PrintfInv
    BY PrintfChecked
  <1> QED BY <1>1, PrintfInvariant, PTL
=============================================================================
