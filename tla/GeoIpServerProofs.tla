-------------------------- MODULE GeoIpServerProofs --------------------------
(***************************************************************************)
(* Proofs about GeoIpServer: for any files, and for any clients, texts in  *)
(* one piece or in several, and a server that may stop at any moment.      *)
(***************************************************************************)
EXTENDS GeoIpServer, Integers, Sequences, FiniteSets, WellFoundedInduction, TLAPS

-----------------------------------------------------------------------------
(* The tables, line by line.                                               *)

\* What the first n lines of the locations file put on the heap and in the
\* locations table: an id has the first line that gives it.
Located(n) == {i \in 1 .. n : locations_file[i].match /\ locations_file[i].id < UlongMax}
LocationsUpTo(n) ==
    /\ heap = {i \in 1 .. n : locations_file[i].match}
    /\ DOMAIN locations_table = {locations_file[i].id : i \in Located(n)}
    /\ \A id \in DOMAIN locations_table : locations_table[id] = Table!First(Table!LinesOf(id))

\* What the first n lines of the blocks file put in the address table: an
\* address has the first block that counts and starts there.
BlocksUpTo(n) ==
    /\ DOMAIN address_table = {blocks_file[i].first : i \in {j \in Table!Blocks : j <= n}}
    /\ \A ip \in DOMAIN address_table :
          address_table[ip] = Table!LocationOfBlock(Table!First(Table!StartsAt(ip)))

TableIInv ==
    /\ locations_file \in LocationFiles /\ blocks_file \in BlockFiles
    /\ phase \in {"locations", "blocks", "ready", "listening", "deleted"}
    /\ missing \subseteq {"locations", "blocks"}
    /\ at \in 0 .. MaxLines
    /\ phase = "locations" => /\ at <= Len(locations_file)
                              /\ LocationsUpTo(at)
                              /\ address_table = Table!EmptyMap
    /\ phase \in {"blocks", "ready", "listening"} => LocationsUpTo(Len(locations_file))
    /\ phase = "blocks" => at <= Len(blocks_file) /\ BlocksUpTo(at)
    /\ phase \in {"ready", "listening"} => BlocksUpTo(Len(blocks_file))
    /\ phase = "deleted" => /\ heap \subseteq 1 .. MaxLines
                            /\ locations_table = Table!EmptyMap /\ address_table = Table!EmptyMap
-----------------------------------------------------------------------------
(* The sessions.                                                           *)

Text(c) == Service!AddressText(asked[c])

\* What a thread may read first, which is the whole text when the network
\* delivers each in one piece, and the answers to that.
FirstReads(c) ==
    {SubSeq(Text(c), 1, n) : n \in IF mayFragment THEN 1 .. Len(Text(c)) ELSE {Len(Text(c))}}
FirstAnswers(c) == {Service!Answer(text) : text \in FirstReads(c)}

\* Before its first answer, what a thread has read begins the client's text,
\* and what it has not read yet is the whole of it.
Unanswered(c) ==
    /\ client[c] \in {"start", "connected"} =>
          toServer[c] = <<>> /\ request[c] = <<>> /\ toClient[c] = <<>> /\ session[c] # "answering"
    /\ client[c] = "start" => session[c] = "none"
    /\ toClient[c] = <<>> /\ client[c] \notin {"start", "connected", "done"} =>
          /\ session[c] \in {"none", "reading"} => toServer[c] \in {<<>>, Text(c)}
          /\ session[c] = "answering" => request[c] \in FirstReads(c)

\* Where a connection is: its first answer is one to a first part of its text.
Connection(c) ==
    /\ Len(request[c]) + Len(toServer[c]) <= 3
    /\ session[c] \in {"none", "reading"} => request[c] = <<>>
    /\ client[c] # "done" => response[c] = NoResponse
    /\ client[c] = "done" => response[c] \in FirstAnswers(c) /\ toClient[c] # <<>>
    /\ client[c] # "done" /\ toClient[c] # <<>> => Head(toClient[c]) \in FirstAnswers(c)
    /\ Unanswered(c)

\* A connection waits for the acceptor once, and has no thread until then.
Waiting ==
    /\ backlog \in Seq(Clients)
    /\ \A i \in DOMAIN backlog : session[backlog[i]] = "none" /\ client[backlog[i]] # "start"
    /\ \A i, j \in DOMAIN backlog : backlog[i] = backlog[j] => i = j

\* Before the server listens nothing has happened.
Idle ==
    /\ mayFragment = FALSE /\ up = FALSE
    /\ client = [c \in Clients |-> "start"]
    /\ response = [c \in Clients |-> NoResponse]

\* The pieces of an address's text.
Pieces == {"head", "0", "1"}

ServiceTypes ==
    /\ mayFragment \in BOOLEAN /\ up \in BOOLEAN
    /\ client \in [Clients -> {"start", "connected", "reading", "done", "failed", "killed"}]
    /\ asked \in [Clients -> Addresses \cup {0}]
    /\ session \in [Clients -> {"none", "reading", "answering", "ended", "failed"}]
    /\ request \in [Clients -> Seq(Pieces)]
    /\ toServer \in [Clients -> Seq(Pieces)]
    /\ toClient \in [Clients -> Seq(Service!Answers)]
    /\ response \in [Clients -> Service!Answers \cup {NoResponse}]

ServiceIInv ==
    /\ ServiceTypes
    /\ Waiting
    /\ phase # "listening" => Idle
    /\ \A c \in Clients : Connection(c)

ServerIInv == TableIInv /\ ServiceIInv
-----------------------------------------------------------------------------
(* Sets of numbers.                                                        *)

LEMMA LeastNat ==
    ASSUME NEW T \in SUBSET Nat, T # {}
    PROVE  \E x \in T : \A y \in T : x <= y
  <1> DEFINE R == OpToRel(<, Nat)
  <1>1. IsWellFoundedOn(R, Nat)
    BY NatLessThanWellFounded
  <1>2. PICK x \in T : \A y \in T : <<y, x>> \notin R
    <2> HIDE DEF R
    <2> QED BY <1>1, WFMin
  <1>3. \A y \in T : ~ (y < x)
    BY <1>2 DEF OpToRel
  <1> QED BY <1>3

LEMMA GreatestNat ==
    ASSUME NEW T \in SUBSET Nat, T # {}, NEW bound \in Nat, \A x \in T : x <= bound
    PROVE  \E x \in T : \A y \in T : y <= x
  <1> DEFINE U == {bound - x : x \in T}
  <1>1. \A x \in T : bound - x \in Nat
    OBVIOUS
  <1>2. PICK u \in U : \A v \in U : u <= v
    <2>1. U \in SUBSET Nat /\ U # {}
      BY <1>1
    <2> HIDE DEF U
    <2> QED BY <2>1, LeastNat
  <1>3. PICK x \in T : u = bound - x
    BY <1>2
  <1>4. \A y \in T : bound - x <= bound - y
    BY <1>2, <1>3
  <1> QED BY <1>3, <1>4

LEMMA FirstIsLeast ==
    ASSUME NEW T \in SUBSET Nat, T # {}
    PROVE  Table!First(T) \in T /\ \A y \in T : Table!First(T) <= y
  <1>1. \E x \in T : \A y \in T : x <= y
    BY LeastNat
  <1> QED BY <1>1 DEF Table!First

LEMMA LeastIsFirst ==
    ASSUME NEW T \in SUBSET Nat, NEW x \in T, \A y \in T : x <= y
    PROVE  Table!First(T) = x
  <1>1. Table!First(T) \in T /\ \A y \in T : Table!First(T) <= y
    BY FirstIsLeast
  <1>2. Table!First(T) \in Nat /\ x \in Nat /\ x <= Table!First(T) /\ Table!First(T) <= x
    BY <1>1
  <1> QED BY <1>2
-----------------------------------------------------------------------------
(* What a lookup finds.                                                    *)

LEMMA GreatestFound ==
    ASSUME NEW map, DOMAIN map \subseteq Nat, NEW ip \in Nat, Table!AtOrBelow(map, ip) # {}
    PROVE  /\ Table!Greatest(Table!AtOrBelow(map, ip)) \in Table!AtOrBelow(map, ip)
           /\ \A k \in Table!AtOrBelow(map, ip) : k <= Table!Greatest(Table!AtOrBelow(map, ip))
  <1> DEFINE T == Table!AtOrBelow(map, ip)
  <1>1. T \in SUBSET Nat /\ T # {} /\ \A k \in T : k <= ip
    BY DEF Table!AtOrBelow
  <1>2. \E x \in T : \A y \in T : y <= x
    <2> HIDE DEF T
    <2> QED BY <1>1, GreatestNat
  <1> HIDE DEF T
  <1>3. Table!Greatest(T) \in T /\ \A k \in T : k <= Table!Greatest(T)
    BY <1>2 DEF Table!Greatest
  <1> QED BY <1>3 DEF T
-----------------------------------------------------------------------------
(* Lines.                                                                  *)

LEMMA Files ==
    ASSUME TableIInv
    PROVE  /\ Len(locations_file) \in 0 .. MaxLines /\ DOMAIN locations_file = 1 .. Len(locations_file)
           /\ \A i \in 1 .. Len(locations_file) :
                 locations_file[i] \in [match : BOOLEAN, id : Nat]
           /\ Len(blocks_file) \in 0 .. MaxLines /\ DOMAIN blocks_file = 1 .. Len(blocks_file)
           /\ \A i \in 1 .. Len(blocks_file) :
                 blocks_file[i] \in [match : BOOLEAN, first : Nat, last : Nat, id : Nat]
           /\ UlongMax \in Nat /\ MaxLines \in Nat
  <1>1. locations_file \in LocationFiles /\ blocks_file \in BlockFiles
    BY DEF TableIInv
  <1>2. /\ locations_file \in Seq([match : BOOLEAN, id : Nat]) /\ Len(locations_file) <= MaxLines
        /\ blocks_file \in Seq([match : BOOLEAN, first : Nat, last : Nat, id : Nat])
        /\ Len(blocks_file) <= MaxLines /\ UlongMax \in Nat /\ MaxLines \in Nat
    BY <1>1, ServerAssumption DEF Table!TableAssumption
  <1>3. ASSUME NEW S, NEW s \in Seq(S)
        PROVE  Len(s) \in Nat /\ DOMAIN s = 1 .. Len(s) /\ \A i \in 1 .. Len(s) : s[i] \in S
    OBVIOUS
  <1>4. /\ Len(locations_file) \in Nat /\ DOMAIN locations_file = 1 .. Len(locations_file)
        /\ \A i \in 1 .. Len(locations_file) :
              locations_file[i] \in [match : BOOLEAN, id : Nat]
    <2> DEFINE S == [match : BOOLEAN, id : Nat]
    <2>1. locations_file \in Seq(S)
      BY <1>2
    <2> HIDE DEF S
    <2>2. /\ Len(locations_file) \in Nat /\ DOMAIN locations_file = 1 .. Len(locations_file)
          /\ \A i \in 1 .. Len(locations_file) : locations_file[i] \in S
      BY <1>3, <2>1
    <2> QED BY <2>2 DEF S
  <1>5. /\ Len(blocks_file) \in Nat /\ DOMAIN blocks_file = 1 .. Len(blocks_file)
        /\ \A i \in 1 .. Len(blocks_file) :
              blocks_file[i] \in [match : BOOLEAN, first : Nat, last : Nat, id : Nat]
    <2> DEFINE S == [match : BOOLEAN, first : Nat, last : Nat, id : Nat]
    <2>1. blocks_file \in Seq(S)
      BY <1>2
    <2> HIDE DEF S
    <2>2. /\ Len(blocks_file) \in Nat /\ DOMAIN blocks_file = 1 .. Len(blocks_file)
          /\ \A i \in 1 .. Len(blocks_file) : blocks_file[i] \in S
      BY <1>3, <2>1
    <2> QED BY <2>2 DEF S
  <1> QED BY <1>2, <1>4, <1>5

\* strtoul, on what the pattern lets through.
LEMMA Numbers ==
    ASSUME NEW n \in Nat, UlongMax \in Nat
    PROVE  /\ Table!InRange(n) <=> n < UlongMax
           /\ n < UlongMax => Table!Strtoul(n) = n
  BY DEF Table!InRange, Table!Strtoul

\* An id that the file gives has the first line that gives it.
LEMMA FirstLine ==
    ASSUME TableIInv, NEW id, Table!LinesOf(id) # {}
    PROVE  /\ Table!First(Table!LinesOf(id)) \in 1 .. Len(locations_file)
           /\ locations_file[Table!First(Table!LinesOf(id))].match
           /\ locations_file[Table!First(Table!LinesOf(id))].id = id
           /\ \A i \in Table!LinesOf(id) : Table!First(Table!LinesOf(id)) <= i
  <1>1. Table!LinesOf(id) \subseteq 1 .. Len(locations_file) /\ Table!LinesOf(id) \in SUBSET Nat
    BY Files DEF Table!LinesOf
  <1>2. Table!First(Table!LinesOf(id)) \in Table!LinesOf(id)
    BY <1>1, FirstIsLeast
  <1>3. \A i \in Table!LinesOf(id) : Table!First(Table!LinesOf(id)) <= i
    BY <1>1, FirstIsLeast
  <1> QED BY <1>1, <1>2, <1>3 DEF Table!LinesOf

\* ... and so has an address with the blocks that start there.
LEMMA FirstBlock ==
    ASSUME TableIInv, NEW ip, Table!StartsAt(ip) # {}
    PROVE  /\ Table!First(Table!StartsAt(ip)) \in Table!Blocks
           /\ blocks_file[Table!First(Table!StartsAt(ip))].first = ip
           /\ \A i \in Table!StartsAt(ip) : Table!First(Table!StartsAt(ip)) <= i
  <1>1. Table!StartsAt(ip) \subseteq Table!Blocks /\ Table!StartsAt(ip) \in SUBSET Nat
    BY Files DEF Table!StartsAt, Table!Blocks
  <1>2. Table!First(Table!StartsAt(ip)) \in Table!StartsAt(ip)
    BY <1>1, FirstIsLeast
  <1>3. \A i \in Table!StartsAt(ip) : Table!First(Table!StartsAt(ip)) <= i
    BY <1>1, FirstIsLeast
  <1> QED BY <1>1, <1>2, <1>3 DEF Table!StartsAt
-----------------------------------------------------------------------------
(* Loading.                                                                *)

LEMMA LocationLineStep ==
    ASSUME TableIInv, Table!LocationLine
    PROVE  TableIInv'
  <1>0. at \in Nat /\ at + 1 \in Nat
    BY Files DEF TableIInv
  <1> PICK n \in Nat : n = at + 1
    BY <1>0
  <1> DEFINE line == locations_file[n]
  <1>1. /\ phase = "locations" /\ phase' = "locations" /\ at < Len(locations_file) /\ at' = n
        /\ at \in Nat /\ n \in 1 .. Len(locations_file) /\ n \in 0 .. MaxLines
        /\ UNCHANGED <<locations_file, blocks_file, missing, address_table>>
    BY Files DEF TableIInv, Table!LocationLine
  <1>2. LocationsUpTo(at)
    BY <1>1 DEF TableIInv
  <1>3. /\ line.match \in BOOLEAN /\ line.id \in Nat
        /\ Table!InRange(line.id) <=> line.id < UlongMax
        /\ line.id < UlongMax => Table!Strtoul(line.id) = line.id
    BY <1>1, Files, Numbers
  <1>4. 1 .. n = (1 .. at) \cup {n} /\ n \notin 1 .. at
    BY <1>1
  <1> SUFFICES LocationsUpTo(at)'
    BY <1>1 DEF TableIInv, Table!EmptyMap
  <1>5. /\ Located(at)' = Located(n)
        /\ \A id : Table!First(Table!LinesOf(id))' = Table!First(Table!LinesOf(id))
    BY <1>1 DEF Located, Table!LinesOf, Table!First
  <1>6. LocationsUpTo(at)' <=>
            /\ heap' = {i \in 1 .. n : locations_file[i].match}
            /\ DOMAIN locations_table' = {locations_file[i].id : i \in Located(n)}
            /\ \A id \in DOMAIN locations_table' : locations_table'[id] = Table!First(Table!LinesOf(id))
    <2>1. Located(at)' = Located(n) /\ {locations_file[i].id : i \in Located(at)}' = {locations_file[i].id : i \in Located(n)}
      BY <1>1, <1>5
    <2>2. {i \in 1 .. at : locations_file[i].match}' = {i \in 1 .. n : locations_file[i].match}
      BY <1>1
    <2> QED BY <1>5, <2>1, <2>2 DEF LocationsUpTo
  <1>7. QED
    <2>1. CASE ~ line.match
      <3>1. UNCHANGED <<heap, locations_table>>
        BY <2>1 DEF Table!LocationLine
      <3>2. Located(n) = Located(at)
        BY <2>1, <1>4 DEF Located
      <3> QED BY <1>2, <1>4, <1>6, <2>1, <3>1, <3>2 DEF LocationsUpTo
    <2>2. CASE line.match
      <3>1. heap' = heap \cup {n}
        BY <2>2 DEF Table!LocationLine
      <3>2. locations_table' = IF line.id < UlongMax THEN Table!Insert(locations_table, line.id, n)
                               ELSE locations_table
        BY <1>3, <2>2 DEF Table!LocationLine
      <3>3. Located(n) = IF line.id < UlongMax THEN Located(at) \cup {n} ELSE Located(at)
        BY <1>4, <2>2 DEF Located
      <3>4. heap' = {i \in 1 .. n : locations_file[i].match}
        BY <1>2, <1>4, <2>2, <3>1 DEF LocationsUpTo
      <3>5. CASE line.id >= UlongMax
        <4>1. locations_table' = locations_table /\ Located(n) = Located(at)
          BY <1>3, <3>2, <3>3, <3>5, Files
        <4> QED BY <1>2, <1>6, <3>4, <4>1 DEF LocationsUpTo
      <3>6. CASE line.id < UlongMax /\ line.id \in DOMAIN locations_table
        <4>1. locations_table' = locations_table
          BY <3>2, <3>6 DEF Table!Insert
        <4>2. {locations_file[i].id : i \in Located(n)} = {locations_file[i].id : i \in Located(at)}
          BY <1>2, <3>3, <3>6 DEF LocationsUpTo
        <4> QED BY <1>2, <1>6, <3>4, <4>1, <4>2 DEF LocationsUpTo
      <3>7. CASE line.id < UlongMax /\ line.id \notin DOMAIN locations_table
        <4>1. locations_table' = [k \in DOMAIN locations_table \cup {line.id} |->
                                     IF k = line.id THEN n ELSE locations_table[k]]
          BY <3>2, <3>7 DEF Table!Insert
        <4>2. \A i \in 1 .. at : ~ (locations_file[i].match /\ locations_file[i].id = line.id)
          BY <1>2, <3>7 DEF LocationsUpTo, Located
        <4>3. n \in Table!LinesOf(line.id) /\ Table!LinesOf(line.id) \in SUBSET Nat
          BY <1>1, <2>2, Files DEF Table!LinesOf
        <4>4. \A i \in Table!LinesOf(line.id) : n <= i
          <5> SUFFICES ASSUME NEW i \in Table!LinesOf(line.id), ~ (n <= i) PROVE FALSE
            OBVIOUS
          <5>1. i \in 1 .. Len(locations_file) /\ locations_file[i].match /\ locations_file[i].id = line.id
            BY Files DEF Table!LinesOf
          <5>2. i \in 1 .. at
            BY <1>1, <5>1
          <5> QED BY <4>2, <5>1, <5>2
        <4>5. Table!First(Table!LinesOf(line.id)) = n
          BY <4>3, <4>4, LeastIsFirst
        <4>6. DOMAIN locations_table' = {locations_file[i].id : i \in Located(n)}
          BY <1>2, <3>3, <3>7, <4>1 DEF LocationsUpTo
        <4>7. \A id \in DOMAIN locations_table' :
                 locations_table'[id] = Table!First(Table!LinesOf(id))
          BY <1>2, <4>1, <4>5 DEF LocationsUpTo
        <4> QED BY <1>6, <3>4, <4>6, <4>7
      <3> QED BY <1>3, <3>5, <3>6, <3>7, Files
    <2> QED BY <1>3, <2>1, <2>2

LEMMA BlockLineStep ==
    ASSUME TableIInv, Table!BlockLine
    PROVE  TableIInv'
  <1>0. at \in Nat /\ at + 1 \in Nat
    BY Files DEF TableIInv
  <1> PICK n \in Nat : n = at + 1
    BY <1>0
  <1> DEFINE line == blocks_file[n]
             UpTo(m) == {i \in Table!Blocks : i <= m}
  <1>1. /\ phase = "blocks" /\ phase' = "blocks" /\ at < Len(blocks_file) /\ at' = n
        /\ n \in 1 .. Len(blocks_file) /\ n \in 0 .. MaxLines
        /\ UNCHANGED <<locations_file, blocks_file, missing, heap, locations_table>>
    BY <1>0, Files DEF TableIInv, Table!BlockLine
  <1>2. BlocksUpTo(at) /\ LocationsUpTo(Len(locations_file))
    BY <1>1 DEF TableIInv
  <1>3. /\ line.match \in BOOLEAN /\ line.id \in Nat /\ line.first \in Nat
        /\ Table!InRange(line.id) <=> line.id < UlongMax
        /\ line.id < UlongMax => Table!Strtoul(line.id) = line.id
        /\ Table!InRange(line.first) <=> line.first < UlongMax
        /\ line.first < UlongMax => Table!Strtoul(line.first) = line.first
    BY <1>1, Files, Numbers
  <1>4. Table!Blocks \in SUBSET Nat /\ \A i \in Table!Blocks : i <= n <=> i <= at \/ i = n
    BY <1>0, Files DEF Table!Blocks
  \* A line counts when the table says that its location is known.
  <1>5. line.id < UlongMax => (line.id \in DOMAIN locations_table <=> Table!LinesOf(line.id) # {})
    BY <1>2, <1>3, Files DEF LocationsUpTo, Located, Table!LinesOf
  <1>6. Table!AcceptsBlock(line, locations_table) <=> n \in Table!Blocks
    BY <1>1, <1>3, <1>5, Files DEF Table!AcceptsBlock, Table!Blocks
  <1>7. address_table' =
           IF n \in Table!Blocks
           THEN Table!Insert(address_table, line.first, locations_table[line.id])
           ELSE address_table
    BY <1>3, <1>6 DEF Table!BlockLine, Table!AcceptsBlock
  <1> SUFFICES BlocksUpTo(at)'
    <2>1. LocationsUpTo(Len(locations_file))'
      BY <1>1, <1>2 DEF LocationsUpTo, Located, Table!LinesOf, Table!First
    <2> QED BY <1>1, <2>1 DEF TableIInv, Table!EmptyMap
  <1>8. /\ {blocks_file[i].first : i \in {j \in Table!Blocks : j <= at}}' = {blocks_file[i].first : i \in UpTo(n)}
        /\ \A ip : Table!LocationOfBlock(Table!First(Table!StartsAt(ip)))'
                     = Table!LocationOfBlock(Table!First(Table!StartsAt(ip)))
    BY <1>1 DEF Table!Blocks, Table!LinesOf, Table!StartsAt, Table!LocationOfBlock, Table!First
  <1>9. BlocksUpTo(at)' <=>
            /\ DOMAIN address_table' = {blocks_file[i].first : i \in UpTo(n)}
            /\ \A ip \in DOMAIN address_table' :
                  address_table'[ip] = Table!LocationOfBlock(Table!First(Table!StartsAt(ip)))
    BY <1>8 DEF BlocksUpTo
  <1>10. CASE n \notin Table!Blocks
    <2>1. UpTo(n) = UpTo(at)
      BY <1>4, <1>10
    <2> QED BY <1>2, <1>7, <1>9, <1>10, <2>1 DEF BlocksUpTo
  <1>11. CASE n \in Table!Blocks
    <2>1. UpTo(n) = UpTo(at) \cup {n} /\ n \notin UpTo(at)
      <3>1. ~ (n <= at) /\ n <= n
        BY <1>0
      <3> QED BY <1>4, <1>11, <3>1
    <2>2. CASE line.first \in DOMAIN address_table
      <3>1. address_table' = address_table
        BY <1>7, <1>11, <2>2 DEF Table!Insert
      <3>2. {blocks_file[i].first : i \in UpTo(n)} = {blocks_file[i].first : i \in UpTo(at)}
        BY <1>2, <2>1, <2>2 DEF BlocksUpTo
      <3> QED BY <1>2, <1>9, <3>1, <3>2 DEF BlocksUpTo
    <2>3. CASE line.first \notin DOMAIN address_table
      <3>1. address_table' = [k \in DOMAIN address_table \cup {line.first} |->
                                 IF k = line.first THEN locations_table[line.id] ELSE address_table[k]]
        BY <1>7, <1>11, <2>3 DEF Table!Insert
      <3>2. n \in Table!StartsAt(line.first) /\ Table!StartsAt(line.first) \in SUBSET Nat
        BY <1>4, <1>11 DEF Table!StartsAt
      <3>3. \A i \in Table!StartsAt(line.first) : n <= i
        <4> SUFFICES ASSUME NEW i \in Table!StartsAt(line.first), ~ (n <= i) PROVE FALSE
          OBVIOUS
        <4>1. i \in Table!Blocks /\ blocks_file[i].first = line.first /\ i \in Nat
          BY <1>4 DEF Table!StartsAt
        <4>2. i \in UpTo(at)
          BY <1>0, <4>1
        <4> QED BY <1>2, <2>3, <4>1, <4>2 DEF BlocksUpTo
      <3>4. Table!First(Table!StartsAt(line.first)) = n
        BY <3>2, <3>3, LeastIsFirst
      <3>5. locations_table[line.id] = Table!LocationOfBlock(n)
        BY <1>2, <1>5, <1>11 DEF LocationsUpTo, Table!LocationOfBlock, Table!Blocks
      <3>6. DOMAIN address_table' = {blocks_file[i].first : i \in UpTo(n)}
        BY <1>2, <2>1, <3>1 DEF BlocksUpTo
      <3>7. \A ip \in DOMAIN address_table' :
               address_table'[ip] = Table!LocationOfBlock(Table!First(Table!StartsAt(ip)))
        BY <1>2, <3>1, <3>4, <3>5 DEF BlocksUpTo
      <3> QED BY <1>9, <3>6, <3>7
    <2> QED BY <2>2, <2>3
  <1> QED BY <1>10, <1>11

\* What the files say of the tables does not change while they do not.
LEMMA TablesKept ==
    ASSUME TableIInv, UNCHANGED <<locations_file, blocks_file, heap, locations_table, address_table>>
    PROVE  /\ LocationsUpTo(Len(locations_file))' <=> LocationsUpTo(Len(locations_file))
           /\ BlocksUpTo(Len(blocks_file))' <=> BlocksUpTo(Len(blocks_file))
           /\ Table!EmptyMap' = Table!EmptyMap
  BY DEF LocationsUpTo, Located, BlocksUpTo, Table!Blocks, Table!LinesOf, Table!StartsAt,
         Table!LocationOfBlock, Table!First, Table!EmptyMap

LEMMA EndOfLocationsStep ==
    ASSUME TableIInv, Table!EndOfLocations
    PROVE  TableIInv'
  <1>1. /\ phase = "locations" /\ phase' = "blocks" /\ at = Len(locations_file) /\ at' = 0
        /\ UNCHANGED <<locations_file, blocks_file, missing, heap, locations_table, address_table>>
    BY DEF Table!EndOfLocations
  <1>2. LocationsUpTo(Len(locations_file))' /\ address_table = Table!EmptyMap
    BY <1>1, TablesKept DEF TableIInv
  <1>3. DOMAIN address_table' = {} /\ {blocks_file'[i].first : i \in {j \in Table!Blocks' : j <= 0}} = {}
    <2>1. \A j \in Table!Blocks' : j \in Nat /\ ~ (j <= 0)
      BY <1>1, Files DEF Table!Blocks
    <2> QED BY <1>1, <1>2, <2>1 DEF Table!EmptyMap
  <1>4. BlocksUpTo(at)'
    BY <1>1, <1>3 DEF BlocksUpTo
  <1> QED BY <1>1, <1>2, <1>4, Files DEF TableIInv

LEMMA EndOfBlocksStep ==
    ASSUME TableIInv, Table!EndOfBlocks
    PROVE  TableIInv'
  <1>1. /\ phase = "blocks" /\ phase' = "ready" /\ at = Len(blocks_file) /\ at' = at
        /\ UNCHANGED <<locations_file, blocks_file, missing, heap, locations_table, address_table>>
    BY DEF Table!EndOfBlocks
  <1>2. LocationsUpTo(Len(locations_file))' /\ BlocksUpTo(Len(blocks_file))'
    BY <1>1, TablesKept DEF TableIInv
  <1> QED BY <1>1, <1>2 DEF TableIInv

\* Everything that is read from locations_table is a line of the file.
LEMMA DeleteStep ==
    ASSUME TableIInv, Table!Delete
    PROVE  TableIInv'
  <1>1. /\ phase = "ready" /\ phase' = "deleted" /\ heap' \subseteq heap /\ at' = at
        /\ locations_table' = Table!EmptyMap /\ address_table' = Table!EmptyMap
        /\ UNCHANGED <<locations_file, blocks_file, missing>>
    BY DEF Table!Delete
  <1>2. heap \subseteq 1 .. MaxLines
    BY <1>1, Files DEF TableIInv, LocationsUpTo
  <1> QED BY <1>1, <1>2 DEF TableIInv, Table!EmptyMap

\* The steps of the service, and what else leaves the tables alone.
LEMMA ServiceTables ==
    ASSUME TableIInv, UNCHANGED tableVars,
           \/ phase' = phase
           \/ phase = "ready" /\ phase' = "listening"
    PROVE  TableIInv'
  <1>1. UNCHANGED <<locations_file, blocks_file, missing, at, heap, locations_table, address_table>>
    BY DEF tableVars
  <1>2. /\ LocationsUpTo(at)' <=> LocationsUpTo(at)
        /\ BlocksUpTo(at)' <=> BlocksUpTo(at)
    BY <1>1 DEF LocationsUpTo, Located, BlocksUpTo, Table!Blocks, Table!LinesOf, Table!StartsAt,
                Table!LocationOfBlock, Table!First
  <1>3. /\ LocationsUpTo(Len(locations_file))' <=> LocationsUpTo(Len(locations_file))
        /\ BlocksUpTo(Len(blocks_file))' <=> BlocksUpTo(Len(blocks_file))
        /\ Table!EmptyMap' = Table!EmptyMap
    BY <1>1, TablesKept
  <1> QED BY <1>1, <1>2, <1>3 DEF TableIInv

LEMMA TableNext ==
    ASSUME TableIInv, [Next]_vars
    PROVE  TableIInv'
  <1>1. CASE LoadOrDelete
    <2>1. CASE Table!ReadMissing
      BY <2>1, ServiceTables DEF Table!ReadMissing, Table!vars, tableVars
    <2>2. CASE Table!LocationLine
      BY <2>2, LocationLineStep
    <2>3. CASE Table!EndOfLocations
      BY <2>3, EndOfLocationsStep
    <2>4. CASE Table!BlockLine
      BY <2>4, BlockLineStep
    <2>5. CASE Table!EndOfBlocks
      BY <2>5, EndOfBlocksStep
    <2>6. CASE Table!Delete
      BY <2>6, DeleteStep
    <2> QED BY <1>1, <2>1, <2>2, <2>3, <2>4, <2>5, <2>6 DEF LoadOrDelete, Table!Next, Table!Load
  <1>2. CASE ~ LoadOrDelete
    <2>1. UNCHANGED tableVars /\ (phase' = phase \/ (phase = "ready" /\ phase' = "listening"))
      BY <1>2 DEF Next, vars, Listen, Accept, Stop, ClientStep, Kill, SessionStep
    <2> QED BY <2>1, ServiceTables
  <1> QED BY <1>1, <1>2

LEMMA TableInit == Init => TableIInv
  <1> SUFFICES ASSUME Init PROVE TableIInv
    OBVIOUS
  <1>1. /\ locations_file \in LocationFiles /\ blocks_file \in BlockFiles /\ at = 0
        /\ missing \subseteq {"locations", "blocks"} /\ phase = "locations" /\ heap = {}
        /\ locations_table = Table!EmptyMap /\ address_table = Table!EmptyMap
    BY DEF Init, Table!Init
  <1>2. /\ locations_file \in Seq([match : BOOLEAN, id : Nat]) /\ MaxLines \in Nat
    BY <1>1, ServerAssumption DEF Table!TableAssumption
  <1>3. Len(locations_file) \in Nat
    BY <1>2
  <1>4. LocationsUpTo(0)
    <2>1. {i \in 1 .. 0 : locations_file[i].match} = {} /\ Located(0) = {} /\ DOMAIN locations_table = {}
      BY <1>1 DEF Located, Table!EmptyMap
    <2> QED BY <1>1, <2>1 DEF LocationsUpTo
  <1> QED BY <1>1, <1>2, <1>3, <1>4 DEF TableIInv
-----------------------------------------------------------------------------
(* What the tables are for.                                                *)

LEMMA LookupFollows ==
    ASSUME TableIInv, phase \in {"ready", "listening"}
    PROVE  Table!LookupFollowsFile
  <1> SUFFICES ASSUME NEW ip \in Lookups
               PROVE  LET found == Table!GetLocationByIp(address_table, ip) IN
                      /\ Table!StartsBelow(ip) = {} => found = NULL
                      /\ \A i \in Table!Blocks :
                            Table!BlockOf(i, ip) /\ ~ Table!LastOfAll(i)
                            => found = Table!LocationOfBlock(i)
    BY DEF Table!LookupFollowsFile
  <1> DEFINE starts == {blocks_file[i].first : i \in Table!Blocks}
             below == {s \in starts : s <= ip}
             found == Table!GetLocationByIp(address_table, ip)
  <1>1. ip \in Nat
    BY ServerAssumption DEF Table!TableAssumption
  <1>2. /\ BlocksUpTo(Len(blocks_file)) /\ Table!Blocks \subseteq 1 .. Len(blocks_file)
        /\ Len(blocks_file) \in Nat
        /\ \A i \in Table!Blocks : blocks_file[i].first \in Nat
    <2>1. BlocksUpTo(Len(blocks_file))
      BY DEF TableIInv
    <2>2. Table!Blocks \subseteq 1 .. Len(blocks_file)
      BY Files DEF Table!Blocks
    <2>3. \A i \in Table!Blocks : blocks_file[i] \in [match : BOOLEAN, first : Nat, last : Nat, id : Nat]
      BY <2>2, Files
    <2>4. Len(blocks_file) \in Nat
      BY Files
    <2> QED BY <2>1, <2>2, <2>3, <2>4
  <1>3. DOMAIN address_table = starts /\ starts \subseteq Nat
    <2>1. \A j \in Table!Blocks : j <= Len(blocks_file)
      BY <1>2
    <2>2. {j \in Table!Blocks : j <= Len(blocks_file)} = Table!Blocks
      BY <2>1
    <2> QED BY <1>2, <2>2 DEF BlocksUpTo
  <1>4. \A s \in starts : address_table[s] = Table!LocationOfBlock(Table!First(Table!StartsAt(s)))
    BY <1>2, <1>3 DEF BlocksUpTo
  <1> HIDE DEF starts
  <1>5. below = Table!AtOrBelow(address_table, ip)
    BY <1>3 DEF Table!AtOrBelow
  <1>6. CASE Table!StartsBelow(ip) = {}
    <2>1. below = {}
      BY <1>6 DEF starts, Table!StartsBelow
    <2>2. found = NULL
      BY <1>5, <2>1 DEF Table!GetLocationByIp
    <2> QED BY <1>6, <2>2 DEF Table!BlockOf
  <1>7. ASSUME NEW i \in Table!Blocks, Table!BlockOf(i, ip), ~ Table!LastOfAll(i)
        PROVE  found = Table!LocationOfBlock(i)
    <2> DEFINE s == blocks_file[i].first
    <2>1. /\ s \in below
          /\ \A other \in below : other <= s
          /\ i = Table!First(Table!StartsAt(s))
      BY <1>7 DEF starts, Table!BlockOf, Table!StartsBelow
    <2>2. Table!Above(address_table, ip) # {}
      <3>1. PICK j \in Table!Blocks : ~ (blocks_file[j].first <= s)
        BY <1>7 DEF Table!LastOfAll
      <3>2. blocks_file[j].first \in starts
        BY <3>1 DEF starts
      <3>3. ~ (blocks_file[j].first \in below)
        <4> HIDE DEF below, s
        <4> QED BY <2>1, <3>1
      <3>4. ~ (blocks_file[j].first <= ip)
        BY <3>2, <3>3
      <3>5. blocks_file[j].first > ip
        <4> DEFINE n == blocks_file[j].first
        <4>1. n \in Nat /\ ~ (n <= ip)
          BY <1>3, <3>2, <3>4
        <4> HIDE DEF n
        <4>2. n > ip
          BY <1>1, <4>1
        <4> QED BY <4>2 DEF n
      <3> QED BY <1>3, <3>2, <3>5 DEF Table!Above
    <2> DEFINE greatest == Table!Greatest(Table!AtOrBelow(address_table, ip))
    <2>3. found = address_table[greatest]
      BY <1>5, <2>1, <2>2 DEF Table!GetLocationByIp
    <2>4. greatest \in below /\ \A other \in below : other <= greatest
      BY <1>1, <1>3, <1>5, <2>1, GreatestFound
    <2>5. greatest = s
      <3> HIDE DEF greatest, s
      <3> QED BY <1>3, <2>1, <2>4
    <2> QED BY <1>4, <2>1, <2>3, <2>5
  <1> QED BY <1>6, <1>7 DEF Table!StartsBelow

LEMMA Owned ==
    ASSUME TableIInv
    PROVE  Table!EntriesOwned /\ Table!TypeOK
  <1>1. CASE phase \in {"blocks", "ready", "listening"}
    <2>1. LocationsUpTo(Len(locations_file))
      BY <1>1 DEF TableIInv
    <2>2. ASSUME NEW id, id \in Nat, id < UlongMax, Table!LinesOf(id) # {}
          PROVE  id \in DOMAIN locations_table /\ locations_table[id] \in heap
      BY <2>1, <2>2, FirstLine DEF LocationsUpTo, Located
    <2>3. \E n \in Nat : BlocksUpTo(n)
      BY <1>1, Files DEF TableIInv
    <2>4. ASSUME NEW ip \in DOMAIN address_table
          PROVE  /\ ip \in 0 .. UlongMax - 1 /\ address_table[ip] \in heap
                 /\ \E id \in DOMAIN locations_table : locations_table[id] = address_table[ip]
      <3>1. PICK i \in Table!Blocks : blocks_file[i].first = ip
        BY <2>3 DEF BlocksUpTo
      <3>2. Table!StartsAt(ip) # {} /\ ip \in 0 .. UlongMax - 1
        <4>1. i \in 1 .. Len(blocks_file) /\ blocks_file[i].first < UlongMax
          BY <3>1, Files DEF Table!Blocks
        <4>2. ip \in Nat /\ ip < UlongMax
          BY <3>1, <4>1, Files
        <4>3. i \in Table!StartsAt(ip)
          BY <3>1 DEF Table!StartsAt
        <4> QED BY <4>2, <4>3, Files
      <3>3. PICK b \in Table!Blocks : b = Table!First(Table!StartsAt(ip))
        BY <3>2, FirstBlock
      <3>4. address_table[ip] = Table!First(Table!LinesOf(blocks_file[b].id))
        BY <2>3, <3>3 DEF BlocksUpTo, Table!LocationOfBlock
      <3>5. blocks_file[b].id \in Nat /\ blocks_file[b].id < UlongMax /\ Table!LinesOf(blocks_file[b].id) # {}
        BY Files DEF Table!Blocks
      <3>6. /\ blocks_file[b].id \in DOMAIN locations_table
            /\ locations_table[blocks_file[b].id] \in heap
            /\ locations_table[blocks_file[b].id] = address_table[ip]
        BY <2>1, <2>2, <3>4, <3>5 DEF LocationsUpTo
      <3> QED BY <3>2, <3>6
    <2>5. heap \subseteq 1 .. MaxLines
      BY <2>1, Files DEF LocationsUpTo
    <2>6. ASSUME NEW id \in DOMAIN locations_table
          PROVE  id \in 0 .. UlongMax - 1 /\ locations_table[id] \in heap
      <3>1. PICK i \in Located(Len(locations_file)) : id = locations_file[i].id
        BY <2>1 DEF LocationsUpTo
      <3>2. id \in Nat /\ id < UlongMax /\ Table!LinesOf(id) # {}
        BY <3>1, Files DEF Located, Table!LinesOf
      <3> QED BY <2>2, <3>2, Files
    <2>7. Table!EntriesOwned
      BY <2>4 DEF Table!EntriesOwned
    <2>8. Table!TypeOK
      BY <2>4, <2>5, <2>6, Files DEF TableIInv, Table!TypeOK, Table!Objects
    <2> QED BY <2>7, <2>8
  <1>2. CASE phase = "locations"
    <2>1. LocationsUpTo(at) /\ at <= Len(locations_file) /\ address_table = Table!EmptyMap /\ at \in Nat
      BY <1>2, Files DEF TableIInv
    <2>2. heap \subseteq 1 .. MaxLines
      BY <2>1, Files DEF LocationsUpTo
    <2>3. ASSUME NEW id \in DOMAIN locations_table
          PROVE  id \in 0 .. UlongMax - 1 /\ locations_table[id] \in 1 .. MaxLines
      <3>1. PICK i \in Located(at) : id = locations_file[i].id
        BY <2>1 DEF LocationsUpTo
      <3>2. id \in Nat /\ id < UlongMax /\ Table!LinesOf(id) # {}
        <4>1. i \in 1 .. Len(locations_file) /\ locations_file[i].match /\ id < UlongMax
          BY <2>1, <3>1, Files DEF Located
        <4>2. i \in Table!LinesOf(id)
          BY <3>1, <4>1, Files DEF Table!LinesOf
        <4> QED BY <3>1, <4>1, <4>2, Files
      <3>3. locations_table[id] \in 1 .. Len(locations_file)
        BY <2>1, <3>2, FirstLine DEF LocationsUpTo
      <3> QED BY <3>2, <3>3, Files
    <2>4. DOMAIN address_table = {}
      BY <2>1 DEF Table!EmptyMap
    <2> QED BY <2>2, <2>3, <2>4 DEF TableIInv, Table!TypeOK, Table!EntriesOwned, Table!Objects
  <1>3. CASE phase = "deleted"
    <2>1. DOMAIN address_table = {} /\ DOMAIN locations_table = {} /\ heap \subseteq 1 .. MaxLines
      BY <1>3 DEF TableIInv, Table!EmptyMap
    <2> QED BY <2>1 DEF TableIInv, Table!TypeOK, Table!EntriesOwned, Table!Objects
  <1> QED BY <1>1, <1>2, <1>3 DEF TableIInv

LEMMA TableInvariant == Spec => []TableIInv
  BY TableInit, TableNext, PTL DEF Spec

(* For any two files: what is left in the tables when they have been read, *)
(* duplicates, unknown ids and numbers too large among their lines, is     *)
(* what the files say, and it refers to objects that the destructor has    *)
(* not deleted and will find (loadLocationsFile, loadBlocksFile,           *)
(* getLocationByIp, ~GeoIpServer).                                         *)
THEOREM TablesCorrect == Spec => []TablesInv
  <1>1. TableIInv => TablesInv
    <2> SUFFICES ASSUME TableIInv PROVE Table!TypeOK /\ Table!EntriesOwned /\ Table!LookupFollowsFile
      BY DEF TablesInv, Table!TablesInv
    <2>1. phase \notin {"ready", "listening"} => Table!LookupFollowsFile
      BY DEF Table!LookupFollowsFile
    <2> QED BY <2>1, Owned, LookupFollows
  <1> QED BY <1>1, TableInvariant, PTL
-----------------------------------------------------------------------------
(* Texts and their answers.                                                *)

LEMMA Texts ==
    ASSUME NEW n \in 0 .. 3
    PROVE  /\ Service!AddressText(n) \in Seq(Pieces)
           /\ Len(Service!AddressText(n)) \in 1 .. 3
           /\ \A m \in 0 .. 3 : Service!AddressText(m) = Service!AddressText(n) => m = n
  <1>1. n = 0 \/ n = 1 \/ n = 2 \/ n = 3
    OBVIOUS
  <1>2. /\ Service!AddressText(0) = <<"head", "0">> /\ Service!AddressText(1) = <<"head", "1">>
        /\ Service!AddressText(2) = <<"head", "1", "0">> /\ Service!AddressText(3) = <<"head", "1", "1">>
    BY DEF Service!AddressText
  <1>3. /\ <<"head", "0">> \in Seq(Pieces) /\ Len(<<"head", "0">>) = 2
        /\ <<"head", "1">> \in Seq(Pieces) /\ Len(<<"head", "1">>) = 2
        /\ <<"head", "1", "0">> \in Seq(Pieces) /\ Len(<<"head", "1", "0">>) = 3
        /\ <<"head", "1", "1">> \in Seq(Pieces) /\ Len(<<"head", "1", "1">>) = 3
    BY DEF Pieces
  <1>4. /\ <<"head", "0">> # <<"head", "1">> /\ <<"head", "0">> # <<"head", "1", "0">>
        /\ <<"head", "0">> # <<"head", "1", "1">> /\ <<"head", "1">> # <<"head", "1", "0">>
        /\ <<"head", "1">> # <<"head", "1", "1">> /\ <<"head", "1", "0">> # <<"head", "1", "1">>
    OBVIOUS
  <1>5. \A m \in 0 .. 3 : m = 0 \/ m = 1 \/ m = 2 \/ m = 3
    OBVIOUS
  <1>6. \A m \in 0 .. 3 : Service!AddressText(m) = Service!AddressText(n) => m = n
    <2> SUFFICES ASSUME NEW m \in 0 .. 3, Service!AddressText(m) = Service!AddressText(n)
                 PROVE  m = n
      OBVIOUS
    <2>1. CASE n = 0
      BY <1>2, <1>4, <1>5, <2>1
    <2>2. CASE n = 1
      BY <1>2, <1>4, <1>5, <2>2
    <2>3. CASE n = 2
      BY <1>2, <1>4, <1>5, <2>3
    <2>4. CASE n = 3
      BY <1>2, <1>4, <1>5, <2>4
    <2> QED BY <1>1, <2>1, <2>2, <2>3, <2>4
  <1>7. Len(Service!AddressText(n)) \in {2, 3} /\ Service!AddressText(n) \in Seq(Pieces)
    BY <1>1, <1>2, <1>3
  <1> QED BY <1>6, <1>7

LEMMA AskedText ==
    ASSUME ServiceTypes, NEW c \in Clients
    PROVE  /\ asked[c] \in 0 .. 3 /\ Text(c) = Service!AddressText(asked[c])
           /\ Text(c) \in Seq(Pieces) /\ Len(Text(c)) \in 1 .. 3
           /\ SubSeq(Text(c), 1, Len(Text(c))) = Text(c)
  <1>1. asked[c] \in 0 .. 3
    <2>1. Addresses \cup {0} \subseteq 0 .. 3
      BY ServerAssumption DEF Service!ServiceAssumption
    <2> QED BY <2>1 DEF ServiceTypes
  <1>2. Text(c) \in Seq(Pieces) /\ Len(Text(c)) \in 1 .. 3
    BY <1>1, Texts DEF Text
  <1>3. SubSeq(Text(c), 1, Len(Text(c))) = Text(c)
    BY <1>2
  <1> QED BY <1>1, <1>2, <1>3 DEF Text

\* The text of an address is answered with its location.
LEMMA WholeText ==
    ASSUME NEW n \in 0 .. 3
    PROVE  Service!Answer(Service!AddressText(n)) = Service!GetLocationByIp(address_table, n)
  <1>1. Service!InetPton(Service!AddressText(n)) = {n}
    BY Texts DEF Service!InetPton
  <1>2. (CHOOSE m \in {n} : TRUE) = n
    OBVIOUS
  <1> QED BY <1>1, <1>2 DEF Service!Answer

LEMMA AnswerGiven ==
    ASSUME TableIInv, NEW text
    PROVE  Service!Answer(text) \in Service!Answers
  <1>1. DOMAIN address_table \subseteq Nat
    BY Owned, Files DEF Table!TypeOK
  <1>2. ASSUME NEW n \in Nat
        PROVE  Service!GetLocationByIp(address_table, n) \in Service!Answers
    <2>1. CASE Service!Above(address_table, n) = {} \/ Service!AtOrBelow(address_table, n) = {}
      BY <2>1 DEF Service!GetLocationByIp, Service!Answers
    <2>2. CASE ~ (Service!Above(address_table, n) = {} \/ Service!AtOrBelow(address_table, n) = {})
      <3>1. Service!Greatest(Service!AtOrBelow(address_table, n)) \in DOMAIN address_table
        <4>1. Service!AtOrBelow(address_table, n) = Table!AtOrBelow(address_table, n)
          BY DEF Service!AtOrBelow, Table!AtOrBelow
        <4>2. \A T : Service!Greatest(T) = Table!Greatest(T)
          BY DEF Service!Greatest, Table!Greatest
        <4>3. Table!Greatest(Table!AtOrBelow(address_table, n)) \in Table!AtOrBelow(address_table, n)
          BY <1>1, <2>2, <4>1, GreatestFound
        <4> QED BY <4>1, <4>2, <4>3 DEF Table!AtOrBelow
      <3> QED BY <2>2, <3>1 DEF Service!GetLocationByIp, Service!Answers
    <2> QED BY <2>1, <2>2
  <1>3. CASE Service!InetPton(text) = {}
    BY <1>3 DEF Service!Answer, Service!Answers
  <1>4. CASE Service!InetPton(text) # {}
    <2>1. (CHOOSE n \in Service!InetPton(text) : TRUE) \in Service!InetPton(text)
      BY <1>4
    <2>2. Service!InetPton(text) \subseteq Nat
      BY DEF Service!InetPton
    <2> QED BY <1>2, <1>4, <2>1, <2>2 DEF Service!Answer
  <1> QED BY <1>3, <1>4

\* While the table stays the answers do.
LEMMA AnswersKept ==
    ASSUME UNCHANGED address_table
    PROVE  /\ Service!Answers' = Service!Answers
           /\ \A text : Service!Answer(text)' = Service!Answer(text)
  BY DEF Service!Answers, Service!Answer, Service!GetLocationByIp
-----------------------------------------------------------------------------
(* The steps of the service.                                               *)

LEMMA PartFits ==
    ASSUME NEW m \in Nat, NEW n \in Nat, m + n <= 3
    PROVE  n <= 3
  OBVIOUS

LEMMA EmptyFits ==
    ASSUME NEW q, NEW s, q = <<>>, Len(s) \in Nat, Len(s) <= 3
    PROVE  Len(q) + Len(s) <= 3
  OBVIOUS

\* What one connection's part of a step leaves alone.
Others(c) ==
    \A d \in Clients \ {c} :
        /\ client'[d] = client[d] /\ asked'[d] = asked[d] /\ session'[d] = session[d]
        /\ request'[d] = request[d] /\ toServer'[d] = toServer[d]
        /\ toClient'[d] = toClient[d] /\ response'[d] = response[d]

LEMMA ReadsKept ==
    ASSUME NEW c \in Clients, UNCHANGED <<mayFragment, address_table>>, asked'[c] = asked[c]
    PROVE  /\ Text(c)' = Text(c) /\ FirstReads(c)' = FirstReads(c)
           /\ FirstAnswers(c)' = FirstAnswers(c)
  <1>1. Text(c)' = Text(c)
    BY DEF Text
  <1>2. FirstReads(c)' = FirstReads(c)
    BY <1>1 DEF FirstReads
  <1>3. \A text : Service!Answer(text)' = Service!Answer(text)
    BY AnswersKept
  <1> QED BY <1>1, <1>2, <1>3 DEF FirstAnswers

LEMMA ConnectionKept ==
    ASSUME ServiceIInv, NEW c \in Clients, UNCHANGED <<mayFragment, address_table>>,
           client'[c] = client[c], asked'[c] = asked[c], session'[c] = session[c],
           request'[c] = request[c], toServer'[c] = toServer[c],
           toClient'[c] = toClient[c], response'[c] = response[c]
    PROVE  Connection(c)'
  <1>1. Connection(c)
    BY DEF ServiceIInv
  <1>2. Text(c)' = Text(c) /\ FirstReads(c)' = FirstReads(c) /\ FirstAnswers(c)' = FirstAnswers(c)
    BY ReadsKept
  <1> QED BY <1>1, <1>2 DEF Connection, Unanswered

LEMMA OneConnection ==
    ASSUME ServiceIInv, NEW c \in Clients, UNCHANGED <<mayFragment, address_table, phase>>,
           phase = "listening", Others(c), ServiceTypes', Waiting', Connection(c)'
    PROVE  ServiceIInv'
  <1>1. \A d \in Clients : Connection(d)'
    BY ConnectionKept DEF Others
  <1> QED BY <1>1 DEF ServiceIInv

\* Steps of the clients and the threads, apart from Connect, leave the queue alone,
\* and a connection in it as it was to the acceptor.
LEMMA WaitingKept ==
    ASSUME Waiting, UNCHANGED backlog,
           \A d \in Clients : session[d] = "none" => session'[d] = "none",
           \A d \in Clients : client[d] # "start" => client'[d] # "start"
    PROVE  Waiting'
  BY DEF Waiting

LEMMA ConnectStep ==
    ASSUME TableIInv, ServiceIInv, phase = "listening", UNCHANGED <<tableVars, phase>>,
           NEW c \in Clients, Service!Connect(c)
    PROVE  ServiceIInv'
  <1>1. PICK ip \in Addresses : asked' = [asked EXCEPT ![c] = ip]
    BY DEF Service!Connect
  <1>2. /\ client[c] = "start" /\ client' = [client EXCEPT ![c] = "connected"]
        /\ backlog' = Append(backlog, c)
        /\ UNCHANGED <<mayFragment, up, session, request, toServer, toClient, response, address_table>>
    BY DEF Service!Connect, tableVars
  <1>3. ServiceTypes /\ Waiting /\ Connection(c)
    BY DEF ServiceIInv
  <1>4. Service!Answers' = Service!Answers
    BY <1>2, AnswersKept
  <1>5. ServiceTypes'
    BY <1>1, <1>2, <1>3, <1>4 DEF ServiceTypes
  <1>6. client'[c] = "connected" /\ session[c] = "none" /\ Others(c)
    BY <1>1, <1>2, <1>3 DEF ServiceTypes, Connection, Unanswered, Others
  <1>7. Connection(c)'
    BY <1>2, <1>3, <1>6 DEF Connection, Unanswered
  <1>8. Waiting'
    <2>1. backlog \in Seq(Clients) /\ backlog' \in Seq(Clients) /\ Len(backlog) \in Nat
      BY <1>2, <1>3 DEF Waiting
    <2>2. /\ DOMAIN backlog = 1 .. Len(backlog) /\ DOMAIN backlog' = 1 .. Len(backlog) + 1
          /\ \A i \in 1 .. Len(backlog) : backlog'[i] = backlog[i] /\ backlog[i] \in Clients
          /\ backlog'[Len(backlog) + 1] = c
      BY <1>2, <2>1
    <2>3. \A i \in 1 .. Len(backlog) : backlog[i] # c /\ session[backlog[i]] = "none" /\ client[backlog[i]] # "start"
      BY <1>2, <1>3, <2>2 DEF Waiting
    <2>4. \A i \in DOMAIN backlog' : session'[backlog'[i]] = "none" /\ client'[backlog'[i]] # "start"
      <3> SUFFICES ASSUME NEW i \in 1 .. Len(backlog) + 1
                   PROVE  session'[backlog'[i]] = "none" /\ client'[backlog'[i]] # "start"
        BY <2>2
      <3>1. CASE i \in 1 .. Len(backlog)
        BY <1>2, <1>3, <2>2, <2>3, <3>1 DEF ServiceTypes
      <3>2. CASE i = Len(backlog) + 1
        BY <1>2, <1>6, <2>2, <3>2
      <3> QED BY <2>1, <3>1, <3>2
    <2>5. \A i, j \in DOMAIN backlog' : backlog'[i] = backlog'[j] => i = j
      <3> SUFFICES ASSUME NEW i \in 1 .. Len(backlog) + 1, NEW j \in 1 .. Len(backlog) + 1,
                          backlog'[i] = backlog'[j]
                   PROVE  i = j
        BY <2>2
      <3>1. CASE i \in 1 .. Len(backlog) /\ j \in 1 .. Len(backlog)
        BY <1>3, <2>2, <3>1 DEF Waiting
      <3>2. CASE i = Len(backlog) + 1 \/ j = Len(backlog) + 1
        BY <2>1, <2>2, <2>3, <3>2
      <3> QED BY <2>1, <3>1, <3>2
    <2> QED BY <2>1, <2>4, <2>5 DEF Waiting
  <1> QED BY <1>2, <1>5, <1>6, <1>7, <1>8, OneConnection

LEMMA WriteAddressStep ==
    ASSUME TableIInv, ServiceIInv, phase = "listening", UNCHANGED <<tableVars, phase>>,
           NEW c \in Clients, Service!WriteAddress(c)
    PROVE  ServiceIInv'
  <1>1. /\ client[c] = "connected" /\ client' = [client EXCEPT ![c] = "reading"]
        /\ toServer' = [toServer EXCEPT ![c] = toServer[c] \o Service!AddressText(asked[c])]
        /\ UNCHANGED <<mayFragment, up, asked, backlog, session, request, toClient, response, address_table>>
    BY DEF Service!WriteAddress, tableVars
  <1>2. ServiceTypes /\ Waiting /\ Connection(c)
    BY DEF ServiceIInv
  <1>3. Service!Answers' = Service!Answers /\ Text(c)' = Text(c)
    BY <1>1, AnswersKept, ReadsKept
  <1>4. /\ Text(c) \in Seq(Pieces) /\ Len(Text(c)) \in 1 .. 3 /\ Text(c) = Service!AddressText(asked[c])
    BY <1>2, AskedText
  <1>5. toServer[c] = <<>> /\ request[c] = <<>> /\ toClient[c] = <<>> /\ session[c] # "answering"
    BY <1>1, <1>2 DEF Connection, Unanswered
  <1>6. toServer' = [toServer EXCEPT ![c] = Text(c)]
    BY <1>1, <1>4, <1>5
  <1>7. ServiceTypes'
    BY <1>1, <1>2, <1>3, <1>4, <1>6 DEF ServiceTypes
  <1>8. client'[c] = "reading" /\ toServer'[c] = Text(c) /\ Others(c)
    BY <1>1, <1>2, <1>6 DEF ServiceTypes, Others
  <1>9. Waiting'
    BY <1>1, <1>2, WaitingKept DEF ServiceTypes
  <1>10. Connection(c)'
    <2>1. request'[c] = <<>> /\ Len(request'[c]) + Len(toServer'[c]) <= 3
      <3>1. request'[c] = <<>>
        BY <1>1, <1>5
      <3>2. Len(toServer'[c]) \in Nat /\ Len(toServer'[c]) <= 3
        <4>1. toServer'[c] = Text(c)
          BY <1>8
        <4>2. Len(Text(c)) \in 1 .. 3
          BY <1>2, AskedText
        <4>3. \A n \in 1 .. 3 : n \in Nat /\ n <= 3
          OBVIOUS
        <4> QED BY <4>1, <4>2, <4>3
      <3> QED BY <3>1, <3>2, EmptyFits
    <2> QED BY <1>1, <1>2, <1>3, <1>5, <1>8, <2>1 DEF Connection, Unanswered
  <1> QED BY <1>1, <1>7, <1>8, <1>9, <1>10, OneConnection

LEMMA ReadResponseStep ==
    ASSUME TableIInv, ServiceIInv, phase = "listening", UNCHANGED <<tableVars, phase>>,
           NEW c \in Clients, Service!ReadResponse(c)
    PROVE  ServiceIInv'
  <1>1. /\ client[c] = "reading" /\ toClient[c] # <<>>
        /\ response' = [response EXCEPT ![c] = Head(toClient[c])]
        /\ client' = [client EXCEPT ![c] = "done"]
        /\ UNCHANGED <<mayFragment, up, asked, backlog, session, request, toServer, toClient, address_table>>
    BY DEF Service!ReadResponse, tableVars
  <1>2. ServiceTypes /\ Waiting /\ Connection(c)
    BY DEF ServiceIInv
  <1>3. /\ Service!Answers' = Service!Answers /\ Text(c)' = Text(c)
        /\ FirstAnswers(c)' = FirstAnswers(c) /\ FirstReads(c)' = FirstReads(c)
    BY <1>1, AnswersKept, ReadsKept
  <1>4. Head(toClient[c]) \in Service!Answers
    BY <1>1, <1>2 DEF ServiceTypes
  <1>5. ServiceTypes'
    BY <1>1, <1>2, <1>3, <1>4 DEF ServiceTypes
  <1>6. client'[c] = "done" /\ response'[c] = Head(toClient[c]) /\ Others(c)
    BY <1>1, <1>2 DEF ServiceTypes, Others
  <1>7. Waiting'
    BY <1>1, <1>2, WaitingKept DEF ServiceTypes
  <1>8. Connection(c)'
    BY <1>1, <1>2, <1>3, <1>6 DEF Connection, Unanswered
  <1> QED BY <1>1, <1>5, <1>6, <1>7, <1>8, OneConnection

\* Error and Kill: the client is gone, and has no response.
LEMMA ClientGoneStep ==
    ASSUME TableIInv, ServiceIInv, phase = "listening", UNCHANGED <<tableVars, phase>>,
           NEW c \in Clients, Service!Error(c) \/ Service!Kill(c)
    PROVE  ServiceIInv'
  <1>1. PICK gone \in {"failed", "killed"} : client' = [client EXCEPT ![c] = gone]
    BY DEF Service!Error, Service!Kill
  <1>2. /\ client[c] \in {"start", "connected", "reading"}
        /\ UNCHANGED <<mayFragment, up, asked, backlog, session, request, toServer, toClient, response, address_table>>
    BY DEF Service!Error, Service!Kill, tableVars
  <1>3. ServiceTypes /\ Waiting /\ Connection(c)
    BY DEF ServiceIInv
  <1>4. /\ Service!Answers' = Service!Answers /\ Text(c)' = Text(c)
        /\ FirstAnswers(c)' = FirstAnswers(c) /\ FirstReads(c)' = FirstReads(c)
    BY <1>2, AnswersKept, ReadsKept
  <1>5. ServiceTypes'
    BY <1>1, <1>2, <1>3, <1>4 DEF ServiceTypes
  <1>6. client'[c] = gone /\ Others(c)
    BY <1>1, <1>2, <1>3 DEF ServiceTypes, Others
  <1>7. Waiting'
    BY <1>1, <1>2, <1>3, WaitingKept DEF ServiceTypes
  <1>8. Connection(c)'
    BY <1>1, <1>2, <1>3, <1>4, <1>6 DEF Connection, Unanswered
  <1> QED BY <1>2, <1>5, <1>6, <1>7, <1>8, OneConnection

LEMMA AcceptStep ==
    ASSUME TableIInv, ServiceIInv, phase = "listening", UNCHANGED <<tableVars, phase>>, Service!Accept
    PROVE  ServiceIInv'
  <1>1. ServiceTypes /\ Waiting /\ \A d \in Clients : Connection(d)
    BY DEF ServiceIInv
  <1>2. backlog \in Seq(Clients) /\ backlog # <<>> /\ backlog' = Tail(backlog)
    BY <1>1 DEF Service!Accept, Waiting
  <1>3. PICK c \in Clients : c = Head(backlog)
    BY <1>2
  <1>4. /\ session' = [session EXCEPT ![c] = "reading"]
        /\ UNCHANGED <<mayFragment, up, client, asked, request, toServer, toClient, response, address_table>>
    BY <1>3 DEF Service!Accept, tableVars
  <1>5. /\ Len(backlog) \in Nat \ {0} /\ backlog[1] = c /\ DOMAIN backlog = 1 .. Len(backlog)
        /\ Tail(backlog) \in Seq(Clients) /\ DOMAIN Tail(backlog) = 1 .. Len(backlog) - 1
        /\ \A i \in 1 .. Len(backlog) - 1 : Tail(backlog)[i] = backlog[i + 1]
    BY <1>2, <1>3
  <1>6. session[c] = "none" /\ client[c] # "start"
    BY <1>1, <1>5 DEF Waiting
  <1>7. Service!Answers' = Service!Answers
    BY <1>4, AnswersKept
  <1>8. /\ Text(c)' = Text(c)
        /\ FirstAnswers(c)' = FirstAnswers(c) /\ FirstReads(c)' = FirstReads(c)
    BY <1>4, ReadsKept
  <1>9. ServiceTypes'
    BY <1>1, <1>4, <1>7 DEF ServiceTypes
  <1>10. session'[c] = "reading" /\ Others(c)
    BY <1>1, <1>4 DEF ServiceTypes, Others
  <1>11. Connection(c)'
    BY <1>1, <1>4, <1>6, <1>8, <1>10 DEF Connection, Unanswered
  <1>12. Waiting'
    <2>1. ASSUME NEW i \in DOMAIN backlog'
          PROVE  /\ i + 1 \in DOMAIN backlog /\ backlog'[i] = backlog[i + 1]
                 /\ session'[backlog'[i]] = "none" /\ client'[backlog'[i]] # "start"
      <3>1. i \in 1 .. Len(backlog) - 1 /\ i + 1 \in DOMAIN backlog /\ 1 \in DOMAIN backlog /\ i + 1 # 1
        BY <1>2, <1>5
      <3>2. backlog'[i] = backlog[i + 1]
        BY <1>2, <1>5, <3>1
      <3>3. backlog[i + 1] # c /\ session[backlog[i + 1]] = "none" /\ client[backlog[i + 1]] # "start"
        BY <1>1, <1>5, <3>1 DEF Waiting
      <3>4. backlog[i + 1] \in Clients
        BY <1>2, <3>1
      <3> QED BY <1>1, <1>4, <3>1, <3>2, <3>3, <3>4 DEF ServiceTypes
    <2>2. \A i, j \in DOMAIN backlog' : backlog'[i] = backlog'[j] => i = j
      <3> SUFFICES ASSUME NEW i \in DOMAIN backlog', NEW j \in DOMAIN backlog', backlog'[i] = backlog'[j]
                   PROVE  i = j
        OBVIOUS
      <3>1. i + 1 = j + 1
        BY <1>1, <2>1 DEF Waiting
      <3>2. i \in Nat /\ j \in Nat
        BY <1>2, <1>5
      <3> QED BY <3>1, <3>2
    <2> QED BY <1>2, <1>5, <2>1, <2>2 DEF Waiting
  <1> QED BY <1>4, <1>9, <1>10, <1>11, <1>12, OneConnection

LEMMA ReadSomeStep ==
    ASSUME TableIInv, ServiceIInv, phase = "listening", UNCHANGED <<tableVars, phase>>,
           NEW c \in Clients, Service!ReadSome(c)
    PROVE  ServiceIInv'
  <1>1. PICK n \in Service!Available(c) :
           /\ request' = [request EXCEPT ![c] = SubSeq(toServer[c], 1, n)]
           /\ toServer' = [toServer EXCEPT ![c] = SubSeq(toServer[c], n + 1, Len(toServer[c]))]
    BY DEF Service!ReadSome
  <1>2. /\ session[c] = "reading" /\ session' = [session EXCEPT ![c] = "answering"]
        /\ UNCHANGED <<mayFragment, up, client, asked, backlog, toClient, response, address_table>>
    BY DEF Service!ReadSome, tableVars
  <1>3. ServiceTypes /\ Waiting /\ Connection(c)
    BY DEF ServiceIInv
  <1>4. /\ Service!Answers' = Service!Answers /\ Text(c)' = Text(c)
        /\ FirstAnswers(c)' = FirstAnswers(c) /\ FirstReads(c)' = FirstReads(c)
    BY <1>2, AnswersKept, ReadsKept
  <1>5. toServer[c] \in Seq(Pieces) /\ Len(toServer[c]) \in Nat
    BY <1>3 DEF ServiceTypes
  <1>6. n \in 1 .. Len(toServer[c]) /\ (~mayFragment => n = Len(toServer[c]))
    BY <1>5 DEF Service!Available
  <1>7. /\ SubSeq(toServer[c], 1, n) \in Seq(Pieces) /\ Len(SubSeq(toServer[c], 1, n)) = n
        /\ SubSeq(toServer[c], n + 1, Len(toServer[c])) \in Seq(Pieces)
        /\ Len(SubSeq(toServer[c], n + 1, Len(toServer[c]))) = Len(toServer[c]) - n
    BY <1>5, <1>6
  <1>8. ServiceTypes'
    BY <1>1, <1>2, <1>3, <1>4, <1>7 DEF ServiceTypes
  <1>9. /\ request'[c] = SubSeq(toServer[c], 1, n)
        /\ toServer'[c] = SubSeq(toServer[c], n + 1, Len(toServer[c]))
        /\ session'[c] = "answering" /\ Others(c)
    BY <1>1, <1>2, <1>3 DEF ServiceTypes, Others
  <1>10. Waiting'
    BY <1>2, <1>3, WaitingKept DEF ServiceTypes
  <1>11. Connection(c)'
    <2>1. toServer[c] # <<>> /\ client[c] \notin {"start", "connected"}
      <3>1. toServer[c] # <<>>
        BY <1>5, <1>6
      <3> QED BY <1>3, <3>1 DEF Connection, Unanswered
    <2>2. Len(request'[c]) + Len(toServer'[c]) <= 3
      <3>1. Len(toServer[c]) <= 3
        <4>1. Len(request[c]) + Len(toServer[c]) <= 3 /\ request[c] = <<>>
          BY <1>2, <1>3 DEF Connection
        <4>2. Len(<<>>) = 0
          OBVIOUS
        <4> QED BY <1>5, <4>1, <4>2
      <3> QED BY <1>5, <1>6, <1>7, <1>9, <3>1
    <2>3. toServer[c] = Text(c) => request'[c] \in FirstReads(c)
      BY <1>6, <1>9 DEF FirstReads
    <2> QED BY <1>2, <1>3, <1>4, <1>9, <2>1, <2>2, <2>3 DEF Connection, Unanswered
  <1> QED BY <1>2, <1>8, <1>9, <1>10, <1>11, OneConnection

\* WriteAnswer, and WriteToClosed when the kernel takes the bytes.
LEMMA AnsweredStep ==
    ASSUME TableIInv, ServiceIInv, phase = "listening", UNCHANGED <<tableVars, phase>>,
           NEW c \in Clients, session[c] = "answering",
           session' = [session EXCEPT ![c] = "reading"],
           request' = [request EXCEPT ![c] = <<>>],
           toClient' = [toClient EXCEPT ![c] = Append(toClient[c], Service!Answer(request[c]))],
           UNCHANGED <<mayFragment, up, client, asked, backlog, toServer, response>>
    PROVE  ServiceIInv'
  <1>1. UNCHANGED address_table
    BY DEF tableVars
  <1>2. ServiceTypes /\ Waiting /\ Connection(c)
    BY DEF ServiceIInv
  <1>3. /\ Service!Answers' = Service!Answers /\ Text(c)' = Text(c)
        /\ FirstAnswers(c)' = FirstAnswers(c) /\ FirstReads(c)' = FirstReads(c)
    BY <1>1, AnswersKept, ReadsKept
  <1>4. Service!Answer(request[c]) \in Service!Answers
    BY AnswerGiven
  <1>5. toClient[c] \in Seq(Service!Answers)
    BY <1>2 DEF ServiceTypes
  <1>6. /\ Append(toClient[c], Service!Answer(request[c])) \in Seq(Service!Answers)
        /\ Append(toClient[c], Service!Answer(request[c])) # <<>>
        /\ Head(Append(toClient[c], Service!Answer(request[c]))) =
              IF toClient[c] = <<>> THEN Service!Answer(request[c]) ELSE Head(toClient[c])
    BY <1>4, <1>5
  <1>7. <<>> \in Seq(Pieces) /\ Len(<<>>) = 0
    OBVIOUS
  <1>8. ServiceTypes'
    BY <1>2, <1>3, <1>6, <1>7 DEF ServiceTypes
  <1>9. /\ request'[c] = <<>> /\ session'[c] = "reading"
        /\ toClient'[c] = Append(toClient[c], Service!Answer(request[c])) /\ Others(c)
    BY <1>2 DEF ServiceTypes, Others
  <1>10. Waiting'
    BY <1>2, WaitingKept DEF ServiceTypes
  <1>11. Connection(c)'
    <2>1. client[c] \notin {"start", "connected"}
      BY <1>2 DEF Connection, Unanswered
    <2>2. Len(request'[c]) + Len(toServer'[c]) <= 3
      <3>1. Len(request[c]) \in Nat /\ Len(toServer[c]) \in Nat
        BY <1>2 DEF ServiceTypes
      <3>2. Len(request[c]) + Len(toServer[c]) <= 3 /\ toServer'[c] = toServer[c]
        BY <1>2 DEF Connection
      <3>3. Len(toServer'[c]) \in Nat /\ Len(toServer'[c]) <= 3
        BY <3>1, <3>2, PartFits
      <3> QED BY <1>9, <3>3, EmptyFits
    <2>3. client[c] # "done" => Head(toClient'[c]) \in FirstAnswers(c)
      <3>1. CASE toClient[c] = <<>>
        BY <1>2, <1>6, <1>9, <2>1, <3>1 DEF Connection, Unanswered, FirstAnswers
      <3>2. CASE toClient[c] # <<>>
        BY <1>2, <1>6, <1>9, <3>2 DEF Connection
      <3> QED BY <3>1, <3>2
    <2> QED BY <1>2, <1>3, <1>6, <1>9, <2>1, <2>2, <2>3 DEF Connection, Unanswered
  <1> QED BY <1>1, <1>8, <1>9, <1>10, <1>11, OneConnection

\* The thread ends: EndSession, and WriteToClosed when the write throws.
LEMMA ThreadEndsStep ==
    ASSUME TableIInv, ServiceIInv, phase = "listening", UNCHANGED <<tableVars, phase>>,
           NEW c \in Clients, session[c] \in {"reading", "answering"},
           NEW over \in {"ended", "failed"}, session' = [session EXCEPT ![c] = over],
           UNCHANGED <<mayFragment, up, client, asked, backlog, request, toServer, toClient, response>>
    PROVE  ServiceIInv'
  <1>1. UNCHANGED address_table
    BY DEF tableVars
  <1>2. ServiceTypes /\ Waiting /\ Connection(c)
    BY DEF ServiceIInv
  <1>3. /\ Service!Answers' = Service!Answers /\ Text(c)' = Text(c)
        /\ FirstAnswers(c)' = FirstAnswers(c) /\ FirstReads(c)' = FirstReads(c)
    BY <1>1, AnswersKept, ReadsKept
  <1>4. ServiceTypes'
    BY <1>2, <1>3 DEF ServiceTypes
  <1>5. session'[c] = over /\ Others(c)
    BY <1>2 DEF ServiceTypes, Others
  <1>6. Waiting'
    BY <1>2, WaitingKept DEF ServiceTypes
  <1>7. Connection(c)'
    BY <1>2, <1>3, <1>5 DEF Connection, Unanswered
  <1> QED BY <1>1, <1>4, <1>5, <1>6, <1>7, OneConnection

LEMMA StopStep ==
    ASSUME TableIInv, ServiceIInv, phase = "listening", UNCHANGED <<tableVars, phase>>, Service!Stop
    PROVE  ServiceIInv'
  <1>1. /\ up' = FALSE /\ backlog' = <<>>
        /\ session' = [c \in Clients |-> IF session[c] \in {"reading", "answering"} THEN "failed" ELSE session[c]]
        /\ request' = [c \in Clients |-> <<>>]
        /\ UNCHANGED <<mayFragment, client, asked, toServer, toClient, response, address_table>>
    BY DEF Service!Stop, tableVars
  <1>2. ServiceTypes /\ \A c \in Clients : Connection(c)
    BY DEF ServiceIInv
  <1>3. Service!Answers' = Service!Answers
    BY <1>1, AnswersKept
  <1>4. <<>> \in Seq(Pieces) /\ Len(<<>>) = 0 /\ <<>> \in Seq(Clients) /\ DOMAIN <<>> = {}
    OBVIOUS
  <1>5. ServiceTypes'
    BY <1>1, <1>2, <1>3, <1>4 DEF ServiceTypes
  <1>6. Waiting'
    BY <1>1, <1>4 DEF Waiting
  <1>7. ASSUME NEW c \in Clients PROVE Connection(c)'
    <2>1. /\ Text(c)' = Text(c)
          /\ FirstAnswers(c)' = FirstAnswers(c) /\ FirstReads(c)' = FirstReads(c)
      BY <1>1, ReadsKept
    <2>2. Len(request[c]) \in Nat /\ Len(toServer[c]) \in Nat
      BY <1>2 DEF ServiceTypes
    <2>3. /\ request'[c] = <<>> /\ session'[c] \in {session[c], "failed"}
          /\ session'[c] \notin {"reading", "answering"}
      BY <1>1
    <2>4. Len(request'[c]) + Len(toServer'[c]) <= 3
      <3>1. Len(request[c]) + Len(toServer[c]) <= 3 /\ toServer'[c] = toServer[c]
        BY <1>1, <1>2 DEF Connection
      <3>2. Len(toServer'[c]) \in Nat /\ Len(toServer'[c]) <= 3
        BY <2>2, <3>1, PartFits
      <3> QED BY <2>3, <3>2, EmptyFits
    <2>5. client[c] = "start" => session'[c] = "none"
      BY <1>1, <1>2 DEF Connection, Unanswered
    <2> QED BY <1>1, <1>2, <2>1, <2>3, <2>4, <2>5 DEF Connection, Unanswered
  <1> QED BY <1>5, <1>6, <1>7 DEF ServiceIInv

\* listenForConnections starts: nothing has happened on any connection.
LEMMA ListenStep ==
    ASSUME TableIInv, ServiceIInv, Listen
    PROVE  ServiceIInv'
  <1>1. /\ phase = "ready" /\ phase' = "listening" /\ up' = TRUE /\ mayFragment' \in BOOLEAN
        /\ UNCHANGED <<client, asked, backlog, session, request, toServer, toClient, response, address_table>>
    BY DEF Listen, Service!Listen, tableVars
  <1>2. ServiceTypes /\ Waiting /\ Idle /\ \A c \in Clients : Connection(c)
    BY <1>1 DEF ServiceIInv
  <1>3. Service!Answers' = Service!Answers
    BY <1>1, AnswersKept
  <1>4. ServiceTypes' /\ Waiting'
    BY <1>1, <1>2, <1>3 DEF ServiceTypes, Waiting
  <1>5. ASSUME NEW c \in Clients PROVE Connection(c)'
    <2>1. client[c] = "start" /\ response[c] = NoResponse
      BY <1>2 DEF Idle
    <2> QED BY <1>1, <1>2, <2>1 DEF Connection, Unanswered
  <1> QED BY <1>1, <1>4, <1>5 DEF ServiceIInv

\* While the tables are loaded there is no connection.
LEMMA LoadingStep ==
    ASSUME TableIInv, ServiceIInv, LoadOrDelete
    PROVE  ServiceIInv'
  <1>1. UNCHANGED <<mayFragment, up, client, asked, backlog, session, request, toServer, toClient, response>>
    BY DEF LoadOrDelete, serviceVars
  <1>2. phase # "listening" /\ phase' # "listening"
    <2>1. CASE Table!ReadMissing
      <3>1. phase \in missing /\ phase' = phase
        BY <2>1 DEF Table!ReadMissing, Table!vars
      <3> QED BY <3>1 DEF TableIInv
    <2>2. CASE Table!LocationLine \/ Table!EndOfLocations \/ Table!BlockLine \/ Table!EndOfBlocks \/ Table!Delete
      BY <2>2 DEF Table!LocationLine, Table!EndOfLocations, Table!BlockLine, Table!EndOfBlocks, Table!Delete
    <2> QED BY <2>1, <2>2 DEF LoadOrDelete, Table!Next, Table!Load
  <1>3. ServiceTypes /\ Waiting /\ Idle /\ \A c \in Clients : Connection(c)
    BY <1>2 DEF ServiceIInv
  <1>4. \A c \in Clients : toClient[c] = <<>> /\ client[c] = "start" /\ response[c] = NoResponse
    BY <1>3 DEF Idle, Connection, Unanswered
  <1>5. toClient' \in [Clients -> Seq(Service!Answers')] /\ response' \in [Clients -> Service!Answers' \cup {NoResponse}]
    <2>1. <<>> \in Seq(Service!Answers')
      OBVIOUS
    <2> QED BY <1>1, <1>3, <1>4, <2>1 DEF ServiceTypes
  <1>6. ServiceTypes' /\ Waiting' /\ Idle'
    BY <1>1, <1>3, <1>5 DEF ServiceTypes, Waiting, Idle
  <1>7. ASSUME NEW c \in Clients PROVE Connection(c)'
    BY <1>1, <1>3, <1>4 DEF Connection, Unanswered
  <1> QED BY <1>6, <1>7 DEF ServiceIInv

LEMMA SameStep ==
    ASSUME TableIInv, ServiceIInv, UNCHANGED vars
    PROVE  ServiceIInv'
  <1>1. /\ UNCHANGED <<mayFragment, up, client, asked, backlog, session, request, toServer, toClient, response>>
        /\ UNCHANGED <<phase, address_table>>
    BY DEF vars, serviceVars, tableVars
  <1>2. Service!Answers' = Service!Answers
    BY <1>1, AnswersKept
  <1>3. \A c \in Clients : Connection(c)'
    BY <1>1, ConnectionKept
  <1>4. ServiceTypes' /\ Waiting' /\ (phase' # "listening" => Idle')
    BY <1>1, <1>2 DEF ServiceIInv, ServiceTypes, Waiting, Idle
  <1> QED BY <1>3, <1>4 DEF ServiceIInv

LEMMA ServiceNext ==
    ASSUME TableIInv, ServiceIInv, [Next]_vars
    PROVE  ServiceIInv'
  <1>1. CASE LoadOrDelete
    BY <1>1, LoadingStep
  <1>2. CASE Listen
    BY <1>2, ListenStep
  <1>3. CASE Accept
    BY <1>3, AcceptStep DEF Accept
  <1>4. CASE Stop
    BY <1>4, StopStep DEF Stop
  <1>5. ASSUME NEW c \in Clients, ClientStep(c) \/ Kill(c)
        PROVE  ServiceIInv'
    <2>1. phase = "listening" /\ UNCHANGED <<tableVars, phase>>
      BY <1>5 DEF ClientStep, Kill
    <2>2. \/ Service!Connect(c) \/ Service!WriteAddress(c) \/ Service!ReadResponse(c)
          \/ Service!Error(c) \/ Service!Kill(c)
      BY <1>5 DEF ClientStep, Kill, Service!ClientStep
    <2> QED BY <2>1, <2>2, ConnectStep, WriteAddressStep, ReadResponseStep, ClientGoneStep
  <1>6. ASSUME NEW c \in Clients, SessionStep(c)
        PROVE  ServiceIInv'
    <2>1. phase = "listening" /\ UNCHANGED <<tableVars, phase>>
      BY <1>6 DEF SessionStep
    <2>2. CASE Service!ReadSome(c)
      BY <2>1, <2>2, ReadSomeStep
    <2>3. CASE Service!WriteAnswer(c)
      BY <2>1, <2>3, AnsweredStep DEF Service!WriteAnswer
    <2>4. CASE Service!WriteToClosed(c)
      <3>1. \/ session' = [session EXCEPT ![c] = "failed"] /\ UNCHANGED <<request, toClient>>
            \/ /\ session' = [session EXCEPT ![c] = "reading"]
               /\ request' = [request EXCEPT ![c] = <<>>]
               /\ toClient' = [toClient EXCEPT ![c] = Append(toClient[c], Service!Answer(request[c]))]
        BY <2>4 DEF Service!WriteToClosed
      <3>2. /\ session[c] = "answering"
            /\ UNCHANGED <<mayFragment, up, client, asked, backlog, toServer, response>>
        BY <2>4 DEF Service!WriteToClosed
      <3> QED BY <2>1, <3>1, <3>2, AnsweredStep, ThreadEndsStep
    <2>5. CASE Service!EndSession(c)
      <3>1. PICK over \in {"ended", "failed"} : session' = [session EXCEPT ![c] = over]
        BY <2>5 DEF Service!EndSession
      <3>2. /\ session[c] = "reading"
            /\ UNCHANGED <<mayFragment, up, client, asked, backlog, request, toServer, toClient, response>>
        BY <2>5 DEF Service!EndSession
      <3> QED BY <2>1, <3>1, <3>2, ThreadEndsStep
    <2> QED BY <1>6, <2>2, <2>3, <2>4, <2>5 DEF SessionStep, Service!SessionStep
  <1>7. CASE UNCHANGED vars
    BY <1>7, SameStep
  <1> QED BY <1>1, <1>2, <1>3, <1>4, <1>5, <1>6, <1>7 DEF Next

LEMMA ServiceInit == Init => ServiceIInv
  <1> SUFFICES ASSUME Init PROVE ServiceIInv
    OBVIOUS
  <1>1. /\ mayFragment = FALSE /\ up = FALSE /\ client = [c \in Clients |-> "start"]
        /\ asked = [c \in Clients |-> 0] /\ backlog = <<>>
        /\ session = [c \in Clients |-> "none"] /\ request = [c \in Clients |-> <<>>]
        /\ toServer = [c \in Clients |-> <<>>] /\ toClient = [c \in Clients |-> <<>>]
        /\ response = [c \in Clients |-> NoResponse] /\ phase # "listening"
    BY DEF Init, Service!Init, Table!Init
  <1>2. /\ <<>> \in Seq(Pieces) /\ <<>> \in Seq(Service!Answers) /\ <<>> \in Seq(Clients)
        /\ Len(<<>>) = 0 /\ DOMAIN <<>> = {}
    OBVIOUS
  <1>3. ServiceTypes /\ Waiting /\ Idle
    BY <1>1, <1>2 DEF ServiceTypes, Waiting, Idle
  <1>4. ASSUME NEW c \in Clients PROVE Connection(c)
    <2>1. Len(request[c]) = 0 /\ Len(toServer[c]) = 0
      BY <1>1, <1>2
    <2>2. /\ request[c] = <<>> /\ toServer[c] = <<>> /\ toClient[c] = <<>> /\ session[c] = "none"
          /\ client[c] = "start" /\ response[c] = NoResponse
      BY <1>1
    <2> QED BY <2>1, <2>2 DEF Connection, Unanswered
  <1> QED BY <1>3, <1>4 DEF ServiceIInv

LEMMA ServerInvariant == Spec => []ServerIInv
  <1>1. Init => ServerIInv
    BY TableInit, ServiceInit DEF ServerIInv
  <1>2. ServerIInv /\ [Next]_vars => ServerIInv'
    BY TableNext, ServiceNext DEF ServerIInv
  <1> QED BY <1>1, <1>2, PTL DEF Spec

(* For any number of clients and any tables: what a client gets is an      *)
(* answer to a first part of its own text, and to all of it when the       *)
(* network delivers texts in one piece, however accepts, reads, answers    *)
(* and ends of other sessions fall, and if the server stops                *)
(* (listenForConnections, handleSession).                                  *)
THEOREM AnswersCorrect == Spec => []AnswerInv
  <1>1. ServerIInv => AnswerInv
    <2> SUFFICES ASSUME ServerIInv
                 PROVE  Service!TypeOK /\ Service!OwnAnswer /\ Service!LocationOfAsked
      BY DEF AnswerInv, Service!AnswerInv
    <2>1. ServiceTypes /\ Waiting /\ \A c \in Clients : Connection(c)
      BY DEF ServerIInv, ServiceIInv
    <2>2. Service!TypeOK
      <3>1. Service!ToSet(backlog) \subseteq Clients
        BY <2>1 DEF Waiting, Service!ToSet
      <3>2. \A c \in Clients : Service!ToSet(toClient[c]) \subseteq Service!Answers
        <4> SUFFICES ASSUME NEW c \in Clients PROVE Service!ToSet(toClient[c]) \subseteq Service!Answers
          OBVIOUS
        <4>1. toClient[c] \in Seq(Service!Answers)
          BY <2>1 DEF ServiceTypes
        <4> QED BY <4>1 DEF Service!ToSet
      <3> QED BY <2>1, <3>1, <3>2 DEF Service!TypeOK, ServiceTypes, Connection
    <2>3. ASSUME NEW c \in Clients, response[c] # NoResponse
          PROVE  \E n \in 1 .. Len(Text(c)) : /\ response[c] = Service!Answer(SubSeq(Text(c), 1, n))
                                              /\ ~mayFragment => n = Len(Text(c))
      <3>1. response[c] \in FirstAnswers(c)
        BY <2>1, <2>3 DEF Connection
      <3>2. Len(Text(c)) \in 1 .. 3
        BY <2>1, AskedText
      <3>3. PICK n \in (IF mayFragment THEN 1 .. Len(Text(c)) ELSE {Len(Text(c))}) :
               response[c] = Service!Answer(SubSeq(Text(c), 1, n))
        BY <3>1 DEF FirstAnswers, FirstReads
      <3>4. n \in 1 .. Len(Text(c)) /\ (~mayFragment => n = Len(Text(c)))
        <4>1. CASE mayFragment
          BY <3>3, <4>1
        <4>2. CASE ~mayFragment
          BY <3>2, <3>3, <4>2
        <4> QED BY <4>1, <4>2
      <3> QED BY <3>3, <3>4
    <2>4. Service!OwnAnswer
      BY <2>3 DEF Service!OwnAnswer, Text
    <2>5. Service!LocationOfAsked
      <3> SUFFICES ASSUME NEW c \in Clients, response[c] # NoResponse, ~mayFragment
                   PROVE  response[c] = Service!GetLocationByIp(address_table, asked[c])
        BY DEF Service!LocationOfAsked
      <3>1. response[c] = Service!Answer(SubSeq(Text(c), 1, Len(Text(c))))
        BY <2>3
      <3>2. /\ SubSeq(Text(c), 1, Len(Text(c))) = Text(c) /\ asked[c] \in 0 .. 3
            /\ Text(c) = Service!AddressText(asked[c])
        BY <2>1, AskedText
      <3> QED BY <3>1, <3>2, WholeText
    <2> QED BY <2>2, <2>4, <2>5
  <1> QED BY <1>1, ServerInvariant, PTL
==============================================================================
