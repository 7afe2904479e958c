---- MODULE MCGeoIpServer ----
EXTENDS GeoIpServer, Naturals, Sequences

Location(n) == [match |-> TRUE, id |-> n]
Block(first, last, n) == [match |-> TRUE, first |-> first, last |-> last, id |-> n]

\* Location ids 1 and 2, one that strtoul cannot represent, and lines the pattern rejects.
LocationLines == {Location(n) : n \in {1, 2, 9}} \cup {[Location(1) EXCEPT !.match = FALSE]}
AllLocationFiles == [1 .. 3 -> LocationLines]

\* Blocks over the addresses 0 .. 4, with gaps and duplicates; id 3 is in no locations file.
BlockLines ==
    {Block(b[1], b[2], n) : b \in {<<0, 1>>, <<1, 2>>, <<3, 3>>}, n \in {1, 2}}
    \cup {Block(2, 2, 3), Block(8, 9, 1), [Block(0, 0, 1) EXCEPT !.match = FALSE]}
AllBlockFiles == UNION {[1 .. n -> BlockLines] : n \in {0, 2, 3}}

\* Blocks out of order, 1 .. 2 and 3 .. 3: address 0 lies in no block, 1 and 2 in one, and 3 in
\* the one that starts last, for which the code has no answer.
Served == {<< <<Location(2), Location(9), Location(1)>>, <<Block(3, 3, 2), Block(1, 2, 1)>> >>}

AllLookups == 0 .. 4
AllAddresses == 0 .. 3
====
