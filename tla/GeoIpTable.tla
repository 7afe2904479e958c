----------------------------- MODULE GeoIpTable ------------------------------
(***************************************************************************)
(* GeoIpServer::loadData and the destructor: two CSV files are read line   *)
(* by line into locations_table and address_table, which share their       *)
(* Location objects.  A line is the record of its fields; a line whose     *)
(* `match' is FALSE is one the regular expression rejects (the header      *)
(* lines, and the empty line getline returns after a final newline).  A    *)
(* missing file is one whose stream never reaches eof.  phase "listening"  *)
(* is set by GeoIpServer.                                                  *)
(***************************************************************************)
EXTENDS GeoIpLookup, Sequences, FiniteSets

CONSTANTS LocationFiles,    \* the locations files considered: sequences of [match, id]
          BlockFiles,       \* the blocks files: sequences of [match, first, last, id]
          UlongMax,         \* ULONG_MAX
          MaxLines,         \* no file has more lines than this
          Addresses         \* the addresses looked up

TableAssumption ==
    /\ UlongMax \in Nat
    /\ MaxLines \in Nat
    /\ Addresses \subseteq Nat
    /\ \A file \in LocationFiles :
          file \in Seq([match : BOOLEAN, id : Nat]) /\ Len(file) <= MaxLines
    /\ \A file \in BlockFiles :
          file \in Seq([match : BOOLEAN, first : Nat, last : Nat, id : Nat]) /\ Len(file) <= MaxLines

VARIABLES locations_file,   \* the lines of the locations file
          blocks_file,      \* the lines of the blocks file
          missing,          \* the files that cannot be opened
          at,               \* how many lines of the current file have been read
          phase,            \* the function running: "locations", "blocks", "ready",
                            \* "listening" or "deleted"
          heap,             \* the Location objects allocated and not deleted, by line
          locations_table,  \* location id -> Location
          address_table     \* first address of a block -> Location

vars == <<locations_file, blocks_file, missing, at, phase, heap,
          locations_table, address_table>>

(* A Location object is named by the line it was made from.                *)
Objects == 1 .. MaxLines

(* strtoul saturates: what does not fit, and ULONG_MAX itself, is skipped. *)
Strtoul(n) == IF n > UlongMax THEN UlongMax ELSE n
InRange(n) == Strtoul(n) # UlongMax

Init ==
    /\ locations_file \in LocationFiles
    /\ blocks_file \in BlockFiles
    /\ missing \in SUBSET {"locations", "blocks"}
    /\ at = 0
    /\ phase = "locations"
    /\ heap = {}
    /\ locations_table = EmptyMap
    /\ address_table = EmptyMap

(* The Location is allocated before its id is looked at; insert may not    *)
(* take it.                                                                *)
LocationLine ==
    /\ phase = "locations"
    /\ "locations" \notin missing
    /\ at < Len(locations_file)
    /\ at' = at + 1
    /\ LET line == locations_file[at + 1] IN
       IF line.match
       THEN /\ heap' = heap \cup {at + 1}
            /\ locations_table' =
                   IF InRange(line.id)
                   THEN Insert(locations_table, Strtoul(line.id), at + 1)
                   ELSE locations_table
       ELSE UNCHANGED <<heap, locations_table>>
    /\ UNCHANGED <<locations_file, blocks_file, missing, phase, address_table>>

EndOfLocations ==
    /\ phase = "locations"
    /\ "locations" \notin missing
    /\ at = Len(locations_file)
    /\ phase' = "blocks"
    /\ at' = 0
    /\ UNCHANGED <<locations_file, blocks_file, missing, heap, locations_table, address_table>>

(* A block enters the address table under its first address, with the      *)
(* Location object its id names; the code never looks at the last one.     *)
AcceptsBlock(line, table) ==
    /\ line.match
    /\ InRange(line.id)
    /\ Strtoul(line.id) \in DOMAIN table
    /\ InRange(line.first)

BlockLine ==
    /\ phase = "blocks"
    /\ "blocks" \notin missing
    /\ at < Len(blocks_file)
    /\ at' = at + 1
    /\ LET line == blocks_file[at + 1] IN
       address_table' =
           IF AcceptsBlock(line, locations_table)
           THEN Insert(address_table, Strtoul(line.first), locations_table[Strtoul(line.id)])
           ELSE address_table
    /\ UNCHANGED <<locations_file, blocks_file, missing, phase, heap, locations_table>>

EndOfBlocks ==
    /\ phase = "blocks"
    /\ "blocks" \notin missing
    /\ at = Len(blocks_file)
    /\ phase' = "ready"
    /\ UNCHANGED <<locations_file, blocks_file, missing, at, heap, locations_table, address_table>>

(* getline on a stream that did not open sets failbit, never eofbit, and   *)
(* leaves the line as it was: the loop reads on.                           *)
ReadMissing ==
    /\ phase \in missing
    /\ UNCHANGED vars

(* ~GeoIpServer deletes what locations_table refers to, then both maps.    *)
Delete ==
    /\ phase = "ready"
    /\ phase' = "deleted"
    /\ heap' = heap \ {locations_table[id] : id \in DOMAIN locations_table}
    /\ locations_table' = EmptyMap
    /\ address_table' = EmptyMap
    /\ UNCHANGED <<locations_file, blocks_file, missing, at>>

Load == LocationLine \/ EndOfLocations \/ BlockLine \/ EndOfBlocks \/ ReadMissing

Next == Load \/ Delete

------------------------------------------------------------------------------
(***************************************************************************)
(* Properties.                                                             *)
(***************************************************************************)

(* Every variable has its type: tables map numbers below ULONG_MAX to      *)
(* Location objects.                                                       *)
TypeOK ==
    /\ at \in 0 .. MaxLines
    /\ phase \in {"locations", "blocks", "ready", "listening", "deleted"}
    /\ heap \subseteq Objects
    /\ DOMAIN locations_table \subseteq 0 .. UlongMax - 1
    /\ DOMAIN address_table \subseteq 0 .. UlongMax - 1
    /\ \A id \in DOMAIN locations_table : locations_table[id] \in Objects
    /\ \A ip \in DOMAIN address_table : address_table[ip] \in Objects

(* What the files say, read from the lines and not from the tables: the    *)
(* line a location id refers to is the first that gives it, the blocks     *)
(* that count are those of a known id, and of two with the same first      *)
(* address the earlier.                                                    *)
First(lines) == CHOOSE i \in lines : \A j \in lines : i <= j

LinesOf(id) == {i \in DOMAIN locations_file : locations_file[i].match /\ locations_file[i].id = id}

Blocks == {i \in DOMAIN blocks_file : /\ blocks_file[i].match
                                      /\ blocks_file[i].first < UlongMax
                                      /\ blocks_file[i].id < UlongMax
                                      /\ LinesOf(blocks_file[i].id) # {}}

StartsAt(ip) == {i \in Blocks : blocks_file[i].first = ip}

LocationOfBlock(i) == First(LinesOf(blocks_file[i].id))

(* The block an address lies in: it runs from its first address to its     *)
(* last, and no block starts between its first address and this one.       *)
StartsBelow(ip) == {i \in Blocks : blocks_file[i].first <= ip}

BlockOf(i, ip) ==
    /\ i \in StartsBelow(ip)
    /\ ip <= blocks_file[i].last
    /\ \A j \in StartsBelow(ip) : blocks_file[j].first <= blocks_file[i].first
    /\ i = First(StartsAt(blocks_file[i].first))

LastOfAll(i) == \A j \in Blocks : blocks_file[j].first <= blocks_file[i].first

(* "Gets a location by IP.  Returns NULL if not found."  Once loaded, the  *)
(* location of an address is that of the block it lies in, whatever the    *)
(* order of the lines, the duplicates and the lines skipped, and one below *)
(* all blocks has none.  Two kinds of addresses are left out, because      *)
(* getLocationByIp, which never looks at where a block ends, answers them  *)
(* otherwise than the comment says: those of the block that starts last    *)
(* have no location, and those behind the end of a block, and before the   *)
(* start of the next, have that block's.                                   *)
LookupFollowsFile ==
    phase \in {"ready", "listening"} =>
        \A ip \in Addresses :
            LET found == GetLocationByIp(address_table, ip) IN
            /\ StartsBelow(ip) = {} => found = NULL
            /\ \A i \in Blocks :
                  BlockOf(i, ip) /\ ~ LastOfAll(i) => found = LocationOfBlock(i)

EntriesOwned ==
    \A ip \in DOMAIN address_table :
        /\ address_table[ip] \in heap
        /\ \E id \in DOMAIN locations_table : locations_table[id] = address_table[ip]

(* Sessions keep the pointer a lookup gives them ("DO NOT DELETE THE       *)
(* LOCATION", handleSession): every entry of the address table refers to   *)
(* an object that has not been deleted and that the destructor will find   *)
(* in the locations table; and lookups follow the files, but for the       *)
(* addresses left out above.                                               *)
TablesInv == TypeOK /\ EntriesOwned /\ LookupFollowsFile
==============================================================================
