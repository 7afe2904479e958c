----------------------------- MODULE GeoIpLookup -----------------------------
(***************************************************************************)
(* The ordered map the GeoIP server keeps (std::map<unsigned long,         *)
(* Location* >, geoip_server.h) and the search it makes in it.  A map is a *)
(* function from its keys; the operators are those of std::map the server  *)
(* uses, and getLocationByIp on top of them.                               *)
(***************************************************************************)
EXTENDS Naturals

CONSTANT NULL               \* the pointer that getLocationByIp returns for "not found"

EmptyMap == [k \in {} |-> NULL]

(* Fault: operator[] in place of insert.                                   *)
Insert_Replaces(map, key, value) ==
    [k \in DOMAIN map \cup {key} |-> IF k = key THEN value ELSE map[k]]

(* std::map::insert keeps the entry that is already there.                 *)
Insert(map, key, value) ==
    IF key \in DOMAIN map
    THEN map
    ELSE [k \in DOMAIN map \cup {key} |-> IF k = key THEN value ELSE map[k]]

(* upper_bound is end() when no key is above `ip', and begin() when none   *)
(* is at or below it; else the entry before it has the greatest key that   *)
(* is not above `ip'.                                                      *)
AtOrBelow(map, ip) == {k \in DOMAIN map : k <= ip}
Above(map, ip)     == {k \in DOMAIN map : k > ip}
Greatest(keys)     == CHOOSE k \in keys : \A other \in keys : other <= k

GetLocationByIp(map, ip) ==
    IF Above(map, ip) = {} \/ AtOrBelow(map, ip) = {}
    THEN NULL
    ELSE map[Greatest(AtOrBelow(map, ip))]
==============================================================================
