------------------------------ MODULE FcgiParams -----------------------------
(***************************************************************************)
(* The parameters of a request (fcgiapp.c): a vector of "name=value"       *)
(* texts with a NULL after the last, which PutParam doubles when it is     *)
(* full, and which FCGX_GetParam searches.  A text is the sequence of its  *)
(* characters.                                                             *)
(***************************************************************************)
EXTENDS Naturals, Sequences, SequencesExt, FiniteSetsExt

CONSTANTS
    Characters,     \* what a text is made of
    Names, Values,  \* the texts the web server sends; no name has a '=' in it
    Equals,         \* '='
    NULL,
    FirstLengths,   \* what NewParams is called with
    MaxParams       \* bound: parameters in one vector

ParamsAssumption ==
    /\ Names \cup Values \subseteq Seq(Characters) /\ Equals \in Characters
    /\ NULL \notin Seq(Characters)
    /\ FirstLengths \subseteq Nat \ {0} /\ MaxParams \in Nat
    /\ \A name \in Names : ~ \E i \in DOMAIN name : name[i] = Equals

VARIABLES
    vec,        \* what the vector holds, the NULL too
    length,     \* how much it can hold
    sent        \* the pairs put, in order

vars == <<vec, length, sent>>

Init ==
    /\ length \in FirstLengths
    /\ vec = <<NULL>>
    /\ sent = <<>>

NameValue(name, value) == name \o <<Equals>> \o value

Put(name, value) ==
    /\ Len(sent) < MaxParams
    /\ vec' = Append(Front(vec), NameValue(name, value)) \o <<NULL>>
    /\ sent' = Append(sent, <<name, value>>)

(* Fault: the place for the NULL is not counted.                           *)
PutParam_GrowsLate(name, value) ==
    /\ Put(name, value)
    /\ length' = IF Len(sent) + 1 > length THEN 2 * length ELSE length

PutParam(name, value) ==
    /\ Put(name, value)
    /\ length' = IF Len(sent) + 1 >= length THEN 2 * length ELSE length

Next == \E name \in Names, value \in Values : PutParam(name, value)

Spec == Init /\ [][Next]_vars

(* The first text that begins with the name and goes on with a '='.        *)
GetParam(name) ==
    LET found == {i \in 1 .. Len(vec) - 1 : IsPrefix(Append(name, Equals), vec[i])}
    IN  IF found = {} THEN NULL
        ELSE SubSeq(vec[Min(found)], Len(name) + 2, Len(vec[Min(found)]))
------------------------------------------------------------------------------
(***************************************************************************)
(* Properties.                                                             *)
(***************************************************************************)

(* The vector has room for what it holds, with the NULL that ends every    *)
(* search of it.                                                           *)
HasRoom == Len(vec) <= length /\ \A i \in DOMAIN vec : vec[i] = NULL <=> i = Len(vec)

(* A name gets the value that was sent with it, the first if it was sent   *)
(* twice, and NULL if it was not, though another name begins with it.      *)
FindsOwn ==
    \A name \in Names :
        LET of == {i \in DOMAIN sent : sent[i][1] = name}
        IN  GetParam(name) = IF of = {} THEN NULL ELSE sent[Min(of)][2]

ParamsInv == HasRoom /\ FindsOwn
==============================================================================
