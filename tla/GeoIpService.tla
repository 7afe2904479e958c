---------------------------- MODULE GeoIpService -----------------------------
(***************************************************************************)
(* The GeoIP server answering its clients: listenForConnections accepts    *)
(* and starts a thread per connection, each running handleSession over the *)
(* one address table they share; GeoIpClient::getLocationByIp is the other *)
(* end.  Neither side marks where a request ends: the client writes the    *)
(* text of an address and the server takes what one read_some returns as   *)
(* the whole of it.  A response is one block of max_length bytes.          *)
(*                                                                         *)
(* A text is a sequence of pieces: "head" stands for the first three       *)
(* numbers of an address, the digits that follow write the last one.       *)
(*                                                                         *)
(* The table is GeoIpServer's, which composes this with the loading of it. *)
(***************************************************************************)
EXTENDS GeoIpLookup, Sequences, FiniteSets, SequencesExt

CONSTANTS Clients,          \* the processes that look an address up, once each
          Addresses,        \* the addresses they may ask for
          NoResponse        \* what has not answered yet

ServiceAssumption == Addresses \subseteq 0 .. 3

VARIABLES address_table,    \* the table the server has loaded
          mayFragment,      \* whether read_some may return a part of what was written
          up,               \* whether the server process runs
          client,           \* what each client is doing
          asked,            \* the address each client looks up
          backlog,          \* connections the kernel holds for the acceptor
          session,          \* the thread of each connection
          request,          \* the request a thread has read
          toServer,         \* the bytes written and not read, per connection
          toClient,         \* the responses written and not read, per connection
          response          \* what each client got

vars == <<address_table, mayFragment, up, client, asked, backlog, session, request, toServer, toClient, response>>

(* The text of an address in the notation inet_pton reads, the last number *)
(* in base 2, and inet_pton: no text but these is an address.              *)
AddressText(n) == CASE n = 0 -> <<"head", "0">>
                    [] n = 1 -> <<"head", "1">>
                    [] n = 2 -> <<"head", "1", "0">>
                    [] n = 3 -> <<"head", "1", "1">>

InetPton(text) == {n \in 0 .. 3 : AddressText(n) = text}

(* getLocationByIp( const string ): NULL, which is sent as "{}", for what  *)
(* is not an address.                                                      *)
Answer(text) ==
    IF InetPton(text) = {} THEN NULL
    ELSE GetLocationByIp(address_table, CHOOSE n \in InetPton(text) : TRUE)

Init ==
    /\ mayFragment = FALSE
    /\ up = FALSE
    /\ client = [c \in Clients |-> "start"]
    /\ asked = [c \in Clients |-> 0]
    /\ backlog = <<>>
    /\ session = [c \in Clients |-> "none"]
    /\ request = [c \in Clients |-> <<>>]
    /\ toServer = [c \in Clients |-> <<>>]
    /\ toClient = [c \in Clients |-> <<>>]
    /\ response = [c \in Clients |-> NoResponse]

(* listenForConnections has the acceptor; what the network will do of the  *)
(* texts is settled here.                                                  *)
Listen ==
    /\ ~up
    /\ up' = TRUE
    /\ mayFragment' \in BOOLEAN
    /\ UNCHANGED <<client, asked, backlog, session, request, toServer, toClient, response>>

(* The connection is made by the kernel, before the server accepts it.     *)
Connect(c) ==
    /\ up
    /\ client[c] = "start"
    /\ client' = [client EXCEPT ![c] = "connected"]
    /\ \E ip \in Addresses : asked' = [asked EXCEPT ![c] = ip]
    /\ backlog' = Append(backlog, c)
    /\ UNCHANGED <<mayFragment, up, session, request, toServer, toClient, response>>

WriteAddress(c) ==
    /\ client[c] = "connected"
    /\ client' = [client EXCEPT ![c] = "reading"]
    /\ toServer' = [toServer EXCEPT ![c] = @ \o AddressText(asked[c])]
    /\ UNCHANGED <<mayFragment, up, asked, backlog, session, request, toClient, response>>

(* boost::asio::read returns when max_length bytes have come; the socket   *)
(* closes as the function returns.                                         *)
ReadResponse(c) ==
    /\ client[c] = "reading"
    /\ toClient[c] # <<>>
    /\ response' = [response EXCEPT ![c] = Head(toClient[c])]
    /\ client' = [client EXCEPT ![c] = "done"]
    /\ UNCHANGED <<mayFragment, up, asked, backlog, session, request, toServer, toClient>>

(* No server, or the connection reset as it stopped: connect or read       *)
(* throws, and the text of the exception is what the function returns.  A  *)
(* write may still succeed.                                                *)
Error(c) ==
    /\ ~up
    /\ client[c] \in {"start", "connected", "reading"}
    /\ client' = [client EXCEPT ![c] = "failed"]
    /\ UNCHANGED <<mayFragment, up, asked, backlog, session, request, toServer, toClient, response>>

(* The client process may die with its connection open.                    *)
Kill(c) ==
    /\ client[c] \in {"connected", "reading"}
    /\ client' = [client EXCEPT ![c] = "killed"]
    /\ UNCHANGED <<mayFragment, up, asked, backlog, session, request, toServer, toClient, response>>

Gone(c) == client[c] \in {"done", "failed", "killed"}

(* listenForConnections: accept, then a thread for the connection.         *)
Accept ==
    /\ backlog # <<>>
    /\ backlog' = Tail(backlog)
    /\ session' = [session EXCEPT ![Head(backlog)] = "reading"]
    /\ UNCHANGED <<mayFragment, up, client, asked, request, toServer, toClient, response>>

(* How much of what has come one read_some returns.                        *)
Available(c) ==
    IF mayFragment THEN 1 .. Len(toServer[c]) ELSE {Len(toServer[c])} \ {0}

(* Fault: the sessions share one buffer.                                   *)
ReadSome_SharedBuffer(c) ==
    /\ session[c] = "reading"
    /\ \E n \in Available(c) :
          /\ request' = [d \in Clients |-> IF d = c \/ session[d] = "answering"
                                          THEN SubSeq(toServer[c], 1, n) ELSE request[d]]
          /\ toServer' = [toServer EXCEPT ![c] = SubSeq(@, n + 1, Len(@))]
    /\ session' = [session EXCEPT ![c] = "answering"]
    /\ UNCHANGED <<mayFragment, up, client, asked, backlog, toClient, response>>

ReadSome(c) ==
    /\ session[c] = "reading"
    /\ \E n \in Available(c) :
          /\ request' = [request EXCEPT ![c] = SubSeq(toServer[c], 1, n)]
          /\ toServer' = [toServer EXCEPT ![c] = SubSeq(@, n + 1, Len(@))]
    /\ session' = [session EXCEPT ![c] = "answering"]
    /\ UNCHANGED <<mayFragment, up, client, asked, backlog, toClient, response>>

(* Fault: nothing is written for an address that is not found.             *)
WriteAnswer_OnlyFound(c) ==
    /\ session[c] = "answering"
    /\ ~Gone(c)
    /\ toClient' = IF Answer(request[c]) = NULL THEN toClient
                   ELSE [toClient EXCEPT ![c] = Append(@, Answer(request[c]))]
    /\ session' = [session EXCEPT ![c] = "reading"]
    /\ request' = [request EXCEPT ![c] = <<>>]
    /\ UNCHANGED <<mayFragment, up, client, asked, backlog, toServer, response>>

WriteAnswer(c) ==
    /\ session[c] = "answering"
    /\ ~Gone(c)
    /\ toClient' = [toClient EXCEPT ![c] = Append(@, Answer(request[c]))]
    /\ session' = [session EXCEPT ![c] = "reading"]
    /\ request' = [request EXCEPT ![c] = <<>>]
    /\ UNCHANGED <<mayFragment, up, client, asked, backlog, toServer, response>>

(* write to a connection whose other end is gone: the kernel takes the     *)
(* bytes, or the write throws and the thread ends, its two strings not     *)
(* deleted.                                                                *)
WriteToClosed(c) ==
    /\ session[c] = "answering"
    /\ Gone(c)
    /\ \/ session' = [session EXCEPT ![c] = "failed"] /\ UNCHANGED <<request, toClient>>
       \/ /\ session' = [session EXCEPT ![c] = "reading"]
          /\ request' = [request EXCEPT ![c] = <<>>]
          /\ toClient' = [toClient EXCEPT ![c] = Append(@, Answer(request[c]))]
    /\ UNCHANGED <<mayFragment, up, client, asked, backlog, toServer, response>>

(* read_some reports eof when the other end closed and all was read, or a  *)
(* reset when responses came to a closed socket or were left unread in it; *)
(* both end the thread, the second by an exception.                        *)
EndSession(c) ==
    /\ session[c] = "reading"
    /\ Gone(c)
    /\ \/ toServer[c] = <<>> /\ session' = [session EXCEPT ![c] = "ended"]
       \/ toClient[c] # <<>> /\ session' = [session EXCEPT ![c] = "failed"]
    /\ UNCHANGED <<mayFragment, up, client, asked, backlog, request, toServer, toClient, response>>

(* The process stops, with every thread (accept throws when no descriptor  *)
(* is left, and nothing catches it), at any moment.                        *)
Stop ==
    /\ up
    /\ up' = FALSE
    /\ backlog' = <<>>
    /\ session' = [c \in Clients |-> IF session[c] \in {"reading", "answering"} THEN "failed" ELSE session[c]]
    /\ request' = [c \in Clients |-> <<>>]
    /\ UNCHANGED <<mayFragment, client, asked, toServer, toClient, response>>

ClientStep(c)  == Connect(c) \/ WriteAddress(c) \/ ReadResponse(c) \/ Error(c)
SessionStep(c) == ReadSome(c) \/ WriteAnswer(c) \/ WriteToClosed(c) \/ EndSession(c)

Next == Accept \/ Stop \/ \E c \in Clients : ClientStep(c) \/ Kill(c) \/ SessionStep(c)

------------------------------------------------------------------------------
(***************************************************************************)
(* Properties.                                                             *)
(***************************************************************************)

Answers == {address_table[k] : k \in DOMAIN address_table} \cup {NULL}

(* Every variable has its type.                                            *)
TypeOK ==
    /\ mayFragment \in BOOLEAN
    /\ up \in BOOLEAN
    /\ client \in [Clients -> {"start", "connected", "reading", "done", "failed", "killed"}]
    /\ asked \in [Clients -> Addresses \cup {0}]
    /\ ToSet(backlog) \subseteq Clients
    /\ session \in [Clients -> {"none", "reading", "answering", "ended", "failed"}]
    /\ \A c \in Clients : Len(request[c]) + Len(toServer[c]) <= 3
    /\ \A c \in Clients : ToSet(toClient[c]) \subseteq Answers
    /\ response \in [Clients -> Answers \cup {NoResponse}]

(* However the reads of several sessions fall, what a client gets is the   *)
(* answer to a first part of what it wrote itself, never one made for      *)
(* another client.                                                         *)
OwnAnswer ==
    \A c \in Clients :
        response[c] # NoResponse =>
            \E n \in 1 .. Len(AddressText(asked[c])) :
                response[c] = Answer(SubSeq(AddressText(asked[c]), 1, n))

(* "Gets a location by IP" (GeoIpClient::getLocationByIp): a client that   *)
(* gets a response gets the location of the address it asked for, as long  *)
(* as the network delivers each text in one piece.                         *)
LocationOfAsked ==
    \A c \in Clients :
        response[c] # NoResponse /\ ~mayFragment => response[c] = GetLocationByIp(address_table, asked[c])

(* The threads share the table and the object and nothing else.            *)
AnswerInv == TypeOK /\ OwnAnswer /\ LocationOfAsked

(* A client that stays connected gets a response while the server runs,    *)
(* whatever the other clients do: sessions do not wait for one another.    *)
Responded ==
    \A c \in Clients : client[c] = "connected" ~> (client[c] \in {"done", "killed"} \/ ~up)

(* The thread of a client that is gone comes to its end, so threads and    *)
(* sockets do not accumulate.                                              *)
SessionEnds ==
    \A c \in Clients : (session[c] # "none" /\ Gone(c)) ~> session[c] \in {"ended", "failed"}
==============================================================================
