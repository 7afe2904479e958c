----------------------------- MODULE GeoIpServer ------------------------------
(***************************************************************************)
(* The GeoIP server as a process: loadData reads the two files, then       *)
(* listenForConnections serves what they gave, and does not return.  A     *)
(* server that is destroyed has not listened.                              *)
(***************************************************************************)
CONSTANTS
    NULL,
    LocationFiles, BlockFiles, UlongMax, MaxLines, Lookups,     \* GeoIpTable
    Clients, Addresses, NoResponse,                             \* GeoIpService
    ServedFiles     \* bound: the files, <<locations, blocks>>, that are served

VARIABLES
    locations_file, blocks_file, missing, at, phase, heap, locations_table,
    address_table,
    mayFragment, up, client, asked, backlog, session, request, toServer, toClient, response

tableVars == <<locations_file, blocks_file, missing, at, heap, locations_table, address_table>>
serviceVars == <<mayFragment, up, client, asked, backlog, session, request, toServer,
                 toClient, response>>
vars == <<tableVars, phase, serviceVars>>

Table == INSTANCE GeoIpTable WITH Addresses <- Lookups
Service == INSTANCE GeoIpService

ASSUME ServerAssumption == Table!TableAssumption /\ Service!ServiceAssumption

Init == Table!Init /\ Service!Init

LoadOrDelete == Table!Next /\ UNCHANGED serviceVars

Listen ==
    /\ phase = "ready"
    /\ <<locations_file, blocks_file>> \in ServedFiles
    /\ phase' = "listening"
    /\ Service!Listen
    /\ UNCHANGED tableVars

Accept == phase = "listening" /\ Service!Accept /\ UNCHANGED <<tableVars, phase>>
Stop == phase = "listening" /\ Service!Stop /\ UNCHANGED <<tableVars, phase>>
ClientStep(c) == phase = "listening" /\ Service!ClientStep(c) /\ UNCHANGED <<tableVars, phase>>
Kill(c) == phase = "listening" /\ Service!Kill(c) /\ UNCHANGED <<tableVars, phase>>
SessionStep(c) == phase = "listening" /\ Service!SessionStep(c) /\ UNCHANGED <<tableVars, phase>>

Next ==
    \/ LoadOrDelete \/ Listen \/ Accept \/ Stop
    \/ \E c \in Clients : ClientStep(c) \/ Kill(c) \/ SessionStep(c)

Spec == Init /\ [][Next]_vars

(* The threads of the server and the clients run; nobody has to stop one.  *)
LiveSpec ==
    /\ Spec
    /\ WF_vars(Accept)
    /\ \A c \in Clients : WF_vars(ClientStep(c)) /\ WF_vars(SessionStep(c))
------------------------------------------------------------------------------
(***************************************************************************)
(* Properties: those of the parts, over tables that came from files.       *)
(***************************************************************************)

(* The tables follow the files, and own what they refer to                 *)
(* (loadLocationsFile, loadBlocksFile, ~GeoIpServer).                      *)
TablesInv == Table!TablesInv

(* What a client gets is the answer to its own text (handleSession).       *)
AnswerInv == Service!AnswerInv

(* A client that stays is answered, and the thread of one that is gone     *)
(* ends (listenForConnections, handleSession).                             *)
SessionsRun == Service!Responded /\ Service!SessionEnds
==============================================================================
