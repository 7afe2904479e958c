------------------------------ MODULE FcgiStdio ------------------------------
(***************************************************************************)
(* fcgi_stdio.c: the FCGI_FILEs that stand for FILEs in a program built    *)
(* with fcgi_stdio.h.  Each has a pointer to a FILE and one to an          *)
(* FCGX_Stream, and every wrapper goes to the first that is not NULL.      *)
(* FCGI_Accept, FCGI_Finish, FCGI_freopen, FCGI_fclose and FCGI_pclose     *)
(* move those pointers, while the objects they point to are freed by       *)
(* FCGX_Accept, FCGX_Finish, fclose and freopen.                           *)
(*                                                                         *)
(* The application follows the comments: it does not use a standard file   *)
(* between FCGI_Finish, or an FCGI_Accept that failed, and the next        *)
(* FCGI_Accept, nor a file that it closed, or whose freopen failed.  It    *)
(* may call a wrapper on a standard file it closed (they return EOF).      *)
(***************************************************************************)
EXTENDS Naturals, FiniteSets

CONSTANTS NULL,
          Files,            \* the FILEs that fopen, fdopen, tmpfile and popen can make
          Statuses,         \* the exit statuses the application sets
          MaxRequests       \* bound: requests accepted in one run

StdioAssumption ==
    /\ MaxRequests \in Nat
    /\ 0 \in Statuses

(* The three elements of _fcgi_sF; the FILEs stdin, stdout and stderr have *)
(* the same names.  An FCGI_FILE made by FCGI_OpenFromFILE is named by its *)
(* FILE.                                                                   *)
Std == {"stdin", "stdout", "stderr"}


VARIABLES mayClose,         \* whether the application closes or reopens standard files
          acceptCalled,     \* FCGI_Accept has been called
          isCGI,            \* what FCGX_IsCGI said then
          request,          \* the request that the_request holds; 0: none
          accepted,         \* how many requests have been accepted
          appStatus,        \* the_request.appStatus
          stdio_stream,     \* FCGI_FILE -> the FILE it points to, or NULL
          fcgx_stream,      \* FCGI_FILE -> the FCGX_Stream it points to, or NULL
          allocated,        \* the FCGI_FILEs on the heap
          open,             \* the FILEs that are open
          usable,           \* the FCGI_FILEs the application may use
          wanted            \* the status it set last for this request, or NULL

vars == <<mayClose, acceptCalled, isCGI, request, accepted, appStatus, stdio_stream,
          fcgx_stream, allocated, open, usable, wanted>>

FcgiFiles == Std \cup Files

(* The streams of a request: they exist as long as it is the current one.  *)
Stream(r, s) == [request |-> r, of |-> s]

NamesAssumption ==
    /\ Files \cap Std = {} /\ NULL \notin Files \cup Std
    /\ \A r \in 1 .. MaxRequests, s \in Std : Stream(r, s) # NULL

Init ==
    /\ mayClose \in BOOLEAN
    /\ acceptCalled = FALSE
    /\ isCGI = FALSE
    /\ request = 0
    /\ accepted = 0
    /\ appStatus = 0
    /\ stdio_stream = [f \in FcgiFiles |-> NULL]
    /\ fcgx_stream = [f \in FcgiFiles |-> NULL]
    /\ allocated = {}
    /\ open = Std
    /\ usable = {}
    /\ wanted = NULL

(* What a wrapper goes to.                                                 *)
Target(f) == IF stdio_stream[f] # NULL THEN stdio_stream[f] ELSE fcgx_stream[f]

SetStd(pointer, values) ==
    [f \in FcgiFiles |-> IF f \in Std THEN values[f] ELSE pointer[f]]

Nothing == [f \in Std |-> NULL]

(* First call of FCGI_Accept, and the program runs as a CGI program.       *)
AcceptCGI ==
    /\ ~acceptCalled
    /\ acceptCalled' = TRUE
    /\ isCGI' = TRUE
    /\ stdio_stream' = SetStd(stdio_stream, [f \in Std |-> f])
    /\ fcgx_stream' = SetStd(fcgx_stream, Nothing)
    /\ usable' = usable \cup Std
    /\ UNCHANGED <<mayClose, request, accepted, appStatus, allocated, open, wanted>>

(* In a FastCGI program FCGX_Accept finishes the current request, with its *)
(* streams, before it waits for one.                                       *)
AcceptRequest ==
    /\ ~isCGI
    /\ accepted < MaxRequests
    /\ acceptCalled' = TRUE
    /\ accepted' = accepted + 1
    /\ request' = accepted + 1
    /\ stdio_stream' = SetStd(stdio_stream, Nothing)
    /\ fcgx_stream' = SetStd(fcgx_stream, [f \in Std |-> Stream(accepted + 1, f)])
    /\ usable' = usable \cup Std
    /\ wanted' = NULL
    /\ UNCHANGED <<mayClose, isCGI, appStatus, allocated, open>>

(* FCGX_Accept returns an error: FCGI_Accept returns it, and the three     *)
(* files are left alone.                                                   *)
AcceptFails ==
    /\ ~isCGI
    /\ acceptCalled' = TRUE
    /\ request' = 0
    /\ usable' = usable \ Std
    /\ wanted' = NULL
    /\ UNCHANGED <<mayClose, isCGI, accepted, appStatus, stdio_stream, fcgx_stream, allocated, open>>

(* FCGI_Finish; it is also what runs at exit.                              *)
Finish ==
    /\ acceptCalled
    /\ ~isCGI
    /\ request' = 0
    /\ fcgx_stream' = SetStd(fcgx_stream, Nothing)
    /\ usable' = usable \ Std
    /\ wanted' = NULL
    /\ UNCHANGED <<mayClose, acceptCalled, isCGI, accepted, appStatus, stdio_stream, allocated, open>>

(* The status goes into the request that FCGI_stdin's stream belongs to.   *)
SetExitStatus(status) ==
    /\ usable \cap Std # {}
    /\ request # 0
    /\ wanted' = status
    /\ appStatus' = IF fcgx_stream["stdin"] = NULL THEN appStatus ELSE status
    /\ UNCHANGED <<mayClose, acceptCalled, isCGI, request, accepted, stdio_stream, fcgx_stream,
                   allocated, open, usable>>

(* FCGI_fopen, FCGI_fdopen, FCGI_tmpfile, FCGI_popen: a FILE, then an      *)
(* FCGI_FILE for it; without memory for that the FILE is closed again and  *)
(* nothing has changed.                                                    *)
Fopen(f) ==
    /\ f \in Files \ open
    /\ f \notin allocated
    /\ \/ /\ open' = open \cup {f}
          /\ allocated' = allocated \cup {f}
          /\ stdio_stream' = [stdio_stream EXCEPT ![f] = f]
          /\ fcgx_stream' = [fcgx_stream EXCEPT ![f] = NULL]
          /\ usable' = usable \cup {f}
       \/ UNCHANGED <<open, allocated, stdio_stream, fcgx_stream, usable>>
    /\ UNCHANGED <<mayClose, acceptCalled, isCGI, request, accepted, appStatus, wanted>>

(* Fault: the file keeps the pointer to what was closed.                   *)
Fclose_KeepsPointer(f) ==
    /\ f \in usable
    /\ f \in Std => mayClose
    /\ open' = IF stdio_stream[f] # NULL THEN open \ {stdio_stream[f]} ELSE open
    /\ allocated' = allocated \ {f}
    /\ usable' = IF f \in Std THEN usable ELSE usable \ {f}
    /\ UNCHANGED <<mayClose, acceptCalled, isCGI, request, accepted, appStatus, stdio_stream,
                   fcgx_stream, wanted>>

(* FCGI_fclose closes what the file goes to and forgets it; FCGX_FClose    *)
(* closes a stream and does not free it.                                   *)
Fclose(f) ==
    /\ f \in usable
    /\ f \in Std => mayClose
    /\ IF stdio_stream[f] # NULL
       THEN /\ open' = open \ {stdio_stream[f]}
            /\ stdio_stream' = [stdio_stream EXCEPT ![f] = NULL]
            /\ UNCHANGED fcgx_stream
       ELSE /\ fcgx_stream' = [fcgx_stream EXCEPT ![f] = NULL]
            /\ UNCHANGED <<open, stdio_stream>>
    /\ allocated' = allocated \ {f}
    /\ usable' = IF f \in Std THEN usable ELSE usable \ {f}
    /\ UNCHANGED <<mayClose, acceptCalled, isCGI, request, accepted, appStatus, wanted>>

(* FCGI_pclose on a file that goes to a stream does nothing at all.        *)
Pclose(f) ==
    /\ stdio_stream[f] # NULL
    /\ Fclose(f)

(* FCGI_freopen over a FILE: freopen closes it in any case and, when it    *)
(* cannot open the other, returns NULL.                                    *)
FreopenFile(f) ==
    /\ f \in usable
    /\ f \in Std => mayClose
    /\ stdio_stream[f] # NULL
    /\ \/ UNCHANGED <<open, usable>>
       \/ /\ open' = open \ {stdio_stream[f]}
          /\ usable' = usable \ {f}
    /\ UNCHANGED <<mayClose, acceptCalled, isCGI, request, accepted, appStatus, stdio_stream,
                   fcgx_stream, allocated, wanted>>

(* FCGI_freopen over a stream: it is closed, and a FILE opened in its      *)
(* place; if that fails the pointer to the closed stream remains.          *)
FreopenStream(f) ==
    /\ f \in usable
    /\ mayClose
    /\ stdio_stream[f] = NULL
    /\ fcgx_stream[f] # NULL
    /\ \/ \E file \in Files \ (open \cup allocated) :
             /\ open' = open \cup {file}
             /\ stdio_stream' = [stdio_stream EXCEPT ![f] = file]
             /\ fcgx_stream' = [fcgx_stream EXCEPT ![f] = NULL]
             /\ UNCHANGED usable
       \/ /\ usable' = usable \ {f}
          /\ UNCHANGED <<open, stdio_stream, fcgx_stream>>
    /\ UNCHANGED <<mayClose, acceptCalled, isCGI, request, accepted, appStatus, allocated, wanted>>

Next ==
    \/ AcceptCGI \/ AcceptRequest \/ AcceptFails \/ Finish
    \/ \E status \in Statuses : SetExitStatus(status)
    \/ \E f \in FcgiFiles : \/ Fopen(f) \/ Fclose(f) \/ Pclose(f)
                            \/ FreopenFile(f) \/ FreopenStream(f)

Spec == Init /\ [][Next]_vars

------------------------------------------------------------------------------
(***************************************************************************)
(* Properties.                                                             *)
(***************************************************************************)

Streams == {Stream(r, s) : r \in 1 .. MaxRequests, s \in Std}

(* Every variable has its type.                                            *)
TypeOK ==
    /\ mayClose \in BOOLEAN
    /\ acceptCalled \in BOOLEAN
    /\ isCGI \in BOOLEAN
    /\ request \in {0, accepted}
    /\ accepted \in 0 .. MaxRequests
    /\ appStatus \in Statuses
    /\ \A f \in FcgiFiles : stdio_stream[f] = NULL \/ stdio_stream[f] \in FcgiFiles
    /\ \A f \in FcgiFiles : fcgx_stream[f] = NULL \/ fcgx_stream[f] \in Streams
    /\ allocated \subseteq Files
    /\ open \subseteq FcgiFiles
    /\ usable \subseteq Std \cup allocated
    /\ wanted = NULL \/ wanted \in Statuses

TargetsLive ==
    \A f \in usable :
        \/ Target(f) = NULL
        \/ stdio_stream[f] # NULL /\ Target(f) \in open
        \/ stdio_stream[f] = NULL /\ request # 0 /\ Target(f) = Stream(request, f)

(* Whatever was closed, reopened or accepted before, a wrapper the         *)
(* application calls as it may goes nowhere, to a FILE that is open, or to *)
(* the stream of the current request that has the same name: never to an   *)
(* object that is gone, nor to another request.                            *)
FilesInv == TypeOK /\ TargetsLive

(* While the application leaves the standard files alone, every FILE it    *)
(* opened and has not closed has an FCGI_FILE to close it with, unless     *)
(* its freopen failed.                                                     *)
Owned ==
    ~mayClose => \A file \in open \ Std : \E f \in allocated : stdio_stream[f] = file

(* "You can call FCGI_SetExitStatus several times during a request; the    *)
(* last call before the request ends (by calling FCGI_Accept) determines   *)
(* the value" (FCGI_SetExitStatus), while FCGI_stdin is left alone, which  *)
(* the status goes through.                                                *)
LastStatusCounts ==
    ~mayClose /\ request # 0 /\ wanted # NULL => appStatus = wanted
==============================================================================
