---------------------------- MODULE FcgiResponse ----------------------------
(***************************************************************************)
(* What the output half of libfcgi promises the application about the web  *)
(* server: the bytes it gives each of two streams arrive in order, a       *)
(* stream's end arrives only behind everything it was given, and the exit  *)
(* status arrives last and is the one the application set last.  A         *)
(* response may stop at any point (the connection failed, or the           *)
(* application never finishes), but what has been delivered is never taken *)
(* back, reordered or repeated.                                            *)
(***************************************************************************)
EXTENDS Integers

CONSTANTS Status, MaxStored

Streams == {"STDOUT", "STDERR"}
Running == -1        \* exit while the request is not ended

VARIABLES
    given,   \* given[s]: how many bytes the application has given stream s
    status,  \* the exit status the application set last
    got,     \* got[s]: the stream's first got[s] bytes have been delivered
    eof,     \* eof[s]: the end of the stream has been delivered
    exit     \* the delivered exit status, or Running

vars == <<given, status, got, eof, exit>>

Init ==
    /\ given = [s \in Streams |-> 0]
    /\ status = 0
    /\ got = [s \in Streams |-> 0]
    /\ eof = [s \in Streams |-> FALSE]
    /\ exit = Running

Give ==
    /\ given' \in [Streams -> 0 .. MaxStored]
    /\ \A s \in Streams : given'[s] >= given[s] /\ (eof[s] => given'[s] = given[s])
    /\ UNCHANGED <<status, got, eof, exit>>

SetStatus == status' \in Status /\ UNCHANGED <<given, got, eof, exit>>

\* Everything the stream was given, and its end if it needs one, has arrived.
Complete(s) == got'[s] = given[s] /\ (eof'[s] \/ (s = "STDERR" /\ given[s] = 0))

\* One write of the library may carry content, an end of stream and the end
\* of the request together.
Deliver ==
    /\ exit = Running
    /\ got' \in [Streams -> 0 .. MaxStored]
    /\ eof' \in [Streams -> BOOLEAN]
    /\ \A s \in Streams : /\ got[s] <= got'[s] /\ got'[s] <= given[s]
                          /\ eof[s] => eof'[s]
                          /\ eof'[s] => got'[s] = given[s]
    /\ \/ exit' = Running
       \/ exit' = status /\ \A s \in Streams : Complete(s)
    /\ UNCHANGED <<given, status>>

Next == Give \/ SetStatus \/ Deliver

Spec == Init /\ [][Next]_vars
=============================================================================
