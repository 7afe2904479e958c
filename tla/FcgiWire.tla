------------------------------ MODULE FcgiWire ------------------------------
(***************************************************************************)
(* The web server's reading of a response: the records a sequence of the   *)
(* cells of FcgiWriter makes, taken one cell at a time.  The decoder knows *)
(* only what a header says; it is stuck (bad) as soon as a byte is not     *)
(* what the records before it announced.                                   *)
(***************************************************************************)
EXTENDS FcgiWriter

NoStatus == -1

\* hdr, body, pad, end: the bytes still due of the current record's parts.
Decoder ==
    [hdr |-> 0, body |-> 0, pad |-> 0, end |-> 0, of |-> STDOUT,
     got |-> [s \in Streams |-> 0], eof |-> [s \in Streams |-> FALSE],
     exit |-> NoStatus, bad |-> FALSE]

AtBoundary(d) == d.hdr + d.body + d.pad + d.end = 0
Ended(d) == d.exit # NoStatus /\ AtBoundary(d)

StreamOpen(d, s) == d.exit = NoStatus /\ ~d.eof[s]
MayEnd(d) == /\ d.exit = NoStatus
             /\ d.eof[STDOUT]
             /\ d.got[STDERR] > 0 => d.eof[STDERR]

Expect(d, ok, next) == IF ok THEN next ELSE [d EXCEPT !.bad = TRUE]

\* The first byte of a record.  An empty record is the stream's end.
Begin(d, c) ==
    CASE c.kind = "header" ->
           Expect(d, StreamOpen(d, c.of),
                  [d EXCEPT !.hdr = HeaderLen - 1, !.body = c.n, !.pad = c.pad,
                            !.of = c.of, !.eof[c.of] = (c.n = 0)])
      [] c.kind = "end" ->
           Expect(d, MayEnd(d), [d EXCEPT !.end = EndLen - 1, !.exit = c.n])
      [] OTHER -> Expect(d, FALSE, d)

\* The next byte, in the part of the record it falls in.
Feed(d, c) ==
    CASE d.bad -> d
      [] ~d.bad /\ AtBoundary(d) -> Begin(d, c)
      [] ~d.bad /\ d.hdr > 0 ->
           Expect(d, c.kind = "header", [d EXCEPT !.hdr = @ - 1])
      [] ~d.bad /\ d.hdr = 0 /\ d.body > 0 ->
           Expect(d, c.kind = "body" /\ c.of = d.of /\ c.n = d.got[d.of] + 1,
                  [d EXCEPT !.body = @ - 1, !.got[d.of] = @ + 1])
      [] ~d.bad /\ d.hdr = 0 /\ d.body = 0 /\ d.pad > 0 ->
           Expect(d, c.kind = "pad", [d EXCEPT !.pad = @ - 1])
      [] OTHER -> Expect(d, c.kind = "end", [d EXCEPT !.end = @ - 1])

\* The decoder after more bytes: after[i] is what it is after the first i.
FeedAll(d, bytes) ==
    LET after[i \in 0 .. Len(bytes)] ==
            IF i = 0 THEN d ELSE Feed(after[i - 1], bytes[i])
    IN  after[Len(bytes)]
-----------------------------------------------------------------------------
(* The writer and the web server that reads its connection, up to the first *)
(* failed write.                                                            *)

VARIABLE seen        \* the web server's decoder

WireVars == <<vars, seen>>

WireInit == Init /\ seen = Decoder

Reads == seen' = IF broken THEN seen ELSE FeedAll(seen, sent')

WireNext == Next /\ Reads

WireSpec == WireInit /\ [][WireNext]_WireVars /\ WF_vars(Library)
-----------------------------------------------------------------------------
(* Up to the first failed write the connection carries well-formed records: *)
(* whole headers, the content each header announces, in the order the       *)
(* application wrote it and once, nothing behind a stream's end and nothing *)
(* behind FCGI_END_REQUEST.  (PutStr, EmptyBuffProc, WriteCloseRecords.)    *)
WellFormed == ~seen.bad

(* While no write has failed and no call is running, the connection stands  *)
(* at a record boundary and what is missing on it is in the buffers: no     *)
(* byte the application stored is lost.  (EmptyBuffProc.)                   *)
BuffersHoldTheRest ==
    call = Idle /\ ~broken =>
        /\ AtBoundary(seen)
        /\ \A s \in Streams :
              stored[s] = seen.got[s] + (IF wasFCloseCalled[s] THEN 0
                                         ELSE Len(buff[s]) - HeaderLen)

(* When both streams are closed and nothing failed, the web server has both *)
(* streams' ends (an unused FCGI_STDERR needs none) and the exit status.    *)
(* (WriteCloseRecords, FCGX_FClose, nWriters.)                              *)
ClosedMeansEnded ==
    (\A s \in Streams : wasFCloseCalled[s]) /\ ~broken =>
        /\ Ended(seen)
        /\ \A s \in Streams : seen.eof[s] \/ (s = STDERR /\ stored[s] = 0)

(* Nothing the application gave is lost, between calls or at the end.       *)
NothingLost == BuffersHoldTheRest /\ ClosedMeansEnded

(* A call the application makes returns: the loop of FCGX_PutStr finds room *)
(* or a closed stream after every EmptyBuffProc, in raw mode too.           *)
CallReturns == (call # Idle) ~> (call = Idle)

(* The writer implements FcgiResponse: what reaches the web server is what   *)
(* the application gave, each end behind all of its stream's bytes, and the  *)
(* status of FCGI_END_REQUEST is the last one set ("the last call before the *)
(* request ends determines the value", FCGX_SetExitStatus).                  *)
Response == INSTANCE FcgiResponse
    WITH given <- stored, status <- appStatus,
         got <- seen.got, eof <- seen.eof, exit <- seen.exit
Responds == Response!Spec
=============================================================================
