---------------------------- MODULE MCFcgiReader ----------------------------
(* Inputs for FcgiReader: one request as a web server sends it, with one or *)
(* two further records put in at every place.                               *)
EXTENDS FcgiReader, SequencesExt

Rec(t, i, n, p) == [type |-> t, id |-> i, len |-> n, pad |-> p, role |-> "RESPONDER", after |-> 0]
BeginRec(i, r) == [Rec("BEGIN", i, BodyLen, 0) EXCEPT !.role = r]

\* Two pairs, cut across two records, and two records of input.
Responder == <<BeginRec(1, "RESPONDER"), Rec("PARAMS", 1, 3, 1), Rec("PARAMS", 1, 1, 0),
               Rec("PARAMS", 1, 0, 0), Rec("STDIN", 1, 2, 1), Rec("STDIN", 1, 1, 0),
               Rec("STDIN", 1, 0, 0)>>
Filter == <<BeginRec(1, "FILTER"), Rec("PARAMS", 1, 2, 0), Rec("PARAMS", 1, 0, 0),
            Rec("STDIN", 1, 1, 0), Rec("STDIN", 1, 0, 0), Rec("DATA", 1, 2, 1),
            Rec("DATA", 1, 0, 0)>>

\* Management records, a second request and a record of it.
Extras == {Rec("GET_VALUES", 0, 0, 0), Rec("GET_VALUES", 0, 2, 1), Rec("UNKNOWN", 0, 0, 1),
           BeginRec(2, "RESPONDER"), Rec("STDIN", 2, 2, 1)}

\* The script with r put in behind its first k records.
PutIn(s, k, r) == SubSeq(s, 1, k) \o <<r>> \o SubSeq(s, k + 1, Len(s))
With(s, extras, places) == {PutIn(s, k, r) : k \in places, r \in extras}

MCScripts ==
    With(Responder, Extras, 1 .. 6) \cup With(Filter, Extras, 1 .. 6)
      \cup {PutIn(Responder, 0, Rec("GET_VALUES", 0, 2, 1)),
            PutIn(Responder, 4, BeginRec(2, "OTHER")) \o <<Rec("STDIN", 2, 1, 0)>>}
      \cup UNION {With(s, {Rec("STDIN", 2, 1, 0)}, 5 .. 6)
                    : s \in With(Responder, {BeginRec(2, "RESPONDER")}, {2, 4})}
\* A connection that is cut, a role nobody plays, records out of order.
      \cup {SubSeq(Responder, 1, k) : k \in {0, 1, 2, 4, 5}}
      \cup {<<BeginRec(1, "OTHER")>>, <<Rec("STDIN", 1, 1, 0)>>,
            PutIn(Responder, 2, Rec("STDIN", 1, 1, 0))}

\* A web server that sends on only when the record before has been answered.
      \cup {[PutIn(Responder, k, r) EXCEPT ![k + 2].after = 1] :
               k \in {2, 5}, r \in {Rec("UNKNOWN", 0, 0, 0), BeginRec(2, "RESPONDER")}}

\* The web server keeps to its side on all of these.
ASSUME MCScriptsAssumption == \A s \in MCScripts : RequestScript(s)

\* A management record of unknown type that has content.
UnknownWithContent == {PutIn(Responder, 4, Rec("UNKNOWN", 0, 1, 0))}
=============================================================================
