------------------------------ MODULE FcgiLines ------------------------------
(***************************************************************************)
(* FCGX_GetLine (fcgiapp.c) and FCGI_gets (fcgi_stdio.c): loops over       *)
(* FCGX_GetChar that fill the application's array, of a given size or not. *)
(* The stream gives its content and then EOF, again and again.             *)
(***************************************************************************)
EXTENDS Integers, Sequences, SequencesExt, FiniteSetsExt

CONSTANTS
    Characters, \* what a stream is made of
    Contents,   \* the contents of the stream: sequences of characters
    Newline,    \* '\n'
    NULL,       \* what is returned at the end
    Sizes,      \* the sizes the application gives its array
    Unlimited   \* the size FCGI_gets believes in

LinesAssumption ==
    /\ Sizes \subseteq Nat /\ Unlimited \notin Int
    /\ Contents \subseteq Seq(Characters) /\ Newline \in Characters
    /\ NULL \notin [size : Sizes \cup {Unlimited}, line : Seq(Characters)]

VARIABLES
    content,
    position,   \* how many characters have been read
    size,       \* of the call that runs, or Unlimited; -1: none runs
    from,       \* `position' as it was called
    str,        \* what it has stored
    ends,       \* its loop has come to its end
    answer      \* what the last call returned

vars == <<content, position, size, from, str, ends, answer>>

Init ==
    /\ content \in Contents
    /\ position = 0 /\ size = -1 /\ from = 0 /\ str = <<>> /\ ends = FALSE
    /\ answer = NULL

Call(s) ==
    /\ size = -1
    /\ size' = s /\ from' = position /\ str' = <<>>
    /\ ends' = (s \in {0, 1})
    /\ UNCHANGED <<content, position, answer>>

Room == IF size = Unlimited THEN 1 ELSE size - 1 - Len(str)

AtEnd == position = Len(content)
Char == content[position + 1]

(* Fault: the array is filled to its last element.                         *)
Store_NoTerminator ==
    /\ size # -1 /\ ~ends /\ ~AtEnd
    /\ position' = position + 1
    /\ str' = IF size = Unlimited /\ Char = Newline THEN str ELSE Append(str, Char)
    /\ ends' = (Char = Newline \/ Room = 0)
    /\ UNCHANGED <<content, size, from, answer>>

(* One character: FCGX_GetLine keeps the newline, FCGI_gets drops it.      *)
Store ==
    /\ size # -1 /\ ~ends /\ ~AtEnd
    /\ position' = position + 1
    /\ str' = IF size = Unlimited /\ Char = Newline THEN str ELSE Append(str, Char)
    /\ ends' = (Char = Newline \/ (size # Unlimited /\ Room = 1))
    /\ UNCHANGED <<content, size, from, answer>>

(* EOF ends the loop; NULL is returned when it is the first thing read.    *)
StoreEof ==
    /\ size # -1 /\ ~ends /\ AtEnd
    /\ IF str = <<>>
       THEN answer' = NULL /\ size' = -1 /\ UNCHANGED ends
       ELSE ends' = TRUE /\ UNCHANGED <<answer, size>>
    /\ UNCHANGED <<content, position, from, str>>

Return ==
    /\ size # -1 /\ ends
    /\ answer' = [size |-> size, line |-> str]
    /\ size' = -1
    /\ UNCHANGED <<content, position, from, str, ends>>

Next == Store \/ StoreEof \/ Return \/ \E s \in Sizes \cup {Unlimited} : Call(s)

Spec == Init /\ [][Next]_vars
------------------------------------------------------------------------------
(***************************************************************************)
(* Properties.                                                             *)
(***************************************************************************)

TypeOK ==
    /\ position \in 0 .. Len(content) /\ from \in 0 .. position
    /\ size \in Sizes \cup {Unlimited, -1} /\ ends \in BOOLEAN

(* Where the line that begins after `start' ends: at its newline, or the   *)
(* end of the content.                                                     *)
LineEnd(start) ==
    LET newlines == {i \in start + 1 .. Len(content) : content[i] = Newline}
    IN  IF newlines = {} THEN Len(content) ELSE Min(newlines)

(* The array is never too small for what is stored and the '\0'.           *)
InBounds == size \in Nat \ {0} => Len(str) < size

(* "Reads up to n-1 consecutive bytes ... NULL if EOF is the first thing   *)
(* read": with room for one byte or more, the call returns as much of the  *)
(* line as fits, and NULL at the end only; FCGI_gets the whole line        *)
(* without its newline.  With no room, nothing is read, and never NULL     *)
(* returned, at the end either.                                            *)
AnswersLine ==
    size = -1 /\ answer # NULL =>
        LET end == LineEnd(from)
            upTo == IF answer.size = Unlimited THEN end ELSE Min({end, from + Max({answer.size - 1, 0})})
        IN /\ position = upTo
           /\ answer.line = IF answer.size = Unlimited /\ from < upTo /\ content[upTo] = Newline
                            THEN SubSeq(content, from + 1, upTo - 1)
                            ELSE SubSeq(content, from + 1, upTo)
           /\ from < Len(content) \/ answer.size \in {0, 1}
NullAtEnd == size = -1 /\ answer = NULL => from = position /\ (position > 0 \/ content = <<>> => AtEnd)

LinesInv == TypeOK /\ InBounds /\ AnswersLine /\ NullAtEnd
==============================================================================
