----------------------------- MODULE FcgiPrintf ------------------------------
(***************************************************************************)
(* FCGX_VFPrintF (fcgiapp.c): a format is worked off directive by          *)
(* directive.  A conversion is tried on the fast path, which looks at no   *)
(* flag, width or precision and uses the buffer on the stack; what that    *)
(* path cannot do is tried once more on the slow path, which bounds the    *)
(* text, may read the argument for that, and may allocate a buffer.        *)
(*                                                                         *)
(* A directive is the record of its parts; the text of its argument is     *)
(* the number of characters it takes.                                      *)
(***************************************************************************)
EXTENDS Integers, Sequences, FiniteSetsExt

CONSTANTS
    Formats,            \* the formats considered
    PRINTF_BUFFLEN,     \* the size of the buffer on the stack
    InfinityExps        \* the exponents frexp may give for an infinity

(* The largest exponent of a double.                                       *)
DBL_MAX_EXP == 1024

(* A directive is text, or a conversion whose parts are numbers.  exp is   *)
(* the binary exponent of a float, rounded to the digits of a double, and  *)
(* 0 when negative.  An integer has no more digits than 64 bits have in    *)
(* octal, and a number below 2^exp no more before its point than           *)
(* exp \div 3 and one.  Infinities are left out.                           *)
Part(by, values) == [by : {by}, value : values]
IsDirective(d) ==
    /\ d.length \in Nat
    /\ d.op # "text" =>
          /\ d.flags \in Nat /\ d.exp \in Nat
          /\ d.width \in Part("none", Int) \cup Part("digits", Nat) \cup Part("star", Int)
          /\ d.precision \in Part("none", Int) \cup Part("digits", Nat) \cup Part("star", Int)
          /\ d.op \in {"d", "i", "u", "o", "x", "X", "c", "p"} => d.length <= 22
          /\ d.modifier # "L" => d.exp <= DBL_MAX_EXP
          /\ d.op = "f" => d.length <= 1 + d.exp \div 3

PrintfAssumption ==
    /\ PRINTF_BUFFLEN \in Nat /\ PRINTF_BUFFLEN >= 56
    /\ InfinityExps \in SUBSET Nat /\ InfinityExps # {}
    /\ \A directives \in Formats :
          /\ directives \in Seq({directives[i] : i \in DOMAIN directives})
          /\ \A i \in DOMAIN directives : IsDirective(directives[i])

VARIABLES
    format,       \* the directives
    at,           \* how many of them are done
    stage,        \* "fast", "slow", "convert", "put", "done" or "error"
    slow,         \* ~fastPath
    buffLen, auxBuffLen,
    buffCount,
    arguments,    \* what va_arg has been used for, in order
    streamCount

vars == <<format, at, stage, slow, buffLen, auxBuffLen, buffCount, arguments, streamCount>>

InitWith(directives) ==
    /\ format = directives
    /\ at = 0 /\ stage = "fast" /\ slow = FALSE
    /\ buffLen = PRINTF_BUFFLEN /\ auxBuffLen = 0 /\ buffCount = 0
    /\ arguments = <<>> /\ streamCount = 0

Init == \E directives \in Formats : InitWith(directives)

Directive == format[at + 1]
More == at < Len(format)

Error == stage' = "error" /\ streamCount' = -1

(* An argument: of a directive, for its width, its precision or its value. *)
Argument(of) == <<at + 1, of>>

(* The characters between two conversions go to the stream at once.        *)
Text ==
    /\ stage = "fast" /\ More /\ Directive.op = "text"
    /\ \/ streamCount' = streamCount + Directive.length /\ at' = at + 1 /\ UNCHANGED stage
       \/ Error /\ UNCHANGED at
    /\ UNCHANGED <<format, slow, buffLen, auxBuffLen, buffCount, arguments>>

Plain(d) == d.flags = 0 /\ d.width.by = "none" /\ d.precision.by = "none"

(* Only a conversion without flags, width and precision is done here, and  *)
(* not f, which may need more room.                                        *)
FastOps == {"d", "i", "u", "o", "x", "X", "c", "s", "p", "n", "e", "E", "g", "G", "%"}

Fast ==
    /\ stage = "fast" /\ More /\ Directive.op # "text"
    /\ slow' = ~(Plain(Directive) /\ Directive.op \in FastOps)
    /\ stage' = IF slow' THEN "slow" ELSE "convert"
    /\ buffLen' = PRINTF_BUFFLEN
    /\ UNCHANGED <<format, at, auxBuffLen, buffCount, arguments, streamCount>>

Magnitude(n) == IF n < 0 THEN -n ELSE n

(* More than five flags, and widths and precisions of more than six digits.*)
Unacceptable(d) ==
    \/ d.flags > 5
    \/ d.width.by # "none" /\ Magnitude(d.width.value) > 999999
    \/ d.precision.by # "none" /\ d.precision.value > 999999

MinWidth(d) == IF d.width.by = "none" THEN 0 ELSE d.width.value
Precision(d) == CASE d.precision.by = "none" -> -1
                  [] d.precision.by = "star" /\ d.precision.value < 0 -> 0
                  [] OTHER -> d.precision.value
OrSix(precision) == IF precision = -1 THEN 6 ELSE precision

Integral == {"d", "i", "u", "o", "x", "X", "c", "p"}

(* frexp takes a double: a long double above the largest becomes an        *)
(* infinity, whose exponent is anybody's.                                  *)
TooLarge(d) == d.modifier = "L" /\ d.exp > DBL_MAX_EXP
Frexp(d) == IF TooLarge(d) THEN InfinityExps ELSE {d.exp}

(* A bound for the text of each operation; "f" and "s" look at the         *)
(* argument, "f" at the exponent frexp has found.                          *)
Bound(d, exp) ==
    CASE d.op \in Integral            -> Max({Precision(d), 46})
      [] d.op = "s"                   -> IF Precision(d) = -1 THEN d.length ELSE Min({Precision(d), d.length})
      [] d.op = "f"                   -> OrSix(Precision(d)) + 3 + exp \div 3
      [] d.op \in {"e", "E", "g", "G"} -> OrSix(Precision(d)) + 8

(* Fault: the precision of a float is forgotten.                           *)
BuffReqd_NoPrecision(d, exp) ==
    Max({(IF d.op = "f" THEN 3 + exp \div 3 ELSE Bound(d, exp)) + 10, MinWidth(d)})

(* A star may give a negative width, which asks for no room here, though   *)
(* sprintf takes it for a flag and its magnitude.                          *)
BuffReqd(d, exp) == Max({Bound(d, exp) + 10, MinWidth(d)})

Stars(d) == (IF d.width.by = "star" THEN <<Argument("width")>> ELSE <<>>)
            \o (IF d.precision.by = "star" THEN <<Argument("precision")>> ELSE <<>>)

(* The arguments of s and f are read here already.                         *)
ReadsEarly == {"s", "f"}

(* The slow path: the specifier is scanned, the arguments of its stars are *)
(* read, and a buffer is found that takes the bound.                       *)
Slow ==
    LET d == Directive IN
    /\ stage = "slow"
    /\ IF \/ Unacceptable(d)
          \/ d.op \notin Integral \cup {"s", "f", "e", "E", "g", "G"}
          \/ d.op = "f" /\ d.modifier \notin {" ", "L"}
       THEN Error /\ UNCHANGED <<arguments, auxBuffLen, buffLen>>
       ELSE /\ arguments' = arguments \o Stars(d)
                            \o (IF d.op \in ReadsEarly THEN <<Argument("value")>> ELSE <<>>)
            /\ \E exp \in Frexp(d) :
                  /\ auxBuffLen' = IF BuffReqd(d, exp) <= PRINTF_BUFFLEN THEN auxBuffLen
                                   ELSE Max({auxBuffLen, BuffReqd(d, exp)})
                  /\ buffLen' = IF BuffReqd(d, exp) <= PRINTF_BUFFLEN THEN PRINTF_BUFFLEN ELSE auxBuffLen'
            /\ stage' = "convert"
            /\ UNCHANGED streamCount
    /\ UNCHANGED <<format, at, slow, buffCount>>

(* The size modifiers each operation has.                                  *)
Modifiers(op) ==
    CASE op \in {"d", "i", "u", "o", "x", "X", "n"} -> {" ", "l", "h"}
      [] op \in {"f", "e", "E", "g", "G"}           -> {" ", "L"}
      [] OTHER                                      -> {" "}

(* What sprintf writes: as much as the value takes with its precision,     *)
(* with a sign or prefix, filled up to the width.                          *)
Natural(d) ==
    CASE d.op \in Integral \ {"c", "p"}  -> 2 + Max({Precision(d), d.length})
      [] d.op \in {"c", "p"}             -> d.length
      [] d.op = "s"                      -> IF Precision(d) = -1 THEN d.length ELSE Min({Precision(d), d.length})
      [] d.op = "f"                      -> 2 + d.length + OrSix(Precision(d))
      [] d.op \in {"e", "E", "g", "G"}   -> 8 + OrSix(Precision(d))
Sprintf(d) == Max({Natural(d), Magnitude(MinWidth(d))})

(* The switch over the operations.  A plain s has no buffer but its        *)
(* argument.                                                               *)
Convert ==
    LET d == Directive IN
    /\ stage = "convert"
    /\ IF d.modifier \notin Modifiers(d.op)
       THEN Error /\ UNCHANGED <<arguments, buffCount, buffLen>>
       ELSE /\ arguments' = IF d.op = "%" \/ (slow /\ d.op \in ReadsEarly) THEN arguments
                            ELSE Append(arguments, Argument("value"))
            /\ buffCount' = CASE d.op = "%" -> 1 [] d.op = "n" -> 0 [] OTHER -> Sprintf(d)
            /\ buffLen' = IF d.op = "s" /\ ~slow THEN d.length + 1 ELSE buffLen
            /\ stage' = "put"
            /\ UNCHANGED streamCount
    /\ UNCHANGED <<format, at, slow, auxBuffLen>>

(* The text goes to the stream, which may fail.  One that is longer than   *)
(* its buffer has destroyed what lies behind it: what a call does after    *)
(* that is undefined, and not followed.                                    *)
Put ==
    /\ stage = "put" /\ buffCount <= buffLen
    /\ \/ /\ streamCount' = streamCount + buffCount
          /\ at' = at + 1 /\ stage' = "fast"
       \/ buffCount > 0 /\ Error /\ UNCHANGED at
    /\ UNCHANGED <<format, slow, buffLen, auxBuffLen, buffCount, arguments>>

Return ==
    /\ stage = "fast" /\ ~More
    /\ stage' = "done"
    /\ UNCHANGED <<format, at, slow, buffLen, auxBuffLen, buffCount, arguments, streamCount>>

Next == Text \/ Fast \/ Slow \/ Convert \/ Put \/ Return

Spec == Init /\ [][Next]_vars
------------------------------------------------------------------------------
(***************************************************************************)
(* Properties.                                                             *)
(***************************************************************************)

TypeOK ==
    /\ at \in 0 .. Len(format)
    /\ stage \in {"fast", "slow", "convert", "put", "done", "error"} /\ slow \in BOOLEAN
    /\ buffLen \in Nat /\ auxBuffLen \in Nat /\ buffCount \in Nat
    /\ streamCount \in Nat \cup {-1}

(* The arguments a directive has, as its text says.                        *)
Has(i, of) ==
    LET d == format[i] IN
    CASE of = "width"     -> d.op # "text" /\ d.width.by = "star"
      [] of = "precision" -> d.op # "text" /\ d.precision.by = "star"
      [] of = "value"     -> d.op \notin {"text", "%"}

Order(of) == CASE of = "width" -> 1 [] of = "precision" -> 2 [] of = "value" -> 3
Before(a, b) == a[1] < b[1] \/ (a[1] = b[1] /\ Order(a[2]) < Order(b[2]))

(* Whichever path a conversion takes, and if it takes both, each argument  *)
(* of the format is read once and in its turn: none is skipped, none read  *)
(* for another directive.                                                  *)
ArgumentsInTurn ==
    /\ \A i, j \in DOMAIN arguments : i < j => Before(arguments[i], arguments[j])
    /\ \A i \in DOMAIN arguments : Has(arguments[i][1], arguments[i][2])
    /\ stage # "error" =>
           \A i \in 1 .. at, of \in {"width", "precision", "value"} :
               Has(i, of) => \E j \in DOMAIN arguments : arguments[j] = <<i, of>>

(* The two conversions whose text the slow path does not bound: an %Lf     *)
(* above the largest double ("XXX Need to check for the presence of        *)
(* frexpl()"), and a negative width, given by a star, that the buffer on   *)
(* the stack does not take.                                                *)
Misjudged(d) == (d.op = "f" /\ TooLarge(d)) \/ MinWidth(d) <= -PRINTF_BUFFLEN

(* "ASSERT(buffCount < buffLen)": but for those two, no text is longer     *)
(* than the buffer, whichever directives came before it, and a field that  *)
(* is narrower than the buffer on the stack leaves room for the '\0'.      *)
Fits ==
    stage = "put" /\ ~Misjudged(Directive) =>
        /\ buffCount <= buffLen
        /\ MinWidth(Directive) < PRINTF_BUFFLEN => buffCount < buffLen

(* What is returned without an error is what the directives come to.       *)
TextLength(d) == CASE d.op = "text" -> d.length [] d.op = "%" -> 1 [] d.op = "n" -> 0 [] OTHER -> Sprintf(d)
CountsAll ==
    LET sum[n \in 0 .. Len(format)] ==
            IF n = 0 THEN 0 ELSE sum[n - 1] + TextLength(format[n])
    IN  stage = "done" => streamCount = sum[Len(format)]

PrintfInv == TypeOK /\ ArgumentsInTurn /\ Fits /\ CountsAll
==============================================================================
