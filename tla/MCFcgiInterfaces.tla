---------------------------- MODULE MCFcgiInterfaces ---------------------------
EXTENDS FcgiInterfaces, Integers, Sequences

No == [by |-> "none", value |-> 0]
Given(n) == [by |-> "digits", value |-> n]
Star(n) == [by |-> "star", value |-> n]
Conversion(op, modifier, flags, width, precision, chars, exp) ==
    [op |-> op, modifier |-> modifier, flags |-> flags, width |-> width, precision |-> precision,
     length |-> chars, exp |-> exp]

Directives == {
    [op |-> "text", length |-> 3],
    Conversion("d", " ", 0, No, No, 10, 0),          Conversion("u", "l", 0, No, No, 20, 0),
    Conversion("s", " ", 0, No, No, 120, 0),         Conversion("%", " ", 0, No, No, 1, 0),
    Conversion("n", "h", 0, No, No, 0, 0),           Conversion("e", " ", 0, No, No, 0, 0),
    Conversion("f", " ", 0, No, No, 309, 1024),      Conversion("f", "L", 1, Star(-60), Star(90), 9, 27),
    Conversion("f", " ", 0, Star(99), Star(-1), 1, 0), Conversion("d", "h", 5, Given(40), No, 3, 0),
    Conversion("x", " ", 0, No, Given(200), 8, 0),   Conversion("s", " ", 0, Star(20), Star(7), 120, 0),
    Conversion("s", " ", 1, Given(99), No, 150, 0),  Conversion("g", "L", 0, No, Given(95), 0, 0),
    Conversion("d", " ", 0, Given(150), No, 3, 0),   Conversion("d", " ", 0, Star(-200), No, 3, 0),
    Conversion("f", "L", 0, No, No, 600, 2000),      Conversion("f", "L", 0, Star(-100), Given(300), 309, 1024),
    Conversion("d", " ", 6, No, No, 3, 0),           Conversion("d", " ", 0, Star(1000000), No, 3, 0),
    Conversion("d", "L", 0, No, No, 3, 0),           Conversion("%", " ", 0, Given(5), No, 1, 0),
    Conversion("q", " ", 0, No, No, 0, 0) }

MCFormats == UNION {[1 .. n -> Directives] : n \in 0 .. 3}

(* Contents of the stream of up to five characters.                        *)
MCContents == UNION {[1 .. n -> {"x", "n"}] : n \in 0 .. 5}

(* One name begins another.                                                *)
MCNames == {<<"A">>, <<"A", "B">>, <<"B">>}
MCValues == {<<>>, <<"B">>, <<"=">>}
==============================================================================
