---------------------------- MODULE FcgiStreambuf ----------------------------
(***************************************************************************)
(* fcgi_streambuf (fcgio.cpp) in front of an FCGX_Stream, which gives      *)
(* characters up to its end or takes them until it returns EOF for one.    *)
(*                                                                         *)
(* std::streambuf keeps a get area eback .. egptr with the next character  *)
(* at gptr and a put area pbase .. pptr; sbumpc, sgetc, sungetc and sputc  *)
(* work in them and call uflow, underflow and overflow when they cannot.   *)
(* Without a buffer every character goes to the FCGX_Stream at once.       *)
(* xsgetn and xsputn are runs of sbumpc and sputc.                         *)
(*                                                                         *)
(* The application stops reading at EOF, does not peek without a buffer    *)
(* (fcgio.h says that does not work) and flushes before it attaches        *)
(* another stream.                                                         *)
(***************************************************************************)
EXTENDS Naturals, Sequences, SequencesExt

CONSTANTS BufferSize,       \* the size of the buffer, when there is one
          Length,           \* the number of characters in each stream that is read
          MaxWrites,        \* bound: characters written to a stream
          MaxStreams,       \* bound: streams attached
          EOF,
          Garbage           \* what an uninitialized or foreign byte reads as

StreambufAssumption ==
    /\ BufferSize \in Nat \ {0} /\ MaxStreams \in Nat \ {0}
    /\ Length \in Nat /\ MaxWrites \in Nat

VARIABLES writes,           \* the FCGX_Streams attached are writers
          stream,           \* which stream is attached
          bufsize,          \* 0: no buffer
          destroyed,        \* the streambuf has been destroyed
          fetched,          \* how many characters FCGX_GetStr and GetChar gave
          buf, gptr, egptr, \* the get area; pointers are offsets from eback
          removed,          \* how many characters the application removed from it
          result,           \* what the last call returned
          expected,         \* what it should have returned
          area,             \* the put area, pbase .. pptr
          taken,            \* the characters the FCGX_Stream took
          failed,           \* it has returned EOF for a character
          written,          \* characters the application has written with success
          synced            \* what `written' was when sync last returned 0

object == <<writes, stream, bufsize, destroyed>>
get == <<fetched, buf, gptr, egptr, removed, result, expected>>
put == <<area, taken, failed, written, synced>>
vars == <<object, get, put>>

Smaller(m, n) == IF m < n THEN m ELSE n

\* The i-th character of stream s is <<s, i>>; after n of them comes this.
After(n) == IF n < Length THEN <<stream, n + 1>> ELSE EOF

Init ==
    /\ writes \in BOOLEAN
    /\ stream = 1 /\ bufsize \in {0, BufferSize} /\ destroyed = FALSE
    /\ fetched = 0 /\ buf = [i \in 0 .. BufferSize - 1 |-> Garbage]
    /\ gptr = 0 /\ egptr = 0
    /\ removed = 0 /\ result = Garbage /\ expected = Garbage
    /\ area = <<>> /\ taken = <<>> /\ failed = FALSE
    /\ written = 0 /\ synced = 0
-----------------------------------------------------------------------------
(* Reading.                                                                 *)

MayRead == ~writes /\ ~destroyed /\ result # EOF
MayWrite == writes /\ ~destroyed

\* What FCGX_GetStr leaves in the buffer when it returns n characters.
Filled(n) == [i \in 0 .. BufferSize - 1 |-> IF i < n THEN <<stream, fetched + i + 1>> ELSE buf[i]]

\* underflow when the get area is used up, then bump steps of gptr (uflow: 1);
\* at the end of the stream the area stays as it is.
Refill(bump) ==
    LET glen == Smaller(BufferSize, Length - fetched)
    IN  /\ gptr = egptr
        /\ \/ /\ glen > 0
              /\ buf' = Filled(glen)
              /\ fetched' = fetched + glen
              /\ egptr' = glen /\ gptr' = bump
              /\ result' = Filled(glen)[0]
           \/ /\ glen = 0
              /\ gptr' = gptr + bump
              /\ result' = EOF
              /\ UNCHANGED <<buf, fetched, egptr>>

Underflow(bump) ==
    \/ Refill(bump)
    \/ /\ gptr # egptr
       /\ gptr' = gptr + bump
       /\ result' = buf[gptr]
       /\ UNCHANGED <<buf, fetched, egptr>>

\* Without a buffer uflow is FCGX_GetChar.
GetChar ==
    /\ result' = After(fetched)
    /\ fetched' = Smaller(fetched + 1, Length)
    /\ UNCHANGED <<buf, gptr, egptr>>

\* sbumpc: the next character is removed and returned.
Sbumpc ==
    /\ MayRead
    /\ IF bufsize = 0 THEN GetChar ELSE Underflow(1)
    /\ expected' = After(removed)
    /\ removed' = Smaller(removed + 1, Length)
    /\ UNCHANGED <<object, put>>

\* sgetc (peek): the next character is returned and stays.
Sgetc ==
    /\ MayRead
    /\ bufsize # 0
    /\ Underflow(0)
    /\ expected' = After(removed)
    /\ UNCHANGED <<object, removed, put>>

\* sungetc: back to the character before, while it is in the area.
Sungetc ==
    /\ MayRead
    /\ gptr > 0
    /\ gptr' = gptr - 1
    /\ result' = buf[gptr - 1]
    /\ expected' = After(removed - 1)
    /\ removed' = removed - 1
    /\ UNCHANGED <<object, fetched, buf, egptr, put>>
-----------------------------------------------------------------------------
(* Writing.  The application's characters are the numbers from 1, in the    *)
(* order it writes them to the stream attached.                             *)

\* overflow(c) with c of no or one character: the area goes first, and is
\* given up only if the stream took all of it.
OverflowDone(c) ==
    /\ ~failed \/ area \o c = <<>>
    /\ taken' = taken \o area \o c
    /\ area' = <<>>
    /\ UNCHANGED failed

\* It returns EOF: the stream failed before; or fails with a first part of
\* the area taken; or takes the area and not the character.
OverflowFails(c) ==
    /\ failed' = TRUE
    /\ \/ /\ failed
          /\ area \o c # <<>>
          /\ UNCHANGED <<area, taken>>
       \/ /\ ~failed
          /\ \E n \in 0 .. Len(area) - 1 : taken' = taken \o SubSeq(area, 1, n)
          /\ UNCHANGED area
       \/ /\ ~failed
          /\ c # <<>>
          /\ taken' = taken \o area
          /\ area' = <<>>

\* sputc of the next character: into the area while there is room, else
\* through overflow.
Store ==
    /\ Len(area) < bufsize
    /\ area' = Append(area, written + 1)
    /\ written' = written + 1
    /\ UNCHANGED <<taken, failed>>

Sputc ==
    /\ MayWrite
    /\ written < MaxWrites
    /\ \/ Store
       \/ /\ Len(area) = bufsize
          /\ \/ OverflowDone(<<written + 1>>) /\ written' = written + 1
             \/ OverflowFails(<<written + 1>>) /\ UNCHANGED written
    /\ UNCHANGED <<object, synced, get>>

\* sync: overflow, then FCGX_FFlush, which may fail and leaves a stream that
\* may still take what fits in its buffer.
Sync ==
    /\ MayWrite
    /\ \/ OverflowDone(<<>>) /\ synced' \in {synced, written}
       \/ OverflowFails(<<>>) /\ UNCHANGED synced
    /\ UNCHANGED <<object, written, get>>
-----------------------------------------------------------------------------
(* Both.                                                                    *)

\* setbuf: a buffer for a streambuf that has none; refused otherwise.
Setbuf ==
    /\ ~destroyed
    /\ bufsize = 0
    /\ bufsize' = BufferSize
    /\ gptr' = 0 /\ egptr' = 0 /\ area' = <<>>
    /\ UNCHANGED <<writes, stream, destroyed, fetched, buf, removed, result, expected,
                   taken, failed, written, synced>>

\* attach: the stream of the next request; the areas are emptied.
NewStream ==
    /\ ~destroyed
    /\ stream < MaxStreams
    /\ area = <<>> \/ failed
    /\ stream' = stream + 1
    /\ fetched' = 0 /\ removed' = 0 /\ result' = Garbage /\ expected' = Garbage
    /\ taken' = <<>> /\ failed' = FALSE /\ written' = 0 /\ synced' = 0
    /\ UNCHANGED <<writes, bufsize, destroyed, buf>>

Attach_NoReset == NewStream /\ UNCHANGED <<gptr, egptr, area>>
Attach == NewStream /\ gptr' = 0 /\ egptr' = 0 /\ area' = <<>>

\* The destructor calls overflow and leaves the rest to FCGX_Finish.
Destroy ==
    /\ ~destroyed
    /\ destroyed' = TRUE
    /\ OverflowDone(<<>>) \/ OverflowFails(<<>>)
    /\ UNCHANGED <<writes, stream, bufsize, written, synced, get>>

Next == Sbumpc \/ Sgetc \/ Sungetc \/ Sputc \/ Sync \/ Setbuf \/ Attach \/ Destroy

Spec == Init /\ [][Next]_vars
-----------------------------------------------------------------------------
\* Every variable has its type; without a buffer the areas stay empty.
TypeOK ==
    /\ writes \in BOOLEAN /\ destroyed \in BOOLEAN /\ failed \in BOOLEAN
    /\ stream \in 1 .. MaxStreams /\ bufsize \in {0, BufferSize}
    /\ fetched \in 0 .. Length /\ removed \in 0 .. Length
    /\ gptr \in 0 .. BufferSize + 1 /\ egptr \in 0 .. bufsize
    /\ area \in Seq(1 .. MaxWrites) /\ Len(area) <= bufsize
    /\ taken \in Seq(1 .. MaxWrites)
    /\ written \in 0 .. MaxWrites /\ synced \in 0 .. written

ReadsNext == result = expected

(* However reads, peeks, ungets, a new buffer and a new stream follow one  *)
(* another, each returns the character that is next in the stream          *)
(* attached, or EOF after the last: none is lost, repeated or made up.     *)
(* (underflow, uflow, reset.)                                              *)
ReadInOrder == TypeOK /\ ReadsNext

UpTo(n) == [i \in 1 .. n |-> i]

TakenInOrder ==
    /\ IsPrefix(taken, UpTo(written))
    /\ ~failed => taken \o area = UpTo(written)

NothingLeft ==
    /\ IsPrefix(UpTo(synced), taken)
    /\ destroyed /\ ~failed => taken = UpTo(written)

(* The stream takes the application's characters in the order they were    *)
(* written, each once, whether or not there is a buffer and when it fails  *)
(* in the middle of one; until it fails, what it has not taken is in the   *)
(* put area.  A sync that returned 0, and the destructor of a streambuf    *)
(* whose stream has not failed, leave no character behind.  (overflow,     *)
(* sync, ~fcgi_streambuf.)                                                 *)
WrittenInOrder == TakenInOrder /\ NothingLeft
=============================================================================
