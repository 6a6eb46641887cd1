---------------------------- MODULE MemorySource ----------------------------
(***************************************************************************)
(* A MemoryLexInputSource (lib/lex/input.cc): its client supplies the text *)
(* with fill(), before or between calls of next(), as main.cc, the opt     *)
(* tests and test/lex/memory_input.cc do.                                  *)
(***************************************************************************)
EXTENDS InputBuffer

CONSTANTS
    Pieces,   \* what one call of fill() may supply
    MaxTotal  \* bound: the characters supplied in all

ASSUME PiecesAssumption == Pieces \subseteq Seq(Char)
ASSUME MaxTotalAssumption == MaxTotal \in Nat

VARIABLES
    content,  \* everything supplied so far
    src,      \* the source object
    out,      \* what the last get or look-ahead returned
    undo      \* the last call got a character

vars == <<content, src, out, undo>>

Init ==
    /\ content = <<>>
    /\ src = NewSource
    /\ out = NUL
    /\ undo = FALSE

Supply(in) ==
    /\ Len(content) + Len(in) <= MaxTotal
    /\ src' = Fill(src, in)
    /\ content' = content \o in
    /\ undo' = FALSE
    /\ UNCHANGED out

GetChar ==
    /\ src' = MemoryNext(src, "GET_CHAR")
    /\ out' = Peek(src)
    /\ undo' = (out' # NUL)
    /\ UNCHANGED content

LookAhead ==
    /\ src' = MemoryNext(src, "LOOK_AHEAD")
    /\ out' = Peek(src)
    /\ undo' = FALSE
    /\ UNCHANGED content

PushBack ==
    /\ src' = MemoryNext(src, "PUSH_BACK")
    /\ undo' = FALSE
    /\ UNCHANGED <<content, out>>

Next == (\E in \in Pieces : Supply(in)) \/ GetChar \/ LookAhead \/ PushBack

Spec == Init /\ [][Next]_vars

-----------------------------------------------------------------------------
(* Every variable stays in its type.                                       *)
TypeOK ==
    /\ content \in Seq(Char)
    /\ src \in Sources
    /\ out \in Char
    /\ undo \in BOOLEAN

(* Whatever was supplied and not yet got is still in the buffer, in order: *)
(* the characters from the pointer on are the ones from the cursor on, and *)
(* the fields that describe the buffer's length agree with each other.     *)
UnreadIsKept ==
    /\ src.pointer <= Len(src.buf)
    /\ src.end = Len(src.buf)
    /\ src.bufsize = Len(src.buf)
    /\ src.filled = Len(content)
    /\ SubSeq(src.buf, src.pointer + 1, Len(src.buf))
          = SubSeq(content, Cursor(src) + 1, Len(content))

(* The source implements the abstract stream, with fill() as the supply.   *)
Stream == INSTANCE CharStream WITH cursor <- Cursor(src)
StreamSpec == Stream!Spec
=============================================================================
