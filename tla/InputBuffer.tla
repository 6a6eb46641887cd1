---------------------------- MODULE InputBuffer ----------------------------
(***************************************************************************)
(* The buffer a lexer input source reads through (lib/lex/input.cc): the   *)
(* fields of LexInputSource, MemoryLexInputSource and FileLexInputSource as *)
(* one record, and the member functions as operators on it.                *)
(*                                                                         *)
(* buf is what the buffer holds, without its terminating '\0'; a buffer    *)
(* that was not allocated yet (nullptr) behaves as an empty one, so both   *)
(* are <<>>.  pointer and end are offsets from buf.  filled counts the     *)
(* bytes ever put into the buffer: for a file it is the position of fp.    *)
(***************************************************************************)
EXTENDS Integers, Sequences, FiniteSets

CONSTANTS
    Char,   \* the characters of an input
    NL,     \* '\n'
    NUL,    \* '\0': the terminator, and what next() returns at the end
    Chunk   \* BUFFSIZE of FileLexInputSource::fillBuffer

ASSUME CharAssumption == NL \in Char /\ NUL \in Char /\ NL # NUL
ASSUME ChunkAssumption == Chunk \in Nat \ {0}

GetTypes == {"GET_CHAR", "PUSH_BACK", "LOOK_AHEAD"}

Sources ==
    [buf : Seq(Char), pointer : Nat, end : Nat, bufsize : Nat,
     line : Nat, column : Int, lastCol : Int, filled : Nat, eof : BOOLEAN]

NewSource ==
    [buf |-> <<>>, pointer |-> 0, end |-> 0, bufsize |-> 0,
     line |-> 1, column |-> 0, lastCol |-> 1, filled |-> 0, eof |-> FALSE]

(* The character under pointer; the buffer ends in '\0'.                   *)
Peek(s) == IF s.pointer < Len(s.buf) THEN s.buf[s.pointer + 1] ELSE NUL

(***************************************************************************)
(* MemoryLexInputSource::next.  It returns Peek(s) whatever the type.      *)
(***************************************************************************)
AdvanceForgets(s) ==     \* mutant: lastCol is not saved
    IF Peek(s) = NUL THEN s
    ELSE IF Peek(s) = NL
    THEN [s EXCEPT !.pointer = @ + 1, !.line = @ + 1, !.column = 0]
    ELSE [s EXCEPT !.pointer = @ + 1, !.column = @ + 1]
Advance(s) ==
    IF Peek(s) = NUL THEN s
    ELSE IF Peek(s) = NL
    THEN [s EXCEPT !.pointer = @ + 1, !.line = @ + 1,
                   !.lastCol = s.column, !.column = 0]
    ELSE [s EXCEPT !.pointer = @ + 1, !.column = @ + 1]

RetreatUnguarded(s) ==   \* mutant: only an unallocated buffer stops it
    IF s.buf = <<>> THEN s
    ELSE [s EXCEPT !.pointer = @ - 1, !.column = @ - 1]
RetreatInLine(s) ==      \* mutant: the line is not given back
    IF s.pointer = 0 THEN s
    ELSE IF s.buf[s.pointer] # NL
    THEN [s EXCEPT !.pointer = @ - 1, !.column = @ - 1]
    ELSE [s EXCEPT !.pointer = @ - 1, !.column = s.lastCol]
Retreat(s) ==
    IF s.pointer = 0 THEN s
    ELSE IF s.buf[s.pointer] # NL
    THEN [s EXCEPT !.pointer = @ - 1, !.column = @ - 1]
    ELSE IF s.line > 1
    THEN [s EXCEPT !.pointer = @ - 1, !.line = @ - 1, !.column = s.lastCol]
    ELSE [s EXCEPT !.pointer = @ - 1]

MemoryNext(s, type) ==
    CASE type = "GET_CHAR"   -> Advance(s)
      [] type = "PUSH_BACK"  -> Retreat(s)
      [] type = "LOOK_AHEAD" -> s

(***************************************************************************)
(* MemoryLexInputSource::fill.  With the pointer at the start of the       *)
(* buffer the whole of it is kept (bufsize bytes); otherwise the part that *)
(* was consumed is dropped and what lies between pointer and end is kept.  *)
(***************************************************************************)
KeptShort(s) ==          \* mutant: one byte too few is copied
    IF s.pointer = 0 THEN SubSeq(s.buf, 1, s.bufsize)
    ELSE SubSeq(s.buf, s.pointer + 1, s.end - 1)
KeptNothing(s) ==        \* mutant: a used buffer is overwritten
    IF s.pointer = 0 THEN SubSeq(s.buf, 1, s.bufsize) ELSE <<>>
Kept(s) ==
    IF s.pointer = 0 THEN SubSeq(s.buf, 1, s.bufsize)
    ELSE SubSeq(s.buf, s.pointer + 1, s.end)

Fill(s, in) ==
    LET nb == Kept(s) \o in
    IN  [s EXCEPT !.buf = nb, !.pointer = 0, !.end = Len(nb),
                  !.bufsize = Len(nb), !.filled = @ + Len(in)]

(***************************************************************************)
(* FileLexInputSource::fillBuffer.  fread sets the end-of-file indicator   *)
(* only when it returns fewer bytes than it was asked for.                 *)
(***************************************************************************)
ReadLen(content, s) ==
    IF Len(content) - s.filled < Chunk THEN Len(content) - s.filled ELSE Chunk

FillBufferEager(content, s) ==    \* mutant: a full chunk counts as the end
    LET r == ReadLen(content, s)
    IN  [Fill(s, SubSeq(content, s.filled + 1, s.filled + r))
            EXCEPT !.eof = @ \/ r <= Chunk]
FillBuffer(content, s) ==
    LET r == ReadLen(content, s)
    IN  [Fill(s, SubSeq(content, s.filled + 1, s.filled + r))
            EXCEPT !.eof = @ \/ r < Chunk]

(***************************************************************************)
(* FileLexInputSource::next: when the memory buffer answers '\0' and the   *)
(* file has not ended, one more chunk is read and the call is repeated.    *)
(***************************************************************************)
Starved(s) == Peek(s) = NUL /\ ~s.eof

FileNext(content, s, type) ==
    LET m == MemoryNext(s, type)
    IN  IF Starved(s) THEN MemoryNext(FillBuffer(content, m), type) ELSE m

FileCharOnce(content, s, type) == Peek(s)    \* mutant: no second try
FileChar(content, s, type) ==
    IF Starved(s) THEN Peek(FillBuffer(content, MemoryNext(s, type)))
    ELSE Peek(s)

(* How many characters of the stream lie before the pointer, and which one *)
(* comes next ('\0' when there is none).                                   *)
Cursor(s) == s.filled - Len(s.buf) + s.pointer
Upcoming(content, n) == IF n < Len(content) THEN content[n + 1] ELSE NUL

-----------------------------------------------------------------------------
(* What the properties of the sources are made of.  The buffer holds the   *)
(* last part of what was supplied, and the fields that describe its length *)
(* agree with each other.                                                  *)
Mirrors(content, s) ==
    /\ s.pointer <= Len(s.buf)
    /\ s.end = Len(s.buf)
    /\ s.bufsize = Len(s.buf)
    /\ Len(s.buf) <= s.filled
    /\ s.filled <= Len(content)
    /\ \A i \in 1..Len(s.buf) : s.buf[i] = content[s.filled - Len(s.buf) + i]

(* The line of the character after the first n.                            *)
Newlines(content, n) == {i \in 1..n : content[i] = NL}
LineAt(content, n) == 1 + Cardinality(Newlines(content, n))
=============================================================================
