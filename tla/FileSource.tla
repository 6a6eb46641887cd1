----------------------------- MODULE FileSource -----------------------------
(***************************************************************************)
(* A FileLexInputSource (lib/lex/input.cc) in the hands of a client that   *)
(* calls next() with any type, and fillBuffer(), in any order, as the      *)
(* lexer and test/lex/file_input.cc do.                                    *)
(***************************************************************************)
EXTENDS InputBuffer

CONSTANT Inputs     \* the contents the file may have

ASSUME InputsAssumption == Inputs \subseteq Seq(Char)

VARIABLES
    content,  \* the bytes of the open file
    src,      \* the source object
    out,      \* what the last get or look-ahead returned
    undo,     \* the last call got a character
    before    \* where the source stood before the last call

vars == <<content, src, out, undo, before>>

Place(s) == [cursor |-> Cursor(s), line |-> s.line, column |-> s.column]

Init ==
    /\ content \in Inputs
    /\ src = NewSource
    /\ out = NUL
    /\ undo = FALSE
    /\ before = Place(NewSource)

GetChar ==
    /\ src' = FileNext(content, src, "GET_CHAR")
    /\ out' = FileChar(content, src, "GET_CHAR")
    /\ undo' = (out' # NUL)
    /\ before' = Place(src)
    /\ UNCHANGED content

LookAhead ==
    /\ src' = FileNext(content, src, "LOOK_AHEAD")
    /\ out' = FileChar(content, src, "LOOK_AHEAD")
    /\ undo' = FALSE
    /\ before' = Place(src)
    /\ UNCHANGED content

PushBack ==
    /\ src' = FileNext(content, src, "PUSH_BACK")
    /\ undo' = FALSE
    /\ before' = Place(src)
    /\ UNCHANGED <<content, out>>

Refill ==
    /\ src' = FillBuffer(content, src)
    /\ undo' = FALSE
    /\ before' = Place(src)
    /\ UNCHANGED <<content, out>>

Next == GetChar \/ LookAhead \/ PushBack \/ Refill

Spec == Init /\ [][Next]_vars

-----------------------------------------------------------------------------
(* Every variable stays in its type.                                       *)
TypeOK ==
    /\ content \in Seq(Char)
    /\ src \in Sources
    /\ out \in Char
    /\ undo \in BOOLEAN
    /\ before \in [cursor : Int, line : Nat, column : Int]

(* The three ways fill() rebuilds the buffer agree on its length, and what *)
(* the buffer holds is exactly the last part of the file that was read:    *)
(* no byte is lost, repeated or reordered by a refill, wherever the        *)
(* pointer stood when it happened.                                         *)
BufferMirrorsFile == Mirrors(content, src)

(* feof() is only ever true of a file that was read to its end, so that    *)
(* '\0' is never answered for a file with characters left.                 *)
EofMeansAllRead == src.eof => src.filled = Len(content)

(* The line number is one more than the newlines before the cursor,        *)
(* whatever mixture of gets, push-backs, look-aheads and refills led       *)
(* there (Position of every token is taken from it).                       *)
LineExact == src.line = LineAt(content, Cursor(src))

(* A push-back right after a get undoes it: cursor, line and column are    *)
(* those from before the get, also when the character was a newline and    *)
(* when the get itself had to read a new chunk.                            *)
UndoRestores == [][PushBack /\ undo => Place(src') = before]_vars

(* The source implements the abstract character stream.                    *)
Stream == INSTANCE CharStream WITH cursor <- Cursor(src)
StreamSpec == Stream!Spec
=============================================================================
