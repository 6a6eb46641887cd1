---------------------------- MODULE LexerChunks ----------------------------
(***************************************************************************)
(* How the file is cut into chunks is invisible in the tokens: the lexer   *)
(* over a FileLexInputSource does, step by step, what it does when the     *)
(* whole file fits the buffer.  This holds of files that end with a        *)
(* newline; at the end of another file the lexer may push back a '\0' that *)
(* it never consumed, and whether that reads the last character again      *)
(* depends on where the last chunk ended.                                  *)
(***************************************************************************)
EXTENDS LexerProps

CONSTANT WholeChunk     \* larger than any input

ASSUME WholeChunkAssumption ==
    WholeChunk \in Nat /\ \A in \in Inputs : Len(in) < WholeChunk

(* The source with everything in its buffer that stands where src stands.  *)
WholeSrc ==
    IF src = NewSource THEN NewSource
    ELSE [src EXCEPT !.buf = content, !.pointer = Cursor(src),
                     !.end = Len(content), !.bufsize = Len(content),
                     !.filled = Len(content), !.eof = TRUE]

Whole == INSTANCE Lexer WITH Chunk <- WholeChunk, src <- WholeSrc

(* The lexer over chunks implements the lexer over the whole file.         *)
ChunksAreInvisible == Whole!NewLexer /\ [][Whole!Next]_(Whole!vars)
=============================================================================
