------------------------------- MODULE MCLexer -------------------------------
(***************************************************************************)
(* Small instances of the lexer: a file is a few pieces put together, and  *)
(* each run has the pieces its question needs.                             *)
(***************************************************************************)
EXTENDS LexerChunks

CONSTANT MaxPieces

MCLetter == {"d", "o", "u", "b", "l", "e", "i", "f", "x"}
MCDigit == {"0", "1"}
MCKeywords == {<<"d", "o">>, <<"d", "o", "u", "b", "l", "e">>, <<"i", "f">>}
MCChar == MCLetter \cup MCDigit \cup Blank \cup LineBreak \cup Single \cup Starter
            \cup {"_", "#", "\"", "'", "\\", "@", NUL, Byte255}

(* Every file of at most n pieces, with a newline at its end.              *)
Files(pieces, n) == {FlattenSeq(ps) \o <<NL>> : ps \in BoundedSeq(pieces, n)}
One(chars) == {<<c>> : c \in chars}

Words == One({"d", "o", "i", "f", "x", "_", "1", " ", ";"})
            \cup {<<"d", "o", "u", "b", "l">>, <<"e">>, <<NL>>}
Operators == One({"<", ">", "=", ".", "-", "/", "!", "&", "x", "@", NL})
InStrings == One({"\"", "\\", "x", " ", NL})
Strings == InStrings \cup One({"#", Byte255})
Mixed == One({"\"", "'", "#", "\r", NL, Byte255})
            \cup {<<"i", "f">>, <<"d", "o">>, <<"1", ".">>, <<"<", "<">>,
                 <<"\"", "\\", "\"", "\"", " ">>}

(* Strings that are cut at a newline, a backslash, a quote and a letter.   *)
Cuts == {<<"\"", "x", "x", "x", c, "#", "\"", NL>> : c \in {NL, "\\", "\"", "x"}}
            \cup {<<"\"", "x", "x", "x", NL>>,
                  <<"\"", "x", "x", "x", "\\", "\"", " ", "\"", "#", "\"", NL>>}

(* A string of four pieces begins the file or stands behind one character. *)
Texts == Files(Words, MaxPieces) \cup Files(Operators, MaxPieces)
            \cup Files(Mixed, MaxPieces) \cup Files(Strings, MaxPieces)
            \cup {<<"\"">> \o file : file \in Files(InStrings, MaxPieces + 1)}
            \cup {<<c, "\"">> \o file : c \in {"x", NL},
                                     file \in Files(InStrings, MaxPieces)}
            \cup Cuts

SwallowTexts == {<<"x", c, "x", NL>> : c \in {"+", "<", "&"}}
=============================================================================
