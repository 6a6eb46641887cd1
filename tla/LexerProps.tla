----------------------------- MODULE LexerProps -----------------------------
(***************************************************************************)
(* What is checked of Lexer: the tokens against the characters they were   *)
(* made from.  The flex scanner of the tests (test/flex_bison/misc/flex.l) *)
(* says what the tokens of a text are; test/flex_bison/lex.cc compares the *)
(* two lexers token by token and line by line.                             *)
(***************************************************************************)
EXTENDS Lexer, SequencesExt

Pcs == {"blank", "first", "resynch", "letter", "identifier", "number", "operator",
        "operator3", "string", "strtail", "char", "done", "exited", "crashed"}

(* Every variable stays in its type.                                       *)
TypeOK ==
    /\ content \in Seq(Char)
    /\ src \in Sources
    /\ pc \in Pcs
    /\ tmp \in Seq(Char)
    /\ count \in 0..StringMax
    /\ start \in Nat
    /\ tok \in Tokens
    /\ errors \subseteq {"LE01", "LE02", "LE05", "LE07", "LE08"}

CharAt(i) == IF i \in 1..Len(content) THEN content[i] ELSE NUL
Spelling(t) == SubSeq(content, t.from + 1, t.to)

(* The column is the distance from the last newline.  The source remembers *)
(* one column only (lastCol), so this rests on the lexer never pushing     *)
(* back more than the one character it just got.                           *)
ColumnExact ==
    LET lineStart == Cursor(src) - src.column
    IN  /\ lineStart \in 0..Cursor(src)
        /\ lineStart = 0 \/ CharAt(lineStart) = NL
        /\ \A i \in lineStart + 1..Cursor(src) : CharAt(i) # NL

(* A word ends where the letters, digits and underscores end, on both      *)
(* sides of a chunk boundary too: flex.l's {L}({L}|{D})*.  The one word     *)
(* that may end before an underscore is the keyword do.                    *)
WordsMaximal ==
    tok.kind \in {"key", "id"} =>
        CharAt(tok.to + 1) \notin (IF tok.text = DoWord THEN Alnum ELSE WordChar)

(* A word is a keyword token exactly if it is one of the keywords, however *)
(* far the keyword switches followed it before they gave up.               *)
KeywordsRecognised ==
    /\ tok.kind = "key" => tok.text \in Keywords
    /\ tok.kind = "id" => tok.text \notin Keywords

(* The words of a text are flex.l's words, and the keywords its keywords.   *)
WordsExact == WordsMaximal /\ KeywordsRecognised

(* An operator token is the longest operator that starts where it starts:  *)
(* flex.l's rule.                                                          *)
OperatorsLongest ==
    tok.kind = "op" /\ tok.text # <<>> =>
        \A op \in Double \cup Triple :
            (\A i \in 1..Len(op) : op[i] = CharAt(tok.from + i))
                => Len(op) <= Len(tok.text)

(* A token is spelled as the file spells it.  The only characters that are *)
(* lost are the one after a one-character < > / or =, and the second of    *)
(* two periods (whose default branches keep what they got).                *)
SpelledOut ==
    tok.kind \in {"key", "id", "number", "op"} /\ tok.text # <<>> =>
        \/ tok.text = Spelling(tok)
        \/ /\ tok.text \in {<<c>> : c \in NoPushBack \cup {"."}}
           /\ tok.to = tok.from + 2
           /\ tok.text[1] = CharAt(tok.from + 1)

(* Nothing but blanks, line breaks and lines that begin with '#' lies      *)
(* between a token and the next, and no token is made twice of the same    *)
(* characters (in a file that ends with a newline).                        *)
InDirective(i, from) ==
    \E h \in from + 1..i : /\ content[h] = "#"
                           /\ \A j \in h..i - 1 : content[j] # NL
TokensInOrder ==
    [][tok' # tok =>
         /\ tok.to <= tok'.from /\ tok'.from < tok'.to
         /\ \A i \in tok.to + 1..tok'.from :
               \/ content[i] \in Blank \cup LineBreak \cup {Byte255}
               \/ InDirective(i, tok.to)]_vars

(* A word, number or operator that kept all its characters is reported on  *)
(* the line it stands on: randomLexer compares the lines.                  *)
TokenOnItsLine ==
    tok.kind \in {"key", "id", "number", "op"} /\ tok.text = Spelling(tok) =>
        tok.line = LineAt(content, tok.from)

(* Line and column are those of the text, for the cursor and for tokens.   *)
PlaceExact == ColumnExact /\ TokenOnItsLine

(* What flex.l takes a run of string literals to be: \\(\\.|[^\\\\"\\n])* between *)
(* quotes, what lies between the literals left out, a newline ending one.  *)
(* FlexFrom(c, from)[n] is where it is n characters behind from.           *)
FlexStep(st, c) ==
    IF ~st.in THEN [in |-> c = Quote, escaped |-> FALSE, text |-> st.text]
    ELSE IF ~st.escaped /\ c \in {Quote, NL}
    THEN [in |-> FALSE, escaped |-> FALSE, text |-> st.text]
    ELSE [in |-> TRUE, escaped |-> ~st.escaped /\ c = Backslash, text |-> Append(st.text, c)]
FlexBegins == [in |-> FALSE, escaped |-> FALSE, text |-> <<>>]
FlexFrom(c, from) ==
    LET st[n \in Nat] == IF n = 0 THEN FlexBegins
                         ELSE FlexStep(st[n - 1], Upcoming(c, from + n - 1))
    IN  st
FlexText(t) == FlexFrom(content, t.from)[t.to - t.from].text

Adjacent(t, c, d) ==
    \E i \in t.from + 1..t.to - 1 : content[i] = c /\ content[i + 1] = d

(* A string token that was not cut (LE07) holds the text of its literals,  *)
(* joined: no character of it is lost or repeated when a quote is escaped, *)
(* when a look-ahead meets the end of a chunk, when a newline ends it or   *)
(* when blanks stand before the next literal.  (A backslash before another *)
(* one escapes the quote after it all the same, and one before a newline   *)
(* does not keep the string open: such strings differ, and are left out.)  *)
StringText ==
    /\ tok.kind = "string" /\ "LE07" \notin errors
    /\ ~Adjacent(tok, Backslash, Backslash) /\ ~Adjacent(tok, Backslash, NL)
    => tok.text = FlexText(tok)

(* A cut string keeps its end: "string too long, cut the front" (LE07).    *)
(* (The character the cut falls on is not looked at: a backslash escapes   *)
(* nothing there and a newline does not end the string, so that strings    *)
(* with escaped quotes or newlines are left out.)                          *)
CutKeepsTheEnd ==
    /\ tok.kind = "string"
    /\ ~Adjacent(tok, Backslash, Backslash) /\ ~Adjacent(tok, Backslash, Quote)
    /\ \A i \in tok.from + 1..tok.to : content[i] # NL
    => IsSuffix(tok.text, FlexText(tok))

(* The text of a string token is that of its literals, or their end.       *)
StringsExact == StringText /\ CutKeepsTheEnd

(* The client reaches the end of every file that ends with a newline,      *)
(* unless a string is cut at the newline that should end it: the next      *)
(* quote may be missing then, and the lexer reads '\0' for ever.           *)
CutAtNewline == pc = "string" /\ count = StringMax /\ Got = NL
EndIsReached == []~CutAtNewline => <>(pc \in Stopped)

(* Why it is reached: a step takes a character, or takes none and gets     *)
(* closer to the end of a token.  The one exception is a string that is    *)
(* open at the end of the file.                                            *)
Rank == CASE pc \in Stopped -> 0
          [] pc = "number" /\ tmp = <<>> -> 1
          [] pc = "first" -> 2
          [] pc = "blank" -> 3
          [] OTHER -> 4
OpenAtEnd == pc = "string" /\ Got = NUL
EndComesNearer ==
    [][\/ OpenAtEnd
       \/ Cursor(src) < Cursor(src')
       \/ Cursor(src') = Cursor(src) /\ Rank' < Rank]_vars

(* And a string is open at the end only after a cut at its newline.        *)
OpenOnlyByCut == []~CutAtNewline => []~OpenAtEnd

-----------------------------------------------------------------------------
(* What the repository says of the program and the code does not do.       *)

(* flex.l:127-128: "<" and ">" end after that character, and the next      *)
(* token begins with the one after it.                                     *)
NoCharacterSwallowed ==
    tok.kind = "op" /\ tok.text # <<>> => tok.text = Spelling(tok)
=============================================================================
