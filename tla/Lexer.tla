------------------------------- MODULE Lexer -------------------------------
(***************************************************************************)
(* The hand-written lexer (lib/lex/lex.cc) reading a file through the      *)
(* buffer of InputBuffer, under a client that calls getNextToken() until   *)
(* it answers T_NONE (LexOutput::output, the parser).                      *)
(*                                                                         *)
(* A step is one character got, with the push-back or look-ahead that      *)
(* belongs to it; pc names the loop or switch the lexer is in.  The value  *)
(* of a number is not computed here: a number token carries its spelling.  *)
(* Words and numbers are assumed to fit tmpBuffer.                         *)
(***************************************************************************)
EXTENDS InputBuffer

CONSTANTS
    Letter, Digit,  \* the letters and digits that occur
    Keywords,       \* the keywords, as sequences of letters
    Byte255,        \* the byte that compares equal to EOF as a char
    StringMax,      \* TMPBUFFER_SIZE, as parseString uses it
    Inputs          \* the contents the file may have

ASSUME KeywordsAssumption ==
    /\ Keywords \subseteq Seq(Letter) /\ <<"d", "o">> \in Keywords
    /\ \A k \in Keywords : Len(k) > 1
ASSUME InputsAssumption == Inputs \subseteq Seq(Char)
ASSUME StringMaxAssumption == StringMax \in Nat \ {0}

VARIABLES
    content,  \* the bytes of the open file
    src,      \* the source object
    pc,       \* where the lexer is
    tmp,      \* tmpBuffer up to the writing position
    count,    \* lengthCount of parseString
    start,    \* how many characters precede the token being read
    tok,      \* the last token returned
    errors    \* the errors reported so far

vars == <<content, src, pc, tmp, count, start, tok, errors>>

Alnum == Letter \cup Digit
WordChar == Alnum \cup {"_"}  \* what may stand in an identifier
Blank == {" ", "\t"}
LineBreak == {NL, "\r"}     \* "\r" stands for '\r', '\v' and '\f'

(* Operators of one character that begin no longer one, and of two that do *)
(* not begin one of three; the three-character ones; and the characters    *)
(* that begin an operator of several characters.                           *)
Single == {"~", "?", "(", ")", "[", "]", "{", "}", ",", ";", ":"}
Double == {<<"!", "=">>, <<"%", "=">>, <<"^", "=">>, <<"&", "&">>, <<"&", "=">>,
           <<"*", "=">>, <<"+", "=">>, <<"+", "+">>, <<"-", "=">>, <<"-", "-">>,
           <<"-", ">">>, <<"|", "=">>, <<"|", "|">>, <<"<", "=">>, <<">", "=">>,
           <<"/", "=">>, <<"=", "=">>}
Triple == {<<".", ".", ".">>, <<"<", "<", "=">>, <<">", ">", "=">>}
Starter == {op[1] : op \in Double \cup Triple}

(* The default branches of these operators have no getNextChar(BACK).      *)
NoPushBack == {"<", ">", "/", "="}

(* The end of a line and the end of the file are in no word and no         *)
(* operator, and begin no directive and no string; '_' is no letter.       *)
ASSUME AlphabetAssumption ==
    /\ {NL, NUL} \cap (WordChar \cup Single \cup {"#"}) = {}
    /\ "_" \notin Letter
    /\ \A op \in Double \cup Triple : \A i \in DOMAIN op : op[i] \notin {NL, NUL}

Quote == "\""
Backslash == "\\"
ASSUME QuoteAssumption == {NL, NUL} \cap {Quote, Backslash} = {}

(* '\0' is nothing else, and an apostrophe is no newline.                  *)
ASSUME EndAssumption == NUL \notin Blank \cup LineBreak \cup {Byte255, "'"} /\ NL # "'"

DoWord == <<"d", "o">>
KeywordPrefixShort(t) == \E k \in Keywords :     \* mutant: off by one
                            Len(t) + 1 < Len(k) /\ t = SubSeq(k, 1, Len(t))
KeywordPrefix(t) == \E k \in Keywords :
                        Len(t) < Len(k) /\ t = SubSeq(k, 1, Len(t))
KeywordInitial == {k[1] : k \in Keywords}

(* The one keyword of C that begins another is do.                         *)
ASSUME PrefixAssumption == \A k \in Keywords \ {DoWord} : ~KeywordPrefix(k)

Kinds == {"key", "id", "number", "string", "op", "none"}
Tokens == [kind : Kinds, text : Seq(Char), from : Nat, to : Nat,
           line : Nat, column : Int]
NoToken == [kind |-> "none", text |-> <<>>, from |-> 0, to |-> 0,
            line |-> 0, column |-> 0]

-----------------------------------------------------------------------------
(* getNextChar on the source: the character got, the source after getting  *)
(* it, after pushing it back again, and after looking ahead from s.        *)
Got == FileChar(content, src, "GET_CHAR")
After == FileNext(content, src, "GET_CHAR")
Undone == FileNext(content, After, "PUSH_BACK")
AheadChar(s) == FileChar(content, s, "LOOK_AHEAD")
AheadSrcTakes(s) == FileNext(content, s, "GET_CHAR")    \* mutant
AheadSrc(s) == FileNext(content, s, "LOOK_AHEAD")

(* CHECK_NEXT: it looks ahead a second time when the first look finds      *)
(* neither a letter nor a digit.                                           *)
WordEndsAlnum(s) == AheadChar(s) \notin Alnum     \* mutant: '_' not looked for
WordEnds(s) == AheadChar(s) \notin Alnum /\ AheadChar(AheadSrc(s)) # "_"
WordEndsSrc(s) == IF AheadChar(s) \in Alnum THEN AheadSrc(s)
                  ELSE AheadSrc(AheadSrc(s))

(* A token is returned: its position is the source's at that moment.  The  *)
(* client asks for the next one, and getNextToken() starts with skipBlank. *)
Return(kind, text, s) ==
    /\ src' = s
    /\ tok' = [kind |-> kind, text |-> text, from |-> start, to |-> Cursor(s),
               line |-> s.line, column |-> s.column]
    /\ pc' = "blank"
    /\ tmp' = <<>>
    /\ UNCHANGED <<content, count, start, errors>>

(* The lexer moves on inside a token, with t in tmpBuffer.                 *)
Continue(where, t, s) ==
    /\ src' = s
    /\ pc' = where
    /\ tmp' = t
    /\ UNCHANGED <<content, count, start, tok, errors>>

-----------------------------------------------------------------------------
NewLexer ==
    /\ src = NewSource
    /\ pc = "blank"
    /\ tmp = <<>>
    /\ count = 0
    /\ start = 0
    /\ tok = NoToken
    /\ errors = {}

Init == content \in Inputs /\ NewLexer

(* skipBlank at the head of getNextToken().                                *)
SkipBlankGreedy ==    \* mutant: what is not blank is not pushed back
    /\ pc = "blank"
    /\ \/ Got \in Blank /\ Continue("blank", <<>>, After)
       \/ Got \notin Blank /\ Continue("first", <<>>, After)
SkipBlank ==
    /\ pc = "blank"
    /\ \/ Got \in Blank /\ Continue("blank", <<>>, After)
       \/ Got = NUL /\ Continue("first", <<>>, After)
       \/ Got \notin Blank \cup {NUL} /\ Continue("first", <<>>, Undone)

(* The switch of getNextToken() on the first character.                    *)
Dispatch(where, t, s) ==
    /\ src' = s
    /\ pc' = where
    /\ tmp' = t
    /\ start' = Cursor(src)
    /\ count' = 0
    /\ UNCHANGED <<content, tok, errors>>

FirstChar ==
    /\ pc = "first"
    /\ \/ /\ Got \in LineBreak \cup {Byte255}
          /\ Dispatch("blank", <<>>, After)
       \/ /\ Got = "#"
          /\ Dispatch("resynch", <<>>, After)
       \/ /\ Got \in Digit
          /\ Dispatch("number", <<>>, Undone)
       \/ /\ Got \in KeywordInitial
          /\ Dispatch("letter", <<Got>>, After)
       \/ /\ Got \in (Letter \ KeywordInitial) \cup {"_"}
          /\ Dispatch("identifier", <<Got>>, After)
       \/ /\ Got = Quote
          /\ Dispatch("string", <<>>, After)
       \/ /\ Got = "'"
          /\ Dispatch("char", <<>>, After)
       \/ /\ Got = NUL
          /\ Dispatch("done", <<>>, After)
       \/ /\ Got \in Single \cup Starter
          /\ Dispatch("operator", <<Got>>, After)

(* The default of operators(): an unknown character is reported (LE05) and *)
(* still answered with an operator token, OP_NONE.                         *)
Known == Alnum \cup Blank \cup LineBreak \cup Single \cup Starter
            \cup {"_", "#", Quote, "'", NUL, Byte255}

IllegalChar ==
    /\ pc = "first"
    /\ Got \notin Known
    /\ src' = After
    /\ tok' = [kind |-> "op", text |-> <<>>, from |-> Cursor(src),
               to |-> Cursor(After), line |-> After.line, column |-> After.column]
    /\ pc' = "blank"
    /\ tmp' = <<>>
    /\ start' = Cursor(src)
    /\ errors' = errors \cup {"LE05"}
    /\ UNCHANGED <<content, count>>

(* resynch(): the rest of a line that begins with '#' is dropped.          *)
ResynchToReturn ==    \* mutant: only a carriage return ends the line
    /\ pc = "resynch"
    /\ Continue(IF Got = "\r" THEN "blank" ELSE "resynch", <<>>, After)
Resynch ==
    /\ pc = "resynch"
    /\ \/ Got = NL /\ Continue("blank", <<>>, After)
       \/ Got # NL /\ Continue("resynch", <<>>, After)

(***************************************************************************)
(* letter(): the switches follow the keywords letter by letter.  The last  *)
(* letter of a keyword makes one if the word ends there (CHECK_NEXT); "do" *)
(* has no such check, as it may go on to be "double": the character after  *)
(* it is got, and pushed back unless it is a letter or a digit.  A word    *)
(* that leaves the keywords goes on in identifier() with the character     *)
(* that was got last, which that function pushes back unless it is '\0'.   *)
(***************************************************************************)
LeaveKeywordsTaking(t) ==    \* mutant: what ends the word is not pushed back
    IF Got \in WordChar THEN Continue("identifier", t, After)
    ELSE Return("id", tmp, After)
LeaveKeywords(t) ==
    IF Got \in WordChar THEN Continue("identifier", t, After)
    ELSE Return("id", tmp, IF Got = NUL THEN After ELSE Undone)

Letters == Append(tmp, Got)
DoEnds == tmp = DoWord /\ Got \notin Alnum

KeywordGoesOn ==
    /\ pc = "letter"
    /\ KeywordPrefix(Letters) \/ Letters = DoWord
    /\ Continue("letter", Letters, After)

DoKeyword ==
    /\ pc = "letter" /\ DoEnds
    /\ Return("key", DoWord, Undone)

KeywordEnds ==
    /\ pc = "letter" /\ Letters \in Keywords \ {DoWord}
    /\ \/ WordEnds(After) /\ Return("key", Letters, WordEndsSrc(After))
       \/ ~WordEnds(After) /\ Continue("identifier", Letters, WordEndsSrc(After))

NoKeyword ==
    /\ pc = "letter" /\ ~DoEnds
    /\ ~KeywordPrefix(Letters) /\ Letters \notin Keywords
    /\ LeaveKeywords(Letters)

(* identifier().                                                           *)
IdentifierChar ==
    /\ pc = "identifier"
    /\ LeaveKeywords(Append(tmp, Got))

(* number() and getBufferUntilSp(): '.', '+' and '-' are part of a number  *)
(* wherever they stand, and what ends it is pushed back, even '\0'.        *)
NumberChar == Alnum \cup {".", "+", "-"}

NumberStep ==
    /\ pc = "number"
    /\ \/ Got \in NumberChar /\ Continue("number", Append(tmp, Got), After)
       \/ Got \notin NumberChar /\ Return("number", tmp, Undone)

(* operators(): the second and the third character.                        *)
OperatorStep ==
    LET op == Append(tmp, Got)
    IN  \/ /\ pc = "operator" /\ tmp[1] \in Single
           /\ Return("op", tmp, src)
        \/ /\ pc = "operator" /\ tmp[1] \in Starter
           /\ \/ op \in Double /\ Return("op", op, After)
              \/ /\ \E t \in Triple : op = SubSeq(t, 1, 2)
                 /\ Continue("operator3", op, After)
              \/ /\ op \notin Double /\ \A t \in Triple : op # SubSeq(t, 1, 2)
                 /\ Return("op", tmp, IF tmp[1] \in NoPushBack THEN After
                                      ELSE Undone)

ThirdCharBack ==    \* mutant: the third character is always pushed back
    /\ pc = "operator3"
    /\ Return("op", IF tmp = <<".", ".">> THEN <<".">> ELSE tmp, Undone)
ThirdChar ==
    LET op == Append(tmp, Got)
    IN  /\ pc = "operator3"
        /\ \/ op \in Triple /\ Return("op", op, After)
           \/ /\ op \notin Triple
              /\ Return("op", IF tmp = <<".", ".">> THEN <<".">> ELSE tmp, Undone)

(***************************************************************************)
(* parseString(): one turn of the loop.  lengthCount counts turns; when it *)
(* reaches the size of tmpBuffer the text so far is dropped with the       *)
(* character that was just got, whatever it is (LE07, reported once).      *)
(***************************************************************************)
InStringCounting(t, n, s, errs) ==    \* mutant: lengthCount is not reset
    /\ src' = s
    /\ tmp' = t
    /\ count' = count + 1
    /\ errors' = errors \cup errs
    /\ UNCHANGED <<content, pc, start, tok>>
InStringUncut(t, n, s, errs) ==    \* mutant: tp is not reset
    /\ src' = s
    /\ tmp' = IF errs = {} THEN t ELSE tmp
    /\ count' = n
    /\ errors' = errors \cup errs
    /\ UNCHANGED <<content, pc, start, tok>>
InString(t, n, s, errs) ==
    /\ src' = s
    /\ tmp' = t
    /\ count' = n
    /\ errors' = errors \cup errs
    /\ UNCHANGED <<content, pc, start, tok>>

LeaveString(where, s, errs) ==
    /\ src' = s
    /\ pc' = where
    /\ errors' = errors \cup errs
    /\ UNCHANGED <<content, tmp, count, start, tok>>

StringChar ==
    /\ pc = "string"
    /\ \/ Got = Quote /\ LeaveString("strtail", After, {})
       \/ /\ Got # Quote /\ count = StringMax
          /\ InString(<<>>, 1, After, {"LE07"})
       \/ /\ count # StringMax /\ Got = NL
          /\ LeaveString("strtail", After, {"LE01"})
       \/ /\ count # StringMax /\ Got = Byte255
          /\ LeaveString("exited", After, {"LE02"})
       \/ /\ count # StringMax /\ Got = Backslash
          /\ IF AheadChar(After) = Quote
             THEN InString(tmp \o <<Backslash, Quote>>, count + 1,
                           FileNext(content, AheadSrc(After), "GET_CHAR"), {})
             ELSE InString(Append(tmp, Got), count + 1, AheadSrc(After), {})
       \/ /\ count # StringMax /\ Got \notin {Quote, NL, Byte255, Backslash}
          /\ InString(Append(tmp, Got), count + 1, After, {})

(* The blanks after a string, and the next string joined to it.            *)
StringTail ==
    /\ pc = "strtail"
    /\ \/ Got \in Blank /\ LeaveString("strtail", After, {})
       \/ /\ Got \notin Blank
          /\ LET s == IF Got = NUL THEN After ELSE Undone
             IN  IF AheadChar(s) = Quote
                 THEN LeaveString("string",
                                  FileNext(content, AheadSrc(s), "GET_CHAR"), {})
                 ELSE Return("string", tmp, AheadSrc(s))

(***************************************************************************)
(* parseCharConstant().  The characters are collected much as in a string; *)
(* the token is then filled in through numVal, which is null in a new      *)
(* Token, so that every character constant ends the program.               *)
(***************************************************************************)
CharConstant ==
    /\ pc = "char"
    /\ \/ Got = "'" /\ LeaveString("crashed", After, {})
       \/ /\ Got # "'"
          /\ LET full == count = StringMax
                 over == IF full THEN {"LE08"} ELSE {}
             IN  \/ Got = NL /\ LeaveString("crashed", After, over \cup {"LE01"})
                 \/ Got = Byte255 /\ LeaveString("exited", After, over \cup {"LE02"})
                 \/ /\ Got \notin {NL, Byte255}
                    /\ InString(IF full THEN <<Got>> ELSE Append(tmp, Got),
                                IF full THEN 1 ELSE count + 1, After, over)

Next ==
    \/ SkipBlank \/ FirstChar \/ IllegalChar \/ Resynch
    \/ KeywordGoesOn \/ DoKeyword \/ KeywordEnds \/ NoKeyword
    \/ IdentifierChar \/ NumberStep
    \/ OperatorStep \/ ThirdChar
    \/ StringChar \/ StringTail \/ CharConstant

(* The lexer is sequential code: it keeps running until it stops.          *)
Spec == Init /\ [][Next]_vars /\ WF_vars(Next)

Stopped == {"done", "exited", "crashed"}
=============================================================================
