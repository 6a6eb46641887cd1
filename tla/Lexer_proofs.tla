---------------------------- MODULE Lexer_proofs ----------------------------
(***************************************************************************)
(* For every alphabet, set of keywords, chunk size and file.  Of every     *)
(* file: the state of the lexer stays in its types, lines and columns are  *)
(* those of the text, operators are the longest there are.  Of a file that *)
(* ends with a newline: words are flex.l's words, tokens are spelled as    *)
(* the file spells them, and nothing is lost or read twice.                *)
(*                                                                         *)
(* The second half is about the lexer beside another machine: its strings  *)
(* are those of the scanner of flex.l, and the lexer that reads the file   *)
(* chunk by chunk implements, step by step, the one that has all of it in  *)
(* its buffer.                                                             *)
(***************************************************************************)
EXTENDS LexerProps, LexerChunks, InputBuffer_proofs, NaturalsInduction, WellFoundedInduction

(* CharAt() of a content c.                                                *)
At(c, i) == IF i \in 1..Len(c) THEN c[i] ELSE NUL

(* The column of a source counts from the last newline.                    *)
InColumn(c, n, col) ==
    /\ n - col \in 0..n
    /\ n - col = 0 \/ At(c, n - col) = NL
    /\ \A i \in n - col + 1..n : At(c, i) # NL

(* A source that mirrors its file and knows its place in it.               *)
Fine(c, s) == Good(c, s) /\ InColumn(c, Cursor(s), s.column)

LEMMA Typed ==
    ASSUME NEW c, NEW s, Good(c, s)
    PROVE  /\ c \in Seq(Char) /\ Len(c) \in Nat
           /\ s \in Sources /\ s.column \in Int /\ s.lastCol \in Int /\ s.line \in Nat
           /\ s.pointer \in Nat
           /\ Cursor(s) \in Nat /\ Cursor(s) <= Len(c)
           /\ s.line = LineAt(c, Cursor(s))
           /\ Upcoming(c, Cursor(s)) = At(c, Cursor(s) + 1)
<1>1. /\ c \in Seq(Char) /\ s \in Sources /\ s.line = LineAt(c, Cursor(s))
      /\ Cursor(s) \in Nat /\ Cursor(s) <= Len(c) /\ Len(c) \in Nat
  BY PeekIsUpcoming DEF Good, Sound
<1>2. Upcoming(c, Cursor(s)) = At(c, Cursor(s) + 1)
  BY <1>1 DEF Upcoming, At
<1> QED
  BY <1>1, <1>2 DEF Sources

(* What lies before the pointer in the buffer is what the file has there.  *)
LEMMA BehindPointer ==
    ASSUME NEW c, NEW s, Good(c, s), s.pointer # 0
    PROVE  s.buf[s.pointer] = At(c, Cursor(s)) /\ Cursor(s) > 0
<1>1. /\ s.pointer \in Nat /\ s.filled \in Nat /\ Len(s.buf) \in Nat /\ Len(c) \in Nat
      /\ s.pointer <= Len(s.buf) /\ Len(s.buf) <= s.filled /\ s.filled <= Len(c)
      /\ \A i \in 1..Len(s.buf) : s.buf[i] = c[s.filled - Len(s.buf) + i]
  BY LenProperties DEF Good, Sound, Sources, Mirrors
<1>2. s.pointer \in 1..Len(s.buf) /\ s.buf[s.pointer] = c[Cursor(s)]
  BY <1>1 DEF Cursor
<1>3. Cursor(s) \in 1..Len(c)
  BY <1>1 DEF Cursor
<1> QED
  BY <1>1, <1>2, <1>3 DEF At

-----------------------------------------------------------------------------
(* The column one character further, and one back.                         *)
LEMMA ColumnForth ==
    ASSUME NEW c, NEW n \in Nat, NEW col \in Int, InColumn(c, n, col)
    PROVE  InColumn(c, n + 1, IF At(c, n + 1) = NL THEN 0 ELSE col + 1)
<1>1. CASE At(c, n + 1) = NL
  BY <1>1 DEF InColumn
<1>2. CASE At(c, n + 1) # NL
  <2>1. (n + 1) - (col + 1) = n - col
    OBVIOUS
  <2>2. \A i \in n - col + 1..n + 1 : i \in n - col + 1..n \/ i = n + 1
    OBVIOUS
  <2> QED
    BY <1>2, <2>1, <2>2 DEF InColumn
<1> QED
  BY <1>1, <1>2

LEMMA ColumnBack ==
    ASSUME NEW c, NEW n \in Nat, NEW col \in Int, InColumn(c, n, col),
           n > 0, At(c, n) # NL
    PROVE  InColumn(c, n - 1, col - 1)
<1>1. (n - 1) - (col - 1) = n - col /\ n - col \in 0..n
  BY DEF InColumn
<1>2. n - col # n
  BY DEF InColumn
<1>3. \A i \in n - col + 1..n - 1 : i \in n - col + 1..n
  BY <1>1
<1> QED
  BY <1>1, <1>2, <1>3 DEF InColumn

-----------------------------------------------------------------------------
(* next(GET_CHAR), next(LOOK_AHEAD) and the push-back of what was got.     *)
LEMMA AdvanceColumn ==
    ASSUME NEW s \in Sources
    PROVE  Advance(s).column = IF Peek(s) = NUL THEN s.column
                               ELSE IF Peek(s) = NL THEN 0 ELSE s.column + 1
BY DEF Advance, Sources

LEMMA GetColumn ==
    ASSUME NEW c, NEW s, Good(c, s),
           NEW t, t = FileNext(c, s, "GET_CHAR"),
           NEW ch, ch = FileChar(c, s, "GET_CHAR")
    PROVE  t.column = IF ch = NUL THEN s.column ELSE IF ch = NL THEN 0 ELSE s.column + 1
<1>1. CASE ~Starved(s)
  <2>1. t = Advance(s) /\ ch = Peek(s)
    BY <1>1 DEF FileNext, FileChar, MemoryNext
  <2> QED
    BY <2>1, AdvanceColumn, Typed
<1>2. CASE Starved(s)
  <2> DEFINE g == FillBuffer(c, s)
  <2>1. Advance(s) = s
    BY <1>2 DEF Advance, Starved
  <2>2. t = Advance(g) /\ ch = Peek(g)
    BY <1>2, <2>1 DEF FileNext, FileChar, MemoryNext
  <2>3. Good(c, g) /\ g.column = s.column
    BY RefillSound
  <2> HIDE DEF g
  <2> QED
    BY <2>2, <2>3, AdvanceColumn, Typed
<1> QED
  BY <1>1, <1>2

LEMMA Gets ==
    ASSUME NEW c, NEW s, Fine(c, s),
           NEW t, t = FileNext(c, s, "GET_CHAR"),
           NEW ch, ch = FileChar(c, s, "GET_CHAR")
    PROVE  /\ Fine(c, t)
           /\ ch = At(c, Cursor(s) + 1) /\ ch \in Char
           /\ Cursor(t) = IF ch = NUL THEN Cursor(s) ELSE Cursor(s) + 1
<1>1. /\ Good(c, t) /\ ch = At(c, Cursor(s) + 1) /\ ch \in Char
      /\ Cursor(t) = IF ch = NUL THEN Cursor(s) ELSE Cursor(s) + 1
  BY FileGetSound, Typed DEF Fine, Undoable
<1>2. t.column = IF ch = NUL THEN s.column ELSE IF ch = NL THEN 0 ELSE s.column + 1
  BY GetColumn DEF Fine
<1>3. InColumn(c, Cursor(t), t.column)
  <2>1. Cursor(s) \in Nat /\ s.column \in Int /\ InColumn(c, Cursor(s), s.column)
    BY Typed DEF Fine
  <2>2. InColumn(c, Cursor(s) + 1, IF ch = NL THEN 0 ELSE s.column + 1)
    BY <1>1, <2>1, ColumnForth
  <2> QED
    BY <1>1, <1>2, <2>1, <2>2
<1> QED
  BY <1>1, <1>3 DEF Fine

(* A character that was got can be given back.  At the end of the file     *)
(* nothing was got, and the character before it is given back instead: the *)
(* place stays exact unless that is a newline.                             *)
LEMMA Backs ==
    ASSUME NEW c, NEW s, Fine(c, s),
           NEW t, t = FileNext(c, s, "GET_CHAR"),
           NEW ch, ch = FileChar(c, s, "GET_CHAR"),
           NEW u, u = FileNext(c, t, "PUSH_BACK"),
           ch # NUL \/ At(c, Cursor(s)) # NL
    PROVE  Fine(c, u) /\ (ch # NUL => Cursor(u) = Cursor(s))
<1>1. Fine(c, t) /\ Good(c, t) /\ Good(c, s)
  BY Gets DEF Fine
<1>2. /\ Good(c, u) /\ Cursor(u) = Cursor(Retreat(t)) /\ u.column = Retreat(t).column
  BY <1>1, FileBackSound
<1>3. /\ t.pointer = 0 => Retreat(t) = t
      /\ t.pointer # 0 =>
            /\ Cursor(Retreat(t)) = Cursor(t) - 1 /\ Cursor(t) > 0
            /\ Retreat(t).column = IF t.buf[t.pointer] = NL THEN t.lastCol ELSE t.column - 1
  BY <1>1, RetreatSound DEF Good
<1>4. /\ Cursor(s) \in Nat /\ Cursor(t) \in Nat /\ s.column \in Int /\ t.column \in Int
      /\ t.pointer \in Nat
  BY <1>1, Typed
<1>5. CASE ch # NUL
  <2>1. Undoable(s, t, ch)
    BY <1>1, <1>5, FileGetSound
  <2>2. Cursor(u) = Cursor(s) /\ u.column = s.column
    BY <1>2, <1>3, <1>4, <2>1 DEF Undoable
  <2> QED
    BY <1>2, <2>2 DEF Fine
<1>6. CASE ch = NUL
  <2>1. Cursor(t) = Cursor(s) /\ At(c, Cursor(t)) # NL
    BY <1>6, Gets
  <2>2. InColumn(c, Cursor(t), t.column)
    BY <1>1 DEF Fine
  <2>3. CASE t.pointer = 0
    BY <1>2, <1>3, <1>6, <2>2, <2>3 DEF Fine
  <2>4. CASE t.pointer # 0
    <3>1. Cursor(u) = Cursor(t) - 1 /\ u.column = t.column - 1 /\ Cursor(t) > 0
      BY <1>1, <1>2, <1>3, <2>1, <2>4, BehindPointer
    <3>2. InColumn(c, Cursor(t) - 1, t.column - 1)
      BY <1>4, <2>1, <2>2, <3>1, ColumnBack
    <3> QED
      BY <1>2, <1>6, <3>1, <3>2 DEF Fine
  <2> QED
    BY <2>3, <2>4
<1> QED
  BY <1>5, <1>6

LEMMA Looks ==
    ASSUME NEW c, NEW s, Fine(c, s), NEW t, t = FileNext(c, s, "LOOK_AHEAD")
    PROVE  Fine(c, t) /\ Cursor(t) = Cursor(s)
<1>1. Good(c, t) /\ Cursor(t) = Cursor(s)
  BY FileLookSound DEF Fine
<1>2. t.column = s.column
  <2>1. CASE ~Starved(s)
    BY <2>1 DEF FileNext, MemoryNext
  <2>2. CASE Starved(s)
    <3>1. t = FillBuffer(c, s)
      BY <2>2 DEF FileNext, MemoryNext
    <3> QED
      BY <3>1, RefillSound DEF Fine
  <2> QED
    BY <2>1, <2>2
<1> QED
  BY <1>1, <1>2 DEF Fine

-----------------------------------------------------------------------------
(* In the middle of a word, a number or an operator no newline was got, so *)
(* that the one push-back too many at the end of a file does not cross a   *)
(* line.  A number begins with nothing got: its first digit was given back.*)
Collecting == {"letter", "identifier", "number", "operator", "operator3"}
Plain(t) == \A i \in 1..Len(t) : t[i] # NL
InToken(where, t, c, s) ==
    where \in Collecting =>
        /\ Plain(t)
        /\ IF t = <<>> THEN where = "number" /\ At(c, Cursor(s) + 1) \in Digit
           ELSE At(c, Cursor(s)) # NL

(* The inductive invariant.                                                *)
IInv ==
    /\ TypeOK
    /\ Fine(content, src)
    /\ InToken(pc, tmp, content, src)
    /\ TokenOnItsLine

Reports == {"LE01", "LE02", "LE05", "LE07", "LE08"}

(* No newline lies in a text without one: it ends on the line it begins on.*)
LEMMA OneLine ==
    ASSUME NEW c \in Seq(Char), NEW from \in Nat, NEW to \in Nat, to <= Len(c),
           NEW t, t = SubSeq(c, from + 1, to), t # <<>>, Plain(t)
    PROVE  LineAt(c, from) = LineAt(c, to)
<1>1. Len(c) \in Nat
  BY LenProperties
<1>2. from + 1 <= to
  BY SubSeqEmpty
<1>3. \A i \in from + 1..to : c[i] \in Char
  BY <1>1, ElementOfSeq
<1>4. /\ Len(t) = to - from
      /\ \A i \in 1..to - from : t[i] = c[from + i]
  <2>1. /\ Len(SubSeq(c, from + 1, to)) = IF from + 1 <= to THEN to - (from + 1) + 1 ELSE 0
        /\ \A i \in 1..to - (from + 1) + 1 : SubSeq(c, from + 1, to)[i] = c[(from + 1) + i - 1]
    BY <1>3, SubSeqProperties
  <2> QED
    BY <1>2, <2>1
<1>5. \A i \in from + 1..to : c[i] # NL
  <2> SUFFICES ASSUME NEW i \in from + 1..to PROVE c[i] # NL
    OBVIOUS
  <2>1. i - from \in 1..to - from /\ from + (i - from) = i
    OBVIOUS
  <2> QED
    BY <1>4, <2>1 DEF Plain
<1>6. Newlines(c, from) = Newlines(c, to)
  BY <1>2, <1>5 DEF Newlines
<1> QED
  BY <1>6 DEF LineAt

(* What an appended text is.                                               *)
LEMMA Appended ==
    ASSUME NEW t \in Seq(Char), NEW ch \in Char
    PROVE  /\ Append(t, ch) \in Seq(Char) /\ Append(t, ch) # <<>>
           /\ Plain(t) /\ ch # NL => Plain(Append(t, ch))
           /\ Len(Append(t, ch)) = Len(t) + 1 /\ Len(t) \in Nat
           /\ Append(t, ch)[Len(t) + 1] = ch
BY AppendProperties, LenProperties DEF Plain

-----------------------------------------------------------------------------
(* The shapes of a step: a token is returned, or none is.                  *)
LEMMA MovesOn ==
    ASSUME IInv, content' = content, tok' = tok, pc' \in Pcs, Fine(content, src'),
           tmp' \in Seq(Char), count' \in 0..StringMax, start' \in Nat,
           errors' \subseteq Reports, InToken(pc', tmp', content, src')
    PROVE  IInv'
<1>1. TypeOK'
  BY Typed DEF IInv, TypeOK, Fine, Reports
<1>2. TokenOnItsLine'
  BY DEF IInv, TokenOnItsLine, Spelling
<1> QED
  BY <1>1, <1>2 DEF IInv

LEMMA Returned ==
    ASSUME IInv, NEW kind \in Kinds, NEW text \in Seq(Char), NEW s, Fine(content, s),
           Return(kind, text, s),
           kind \in {"key", "id", "number", "op"} => Plain(text) /\ text # <<>>
    PROVE  IInv'
<1>1. /\ src' = s /\ content' = content /\ pc' = "blank" /\ tmp' = <<>>
      /\ count' = count /\ start' = start /\ errors' = errors
      /\ tok' = [kind |-> kind, text |-> text, from |-> start, to |-> Cursor(s),
                 line |-> s.line, column |-> s.column]
  BY DEF Return
<1>2. /\ content \in Seq(Char) /\ s \in Sources /\ s.line \in Nat /\ s.column \in Int
      /\ Cursor(s) \in Nat /\ Cursor(s) <= Len(content)
      /\ s.line = LineAt(content, Cursor(s))
  BY Typed DEF Fine
<1>3. start \in Nat /\ count \in 0..StringMax /\ errors \subseteq Reports
  BY DEF IInv, TypeOK, Reports
<1>4. tok' \in Tokens
  BY <1>1, <1>2, <1>3 DEF Tokens
<1>5. TypeOK'
  BY <1>1, <1>2, <1>3, <1>4, EmptySeq DEF TypeOK, Pcs, Reports
<1>6. TokenOnItsLine'
  <2> SUFFICES ASSUME kind \in {"key", "id", "number", "op"},
                      text = SubSeq(content, start + 1, Cursor(s))
               PROVE  s.line = LineAt(content, start)
    BY <1>1 DEF TokenOnItsLine, Spelling
  <2> QED
    BY <1>2, <1>3, OneLine
<1>7. InToken(pc', tmp', content, src')
  BY <1>1 DEF InToken, Collecting
<1> QED
  BY <1>1, <1>5, <1>6, <1>7 DEF IInv

LEMMA Continues ==
    ASSUME IInv, NEW where \in Pcs, NEW t \in Seq(Char), NEW s, Fine(content, s),
           Continue(where, t, s), InToken(where, t, content, s)
    PROVE  IInv'
<1>1. /\ content' = content /\ tok' = tok /\ pc' = where /\ src' = s /\ tmp' = t
      /\ count' = count /\ start' = start /\ errors' = errors
  BY DEF Continue
<1>2. start \in Nat /\ count \in 0..StringMax /\ errors \subseteq Reports
  BY DEF IInv, TypeOK, Reports
<1> QED
  BY <1>1, <1>2, MovesOn

LEMMA Dispatches ==
    ASSUME IInv, NEW where \in Pcs, NEW t \in Seq(Char), NEW s, Fine(content, s),
           Dispatch(where, t, s), InToken(where, t, content, s)
    PROVE  IInv'
<1>1. /\ content' = content /\ tok' = tok /\ pc' = where /\ src' = s /\ tmp' = t
      /\ count' = 0 /\ start' = Cursor(src) /\ errors' = errors
  BY DEF Dispatch
<1>2. Cursor(src) \in Nat /\ 0 \in 0..StringMax /\ errors \subseteq Reports
  BY Typed, StringMaxAssumption DEF IInv, TypeOK, Reports, Fine
<1> QED
  BY <1>1, <1>2, MovesOn

LEMMA StaysInString ==
    ASSUME IInv, pc \in {"string", "char"}, NEW t \in Seq(Char),
           NEW n \in 0..StringMax, NEW s, Fine(content, s),
           NEW errs \in SUBSET Reports, InString(t, n, s, errs)
    PROVE  IInv'
<1>1. /\ content' = content /\ tok' = tok /\ pc' = pc /\ src' = s /\ tmp' = t
      /\ count' = n /\ start' = start /\ errors' = errors \cup errs
  BY DEF InString
<1>2. start \in Nat /\ errors' \subseteq Reports /\ pc \in Pcs
  BY <1>1 DEF IInv, TypeOK, Reports
<1>3. InToken(pc', tmp', content, src')
  BY <1>1 DEF InToken, Collecting
<1> QED
  BY <1>1, <1>2, <1>3, MovesOn

LEMMA LeavesString ==
    ASSUME IInv, NEW where \in Pcs \ Collecting, NEW s, Fine(content, s),
           NEW errs \in SUBSET Reports, LeaveString(where, s, errs)
    PROVE  IInv'
<1>1. /\ content' = content /\ tok' = tok /\ pc' = where /\ src' = s /\ tmp' = tmp
      /\ count' = count /\ start' = start /\ errors' = errors \cup errs
  BY DEF LeaveString
<1>2. /\ start \in Nat /\ errors' \subseteq Reports /\ tmp \in Seq(Char)
      /\ count \in 0..StringMax
  BY <1>1 DEF IInv, TypeOK, Reports
<1>3. InToken(pc', tmp', content, src')
  BY <1>1 DEF InToken
<1> QED
  BY <1>1, <1>2, <1>3, MovesOn

-----------------------------------------------------------------------------
(* What the letters, digits and operators are not.                         *)
LEMMA NoBreaks ==
    /\ \A ch \in WordChar \cup Single \cup Starter \cup NumberChar : ch # NL /\ ch # NUL
    /\ KeywordInitial \subseteq Letter
<1>1. \A ch \in WordChar \cup Single : ch # NL /\ ch # NUL
  BY AlphabetAssumption
<1>2. \A ch \in Starter : ch # NL /\ ch # NUL
  <2> SUFFICES ASSUME NEW op \in Double \cup Triple PROVE op[1] # NL /\ op[1] # NUL
    BY DEF Starter
  <2>1. 1 \in DOMAIN op
    BY DEF Double, Triple
  <2> QED
    BY <2>1, AlphabetAssumption
<1>3. {".", "+", "-"} \subseteq Starter
  <2>1. /\ <<".", ".", ".">> \in Triple /\ <<"+", "+">> \in Double /\ <<"-", "-">> \in Double
    BY DEF Double, Triple
  <2>2. /\ <<".", ".", ".">>[1] = "." /\ <<"+", "+">>[1] = "+" /\ <<"-", "-">>[1] = "-"
    OBVIOUS
  <2> QED
    BY <2>1, <2>2, Zenon DEF Starter
<1>4. \A ch \in NumberChar : ch # NL /\ ch # NUL
  BY <1>1, <1>2, <1>3 DEF NumberChar, WordChar
<1>5. KeywordInitial \subseteq Letter
  <2> SUFFICES ASSUME NEW k \in Keywords PROVE k[1] \in Letter
    BY DEF KeywordInitial
  <2>1. k \in Seq(Letter) /\ Len(k) > 1
    BY KeywordsAssumption
  <2>2. 1 \in 1..Len(k)
    BY <2>1, LenProperties
  <2> QED
    BY <2>1, <2>2, ElementOfSeq
<1> QED
  BY <1>1, <1>2, <1>4, <1>5

(* The character got, and the source after it and after giving it back.    *)
LEMMA GotIs ==
    ASSUME IInv
    PROVE  /\ Got \in Char /\ Got = At(content, Cursor(src) + 1)
           /\ Fine(content, After)
           /\ Cursor(After) = IF Got = NUL THEN Cursor(src) ELSE Cursor(src) + 1
           /\ Got # NUL \/ At(content, Cursor(src)) # NL => Fine(content, Undone)
           /\ Got # NUL => Cursor(Undone) = Cursor(src)
           /\ Cursor(src) \in Nat /\ tmp \in Seq(Char) /\ count \in 0..StringMax
<1>1. Fine(content, src)
  BY DEF IInv
<1>2. After = FileNext(content, src, "GET_CHAR") /\ Got = FileChar(content, src, "GET_CHAR")
      /\ Undone = FileNext(content, After, "PUSH_BACK")
  BY DEF After, Got, Undone
<1>3. /\ Got \in Char /\ Got = At(content, Cursor(src) + 1) /\ Fine(content, After)
      /\ Cursor(After) = IF Got = NUL THEN Cursor(src) ELSE Cursor(src) + 1
  BY <1>1, <1>2, Gets
<1>4. Got # NUL \/ At(content, Cursor(src)) # NL
        => Fine(content, Undone) /\ (Got # NUL => Cursor(Undone) = Cursor(src))
  BY <1>1, <1>2, Backs
<1>5. Cursor(src) \in Nat
  BY <1>1, Typed DEF Fine
<1> QED
  BY <1>3, <1>4, <1>5 DEF IInv, TypeOK

LEMMA AheadIs ==
    ASSUME NEW s, Fine(content, s)
    PROVE  /\ Fine(content, AheadSrc(s)) /\ Cursor(AheadSrc(s)) = Cursor(s)
           /\ Fine(content, WordEndsSrc(s)) /\ Cursor(WordEndsSrc(s)) = Cursor(s)
           /\ Fine(content, FileNext(content, AheadSrc(s), "GET_CHAR"))
<1>1. Fine(content, AheadSrc(s)) /\ Cursor(AheadSrc(s)) = Cursor(s)
  BY Looks DEF AheadSrc
<1>2. Fine(content, AheadSrc(AheadSrc(s))) /\ Cursor(AheadSrc(AheadSrc(s))) = Cursor(s)
  BY <1>1, Looks DEF AheadSrc
<1>3. Fine(content, FileNext(content, AheadSrc(s), "GET_CHAR"))
  BY <1>1, Gets
<1> QED
  BY <1>1, <1>2, <1>3 DEF WordEndsSrc

(* With one more character that is no newline the lexer is still inside.   *)
LEMMA GotMore ==
    ASSUME IInv, NEW where, NEW t \in Seq(Char), Plain(t), Got # NL, Got # NUL,
           NEW s, Cursor(s) = Cursor(After)
    PROVE  /\ InToken(where, Append(t, Got), content, s)
           /\ Append(t, Got) \in Seq(Char) /\ Append(t, Got) # <<>> /\ Plain(Append(t, Got))
<1>1. /\ Append(t, Got) \in Seq(Char) /\ Append(t, Got) # <<>> /\ Plain(Append(t, Got))
  BY GotIs, Appended
<1>2. At(content, Cursor(s)) # NL
  BY GotIs
<1> QED
  BY <1>1, <1>2 DEF InToken

LEMMA JustGot ==
    ASSUME IInv, NEW where, Got # NL, Got # NUL
    PROVE  <<Got>> \in Seq(Char) /\ InToken(where, <<Got>>, content, After)
<1>1. <<>> \in Seq(Char) /\ Plain(<<>>) /\ Append(<<>>, Got) = <<Got>>
  BY EmptySeq DEF Plain
<1> QED
  BY <1>1, GotMore

-----------------------------------------------------------------------------
(* The steps.                                                              *)
LEMMA SkipBlankKeeps == ASSUME IInv, SkipBlank PROVE IInv'
<1>1. PICK where \in {"blank", "first"}, s \in {After, Undone} :
        Continue(where, <<>>, s) /\ (s = Undone => Got # NUL \/ s = After)
  BY DEF SkipBlank
<1>2. Fine(content, s)
  BY <1>1, GotIs
<1>3. InToken(where, <<>>, content, s) /\ where \in Pcs
  BY <1>1 DEF InToken, Collecting, Pcs
<1> QED
  BY <1>1, <1>2, <1>3, EmptySeq, Continues

LEMMA FirstCharKeeps == ASSUME IInv, FirstChar PROVE IInv'
<1> USE GotIs
<1>1. CASE \E where \in {"blank", "resynch", "string", "char", "done"} :
              Dispatch(where, <<>>, After)
  <2>1. PICK where \in {"blank", "resynch", "string", "char", "done"} :
              Dispatch(where, <<>>, After)
    BY <1>1
  <2>2. InToken(where, <<>>, content, After) /\ where \in Pcs
    BY DEF InToken, Collecting, Pcs
  <2> QED
    BY <2>1, <2>2, EmptySeq, Dispatches
<1>2. CASE Got \in Digit /\ Dispatch("number", <<>>, Undone)
  <2>1. Got # NUL
    BY <1>2, NoBreaks DEF WordChar, Alnum
  <2>2. InToken("number", <<>>, content, Undone) /\ Fine(content, Undone)
    BY <1>2, <2>1, EmptySeq DEF InToken, Plain
  <2> QED
    BY <1>2, <2>2, EmptySeq, Dispatches DEF Pcs
<1>3. CASE \E where \in {"letter", "identifier", "operator"} :
              /\ Got \in KeywordInitial \cup Letter \cup {"_"} \cup Single \cup Starter
              /\ Dispatch(where, <<Got>>, After)
  <2>1. PICK where \in {"letter", "identifier", "operator"} :
              /\ Got \in KeywordInitial \cup Letter \cup {"_"} \cup Single \cup Starter
              /\ Dispatch(where, <<Got>>, After)
    BY <1>3
  <2>2. Got # NL /\ Got # NUL
    BY <2>1, NoBreaks DEF WordChar, Alnum
  <2>3. <<Got>> \in Seq(Char) /\ InToken(where, <<Got>>, content, After)
    BY <2>2, JustGot
  <2> QED
    BY <2>1, <2>3, Dispatches DEF Pcs
<1> QED
  BY <1>1, <1>2, <1>3, Zenon DEF FirstChar

LEMMA IllegalCharKeeps == ASSUME IInv, IllegalChar PROVE IInv'
<1>1. Got # NUL /\ Got # NL
  BY DEF IllegalChar, Known, LineBreak
<1>2. /\ src' = After /\ content' = content /\ pc' = "blank" /\ tmp' = <<>>
      /\ count' = count /\ start' = Cursor(src) /\ errors' = errors \cup {"LE05"}
      /\ tok' = [kind |-> "op", text |-> <<>>, from |-> Cursor(src),
                 to |-> Cursor(After), line |-> After.line, column |-> After.column]
  BY DEF IllegalChar
<1>3. /\ content \in Seq(Char) /\ After \in Sources /\ After.line \in Nat
      /\ After.column \in Int /\ Cursor(After) = Cursor(src) + 1
      /\ Cursor(After) <= Len(content) /\ Fine(content, After)
      /\ After.line = LineAt(content, Cursor(src) + 1)
      /\ Cursor(src) \in Nat /\ Len(content) \in Nat
      /\ Got = At(content, Cursor(src) + 1)
  BY <1>1, GotIs, Typed DEF Fine
<1>4. tok' \in Tokens /\ TypeOK'
  <2>1. <<>> \in Seq(Char) /\ "op" \in Kinds
    BY EmptySeq DEF Kinds
  <2>2. tok' \in Tokens
    BY <1>2, <1>3, <2>1 DEF Tokens
  <2>3. count \in 0..StringMax /\ errors \subseteq Reports
    BY DEF IInv, TypeOK, Reports
  <2> QED
    BY <1>2, <1>3, <2>1, <2>2, <2>3 DEF TypeOK, Pcs, Reports
<1>5. TokenOnItsLine'
  <2>1. LineAt(content, Cursor(src) + 1) = LineAt(content, Cursor(src))
    <3>1. content[Cursor(src) + 1] # NL
      BY <1>1, <1>3 DEF At
    <3> QED
      BY <1>3, <3>1, LineStep
  <2> QED
    BY <1>2, <1>3, <2>1 DEF TokenOnItsLine
<1>6. InToken(pc', tmp', content, src')
  BY <1>2 DEF InToken, Collecting
<1> QED
  BY <1>2, <1>3, <1>4, <1>5, <1>6 DEF IInv

LEMMA ResynchKeeps == ASSUME IInv, Resynch PROVE IInv'
<1>1. PICK where \in {"blank", "resynch"} : Continue(where, <<>>, After)
  BY DEF Resynch
<1>2. InToken(where, <<>>, content, After) /\ where \in Pcs
  BY DEF InToken, Collecting, Pcs
<1> QED
  BY <1>1, <1>2, EmptySeq, GotIs, Continues

(* In a word, a number or an operator there is something to give back.     *)
LEMMA InsideIs ==
    ASSUME IInv, pc \in Collecting \ {"number"}
    PROVE  tmp # <<>> /\ Plain(tmp) /\ Fine(content, Undone)
<1>1. tmp # <<>> /\ Plain(tmp) /\ At(content, Cursor(src)) # NL
  BY DEF IInv, InToken
<1> QED
  BY <1>1, GotIs

(* The last letter of what begins a keyword is a letter.                   *)
LEMMA KeywordLetter ==
    ASSUME IInv, KeywordPrefix(Letters) \/ Letters \in Keywords
    PROVE  Got # NL /\ Got # NUL
<1>1. Len(Letters) = Len(tmp) + 1 /\ Letters[Len(tmp) + 1] = Got /\ Len(tmp) \in Nat
  BY GotIs, Appended DEF Letters
<1>2. PICK k \in Keywords : Len(tmp) + 1 <= Len(k) /\ k[Len(tmp) + 1] = Got
  <2>1. CASE Letters \in Keywords
    BY <1>1, <2>1
  <2>2. CASE KeywordPrefix(Letters)
    <3>1. PICK k \in Keywords : Len(Letters) < Len(k) /\ Letters = SubSeq(k, 1, Len(Letters))
      BY <2>2 DEF KeywordPrefix
    <3>2. k \in Seq(Letter) /\ Len(k) \in Nat
      BY KeywordsAssumption, LenProperties
    <3>3. \A i \in 1..Len(Letters) : k[i] \in Letter
      BY <1>1, <3>1, <3>2, ElementOfSeq
    <3>4. \A i \in 1..Len(Letters) - 1 + 1 : SubSeq(k, 1, Len(Letters))[i] = k[1 + i - 1]
      BY <1>1, <3>3, SubSeqProperties
    <3>5. Len(tmp) + 1 \in 1..Len(Letters) - 1 + 1 /\ 1 + (Len(tmp) + 1) - 1 = Len(tmp) + 1
      BY <1>1
    <3>6. k[Len(tmp) + 1] = Got
      BY <1>1, <3>1, <3>4, <3>5
    <3> QED
      BY <1>1, <3>1, <3>2, <3>6
  <2> QED
    BY <2>1, <2>2
<1>3. k \in Seq(Letter) /\ Len(tmp) + 1 \in 1..Len(k)
  BY <1>1, <1>2, KeywordsAssumption, LenProperties
<1>4. Got \in Letter
  BY <1>2, <1>3, ElementOfSeq
<1> QED
  BY <1>4, NoBreaks DEF WordChar, Alnum

LEMMA KeywordGoesOnKeeps == ASSUME IInv, KeywordGoesOn PROVE IInv'
<1>1. pc \in Collecting \ {"number"} /\ Continue("letter", Letters, After)
  BY DEF KeywordGoesOn, Collecting
<1>2. DoWord \in Keywords
  BY KeywordsAssumption DEF DoWord
<1>3. Got # NL /\ Got # NUL
  BY <1>2, KeywordLetter DEF KeywordGoesOn
<1>4. Letters \in Seq(Char) /\ InToken("letter", Letters, content, After)
  BY <1>1, <1>3, InsideIs, GotMore, GotIs DEF Letters
<1> QED
  BY <1>1, <1>4, GotIs, Continues DEF Pcs

LEMMA DoKeywordKeeps == ASSUME IInv, DoKeyword PROVE IInv'
<1>1. pc \in Collecting \ {"number"} /\ DoWord = tmp /\ Return("key", DoWord, Undone)
  BY DEF DoKeyword, DoEnds, Collecting
<1> QED
  BY <1>1, InsideIs, GotIs, Returned DEF Kinds

LEMMA KeywordEndsKeeps == ASSUME IInv, KeywordEnds PROVE IInv'
<1>1. /\ pc \in Collecting \ {"number"}
      /\ \/ Return("key", Letters, WordEndsSrc(After))
         \/ Continue("identifier", Letters, WordEndsSrc(After))
  BY DEF KeywordEnds, Collecting
<1>2. Got # NL /\ Got # NUL
  BY KeywordLetter DEF KeywordEnds
<1>3. Fine(content, WordEndsSrc(After)) /\ Cursor(WordEndsSrc(After)) = Cursor(After)
  BY GotIs, AheadIs
<1>4. /\ Letters \in Seq(Char) /\ Letters # <<>> /\ Plain(Letters)
      /\ InToken("identifier", Letters, content, WordEndsSrc(After))
  BY <1>1, <1>2, <1>3, InsideIs, GotMore, GotIs DEF Letters
<1> QED
  BY <1>1, <1>3, <1>4, Returned, Continues DEF Pcs, Kinds

(* A word goes on or ends, with the same character.                        *)
LEMMA WordGoesOn ==
    ASSUME IInv, pc \in Collecting \ {"number"}, LeaveKeywords(Append(tmp, Got))
    PROVE  IInv'
<1>1. tmp # <<>> /\ Plain(tmp) /\ Fine(content, Undone) /\ tmp \in Seq(Char)
  BY InsideIs, GotIs
<1>2. CASE Got \in WordChar /\ Continue("identifier", Append(tmp, Got), After)
  <2>1. Got # NL /\ Got # NUL
    BY <1>2, NoBreaks
  <2> QED
    BY <1>1, <1>2, <2>1, GotMore, GotIs, Continues DEF Pcs
<1>3. CASE Return("id", tmp, IF Got = NUL THEN After ELSE Undone)
  <2>1. Fine(content, IF Got = NUL THEN After ELSE Undone)
    BY <1>1, GotIs
  <2> QED
    BY <1>1, <1>3, <2>1, Returned DEF Kinds
<1> QED
  BY <1>2, <1>3 DEF LeaveKeywords

LEMMA NoKeywordKeeps == ASSUME IInv, NoKeyword PROVE IInv'
BY WordGoesOn DEF NoKeyword, Letters, Collecting

LEMMA IdentifierCharKeeps == ASSUME IInv, IdentifierChar PROVE IInv'
BY WordGoesOn DEF IdentifierChar, Collecting

LEMMA NumberStepKeeps == ASSUME IInv, NumberStep PROVE IInv'
<1>1. /\ pc = "number" /\ tmp \in Seq(Char) /\ Plain(tmp)
      /\ tmp = <<>> => Got \in Digit
      /\ tmp # <<>> => At(content, Cursor(src)) # NL
  BY GotIs DEF NumberStep, IInv, InToken, Collecting
<1>2. CASE Got \in NumberChar /\ Continue("number", Append(tmp, Got), After)
  <2>1. Got # NL /\ Got # NUL
    BY <1>2, NoBreaks
  <2> QED
    BY <1>1, <1>2, <2>1, GotMore, GotIs, Continues DEF Pcs
<1>3. CASE Got \notin NumberChar /\ Return("number", tmp, Undone)
  <2>1. tmp # <<>> /\ Fine(content, Undone)
    BY <1>1, <1>3, GotIs DEF NumberChar, Alnum
  <2> QED
    BY <1>1, <1>3, <2>1, Returned DEF Kinds
<1> QED
  BY <1>2, <1>3 DEF NumberStep

(* An operator, and what begins one, has no newline.                       *)
LEMMA OperatorPlain ==
    ASSUME IInv, NEW op, op = Append(tmp, Got),
           op \in Double \cup Triple \/ \E t \in Triple : op = SubSeq(t, 1, 2)
    PROVE  Got # NL /\ Got # NUL
<1>1. Len(op) = Len(tmp) + 1 /\ op[Len(tmp) + 1] = Got /\ Len(tmp) \in Nat
  BY GotIs, Appended
<1>2. CASE op \in Double \cup Triple
  <2>1. DOMAIN op = 1..Len(op)
    BY <1>2 DEF Double, Triple
  <2>2. Len(tmp) + 1 \in DOMAIN op
    BY <1>1, <2>1
  <2>3. op[Len(tmp) + 1] \notin {NL, NUL}
    BY <1>2, <2>2, AlphabetAssumption, Zenon
  <2> QED
    BY <1>1, <2>3
<1>3. CASE \E t \in Triple : op = SubSeq(t, 1, 2)
  <2>1. PICK t \in Triple : op = SubSeq(t, 1, 2)
    BY <1>3
  <2>2. DOMAIN t = 1..3
    BY DEF Triple
  <2>3. Len(op) = 2 /\ op[1] = t[1] /\ op[2] = t[2]
    BY <2>1 DEF Triple
  <2>4. Got = t[2]
    BY <1>1, <2>3
  <2>5. 2 \in DOMAIN t
    BY <2>2
  <2>6. t[2] \notin {NL, NUL}
    BY <2>1, <2>5, AlphabetAssumption, Zenon
  <2> QED
    BY <2>4, <2>6
<1> QED
  BY <1>2, <1>3

LEMMA OperatorStepKeeps == ASSUME IInv, OperatorStep PROVE IInv'
<1> DEFINE op == Append(tmp, Got)
<1>1. /\ pc \in Collecting \ {"number"}
      /\ \/ Return("op", tmp, src)
         \/ op \in Double /\ Return("op", op, After)
         \/ (\E t \in Triple : op = SubSeq(t, 1, 2)) /\ Continue("operator3", op, After)
         \/ \E s \in {After, Undone} : Return("op", tmp, s)
  BY DEF OperatorStep, Collecting
<1>2. /\ tmp # <<>> /\ Plain(tmp) /\ tmp \in Seq(Char)
      /\ Fine(content, After) /\ Fine(content, Undone) /\ Fine(content, src)
  BY <1>1, InsideIs, GotIs DEF IInv
<1>3. ASSUME NEW s \in {src, After, Undone}, Return("op", tmp, s) PROVE IInv'
  BY <1>2, <1>3, Returned DEF Kinds
<1>4. ASSUME op \in Double \/ \E t \in Triple : op = SubSeq(t, 1, 2)
      PROVE  /\ InToken("operator3", op, content, After)
             /\ op \in Seq(Char) /\ op # <<>> /\ Plain(op)
  BY <1>2, <1>4, OperatorPlain, GotMore
<1> HIDE DEF op
<1>5. CASE op \in Double /\ Return("op", op, After)
  BY <1>2, <1>4, <1>5, Returned DEF Kinds
<1>6. CASE (\E t \in Triple : op = SubSeq(t, 1, 2)) /\ Continue("operator3", op, After)
  BY <1>2, <1>4, <1>6, Continues DEF Pcs
<1> QED
  BY <1>1, <1>3, <1>5, <1>6

LEMMA ThirdCharKeeps == ASSUME IInv, ThirdChar PROVE IInv'
<1> DEFINE op == Append(tmp, Got)
           short == IF tmp = <<".", ".">> THEN <<".">> ELSE tmp
<1>1. /\ pc \in Collecting \ {"number"}
      /\ \/ op \in Triple /\ Return("op", op, After)
         \/ Return("op", short, Undone)
  BY DEF ThirdChar, Collecting
<1>2. /\ tmp # <<>> /\ Plain(tmp) /\ tmp \in Seq(Char)
      /\ Fine(content, After) /\ Fine(content, Undone)
  BY <1>1, InsideIs, GotIs
<1>3. CASE op \in Triple /\ Return("op", op, After)
  <2>1. op \in Seq(Char) /\ op # <<>> /\ Plain(op)
    BY <1>2, <1>3, OperatorPlain, GotMore
  <2> HIDE DEF op
  <2> QED
    BY <1>2, <1>3, <2>1, Returned DEF Kinds
<1>4. CASE Return("op", short, Undone)
  <2>1. short \in Seq(Char) /\ short # <<>> /\ Plain(short)
    <3>1. CASE tmp = <<".", ".">>
      <4>1. tmp[1] = "." /\ Len(tmp) = 2
        BY <3>1
      <4>2. "." \in Char /\ "." # NL
        BY <1>2, <4>1, ElementOfSeq DEF Plain
      <4> QED
        BY <3>1, <4>2 DEF Plain
    <3> QED
      BY <1>2, <3>1
  <2> HIDE DEF short
  <2> QED
    BY <1>2, <1>4, <2>1, Returned DEF Kinds
<1> QED
  BY <1>1, <1>3, <1>4

LEMMA StringCharKeeps == ASSUME IInv, StringChar PROVE IInv'
<1>1. /\ Fine(content, After) /\ Fine(content, AheadSrc(After))
      /\ Fine(content, FileNext(content, AheadSrc(After), "GET_CHAR"))
  BY GotIs, AheadIs
<1>2. /\ pc \in {"string", "char"} /\ tmp \in Seq(Char) /\ Got \in Char
      /\ count \in 0..StringMax /\ StringMax \in Nat \ {0}
  BY GotIs, StringMaxAssumption DEF StringChar
<1>3. /\ 1 \in 0..StringMax /\ {"LE07"} \in SUBSET Reports /\ {} \in SUBSET Reports
      /\ {"LE01"} \in SUBSET Reports /\ {"LE02"} \in SUBSET Reports
  BY <1>2 DEF Reports
<1>4. ASSUME NEW where \in {"strtail", "exited"}, NEW errs \in SUBSET Reports,
             LeaveString(where, After, errs)
      PROVE  IInv'
  <2>1. where \in Pcs \ Collecting
    BY DEF Pcs, Collecting
  <2> QED
    BY <1>1, <1>4, <2>1, LeavesString
<1>5. CASE InString(<<>>, 1, After, {"LE07"})
  BY <1>1, <1>2, <1>3, <1>5, EmptySeq, StaysInString
<1>6. Append(tmp, Got) \in Seq(Char)
  BY <1>2, Appended
<1>7. ASSUME count # StringMax, NEW s \in {After, AheadSrc(After)},
             InString(Append(tmp, Got), count + 1, s, {})
      PROVE  IInv'
  <2>1. count + 1 \in 0..StringMax
    BY <1>2, <1>7
  <2> QED
    BY <1>1, <1>2, <1>3, <1>6, <1>7, <2>1, StaysInString
<1>8. ASSUME count # StringMax, NEW a \in Char, NEW b \in Char,
             InString(tmp \o <<a, b>>, count + 1,
                      FileNext(content, AheadSrc(After), "GET_CHAR"), {})
      PROVE  IInv'
  <2>1. tmp \o <<a, b>> \in Seq(Char)
    BY <1>2
  <2>2. count + 1 \in 0..StringMax
    BY <1>2, <1>8
  <2> QED
    BY <1>1, <1>2, <1>3, <1>8, <2>1, <2>2, StaysInString
<1>9. CASE /\ count # StringMax /\ Got = Backslash /\ AheadChar(After) = Quote
           /\ InString(tmp \o <<Backslash, Quote>>, count + 1,
                       FileNext(content, AheadSrc(After), "GET_CHAR"), {})
  <2>1. AheadChar(After) \in Char
    BY <1>1, FileLookSound DEF AheadChar, Fine
  <2>2. InString(tmp \o <<Got, AheadChar(After)>>, count + 1,
                 FileNext(content, AheadSrc(After), "GET_CHAR"), {})
    BY <1>9, Zenon
  <2> QED
    BY <1>2, <1>8, <1>9, <2>1, <2>2
<1> QED
  BY <1>3, <1>4, <1>5, <1>7, <1>9 DEF StringChar

LEMMA StringTailKeeps == ASSUME IInv, StringTail PROVE IInv'
<1> DEFINE s == IF Got = NUL THEN After ELSE Undone
<1>1. Fine(content, After) /\ Fine(content, s) /\ tmp \in Seq(Char)
  BY GotIs
<1>2. /\ Fine(content, AheadSrc(s))
      /\ Fine(content, FileNext(content, AheadSrc(s), "GET_CHAR"))
  BY <1>1, AheadIs
<1>3. /\ "strtail" \in Pcs \ Collecting /\ "string" \in Pcs \ Collecting
      /\ {} \in SUBSET Reports /\ "string" \in Kinds
  BY DEF Pcs, Collecting, Kinds
<1>4. \/ LeaveString("strtail", After, {})
      \/ LeaveString("string", FileNext(content, AheadSrc(s), "GET_CHAR"), {})
      \/ Return("string", tmp, AheadSrc(s))
  BY DEF StringTail
<1> HIDE DEF s
<1>5. CASE Return("string", tmp, AheadSrc(s))
  BY <1>1, <1>2, <1>3, <1>5, Returned
<1> QED
  BY <1>1, <1>2, <1>3, <1>4, <1>5, LeavesString

LEMMA CharConstantKeeps == ASSUME IInv, CharConstant PROVE IInv'
<1> DEFINE full == count = StringMax
           over == IF full THEN {"LE08"} ELSE {}
<1>1. /\ Fine(content, After) /\ tmp \in Seq(Char) /\ Got \in Char
      /\ count \in 0..StringMax /\ StringMax \in Nat \ {0} /\ pc \in {"string", "char"}
  BY GotIs, StringMaxAssumption DEF CharConstant
<1>2. /\ over \in SUBSET Reports /\ over \cup {"LE01"} \in SUBSET Reports
      /\ over \cup {"LE02"} \in SUBSET Reports /\ {} \in SUBSET Reports
  BY DEF Reports
<1>3. ASSUME NEW where \in {"crashed", "exited"}, NEW errs \in SUBSET Reports,
             LeaveString(where, After, errs)
      PROVE  IInv'
  <2>1. where \in Pcs \ Collecting
    BY DEF Pcs, Collecting
  <2> QED
    BY <1>1, <1>3, <2>1, LeavesString
<1>4. CASE InString(IF full THEN <<Got>> ELSE Append(tmp, Got),
                    IF full THEN 1 ELSE count + 1, After, over)
  <2>1. (IF full THEN <<Got>> ELSE Append(tmp, Got)) \in Seq(Char)
    BY <1>1, Appended
  <2>2. (IF full THEN 1 ELSE count + 1) \in 0..StringMax
    BY <1>1
  <2> HIDE DEF full, over
  <2> QED
    BY <1>1, <1>2, <1>4, <2>1, <2>2, StaysInString
<1>5. \/ LeaveString("crashed", After, {})
      \/ LeaveString("crashed", After, over \cup {"LE01"})
      \/ LeaveString("exited", After, over \cup {"LE02"})
      \/ InString(IF full THEN <<Got>> ELSE Append(tmp, Got),
                  IF full THEN 1 ELSE count + 1, After, over)
  BY DEF CharConstant
<1> QED
  BY <1>2, <1>3, <1>4, <1>5

-----------------------------------------------------------------------------
LEMMA InitInv == Init => IInv
<1> SUFFICES ASSUME Init PROVE IInv
  OBVIOUS
<1>1. /\ content \in Seq(Char) /\ src = NewSource /\ pc = "blank" /\ tmp = <<>>
      /\ count = 0 /\ start = 0 /\ tok = NoToken /\ errors = {}
  BY InputsAssumption DEF Init, NewLexer
<1>2. Sound(content, NewSource) /\ Cursor(NewSource) = 0 /\ Newlines(content, 0) = {}
  BY <1>1, NewSourceSound
<1>3. Fine(content, src)
  <2>1. LineAt(content, 0) = 1
    BY <1>2, FS_EmptySet DEF LineAt
  <2>2. NewSource.line = 1 /\ NewSource.column = 0 /\ NewSource.eof = FALSE
    BY DEF NewSource
  <2>3. InColumn(content, 0, 0)
    BY DEF InColumn
  <2> QED
    BY <1>1, <1>2, <2>1, <2>2, <2>3 DEF Fine, Good, EofHonest
<1>4. NoToken \in Tokens /\ NoToken.kind = "none"
  BY EmptySeq DEF NoToken, Tokens, Kinds
<1>5. TypeOK
  BY <1>1, <1>3, <1>4, Typed, EmptySeq, StringMaxAssumption DEF TypeOK, Pcs, Fine
<1>6. InToken(pc, tmp, content, src) /\ TokenOnItsLine
  BY <1>1, <1>4 DEF InToken, Collecting, TokenOnItsLine
<1> QED
  BY <1>3, <1>5, <1>6 DEF IInv

LEMMA StepInv == IInv /\ [Next]_vars => IInv'
<1> SUFFICES ASSUME IInv, [Next]_vars PROVE IInv'
  OBVIOUS
<1>1. CASE UNCHANGED vars
  BY <1>1 DEF vars, IInv, TypeOK, TokenOnItsLine, Spelling
<1>2. CASE Next
  BY <1>2, SkipBlankKeeps, FirstCharKeeps, IllegalCharKeeps, ResynchKeeps,
     KeywordGoesOnKeeps, DoKeywordKeeps, KeywordEndsKeeps, NoKeywordKeeps,
     IdentifierCharKeeps, NumberStepKeeps, OperatorStepKeeps, ThirdCharKeeps,
     StringCharKeeps, StringTailKeeps, CharConstantKeeps DEF Next
<1> QED
  BY <1>1, <1>2

LEMMA Invariant == Spec => []IInv
BY InitInv, StepInv, PTL DEF Spec

-----------------------------------------------------------------------------
(* Every variable stays in its type, and with it the source: whatever the  *)
(* scanners get and give back, no push-back leaves the buffer.             *)
THEOREM TypeCorrect == Spec => []TypeOK
<1>1. IInv => TypeOK
  BY DEF IInv
<1> QED
  BY <1>1, Invariant, PTL

(* Line and column are those of the text: the source remembers one column  *)
(* only, and the scanners never give back more than what they just got.    *)
THEOREM PlaceCorrect == Spec => []PlaceExact
<1>1. IInv => PlaceExact
  <2> SUFFICES ASSUME IInv PROVE ColumnExact
    BY DEF PlaceExact, IInv
  <2>1. /\ InColumn(content, Cursor(src), src.column)
        /\ \A i : CharAt(i) = At(content, i)
    BY DEF IInv, Fine, CharAt, At
  <2> QED
    BY <2>1 DEF ColumnExact, InColumn
<1> QED
  BY <1>1, Invariant, PTL

-----------------------------------------------------------------------------
(* What tmpBuffer holds and what the tokens of a file are.                 *)

(* The part of c behind its first a characters, up to the first b.         *)
Part(c, a, b) == SubSeq(c, a + 1, b)

LEMMA PartIs ==
    ASSUME NEW c \in Seq(Char), NEW a \in Nat, NEW b \in Nat, a <= b, b <= Len(c)
    PROVE  /\ Part(c, a, b) \in Seq(Char) /\ Len(Part(c, a, b)) = b - a
           /\ \A i \in 1..b - a : Part(c, a, b)[i] = At(c, a + i)
<1>1. /\ Part(c, a, b) \in Seq(Char) /\ Len(Part(c, a, b)) = b - a
      /\ \A i \in 1..b - a : Part(c, a, b)[i] = c[a + i]
  BY Slice DEF Part
<1>2. \A i \in 1..b - a : a + i \in 1..Len(c)
  BY LenProperties
<1> QED
  BY <1>1, <1>2 DEF At

LEMMA AppendGives ==
    ASSUME NEW S, NEW p \in Seq(S), NEW x \in S
    PROVE  /\ Append(p, x) \in Seq(S)
           /\ Len(Append(p, x)) = Len(p) + 1
           /\ \A i \in 1..Len(p) : Append(p, x)[i] = p[i]
           /\ Append(p, x)[Len(p) + 1] = x
  BY AppendProperties

LEMMA PartGrows ==
    ASSUME NEW c \in Seq(Char), NEW a \in Nat, NEW b \in Nat, a <= b, b < Len(c)
    PROVE  Append(Part(c, a, b), At(c, b + 1)) = Part(c, a, b + 1)
<1>1. Len(c) \in Nat /\ b + 1 <= Len(c) /\ a <= b + 1 /\ b + 1 \in Nat
  BY LenProperties
<1>2. At(c, b + 1) \in Char
  BY <1>1, ElementOfSeq DEF At
<1> DEFINE p == Part(c, a, b)
           q == Part(c, a, b + 1)
<1>3. /\ p \in Seq(Char) /\ Len(p) = b - a /\ \A i \in 1..b - a : p[i] = At(c, a + i)
      /\ q \in Seq(Char) /\ Len(q) = b + 1 - a
      /\ \A i \in 1..b + 1 - a : q[i] = At(c, a + i)
  <2>1. b <= Len(c)
    BY <1>1
  <2>2. Part(c, a, b) \in Seq(Char) /\ Len(Part(c, a, b)) = b - a
        /\ \A i \in 1..b - a : Part(c, a, b)[i] = At(c, a + i)
    BY <2>1, PartIs
  <2>3. Part(c, a, b + 1) \in Seq(Char) /\ Len(Part(c, a, b + 1)) = (b + 1) - a
        /\ \A i \in 1..(b + 1) - a : Part(c, a, b + 1)[i] = At(c, a + i)
    BY <1>1, PartIs
  <2> QED
    BY <2>2, <2>3
<1> HIDE DEF p, q
<1>4. /\ Append(p, At(c, b + 1)) \in Seq(Char) /\ Len(Append(p, At(c, b + 1))) = b + 1 - a
      /\ \A i \in 1..b - a : Append(p, At(c, b + 1))[i] = p[i]
      /\ Append(p, At(c, b + 1))[b - a + 1] = At(c, b + 1)
  <2>1. /\ Append(p, At(c, b + 1)) \in Seq(Char)
        /\ Len(Append(p, At(c, b + 1))) = Len(p) + 1
        /\ \A i \in 1..Len(p) : Append(p, At(c, b + 1))[i] = p[i]
        /\ Append(p, At(c, b + 1))[Len(p) + 1] = At(c, b + 1)
    <3>1. p \in Seq(Char)
      BY <1>3
    <3> QED
      BY <1>2, <3>1, AppendGives
  <2> QED
    BY <1>3, <2>1
<1>5. \A i \in 1..b + 1 - a : Append(p, At(c, b + 1))[i] = q[i]
  <2> SUFFICES ASSUME NEW i \in 1..b + 1 - a PROVE Append(p, At(c, b + 1))[i] = q[i]
    OBVIOUS
  <2>1. CASE i \in 1..b - a
    BY <1>3, <1>4, <2>1
  <2>2. CASE i = b - a + 1
    <3>1. a + i = b + 1
      BY <2>2
    <3> QED
      BY <1>3, <1>4, <2>2, <3>1
  <2>3. i \in 1..b - a \/ i = b - a + 1
    BY <1>1
  <2> QED
    BY <2>1, <2>2, <2>3
<1>6. Append(p, At(c, b + 1)) = q
  BY <1>3, <1>4, <1>5, SeqEqual
<1> QED
  BY <1>6 DEF p, q

LEMMA PartOfOne ==
    ASSUME NEW c \in Seq(Char), NEW a \in Nat, a < Len(c)
    PROVE  Part(c, a, a + 1) = <<At(c, a + 1)>> /\ Part(c, a, a) = <<>>
<1>1. Part(c, a, a) = <<>>
  BY SubSeqEmpty DEF Part
<1>2. Append(<<>>, At(c, a + 1)) = <<At(c, a + 1)>>
  OBVIOUS
<1>3. Append(Part(c, a, a), At(c, a + 1)) = Part(c, a, a + 1)
  BY PartGrows
<1> QED
  BY <1>1, <1>2, <1>3

-----------------------------------------------------------------------------
(* What is claimed of a token, as a condition on it and on the file.       *)
Text(c) == /\ \A i \in 1..Len(c) : c[i] # NUL
           /\ Len(c) # 0 => c[Len(c)] = NL

StandsAt(c, from, op) == \A i \in 1..Len(op) : op[i] = At(c, from + i)
LongestAt(c, from, text) ==
    \A op \in Double \cup Triple : StandsAt(c, from, op) => Len(op) <= Len(text)
Longest(c, t) == t.kind = "op" /\ t.text # <<>> => LongestAt(c, t.from, t.text)
Recognised(t) == /\ t.kind = "key" => t.text \in Keywords
                 /\ t.kind = "id" => t.text \notin Keywords
WordStops(text, next) == next \notin (IF text = DoWord THEN Alnum ELSE WordChar)
Maximal(c, t) == t.kind \in {"key", "id"} => WordStops(t.text, At(c, t.to + 1))
ShortSpelled(c, text, from, to) ==
    /\ text \in {<<x>> : x \in NoPushBack \cup {"."}}
    /\ to = from + 2
    /\ text[1] = At(c, from + 1)
Spelled(c, t) ==
    t.kind \in {"key", "id", "number", "op"} /\ t.text # <<>> =>
        t.text = Part(c, t.from, t.to) \/ ShortSpelled(c, t.text, t.from, t.to)

TokenRight(c, t) ==
    /\ Longest(c, t) /\ Recognised(t)
    /\ Text(c) => Maximal(c, t) /\ Spelled(c, t)

TokenOf(kind, text, from, s) ==
    [kind |-> kind, text |-> text, from |-> from, to |-> Cursor(s),
     line |-> s.line, column |-> s.column]

(* What tmpBuffer holds inside a token: the file from start on.            *)
Collected(where, t, c, st, n) ==
    where \in Collecting => st <= n /\ n <= Len(c) /\ t = Part(c, st, n)

(* ... and what the loop the lexer is in has learnt of it.                 *)
OnKeyword(t) == KeywordPrefix(t) \/ t = DoWord
OffKeywords(t, next) == ~KeywordPrefix(t) /\ (t \in Keywords => next \in WordChar)
OneChar(t) == \E x \in Single \cup Starter : t = <<x>>
TwoChars(t) == \E op \in Triple : t = SubSeq(op, 1, 2)
Scanning(where, t, next) ==
    /\ where = "letter" => OnKeyword(t)
    /\ where = "identifier" => OffKeywords(t, next)
    /\ where = "operator" => OneChar(t)
    /\ where = "operator3" => TwoChars(t)

(* Nothing lies between the last token, which ends at to, and the next.    *)
Directive(c, i, from) ==
    \E h \in from + 1..i : c[h] = "#" /\ \A j \in h..i - 1 : c[j] # NL
Clear(c, i, from) == \/ c[i] \in Blank \cup LineBreak \cup {Byte255}
                     \/ Directive(c, i, from)
Passed(c, from, to) == \A i \in from + 1..to : Clear(c, i, from)
InLine(c, st, n) == /\ st < n /\ At(c, st + 1) = "#"
                    /\ \A i \in st + 1..n : At(c, i) # NL
Between(where, c, to, st, n) ==
    IF where \in {"blank", "first"} THEN to <= n /\ Passed(c, to, n)
    ELSE /\ to <= st /\ st <= n /\ Passed(c, to, st)
         /\ where = "resynch" => InLine(c, st, n)
         /\ where \in {"string", "strtail"} => st < n

(* The inductive invariant.                                                *)
TInv ==
    /\ IInv
    /\ Collected(pc, tmp, content, start, Cursor(src))
    /\ Scanning(pc, tmp, At(content, Cursor(src) + 1))
    /\ TokenRight(content, tok)
    /\ Text(content) => Between(pc, content, tok.to, start, Cursor(src))

(* What a step keeps, and what it does to the last token.                  *)
Orderly ==
    tok' # tok => /\ tok.to <= tok'.from /\ tok'.from < tok'.to
                  /\ Passed(content, tok.to, tok'.from)
StaysRight == TInv' /\ (Text(content) => Orderly)

-----------------------------------------------------------------------------
(* The shapes of a step.                                                   *)
LEMMA TextReturned ==
    ASSUME TInv, IInv', NEW kind, NEW text, NEW s, Return(kind, text, s),
           Cursor(s) \in Nat, TokenRight(content, TokenOf(kind, text, start, s)),
           pc \notin {"blank", "first"},
           Text(content) => start < Cursor(s)
    PROVE  StaysRight
<1>1. /\ src' = s /\ content' = content /\ pc' = "blank" /\ tmp' = <<>>
      /\ start' = start /\ tok' = TokenOf(kind, text, start, s)
  BY DEF Return, TokenOf
<1>2. tok'.from = start /\ tok'.to = Cursor(s)
  BY <1>1 DEF TokenOf
<1>3. Passed(content, Cursor(s), Cursor(s))
  BY DEF Passed
<1>4. TInv'
  BY <1>1, <1>2, <1>3 DEF TInv, Collected, Collecting, Scanning, Between
<1>5. ASSUME Text(content) PROVE Orderly
  BY <1>2, <1>5 DEF Orderly, TInv, Between
<1> QED
  BY <1>4, <1>5 DEF StaysRight

(* No token is returned.                                                   *)
LEMMA TextMoves ==
    ASSUME TInv, IInv', content' = content, tok' = tok,
           Collected(pc', tmp', content, start', Cursor(src')),
           Scanning(pc', tmp', At(content, Cursor(src') + 1)),
           Text(content) => Between(pc', content, tok.to, start', Cursor(src'))
    PROVE  StaysRight
BY DEF StaysRight, TInv, Orderly

LEMMA TextContinues ==
    ASSUME TInv, IInv', pc \in Collecting, NEW where \in Collecting, NEW t, NEW s,
           Continue(where, t, s), Cursor(s) = Cursor(src) + 1,
           Collected(where, t, content, start, Cursor(s)),
           Scanning(where, t, At(content, Cursor(s) + 1))
    PROVE  StaysRight
<1>1. /\ content' = content /\ tok' = tok /\ pc' = where /\ src' = s /\ tmp' = t
      /\ start' = start
  BY DEF Continue
<1>2. Text(content) => Between(where, content, tok.to, start, Cursor(s))
  <2>1. Cursor(src) \in Nat /\ start \in Nat
    BY GotIs DEF TInv, IInv, TypeOK
  <2> QED
    BY <2>1 DEF TInv, Between, Collecting
<1> QED
  BY <1>1, <1>2, TextMoves

-----------------------------------------------------------------------------
(* When a token is right.                                                  *)
LEMMA WordRight ==
    ASSUME NEW c, NEW kind \in {"key", "id"}, NEW text, NEW st, NEW s,
           kind = "key" => text \in Keywords, kind = "id" => text \notin Keywords,
           Text(c) => /\ WordStops(text, At(c, Cursor(s) + 1))
                      /\ text = Part(c, st, Cursor(s))
    PROVE  TokenRight(c, TokenOf(kind, text, st, s))
BY DEF TokenRight, TokenOf, Longest, Recognised, Maximal, Spelled

LEMMA OperatorRight ==
    ASSUME NEW c, NEW text, NEW st, NEW s, LongestAt(c, st, text),
           Text(c) => \/ text = Part(c, st, Cursor(s))
                      \/ ShortSpelled(c, text, st, Cursor(s))
    PROVE  TokenRight(c, TokenOf("op", text, st, s))
BY DEF TokenRight, TokenOf, Longest, Recognised, Maximal, Spelled

LEMMA NumberRight ==
    ASSUME NEW c, NEW text, NEW st, NEW s, Text(c) => text = Part(c, st, Cursor(s))
    PROVE  TokenRight(c, TokenOf("number", text, st, s))
BY DEF TokenRight, TokenOf, Longest, Recognised, Maximal, Spelled

LEMMA StringRight ==
    ASSUME NEW c, NEW text, NEW st, NEW s
    PROVE  TokenRight(c, TokenOf("string", text, st, s))
BY DEF TokenRight, TokenOf, Longest, Recognised, Maximal, Spelled

-----------------------------------------------------------------------------
(* Where the lexer is in the file.                                         *)
LEMMA PlaceIs ==
    ASSUME TInv
    PROVE  /\ content \in Seq(Char) /\ Len(content) \in Nat /\ start \in Nat
           /\ Cursor(src) \in Nat /\ Cursor(src) <= Len(content)
           /\ Got = At(content, Cursor(src) + 1)
           /\ Cursor(After) = IF Got = NUL THEN Cursor(src) ELSE Cursor(src) + 1
           /\ Got # NUL => Cursor(Undone) = Cursor(src) /\ Cursor(src) < Len(content)
           /\ tmp \in Seq(Char) /\ Got \in Char
<1>1. IInv
  BY DEF TInv
<1>2. /\ content \in Seq(Char) /\ Len(content) \in Nat
      /\ Cursor(src) \in Nat /\ Cursor(src) <= Len(content)
  BY <1>1, Typed DEF IInv, Fine
<1>3. start \in Nat
  BY <1>1 DEF IInv, TypeOK
<1>4. /\ Got = At(content, Cursor(src) + 1)
      /\ Cursor(After) = IF Got = NUL THEN Cursor(src) ELSE Cursor(src) + 1
      /\ Got # NUL => Cursor(Undone) = Cursor(src)
      /\ tmp \in Seq(Char) /\ Got \in Char
  BY <1>1, GotIs
<1>5. Got # NUL => Cursor(src) < Len(content)
  BY <1>2, <1>4 DEF At
<1> QED
  BY <1>2, <1>3, <1>4, <1>5

(* Inside a token tmpBuffer grows with the file.                           *)
LEMMA Grows ==
    ASSUME TInv, pc \in Collecting
    PROVE  /\ start <= Cursor(src) /\ tmp = Part(content, start, Cursor(src))
           /\ Len(tmp) = Cursor(src) - start
           /\ \A i \in 1..Len(tmp) : tmp[i] = At(content, start + i)
           /\ Got # NUL =>
                /\ Append(tmp, Got) = Part(content, start, Cursor(src) + 1)
                /\ Cursor(src) + 1 <= Len(content)
<1>1. /\ start <= Cursor(src) /\ Cursor(src) <= Len(content)
      /\ tmp = Part(content, start, Cursor(src))
  BY DEF TInv, Collected
<1>2. /\ Len(tmp) = Cursor(src) - start
      /\ \A i \in 1..Cursor(src) - start : tmp[i] = At(content, start + i)
  BY <1>1, PlaceIs, PartIs
<1>3. ASSUME Got # NUL
      PROVE  /\ Append(tmp, Got) = Part(content, start, Cursor(src) + 1)
             /\ Cursor(src) + 1 <= Len(content)
  BY <1>1, <1>3, PlaceIs, PartGrows
<1> QED
  BY <1>1, <1>2, <1>3

(* In a file that ends with a newline a token ends before the file does.   *)
LEMMA InTextGets ==
    ASSUME TInv, Text(content), pc \in Collecting
    PROVE  Got # NUL
<1> SUFFICES ASSUME Got = NUL PROVE FALSE
  OBVIOUS
<1>1. Cursor(src) = Len(content)
  BY PlaceIs DEF Text, At
<1>2. IF tmp = <<>> THEN Got \in Digit ELSE At(content, Cursor(src)) # NL
  BY PlaceIs DEF TInv, IInv, InToken
<1>3. CASE tmp = <<>>
  BY <1>2, <1>3, NoBreaks DEF WordChar, Alnum
<1>4. CASE tmp # <<>>
  <2>1. start < Cursor(src)
    <3>1. Len(tmp) # 0
      BY <1>4, PlaceIs, EmptySeq
    <3> QED
      BY <3>1, Grows, PlaceIs
  <2>2. At(content, Cursor(src)) = NL
    BY <1>1, <2>1, PlaceIs DEF Text, At
  <2> QED
    BY <1>2, <1>4, <2>2
<1> QED
  BY <1>3, <1>4

(* Where a token that is not empty begins before the cursor.               *)
LEMMA Begun ==
    ASSUME TInv, pc \in Collecting \ {"number"}
    PROVE  start < Cursor(src) /\ tmp # <<>>
<1>1. tmp # <<>>
  BY InsideIs DEF TInv
<1> QED
  BY <1>1, Grows, PlaceIs, EmptySeq

-----------------------------------------------------------------------------
(* The table of operators.                                                 *)
LEMMA OperatorsAre ==
    /\ \A op \in Double : Len(op) = 2 /\ op = <<op[1], op[2]>> /\ op[1] # "."
    /\ \A op \in Triple : /\ Len(op) = 3 /\ op = <<op[1], op[2], op[3]>>
                          /\ SubSeq(op, 1, 2) = <<op[1], op[2]>>
<1>1. \A op \in Double : Len(op) = 2 /\ op = <<op[1], op[2]>> /\ op[1] # "."
  BY DEF Double
<1>2. \A op \in Triple : Len(op) = 3 /\ op = <<op[1], op[2], op[3]>>
  BY DEF Triple
<1>3. ASSUME NEW a, NEW b, NEW d PROVE SubSeq(<<a, b, d>>, 1, 2) = <<a, b>>
  <2> DEFINE S == {a, b, d}
             q == SubSeq(<<a, b, d>>, 1, 2)
  <2>1. \A i \in 1..2 : <<a, b, d>>[i] \in S
    OBVIOUS
  <2>2. q \in Seq(S) /\ Len(q) = 2 /\ q[1] = a /\ q[2] = b
    BY <2>1, SubSeqProperties
  <2>3. <<a, b>> \in Seq(S) /\ Len(<<a, b>>) = 2
    OBVIOUS
  <2> HIDE DEF q, S
  <2>4. q = <<a, b>>
    BY <2>2, <2>3, SeqEqual
  <2> QED
    BY <2>4 DEF q
<1>4. \A op \in Triple : SubSeq(op, 1, 2) = <<op[1], op[2]>>
  <2> SUFFICES ASSUME NEW op \in Triple PROVE SubSeq(op, 1, 2) = <<op[1], op[2]>>
    OBVIOUS
  <2>1. op = <<op[1], op[2], op[3]>>
    BY <1>2
  <2>2. SubSeq(<<op[1], op[2], op[3]>>, 1, 2) = <<op[1], op[2]>>
    BY <1>3
  <2> QED
    BY <2>1, <2>2, Zenon
<1> QED
  BY <1>1, <1>2, <1>4

LEMMA SingleBeginsNone == \A op \in Double \cup Triple : op[1] \notin Single
<1> DEFINE First == {"!", "%", "^", "&", "*", "+", "-", "|", "<", ">", "/", "=", "."}
<1>1. \A op \in Double : op[1] \in First
  BY DEF Double
<1>2. \A op \in Triple : op[1] \in First
  BY DEF Triple
<1>3. First \cap Single = {}
  BY DEF Single
<1> HIDE DEF First
<1> QED
  BY <1>1, <1>2, <1>3

LEMMA DoubleIsNoHalf == \A op \in Triple : SubSeq(op, 1, 2) \notin Double
<1>1. {<<op[1], op[2]>> : op \in Triple} = {<<".", ".">>, <<"<", "<">>, <<">", ">">>}
  BY DEF Triple
<1>2. \A x \in {<<".", ".">>, <<"<", "<">>, <<">", ">">>} : x \notin Double
  BY DEF Double
<1> QED
  BY <1>1, <1>2, OperatorsAre

-----------------------------------------------------------------------------
(* The keywords and what begins them.                                      *)
LEMMA PrefixOfPrefix ==
    ASSUME NEW t \in Seq(Char), NEW ch \in Char,
           KeywordPrefix(Append(t, ch)) \/ Append(t, ch) \in Keywords
    PROVE  KeywordPrefix(t)
<1> DEFINE l == Append(t, ch)
<1>1. /\ Len(l) = Len(t) + 1 /\ Len(t) \in Nat
      /\ \A i \in 1..Len(t) : l[i] = t[i]
  BY AppendProperties, LenProperties
<1> HIDE DEF l
<1>2. PICK k \in Keywords : Len(t) < Len(k) /\ \A i \in 1..Len(t) : k[i] = t[i]
  <2>1. CASE l \in Keywords
    BY <1>1, <2>1
  <2>2. CASE KeywordPrefix(l)
    <3>1. PICK k \in Keywords : Len(l) < Len(k) /\ l = SubSeq(k, 1, Len(l))
      BY <2>2 DEF KeywordPrefix
    <3>2. k \in Seq(Letter) /\ Len(k) \in Nat
      BY KeywordsAssumption, LenProperties
    <3>3. \A i \in 1..Len(l) : k[i] \in Letter
      BY <1>1, <3>1, <3>2, ElementOfSeq
    <3>4. \A i \in 1..Len(l) - 1 + 1 : l[i] = k[1 + i - 1]
      BY <1>1, <3>1, <3>3, SubSeqProperties
    <3>5. \A i \in 1..Len(t) : k[i] = t[i]
      <4> SUFFICES ASSUME NEW i \in 1..Len(t) PROVE k[i] = t[i]
        OBVIOUS
      <4>1. i \in 1..Len(l) - 1 + 1 /\ 1 + i - 1 = i
        BY <1>1
      <4> QED
        BY <1>1, <3>4, <4>1
    <3> QED
      BY <1>1, <3>1, <3>2, <3>5
  <2> QED
    BY <2>1, <2>2 DEF l
<1>3. t = SubSeq(k, 1, Len(t))
  <2> DEFINE S == Char \cup Letter
             q == SubSeq(k, 1, Len(t))
  <2>1. k \in Seq(Letter) /\ Len(k) \in Nat
    BY KeywordsAssumption, LenProperties
  <2>2. \A i \in 1..Len(t) : k[i] \in S
    BY <1>1, <1>2, <2>1, ElementOfSeq
  <2>3. /\ q \in Seq(S) /\ Len(q) = IF 1 <= Len(t) THEN Len(t) - 1 + 1 ELSE 0
        /\ \A i \in 1..Len(t) - 1 + 1 : q[i] = k[1 + i - 1]
    BY <1>1, <2>2, SubSeqProperties
  <2>4. Len(q) = Len(t) /\ \A i \in 1..Len(t) : q[i] = k[i]
    <3>1. ASSUME NEW i \in 1..Len(t) PROVE q[i] = k[i]
      <4>1. i \in 1..Len(t) - 1 + 1 /\ 1 + i - 1 = i
        BY <1>1
      <4> QED
        BY <2>3, <4>1
    <3> QED
      BY <1>1, <2>3, <3>1
  <2>5. t \in Seq(S)
    BY SeqMonotonic
  <2> HIDE DEF q, S
  <2>6. t = q
    BY <1>1, <1>2, <2>3, <2>4, <2>5, SeqEqual
  <2> QED
    BY <2>6 DEF q
<1> QED
  BY <1>2, <1>3 DEF KeywordPrefix

LEMMA FirstOfKeyword ==
    ASSUME NEW k \in Keywords
    PROVE  Len(k) > 1 /\ SubSeq(k, 1, 1) = <<k[1]>> /\ k[1] \in KeywordInitial
           /\ k[1] \in Letter
<1>1. k \in Seq(Letter) /\ Len(k) > 1 /\ Len(k) \in Nat
  BY KeywordsAssumption, LenProperties
<1>2. k[1] \in KeywordInitial
  BY DEF KeywordInitial
<1>3. k[1] \in Letter
  BY <1>2, NoBreaks
<1>4. SubSeq(k, 1, 1) = <<k[1]>>
  <2> DEFINE q == SubSeq(k, 1, 1)
  <2>1. \A i \in 1..1 : k[i] \in Letter
    BY <1>3
  <2>2. q \in Seq(Letter) /\ Len(q) = 1 /\ q[1] = k[1]
    BY <2>1, SubSeqProperties
  <2>3. <<k[1]>> \in Seq(Letter) /\ Len(<<k[1]>>) = 1 /\ <<k[1]>>[1] = k[1]
    BY <1>3
  <2> HIDE DEF q
  <2>4. q = <<k[1]>>
    BY <2>2, <2>3, SeqEqual
  <2> QED
    BY <2>4 DEF q
<1> QED
  BY <1>1, <1>2, <1>3, <1>4

LEMMA BeginsKeyword ==
    ASSUME NEW ch \in KeywordInitial
    PROVE  KeywordPrefix(<<ch>>)
<1>1. PICK k \in Keywords : ch = k[1]
  BY DEF KeywordInitial
<1>2. Len(<<ch>>) = 1
  OBVIOUS
<1> QED
  BY <1>1, <1>2, FirstOfKeyword DEF KeywordPrefix

LEMMA BeginsNoKeyword ==
    ASSUME NEW ch \in (Letter \ KeywordInitial) \cup {"_"}
    PROVE  ~KeywordPrefix(<<ch>>) /\ <<ch>> \notin Keywords
<1>1. Len(<<ch>>) = 1 /\ <<ch>>[1] = ch
  OBVIOUS
<1>2. ch \notin KeywordInitial
  BY NoBreaks, AlphabetAssumption
<1>3. \A k \in Keywords : SubSeq(k, 1, 1) # <<ch>>
  <2> SUFFICES ASSUME NEW k \in Keywords, SubSeq(k, 1, 1) = <<ch>> PROVE FALSE
    OBVIOUS
  <2>1. <<k[1]>> = <<ch>> /\ k[1] \in KeywordInitial
    BY FirstOfKeyword
  <2>2. k[1] = ch
    BY <2>1
  <2> QED
    BY <1>2, <2>1, <2>2
<1> QED
  BY <1>1, <1>3, FirstOfKeyword DEF KeywordPrefix

-----------------------------------------------------------------------------
(* Between tokens.                                                         *)
LEMMA PassedOn ==
    ASSUME NEW c, NEW from \in Nat, NEW n \in Nat, Passed(c, from, n),
           Clear(c, n + 1, from)
    PROVE  Passed(c, from, n + 1)
<1>1. \A i \in from + 1..n + 1 : i \in from + 1..n \/ i = n + 1
  OBVIOUS
<1> QED
  BY <1>1 DEF Passed

LEMMA ToIs == ASSUME TInv PROVE tok.to \in Nat /\ tok.from \in Nat
BY DEF TInv, IInv, TypeOK, Tokens

LEMMA GotIsThere ==
    ASSUME TInv, Got # NUL
    PROVE  content[Cursor(src) + 1] = Got /\ Cursor(src) + 1 \in 1..Len(content)
BY PlaceIs DEF At

(* A blank or a line break is passed.                                      *)
LEMMA BlankPassed ==
    ASSUME TInv, pc \in {"blank", "first"}, Text(content),
           Got = NUL \/ Got \in Blank \cup LineBreak \cup {Byte255}
    PROVE  tok.to <= Cursor(After) /\ Passed(content, tok.to, Cursor(After))
<1>1. tok.to <= Cursor(src) /\ Passed(content, tok.to, Cursor(src))
  BY DEF TInv, Between
<1>2. CASE Got = NUL
  BY <1>1, <1>2, PlaceIs
<1>3. CASE Got # NUL
  <2>1. Clear(content, Cursor(src) + 1, tok.to)
    BY <1>3, GotIsThere DEF Clear
  <2>2. Cursor(After) = Cursor(src) + 1 /\ Cursor(src) \in Nat /\ tok.to \in Nat
    BY <1>3, PlaceIs, ToIs
  <2> QED
    BY <1>1, <2>1, <2>2, PassedOn
<1> QED
  BY <1>2, <1>3

LEMMA SkipBlankText == ASSUME TInv, IInv', SkipBlank PROVE StaysRight
<1>1. pc = "blank"
  BY DEF SkipBlank
<1>2. PICK where \in {"blank", "first"}, s \in {After, Undone} :
        /\ Continue(where, <<>>, s)
        /\ \/ s = After /\ (Got = NUL \/ Got \in Blank)
           \/ s = Undone /\ Got # NUL
  BY DEF SkipBlank
<1>3. /\ content' = content /\ tok' = tok /\ pc' = where /\ src' = s /\ tmp' = <<>>
      /\ start' = start
  BY <1>2 DEF Continue
<1>4. ASSUME Text(content) PROVE tok.to <= Cursor(s) /\ Passed(content, tok.to, Cursor(s))
  <2>1. CASE s = After /\ (Got = NUL \/ Got \in Blank)
    BY <1>1, <1>4, <2>1, BlankPassed
  <2>2. CASE s = Undone /\ Got # NUL
    BY <1>1, <1>4, <2>2, PlaceIs DEF TInv, Between
  <2> QED
    BY <1>2, <2>1, <2>2
<1> QED
  BY <1>3, <1>4, TextMoves DEF Collected, Collecting, Scanning, Between

-----------------------------------------------------------------------------
(* A token or a directive begins.                                          *)
LEMMA TextDispatches ==
    ASSUME TInv, IInv', pc = "first", NEW where \in Pcs \ {"blank", "first", "strtail"},
           NEW t, NEW s, Dispatch(where, t, s), Cursor(s) \in {Cursor(src), Cursor(After)},
           Collected(where, t, content, Cursor(src), Cursor(s)),
           Scanning(where, t, At(content, Cursor(s) + 1)),
           where = "resynch" => InLine(content, Cursor(src), Cursor(s)),
           where = "string" => Cursor(src) < Cursor(s)
    PROVE  StaysRight
<1>1. /\ content' = content /\ tok' = tok /\ pc' = where /\ src' = s /\ tmp' = t
      /\ start' = Cursor(src)
  BY DEF Dispatch
<1>2. Cursor(src) <= Cursor(s)
  BY PlaceIs
<1>3. ASSUME Text(content)
      PROVE  Between(where, content, tok.to, Cursor(src), Cursor(s))
  BY <1>2, <1>3 DEF TInv, Between
<1> QED
  BY <1>1, <1>3, TextMoves

LEMMA CollectedOne ==
    ASSUME TInv, Got # NUL, NEW where
    PROVE  /\ Collected(where, <<Got>>, content, Cursor(src), Cursor(After))
           /\ Collected(where, <<>>, content, Cursor(src), Cursor(Undone))
BY PlaceIs, PartOfOne DEF Collected

LEMMA FirstCharText == ASSUME TInv, IInv', FirstChar PROVE StaysRight
<1>1. pc = "first"
  BY DEF FirstChar
<1>2. CASE Got \in LineBreak \cup {Byte255} /\ Dispatch("blank", <<>>, After)
  <2>1. /\ content' = content /\ tok' = tok /\ pc' = "blank" /\ src' = After
        /\ tmp' = <<>>
    BY <1>2 DEF Dispatch
  <2> QED
    BY <1>1, <1>2, <2>1, BlankPassed, TextMoves
       DEF Collected, Collecting, Scanning, Between
<1>3. CASE Got = "#" /\ Dispatch("resynch", <<>>, After)
  <2>1. Got # NUL /\ Got # NL
    BY <1>3, AlphabetAssumption
  <2>2. InLine(content, Cursor(src), Cursor(After))
    BY <1>3, <2>1, PlaceIs DEF InLine
  <2> QED
    BY <1>1, <1>3, <2>2, TextDispatches DEF Collected, Collecting, Scanning, Pcs
<1>4. CASE Got \in Digit /\ Dispatch("number", <<>>, Undone)
  <2>1. Got # NUL
    BY <1>4, NoBreaks DEF WordChar, Alnum
  <2> QED
    BY <1>1, <1>4, <2>1, CollectedOne, PlaceIs, TextDispatches DEF Scanning, Pcs
<1>5. ASSUME NEW where \in {"letter", "identifier", "operator"}, Got # NUL,
             Dispatch(where, <<Got>>, After),
             Scanning(where, <<Got>>, At(content, Cursor(After) + 1))
      PROVE  StaysRight
  BY <1>1, <1>5, CollectedOne, PlaceIs, TextDispatches DEF Pcs
<1>6. CASE Got \in KeywordInitial /\ Dispatch("letter", <<Got>>, After)
  BY <1>5, <1>6, BeginsKeyword, NoBreaks DEF Scanning, OnKeyword, WordChar, Alnum
<1>7. CASE Got \in (Letter \ KeywordInitial) \cup {"_"} /\ Dispatch("identifier", <<Got>>, After)
  BY <1>5, <1>7, BeginsNoKeyword, NoBreaks DEF Scanning, OffKeywords, WordChar, Alnum
<1>8. CASE Got \in Single \cup Starter /\ Dispatch("operator", <<Got>>, After)
  BY <1>5, <1>8, NoBreaks DEF Scanning, OneChar
<1>9. ASSUME NEW where \in {"char", "done"}, Dispatch(where, <<>>, After) PROVE StaysRight
  BY <1>1, <1>9, TextDispatches DEF Collected, Collecting, Scanning, Pcs
<1>10. CASE Got = Quote /\ Dispatch("string", <<>>, After)
  <2>1. Got # NUL
    BY <1>10, QuoteAssumption, Zenon
  <2>2. Dispatch("string", <<>>, After)
    BY <1>10, Zenon
  <2>3. Cursor(src) < Cursor(After)
    BY <2>1, PlaceIs
  <2> QED
    BY <1>1, <2>2, <2>3, TextDispatches DEF Collected, Collecting, Scanning, Pcs
<1> QED
  BY <1>2, <1>3, <1>4, <1>6, <1>7, <1>8, <1>9, <1>10, Zenon DEF FirstChar

LEMMA IllegalCharText == ASSUME TInv, IInv', IllegalChar PROVE StaysRight
<1>1. Got # NUL /\ pc = "first"
  BY DEF IllegalChar, Known
<1>2. /\ src' = After /\ content' = content /\ pc' = "blank" /\ tmp' = <<>>
      /\ start' = Cursor(src)
      /\ tok' = [kind |-> "op", text |-> <<>>, from |-> Cursor(src),
                 to |-> Cursor(After), line |-> After.line, column |-> After.column]
  BY DEF IllegalChar
<1>3. TokenRight(content, tok')
  BY <1>2 DEF TokenRight, Longest, Recognised, Maximal, Spelled
<1>4. tok'.from = Cursor(src) /\ tok'.to = Cursor(After) /\ Cursor(src) < Cursor(After)
      /\ Cursor(After) \in Nat
  BY <1>1, <1>2, PlaceIs
<1>5. Passed(content, Cursor(After), Cursor(After))
  BY <1>4 DEF Passed
<1>6. TInv'
  BY <1>2, <1>3, <1>4, <1>5 DEF TInv, Collected, Collecting, Scanning, Between
<1>7. ASSUME Text(content) PROVE Orderly
  BY <1>1, <1>4, <1>7 DEF Orderly, TInv, Between
<1> QED
  BY <1>6, <1>7 DEF StaysRight

(* A directive ends with its line.                                         *)
LEMMA LinePassed ==
    ASSUME NEW c \in Seq(Char), NEW from \in Nat, NEW st \in Nat, NEW n \in Nat,
           from <= st, Passed(c, from, st), InLine(c, st, n), n < Len(c)
    PROVE  Passed(c, from, n + 1)
<1> SUFFICES ASSUME NEW i \in from + 1..n + 1 PROVE Clear(c, i, from)
  BY DEF Passed
<1>1. CASE i <= st
  BY <1>1 DEF Passed
<1>2. CASE i > st
  <2>1. st + 1 \in from + 1..i /\ Len(c) \in Nat
    BY <1>2, LenProperties
  <2>2. c[st + 1] = "#"
    BY <2>1 DEF InLine, At
  <2>3. \A j \in st + 1..i - 1 : c[j] # NL
    <3> SUFFICES ASSUME NEW j \in st + 1..i - 1 PROVE c[j] # NL
      OBVIOUS
    <3>1. j \in st + 1..n /\ j \in 1..Len(c)
      BY <2>1
    <3> QED
      BY <3>1 DEF InLine, At
  <2> QED
    BY <2>1, <2>2, <2>3 DEF Clear, Directive
<1> QED
  BY <1>1, <1>2

LEMMA ResynchText == ASSUME TInv, IInv', Resynch PROVE StaysRight
<1>1. PICK where \in {"blank", "resynch"} :
        /\ pc = "resynch" /\ Continue(where, <<>>, After)
        /\ IF where = "blank" THEN Got = NL ELSE Got # NL
  BY DEF Resynch
<1>2. /\ content' = content /\ tok' = tok /\ pc' = where /\ src' = After /\ tmp' = <<>>
      /\ start' = start
  BY <1>1 DEF Continue
<1>3. ASSUME Text(content)
      PROVE  Between(where, content, tok.to, start, Cursor(After))
  <2>1. /\ tok.to <= start /\ Passed(content, tok.to, start)
        /\ start <= Cursor(src) /\ InLine(content, start, Cursor(src))
    BY <1>1, <1>3 DEF TInv, Between
  <2>2. CASE where = "blank"
    <3>1. Cursor(After) = Cursor(src) + 1 /\ Cursor(src) < Len(content)
      BY <1>1, <2>2, PlaceIs, CharAssumption
    <3>2. Passed(content, tok.to, Cursor(src) + 1)
      BY <2>1, <3>1, PlaceIs, ToIs, LinePassed
    <3> QED
      BY <2>1, <2>2, <3>1, <3>2, PlaceIs, ToIs DEF Between
  <2>3. CASE where = "resynch"
    <3>1. InLine(content, start, Cursor(After))
      BY <1>1, <2>1, <2>3, PlaceIs DEF InLine
    <3> QED
      BY <2>1, <2>3, <3>1, PlaceIs DEF Between
  <2> QED
    BY <2>2, <2>3
<1> QED
  BY <1>2, <1>3, TextMoves DEF Collected, Collecting, Scanning

-----------------------------------------------------------------------------
(* Words.                                                                  *)
LEMMA WordContinues ==
    ASSUME TInv, IInv', pc \in Collecting, Got # NUL, NEW where \in Collecting, NEW s,
           Continue(where, Append(tmp, Got), s), Cursor(s) = Cursor(After),
           Scanning(where, Append(tmp, Got), At(content, Cursor(s) + 1))
    PROVE  StaysRight
<1>1. Cursor(s) = Cursor(src) + 1
  BY PlaceIs
<1>2. Collected(where, Append(tmp, Got), content, start, Cursor(s))
  BY <1>1, Grows, PlaceIs DEF Collected
<1> QED
  BY <1>1, <1>2, TextContinues

LEMMA KeywordGoesOnText == ASSUME TInv, IInv', KeywordGoesOn PROVE StaysRight
<1>1. DoWord \in Keywords
  BY KeywordsAssumption DEF DoWord
<1>2. /\ pc = "letter" /\ OnKeyword(Letters) /\ Continue("letter", Letters, After)
      /\ Got # NUL
  BY <1>1, KeywordLetter DEF KeywordGoesOn, OnKeyword, TInv
<1> QED
  BY <1>2, WordContinues DEF Letters, Scanning, Collecting

(* A word that ends before the character got.                              *)
LEMMA WordEndsHere ==
    ASSUME TInv, IInv', pc \in {"letter", "identifier"}, NEW kind \in {"key", "id"},
           NEW s \in {After, Undone}, s = After => Got = NUL,
           Return(kind, tmp, s), WordStops(tmp, Got),
           kind = "key" => tmp \in Keywords, kind = "id" => tmp \notin Keywords
    PROVE  StaysRight
<1>1. pc \in Collecting \ {"number"} /\ pc \notin {"blank", "first"}
  BY DEF Collecting
<1>2. ASSUME Text(content)
      PROVE  /\ Cursor(s) = Cursor(src) /\ WordStops(tmp, At(content, Cursor(s) + 1))
             /\ tmp = Part(content, start, Cursor(s))
  BY <1>1, <1>2, InTextGets, PlaceIs, Grows
<1>3. TokenRight(content, TokenOf(kind, tmp, start, s))
  BY <1>2, WordRight
<1>4. Text(content) => start < Cursor(s)
  BY <1>1, <1>2, Begun
<1>5. Cursor(s) \in Nat
  BY <1>1, PlaceIs, InsideIs, Typed DEF TInv, Fine
<1> QED
  BY <1>1, <1>3, <1>4, <1>5, TextReturned

LEMMA DoKeywordText == ASSUME TInv, IInv', DoKeyword PROVE StaysRight
<1>1. /\ pc = "letter" /\ tmp = DoWord /\ Got \notin Alnum /\ Return("key", DoWord, Undone)
  BY DEF DoKeyword, DoEnds
<1>2. DoWord \in Keywords
  BY KeywordsAssumption DEF DoWord
<1>3. Undone = After => Got = NUL
  BY PlaceIs
<1> QED
  BY <1>1, <1>2, <1>3, WordEndsHere DEF WordStops

(* What CHECK_NEXT tells: whether the word ends before the next character. *)
LEMMA AheadSees ==
    ASSUME NEW s, Fine(content, s)
    PROVE  /\ AheadChar(s) = At(content, Cursor(s) + 1)
           /\ WordEnds(s) <=> At(content, Cursor(s) + 1) \notin WordChar
           /\ Cursor(WordEndsSrc(s)) = Cursor(s)
<1>1. AheadChar(s) = At(content, Cursor(s) + 1)
  BY FileLookSound, Typed DEF Fine, AheadChar
<1>2. Fine(content, AheadSrc(s)) /\ Cursor(AheadSrc(s)) = Cursor(s)
  BY AheadIs
<1>3. AheadChar(AheadSrc(s)) = At(content, Cursor(s) + 1)
  BY <1>2, FileLookSound, Typed DEF Fine, AheadChar
<1> QED
  BY <1>1, <1>3, AheadIs DEF WordEnds, WordChar

LEMMA KeywordEndsText == ASSUME TInv, IInv', KeywordEnds PROVE StaysRight
<1> DEFINE s == WordEndsSrc(After)
<1>1. /\ pc = "letter" /\ Letters \in Keywords \ {DoWord}
      /\ \/ WordEnds(After) /\ Return("key", Letters, s)
         \/ ~WordEnds(After) /\ Continue("identifier", Letters, s)
  BY DEF KeywordEnds
<1>2. pc \in Collecting /\ Got # NUL /\ Letters = Append(tmp, Got)
  BY <1>1, KeywordLetter DEF Collecting, Letters, TInv
<1>3. Fine(content, After)
  BY GotIs DEF TInv
<1>4. /\ Cursor(s) = Cursor(After) /\ Cursor(s) = Cursor(src) + 1
      /\ WordEnds(After) <=> At(content, Cursor(s) + 1) \notin WordChar
  BY <1>2, <1>3, AheadSees, PlaceIs
<1> HIDE DEF s
<1>5. CASE WordEnds(After) /\ Return("key", Letters, s)
  <2>1. Letters = Part(content, start, Cursor(s)) /\ start < Cursor(s) /\ Cursor(s) \in Nat
    BY <1>2, <1>4, Grows, PlaceIs
  <2>2. WordStops(Letters, At(content, Cursor(s) + 1))
    BY <1>4, <1>5 DEF WordStops, WordChar
  <2>3. TokenRight(content, TokenOf("key", Letters, start, s))
    BY <1>1, <2>1, <2>2, WordRight
  <2> QED
    BY <1>1, <1>5, <2>1, <2>3, TextReturned
<1>6. CASE ~WordEnds(After) /\ Continue("identifier", Letters, s)
  <2>1. ~KeywordPrefix(Letters)
    BY <1>1, PrefixAssumption
  <2>2. Scanning("identifier", Letters, At(content, Cursor(s) + 1))
    BY <1>4, <1>6, <2>1 DEF Scanning, OffKeywords
  <2> QED
    BY <1>2, <1>4, <1>6, <2>2, WordContinues DEF Collecting
<1> QED
  BY <1>1, <1>5, <1>6

(* A word that has left the keywords goes on or ends.                      *)
LEMMA LeaveText ==
    ASSUME TInv, IInv', pc \in {"letter", "identifier"}, LeaveKeywords(Append(tmp, Got)),
           ~KeywordPrefix(Append(tmp, Got)), Append(tmp, Got) \notin Keywords,
           Got \notin WordChar => tmp \notin Keywords
    PROVE  StaysRight
<1>1. CASE Got \in WordChar /\ Continue("identifier", Append(tmp, Got), After)
  <2>1. Got # NUL
    BY <1>1, NoBreaks
  <2> QED
    BY <1>1, <2>1, WordContinues DEF Scanning, OffKeywords, Collecting
<1>2. CASE Got \notin WordChar /\ Return("id", tmp, IF Got = NUL THEN After ELSE Undone)
  <2>1. WordStops(tmp, Got)
    BY <1>2 DEF WordStops, WordChar
  <2>2. PICK s \in {After, Undone} : (s = After => Got = NUL) /\ Return("id", tmp, s)
    BY <1>2, PlaceIs
  <2> QED
    BY <1>2, <2>1, <2>2, WordEndsHere
<1> QED
  BY <1>1, <1>2 DEF LeaveKeywords

LEMMA NoKeywordText == ASSUME TInv, IInv', NoKeyword PROVE StaysRight
<1>1. /\ pc = "letter" /\ ~DoEnds /\ LeaveKeywords(Append(tmp, Got))
      /\ ~KeywordPrefix(Append(tmp, Got)) /\ Append(tmp, Got) \notin Keywords
  BY DEF NoKeyword, Letters
<1>2. OnKeyword(tmp)
  BY <1>1 DEF TInv, Scanning
<1>3. ASSUME Got \notin WordChar PROVE tmp \notin Keywords
  <2>1. tmp # DoWord
    BY <1>1, <1>3 DEF DoEnds, WordChar
  <2> QED
    BY <1>2, <2>1, PrefixAssumption DEF OnKeyword
<1> QED
  BY <1>1, <1>3, LeaveText

LEMMA IdentifierCharText == ASSUME TInv, IInv', IdentifierChar PROVE StaysRight
<1>1. pc = "identifier" /\ LeaveKeywords(Append(tmp, Got))
  BY DEF IdentifierChar
<1>2. OffKeywords(tmp, Got)
  BY <1>1, PlaceIs DEF TInv, Scanning
<1>3. ~KeywordPrefix(Append(tmp, Got)) /\ Append(tmp, Got) \notin Keywords
  BY <1>2, PlaceIs, PrefixOfPrefix DEF OffKeywords
<1> QED
  BY <1>1, <1>2, <1>3, LeaveText DEF OffKeywords

LEMMA NumberStepText == ASSUME TInv, IInv', NumberStep PROVE StaysRight
<1>1. pc = "number" /\ pc \in Collecting
  BY DEF NumberStep, Collecting
<1>2. CASE Got \in NumberChar /\ Continue("number", Append(tmp, Got), After)
  BY <1>1, <1>2, NoBreaks, WordContinues DEF Scanning, Collecting
<1>3. CASE Got \notin NumberChar /\ Return("number", tmp, Undone)
  <2>1. tmp # <<>> /\ Fine(content, Undone)
    <3>1. IF tmp = <<>> THEN Got \in Digit ELSE At(content, Cursor(src)) # NL
      BY <1>1, PlaceIs DEF TInv, IInv, InToken
    <3> QED
      BY <1>3, <3>1, GotIs DEF NumberChar, Alnum, TInv
  <2>2. ASSUME Text(content) PROVE Cursor(Undone) = Cursor(src)
    BY <1>1, <2>2, InTextGets, PlaceIs
  <2>3. TokenRight(content, TokenOf("number", tmp, start, Undone))
    BY <1>1, <2>2, Grows, NumberRight
  <2>4. start < Cursor(src)
    BY <1>1, <2>1, Grows, PlaceIs, EmptySeq
  <2>5. Cursor(Undone) \in Nat
    BY <2>1, Typed DEF Fine
  <2> QED
    BY <1>1, <1>3, <2>2, <2>3, <2>4, <2>5, TextReturned
<1> QED
  BY <1>2, <1>3 DEF NumberStep

-----------------------------------------------------------------------------
(* Operators.                                                              *)
LEMMA StandingAre ==
    ASSUME NEW c, NEW from \in Nat, NEW op, StandsAt(c, from, op)
    PROVE  /\ op \in Double => op = <<At(c, from + 1), At(c, from + 2)>>
           /\ op \in Triple => /\ op = <<At(c, from + 1), At(c, from + 2), At(c, from + 3)>>
                               /\ SubSeq(op, 1, 2) = <<At(c, from + 1), At(c, from + 2)>>
<1>1. ASSUME op \in Double PROVE op = <<At(c, from + 1), At(c, from + 2)>>
  <2>1. op[1] = At(c, from + 1) /\ op[2] = At(c, from + 2)
    BY <1>1, OperatorsAre DEF StandsAt
  <2> QED
    BY <1>1, <2>1, OperatorsAre
<1>2. ASSUME op \in Triple
      PROVE  /\ op = <<At(c, from + 1), At(c, from + 2), At(c, from + 3)>>
             /\ SubSeq(op, 1, 2) = <<At(c, from + 1), At(c, from + 2)>>
  <2>1. op[1] = At(c, from + 1) /\ op[2] = At(c, from + 2) /\ op[3] = At(c, from + 3)
    BY <1>2, OperatorsAre DEF StandsAt
  <2> QED
    BY <1>2, <2>1, OperatorsAre
<1> QED
  BY <1>1, <1>2

LEMMA ShortAppends ==
    ASSUME NEW x, NEW y, NEW z
    PROVE  Append(<<x>>, y) = <<x, y>> /\ Append(<<x, y>>, z) = <<x, y, z>>
<1> DEFINE S == {x, y, z}
<1>1. <<x>> \in Seq(S) /\ <<x, y>> \in Seq(S) /\ <<x, y, z>> \in Seq(S)
  OBVIOUS
<1>2. Append(<<x>>, y) = <<x, y>>
  <2> DEFINE p == <<x>>
             q == <<x, y>>
  <2>1. Len(p) = 1 /\ p[1] = x /\ Len(q) = 2 /\ q[1] = x /\ q[2] = y
    OBVIOUS
  <2>2. p \in Seq(S) /\ q \in Seq(S) /\ y \in S
    BY <1>1
  <2> HIDE DEF p, q, S
  <2>3. /\ Append(p, y) \in Seq(S) /\ Len(Append(p, y)) = Len(p) + 1
        /\ \A i \in 1..Len(p) : Append(p, y)[i] = p[i]
        /\ Append(p, y)[Len(p) + 1] = y
    BY <2>2, AppendProperties
  <2>4. Append(p, y) = q
    BY <2>1, <2>2, <2>3, SeqEqual
  <2> QED
    BY <2>4 DEF p, q
<1>3. Append(<<x, y>>, z) = <<x, y, z>>
  <2> DEFINE p == <<x, y>>
             q == <<x, y, z>>
  <2>1. /\ Len(p) = 2 /\ p[1] = x /\ p[2] = y
        /\ Len(q) = 3 /\ q[1] = x /\ q[2] = y /\ q[3] = z
    OBVIOUS
  <2>2. p \in Seq(S) /\ q \in Seq(S) /\ z \in S
    BY <1>1
  <2> HIDE DEF p, q, S
  <2>3. /\ Append(p, z) \in Seq(S) /\ Len(Append(p, z)) = Len(p) + 1
        /\ \A i \in 1..Len(p) : Append(p, z)[i] = p[i]
        /\ Append(p, z)[Len(p) + 1] = z
    BY <2>2, AppendProperties
  <2>4. Append(p, z) = q
    BY <2>1, <2>2, <2>3, SeqEqual
  <2> QED
    BY <2>4 DEF p, q
<1> QED
  BY <1>2, <1>3

(* The text of an operator is returned.                                    *)
LEMMA OperatorReturned ==
    ASSUME TInv, IInv', pc \in {"operator", "operator3"}, NEW text, NEW s,
           Return("op", text, s), Cursor(s) \in Nat, LongestAt(content, start, text),
           Text(content) => \/ text = Part(content, start, Cursor(s))
                            \/ ShortSpelled(content, text, start, Cursor(s)),
           Text(content) => start < Cursor(s)
    PROVE  StaysRight
BY OperatorRight, TextReturned

LEMMA OneCharIs ==
    ASSUME TInv, pc = "operator"
    PROVE  /\ Cursor(src) = start + 1 /\ tmp = <<tmp[1]>> /\ Len(tmp) = 1
           /\ tmp[1] = At(content, start + 1) /\ Got = At(content, start + 2)
           /\ Append(tmp, Got) = <<tmp[1], Got>>
<1>1. tmp = <<tmp[1]>> /\ Len(tmp) = 1
  BY DEF TInv, Scanning, OneChar
<1>2. Cursor(src) = start + 1 /\ tmp[1] = At(content, start + 1)
  BY <1>1, Grows, PlaceIs DEF Collecting
<1>3. Got = At(content, start + 2)
  BY <1>2, PlaceIs
<1>4. Append(<<tmp[1]>>, Got) = <<tmp[1], Got>>
  BY ShortAppends
<1> QED
  BY <1>1, <1>2, <1>3, <1>4

LEMMA TwoCharsAre ==
    ASSUME TInv, pc = "operator3"
    PROVE  /\ Cursor(src) = start + 2 /\ Len(tmp) = 2 /\ TwoChars(tmp)
           /\ tmp[1] = At(content, start + 1) /\ tmp[2] = At(content, start + 2)
           /\ Got = At(content, start + 3) /\ tmp = <<tmp[1], tmp[2]>>
           /\ Append(tmp, Got) = <<tmp[1], tmp[2], Got>>
<1>1. TwoChars(tmp)
  BY DEF TInv, Scanning
<1>2. PICK op \in Triple : tmp = <<op[1], op[2]>>
  BY <1>1, OperatorsAre DEF TwoChars
<1>3. Len(tmp) = 2 /\ tmp = <<tmp[1], tmp[2]>>
  BY <1>2
<1>4. /\ Cursor(src) = start + 2 /\ tmp[1] = At(content, start + 1)
      /\ tmp[2] = At(content, start + 2)
  BY <1>3, Grows, PlaceIs DEF Collecting
<1>5. Got = At(content, start + 3)
  BY <1>4, PlaceIs
<1>6. Append(<<tmp[1], tmp[2]>>, Got) = <<tmp[1], tmp[2], Got>>
  BY ShortAppends
<1> QED
  BY <1>1, <1>3, <1>4, <1>5, <1>6

LEMMA SingleText ==
    ASSUME TInv, IInv', pc = "operator", tmp[1] \in Single, Return("op", tmp, src)
    PROVE  StaysRight
<1>1. LongestAt(content, start, tmp)
  <2> SUFFICES ASSUME NEW op \in Double \cup Triple, StandsAt(content, start, op)
               PROVE  FALSE
    BY DEF LongestAt
  <2>1. op[1] = tmp[1]
    BY OneCharIs, OperatorsAre DEF StandsAt
  <2> QED
    BY <2>1, SingleBeginsNone
<1>2. tmp = Part(content, start, Cursor(src)) /\ start < Cursor(src)
  BY Grows, OneCharIs, PlaceIs DEF Collecting
<1> QED
  BY <1>1, <1>2, PlaceIs, OperatorReturned

LEMMA OperatorStepText == ASSUME TInv, IInv', OperatorStep PROVE StaysRight
<1> DEFINE op == Append(tmp, Got)
<1>1. pc = "operator" /\ pc \in Collecting \ {"number"}
  BY DEF OperatorStep, Collecting
<1>2. op = <<At(content, start + 1), At(content, start + 2)>>
  BY <1>1, OneCharIs
<1>3. Len(op) = 2 /\ Len(tmp) = 1 /\ start \in Nat
  BY <1>1, <1>2, OneCharIs, PlaceIs
<1>4. CASE tmp[1] \in Single /\ Return("op", tmp, src)
  BY <1>1, <1>4, SingleText
<1>5. ASSUME op \in Double \/ \E t \in Triple : op = SubSeq(t, 1, 2)
      PROVE  /\ Got # NUL /\ op = Part(content, start, Cursor(After))
             /\ Cursor(After) = Cursor(src) + 1 /\ start < Cursor(After)
             /\ Cursor(After) \in Nat
  <2>1. Got # NUL
    BY <1>5, OperatorPlain DEF TInv
  <2> QED
    BY <1>1, <2>1, Grows, PlaceIs
<1> HIDE DEF op
<1>6. CASE op \in Double /\ Return("op", op, After)
  <2>1. LongestAt(content, start, op)
    <3> SUFFICES ASSUME NEW o \in Double \cup Triple, StandsAt(content, start, o)
                 PROVE  Len(o) <= 2
      BY <1>3 DEF LongestAt
    <3>1. CASE o \in Double
      BY <3>1, OperatorsAre
    <3>2. CASE o \in Triple
      <4>1. SubSeq(o, 1, 2) = op
        BY <1>2, <1>3, <3>2, StandingAre
      <4> QED
        BY <1>6, <3>2, <4>1, DoubleIsNoHalf
    <3> QED
      BY <3>1, <3>2
  <2> QED
    BY <1>1, <1>5, <1>6, <2>1, OperatorReturned
<1>7. CASE (\E t \in Triple : op = SubSeq(t, 1, 2)) /\ Continue("operator3", op, After)
  <2>1. Scanning("operator3", op, At(content, Cursor(After) + 1))
    BY <1>7 DEF Scanning, TwoChars
  <2> QED
    BY <1>1, <1>5, <1>7, <2>1, WordContinues DEF Collecting, op
<1>8. CASE /\ op \notin Double /\ \A t \in Triple : op # SubSeq(t, 1, 2)
           /\ Return("op", tmp, IF tmp[1] \in NoPushBack THEN After ELSE Undone)
  <2> DEFINE s == IF tmp[1] \in NoPushBack THEN After ELSE Undone
  <2>1. LongestAt(content, start, tmp)
    BY <1>2, <1>3, <1>8, StandingAre DEF LongestAt
  <2>2. Cursor(s) \in Nat
    <3>1. Fine(content, After) /\ Fine(content, Undone)
      BY <1>1, InsideIs, GotIs DEF TInv
    <3> QED
      BY <3>1, Typed DEF Fine
  <2>3. ASSUME Text(content)
        PROVE  /\ start < Cursor(s)
               /\ \/ tmp = Part(content, start, Cursor(s))
                  \/ ShortSpelled(content, tmp, start, Cursor(s))
    <3>1. Got # NUL
      BY <1>1, <2>3, InTextGets
    <3>2. CASE tmp[1] \in NoPushBack
      <4>1. Cursor(s) = start + 2 /\ tmp = <<tmp[1]>> /\ tmp[1] = At(content, start + 1)
        BY <1>1, <3>1, <3>2, OneCharIs, PlaceIs
      <4>2. ShortSpelled(content, tmp, start, Cursor(s))
        BY <3>2, <4>1 DEF ShortSpelled
      <4> QED
        BY <4>1, <4>2, <1>3
    <3>3. CASE tmp[1] \notin NoPushBack
      BY <1>1, <3>1, <3>3, Grows, OneCharIs, PlaceIs
    <3> QED
      BY <3>2, <3>3
  <2>4. Return("op", tmp, s)
    BY <1>8
  <2> HIDE DEF s
  <2> QED
    BY <1>1, <2>1, <2>2, <2>3, <2>4, OperatorReturned
<1> QED
  BY <1>4, <1>6, <1>7, <1>8 DEF OperatorStep, op

LEMMA ThirdCharText == ASSUME TInv, IInv', ThirdChar PROVE StaysRight
<1> DEFINE op == Append(tmp, Got)
           short == IF tmp = <<".", ".">> THEN <<".">> ELSE tmp
<1>1. pc = "operator3" /\ pc \in Collecting \ {"number"}
  BY DEF ThirdChar, Collecting
<1>2. /\ op = <<At(content, start + 1), At(content, start + 2), At(content, start + 3)>>
      /\ tmp = <<At(content, start + 1), At(content, start + 2)>>
      /\ Len(tmp) = 2 /\ Len(op) = 3 /\ start \in Nat /\ Cursor(src) = start + 2
  BY <1>1, TwoCharsAre, PlaceIs
<1>3. CASE op \in Triple /\ Return("op", op, After)
  <2>1. Got # NUL
    BY <1>3, OperatorPlain DEF TInv
  <2>2. /\ op = Part(content, start, Cursor(After)) /\ start < Cursor(After)
        /\ Cursor(After) \in Nat
    BY <1>1, <2>1, Grows, PlaceIs
  <2> HIDE DEF op
  <2>3. LongestAt(content, start, op)
    <3> SUFFICES ASSUME NEW o \in Double \cup Triple PROVE Len(o) <= 3
      BY <1>2 DEF LongestAt
    <3>1. CASE o \in Double
      BY <3>1, OperatorsAre
    <3>2. CASE o \in Triple
      <4>1. Len(o) = 3
        BY <3>2, OperatorsAre, Zenon
      <4> QED
        BY <4>1
    <3> QED
      BY <3>1, <3>2
  <2> QED
    BY <1>1, <1>3, <2>2, <2>3, OperatorReturned
<1>4. CASE op \notin Triple /\ Return("op", short, Undone)
  <2> HIDE DEF op
  <2>1. LongestAt(content, start, short)
    <3> SUFFICES ASSUME NEW o \in Double \cup Triple, StandsAt(content, start, o)
                 PROVE  Len(o) <= Len(short)
      BY DEF LongestAt
    <3>1. o \notin Triple
      BY <1>2, <1>4, StandingAre
    <3>2. Len(o) = 2 /\ o = tmp /\ o[1] # "."
      BY <1>2, <3>1, StandingAre, OperatorsAre
    <3>3. tmp # <<".", ".">>
      BY <3>2
    <3> QED
      BY <3>2, <3>3
  <2>2. Fine(content, Undone)
    BY <1>1, InsideIs DEF TInv
  <2>3. Cursor(Undone) \in Nat
    BY <2>2, Typed DEF Fine
  <2>4. ASSUME Text(content)
        PROVE  /\ start < Cursor(Undone)
               /\ \/ short = Part(content, start, Cursor(Undone))
                  \/ ShortSpelled(content, short, start, Cursor(Undone))
    <3>1. Cursor(Undone) = start + 2
      BY <1>1, <1>2, <2>4, InTextGets, PlaceIs
    <3>2. CASE tmp = <<".", ".">>
      <4>1. short = <<".">> /\ At(content, start + 1) = "."
        BY <1>2, <3>2
      <4>2. ShortSpelled(content, short, start, Cursor(Undone))
        BY <3>1, <4>1 DEF ShortSpelled
      <4> QED
        BY <1>2, <3>1, <4>2
    <3>3. CASE tmp # <<".", ".">>
      BY <1>1, <1>2, <3>1, <3>3, Grows
    <3> QED
      BY <3>2, <3>3
  <2> HIDE DEF short
  <2> QED
    BY <1>1, <1>4, <2>1, <2>3, <2>4, OperatorReturned
<1> QED
  BY <1>3, <1>4 DEF ThirdChar

-----------------------------------------------------------------------------
(* Strings and character constants.                                        *)
LEMMA LaterIs ==
    ASSUME TInv, NEW s, Fine(content, s), Cursor(src) <= Cursor(s)
    PROVE  /\ Cursor(s) \in Nat /\ Cursor(AheadSrc(s)) = Cursor(s)
           /\ Cursor(FileNext(content, AheadSrc(s), "GET_CHAR")) \in Nat
           /\ Cursor(src) <= Cursor(FileNext(content, AheadSrc(s), "GET_CHAR"))
<1> DEFINE t == AheadSrc(s)
           ch == FileChar(content, t, "GET_CHAR")
           u == FileNext(content, t, "GET_CHAR")
<1>1. Fine(content, t) /\ Cursor(t) = Cursor(s)
  BY AheadIs
<1>2. Cursor(s) \in Nat /\ Cursor(src) \in Nat
  BY PlaceIs, Typed DEF Fine
<1> HIDE DEF t
<1>3. Cursor(u) = IF ch = NUL THEN Cursor(t) ELSE Cursor(t) + 1
  BY <1>1, Gets
<1> QED
  BY <1>1, <1>2, <1>3 DEF t

LEMMA StringMoves ==
    ASSUME TInv, IInv', pc \in {"string", "strtail", "char"},
           pc' \in {"string", "strtail", "char", "exited", "crashed"},
           pc' \in {"string", "strtail"} => pc # "char",
           content' = content, tok' = tok, start' = start, NEW s, src' = s,
           Cursor(s) \in Nat, Cursor(src) <= Cursor(s)
    PROVE  StaysRight
<1>1. ASSUME Text(content) PROVE Between(pc', content, tok.to, start, Cursor(s))
  <2>1. /\ tok.to <= start /\ start <= Cursor(src) /\ Passed(content, tok.to, start)
        /\ pc # "char" => start < Cursor(src)
    BY <1>1 DEF TInv, Between
  <2>2. start <= Cursor(s) /\ (pc # "char" => start < Cursor(s))
    BY <2>1, PlaceIs
  <2> QED
    BY <2>1, <2>2 DEF Between
<1> QED
  BY <1>1, TextMoves DEF Collected, Collecting, Scanning

LEMMA StringCharText == ASSUME TInv, IInv', StringChar PROVE StaysRight
<1>1. PICK s \in {After, AheadSrc(After), FileNext(content, AheadSrc(After), "GET_CHAR")} :
        /\ pc = "string" /\ src' = s /\ content' = content /\ tok' = tok /\ start' = start
        /\ pc' = pc \/ pc' = "strtail" \/ pc' = "exited"
  BY Zenon DEF StringChar, InString, LeaveString
<1>2. Fine(content, After) /\ Cursor(src) <= Cursor(After)
  BY GotIs, PlaceIs DEF TInv
<1>3. Cursor(s) \in Nat /\ Cursor(src) <= Cursor(s)
  BY <1>1, <1>2, LaterIs
<1> QED
  BY <1>1, <1>3, StringMoves

LEMMA CharConstantText == ASSUME TInv, IInv', CharConstant PROVE StaysRight
<1>1. /\ pc = "char" /\ src' = After /\ content' = content /\ tok' = tok /\ start' = start
      /\ pc' = pc \/ pc' = "crashed" \/ pc' = "exited"
  BY Zenon DEF CharConstant, InString, LeaveString
<1>2. Cursor(After) \in Nat /\ Cursor(src) <= Cursor(After)
  BY PlaceIs
<1> QED
  BY <1>1, <1>2, StringMoves

LEMMA StringTailText == ASSUME TInv, IInv', StringTail PROVE StaysRight
<1> DEFINE s == IF Got = NUL THEN After ELSE Undone
<1>1. /\ pc = "strtail"
      /\ \/ LeaveString("strtail", After, {})
         \/ LeaveString("string", FileNext(content, AheadSrc(s), "GET_CHAR"), {})
         \/ Return("string", tmp, AheadSrc(s))
  BY DEF StringTail
<1>2. Fine(content, s) /\ Cursor(src) <= Cursor(s)
  BY GotIs, PlaceIs DEF TInv
<1> HIDE DEF s
<1>3. /\ Cursor(AheadSrc(s)) \in Nat /\ Cursor(src) <= Cursor(AheadSrc(s))
      /\ Cursor(FileNext(content, AheadSrc(s), "GET_CHAR")) \in Nat
      /\ Cursor(src) <= Cursor(FileNext(content, AheadSrc(s), "GET_CHAR"))
      /\ Cursor(After) \in Nat /\ Cursor(src) <= Cursor(After)
  BY <1>2, LaterIs, PlaceIs
<1>4. CASE Return("string", tmp, AheadSrc(s))
  <2>1. Text(content) => start < Cursor(AheadSrc(s))
    BY <1>1, <1>3, PlaceIs DEF TInv, Between
  <2> QED
    BY <1>1, <1>3, <1>4, <2>1, StringRight, TextReturned
<1>5. CASE LeaveString("strtail", After, {})
  BY <1>1, <1>3, <1>5, StringMoves DEF LeaveString
<1>6. CASE LeaveString("string", FileNext(content, AheadSrc(s), "GET_CHAR"), {})
  BY <1>1, <1>3, <1>6, StringMoves DEF LeaveString
<1> QED
  BY <1>1, <1>4, <1>5, <1>6

-----------------------------------------------------------------------------
LEMMA InitText == Init => TInv
<1> SUFFICES ASSUME Init PROVE TInv
  OBVIOUS
<1>1. pc = "blank" /\ tok = NoToken /\ src = NewSource /\ content \in Seq(Char)
  BY InputsAssumption DEF Init, NewLexer
<1>2. Cursor(src) = 0
  BY <1>1, NewSourceSound
<1>3. TokenRight(content, tok)
  BY <1>1 DEF TokenRight, NoToken, Longest, Recognised, Maximal, Spelled
<1>4. Between(pc, content, tok.to, start, Cursor(src))
  BY <1>1, <1>2 DEF Between, Passed, NoToken
<1> QED
  BY <1>1, <1>3, <1>4, InitInv DEF TInv, Collected, Collecting, Scanning

LEMMA StepText == TInv /\ [Next]_vars => StaysRight
<1> SUFFICES ASSUME TInv, [Next]_vars PROVE StaysRight
  OBVIOUS
<1>1. IInv'
  BY StepInv DEF TInv
<1>2. CASE UNCHANGED vars
  BY <1>1, <1>2, TextMoves DEF vars, TInv
<1>3. CASE Next
  BY <1>1, <1>3, SkipBlankText, FirstCharText, IllegalCharText, ResynchText,
     KeywordGoesOnText, DoKeywordText, KeywordEndsText, NoKeywordText,
     IdentifierCharText, NumberStepText, OperatorStepText, ThirdCharText,
     StringCharText, StringTailText, CharConstantText DEF Next
<1> QED
  BY <1>2, <1>3

LEMMA TextInvariant == Spec => []TInv
<1>1. TInv /\ [Next]_vars => TInv'
  BY StepText DEF StaysRight
<1> QED
  BY <1>1, InitText, PTL DEF Spec

-----------------------------------------------------------------------------
(* An operator token is the longest operator that starts where it starts,  *)
(* in every file, whatever its end.                                        *)
THEOREM OperatorsCorrect == Spec => []OperatorsLongest
<1>1. TInv => OperatorsLongest
  <2> SUFFICES ASSUME TInv PROVE OperatorsLongest
    OBVIOUS
  <2>1. \A i : CharAt(i) = At(content, i)
    BY DEF CharAt, At
  <2> QED
    BY <2>1 DEF TInv, TokenRight, Longest, LongestAt, StandsAt, OperatorsLongest
<1> QED
  BY <1>1, TextInvariant, PTL

(* The rest is claimed of files that end with a newline and contain no     *)
(* '\0': at the end of another the lexer gives back a '\0' that it never   *)
(* consumed, and reads the last character of a token again.                *)
TextFile == Text(content)

LEMMA TextStays == Spec /\ TextFile => [](TInv /\ TextFile)
<1>1. TextFile /\ [Next]_vars /\ TInv => TextFile'
  <2> SUFFICES ASSUME [Next]_vars PROVE content' = content
    BY DEF TextFile
  <2> QED
    BY Zenon DEF vars, Next, SkipBlank, FirstChar, IllegalChar, Resynch, KeywordGoesOn,
       DoKeyword, KeywordEnds, NoKeyword, IdentifierChar, NumberStep, OperatorStep,
       ThirdChar, StringChar, StringTail, CharConstant, LeaveKeywords,
       Return, Continue, Dispatch, InString, LeaveString
<1> QED
  BY <1>1, TextInvariant, PTL DEF Spec

(* The words of a text file are flex.l's words, and the keywords among     *)
(* them are the keywords, wherever the switches of letter() gave up.       *)
THEOREM WordsCorrect == Spec /\ TextFile => []WordsExact
<1>1. TInv /\ TextFile => WordsExact
  <2> SUFFICES ASSUME TInv, TextFile PROVE WordsExact
    OBVIOUS
  <2>1. \A i : CharAt(i) = At(content, i)
    BY DEF CharAt, At
  <2>2. Recognised(tok) /\ Maximal(content, tok)
    BY DEF TInv, TokenRight, TextFile
  <2> QED
    BY <2>1, <2>2 DEF Recognised, Maximal, WordStops, WordsExact, WordsMaximal,
       KeywordsRecognised
<1> QED
  BY <1>1, TextStays, PTL

(* The tokens of a text file are spelled as the file spells them, but for  *)
(* the characters that the scanner of operators swallows.                  *)
THEOREM SpellingCorrect == Spec /\ TextFile => []SpelledOut
<1>1. TInv /\ TextFile => SpelledOut
  <2> SUFFICES ASSUME TInv, TextFile PROVE SpelledOut
    OBVIOUS
  <2>1. \A i : CharAt(i) = At(content, i)
    BY DEF CharAt, At
  <2>2. Spelled(content, tok)
    BY DEF TInv, TokenRight, TextFile
  <2> QED
    BY <2>1, <2>2 DEF Spelled, ShortSpelled, Part, SpelledOut, Spelling
<1> QED
  BY <1>1, TextStays, PTL

(* Between two tokens of a text file lie blanks, line breaks and           *)
(* directives only, and no character is in two tokens.                     *)
THEOREM OrderCorrect == Spec /\ TextFile => TokensInOrder
<1>1. TInv /\ TextFile /\ [Next]_vars =>
        [tok' # tok =>
         /\ tok.to <= tok'.from /\ tok'.from < tok'.to
         /\ \A i \in tok.to + 1..tok'.from :
               \/ content[i] \in Blank \cup LineBreak \cup {Byte255}
               \/ InDirective(i, tok.to)]_vars
  <2> SUFFICES ASSUME TInv, TextFile, [Next]_vars, tok' # tok
               PROVE  /\ tok.to <= tok'.from /\ tok'.from < tok'.to
                      /\ \A i \in tok.to + 1..tok'.from :
                            \/ content[i] \in Blank \cup LineBreak \cup {Byte255}
                            \/ InDirective(i, tok.to)
    OBVIOUS
  <2>1. Orderly
    BY StepText DEF StaysRight, TextFile
  <2> QED
    BY <2>1 DEF Orderly, Passed, Clear, Directive, InDirective
<1> QED
  BY <1>1, TextStays, PTL DEF Spec, TokensInOrder

-----------------------------------------------------------------------------
(* Why the end is reached.  Every step takes a character, or takes none    *)
(* and lowers Rank; a loop that has taken a character, and no newline, is  *)
(* not at the end of a text file, where it would read '\0' for ever.       *)
Nearer == \/ OpenAtEnd
          \/ Cursor(src) < Cursor(src')
          \/ Cursor(src') = Cursor(src) /\ Rank' < Rank
Unended == 0 < Cursor(src) /\ At(content, Cursor(src)) # NL

LEMMA BeforeEnd ==
    ASSUME TInv, TextFile, Unended
    PROVE  Got # NUL
<1> SUFFICES ASSUME Got = NUL PROVE FALSE
  OBVIOUS
<1>1. Cursor(src) = Len(content)
  BY PlaceIs DEF TextFile, Text, At
<1> QED
  BY <1>1, PlaceIs DEF TextFile, Text, At, Unended

(* What was got is behind the cursor, however far a look ahead refills.    *)
LEMMA Forth ==
    ASSUME TInv, Got # NUL
    PROVE  /\ Cursor(After) = Cursor(src) + 1 /\ Cursor(AheadSrc(After)) = Cursor(src) + 1
           /\ Cursor(WordEndsSrc(After)) = Cursor(src) + 1
           /\ Cursor(src) < Cursor(FileNext(content, AheadSrc(After), "GET_CHAR"))
           /\ Cursor(src) \in Nat
<1> DEFINE t == AheadSrc(After)
           ch == FileChar(content, t, "GET_CHAR")
           u == FileNext(content, t, "GET_CHAR")
<1>1. Fine(content, After) /\ Cursor(After) = Cursor(src) + 1 /\ Cursor(src) \in Nat
  BY GotIs, PlaceIs DEF TInv
<1>2. Fine(content, t) /\ Cursor(t) = Cursor(After) /\ Cursor(WordEndsSrc(After)) = Cursor(After)
  BY <1>1, AheadIs
<1> HIDE DEF t
<1>3. Cursor(u) = IF ch = NUL THEN Cursor(t) ELSE Cursor(t) + 1
  BY <1>2, Gets
<1> QED
  BY <1>1, <1>2, <1>3 DEF t

(* A token is returned: nothing needs to be taken.                         *)
LEMMA NearerByReturn ==
    ASSUME TInv, pc \in Collecting \cup {"strtail"}, pc = "number" => tmp # <<>>,
           NEW kind, NEW text, NEW s, Return(kind, text, s),
           Cursor(s) = Cursor(src) \/ Cursor(src) < Cursor(s)
    PROVE  Nearer
<1>1. src' = s /\ pc' = "blank"
  BY DEF Return
<1>2. Rank' = 3
  BY <1>1 DEF Rank, Stopped
<1>3. Rank = 4
  BY DEF Rank, Stopped, Collecting
<1> QED
  BY <1>1, <1>2, <1>3 DEF Nearer

LEMMA SkipBlankNears == ASSUME TInv, SkipBlank PROVE Nearer
<1>1. pc = "blank" /\ Rank = 3
  BY DEF SkipBlank, Rank, Stopped
<1>2. CASE Got \in Blank /\ Continue("blank", <<>>, After)
  <2>1. Got # NUL /\ src' = After
    BY <1>2, EndAssumption DEF Continue
  <2> QED
    BY <2>1, Forth DEF Nearer
<1>3. CASE \/ Got = NUL /\ Continue("first", <<>>, After)
           \/ Got \notin Blank \cup {NUL} /\ Continue("first", <<>>, Undone)
  <2>1. Cursor(src') = Cursor(src) /\ pc' = "first"
    BY <1>3, PlaceIs DEF Continue
  <2>2. Rank' = 2
    BY <2>1 DEF Rank, Stopped
  <2> QED
    BY <1>1, <2>1, <2>2 DEF Nearer
<1> QED
  BY <1>2, <1>3 DEF SkipBlank

LEMMA FirstCharNears == ASSUME TInv, FirstChar PROVE Nearer
<1>1. pc = "first" /\ Rank = 2
  BY DEF FirstChar, Rank, Stopped
<1>2. CASE Got = NUL /\ Dispatch("done", <<>>, After)
  <2>1. Cursor(src') = Cursor(src) /\ pc' = "done"
    BY <1>2, PlaceIs DEF Dispatch
  <2>2. Rank' = 0
    BY <2>1 DEF Rank, Stopped
  <2> QED
    BY <1>1, <2>1, <2>2 DEF Nearer
<1>3. CASE Got \in Digit /\ Dispatch("number", <<>>, Undone)
  <2>1. Got # NUL
    BY <1>3, NoBreaks DEF WordChar, Alnum
  <2>2. Cursor(src') = Cursor(src) /\ pc' = "number" /\ tmp' = <<>>
    BY <1>3, <2>1, PlaceIs DEF Dispatch
  <2>3. Rank' = 1
    BY <2>2 DEF Rank, Stopped
  <2> QED
    BY <1>1, <2>2, <2>3 DEF Nearer
<1>4. CASE /\ Got \in LineBreak \cup {Byte255, "#", Quote, "'"} \cup KeywordInitial
                        \cup (Letter \ KeywordInitial) \cup {"_"} \cup Single \cup Starter
           /\ src' = After
  <2>1. Got # NUL
    BY <1>4, NoBreaks, EndAssumption, AlphabetAssumption, QuoteAssumption DEF WordChar, Alnum
  <2>2. Cursor(src') = Cursor(src) + 1 /\ Cursor(src) \in Nat
    BY <1>4, <2>1, Forth
  <2> QED
    BY <2>2 DEF Nearer
<1> QED
  BY <1>2, <1>3, <1>4, Zenon DEF FirstChar, Dispatch

LEMMA ResynchNears == ASSUME TInv, TextFile, Resynch PROVE Nearer
<1>1. pc = "resynch" /\ src' = After
  BY DEF Resynch, Continue
<1>2. InLine(content, start, Cursor(src))
  BY <1>1 DEF TInv, TextFile, Between
<1>3. Unended
  BY <1>2, PlaceIs DEF InLine, Unended
<1> QED
  BY <1>1, <1>3, BeforeEnd, Forth DEF Nearer

(* In a word, a number or an operator.                                     *)
LEMMA Taken ==
    ASSUME TInv, TextFile, pc \in Collecting
    PROVE  /\ Got # NUL /\ Cursor(Undone) = Cursor(src)
           /\ Cursor(src) < Cursor(After) /\ Cursor(src) < Cursor(WordEndsSrc(After))
BY InTextGets, PlaceIs, Forth DEF TextFile

LEMMA NearerByTaking ==
    ASSUME TInv, NEW s, src' = s, Cursor(src) < Cursor(s)
    PROVE  Nearer
BY DEF Nearer

LEMMA LeaveNears ==
    ASSUME TInv, TextFile, pc \in {"letter", "identifier"}, NEW t, LeaveKeywords(t)
    PROVE  Nearer
<1>1. pc \in Collecting /\ pc # "number"
  BY DEF Collecting
<1>2. CASE Continue("identifier", t, After)
  BY <1>1, <1>2, Taken, NearerByTaking DEF Continue
<1>3. CASE Return("id", tmp, IF Got = NUL THEN After ELSE Undone)
  <2>1. Return("id", tmp, Undone)
    BY <1>1, <1>3, Taken
  <2> QED
    BY <1>1, <2>1, Taken, NearerByReturn
<1> QED
  BY <1>2, <1>3 DEF LeaveKeywords

LEMMA WordNears ==
    ASSUME TInv, TextFile, KeywordGoesOn \/ DoKeyword \/ KeywordEnds \/ NoKeyword \/ IdentifierChar
    PROVE  Nearer
<1>1. pc \in {"letter", "identifier"}
  BY DEF KeywordGoesOn, DoKeyword, KeywordEnds, NoKeyword, IdentifierChar
<1>2. pc \in Collecting /\ pc # "number"
  BY <1>1 DEF Collecting
<1>3. CASE KeywordGoesOn
  BY <1>2, <1>3, Taken, NearerByTaking DEF KeywordGoesOn, Continue
<1>4. CASE DoKeyword
  BY <1>2, <1>4, Taken, NearerByReturn DEF DoKeyword
<1>5. CASE KeywordEnds
  <2>1. src' = WordEndsSrc(After)
    BY <1>5 DEF KeywordEnds, Return, Continue
  <2> QED
    BY <1>2, <2>1, Taken, NearerByTaking
<1>6. CASE NoKeyword \/ IdentifierChar
  BY <1>1, <1>6, LeaveNears DEF NoKeyword, IdentifierChar
<1> QED
  BY <1>3, <1>4, <1>5, <1>6

LEMMA NumberNears == ASSUME TInv, TextFile, NumberStep PROVE Nearer
<1>1. pc = "number" /\ pc \in Collecting
  BY DEF NumberStep, Collecting
<1>2. CASE Continue("number", Append(tmp, Got), After)
  BY <1>1, <1>2, Taken, NearerByTaking DEF Continue
<1>3. CASE Got \notin NumberChar /\ Return("number", tmp, Undone)
  <2>1. tmp # <<>>
    BY <1>1, <1>3, PlaceIs DEF TInv, IInv, InToken, NumberChar, Alnum
  <2> QED
    BY <1>1, <1>3, <2>1, Taken, NearerByReturn
<1> QED
  BY <1>2, <1>3 DEF NumberStep

LEMMA OperatorNears == ASSUME TInv, TextFile, OperatorStep \/ ThirdChar PROVE Nearer
<1>1. pc \in Collecting /\ pc # "number"
  BY DEF OperatorStep, ThirdChar, Collecting
<1> DEFINE short == IF tmp = <<".", ".">> THEN <<".">> ELSE tmp
           s == IF tmp[1] \in NoPushBack THEN After ELSE Undone
<1>2. \/ Return("op", tmp, src) \/ Return("op", tmp, s)
      \/ Return("op", Append(tmp, Got), After) \/ Return("op", short, Undone)
      \/ Continue("operator3", Append(tmp, Got), After)
  BY Zenon DEF OperatorStep, ThirdChar
<1>3. CASE Continue("operator3", Append(tmp, Got), After)
  BY <1>1, <1>3, Taken, NearerByTaking DEF Continue
<1>4. Cursor(s) = Cursor(src) \/ Cursor(src) < Cursor(s)
  BY <1>1, Taken
<1> HIDE DEF short, s
<1> QED
  BY <1>1, <1>2, <1>3, <1>4, Taken, NearerByReturn

(* In a string and behind it.                                              *)
LEMMA StringNears == ASSUME TInv, StringChar PROVE Nearer
<1>1. PICK s \in {After, AheadSrc(After), FileNext(content, AheadSrc(After), "GET_CHAR")} :
        pc = "string" /\ src' = s
  BY Zenon DEF StringChar, InString, LeaveString
<1>2. CASE Got = NUL
  BY <1>1, <1>2 DEF Nearer, OpenAtEnd
<1>3. CASE Got # NUL
  <2>1. Cursor(src) < Cursor(s)
    BY <1>1, <1>3, Forth
  <2> QED
    BY <1>1, <2>1, NearerByTaking
<1> QED
  BY <1>2, <1>3

LEMMA TailNears == ASSUME TInv, StringTail PROVE Nearer
<1> DEFINE s == IF Got = NUL THEN After ELSE Undone
           t == AheadSrc(s)
           u == FileNext(content, t, "GET_CHAR")
<1>1. /\ pc = "strtail"
      /\ \/ Got \in Blank /\ src' = After
         \/ AheadChar(s) = Quote /\ src' = u
         \/ Return("string", tmp, t)
  BY DEF StringTail, LeaveString
<1>2. Fine(content, s) /\ Cursor(s) = Cursor(src) /\ Cursor(src) \in Nat
  BY GotIs, PlaceIs DEF TInv
<1> HIDE DEF s
<1>3. Fine(content, t) /\ Cursor(t) = Cursor(src)
  BY <1>2, AheadIs
<1>4. CASE Got \in Blank /\ src' = After
  <2>1. Got # NUL
    BY <1>4, EndAssumption
  <2>2. Cursor(src) < Cursor(After)
    BY <2>1, Forth
  <2> QED
    BY <1>4, <2>2, NearerByTaking
<1>5. CASE AheadChar(s) = Quote /\ src' = u
  <2>1. AheadChar(s) = At(content, Cursor(src) + 1)
    BY <1>2, AheadSees
  <2> DEFINE ch == FileChar(content, t, "GET_CHAR")
  <2> HIDE DEF t
  <2>2. ch = At(content, Cursor(t) + 1) /\ Cursor(u) = IF ch = NUL THEN Cursor(t) ELSE Cursor(t) + 1
    BY <1>3, Gets
  <2>3. Quote # NUL
    BY QuoteAssumption
  <2>4. Cursor(src) < Cursor(u)
    BY <1>2, <1>3, <1>5, <2>1, <2>2, <2>3
  <2> QED
    BY <1>5, <2>4, NearerByTaking
<1>6. CASE Return("string", tmp, t)
  <2> HIDE DEF t
  <2> QED
    BY <1>1, <1>3, <1>6, NearerByReturn
<1> QED
  BY <1>1, <1>4, <1>5, <1>6

(* In a character constant, which is left at the end of its line.          *)
LEMMA CharConstantNears ==
    ASSUME TInv, TextFile, pc = "char" => Unended, CharConstant
    PROVE  Nearer /\ (pc' = "char" => Unended')
<1>1. pc = "char" /\ src' = After /\ (pc' = "char" => Got # NL) /\ content' = content
  BY Zenon DEF CharConstant, InString, LeaveString
<1>2. Got # NUL
  BY <1>1, BeforeEnd
<1>3. Cursor(src') = Cursor(src) + 1 /\ Cursor(src) \in Nat /\ Got = At(content, Cursor(src) + 1)
  BY <1>1, <1>2, Forth, PlaceIs
<1> QED
  BY <1>1, <1>3 DEF Nearer, Unended

-----------------------------------------------------------------------------
(* A character constant stays in its line.                                 *)
CharInv == TInv /\ TextFile /\ (pc = "char" => Unended)

(* Where a loop begins and what it leaves behind.                          *)
LEMMA CharBegins ==
    ASSUME TInv, FirstChar, pc' = "char"
    PROVE  Unended'
<1>1. Got = "'" /\ src' = After /\ content' = content
  BY Zenon DEF FirstChar, Dispatch
<1>2. Got # NUL /\ Got # NL
  BY <1>1, EndAssumption
<1>3. Cursor(src') = Cursor(src) + 1 /\ Cursor(src) \in Nat /\ Got = At(content, Cursor(src) + 1)
  BY <1>1, <1>2, Forth, PlaceIs
<1> QED
  BY <1>1, <1>2, <1>3 DEF Unended

LEMMA NoOtherChar ==
    ASSUME [Next]_vars, ~FirstChar, ~CharConstant, ~UNCHANGED vars
    PROVE  pc' # "char"
BY Zenon DEF Next, SkipBlank, IllegalChar, Resynch, KeywordGoesOn, DoKeyword, KeywordEnds,
   NoKeyword, IdentifierChar, NumberStep, OperatorStep, ThirdChar, StringChar, StringTail,
   LeaveKeywords, Return, Continue, Dispatch, InString, LeaveString

LEMMA StepNears ==
    ASSUME CharInv, [Next]_vars
    PROVE  (pc' = "char" => Unended') /\ (UNCHANGED vars \/ Nearer)
<1>1. CASE UNCHANGED vars
  BY <1>1 DEF vars, CharInv, Unended
<1>2. CASE FirstChar
  BY <1>2, FirstCharNears, CharBegins DEF CharInv
<1>3. CASE CharConstant
  BY <1>3, CharConstantNears DEF CharInv
<1>4. CASE ~FirstChar /\ ~CharConstant /\ ~UNCHANGED vars
  <2>1. CASE IllegalChar
    <3>1. Got # NUL /\ src' = After
      BY <2>1 DEF IllegalChar, Known
    <3>2. Cursor(src) < Cursor(After)
      BY <3>1, Forth DEF CharInv
    <3> QED
      BY <1>4, <3>1, <3>2, NearerByTaking, NoOtherChar DEF CharInv
  <2>2. Next /\ ~IllegalChar => Nearer
    BY <1>4, SkipBlankNears, ResynchNears, WordNears, NumberNears, OperatorNears,
       StringNears, TailNears DEF Next, CharInv
  <2> QED
    BY <1>4, <2>1, <2>2, NoOtherChar
<1> QED
  BY <1>1, <1>2, <1>3, <1>4

(* The lexer cannot linger: every step takes a character of the file or    *)
(* takes none and comes nearer to the end of a token, unless it reads on   *)
(* in a string that is open at the end of the file.                        *)
THEOREM EndNears == Spec /\ TextFile => EndComesNearer
<1>1. Init /\ TextFile => CharInv
  BY InitText DEF CharInv, Init, NewLexer
<1>2. CharInv /\ [Next]_vars /\ TInv' /\ TextFile' => CharInv'
  BY StepNears DEF CharInv
<1>3. CharInv /\ [Next]_vars =>
        [\/ OpenAtEnd
         \/ Cursor(src) < Cursor(src')
         \/ Cursor(src') = Cursor(src) /\ Rank' < Rank]_vars
  BY StepNears DEF Nearer
<1> QED
  BY <1>1, <1>2, <1>3, TextStays, PTL DEF Spec, EndComesNearer

-----------------------------------------------------------------------------
(* A string, too, stays in its line, unless it is cut at a newline.        *)
StringInv == TInv /\ TextFile /\ (pc = "string" => Unended)

LEMMA StringBegins ==
    ASSUME TInv, FirstChar, pc' = "string"
    PROVE  Unended'
<1>1. Got = Quote /\ src' = After /\ content' = content
  BY Zenon DEF FirstChar, Dispatch
<1>2. Got # NUL /\ Got # NL
  BY <1>1, QuoteAssumption
<1>3. Cursor(src') = Cursor(src) + 1 /\ Cursor(src) \in Nat /\ Got = At(content, Cursor(src) + 1)
  BY <1>1, <1>2, Forth, PlaceIs
<1> QED
  BY <1>1, <1>2, <1>3 DEF Unended

(* What is got behind a look ahead at a quote is that quote.               *)
LEMMA QuoteTaken ==
    ASSUME TInv, NEW s, Fine(content, s), AheadChar(s) = Quote,
           NEW u, u = FileNext(content, AheadSrc(s), "GET_CHAR")
    PROVE  Cursor(u) > 0 /\ At(content, Cursor(u)) # NL
<1> DEFINE t == AheadSrc(s)
           ch == FileChar(content, t, "GET_CHAR")
<1>1. Fine(content, t) /\ Cursor(t) = Cursor(s) /\ Cursor(s) \in Nat
  BY AheadIs, Typed DEF Fine
<1>2. AheadChar(s) = At(content, Cursor(s) + 1)
  BY AheadSees
<1>3. u = FileNext(content, t, "GET_CHAR")
  OBVIOUS
<1> HIDE DEF t
<1>4. ch = At(content, Cursor(t) + 1) /\ Cursor(u) = IF ch = NUL THEN Cursor(t) ELSE Cursor(t) + 1
  BY <1>1, <1>3, Gets
<1>5. Quote # NL /\ Quote # NUL
  BY QuoteAssumption
<1>6. At(content, Cursor(s) + 1) = Quote /\ ch = Quote /\ Cursor(u) = Cursor(s) + 1
  BY <1>1, <1>2, <1>4, <1>5
<1> QED
  BY <1>1, <1>5, <1>6

LEMMA StringTailOpens ==
    ASSUME TInv, StringTail, pc' = "string"
    PROVE  Unended'
<1> DEFINE s == IF Got = NUL THEN After ELSE Undone
<1>1. Fine(content, s)
  BY GotIs, PlaceIs DEF TInv
<1>2. AheadChar(s) = Quote /\ src' = FileNext(content, AheadSrc(s), "GET_CHAR") /\ content' = content
  BY Zenon DEF StringTail, LeaveString, Return
<1> HIDE DEF s
<1> QED
  BY <1>1, <1>2, QuoteTaken DEF Unended

LEMMA StringGoesOn ==
    ASSUME StringInv, StringChar, ~CutAtNewline, pc' = "string"
    PROVE  Unended'
<1>1. pc = "string" /\ content' = content
  BY Zenon DEF StringChar, InString, LeaveString
<1>2. Got # NL
  <2>1. Backslash # NL
    BY QuoteAssumption
  <2>2. "string" # "strtail"
    OBVIOUS
  <2> QED
    BY <1>1, <2>1, <2>2, Zenon DEF StringChar, LeaveString, CutAtNewline
<1>3. Got # NUL
  BY <1>1, BeforeEnd DEF StringInv
<1>4. /\ Cursor(After) = Cursor(src) + 1 /\ Cursor(AheadSrc(After)) = Cursor(src) + 1
      /\ Cursor(src) \in Nat /\ Got = At(content, Cursor(src) + 1)
  BY <1>3, Forth, PlaceIs DEF StringInv
<1>5. CASE src' = After \/ src' = AheadSrc(After)
  BY <1>1, <1>2, <1>4, <1>5 DEF Unended
<1>6. CASE AheadChar(After) = Quote /\ src' = FileNext(content, AheadSrc(After), "GET_CHAR")
  BY <1>1, <1>6, GotIs, QuoteTaken DEF StringInv, TInv, Unended
<1> QED
  BY <1>5, <1>6, Zenon DEF StringChar, InString, LeaveString

LEMMA NoOtherString ==
    ASSUME [Next]_vars, ~FirstChar, ~StringChar, ~StringTail, ~CharConstant, ~UNCHANGED vars
    PROVE  pc' # "string"
BY Zenon DEF Next, SkipBlank, IllegalChar, Resynch, KeywordGoesOn, DoKeyword, KeywordEnds,
   NoKeyword, IdentifierChar, NumberStep, OperatorStep, ThirdChar,
   LeaveKeywords, Return, Continue, Dispatch

LEMMA StringStays ==
    ASSUME StringInv, [Next]_vars, ~CutAtNewline, pc' = "string"
    PROVE  Unended'
<1>1. CASE UNCHANGED vars
  BY <1>1 DEF vars, StringInv, Unended
<1>2. ~CharConstant
  BY Zenon DEF CharConstant, InString, LeaveString
<1> QED
  BY <1>1, <1>2, NoOtherString, StringBegins, StringGoesOn, StringTailOpens DEF StringInv

(* In a text file no string is open at the end, and the lexer therefore    *)
(* does not read '\0' for ever, unless one was cut (LE07) at the newline   *)
(* that should have ended it.                                              *)
THEOREM OpenByCut == Spec /\ TextFile => OpenOnlyByCut
<1>1. Init /\ TextFile => StringInv
  BY InitText DEF StringInv, Init, NewLexer
<1>2. StringInv /\ [Next]_vars /\ ~CutAtNewline /\ TInv' /\ TextFile' => StringInv'
  BY StringStays DEF StringInv
<1>3. StringInv => ~OpenAtEnd
  BY BeforeEnd DEF StringInv, OpenAtEnd
<1> QED
  BY <1>1, <1>2, <1>3, TextStays, PTL DEF Spec, OpenOnlyByCut

-----------------------------------------------------------------------------
(* Functions of the natural numbers that are defined by recursion exist,   *)
(* and what holds of 0 and is passed on holds of all numbers.  The library *)
(* states this for operators; here it is stated for sets and functions.    *)

(* Of the numbers of a set one is the least.                               *)
LEMMA LeastExists ==
    ASSUME NEW D \in SUBSET Nat, D # {}
    PROVE  \E i \in D : \A j \in D : i <= j
<1>1. PICK i \in D : \A j \in D : ~(<<j, i>> \in OpToRel(<, Nat))
  BY WFMin, NatLessThanWellFounded, Zenon
<1>2. \A j \in D : ~(j < i)
  BY <1>1, Zenon DEF OpToRel
<1> QED
  BY <1>2

(* What holds of 0 and is passed on holds of every number.                 *)
LEMMA AllNumbers ==
    ASSUME NEW D \in SUBSET Nat, 0 \in D, \A n \in Nat : n \in D => n + 1 \in D
    PROVE  D = Nat
<1> SUFFICES ASSUME Nat \ D # {} PROVE FALSE
  OBVIOUS
<1>1. PICK i \in Nat \ D : \A j \in Nat \ D : i <= j
  BY LeastExists
<1>2. i # 0 /\ i - 1 \in Nat /\ ~(i <= i - 1)
  BY <1>1
<1>3. i - 1 \in D
  BY <1>1, <1>2
<1>4. (i - 1) + 1 \in D
  BY <1>2, <1>3
<1> QED
  BY <1>1, <1>4

(* A function of numbers may be defined by its value at 0 and by what      *)
(* becomes of each value.                                                  *)
Starts(f, z, g, n) == /\ f[0] = z
                      /\ \A i \in 1..n : f[i] = g[i][f[i - 1]]
Follows(S, f, z, g, n) == f \in [0..n -> S] /\ Starts(f, z, g, n)

(* As far as one likes there is such a function.                           *)
LEMMA FollowsOn ==
    ASSUME NEW S, NEW z \in S, NEW g \in [Nat -> [S -> S]]
    PROVE  \A n \in Nat : \E f : Follows(S, f, z, g, n)
<1> DEFINE D == {n \in Nat : \E f : Follows(S, f, z, g, n)}
<1>1. 0 \in D
  <2> DEFINE f == [i \in 0..0 |-> z]
  <2>1. Follows(S, f, z, g, 0)
    BY DEF Follows, Starts
  <2> QED
    BY <2>1
<1>2. ASSUME NEW n \in Nat, n \in D PROVE n + 1 \in D
  <2>1. PICK f : Follows(S, f, z, g, n)
    BY <1>2
  <2> DEFINE h == [i \in 0..n + 1 |-> IF i = n + 1 THEN g[n + 1][f[n]] ELSE f[i]]
  <2>2. f \in [0..n -> S] /\ f[0] = z /\ \A i \in 1..n : f[i] = g[i][f[i - 1]]
    BY <2>1 DEF Follows, Starts
  <2>3. f[n] \in S /\ g[n + 1] \in [S -> S]
    <3>1. n \in 0..n /\ n + 1 \in Nat
      OBVIOUS
    <3> QED
      BY <2>2, <3>1
  <2>4. h \in [0..n + 1 -> S]
    <3>1. g[n + 1][f[n]] \in S
      BY <2>3
    <3>2. \A i \in 0..n + 1 : i # n + 1 => i \in 0..n
      OBVIOUS
    <3> QED
      BY <2>2, <3>1, <3>2
  <2>5. h[0] = z
    <3>1. 0 \in 0..n + 1 /\ 0 # n + 1
      OBVIOUS
    <3> QED
      BY <2>2, <3>1
  <2>6. ASSUME NEW i \in 1..n + 1 PROVE h[i] = g[i][h[i - 1]]
    <3>1. i - 1 \in 0..n + 1 /\ i - 1 # n + 1 /\ i \in 0..n + 1
      OBVIOUS
    <3>2. h[i - 1] = f[i - 1]
      BY <3>1
    <3>3. CASE i = n + 1
      BY <3>2, <3>3
    <3>4. CASE i # n + 1
      <4>1. i \in 1..n
        BY <3>4
      <4> QED
        BY <2>2, <3>1, <3>2, <3>4, <4>1
    <3> QED
      BY <3>3, <3>4
  <2> HIDE DEF h
  <2>7. Follows(S, h, z, g, n + 1)
    BY <2>4, <2>5, <2>6 DEF Follows, Starts
  <2> QED
    BY <2>7
<1> HIDE DEF D
<1>3. D = Nat
  BY <1>1, <1>2, AllNumbers DEF D
<1> QED
  BY <1>3 DEF D

(* Two of them agree as far as both go.                                    *)
LEMMA FollowsOnce ==
    ASSUME NEW S, NEW z, NEW g, NEW n \in Nat, NEW m \in Nat, n <= m,
           NEW f, NEW h, Follows(S, f, z, g, n), Follows(S, h, z, g, m)
    PROVE  \A i \in 0..n : f[i] = h[i]
<1> DEFINE D == {i \in Nat : i <= n => f[i] = h[i]}
<1>1. 0 \in D
  BY DEF Follows, Starts
<1>2. ASSUME NEW i \in Nat, i \in D PROVE i + 1 \in D
  <2> SUFFICES ASSUME i + 1 <= n PROVE f[i + 1] = h[i + 1]
    OBVIOUS
  <2>1. i + 1 \in 1..n /\ i + 1 \in 1..m /\ (i + 1) - 1 = i /\ i <= n
    OBVIOUS
  <2>2. f[i] = h[i]
    BY <1>2, <2>1
  <2>3. f[i + 1] = g[i + 1][f[(i + 1) - 1]] /\ h[i + 1] = g[i + 1][h[(i + 1) - 1]]
    BY <2>1 DEF Follows, Starts
  <2> QED
    BY <2>1, <2>2, <2>3
<1> HIDE DEF D
<1>3. D = Nat
  BY <1>1, <1>2, AllNumbers DEF D
<1> QED
  BY <1>3 DEF D

(* The last value of the shorter one is that of the longer one there.      *)
LEMMA FollowsSame ==
    ASSUME NEW S, NEW z, NEW g, NEW k \in Nat, NEW n \in Nat, n = k + 1,
           NEW p, NEW q, Follows(S, p, z, g, k), Follows(S, q, z, g, n)
    PROVE  p[k] = q[k]
<1>1. k <= n /\ k \in 0..k
  OBVIOUS
<1>2. \A i \in 0..k : p[i] = q[i]
  BY <1>1, FollowsOnce
<1> QED
  BY <1>1, <1>2

(* f is the function defined so for all numbers, and stays in S.           *)
Recursive(S, f, z, g) == /\ f = [n \in Nat |-> IF n = 0 THEN z ELSE g[n][f[n - 1]]]
                         /\ f \in [Nat -> S]

(* There is one.                                                           *)
LEMMA Recursion ==
    ASSUME NEW S, NEW z \in S, NEW g \in [Nat -> [S -> S]]
    PROVE  \E f : Recursive(S, f, z, g)
<1> DEFINE Up(n) == CHOOSE f : Follows(S, f, z, g, n)
           f == [n \in Nat |-> Up(n)[n]]
<1>1. \A n \in Nat : Follows(S, Up(n), z, g, n)
  BY FollowsOn
<1> HIDE DEF Up
<1>2. ASSUME NEW n \in Nat PROVE f[n] = IF n = 0 THEN z ELSE g[n][f[n - 1]]
  <2>1. CASE n = 0
    BY <1>1, <2>1 DEF Follows, Starts
  <2>2. CASE n # 0
    <3>1. n \in 1..n /\ n - 1 \in Nat /\ n - 1 <= n /\ n - 1 \in 0..n - 1
      BY <2>2
    <3>2. Up(n)[n] = g[n][Up(n)[n - 1]]
      BY <1>1, <3>1 DEF Follows, Starts
    <3>3. Follows(S, Up(n - 1), z, g, n - 1) /\ Follows(S, Up(n), z, g, n)
      BY <1>1, <3>1
    <3>4. Up(n - 1)[n - 1] = Up(n)[n - 1]
      <4> DEFINE k == n - 1
      <4>1. k \in Nat /\ n = k + 1 /\ Follows(S, Up(k), z, g, k) /\ Follows(S, Up(n), z, g, n)
        BY <3>1, <3>3
      <4> HIDE DEF k, f
      <4>2. Up(k)[k] = Up(n)[k]
        BY <4>1, FollowsSame
      <4> QED
        BY <4>2 DEF k
    <3> QED
      BY <2>2, <3>1, <3>2, <3>4
  <2> QED
    BY <2>1, <2>2
<1> HIDE DEF f
<1>3. f = [n \in Nat |-> IF n = 0 THEN z ELSE g[n][f[n - 1]]]
  <2>1. f = [n \in Nat |-> f[n]]
    BY DEF f
  <2> QED
    BY <1>2, <2>1
<1>4. f \in [Nat -> S]
  <2>1. \A n \in Nat : Up(n)[n] \in S
    BY <1>1 DEF Follows
  <2> QED
    BY <2>1 DEF f
<1> QED
  BY <1>3, <1>4 DEF Recursive

-----------------------------------------------------------------------------
(* The scanner of flex.l, as FlexFrom runs it.                             *)
FlexStates == [in : BOOLEAN, escaped : BOOLEAN, text : Seq(Char)]

LEMMA FlexSteps ==
    ASSUME NEW st \in FlexStates, NEW ch \in Char
    PROVE  FlexStep(st, ch) \in FlexStates
<1>1. Append(st.text, ch) \in Seq(Char)
  BY DEF FlexStates
<1> QED
  BY <1>1 DEF FlexStep, FlexStates

LEMMA FlexIs ==
    ASSUME NEW c \in Seq(Char), NEW from \in Nat
    PROVE  /\ FlexFrom(c, from)[0] = FlexBegins
           /\ \A n \in Nat :
                /\ FlexFrom(c, from)[n] \in FlexStates
                /\ FlexFrom(c, from)[n + 1]
                     = FlexStep(FlexFrom(c, from)[n], At(c, from + n + 1))
<1> DEFINE Ch(n) == Upcoming(c, from + n - 1)
           g == [n \in Nat |-> [st \in FlexStates |->
                                   IF n = 0 THEN st ELSE FlexStep(st, Ch(n))]]
           Def(f) == [n \in Nat |-> IF n = 0 THEN FlexBegins ELSE FlexStep(f[n - 1], Ch(n))]
           F == FlexFrom(c, from)
<1>0. ASSUME NEW n \in Nat, n # 0 PROVE Ch(n) = At(c, from + n) /\ Ch(n) \in Char
  <2>1. from + n - 1 \in Nat /\ (from + n - 1) + 1 = from + n /\ Len(c) \in Nat
    BY <1>0
  <2>2. Ch(n) = At(c, from + n)
    BY <2>1 DEF Upcoming, At
  <2>3. At(c, from + n) \in Char
    BY <2>1, ElementOfSeq, CharAssumption DEF At
  <2> QED
    BY <2>2, <2>3
<1> HIDE DEF Ch
<1>1. g \in [Nat -> [FlexStates -> FlexStates]]
  BY <1>0, FlexSteps
<1>2. FlexBegins \in FlexStates
  <2>1. <<>> \in Seq(Char)
    OBVIOUS
  <2> QED
    BY <2>1 DEF FlexBegins, FlexStates
<1>3. PICK f : Recursive(FlexStates, f, FlexBegins, g)
  <2> HIDE DEF g
  <2> QED
    BY <1>1, <1>2, Recursion
<1>4. f = Def(f)
  <2>1. ASSUME NEW n \in Nat, n # 0 PROVE g[n][f[n - 1]] = FlexStep(f[n - 1], Ch(n))
    <3>1. n - 1 \in Nat /\ f \in [Nat -> FlexStates]
      <4>1. n - 1 \in Nat
        BY <2>1
      <4> QED
        BY <1>3, <4>1, Zenon DEF Recursive
    <3>2. f[n - 1] \in FlexStates
      <4> HIDE DEF g
      <4> QED
        BY <3>1
    <3>3. g[n] = [st \in FlexStates |-> FlexStep(st, Ch(n))]
      BY <2>1
    <3> QED
      BY <3>2, <3>3
  <2> HIDE DEF g
  <2> QED
    BY <1>3, <2>1 DEF Recursive
<1>5. F = CHOOSE p : p = Def(p)
  BY DEF FlexFrom, Ch
<1>6. F = Def(F)
  <2> HIDE DEF F, Def
  <2> QED
    BY <1>4, <1>5, Zenon
<1> HIDE DEF F
<1>7. F[0] = FlexBegins /\ \A n \in Nat : n # 0 => F[n] = FlexStep(F[n - 1], Ch(n))
  BY <1>6
<1>8. \A n \in Nat : F[n + 1] = FlexStep(F[n], At(c, from + n + 1))
  <2> TAKE n \in Nat
  <2>1. n + 1 \in Nat /\ n + 1 # 0 /\ (n + 1) - 1 = n /\ from + (n + 1) = from + n + 1
    OBVIOUS
  <2>2. F[n + 1] = FlexStep(F[(n + 1) - 1], Ch(n + 1))
    <3> HIDE DEF Def
    <3> QED
      BY <1>7, <2>1, Zenon
  <2>3. Ch(n + 1) = At(c, from + (n + 1))
    BY <1>0, <2>1
  <2> QED
    BY <2>1, <2>2, <2>3
<1> DEFINE D == {n \in Nat : F[n] \in FlexStates}
<1>9. D = Nat
  <2>1. 0 \in D
    BY <1>2, <1>7
  <2>2. ASSUME NEW n \in Nat, F[n] \in FlexStates PROVE F[n + 1] \in FlexStates
    <3>1. At(c, from + n + 1) \in Char
      <4>1. n + 1 \in Nat /\ n + 1 # 0 /\ from + (n + 1) = from + n + 1
        OBVIOUS
      <4> QED
        BY <1>0, <4>1
    <3> QED
      BY <1>8, <2>2, <3>1, FlexSteps
  <2>3. \A n \in Nat : n \in D => n + 1 \in D
    BY <2>2
  <2> HIDE DEF D
  <2> QED
    BY <2>1, <2>3, AllNumbers DEF D
<1>10. \A n \in Nat : F[n] \in FlexStates
  BY <1>9
<1> QED
  BY <1>7, <1>8, <1>10, Zenon DEF F

(* One character more.                                                     *)
LEMMA FlexGoesOn ==
    ASSUME NEW c \in Seq(Char), NEW from \in Nat, NEW n \in Nat, from <= n
    PROVE  /\ FlexFrom(c, from)[n - from] \in FlexStates
           /\ FlexFrom(c, from)[n + 1 - from]
                = FlexStep(FlexFrom(c, from)[n - from], At(c, n + 1))
<1>1. n - from \in Nat /\ (n - from) + 1 = n + 1 - from /\ from + (n - from) + 1 = n + 1
  OBVIOUS
<1> DEFINE k == n - from
<1>2. k \in Nat /\ k + 1 = n + 1 - from /\ from + k + 1 = n + 1
  BY <1>1
<1> HIDE DEF k
<1>3. /\ FlexFrom(c, from)[k] \in FlexStates
      /\ FlexFrom(c, from)[k + 1] = FlexStep(FlexFrom(c, from)[k], At(c, from + k + 1))
  BY <1>2, FlexIs
<1> QED
  BY <1>2, <1>3 DEF k

-----------------------------------------------------------------------------
(* The ends of a sequence.                                                 *)
EndOf(s, t) == /\ Len(s) <= Len(t)
               /\ \A i \in 1..Len(s) : s[i] = t[Len(t) - Len(s) + i]

LEMMA EndIsSuffix ==
    ASSUME NEW S, NEW s \in Seq(S), NEW t \in Seq(S), EndOf(s, t)
    PROVE  IsSuffix(s, t)
<1> DEFINE m == Len(s)
           n == Len(t)
           a == Reverse(s)
           b == Reverse(t)
<1>1. m \in Nat /\ n \in Nat /\ m <= n
  BY DEF EndOf
<1>2. /\ a \in Seq(S) /\ Len(a) = m /\ \A i \in 1..m : a[i] = s[m - i + 1]
      /\ b \in Seq(S) /\ Len(b) = n /\ \A i \in 1..n : b[i] = t[n - i + 1]
  BY DEF Reverse
<1>3. ASSUME NEW i \in 1..m PROVE a[i] = b[i]
  <2>1. m - i + 1 \in 1..m /\ n - m + (m - i + 1) = n - i + 1 /\ i \in 1..n
    BY <1>1
  <2>2. s[m - i + 1] = t[n - m + (m - i + 1)]
    BY <2>1 DEF EndOf
  <2> QED
    BY <1>2, <2>1, <2>2
<1> HIDE DEF a, b
<1>4. SubSeq(a, 1, m) = SubSeq(b, 1, m)
  <2>1. SubSeq(a, 1, m) = [i \in 1..m |-> a[i]] /\ SubSeq(b, 1, m) = [i \in 1..m |-> b[i]]
    BY <1>1, <1>2
  <2> QED
    BY <1>3, <2>1
<1> QED
  BY <1>1, <1>2, <1>4 DEF IsSuffix, IsPrefix, a, b

LEMMA EndsGrow ==
    ASSUME NEW S, NEW s \in Seq(S), NEW t \in Seq(S), NEW x \in S
    PROVE  /\ EndOf(<<>>, t)
           /\ EndOf(s, t) => EndOf(Append(s, x), Append(t, x))
<1>1. EndOf(<<>>, t)
  BY DEF EndOf
<1>2. ASSUME EndOf(s, t) PROVE EndOf(Append(s, x), Append(t, x))
  <2> DEFINE m == Len(s)
             n == Len(t)
             a == Append(s, x)
             b == Append(t, x)
  <2>1. m \in Nat /\ n \in Nat /\ m <= n
    BY <1>2 DEF EndOf
  <2>2. /\ Len(a) = m + 1 /\ a[m + 1] = x /\ \A i \in 1..m : a[i] = s[i]
        /\ Len(b) = n + 1 /\ b[n + 1] = x /\ \A i \in 1..n : b[i] = t[i]
    BY AppendGives
  <2> HIDE DEF a, b
  <2>3. ASSUME NEW i \in 1..m + 1 PROVE a[i] = b[(n + 1) - (m + 1) + i]
    <3>1. CASE i = m + 1
      BY <2>1, <2>2, <3>1
    <3>2. CASE i # m + 1
      <4>1. i \in 1..m /\ n - m + i \in 1..n /\ (n + 1) - (m + 1) + i = n - m + i
        BY <2>1, <3>2
      <4>2. s[i] = t[n - m + i]
        BY <1>2, <4>1 DEF EndOf
      <4> QED
        BY <2>2, <4>1, <4>2
    <3> QED
      BY <3>1, <3>2
  <2>4. EndOf(a, b)
    BY <2>1, <2>2, <2>3 DEF EndOf
  <2> QED
    BY <2>4 DEF a, b
<1> QED
  BY <1>1, <1>2

-----------------------------------------------------------------------------
(* What a string in the making is, compared with flex.l's.                 *)
Meets(c, from, to, x, y) == \E i \in from + 1..to - 1 : c[i] = x /\ c[i + 1] = y
Sane(c, from, to) ==
    ~Meets(c, from, to, Backslash, Backslash) /\ ~Meets(c, from, to, Backslash, NL)
Unbroken(c, from, to) ==
    /\ ~Meets(c, from, to, Backslash, Backslash) /\ ~Meets(c, from, to, Backslash, Quote)
    /\ \A i \in from + 1..to : c[i] # NL
Flex(c, from, n) == FlexFrom(c, from)[n - from]
Uncut(errs) == "LE07" \notin errs

(* Inside a literal: the two agree on the text, or on its end, and on      *)
(* whether the last character was a backslash that escapes.                *)
Inside(st, last) == st.in /\ (st.escaped => last = Backslash)
InLiteral(c, t, from, n, errs) ==
    LET st == Flex(c, from, n)
    IN  /\ Uncut(errs) /\ Sane(c, from, n) =>
              /\ Inside(st, c[n]) /\ st.text = t /\ c[n] # NL
              /\ st.escaped => At(c, n + 1) # Quote
        /\ Unbroken(c, from, n) => Inside(st, c[n]) /\ EndOf(t, st.text)

Outside(st) == ~st.in
BehindLiteral(c, t, from, n, errs) ==
    LET st == Flex(c, from, n)
    IN  /\ Uncut(errs) /\ Sane(c, from, n) => Outside(st) /\ st.text = t
        /\ Unbroken(c, from, n) => Outside(st) /\ EndOf(t, st.text)

StringOf(c, t, errs) ==
    t.kind = "string" =>
        LET st == Flex(c, t.from, t.to)
        IN  /\ t.from <= t.to
            /\ Uncut(errs) /\ Sane(c, t.from, t.to) => st.text = t.text
            /\ Unbroken(c, t.from, t.to) => EndOf(t.text, st.text)

(* What one step of flex.l's scanner does.                                 *)
LEMMA FlexCases ==
    ASSUME NEW st \in FlexStates, NEW ch
    PROVE  LET next == FlexStep(st, ch)
           IN  /\ ~st.in /\ ch # Quote => ~next.in /\ next.text = st.text
               /\ ~st.in /\ ch = Quote => next.in /\ ~next.escaped /\ next.text = st.text
               /\ st.in /\ ~st.escaped /\ ch \in {Quote, NL} => ~next.in /\ next.text = st.text
               /\ st.in /\ (st.escaped \/ ch \notin {Quote, NL}) =>
                     /\ next.in /\ next.text = Append(st.text, ch)
                     /\ next.escaped => ~st.escaped /\ ch = Backslash
                     /\ ~st.escaped /\ ch = Backslash => next.escaped
BY DEF FlexStep, FlexStates

LEMMA MeetsOn ==
    ASSUME NEW c, NEW from \in Nat, NEW n \in Nat, NEW x, NEW y
    PROVE  /\ Meets(c, from, n, x, y) => Meets(c, from, n + 1, x, y)
           /\ from < n /\ c[n] = x /\ c[n + 1] = y => Meets(c, from, n + 1, x, y)
<1>1. from + 1..n - 1 \subseteq from + 1..(n + 1) - 1
  OBVIOUS
<1>2. from < n => n \in from + 1..(n + 1) - 1
  OBVIOUS
<1> QED
  BY <1>1, <1>2 DEF Meets

LEMMA SaneBefore ==
    ASSUME NEW c, NEW from \in Nat, NEW n \in Nat, from < n, NEW k, k = n + 1
    PROVE  /\ Sane(c, from, k) => /\ Sane(c, from, n)
                                  /\ c[n] = Backslash => c[k] \notin {Backslash, NL}
           /\ Unbroken(c, from, k) => /\ Unbroken(c, from, n) /\ c[k] # NL
                                      /\ c[n] = Backslash => c[k] \notin {Backslash, Quote}
<1>1. \A x, y : /\ Meets(c, from, n, x, y) => Meets(c, from, k, x, y)
                /\ c[n] = x /\ c[k] = y => Meets(c, from, k, x, y)
  BY MeetsOn
<1>2. \A i \in from + 1..n : i \in from + 1..k
  OBVIOUS
<1>3. k \in from + 1..k
  OBVIOUS
<1> QED
  BY <1>1, <1>2, <1>3 DEF Sane, Unbroken

(* Where the scanner of flex.l is one character further, and what the      *)
(* exclusions then say of the character before.                            *)
LEMMA OneOn ==
    ASSUME NEW c \in Seq(Char), NEW from \in Nat, NEW n \in Nat, from <= n,
           n < Len(c), NEW k, k = n + 1
    PROVE  /\ Flex(c, from, n) \in FlexStates
           /\ Flex(c, from, k) = FlexStep(Flex(c, from, n), c[k])
           /\ At(c, k) = c[k] /\ c[k] \in Char /\ k \in Nat /\ from < k
           /\ from < n => /\ Sane(c, from, k) =>
                                /\ Sane(c, from, n)
                                /\ c[n] = Backslash => c[k] \notin {Backslash, NL}
                          /\ Unbroken(c, from, k) =>
                                /\ Unbroken(c, from, n) /\ c[k] # NL
                                /\ c[n] = Backslash => c[k] \notin {Backslash, Quote}
<1>1. Len(c) \in Nat /\ k \in 1..Len(c)
  BY LenProperties
<1>2. At(c, k) = c[k] /\ c[k] \in Char /\ k \in Nat /\ from < k
  BY <1>1, ElementOfSeq DEF At
<1>3. /\ FlexFrom(c, from)[n - from] \in FlexStates
      /\ FlexFrom(c, from)[n + 1 - from]
           = FlexStep(FlexFrom(c, from)[n - from], At(c, n + 1))
  BY FlexGoesOn
<1>4. /\ Flex(c, from, n) \in FlexStates
      /\ Flex(c, from, k) = FlexStep(Flex(c, from, n), c[k])
  BY <1>2, <1>3 DEF Flex
<1>5. from < n => /\ Sane(c, from, k) =>
                        /\ Sane(c, from, n)
                        /\ c[n] = Backslash => c[k] \notin {Backslash, NL}
                  /\ Unbroken(c, from, k) =>
                        /\ Unbroken(c, from, n) /\ c[k] # NL
                        /\ c[n] = Backslash => c[k] \notin {Backslash, Quote}
  BY SaneBefore
<1> QED
  BY <1>2, <1>4, <1>5

-----------------------------------------------------------------------------
(* One character of parseString() and one step of flex.l's scanner.        *)
LEMMA LiteralGoesOn ==
    ASSUME NEW c \in Seq(Char), NEW from \in Nat, NEW n \in Nat, from < n,
           n < Len(c), NEW k, k = n + 1, NEW t \in Seq(Char), NEW errs,
           InLiteral(c, t, from, n, errs), c[k] \notin {Quote, NL},
           c[k] = Backslash => At(c, k + 1) # Quote
    PROVE  InLiteral(c, Append(t, c[k]), from, k, errs)
<1> DEFINE st == Flex(c, from, n)
           next == Flex(c, from, k)
<1>1. st \in FlexStates /\ next = FlexStep(st, c[k]) /\ c[k] \in Char
  BY OneOn
<1>2. /\ Sane(c, from, k) => Sane(c, from, n)
      /\ Unbroken(c, from, k) => Unbroken(c, from, n)
  BY OneOn
<1>3. /\ Uncut(errs) /\ Sane(c, from, n) => st.in /\ st.text = t
      /\ Unbroken(c, from, n) => st.in /\ EndOf(t, st.text)
  BY DEF InLiteral, Inside
<1> HIDE DEF st, next
<1>4. st.in => /\ next.in /\ next.text = Append(st.text, c[k])
               /\ next.escaped => c[k] = Backslash
  BY <1>1, FlexCases
<1>5. st.text \in Seq(Char)
  BY <1>1 DEF FlexStates
<1>6. EndOf(t, st.text) => EndOf(Append(t, c[k]), Append(st.text, c[k]))
  BY <1>1, <1>5, EndsGrow
<1>7. ASSUME Uncut(errs), Sane(c, from, k)
      PROVE  /\ Inside(next, c[k]) /\ next.text = Append(t, c[k]) /\ c[k] # NL
             /\ next.escaped => At(c, k + 1) # Quote
  BY <1>2, <1>3, <1>4, <1>7 DEF Inside
<1>8. ASSUME Unbroken(c, from, k)
      PROVE  Inside(next, c[k]) /\ EndOf(Append(t, c[k]), next.text)
  BY <1>2, <1>3, <1>4, <1>6, <1>8 DEF Inside
<1> QED
  BY <1>7, <1>8 DEF InLiteral, next

LEMMA LiteralEscapes ==
    ASSUME NEW c \in Seq(Char), NEW from \in Nat, NEW n \in Nat, from < n,
           NEW k, k = n + 1, k < Len(c), NEW m, m = k + 1, NEW t \in Seq(Char), NEW errs,
           InLiteral(c, t, from, n, errs), c[k] = Backslash, c[m] = Quote
    PROVE  InLiteral(c, t \o <<Backslash, Quote>>, from, m, errs)
<1> DEFINE st == Flex(c, from, n)
           half == Flex(c, from, k)
           next == Flex(c, from, m)
<1>0. n < Len(c) /\ k \in Nat /\ from < k /\ from <= n /\ from <= k
  BY LenProperties
<1>1. st \in FlexStates /\ half = FlexStep(st, c[k]) /\ c[k] \in Char
  BY <1>0, OneOn
<1>2. half \in FlexStates /\ next = FlexStep(half, c[m]) /\ c[m] \in Char
  BY <1>0, OneOn
<1>3. Sane(c, from, k) => Sane(c, from, n) /\ c[n] # Backslash
  BY <1>0, OneOn
<1>4. /\ Sane(c, from, m) => Sane(c, from, k)
      /\ ~Unbroken(c, from, m)
  BY <1>0, OneOn
<1>5. Uncut(errs) /\ Sane(c, from, n) => Inside(st, c[n]) /\ st.text = t
  BY DEF InLiteral
<1> HIDE DEF st, half, next
<1>6. ASSUME Uncut(errs), Sane(c, from, m)
      PROVE  /\ Inside(next, c[m]) /\ next.text = t \o <<Backslash, Quote>>
             /\ c[m] # NL /\ ~next.escaped
  <2>1. st.in /\ ~st.escaped /\ st.text = t
    BY <1>3, <1>4, <1>5, <1>6 DEF Inside
  <2>2. Backslash \notin {Quote, NL} \/ Backslash = Quote
    BY QuoteAssumption, Zenon
  <2>3. Backslash # Quote
    BY DEF Backslash, Quote
  <2>4. half.in /\ half.escaped /\ half.text = Append(t, Backslash)
    BY <1>1, <2>1, <2>2, <2>3, FlexCases
  <2>5. next.in /\ ~next.escaped /\ next.text = Append(half.text, Quote)
    BY <1>2, <2>4, FlexCases
  <2>6. Append(Append(t, Backslash), Quote) = t \o <<Backslash, Quote>>
    <3>1. Backslash \in Char /\ Quote \in Char
      BY <1>1, <1>2
    <3> QED
      BY <3>1
  <2>7. Quote # NL
    BY QuoteAssumption, Zenon
  <2> QED
    BY <2>4, <2>5, <2>6, <2>7 DEF Inside
<1>7. next = Flex(c, from, m)
  BY DEF next
<1> QED
  BY <1>4, <1>6, <1>7 DEF InLiteral

LEMMA LiteralCut ==
    ASSUME NEW c \in Seq(Char), NEW from \in Nat, NEW n \in Nat, from < n,
           n < Len(c), NEW k, k = n + 1, NEW t, NEW errs,
           InLiteral(c, t, from, n, errs), c[k] # Quote
    PROVE  InLiteral(c, <<>>, from, k, errs \cup {"LE07"})
<1> DEFINE st == Flex(c, from, n)
           next == Flex(c, from, k)
<1>1. st \in FlexStates /\ next = FlexStep(st, c[k])
  BY OneOn
<1>2. Unbroken(c, from, k) => Unbroken(c, from, n) /\ c[k] # NL
  BY OneOn
<1>3. Unbroken(c, from, n) => st.in
  BY DEF InLiteral, Inside
<1> HIDE DEF st, next
<1>4. st.in /\ c[k] # NL => next.in /\ (next.escaped => c[k] = Backslash)
  BY <1>1, FlexCases
<1>5. FlexStep(st, c[k]) \in FlexStates
  <2>1. c[k] \in Char
    BY OneOn
  <2> QED
    BY <1>1, <2>1, FlexSteps
<1>6. EndOf(<<>>, next.text)
  <2>1. next.text \in Seq(Char)
    BY <1>1, <1>5 DEF FlexStates
  <2> QED
    BY <2>1, LenProperties DEF EndOf
<1>7. ~Uncut(errs \cup {"LE07"})
  BY DEF Uncut
<1>8. Unbroken(c, from, k) => Inside(next, c[k]) /\ EndOf(<<>>, next.text)
  BY <1>2, <1>3, <1>4, <1>6 DEF Inside
<1>9. next = Flex(c, from, k)
  BY DEF next
<1> QED
  BY <1>7, <1>8, <1>9 DEF InLiteral

LEMMA LiteralEnds ==
    ASSUME NEW c \in Seq(Char), NEW from \in Nat, NEW n \in Nat, from < n,
           n < Len(c), NEW k, k = n + 1, NEW t, NEW errs, NEW more,
           InLiteral(c, t, from, n, errs), c[k] \in {Quote, NL}
    PROVE  BehindLiteral(c, t, from, k, errs \cup more)
<1> DEFINE st == Flex(c, from, n)
           next == Flex(c, from, k)
<1>1. st \in FlexStates /\ next = FlexStep(st, c[k]) /\ At(c, n + 1) = c[k]
  BY OneOn
<1>2. /\ Sane(c, from, k) => /\ Sane(c, from, n)
                             /\ c[n] = Backslash => c[k] # NL
      /\ Unbroken(c, from, k) => /\ Unbroken(c, from, n) /\ c[k] # NL
                                 /\ c[n] = Backslash => c[k] # Quote
  BY OneOn
<1>3. /\ Uncut(errs) /\ Sane(c, from, n) =>
            /\ Inside(st, c[n]) /\ st.text = t
            /\ st.escaped => c[k] # Quote
      /\ Unbroken(c, from, n) => Inside(st, c[n]) /\ EndOf(t, st.text)
  BY <1>1 DEF InLiteral
<1>4. Uncut(errs \cup more) => Uncut(errs)
  BY DEF Uncut
<1>5. next = Flex(c, from, k)
  BY DEF next
<1> HIDE DEF st, next
<1>6. st.in /\ ~st.escaped => ~next.in /\ next.text = st.text
  BY <1>1, FlexCases
<1>7. ASSUME Uncut(errs \cup more), Sane(c, from, k)
      PROVE  Outside(next) /\ next.text = t
  BY <1>2, <1>3, <1>4, <1>6, <1>7 DEF Inside, Outside
<1>8. ASSUME Unbroken(c, from, k)
      PROVE  Outside(next) /\ EndOf(t, next.text)
  BY <1>2, <1>3, <1>6, <1>8 DEF Inside, Outside
<1> QED
  BY <1>5, <1>7, <1>8 DEF BehindLiteral

LEMMA Behind ==
    ASSUME NEW c \in Seq(Char), NEW from \in Nat, NEW n \in Nat, from < n,
           n < Len(c), NEW k, k = n + 1, NEW t, NEW errs,
           BehindLiteral(c, t, from, n, errs)
    PROVE  /\ c[k] # Quote => BehindLiteral(c, t, from, k, errs)
           /\ c[k] = Quote => InLiteral(c, t, from, k, errs)
<1> DEFINE st == Flex(c, from, n)
           next == Flex(c, from, k)
<1>1. st \in FlexStates /\ next = FlexStep(st, c[k])
  BY OneOn
<1>2. /\ Sane(c, from, k) => Sane(c, from, n)
      /\ Unbroken(c, from, k) => Unbroken(c, from, n)
  BY OneOn
<1>3. /\ Uncut(errs) /\ Sane(c, from, n) => ~st.in /\ st.text = t
      /\ Unbroken(c, from, n) => ~st.in /\ EndOf(t, st.text)
  BY DEF BehindLiteral, Outside
<1>4. next = Flex(c, from, k)
  BY DEF next
<1> HIDE DEF st, next
<1>5. ASSUME c[k] # Quote PROVE BehindLiteral(c, t, from, k, errs)
  <2>1. ~st.in => ~next.in /\ next.text = st.text
    BY <1>1, <1>5, FlexCases
  <2> QED
    BY <1>2, <1>3, <1>4, <2>1 DEF BehindLiteral, Outside
<1>6. ASSUME c[k] = Quote PROVE InLiteral(c, t, from, k, errs)
  <2>1. ~st.in => next.in /\ ~next.escaped /\ next.text = st.text
    BY <1>1, <1>6, FlexCases
  <2>2. Quote # NL
    BY QuoteAssumption, Zenon
  <2>3. c[k] # NL
    BY <1>6, <2>2
  <2> QED
    BY <1>2, <1>3, <1>4, <2>1, <2>3 DEF InLiteral, Inside
<1> QED
  BY <1>5, <1>6

LEMMA LiteralBegins ==
    ASSUME NEW c \in Seq(Char), NEW n \in Nat, n < Len(c), NEW k, k = n + 1, NEW errs,
           c[k] = Quote
    PROVE  InLiteral(c, <<>>, n, k, errs)
<1> DEFINE st == Flex(c, n, n)
           next == Flex(c, n, k)
<1>1. st \in FlexStates /\ next = FlexStep(st, c[k])
  BY OneOn
<1>2. st = FlexBegins
  <2>1. n - n = 0 /\ FlexFrom(c, n)[0] = FlexBegins
    BY FlexIs
  <2> QED
    BY <2>1 DEF Flex
<1>3. ~st.in /\ st.text = <<>>
  BY <1>2 DEF FlexBegins
<1>4. next = Flex(c, n, k)
  BY DEF next
<1> HIDE DEF st, next
<1>5. next.in /\ ~next.escaped /\ next.text = <<>>
  BY <1>1, <1>3, FlexCases
<1>6. Quote # NL
  BY QuoteAssumption, Zenon
<1>7. c[k] # NL
  BY <1>6
<1>8. EndOf(<<>>, <<>>)
  BY DEF EndOf
<1> QED
  BY <1>4, <1>5, <1>7, <1>8 DEF InLiteral, Inside

(* At the end of a text there is a newline: nothing is claimed of a string *)
(* that was not ended by it.                                               *)
LEMMA LiteralOpen ==
    ASSUME NEW c \in Seq(Char), Text(c), NEW from \in Nat, NEW n \in Nat, from < n,
           n = Len(c), NEW t, NEW u, NEW errs, NEW more, InLiteral(c, t, from, n, errs)
    PROVE  InLiteral(c, u, from, n, errs \cup more)
<1>1. c[n] = NL
  BY DEF Text
<1>2. Uncut(errs \cup more) => Uncut(errs)
  BY DEF Uncut
<1>3. ~(Uncut(errs) /\ Sane(c, from, n))
  BY <1>1 DEF InLiteral
<1>4. ~Unbroken(c, from, n)
  <2>1. n \in from + 1..n
    OBVIOUS
  <2> QED
    BY <1>1, <2>1 DEF Unbroken
<1> QED
  BY <1>2, <1>3, <1>4 DEF InLiteral

-----------------------------------------------------------------------------
(* The invariant.                                                          *)
Strings(where, c, t, st, n, errs, tk) ==
    /\ where = "string" => InLiteral(c, t, st, n, errs)
    /\ where = "strtail" => BehindLiteral(c, t, st, n, errs)
    /\ StringOf(c, tk, errs)
SInv == TInv /\ (Text(content) =>
                    Strings(pc, content, tmp, start, Cursor(src), errors, tok))

(* A step that does not end in a string, and returns none.                 *)
NoString ==
    /\ pc' \notin {"string", "strtail"}
    /\ tok' = tok \/ tok'.kind # "string"
    /\ content' = content /\ \E more : errors' = errors \cup more

LEMMA MoreErrors ==
    ASSUME NEW c, NEW t, NEW errs, NEW more, StringOf(c, t, errs)
    PROVE  StringOf(c, t, errs \cup more)
<1>1. Uncut(errs \cup more) => Uncut(errs)
  BY DEF Uncut
<1> QED
  BY <1>1 DEF StringOf

LEMMA Elsewhere ==
    ASSUME SInv, TInv', NoString
    PROVE  SInv'
<1>1. PICK more : errors' = errors \cup more
  BY DEF NoString
<1>2. ASSUME Text(content) PROVE StringOf(content, tok', errors')
  <2>1. StringOf(content, tok, errors \cup more)
    BY <1>2, MoreErrors DEF SInv, Strings
  <2>2. tok'.kind # "string" => StringOf(content, tok', errors')
    BY DEF StringOf
  <2> QED
    BY <1>1, <2>1, <2>2 DEF NoString
<1>3. content' = content /\ pc' \notin {"string", "strtail"}
  BY DEF NoString
<1> QED
  BY <1>2, <1>3 DEF SInv, Strings

LEMMA ReturnsNoString ==
    ASSUME NEW kind, kind # "string", NEW text, NEW s, Return(kind, text, s)
    PROVE  NoString
<1>1. errors' = errors \cup {}
  BY DEF Return
<1>2. tok'.kind # "string"
  BY DEF Return
<1> QED
  BY <1>1, <1>2 DEF NoString, Return

LEMMA ContinuesNoString ==
    ASSUME NEW where, where \notin {"string", "strtail"}, NEW t, NEW s,
           Continue(where, t, s)
    PROVE  NoString
<1>1. errors' = errors \cup {}
  BY DEF Continue
<1> QED
  BY <1>1 DEF NoString, Continue

LEMMA LeavesKeywordsNoString ==
    ASSUME NEW t, LeaveKeywords(t)
    PROVE  NoString
BY ReturnsNoString, ContinuesNoString DEF LeaveKeywords

LEMMA WordsNoString ==
    ASSUME SkipBlank \/ Resynch \/ KeywordGoesOn \/ DoKeyword \/ KeywordEnds
              \/ NoKeyword \/ IdentifierChar \/ NumberStep
    PROVE  NoString
<1>1. CASE SkipBlank
  BY <1>1, ContinuesNoString DEF SkipBlank
<1>2. CASE Resynch
  BY <1>2, ContinuesNoString DEF Resynch
<1>3. CASE KeywordGoesOn
  BY <1>3, ContinuesNoString DEF KeywordGoesOn
<1>4. CASE DoKeyword
  BY <1>4, ReturnsNoString DEF DoKeyword
<1>5. CASE KeywordEnds
  BY <1>5, ContinuesNoString, ReturnsNoString DEF KeywordEnds
<1>6. CASE NoKeyword
  BY <1>6, LeavesKeywordsNoString DEF NoKeyword
<1>7. CASE IdentifierChar
  BY <1>7, LeavesKeywordsNoString DEF IdentifierChar
<1>8. CASE NumberStep
  BY <1>8, ContinuesNoString, ReturnsNoString DEF NumberStep
<1> QED
  BY <1>1, <1>2, <1>3, <1>4, <1>5, <1>6, <1>7, <1>8

LEMMA OthersNoString ==
    ASSUME OperatorStep \/ ThirdChar \/ CharConstant \/ IllegalChar
    PROVE  NoString
<1>1. CASE OperatorStep
  BY <1>1, ContinuesNoString, ReturnsNoString DEF OperatorStep
<1>2. CASE ThirdChar
  BY <1>2, ReturnsNoString DEF ThirdChar
<1>3. CASE CharConstant
  <2>1. /\ pc = "char" /\ tok' = tok /\ content' = content
        /\ pc' \in {"char", "crashed", "exited"}
    BY <1>3, Zenon DEF CharConstant, InString, LeaveString
  <2>2. \E more : errors' = errors \cup more
    BY <1>3, Zenon DEF CharConstant, InString, LeaveString
  <2> QED
    BY <2>1, <2>2 DEF NoString
<1>4. CASE IllegalChar
  <2>1. /\ pc' = "blank" /\ tok'.kind = "op" /\ content' = content
        /\ errors' = errors \cup {"LE05"}
    BY <1>4 DEF IllegalChar
  <2> QED
    BY <2>1 DEF NoString
<1> QED
  BY <1>1, <1>2, <1>3, <1>4

-----------------------------------------------------------------------------
(* The steps that begin, read and end a string.                            *)
LEMMA BeginsOther ==
    ASSUME SInv, TInv', NEW where, where \notin {"string", "strtail"}, NEW t, NEW s,
           Dispatch(where, t, s)
    PROVE  SInv'
<1>1. errors' = errors \cup {}
  BY DEF Dispatch
<1>2. NoString
  BY <1>1 DEF NoString, Dispatch
<1> QED
  BY <1>2, Elsewhere

LEMMA BeginsString ==
    ASSUME SInv, TInv', Got = Quote, Dispatch("string", <<>>, After)
    PROVE  SInv'
<1>1. /\ pc' = "string" /\ tok' = tok /\ content' = content /\ errors' = errors
      /\ tmp' = <<>> /\ src' = After /\ start' = Cursor(src)
  BY DEF Dispatch
<1>2. Got # NUL
  BY QuoteAssumption, Zenon
<1>3. TInv
  BY DEF SInv
<1>4. /\ content \in Seq(Char) /\ Cursor(src) \in Nat /\ Cursor(src) < Len(content)
      /\ content[Cursor(src) + 1] = Quote /\ Cursor(After) = Cursor(src) + 1
  BY <1>2, <1>3, PlaceIs, GotIsThere
<1>5. InLiteral(content, <<>>, Cursor(src), Cursor(After), errors)
  BY <1>4, LiteralBegins
<1>6. ASSUME Text(content)
      PROVE  Strings("string", content, <<>>, Cursor(src), Cursor(After), errors, tok)
  BY <1>5, <1>6 DEF SInv, Strings
<1> QED
  BY <1>1, <1>6 DEF SInv

LEMMA FirstCharStrings == ASSUME SInv, TInv', FirstChar PROVE SInv'
<1>1. \/ \E where \in {"blank", "resynch", "number", "letter", "identifier", "char",
                       "done", "operator"} : \E t, s : Dispatch(where, t, s)
      \/ Got = Quote /\ Dispatch("string", <<>>, After)
  BY DEF FirstChar
<1> QED
  BY <1>1, BeginsOther, BeginsString

LEMMA StaysStrings ==
    ASSUME SInv, TInv', Text(content), pc = "string", NEW t, NEW n, NEW s, NEW errs,
           InString(t, n, s, errs),
           InLiteral(content, t, start, Cursor(s), errors \cup errs)
    PROVE  SInv'
<1>1. /\ pc' = "string" /\ tok' = tok /\ content' = content /\ tmp' = t /\ src' = s
      /\ start' = start /\ errors' = errors \cup errs
  BY DEF InString
<1>2. StringOf(content, tok, errors \cup errs)
  BY MoreErrors DEF SInv, Strings
<1>3. Strings("string", content, t, start, Cursor(s), errors \cup errs, tok)
  BY <1>2 DEF Strings
<1> QED
  BY <1>1, <1>3 DEF SInv

LEMMA LeavesStrings ==
    ASSUME SInv, TInv', Text(content), NEW where, NEW s, NEW errs,
           LeaveString(where, s, errs),
           where = "string" => InLiteral(content, tmp, start, Cursor(s), errors \cup errs),
           where = "strtail" => BehindLiteral(content, tmp, start, Cursor(s), errors \cup errs)
    PROVE  SInv'
<1>1. /\ pc' = where /\ tok' = tok /\ content' = content /\ tmp' = tmp /\ src' = s
      /\ start' = start /\ errors' = errors \cup errs
  BY DEF LeaveString
<1>2. StringOf(content, tok, errors \cup errs)
  BY MoreErrors DEF SInv, Strings
<1>3. Strings(where, content, tmp, start, Cursor(s), errors \cup errs, tok)
  BY <1>2 DEF Strings
<1> QED
  BY <1>1, <1>3 DEF SInv

(* What is known in the middle of a string.                                *)
LEMMA InStringIs ==
    ASSUME SInv, Text(content), pc \in {"string", "strtail"}
    PROVE  /\ TInv /\ content \in Seq(Char) /\ tmp \in Seq(Char) /\ start \in Nat
           /\ Cursor(src) \in Nat /\ start < Cursor(src)
           /\ Fine(content, After)
           /\ Got = NUL => Cursor(src) = Len(content) /\ Cursor(After) = Cursor(src)
           /\ Got # NUL => /\ Cursor(src) < Len(content) /\ Cursor(After) = Cursor(src) + 1
                           /\ content[Cursor(src) + 1] = Got
                           /\ Fine(content, Undone) /\ Cursor(Undone) = Cursor(src)
<1>1. TInv /\ IInv
  BY DEF SInv, TInv
<1>2. start < Cursor(src)
  BY <1>1 DEF TInv, Between
<1>3. /\ content \in Seq(Char) /\ tmp \in Seq(Char) /\ start \in Nat
      /\ Cursor(src) \in Nat /\ Cursor(src) <= Len(content) /\ Len(content) \in Nat
      /\ Got = At(content, Cursor(src) + 1)
  BY <1>1, PlaceIs
<1>4. ASSUME Got = NUL PROVE Cursor(src) = Len(content) /\ Cursor(After) = Cursor(src)
  <2>1. Cursor(After) = Cursor(src)
    BY <1>1, <1>4, PlaceIs
  <2>2. ASSUME Cursor(src) # Len(content) PROVE FALSE
    <3>1. Cursor(src) + 1 \in 1..Len(content)
      BY <1>3, <2>2
    <3>2. content[Cursor(src) + 1] = NUL
      BY <1>3, <1>4, <3>1 DEF At
    <3> QED
      BY <3>1, <3>2 DEF Text
  <2> QED
    BY <2>1, <2>2
<1>5. ASSUME Got # NUL
      PROVE  /\ Cursor(src) < Len(content) /\ Cursor(After) = Cursor(src) + 1
             /\ content[Cursor(src) + 1] = Got
             /\ Fine(content, Undone) /\ Cursor(Undone) = Cursor(src)
  BY <1>1, <1>5, PlaceIs, GotIsThere, GotIs
<1>6. Fine(content, After)
  BY <1>1, GotIs
<1> QED
  BY <1>1, <1>2, <1>3, <1>4, <1>5, <1>6

(* A backslash and what stands behind it.                                  *)
LEMMA BackslashStrings ==
    ASSUME SInv, TInv', Text(content), pc = "string", Got = Backslash,
           IF AheadChar(After) = Quote
           THEN InString(tmp \o <<Backslash, Quote>>, count + 1,
                         FileNext(content, AheadSrc(After), "GET_CHAR"), {})
           ELSE InString(Append(tmp, Got), count + 1, AheadSrc(After), {})
    PROVE  SInv'
<1> DEFINE n == Cursor(src)
           k == n + 1
<1>1. Got # NUL /\ Got # NL
  BY QuoteAssumption, Zenon
<1>2. /\ content \in Seq(Char) /\ tmp \in Seq(Char) /\ start \in Nat /\ n \in Nat
      /\ start < n /\ n < Len(content) /\ Cursor(After) = k /\ content[k] = Got
      /\ Fine(content, After)
  BY <1>1, InStringIs
<1>3. AheadChar(After) = At(content, k + 1)
  BY <1>2, AheadSees
<1>4. /\ Fine(content, AheadSrc(After)) /\ Cursor(AheadSrc(After)) = k
  BY <1>2, AheadIs
<1>5. InLiteral(content, tmp, start, n, errors)
  BY DEF SInv, Strings
<1>6. Got # Quote
  BY DEF Backslash, Quote
<1>7. errors \cup {} = errors
  OBVIOUS
<1>8. CASE AheadChar(After) = Quote
  <2> DEFINE m == k + 1
             s == FileNext(content, AheadSrc(After), "GET_CHAR")
  <2>1. At(content, m) = Quote /\ Quote # NUL
    BY <1>3, <1>8, QuoteAssumption, Zenon
  <2>2. content[m] = Quote /\ k < Len(content)
    <3>1. m \in 1..Len(content)
      BY <2>1 DEF At
    <3>2. content[m] = Quote
      BY <2>1, <3>1 DEF At
    <3>3. Len(content) \in Nat
      BY <1>2, LenProperties
    <3> QED
      BY <1>2, <3>1, <3>2, <3>3
  <2>3. Cursor(s) = m
    <3>1. Cursor(s) = IF FileChar(content, AheadSrc(After), "GET_CHAR") = NUL
                      THEN Cursor(AheadSrc(After)) ELSE Cursor(AheadSrc(After)) + 1
      BY <1>4, Gets
    <3>2. FileChar(content, AheadSrc(After), "GET_CHAR") = At(content, Cursor(AheadSrc(After)) + 1)
      BY <1>4, Gets
    <3> QED
      BY <1>4, <2>1, <3>1, <3>2
  <2>4. InLiteral(content, tmp \o <<Backslash, Quote>>, start, m, errors)
    <3> HIDE DEF n, k, m
    <3>1. k = n + 1 /\ m = k + 1
      BY DEF k, m
    <3> QED
      BY <1>2, <1>5, <2>2, <3>1, LiteralEscapes
  <2>5. InString(tmp \o <<Backslash, Quote>>, count + 1, s, {})
    BY <1>8
  <2>6. InLiteral(content, tmp \o <<Backslash, Quote>>, start, Cursor(s), errors \cup {})
    BY <1>7, <2>3, <2>4, Zenon
  <2> HIDE DEF s
  <2> QED
    BY <2>5, <2>6, StaysStrings
<1>9. CASE AheadChar(After) # Quote
  <2>1. InLiteral(content, Append(tmp, Got), start, k, errors)
    <3> HIDE DEF n, k
    <3>1. k = n + 1
      BY DEF k
    <3> QED
      BY <1>1, <1>2, <1>3, <1>5, <1>6, <1>9, <3>1, LiteralGoesOn
  <2>2. InString(Append(tmp, Got), count + 1, AheadSrc(After), {})
    BY <1>9
  <2>3. InLiteral(content, Append(tmp, Got), start, Cursor(AheadSrc(After)), errors \cup {})
    BY <1>4, <1>7, <2>1, Zenon
  <2> QED
    BY <2>2, <2>3, StaysStrings
<1> QED
  BY <1>8, <1>9

LEMMA StringCharStrings == ASSUME SInv, TInv', StringChar PROVE SInv'
<1>1. pc = "string"
  BY DEF StringChar
<1>2. CASE ~Text(content)
  <2>1. content' = content
    BY Zenon DEF StringChar, InString, LeaveString
  <2> QED
    BY <1>2, <2>1 DEF SInv
<1>3. CASE Text(content)
  <2> DEFINE n == Cursor(src)
             k == n + 1
  <2>1. /\ content \in Seq(Char) /\ tmp \in Seq(Char) /\ start \in Nat /\ n \in Nat
        /\ start < n
        /\ Got = NUL => n = Len(content) /\ Cursor(After) = n
        /\ Got # NUL => n < Len(content) /\ Cursor(After) = k /\ content[k] = Got
    BY <1>1, <1>3, InStringIs
  <2>2. InLiteral(content, tmp, start, n, errors)
    BY <1>1, <1>3 DEF SInv, Strings
  <2>3. k = n + 1
    OBVIOUS
  <2>4. NL # NUL /\ Quote # NUL
    BY CharAssumption, QuoteAssumption
  <2> HIDE DEF n, k
  <2>5. ASSUME Got \in {Quote, NL}, NEW errs, LeaveString("strtail", After, errs) PROVE SInv'
    <3>1. Got # NUL
      BY <2>4, <2>5
    <3>2. BehindLiteral(content, tmp, start, Cursor(After), errors \cup errs)
      BY <2>1, <2>2, <2>3, <2>5, <3>1, LiteralEnds
    <3> QED
      BY <1>3, <2>5, <3>2, LeavesStrings
  <2>6. ASSUME Got = NUL, NEW u, NEW errs
        PROVE  InLiteral(content, u, start, Cursor(After), errors \cup errs)
    <3>1. n = Len(content) /\ Cursor(After) = n
      BY <2>1, <2>6
    <3>2. InLiteral(content, u, start, n, errors \cup errs)
      BY <1>3, <2>1, <2>2, <3>1, LiteralOpen
    <3> QED
      BY <3>1, <3>2
  <2>7. CASE Got # Quote /\ InString(<<>>, 1, After, {"LE07"})
    <3>1. CASE Got = NUL
      <4>1. InLiteral(content, <<>>, start, Cursor(After), errors \cup {"LE07"})
        BY <2>6, <3>1
      <4> QED
        BY <1>1, <1>3, <2>7, <4>1, StaysStrings
    <3>2. CASE Got # NUL
      <4>1. InLiteral(content, <<>>, start, Cursor(After), errors \cup {"LE07"})
        BY <2>1, <2>2, <2>3, <2>7, <3>2, LiteralCut
      <4> QED
        BY <1>1, <1>3, <2>7, <4>1, StaysStrings
    <3> QED
      BY <3>1, <3>2
  <2>8. CASE LeaveString("exited", After, {"LE02"})
    BY <1>3, <2>8, LeavesStrings
  <2>9. CASE /\ Got \notin {Quote, NL, Byte255, Backslash}
             /\ InString(Append(tmp, Got), count + 1, After, {})
    <3>1. CASE Got = NUL
      <4>1. InLiteral(content, Append(tmp, Got), start, Cursor(After), errors \cup {})
        BY <2>6, <3>1
      <4> QED
        BY <1>1, <1>3, <2>9, <4>1, StaysStrings
    <3>2. CASE Got # NUL
      <4>1. InLiteral(content, Append(tmp, Got), start, k, errors)
        BY <2>1, <2>2, <2>3, <2>9, <3>2, LiteralGoesOn
      <4>2. errors \cup {} = errors
        OBVIOUS
      <4>3. InLiteral(content, Append(tmp, Got), start, Cursor(After), errors \cup {})
        BY <2>1, <3>2, <4>1, <4>2, Zenon
      <4> QED
        BY <1>1, <1>3, <2>9, <4>3, StaysStrings
    <3> QED
      BY <3>1, <3>2
  <2>10. CASE /\ Got = Backslash
              /\ IF AheadChar(After) = Quote
                 THEN InString(tmp \o <<Backslash, Quote>>, count + 1,
                               FileNext(content, AheadSrc(After), "GET_CHAR"), {})
                 ELSE InString(Append(tmp, Got), count + 1, AheadSrc(After), {})
    BY <1>1, <1>3, <2>10, BackslashStrings
  <2> QED
    BY <2>5, <2>7, <2>8, <2>9, <2>10, Zenon DEF StringChar
<1> QED
  BY <1>2, <1>3

LEMMA ReturnsString ==
    ASSUME SInv, TInv', Text(content), NEW s, Return("string", tmp, s),
           start < Cursor(s), BehindLiteral(content, tmp, start, Cursor(s), errors)
    PROVE  SInv'
<1>1. /\ pc' = "blank" /\ content' = content /\ errors' = errors
      /\ tok'.kind = "string" /\ tok'.text = tmp /\ tok'.from = start /\ tok'.to = Cursor(s)
  BY DEF Return
<1>2. start <= Cursor(s)
  <2>1. start \in Nat /\ Cursor(s) \in Nat
    <3>1. start \in Nat /\ tok'.to \in Nat
      BY DEF SInv, TInv, IInv, TypeOK, Tokens
    <3> QED
      BY <1>1, <3>1
  <2> QED
    BY <2>1
<1>3. StringOf(content, tok', errors)
  BY <1>1, <1>2 DEF StringOf, BehindLiteral
<1> QED
  BY <1>1, <1>3 DEF SInv, Strings

LEMMA StringTailStrings == ASSUME SInv, TInv', StringTail PROVE SInv'
<1>1. pc = "strtail"
  BY DEF StringTail
<1>2. CASE ~Text(content)
  <2>1. content' = content
    BY Zenon DEF StringTail, Return, LeaveString
  <2> QED
    BY <1>2, <2>1 DEF SInv
<1>3. CASE Text(content)
  <2> DEFINE n == Cursor(src)
             k == n + 1
             s == IF Got = NUL THEN After ELSE Undone
  <2>1. /\ content \in Seq(Char) /\ start \in Nat /\ n \in Nat /\ start < n
        /\ Got = NUL => Cursor(After) = n
        /\ Got # NUL => n < Len(content) /\ Cursor(After) = k /\ content[k] = Got
        /\ Fine(content, s) /\ Cursor(s) = n
    BY <1>1, <1>3, InStringIs
  <2>2. BehindLiteral(content, tmp, start, n, errors) /\ errors \cup {} = errors
    BY <1>1, <1>3 DEF SInv, Strings
  <2>3. k = n + 1
    OBVIOUS
  <2>4. /\ Fine(content, AheadSrc(s)) /\ Cursor(AheadSrc(s)) = n
        /\ AheadChar(s) = At(content, k)
    <3> HIDE DEF s
    <3>1. Fine(content, AheadSrc(s)) /\ Cursor(AheadSrc(s)) = Cursor(s)
      BY <2>1, AheadIs
    <3>2. AheadChar(s) = At(content, Cursor(s) + 1)
      BY <2>1, <1>3, AheadSees
    <3> QED
      BY <2>1, <3>1, <3>2
  <2>5. \/ Got \in Blank /\ LeaveString("strtail", After, {})
        \/ /\ AheadChar(s) = Quote
           /\ LeaveString("string", FileNext(content, AheadSrc(s), "GET_CHAR"), {})
        \/ Return("string", tmp, AheadSrc(s))
    BY DEF StringTail
  <2> HIDE DEF n, k, s
  <2>6. CASE Got \in Blank /\ LeaveString("strtail", After, {})
    <3>1. BehindLiteral(content, tmp, start, Cursor(After), errors)
      <4>1. CASE Got = NUL
        BY <2>1, <2>2, <4>1
      <4>2. CASE Got # NUL
        <5>1. Got # Quote
          BY <2>6 DEF Blank, Quote
        <5>2. BehindLiteral(content, tmp, start, k, errors)
          BY <2>1, <2>2, <2>3, <4>2, <5>1, Behind
        <5> QED
          BY <2>1, <4>2, <5>2
      <4> QED
        BY <4>1, <4>2
    <3>2. BehindLiteral(content, tmp, start, Cursor(After), errors \cup {})
      BY <2>2, <3>1, Zenon
    <3> QED
      BY <1>3, <2>6, <3>2, LeavesStrings
  <2>7. CASE /\ AheadChar(s) = Quote
             /\ LeaveString("string", FileNext(content, AheadSrc(s), "GET_CHAR"), {})
    <3> DEFINE u == FileNext(content, AheadSrc(s), "GET_CHAR")
    <3>1. At(content, k) = Quote /\ Quote # NUL
      BY <2>4, <2>7, QuoteAssumption, Zenon
    <3>2. content[k] = Quote /\ n < Len(content)
      <4>1. k \in 1..Len(content)
        BY <3>1 DEF At
      <4>2. content[k] = Quote
        BY <3>1, <4>1 DEF At
      <4>3. Len(content) \in Nat
        BY <2>1, LenProperties
      <4> QED
        BY <2>1, <2>3, <4>1, <4>2, <4>3
    <3>3. Cursor(u) = k
      <4>1. Cursor(u) = IF FileChar(content, AheadSrc(s), "GET_CHAR") = NUL
                        THEN Cursor(AheadSrc(s)) ELSE Cursor(AheadSrc(s)) + 1
        BY <2>4, Gets
      <4>2. FileChar(content, AheadSrc(s), "GET_CHAR") = At(content, Cursor(AheadSrc(s)) + 1)
        BY <2>4, Gets
      <4> QED
        BY <2>3, <2>4, <3>1, <4>1, <4>2
    <3>4. InLiteral(content, tmp, start, k, errors)
      BY <2>1, <2>2, <2>3, <3>2, Behind
    <3>5. InLiteral(content, tmp, start, Cursor(u), errors \cup {})
      BY <2>2, <3>3, <3>4, Zenon
    <3>6. LeaveString("string", u, {})
      BY <2>7
    <3> HIDE DEF u
    <3> QED
      BY <1>3, <3>5, <3>6, LeavesStrings
  <2>8. CASE Return("string", tmp, AheadSrc(s))
    <3>1. /\ BehindLiteral(content, tmp, start, Cursor(AheadSrc(s)), errors)
          /\ start < Cursor(AheadSrc(s))
      BY <2>1, <2>2, <2>4
    <3> QED
      BY <1>3, <2>8, <3>1, ReturnsString
  <2> QED
    BY <2>5, <2>6, <2>7, <2>8
<1> QED
  BY <1>2, <1>3

-----------------------------------------------------------------------------
LEMMA StringsInvariant == Spec => []SInv
<1>1. Init => SInv
  <2> SUFFICES ASSUME Init PROVE SInv
    OBVIOUS
  <2>1. pc = "blank" /\ tok.kind = "none"
    BY DEF Init, NewLexer, NoToken
  <2> QED
    BY <2>1, InitText DEF SInv, Strings, StringOf
<1>2. SInv /\ [Next]_vars => SInv'
  <2> SUFFICES ASSUME SInv, [Next]_vars PROVE SInv'
    OBVIOUS
  <2>1. TInv'
    BY StepText DEF SInv, StaysRight
  <2>2. CASE UNCHANGED vars
    BY <2>1, <2>2 DEF vars, SInv
  <2>3. CASE FirstChar
    BY <2>1, <2>3, FirstCharStrings
  <2>4. CASE StringChar
    BY <2>1, <2>4, StringCharStrings
  <2>5. CASE StringTail
    BY <2>1, <2>5, StringTailStrings
  <2>6. CASE NoString
    BY <2>1, <2>6, Elsewhere
  <2> QED
    BY <2>2, <2>3, <2>4, <2>5, <2>6, WordsNoString, OthersNoString DEF Next
<1> QED
  BY <1>1, <1>2, PTL DEF Spec

(* A string token of a text file holds what flex.l makes of its literals,  *)
(* and a cut one the end of that: joining, escaping, cutting and the ends  *)
(* of chunks lose nothing and repeat nothing.                              *)
THEOREM StringsCorrect == Spec /\ TextFile => []StringsExact
<1>1. SInv /\ TextFile => StringsExact
  <2> SUFFICES ASSUME SInv, TextFile, tok.kind = "string"
               PROVE  StringText /\ CutKeepsTheEnd
    BY DEF StringsExact, StringText, CutKeepsTheEnd
  <2> DEFINE st == Flex(content, tok.from, tok.to)
  <2>1. /\ tok.from <= tok.to
        /\ Uncut(errors) /\ Sane(content, tok.from, tok.to) => st.text = tok.text
        /\ Unbroken(content, tok.from, tok.to) => EndOf(tok.text, st.text)
    BY DEF SInv, Strings, StringOf, TextFile
  <2>2. \A x, y : Adjacent(tok, x, y) <=> Meets(content, tok.from, tok.to, x, y)
    BY DEF Adjacent, Meets
  <2>3. FlexText(tok) = st.text
    BY DEF FlexText, Flex
  <2>4. /\ tok.from \in Nat /\ tok.to \in Nat /\ tok.text \in Seq(Char)
        /\ content \in Seq(Char)
    BY DEF SInv, TInv, IInv, TypeOK, Tokens
  <2>5. st.text \in Seq(Char)
    <3>1. tok.to - tok.from \in Nat
      BY <2>1, <2>4
    <3>2. FlexFrom(content, tok.from)[tok.to - tok.from] \in FlexStates
      BY <2>4, <3>1, FlexIs
    <3> QED
      BY <3>2 DEF FlexStates, Flex
  <2> HIDE DEF st
  <2>6. StringText
    BY <2>1, <2>2, <2>3 DEF StringText, Uncut, Sane
  <2>7. CutKeepsTheEnd
    <3>1. EndOf(tok.text, st.text) => IsSuffix(tok.text, st.text)
      BY <2>4, <2>5, EndIsSuffix
    <3> QED
      BY <2>1, <2>2, <2>3, <3>1 DEF CutKeepsTheEnd, Unbroken
  <2> QED
    BY <2>6, <2>7
<1>2. Spec /\ TextFile => [](SInv /\ TextFile)
  BY StringsInvariant, TextStays, PTL
<1> QED
  BY <1>1, <1>2, PTL

-----------------------------------------------------------------------------
(* The lexer with the whole file in its buffer.                            *)

(* A source with the whole of c in its buffer, n characters of it passed.  *)
Stand(c, n, ln, col, last) ==
    [buf |-> c, pointer |-> n, end |-> Len(c), bufsize |-> Len(c),
     line |-> ln, column |-> col, lastCol |-> last, filled |-> Len(c), eof |-> TRUE]
Full(c, s) == Stand(c, Cursor(s), s.line, s.column, s.lastCol)
InOne(c, s) == IF s = NewSource THEN NewSource ELSE Full(c, s)

LEMMA SameSource ==
    ASSUME NEW s \in Sources, NEW t \in Sources,
           s.buf = t.buf, s.pointer = t.pointer, s.end = t.end, s.bufsize = t.bufsize,
           s.line = t.line, s.column = t.column, s.lastCol = t.lastCol,
           s.filled = t.filled, s.eof = t.eof
    PROVE  s = t
  BY DEF Sources

LEMMA NewIsNone ==
    ASSUME NEW s, s.eof \/ s.filled # 0
    PROVE  s # NewSource
  BY DEF NewSource

LEMMA FullIs ==
    ASSUME NEW c, NEW s, Good(c, s)
    PROVE  /\ Full(c, s).pointer = Cursor(s) /\ Full(c, s).buf = c /\ Full(c, s).eof
           /\ Full(c, s).line = s.line /\ Full(c, s).column = s.column
           /\ Full(c, s).lastCol = s.lastCol
           /\ Cursor(Full(c, s)) = Cursor(s)
           /\ Peek(Full(c, s)) = Upcoming(c, Cursor(s))
           /\ Full(c, s) # NewSource
<1>1. Cursor(s) \in Nat /\ Len(c) \in Nat
  BY Typed
<1>2. Full(c, s) = Stand(c, Cursor(s), s.line, s.column, s.lastCol)
  BY DEF Full
<1> QED
  BY <1>1, <1>2 DEF Stand, Cursor, Peek, Upcoming, NewSource

LEMMA InOneIs ==
    ASSUME NEW c, NEW s, Good(c, s)
    PROVE  /\ InOne(c, s).line = s.line /\ InOne(c, s).column = s.column
           /\ Cursor(InOne(c, s)) = Cursor(s)
<1>1. Cursor(NewSource) = 0
  BY NewSourceSound, Typed
<1> QED
  BY <1>1, FullIs DEF InOne

-----------------------------------------------------------------------------
(* What the whole file in one buffer does with a call.                     *)
LEMMA WholeCalls ==
    ASSUME NEW c \in Inputs, NEW s, Good(c, s), NEW type \in {"GET_CHAR", "LOOK_AHEAD"}
    PROVE  /\ Whole!FileNext(c, InOne(c, s), type) = MemoryNext(Full(c, s), type)
           /\ Whole!FileChar(c, InOne(c, s), type) = Upcoming(c, Cursor(s))
<1>1. /\ Whole!MemoryNext(Full(c, s), type) = MemoryNext(Full(c, s), type)
      /\ Whole!Peek(Full(c, s)) = Peek(Full(c, s))
  BY Zenon DEF Whole!MemoryNext, MemoryNext, Whole!Advance, Advance, Whole!Retreat, Retreat,
     Whole!Peek, Peek
<1>2. CASE s # NewSource
  <2>1. InOne(c, s) = Full(c, s)
    BY <1>2 DEF InOne
  <2>2. ~Whole!Starved(Full(c, s))
    BY FullIs DEF Whole!Starved
  <2> QED
    BY <1>1, <2>1, <2>2, FullIs DEF Whole!FileNext, Whole!FileChar
<1>3. CASE s = NewSource
  <2>1. Whole!MemoryNext(NewSource, type) = NewSource /\ Whole!Peek(NewSource) = NUL
        /\ Whole!Starved(NewSource)
    BY DEF Whole!MemoryNext, Whole!Advance, Whole!Peek, Whole!Starved, NewSource
  <2>2. Whole!FillBuffer(c, NewSource) = Full(c, s)
    <3>1. Whole!ReadLen(c, NewSource) = Len(c) /\ Len(c) \in Nat /\ c \in Seq(Char)
          /\ Len(c) < WholeChunk
      BY WholeChunkAssumption, InputsAssumption, LenProperties DEF Whole!ReadLen, NewSource
    <3>2. NewSource.filled = 0 /\ NewSource.pointer = 0 /\ NewSource.buf = <<>>
          /\ NewSource.bufsize = 0 /\ NewSource.filled + Whole!ReadLen(c, NewSource) = Len(c)
          /\ NewSource.filled + 1 = 1
      BY <3>1 DEF NewSource
    <3>3. Whole!Kept(NewSource) = <<>>
      BY <3>2, SubSeqEmpty DEF Whole!Kept
    <3>4. SubSeq(c, 1, Len(c)) = c
      BY <3>1
    <3>5. <<>> \o c = c
      BY <3>1
    <3>6. Whole!Fill(NewSource, c)
            = [NewSource EXCEPT !.buf = c, !.pointer = 0, !.end = Len(c),
                                !.bufsize = Len(c), !.filled = 0 + Len(c)]
      BY <3>2, <3>3, <3>5 DEF Whole!Fill
    <3>7. Whole!FillBuffer(c, NewSource)
            = [Whole!Fill(NewSource, c) EXCEPT !.eof = @ \/ Len(c) < WholeChunk]
      BY <3>1, <3>2, <3>4 DEF Whole!FillBuffer
    <3>8. Cursor(s) = 0
      BY <1>3, NewSourceSound, Typed
    <3>9. Whole!FillBuffer(c, NewSource) = Stand(c, 0, 1, 0, 1)
      <4> DEFINE f == [NewSource EXCEPT !.buf = c, !.pointer = 0, !.end = Len(c),
                                        !.bufsize = Len(c), !.filled = 0 + Len(c)]
      <4>1. f.eof = FALSE /\ (f.eof \/ Len(c) < WholeChunk) = TRUE
        BY <3>1 DEF NewSource
      <4>2. [f EXCEPT !.eof = TRUE] = Stand(c, 0, 1, 0, 1)
        <5> DEFINE g == [f EXCEPT !.eof = TRUE]
        <5>1. f \in Sources
          <6>1. NewSource \in Sources /\ 0 + Len(c) \in Nat
            BY <3>1, NewSourceSound DEF Sound
          <6> QED
            BY <3>1, <6>1, Refilled
        <5>2. /\ f.buf = c /\ f.pointer = 0 /\ f.end = Len(c) /\ f.bufsize = Len(c)
              /\ f.line = 1 /\ f.column = 0 /\ f.lastCol = 1 /\ f.filled = Len(c)
          BY <3>1 DEF NewSource
        <5> HIDE DEF f
        <5>3. /\ g \in Sources
              /\ g.buf = c /\ g.pointer = 0 /\ g.end = Len(c) /\ g.bufsize = Len(c)
              /\ g.line = 1 /\ g.column = 0 /\ g.lastCol = 1 /\ g.filled = Len(c)
              /\ g.eof
          BY <5>1, <5>2 DEF Sources
        <5> HIDE DEF g
        <5> DEFINE h == Stand(c, 0, 1, 0, 1)
        <5>4. /\ h \in Sources
              /\ h.buf = c /\ h.pointer = 0 /\ h.end = Len(c) /\ h.bufsize = Len(c)
              /\ h.line = 1 /\ h.column = 0 /\ h.lastCol = 1 /\ h.filled = Len(c) /\ h.eof
          BY <3>1 DEF Stand, Sources
        <5> HIDE DEF h
        <5>5. g = h
          BY <5>3, <5>4, SameSource
        <5> QED
          BY <5>5 DEF g, h
      <4>3. Whole!FillBuffer(c, NewSource) = [f EXCEPT !.eof = (f.eof \/ Len(c) < WholeChunk)]
        BY <3>6, <3>7
      <4> HIDE DEF f
      <4> QED
        BY <4>1, <4>2, <4>3
    <3>10. Full(c, s) = Stand(c, 0, 1, 0, 1)
      BY <1>3, <3>8 DEF Full, NewSource
    <3> QED
      BY <3>9, <3>10
  <2>3. InOne(c, s) = NewSource
    BY <1>3 DEF InOne
  <2> QED
    BY <1>1, <2>1, <2>2, <2>3, FullIs DEF Whole!FileNext, Whole!FileChar
<1> QED
  BY <1>2, <1>3

LEMMA WholeBacks ==
    ASSUME NEW c, NEW s, Good(c, s)
    PROVE  Whole!FileNext(c, Full(c, s), "PUSH_BACK") = Retreat(Full(c, s))
<1>1. Whole!MemoryNext(Full(c, s), "PUSH_BACK") = Retreat(Full(c, s))
  BY Zenon DEF Whole!MemoryNext, Whole!Retreat, Retreat
<1>2. ~Whole!Starved(Full(c, s))
  BY FullIs DEF Whole!Starved
<1> QED
  BY <1>1, <1>2 DEF Whole!FileNext

-----------------------------------------------------------------------------
(* What the chunks do with it.  A source that was read from is no new one. *)
Used(s) == s.eof \/ s.filled # 0

LEMMA RefillKeeps ==
    ASSUME NEW c, NEW s, Good(c, s), ~s.eof
    PROVE  FillBuffer(c, s).lastCol = s.lastCol /\ Used(FillBuffer(c, s))
<1> DEFINE r == ReadLen(c, s)
           in == SubSeq(c, s.filled + 1, s.filled + r)
           g == Fill(s, in)
<1>1. /\ s \in Sources /\ s.filled \in Nat /\ s.filled <= Len(c) /\ Len(c) \in Nat
      /\ c \in Seq(Char) /\ Sound(c, s)
  BY Typed DEF Good, Sound, Sources, Mirrors
<1>2. r \in Nat /\ s.filled + r <= Len(c) /\ (r < Chunk \/ r > 0)
  BY <1>1, ChunkAssumption DEF ReadLen
<1> HIDE DEF r
<1>3. in \in Seq(Char) /\ Len(in) = r
  <2>1. s.filled + r \in Nat /\ s.filled <= s.filled + r /\ (s.filled + r) - s.filled = r
    BY <1>1, <1>2
  <2> QED
    BY <1>1, <1>2, <2>1, Slice
<1> HIDE DEF in
<1>4. g \in Sources /\ g.lastCol = s.lastCol /\ g.filled = s.filled + r /\ g.eof = s.eof
  <2> DEFINE nb == Kept(s) \o in
  <2>1. nb \in Seq(Char) /\ Len(nb) \in Nat
    <3>1. Kept(s) \in Seq(Char)
      BY <1>1, KeptIsUnread
    <3> QED
      BY <1>3, <3>1, ConcatProperties, LenProperties
  <2>2. g = [s EXCEPT !.buf = nb, !.pointer = 0, !.end = Len(nb),
                      !.bufsize = Len(nb), !.filled = s.filled + r]
    BY <1>3 DEF Fill
  <2> HIDE DEF nb
  <2> HIDE DEF g
  <2>3. g \in Sources
    <3>1. s.filled + r \in Nat
      BY <1>1, <1>2
    <3> QED
      BY <1>1, <2>1, <2>2, <3>1, Refilled
  <2> QED
    BY <1>1, <2>2, <2>3 DEF Sources
<1> HIDE DEF g
<1>5. FillBuffer(c, s) = [g EXCEPT !.eof = g.eof \/ r < Chunk]
  BY DEF FillBuffer, r, in, g
<1>6. (g.eof \/ r < Chunk) \in BOOLEAN
  OBVIOUS
<1>7. /\ FillBuffer(c, s).lastCol = g.lastCol /\ FillBuffer(c, s).filled = g.filled
      /\ FillBuffer(c, s).eof = (g.eof \/ r < Chunk)
  BY <1>4, <1>5, <1>6 DEF Sources
<1> QED
  <2>1. CASE r < Chunk
    BY <1>4, <1>7, <2>1 DEF Used
  <2>2. CASE r > 0
    BY <1>1, <1>2, <1>4, <1>7, <2>2 DEF Used
  <2> QED
    BY <1>2, <1>4, <2>1, <2>2, <1>7

(* A get and a push-back field by field.                                   *)
LEMMA AdvanceFields ==
    ASSUME NEW s \in Sources, Peek(s) # NUL
    PROVE  LET t == Advance(s) nl == Peek(s) = NL
           IN  /\ t.pointer = s.pointer + 1 /\ t.buf = s.buf /\ t.end = s.end
               /\ t.bufsize = s.bufsize /\ t.filled = s.filled /\ t.eof = s.eof
               /\ t.line = IF nl THEN s.line + 1 ELSE s.line
               /\ t.column = IF nl THEN 0 ELSE s.column + 1
               /\ t.lastCol = IF nl THEN s.column ELSE s.lastCol
BY DEF Advance, Sources

LEMMA RetreatFields ==
    ASSUME NEW s \in Sources, s.pointer # 0
    PROVE  LET t == Retreat(s) nl == s.buf[s.pointer] = NL
           IN  /\ t.pointer = s.pointer - 1 /\ t.buf = s.buf /\ t.end = s.end
               /\ t.bufsize = s.bufsize /\ t.filled = s.filled /\ t.eof = s.eof
               /\ t.line = IF nl /\ s.line > 1 THEN s.line - 1 ELSE s.line
               /\ t.column = IF ~nl THEN s.column - 1
                             ELSE IF s.line > 1 THEN s.lastCol ELSE s.column
               /\ t.lastCol = s.lastCol
BY DEF Retreat, Sources

LEMMA FullGood ==
    ASSUME NEW c, NEW s, Good(c, s)
    PROVE  /\ Good(c, Full(c, s)) /\ Full(c, s) \in Sources
           /\ Full(c, s).buf = c /\ Full(c, s).pointer = Cursor(s)
           /\ Full(c, s).line = s.line /\ Full(c, s).column = s.column
           /\ Full(c, s).lastCol = s.lastCol
           /\ Full(c, s).end = Len(c) /\ Full(c, s).bufsize = Len(c)
           /\ Full(c, s).filled = Len(c) /\ Full(c, s).eof
<1> DEFINE f == Full(c, s)
<1>1. /\ c \in Seq(Char) /\ Len(c) \in Nat /\ Cursor(s) \in Nat /\ Cursor(s) <= Len(c)
      /\ s.line \in Nat /\ s.column \in Int /\ s.lastCol \in Int
      /\ s.line = LineAt(c, Cursor(s))
  BY Typed
<1>2. /\ f.end = Len(c) /\ f.bufsize = Len(c) /\ f.filled = Len(c) /\ f.eof
      /\ f.buf = c /\ f.pointer = Cursor(s) /\ f.line = s.line
      /\ f.column = s.column /\ f.lastCol = s.lastCol
  BY DEF Full, Stand
<1>3. f \in Sources
  BY <1>1 DEF Full, Stand, Sources
<1>4. Cursor(f) = Cursor(s)
  BY FullIs
<1> HIDE DEF f
<1>5. Good(c, f)
  BY <1>1, <1>2, <1>3, <1>4 DEF Good, Sound, Mirrors, EofHonest
<1> QED
  BY <1>2, <1>3, <1>5 DEF f

(* One in the buffer t comes to, the other in the file it stands for.      *)
LEMMA SameFull ==
    ASSUME NEW c, NEW s, Good(c, s), NEW f \in Sources,
           f.buf = c, f.pointer = Cursor(s), f.end = Len(c), f.bufsize = Len(c),
           f.line = s.line, f.column = s.column, f.lastCol = s.lastCol,
           f.filled = Len(c), f.eof
    PROVE  f = Full(c, s)
<1> DEFINE g == Full(c, s)
<1>1. /\ g \in Sources
      /\ g.buf = c /\ g.pointer = Cursor(s) /\ g.end = Len(c) /\ g.bufsize = Len(c)
      /\ g.line = s.line /\ g.column = s.column /\ g.lastCol = s.lastCol
      /\ g.filled = Len(c) /\ g.eof
  BY FullGood
<1> HIDE DEF g
<1>2. f = g
  BY <1>1, SameSource
<1> QED
  BY <1>2 DEF g

LEMMA AdvanceFull ==
    ASSUME NEW c, NEW s, Good(c, s), Peek(s) = Upcoming(c, Cursor(s))
    PROVE  Full(c, Advance(s)) = Advance(Full(c, s))
<1> DEFINE t == Advance(s)
           f == Full(c, s)
<1>1. s \in Sources /\ Sound(c, s) /\ Cursor(s) \in Nat /\ Good(c, t)
  BY Typed, GetSound DEF Good
<1>2. Peek(f) = Peek(s)
  BY FullIs
<1>3. /\ Good(c, f) /\ f \in Sources
      /\ f.buf = c /\ f.pointer = Cursor(s) /\ f.end = Len(c) /\ f.bufsize = Len(c)
      /\ f.line = s.line /\ f.column = s.column /\ f.lastCol = s.lastCol
      /\ f.filled = Len(c) /\ f.eof
  BY FullGood
<1>4. CASE Peek(s) = NUL
  BY <1>2, <1>4 DEF Advance
<1>5. CASE Peek(s) # NUL
  <2>1. /\ Cursor(t) = Cursor(s) + 1
        /\ t.line = IF Peek(s) = NL THEN s.line + 1 ELSE s.line
        /\ t.column = IF Peek(s) = NL THEN 0 ELSE s.column + 1
        /\ t.lastCol = IF Peek(s) = NL THEN s.column ELSE s.lastCol
    BY <1>1, <1>5, AdvanceSound, AdvanceFields
  <2> HIDE DEF f, t
  <2>2. Advance(f) \in Sources
    BY <1>3, AdvanceSound DEF Good, Sound
  <2>3. LET u == Advance(f)
        IN  /\ u.buf = c /\ u.pointer = Cursor(t) /\ u.end = Len(c) /\ u.bufsize = Len(c)
            /\ u.line = t.line /\ u.column = t.column /\ u.lastCol = t.lastCol
            /\ u.filled = Len(c) /\ u.eof
    BY <1>2, <1>3, <1>5, <2>1, AdvanceFields
  <2>4. Advance(f) = Full(c, t)
    BY <1>1, <2>2, <2>3, SameFull
  <2> QED
    BY <2>4 DEF f, t
<1> QED
  BY <1>4, <1>5

LEMMA SeenIsUsed ==
    ASSUME NEW c, NEW s, Good(c, s), ~Starved(s)
    PROVE  Used(s)
<1>1. CASE s.eof
  BY <1>1 DEF Used
<1>2. CASE Peek(s) # NUL
  <2>1. s.pointer < Len(s.buf) /\ s.pointer \in Nat /\ Len(s.buf) <= s.filled
        /\ s.filled \in Nat /\ Len(s.buf) \in Nat
    BY <1>2, LenProperties DEF Peek, Good, Sound, Sources, Mirrors
  <2> QED
    BY <2>1 DEF Used
<1> QED
  BY <1>1, <1>2 DEF Starved

LEMMA GetFull ==
    ASSUME NEW c, NEW s, Good(c, s), NEW t, t = FileNext(c, s, "GET_CHAR")
    PROVE  Full(c, t) = Advance(Full(c, s)) /\ Used(t)
<1>1. CASE ~Starved(s)
  <2>1. t = Advance(s)
    BY <1>1 DEF FileNext, MemoryNext
  <2>2. Used(t)
    BY <1>1, <2>1, SeenIsUsed, AdvanceSound DEF Used, Good
  <2> QED
    BY <1>1, <2>1, <2>2, FedPeek, AdvanceFull
<1>2. CASE Starved(s)
  <2> DEFINE g == FillBuffer(c, s)
  <2>1. Advance(s) = s /\ ~s.eof
    BY <1>2 DEF Advance, Starved
  <2>2. t = Advance(g)
    BY <1>2, <2>1 DEF FileNext, MemoryNext
  <2>3. /\ Good(c, g) /\ Peek(g) = Upcoming(c, Cursor(g)) /\ Full(c, g) = Full(c, s)
        /\ Used(g)
    BY <2>1, RefillSound, RefillKeeps DEF Full
  <2> HIDE DEF g
  <2>4. Used(t)
    BY <2>2, <2>3, AdvanceSound DEF Used, Good
  <2> QED
    BY <2>2, <2>3, <2>4, AdvanceFull
<1> QED
  BY <1>1, <1>2

LEMMA LookFull ==
    ASSUME NEW c, NEW s, Good(c, s), NEW t, t = FileNext(c, s, "LOOK_AHEAD")
    PROVE  Full(c, t) = Full(c, s) /\ Used(t)
<1>1. CASE ~Starved(s)
  BY <1>1, SeenIsUsed DEF FileNext, MemoryNext
<1>2. CASE Starved(s)
  <2>1. t = FillBuffer(c, s) /\ ~s.eof
    BY <1>2 DEF FileNext, MemoryNext, Starved
  <2> QED
    BY <2>1, RefillSound, RefillKeeps DEF Full
<1> QED
  BY <1>1, <1>2

(* What was got can be given back: the second push-back, behind a refill,  *)
(* has nothing to give back.                                               *)
LEMMA BackFull ==
    ASSUME NEW c, NEW s, Good(c, s), s.pointer # 0, Used(s),
           NEW t, t = FileNext(c, s, "PUSH_BACK")
    PROVE  Full(c, t) = Retreat(Full(c, s)) /\ Used(t)
<1> DEFINE m == Retreat(s)
<1>1. s \in Sources /\ Sound(c, s) /\ Cursor(s) \in Nat /\ s.line \in Nat
  BY Typed DEF Good
<1>2. Good(c, m) /\ Used(m) /\ m.eof = s.eof /\ Cursor(m) = Cursor(s) - 1 /\ Cursor(s) > 0
  <2>1. /\ Sound(c, m) /\ m.line = LineAt(c, Cursor(m)) /\ m.eof = s.eof
        /\ m.filled = s.filled /\ Cursor(m) = Cursor(s) - 1 /\ Cursor(s) > 0
    BY RetreatSound DEF Good
  <2> QED
    BY <2>1 DEF Good, EofHonest, Used
<1>3. Full(c, m) = Retreat(Full(c, s))
  <2> DEFINE x == s.buf[s.pointer]
             f == Full(c, s)
  <2>1. /\ m.line = IF x = NL /\ s.line > 1 THEN s.line - 1 ELSE s.line
        /\ m.column = IF ~(x = NL) THEN s.column - 1
                      ELSE IF s.line > 1 THEN s.lastCol ELSE s.column
        /\ m.lastCol = s.lastCol
    BY <1>1, RetreatFields
  <2>2. /\ Good(c, f) /\ f \in Sources
        /\ f.buf = c /\ f.pointer = Cursor(s) /\ f.end = Len(c) /\ f.bufsize = Len(c)
        /\ f.line = s.line /\ f.column = s.column /\ f.lastCol = s.lastCol
        /\ f.filled = Len(c) /\ f.eof
    BY FullGood
  <2>3. x = At(c, Cursor(s)) /\ Cursor(s) \in 1..Len(c)
    BY <1>1, <1>2, Typed, BehindPointer
  <2> HIDE DEF m, x, f
  <2>4. f.pointer # 0 /\ f.buf[f.pointer] = x
    BY <1>1, <1>2, <2>2, <2>3 DEF At
  <2>5. Retreat(f) \in Sources
    BY <2>2, RetreatSound DEF Good, Sound
  <2>6. LET u == Retreat(f)
        IN  /\ u.buf = c /\ u.pointer = Cursor(m) /\ u.end = Len(c) /\ u.bufsize = Len(c)
            /\ u.line = m.line /\ u.column = m.column /\ u.lastCol = m.lastCol
            /\ u.filled = Len(c) /\ u.eof
    BY <1>2, <2>1, <2>2, <2>4, RetreatFields
  <2>7. Retreat(f) = Full(c, m)
    BY <1>2, <2>5, <2>6, SameFull
  <2> QED
    BY <2>7 DEF m, f
<1>4. CASE ~Starved(s)
  <2>1. t = m
    BY <1>4 DEF FileNext, MemoryNext
  <2> QED
    BY <1>2, <1>3, <2>1
<1>5. CASE Starved(s)
  <2> DEFINE g == FillBuffer(c, m)
  <2>1. t = Retreat(g)
    BY <1>5 DEF FileNext, MemoryNext
  <2>2. ~m.eof
    BY <1>2, <1>5 DEF Starved
  <2> HIDE DEF m
  <2>3. Full(c, g) = Full(c, m) /\ Used(g) /\ g.pointer = 0
    BY <1>2, <2>2, RefillSound, RefillKeeps DEF Full
  <2>4. Retreat(g) = g
    BY <2>3 DEF Retreat
  <2> QED
    BY <1>3, <2>1, <2>3, <2>4 DEF m
<1> QED
  BY <1>4, <1>5

-----------------------------------------------------------------------------
(* The state of the lexer over the whole file.                             *)
LEMMA WholeSrcIs ==
    ASSUME NEW c, NEW s, Good(c, s)
    PROVE  (IF s = NewSource THEN NewSource
            ELSE [s EXCEPT !.buf = c, !.pointer = Cursor(s), !.end = Len(c),
                           !.bufsize = Len(c), !.filled = Len(c), !.eof = TRUE])
              = InOne(c, s)
<1> DEFINE f == [s EXCEPT !.buf = c, !.pointer = Cursor(s), !.end = Len(c),
                          !.bufsize = Len(c), !.filled = Len(c), !.eof = TRUE]
<1>1. /\ s \in Sources /\ c \in Seq(Char) /\ Cursor(s) \in Nat /\ Len(c) \in Nat
  BY Typed
<1>2. /\ f \in Sources
      /\ f.buf = c /\ f.pointer = Cursor(s) /\ f.end = Len(c) /\ f.bufsize = Len(c)
      /\ f.line = s.line /\ f.column = s.column /\ f.lastCol = s.lastCol
      /\ f.filled = Len(c) /\ f.eof
  BY <1>1 DEF Sources
<1> HIDE DEF f
<1>3. f = Full(c, s)
  BY <1>2, SameFull
<1> QED
  BY <1>3 DEF f, InOne

LEMMA WholeNow == ASSUME IInv PROVE WholeSrc = InOne(content, src)
  BY WholeSrcIs DEF IInv, Fine, WholeSrc

LEMMA WholeNext ==
    ASSUME IInv', content' = content, NEW s, src' = s
    PROVE  WholeSrc' = InOne(content, s)
<1>1. Good(content', src')
  BY DEF IInv, Fine
<1>2. WholeSrc' = InOne(content', src')
  BY <1>1, WholeSrcIs DEF WholeSrc
<1> QED
  BY <1>2

(* Between the actions of the two lexers stands a text file, of which the  *)
(* whole fits the buffer.                                                  *)
Both == TInv /\ TextFile /\ content \in Inputs

LEMMA WholeGot ==
    ASSUME Both
    PROVE  /\ Whole!Got = Got
           /\ Whole!After = InOne(content, After)
           /\ Got # NUL => Whole!Undone = InOne(content, Undone)
<1>1. Good(content, src) /\ content \in Inputs /\ IInv
  BY DEF Both, TInv, IInv, Fine
<1>2. WholeSrc = InOne(content, src)
  BY <1>1, WholeNow
<1>3. Whole!Got = Got
  <2>1. Got = Upcoming(content, Cursor(src))
    BY <1>1, FileGetSound DEF Got
  <2> QED
    BY <1>1, <1>2, <2>1, WholeCalls DEF Whole!Got
<1>4. Good(content, After) /\ Full(content, After) = Advance(Full(content, src)) /\ Used(After)
  BY <1>1, FileGetSound, GetFull DEF After
<1>5. Whole!After = Full(content, After)
  <2>1. Whole!After = MemoryNext(Full(content, src), "GET_CHAR")
    BY <1>1, <1>2, WholeCalls DEF Whole!After
  <2> QED
    BY <1>4, <2>1 DEF MemoryNext
<1>6. Whole!After = InOne(content, After)
  BY <1>4, <1>5, NewIsNone DEF Used, InOne
<1>7. ASSUME Got # NUL PROVE Whole!Undone = InOne(content, Undone)
  <2>1. After.pointer # 0
    BY <1>1, <1>7, FileGetSound DEF After, Got, Undoable
  <2>2. Full(content, Undone) = Retreat(Full(content, After)) /\ Used(Undone)
    BY <1>4, <2>1, BackFull DEF Undone
  <2>3. Whole!Undone = Retreat(Full(content, After))
    BY <1>4, <1>5, WholeBacks DEF Whole!Undone
  <2> QED
    BY <2>2, <2>3, NewIsNone DEF Used, InOne
<1> QED
  BY <1>3, <1>6, <1>7

LEMMA WholeAhead ==
    ASSUME Both, NEW s, Fine(content, s)
    PROVE  /\ Whole!AheadChar(InOne(content, s)) = AheadChar(s)
           /\ Whole!AheadSrc(InOne(content, s)) = InOne(content, AheadSrc(s))
           /\ Whole!FileNext(content, InOne(content, s), "GET_CHAR")
                = InOne(content, FileNext(content, s, "GET_CHAR"))
<1>1. Good(content, s) /\ content \in Inputs
  BY DEF Both, Fine
<1>2. AheadChar(s) = Upcoming(content, Cursor(s))
  BY <1>1, FileLookSound DEF AheadChar
<1>3. /\ Full(content, AheadSrc(s)) = Full(content, s) /\ Used(AheadSrc(s))
  BY <1>1, LookFull DEF AheadSrc
<1>4. InOne(content, AheadSrc(s)) = Full(content, s)
  BY <1>3, NewIsNone DEF InOne, Used
<1>5. Whole!AheadSrc(InOne(content, s)) = InOne(content, AheadSrc(s))
  BY <1>1, <1>4, WholeCalls DEF MemoryNext, Whole!AheadSrc
<1>6. Whole!AheadChar(InOne(content, s)) = AheadChar(s)
  BY <1>1, <1>2, WholeCalls DEF Whole!AheadChar
<1>7. Whole!FileNext(content, InOne(content, s), "GET_CHAR")
        = InOne(content, FileNext(content, s, "GET_CHAR"))
  <2> DEFINE t == FileNext(content, s, "GET_CHAR")
  <2>1. Full(content, t) = Advance(Full(content, s)) /\ Used(t)
    BY <1>1, GetFull
  <2> HIDE DEF t
  <2>2. InOne(content, t) = Full(content, t)
    BY <2>1, NewIsNone DEF InOne, Used
  <2>3. Whole!FileNext(content, InOne(content, s), "GET_CHAR") = Advance(Full(content, s))
    BY <1>1, WholeCalls DEF MemoryNext
  <2> QED
    BY <2>1, <2>2, <2>3 DEF t
<1> QED
  BY <1>5, <1>6, <1>7

LEMMA WholeAlphabet ==
    /\ Whole!Alnum = Alnum /\ Whole!WordChar = WordChar /\ Whole!Blank = Blank
    /\ Whole!LineBreak = LineBreak /\ Whole!Single = Single /\ Whole!Double = Double
    /\ Whole!Triple = Triple /\ Whole!Starter = Starter /\ Whole!Known = Known
    /\ Whole!NoPushBack = NoPushBack /\ Whole!NumberChar = NumberChar
    /\ Whole!KeywordInitial = KeywordInitial /\ Whole!DoWord = DoWord
    /\ Whole!Quote = Quote /\ Whole!Backslash = Backslash
    /\ \A t : Whole!KeywordPrefix(t) = KeywordPrefix(t)
  BY Zenon DEF Whole!Quote, Quote, Whole!Backslash, Backslash,
     Whole!Alnum, Alnum, Whole!WordChar, WordChar, Whole!Blank, Blank,
     Whole!LineBreak, LineBreak, Whole!Single, Single, Whole!Double, Double,
     Whole!Triple, Triple, Whole!Starter, Starter, Whole!Known, Known,
     Whole!NoPushBack, NoPushBack, Whole!NumberChar, NumberChar,
     Whole!KeywordInitial, KeywordInitial, Whole!DoWord, DoWord,
     Whole!KeywordPrefix, KeywordPrefix

-----------------------------------------------------------------------------
(* What the actions of the lexer are made of.                              *)
LEMMA WholeReturn ==
    ASSUME Both, IInv', NEW kind, NEW text, NEW s, Fine(content, s),
           Return(kind, text, s)
    PROVE  Whole!Return(kind, text, InOne(content, s))
<1>1. Good(content, s)
  BY DEF Fine
<1>2. WholeSrc' = InOne(content, s)
  BY WholeNext DEF Return
<1> QED
  BY <1>1, <1>2, InOneIs DEF Return, Whole!Return, Whole!Cursor, Cursor

LEMMA WholeContinue ==
    ASSUME Both, IInv', NEW where, NEW t, NEW s, Continue(where, t, s)
    PROVE  Whole!Continue(where, t, InOne(content, s))
<1>1. WholeSrc' = InOne(content, s)
  BY WholeNext DEF Continue
<1> QED
  BY <1>1 DEF Continue, Whole!Continue

LEMMA WholeDispatch ==
    ASSUME Both, IInv', NEW where, NEW t, NEW s, Dispatch(where, t, s)
    PROVE  Whole!Dispatch(where, t, InOne(content, s))
<1>1. WholeSrc' = InOne(content, s)
  BY WholeNext DEF Dispatch
<1>2. Cursor(WholeSrc) = Cursor(src)
  BY WholeNow, InOneIs DEF Both, TInv, IInv, Fine
<1> QED
  BY <1>1, <1>2 DEF Dispatch, Whole!Dispatch, Whole!Cursor, Cursor

LEMMA WholeInString ==
    ASSUME Both, IInv', NEW t, NEW n, NEW s, NEW errs, InString(t, n, s, errs)
    PROVE  Whole!InString(t, n, InOne(content, s), errs)
<1>1. WholeSrc' = InOne(content, s)
  BY WholeNext DEF InString
<1> QED
  BY <1>1 DEF InString, Whole!InString

LEMMA WholeLeaveString ==
    ASSUME Both, IInv', NEW where, NEW s, NEW errs, LeaveString(where, s, errs)
    PROVE  Whole!LeaveString(where, InOne(content, s), errs)
<1>1. WholeSrc' = InOne(content, s)
  BY WholeNext DEF LeaveString
<1> QED
  BY <1>1 DEF LeaveString, Whole!LeaveString

(* getNextChar, and the push-back that may follow it.                      *)
LEMMA WholeStep ==
    ASSUME Both
    PROVE  /\ Whole!Got = Got /\ Whole!After = InOne(content, After)
           /\ Fine(content, After)
           /\ Got # NUL => Fine(content, Undone) /\ Whole!Undone = InOne(content, Undone)
           /\ Whole!Letters = Letters /\ Whole!DoEnds = DoEnds
<1>1. IInv
  BY DEF Both, TInv
<1>2. /\ Whole!Got = Got /\ Whole!After = InOne(content, After)
      /\ Got # NUL => Whole!Undone = InOne(content, Undone)
  BY WholeGot
<1>3. Whole!Letters = Letters /\ Whole!DoEnds = DoEnds
  BY <1>2, WholeAlphabet DEF Whole!Letters, Letters, Whole!DoEnds, DoEnds
<1> QED
  BY <1>1, <1>2, <1>3, GotIs

LEMMA CollectingGets == ASSUME Both, pc \in Collecting PROVE Got # NUL
  BY InTextGets DEF Both, TextFile

-----------------------------------------------------------------------------
(* An action of the lexer over chunks is that action of the lexer over the *)
(* whole file.                                                             *)
LEMMA SkipBlankWhole == ASSUME Both, IInv', SkipBlank PROVE Whole!SkipBlank
  BY WholeStep, WholeContinue, WholeAlphabet DEF SkipBlank, Whole!SkipBlank

LEMMA FirstCharWhole == ASSUME Both, IInv', FirstChar PROVE Whole!FirstChar
<1>1. Got \in Digit => Got # NUL
  BY NoBreaks DEF WordChar, Alnum
<1> QED
  BY <1>1, WholeStep, WholeDispatch, WholeAlphabet DEF FirstChar, Whole!FirstChar

LEMMA IllegalCharWhole == ASSUME Both, IInv', IllegalChar PROVE Whole!IllegalChar
<1>1. WholeSrc' = InOne(content, After)
  BY WholeNext DEF IllegalChar
<1>2. Cursor(WholeSrc) = Cursor(src)
  BY WholeNow, InOneIs DEF Both, TInv, IInv, Fine
<1>3. /\ Cursor(Whole!After) = Cursor(After) /\ Whole!After.line = After.line
      /\ Whole!After.column = After.column
  BY WholeStep, InOneIs DEF Fine
<1>4. \A s : Whole!Cursor(s) = Cursor(s)
  BY DEF Whole!Cursor, Cursor
<1> QED
  BY <1>1, <1>2, <1>3, <1>4, WholeStep, WholeAlphabet DEF IllegalChar, Whole!IllegalChar

LEMMA ResynchWhole == ASSUME Both, IInv', Resynch PROVE Whole!Resynch
  BY WholeStep, WholeContinue DEF Resynch, Whole!Resynch

LEMMA LeaveKeywordsWhole ==
    ASSUME Both, IInv', NEW t, LeaveKeywords(t)
    PROVE  Whole!LeaveKeywords(t)
  BY WholeStep, WholeContinue, WholeReturn, WholeAlphabet DEF LeaveKeywords, Whole!LeaveKeywords

LEMMA KeywordGoesOnWhole == ASSUME Both, IInv', KeywordGoesOn PROVE Whole!KeywordGoesOn
  BY WholeStep, WholeContinue, WholeAlphabet DEF KeywordGoesOn, Whole!KeywordGoesOn

LEMMA DoKeywordWhole == ASSUME Both, IInv', DoKeyword PROVE Whole!DoKeyword
<1>1. Got # NUL
  BY CollectingGets DEF DoKeyword, Collecting
<1> QED
  BY <1>1, WholeStep, WholeReturn, WholeAlphabet DEF DoKeyword, Whole!DoKeyword

LEMMA KeywordEndsWhole == ASSUME Both, IInv', KeywordEnds PROVE Whole!KeywordEnds
<1> DEFINE s == After
<1>1. Fine(content, s) /\ Fine(content, AheadSrc(s)) /\ Fine(content, WordEndsSrc(s))
  BY WholeStep, AheadIs
<1>2. /\ Whole!AheadChar(InOne(content, s)) = AheadChar(s)
      /\ Whole!AheadSrc(InOne(content, s)) = InOne(content, AheadSrc(s))
  BY <1>1, WholeAhead
<1>3. /\ Whole!AheadChar(InOne(content, AheadSrc(s))) = AheadChar(AheadSrc(s))
      /\ Whole!AheadSrc(InOne(content, AheadSrc(s))) = InOne(content, AheadSrc(AheadSrc(s)))
  BY <1>1, WholeAhead
<1>4. /\ Whole!WordEnds(InOne(content, s)) = WordEnds(s)
      /\ Whole!WordEndsSrc(InOne(content, s)) = InOne(content, WordEndsSrc(s))
  BY <1>2, <1>3, WholeAlphabet DEF Whole!WordEnds, WordEnds, Whole!WordEndsSrc, WordEndsSrc
<1> HIDE DEF s
<1> QED
  BY <1>1, <1>4, WholeStep, WholeReturn, WholeContinue, WholeAlphabet
     DEF KeywordEnds, Whole!KeywordEnds, s

LEMMA NoKeywordWhole == ASSUME Both, IInv', NoKeyword PROVE Whole!NoKeyword
  BY WholeStep, LeaveKeywordsWhole, WholeAlphabet DEF NoKeyword, Whole!NoKeyword

LEMMA IdentifierCharWhole == ASSUME Both, IInv', IdentifierChar PROVE Whole!IdentifierChar
  BY WholeStep, LeaveKeywordsWhole DEF IdentifierChar, Whole!IdentifierChar

LEMMA NumberStepWhole == ASSUME Both, IInv', NumberStep PROVE Whole!NumberStep
<1>1. Got # NUL
  BY CollectingGets DEF NumberStep, Collecting
<1> QED
  BY <1>1, WholeStep, WholeReturn, WholeContinue, WholeAlphabet DEF NumberStep, Whole!NumberStep

LEMMA OperatorStepWhole == ASSUME Both, IInv', OperatorStep PROVE Whole!OperatorStep
<1>1. Got # NUL
  BY CollectingGets DEF OperatorStep, Collecting
<1>2. WholeSrc = InOne(content, src) /\ Fine(content, src)
  BY WholeNow DEF Both, TInv, IInv
<1> QED
  BY <1>1, <1>2, WholeStep, WholeReturn, WholeContinue, WholeAlphabet
     DEF OperatorStep, Whole!OperatorStep

LEMMA ThirdCharWhole == ASSUME Both, IInv', ThirdChar PROVE Whole!ThirdChar
<1>1. Got # NUL
  BY CollectingGets DEF ThirdChar, Collecting
<1> QED
  BY <1>1, WholeStep, WholeReturn, WholeAlphabet DEF ThirdChar, Whole!ThirdChar

LEMMA StringCharWhole == ASSUME Both, IInv', StringChar PROVE Whole!StringChar
<1> DEFINE s == After
<1>1. Fine(content, s) /\ Fine(content, AheadSrc(s))
  BY WholeStep, AheadIs
<1>2. /\ Whole!AheadChar(InOne(content, s)) = AheadChar(s)
      /\ Whole!AheadSrc(InOne(content, s)) = InOne(content, AheadSrc(s))
  BY <1>1, WholeAhead
<1>3. Whole!FileNext(content, InOne(content, AheadSrc(s)), "GET_CHAR")
        = InOne(content, FileNext(content, AheadSrc(s), "GET_CHAR"))
  BY <1>1, WholeAhead
<1> HIDE DEF s
<1> QED
  BY <1>2, <1>3, WholeStep, WholeInString, WholeLeaveString, WholeAlphabet, Zenon
     DEF StringChar, Whole!StringChar, s

LEMMA StringTailWhole == ASSUME Both, IInv', StringTail PROVE Whole!StringTail
<1> DEFINE s == IF Got = NUL THEN After ELSE Undone
           w == IF Whole!Got = NUL THEN Whole!After ELSE Whole!Undone
<1>1. Fine(content, s) /\ w = InOne(content, s)
  BY WholeStep
<1> HIDE DEF s, w
<1>2. /\ Whole!AheadChar(w) = AheadChar(s)
      /\ Whole!AheadSrc(w) = InOne(content, AheadSrc(s)) /\ Fine(content, AheadSrc(s))
  BY <1>1, WholeAhead, AheadIs
<1>3. Whole!FileNext(content, Whole!AheadSrc(w), "GET_CHAR")
        = InOne(content, FileNext(content, AheadSrc(s), "GET_CHAR"))
  BY <1>2, WholeAhead
<1> QED
  BY <1>2, <1>3, WholeStep, WholeReturn, WholeLeaveString, WholeAlphabet, Zenon
     DEF StringTail, Whole!StringTail, s, w

LEMMA CharConstantWhole == ASSUME Both, IInv', CharConstant PROVE Whole!CharConstant
<1> DEFINE full == count = StringMax
           over == IF full THEN {"LE08"} ELSE {}
           t == IF full THEN <<Got>> ELSE Append(tmp, Got)
           n == IF full THEN 1 ELSE count + 1
<1>1. /\ pc = "char"
      /\ \/ Got = "'" /\ LeaveString("crashed", After, {})
         \/ /\ Got # "'"
            /\ \/ Got = NL /\ LeaveString("crashed", After, over \cup {"LE01"})
               \/ Got = Byte255 /\ LeaveString("exited", After, over \cup {"LE02"})
               \/ Got \notin {NL, Byte255} /\ InString(t, n, After, over)
  BY DEF CharConstant
<1> HIDE DEF over, t, n
<1>2. /\ pc = "char"
      /\ \/ Got = "'" /\ Whole!LeaveString("crashed", Whole!After, {})
         \/ /\ Got # "'"
            /\ \/ Got = NL /\ Whole!LeaveString("crashed", Whole!After, over \cup {"LE01"})
               \/ Got = Byte255
                  /\ Whole!LeaveString("exited", Whole!After, over \cup {"LE02"})
               \/ Got \notin {NL, Byte255} /\ Whole!InString(t, n, Whole!After, over)
  BY <1>1, WholeStep, WholeInString, WholeLeaveString, WholeAlphabet, Zenon
<1> QED
  BY <1>2, WholeStep DEF Whole!CharConstant, over, t, n

LEMMA StepWhole ==
    Both /\ IInv' /\ [Next]_vars => [Whole!Next]_(Whole!vars)
<1> SUFFICES ASSUME Both, IInv', [Next]_vars PROVE [Whole!Next]_(Whole!vars)
  OBVIOUS
<1>1. CASE UNCHANGED vars
  BY <1>1 DEF vars, Whole!vars, WholeSrc, Cursor
<1>2. CASE Next
  BY <1>2, SkipBlankWhole, FirstCharWhole, IllegalCharWhole, ResynchWhole,
     KeywordGoesOnWhole, DoKeywordWhole, KeywordEndsWhole, NoKeywordWhole,
     IdentifierCharWhole, NumberStepWhole, OperatorStepWhole, ThirdCharWhole,
     StringCharWhole, StringTailWhole, CharConstantWhole, Zenon DEF Next, Whole!Next
<1> QED
  BY <1>1, <1>2

(* How the file is cut into chunks is invisible: on a text file the lexer  *)
(* implements the lexer whose buffer holds the whole of it, whatever the   *)
(* chunk size.                                                             *)
THEOREM ChunksInvisible == Spec /\ TextFile => ChunksAreInvisible
<1>1. Init => Whole!NewLexer
  BY DEF Init, NewLexer, Whole!NewLexer, WholeSrc, Whole!NewSource, NewSource, Whole!NoToken, NoToken
<1>2. content \in Inputs /\ [Next]_vars /\ TInv => (content \in Inputs)'
  <2> SUFFICES ASSUME [Next]_vars PROVE content' = content
    OBVIOUS
  <2> QED
    BY Zenon DEF vars, Next, SkipBlank, FirstChar, IllegalChar, Resynch, KeywordGoesOn,
       DoKeyword, KeywordEnds, NoKeyword, IdentifierChar, NumberStep, OperatorStep,
       ThirdChar, StringChar, StringTail, CharConstant, LeaveKeywords,
       Return, Continue, Dispatch, InString, LeaveString
<1>3. Init => content \in Inputs
  BY DEF Init
<1>4. TInv => IInv
  BY DEF TInv
<1>5. Spec /\ TextFile => []Both
  BY <1>2, <1>3, TextStays, PTL DEF Spec, Both
<1> QED
  BY <1>1, <1>4, <1>5, TextStays, StepWhole, Invariant, PTL DEF Spec, ChunksAreInvisible
=============================================================================
