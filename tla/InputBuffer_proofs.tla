------------------------- MODULE InputBuffer_proofs -------------------------
(***************************************************************************)
(* What the operations on the buffer preserve, for every chunk size and    *)
(* every content.  The proofs about the sources cite these lemmas.         *)
(***************************************************************************)
EXTENDS InputBuffer, SequenceTheorems, FiniteSetTheorems, TLAPS

(* The invariant of a source over a content.                               *)
Sound(content, s) ==
    /\ content \in Seq(Char)
    /\ s \in Sources
    /\ Mirrors(content, s)

LEMMA NewSourceSound ==
    ASSUME NEW content \in Seq(Char)
    PROVE  /\ Sound(content, NewSource)
           /\ Cursor(NewSource) = 0
           /\ Newlines(content, 0) = {}
<1>1. NewSource \in Sources
  BY EmptySeq DEF NewSource, Sources
<1>2. Len(<<>>) = 0
  BY EmptySeq
<1>3. Mirrors(content, NewSource) /\ Cursor(NewSource) = 0
  BY <1>2, LenProperties DEF Mirrors, NewSource, Cursor
<1>4. Newlines(content, 0) = {}
  BY DEF Newlines
<1> QED
  BY <1>1, <1>3, <1>4 DEF Sound

(* Counting newlines one character further.                                *)
LEMMA LineStep ==
    ASSUME NEW content \in Seq(Char), NEW n \in Nat
    PROVE  /\ LineAt(content, n) \in Nat \ {0}
           /\ LineAt(content, n + 1)
                = IF content[n + 1] = NL THEN LineAt(content, n) + 1
                  ELSE LineAt(content, n)
<1>1. \A m \in Nat : IsFiniteSet(Newlines(content, m))
  <2> SUFFICES ASSUME NEW m \in Nat PROVE IsFiniteSet(Newlines(content, m))
    OBVIOUS
  <2>1. IsFiniteSet(1..m)
    BY FS_Interval
  <2>2. Newlines(content, m) \in SUBSET (1..m)
    BY DEF Newlines
  <2> QED
    BY <2>1, <2>2, FS_Subset
<1>2. IsFiniteSet(Newlines(content, n)) /\ Cardinality(Newlines(content, n)) \in Nat
  BY <1>1, FS_CardinalityType
<1>3. CASE content[n + 1] = NL
  <2>1. Newlines(content, n + 1) = Newlines(content, n) \cup {n + 1}
    BY <1>3 DEF Newlines
  <2>2. (n + 1) \notin Newlines(content, n)
    BY DEF Newlines
  <2>3. Cardinality(Newlines(content, n + 1)) = Cardinality(Newlines(content, n)) + 1
    BY <1>2, <2>1, <2>2, FS_AddElement
  <2> QED
    BY <1>2, <1>3, <2>3 DEF LineAt
<1>4. CASE content[n + 1] # NL
  <2>1. Newlines(content, n + 1) = Newlines(content, n)
    BY <1>4 DEF Newlines
  <2> QED
    BY <1>2, <1>4, <2>1 DEF LineAt
<1> QED
  BY <1>3, <1>4

(* A character seen in the buffer is the next one of the content; '\0' is  *)
(* seen when that is '\0' or when the buffer is used up.                   *)
LEMMA PeekIsUpcoming ==
    ASSUME NEW content, NEW s, Sound(content, s)
    PROVE  /\ Cursor(s) \in Nat /\ Cursor(s) <= Len(content)
           /\ Len(s.buf) \in Nat /\ Len(content) \in Nat
           /\ s.pointer < Len(s.buf)
                => /\ Cursor(s) < Len(content)
                   /\ s.buf[s.pointer + 1] = content[Cursor(s) + 1]
                   /\ Peek(s) = Upcoming(content, Cursor(s))
           /\ s.pointer = Len(s.buf) => Peek(s) = NUL /\ Cursor(s) = s.filled
           /\ Peek(s) \in Char
<1>1. /\ content \in Seq(Char) /\ s.buf \in Seq(Char)
      /\ s.pointer \in Nat /\ s.filled \in Nat
  BY DEF Sound, Sources
<1>2. Len(s.buf) \in Nat /\ Len(content) \in Nat
  BY <1>1, LenProperties
<1>3. /\ s.pointer <= Len(s.buf) /\ Len(s.buf) <= s.filled
      /\ s.filled <= Len(content)
      /\ \A i \in 1..Len(s.buf) : s.buf[i] = content[s.filled - Len(s.buf) + i]
  BY DEF Sound, Mirrors
<1>4. Cursor(s) \in Nat /\ Cursor(s) <= Len(content)
  BY <1>1, <1>2, <1>3 DEF Cursor
<1>5. ASSUME s.pointer < Len(s.buf)
      PROVE  /\ Cursor(s) < Len(content)
             /\ s.buf[s.pointer + 1] = content[Cursor(s) + 1]
             /\ s.buf[s.pointer + 1] \in Char
             /\ Peek(s) = Upcoming(content, Cursor(s))
  <2>1. s.pointer + 1 \in 1..Len(s.buf)
    BY <1>1, <1>2, <1>5
  <2>2. s.buf[s.pointer + 1] = content[s.filled - Len(s.buf) + (s.pointer + 1)]
    BY <1>3, <2>1
  <2>3. s.filled - Len(s.buf) + (s.pointer + 1) = Cursor(s) + 1
    BY <1>1, <1>2 DEF Cursor
  <2>4. Cursor(s) < Len(content)
    BY <1>1, <1>2, <1>3, <1>5 DEF Cursor
  <2>5. s.buf[s.pointer + 1] \in Char
    BY <1>1, <2>1, ElementOfSeq
  <2> QED
    BY <1>5, <2>2, <2>3, <2>4, <2>5 DEF Peek, Upcoming
<1>6. s.pointer = Len(s.buf) => Peek(s) = NUL /\ Cursor(s) = s.filled
  BY <1>1, <1>2 DEF Peek, Cursor
<1>7. Peek(s) \in Char
  BY <1>1, <1>2, <1>3, <1>5, <1>6, CharAssumption DEF Peek
<1> QED
  BY <1>2, <1>4, <1>5, <1>6, <1>7

(* The updates of Advance and Retreat keep a source a source.              *)
LEMMA MovedInLine ==
    ASSUME NEW s \in Sources, NEW p \in Nat, NEW c \in Int
    PROVE  [s EXCEPT !.pointer = p, !.column = c] \in Sources
  BY DEF Sources

LEMMA MovedOverLine ==
    ASSUME NEW s \in Sources, NEW p \in Nat, NEW n \in Nat, NEW c \in Int, NEW k \in Int
    PROVE  /\ [s EXCEPT !.pointer = p, !.line = n, !.column = c] \in Sources
           /\ [s EXCEPT !.pointer = p, !.line = n, !.lastCol = k, !.column = c] \in Sources
  BY DEF Sources

LEMMA FieldTypes ==
    ASSUME NEW s \in Sources
    PROVE  /\ s.pointer + 1 \in Nat /\ s.line + 1 \in Nat
           /\ s.column \in Int /\ s.column + 1 \in Int /\ s.column - 1 \in Int
           /\ s.lastCol \in Int
  BY DEF Sources

LEMMA NewlineGot ==
    ASSUME NEW s \in Sources
    PROVE  [s EXCEPT !.pointer = @ + 1, !.line = @ + 1, !.lastCol = s.column,
                     !.column = 0] \in Sources
<1> DEFINE z == [s EXCEPT !.pointer = s.pointer + 1, !.line = s.line + 1,
                          !.lastCol = s.column, !.column = 0]
<1>1. z \in Sources
  <2>1. 0 \in Int
    OBVIOUS
  <2> QED
    BY <2>1, FieldTypes, MovedOverLine
<1> QED
  BY <1>1

LEMMA NewlineGivenBack ==
    ASSUME NEW s \in Sources, s.pointer - 1 \in Nat, s.line - 1 \in Nat
    PROVE  [s EXCEPT !.pointer = @ - 1, !.line = @ - 1, !.column = s.lastCol]
                \in Sources
  BY FieldTypes, MovedOverLine

(* Getting a character in the buffer: the cursor moves on and the line     *)
(* follows it, unless there is none.                                       *)
LEMMA AdvanceSound ==
    ASSUME NEW content, NEW s, Sound(content, s)
    PROVE  /\ Sound(content, Advance(s))
           /\ Advance(s).eof = s.eof /\ Advance(s).filled = s.filled
           /\ Peek(s) = NUL => Advance(s) = s
           /\ Peek(s) # NUL =>
                /\ Cursor(Advance(s)) = Cursor(s) + 1
                /\ Advance(s).pointer = s.pointer + 1
                /\ Advance(s).buf = s.buf
                /\ s.buf[s.pointer + 1] = Peek(s)
                /\ Advance(s).line = IF content[Cursor(s) + 1] = NL THEN s.line + 1
                                     ELSE s.line
                /\ Peek(s) = content[Cursor(s) + 1]
                /\ IF Peek(s) = NL THEN Advance(s).lastCol = s.column
                   ELSE Advance(s).column = s.column + 1
<1>1. Peek(s) = NUL => Advance(s) = s
  BY DEF Advance
<1>2. ASSUME Peek(s) # NUL
      PROVE  s.pointer < Len(s.buf) /\ Peek(s) = content[Cursor(s) + 1]
             /\ s.buf[s.pointer + 1] = Peek(s)
  BY <1>2, PeekIsUpcoming DEF Peek
<1>3. s \in Sources /\ Len(s.buf) \in Nat
  BY PeekIsUpcoming DEF Sound
<1>4. CASE Peek(s) # NUL /\ Peek(s) = NL
  <2>1. Advance(s) = [s EXCEPT !.pointer = @ + 1, !.line = @ + 1,
                               !.lastCol = s.column, !.column = 0]
    BY <1>4 DEF Advance
  <2>2. Advance(s) \in Sources
    BY <1>3, <2>1, NewlineGot
  <2>3. /\ Advance(s).buf = s.buf /\ Advance(s).end = s.end
        /\ Advance(s).bufsize = s.bufsize /\ Advance(s).filled = s.filled
        /\ Advance(s).pointer = s.pointer + 1 /\ Advance(s).line = s.line + 1
        /\ Advance(s).eof = s.eof /\ Advance(s).lastCol = s.column
    BY <1>3, <2>1 DEF Sources
  <2>4. Mirrors(content, Advance(s))
    BY <1>2, <1>3, <1>4, <2>3 DEF Mirrors, Sound, Sources
  <2>5. Cursor(Advance(s)) = Cursor(s) + 1
    BY <1>3, <2>3 DEF Cursor, Sources
  <2> QED
    BY <1>2, <1>4, <2>2, <2>3, <2>4, <2>5 DEF Sound
<1>5. CASE Peek(s) # NUL /\ Peek(s) # NL
  <2>1. Advance(s) = [s EXCEPT !.pointer = @ + 1, !.column = @ + 1]
    BY <1>5 DEF Advance
  <2>2. Advance(s) \in Sources
    BY <1>3, <2>1, FieldTypes, MovedInLine
  <2>3. /\ Advance(s).buf = s.buf /\ Advance(s).end = s.end
        /\ Advance(s).bufsize = s.bufsize /\ Advance(s).filled = s.filled
        /\ Advance(s).pointer = s.pointer + 1 /\ Advance(s).line = s.line
        /\ Advance(s).eof = s.eof /\ Advance(s).column = s.column + 1
    BY <1>3, <2>1 DEF Sources
  <2>4. Mirrors(content, Advance(s))
    BY <1>2, <1>3, <1>5, <2>3 DEF Mirrors, Sound, Sources
  <2>5. Cursor(Advance(s)) = Cursor(s) + 1
    BY <1>3, <2>3 DEF Cursor, Sources
  <2> QED
    BY <1>2, <1>5, <2>2, <2>3, <2>4, <2>5 DEF Sound
<1> QED
  BY <1>1, <1>4, <1>5

(* Pushing back in the buffer: the cursor moves back and the line with it, *)
(* unless nothing that was got is left in the buffer.                      *)
LEMMA RetreatSound ==
    ASSUME NEW content, NEW s, Sound(content, s),
           s.line = LineAt(content, Cursor(s))
    PROVE  /\ Sound(content, Retreat(s))
           /\ Retreat(s).line = LineAt(content, Cursor(Retreat(s)))
           /\ Retreat(s).eof = s.eof /\ Retreat(s).filled = s.filled
           /\ s.pointer = 0 => Retreat(s) = s
           /\ s.pointer # 0 =>
                /\ Cursor(Retreat(s)) = Cursor(s) - 1
                /\ Cursor(s) > 0
                /\ Retreat(s).column = IF s.buf[s.pointer] = NL THEN s.lastCol
                                       ELSE s.column - 1
<1>1. /\ content \in Seq(Char) /\ s \in Sources /\ Mirrors(content, s)
      /\ Len(s.buf) \in Nat /\ Cursor(s) \in Nat
  BY PeekIsUpcoming DEF Sound
<1>2. s.pointer = 0 => Retreat(s) = s
  BY DEF Retreat
<1>3. CASE s.pointer # 0
  <2>1. s.pointer - 1 \in Nat /\ Cursor(s) - 1 \in Nat /\ Cursor(s) > 0
    BY <1>1, <1>3 DEF Sources, Mirrors, Cursor
  <2>2. s.buf[s.pointer] = content[Cursor(s)]
    <3>1. s.pointer \in 1..Len(s.buf)
      BY <1>1, <1>3 DEF Sources, Mirrors
    <3>2. s.buf[s.pointer] = content[s.filled - Len(s.buf) + s.pointer]
      BY <1>1, <3>1 DEF Mirrors
    <3> QED
      BY <3>2 DEF Cursor
  <2>3. LineAt(content, Cursor(s) - 1) \in Nat \ {0}
        /\ LineAt(content, Cursor(s)) =
              IF content[Cursor(s)] = NL THEN LineAt(content, Cursor(s) - 1) + 1
              ELSE LineAt(content, Cursor(s) - 1)
    <3>1. (Cursor(s) - 1) + 1 = Cursor(s)
      BY <1>1
    <3> QED
      BY <1>1, <2>1, <3>1, LineStep
  <2>4. CASE s.buf[s.pointer] = NL
    <3>1. s.line > 1
      BY <2>2, <2>3, <2>4
    <3>2. Retreat(s) = [s EXCEPT !.pointer = @ - 1, !.line = @ - 1,
                                 !.column = s.lastCol]
      BY <1>3, <2>4, <3>1 DEF Retreat
    <3>3. /\ Retreat(s).buf = s.buf /\ Retreat(s).end = s.end
          /\ Retreat(s).bufsize = s.bufsize /\ Retreat(s).filled = s.filled
          /\ Retreat(s).pointer = s.pointer - 1 /\ Retreat(s).line = s.line - 1
          /\ Retreat(s).eof = s.eof /\ Retreat(s).column = s.lastCol
      BY <1>1, <3>2 DEF Sources
    <3>4. Retreat(s) \in Sources
      <4>1. s.line - 1 \in Nat
        BY <1>1, <3>1 DEF Sources
      <4> QED
        BY <1>1, <2>1, <3>2, <4>1, NewlineGivenBack
    <3>5. Mirrors(content, Retreat(s))
      BY <1>1, <2>1, <3>3 DEF Mirrors, Sources
    <3>6. Cursor(Retreat(s)) = Cursor(s) - 1
      BY <1>1, <3>3 DEF Cursor, Sources
    <3>7. Retreat(s).line = LineAt(content, Cursor(Retreat(s)))
      BY <2>2, <2>3, <2>4, <3>3, <3>6
    <3> QED
      BY <1>1, <1>3, <2>1, <2>4, <3>3, <3>4, <3>5, <3>6, <3>7 DEF Sound
  <2>5. CASE s.buf[s.pointer] # NL
    <3>1. Retreat(s) = [s EXCEPT !.pointer = @ - 1, !.column = @ - 1]
      BY <1>3, <2>5 DEF Retreat
    <3>2. /\ Retreat(s).buf = s.buf /\ Retreat(s).end = s.end
          /\ Retreat(s).bufsize = s.bufsize /\ Retreat(s).filled = s.filled
          /\ Retreat(s).pointer = s.pointer - 1 /\ Retreat(s).line = s.line
          /\ Retreat(s).eof = s.eof /\ Retreat(s).column = s.column - 1
      BY <1>1, <3>1 DEF Sources
    <3>3. Retreat(s) \in Sources
      BY <1>1, <2>1, <3>1, FieldTypes, MovedInLine
    <3>4. Mirrors(content, Retreat(s))
      BY <1>1, <2>1, <3>2 DEF Mirrors, Sources
    <3>5. Cursor(Retreat(s)) = Cursor(s) - 1
      BY <1>1, <3>2 DEF Cursor, Sources
    <3>6. Retreat(s).line = LineAt(content, Cursor(Retreat(s)))
      BY <2>2, <2>3, <2>5, <3>2, <3>5
    <3> QED
      BY <1>1, <1>3, <2>1, <2>5, <3>2, <3>3, <3>4, <3>5, <3>6 DEF Sound
  <2> QED
    BY <2>4, <2>5
<1> QED
  BY <1>1, <1>2, <1>3 DEF Sound

-----------------------------------------------------------------------------
(* A part of a sequence of characters.                                     *)
LEMMA Slice ==
    ASSUME NEW q \in Seq(Char), NEW a \in Nat, NEW b \in Nat, a <= b, b <= Len(q)
    PROVE  /\ SubSeq(q, a + 1, b) \in Seq(Char)
           /\ Len(SubSeq(q, a + 1, b)) = b - a
           /\ \A i \in 1..b - a : SubSeq(q, a + 1, b)[i] = q[a + i]
<1>1. SubSeq(q, a + 1, b) \in Seq(Char)
  OBVIOUS
<1>2. Len(SubSeq(q, a + 1, b)) = b - a
  OBVIOUS
<1>3. \A i \in 1..b - a : SubSeq(q, a + 1, b)[i] = q[a + i]
  OBVIOUS
<1> QED
  BY <1>1, <1>2, <1>3

(* fill() keeps exactly the unread part, in each of its branches.          *)
LEMMA KeptIsUnread ==
    ASSUME NEW content, NEW s, Sound(content, s)
    PROVE  /\ Kept(s) \in Seq(Char)
           /\ Len(Kept(s)) = Len(s.buf) - s.pointer
           /\ \A i \in 1..Len(s.buf) - s.pointer : Kept(s)[i] = s.buf[s.pointer + i]
<1>1. /\ s.buf \in Seq(Char) /\ s.pointer \in Nat /\ Len(s.buf) \in Nat
      /\ s.pointer <= Len(s.buf) /\ s.end = Len(s.buf) /\ s.bufsize = Len(s.buf)
  BY LenProperties DEF Sound, Sources, Mirrors
<1>2. Kept(s) = SubSeq(s.buf, s.pointer + 1, Len(s.buf))
  <2>1. CASE s.pointer = 0
    <3>1. s.pointer + 1 = 1
      BY <2>1
    <3>2. Kept(s) = SubSeq(s.buf, 1, s.bufsize)
      BY <2>1 DEF Kept
    <3> QED
      BY <1>1, <3>1, <3>2
  <2>2. CASE s.pointer # 0
    <3>1. Kept(s) = SubSeq(s.buf, s.pointer + 1, s.end)
      BY <2>2 DEF Kept
    <3> QED
      BY <1>1, <3>1
  <2> QED
    BY <2>1, <2>2
<1> HIDE DEF Kept
<1> QED
  BY <1>1, <1>2, Slice

(* The update of fill() keeps a source a source.                           *)
LEMMA Refilled ==
    ASSUME NEW s \in Sources, NEW nb \in Seq(Char), NEW n \in Nat, NEW m \in Nat
    PROVE  [s EXCEPT !.buf = nb, !.pointer = 0, !.end = n, !.bufsize = n,
                     !.filled = m] \in Sources
  BY DEF Sources

(* The last part of what was supplied, up to character n, is in q; kept is *)
(* what is left of q behind its first p characters; more has what content  *)
(* has in its first n characters, and then in.                             *)
LastPart(q, content, n) ==
    Len(q) <= n /\ \A i \in 1..Len(q) : q[i] = content[n - Len(q) + i]
Rest(kept, q, p) ==
    Len(kept) = Len(q) - p /\ \A i \in 1..Len(q) - p : kept[i] = q[p + i]
Grown(more, content, n, in) ==
    /\ \A i \in 1..n : more[i] = content[i]
    /\ \A i \in 1..Len(in) : more[n + i] = in[i]

(* The unread part of a buffer that holds the last part of what was        *)
(* supplied, followed by what comes next, is again the last part.          *)
LEMMA Rebuilt ==
    ASSUME NEW content, NEW more, NEW buf \in Seq(Char), NEW kept \in Seq(Char),
           NEW in \in Seq(Char), NEW p \in Nat, NEW n \in Nat,
           p <= Len(buf), LastPart(buf, content, n), Rest(kept, buf, p),
           Grown(more, content, n, in)
    PROVE  /\ kept \o in \in Seq(Char)
           /\ Len(kept \o in) = Len(buf) - p + Len(in)
           /\ Len(kept \o in) \in Nat
           /\ LastPart(kept \o in, more, n + Len(in))
<1> DEFINE nb == kept \o in
<1>1. Len(buf) \in Nat /\ Len(in) \in Nat /\ Len(kept) \in Nat
      /\ Len(kept) = Len(buf) - p /\ Len(buf) <= n
  BY LenProperties DEF Rest, LastPart
<1>2. /\ nb \in Seq(Char) /\ Len(nb) = Len(kept) + Len(in)
      /\ \A i \in 1..Len(kept) + Len(in) :
            nb[i] = IF i <= Len(kept) THEN kept[i] ELSE in[i - Len(kept)]
  BY ConcatProperties
<1> HIDE DEF nb
<1>3. Len(nb) = Len(buf) - p + Len(in) /\ Len(nb) \in Nat /\ Len(nb) <= n + Len(in)
  BY <1>1, <1>2
<1>4. ASSUME NEW i \in 1..Len(nb) PROVE nb[i] = more[n + Len(in) - Len(nb) + i]
  <2>1. CASE i <= Len(kept)
    <3>1. i \in 1..Len(buf) - p /\ p + i \in 1..Len(buf)
      BY <1>1, <1>3, <2>1
    <3>2. /\ n - Len(buf) + (p + i) = n + Len(in) - Len(nb) + i
          /\ n - Len(buf) + (p + i) \in 1..n
      BY <1>1, <1>3, <3>1
    <3>3. nb[i] = kept[i] /\ kept[i] = buf[p + i]
      BY <1>1, <1>2, <1>3, <2>1, <3>1 DEF Rest
    <3>4. buf[p + i] = content[n - Len(buf) + (p + i)]
      BY <3>1 DEF LastPart
    <3>5. more[n - Len(buf) + (p + i)] = content[n - Len(buf) + (p + i)]
      BY <3>2 DEF Grown
    <3> QED
      BY <3>2, <3>3, <3>4, <3>5
  <2>2. CASE ~(i <= Len(kept))
    <3>1. i - Len(kept) \in 1..Len(in)
      BY <1>1, <1>2, <1>3, <2>2
    <3>2. nb[i] = in[i - Len(kept)]
      BY <1>1, <1>2, <1>3, <2>2
    <3>3. n + (i - Len(kept)) = n + Len(in) - Len(nb) + i
      BY <1>1, <1>2
    <3>4. more[n + (i - Len(kept))] = in[i - Len(kept)]
      BY <3>1 DEF Grown
    <3> QED
      BY <3>2, <3>3, <3>4
  <2> QED
    BY <2>1, <2>2
<1>5. LastPart(nb, more, n + Len(in))
  BY <1>3, <1>4 DEF LastPart
<1> QED
  BY <1>2, <1>3, <1>5 DEF nb

(* The fields of a source that mirrors the content.                        *)
LEMMA MirrorsLastPart ==
    ASSUME NEW content, NEW s
    PROVE  Mirrors(content, s) <=>
             /\ s.pointer <= Len(s.buf)
             /\ s.end = Len(s.buf) /\ s.bufsize = Len(s.buf)
             /\ s.filled <= Len(content)
             /\ LastPart(s.buf, content, s.filled)
  BY DEF Mirrors, LastPart

(* fill() with what follows the characters supplied so far: more is the    *)
(* content with them.  Cursor, line and column stay as they are.           *)
LEMMA FillSound ==
    ASSUME NEW content, NEW s, Sound(content, s),
           NEW more \in Seq(Char), NEW in \in Seq(Char),
           s.filled + Len(in) <= Len(more),
           Grown(more, content, s.filled, in)
    PROVE  /\ Sound(more, Fill(s, in))
           /\ Cursor(Fill(s, in)) = Cursor(s)
           /\ Fill(s, in).line = s.line /\ Fill(s, in).column = s.column
           /\ Fill(s, in).pointer = 0 /\ Fill(s, in).eof = s.eof
           /\ Fill(s, in).filled = s.filled + Len(in)
           /\ Len(Fill(s, in).buf) = Len(s.buf) - s.pointer + Len(in)
<1> DEFINE nb == Kept(s) \o in
           n == Len(nb)
           m == s.filled + Len(in)
           f == Fill(s, in)
<1>1. /\ s \in Sources /\ s.buf \in Seq(Char) /\ s.pointer \in Nat
      /\ s.filled \in Nat /\ Len(s.buf) \in Nat /\ Len(in) \in Nat
      /\ s.pointer <= Len(s.buf)
  BY LenProperties DEF Sound, Sources, Mirrors
<1>2. LastPart(s.buf, content, s.filled)
  BY MirrorsLastPart DEF Sound
<1>3. Kept(s) \in Seq(Char) /\ Rest(Kept(s), s.buf, s.pointer)
  BY KeptIsUnread DEF Rest
<1>4. /\ nb \in Seq(Char) /\ n = Len(s.buf) - s.pointer + Len(in)
      /\ n \in Nat /\ LastPart(nb, more, m)
  <2> DEFINE buf == s.buf
             kept == Kept(s)
             p == s.pointer
             k == s.filled
  <2>1. /\ buf \in Seq(Char) /\ kept \in Seq(Char) /\ p \in Nat /\ k \in Nat
        /\ p <= Len(buf) /\ LastPart(buf, content, k) /\ Rest(kept, buf, p)
        /\ Grown(more, content, k, in)
    BY <1>1, <1>2, <1>3
  <2>2. nb = kept \o in /\ n = Len(kept \o in) /\ m = k + Len(in)
    OBVIOUS
  <2> HIDE DEF buf, kept, p, k, nb, n, m
  <2>3. /\ kept \o in \in Seq(Char)
        /\ Len(kept \o in) = Len(buf) - p + Len(in)
        /\ Len(kept \o in) \in Nat
        /\ LastPart(kept \o in, more, k + Len(in))
    BY <2>1, Rebuilt
  <2>4. nb \in Seq(Char) /\ n \in Nat /\ LastPart(nb, more, m)
    BY <2>2, <2>3
  <2>5. n = Len(buf) - p + Len(in)
    BY <2>2, <2>3
  <2> QED
    BY <2>4, <2>5 DEF buf, p
<1>5. m \in Nat /\ m <= Len(more) /\ n = Len(nb)
  BY <1>1
<1>6. f = [s EXCEPT !.buf = nb, !.pointer = 0, !.end = n, !.bufsize = n, !.filled = m]
  BY <1>1 DEF Fill
<1> HIDE DEF nb, n, m, f
<1>7. /\ f.buf = nb /\ f.pointer = 0 /\ f.end = n /\ f.bufsize = n
      /\ f.filled = m /\ f.line = s.line /\ f.column = s.column /\ f.eof = s.eof
  BY ONLY <1>1, <1>6 DEF Sources
<1>8. f \in Sources
  <2>1. [s EXCEPT !.buf = nb, !.pointer = 0, !.end = n, !.bufsize = n, !.filled = m]
           \in Sources
    BY <1>1, <1>4, <1>5, Refilled
  <2> QED
    BY <1>6, <2>1
<1>9. Mirrors(more, f)
  <2>1. /\ f.pointer <= Len(f.buf) /\ f.end = Len(f.buf) /\ f.bufsize = Len(f.buf)
        /\ f.filled <= Len(more)
    BY ONLY <1>4, <1>5, <1>7
  <2>2. LastPart(f.buf, more, f.filled)
    BY <1>4, <1>7
  <2> QED
    BY <2>1, <2>2, MirrorsLastPart
<1>10. Cursor(f) = Cursor(s)
  <2>1. Cursor(f) = m - n + 0
    BY <1>5, <1>7 DEF Cursor
  <2>2. Cursor(s) = s.filled - Len(s.buf) + s.pointer
    BY DEF Cursor
  <2> QED
    BY <1>1, <1>4, <2>1, <2>2 DEF m
<1> QED
  BY <1>4, <1>5, <1>7, <1>8, <1>9, <1>10 DEF f, m, Sound

(* fillBuffer() reads what follows in the file, and reports the end of the *)
(* file only there.  An empty buffer afterwards means the end of the file. *)
EofHonest(content, s) == s.eof => s.filled = Len(content)

LEMMA FillBufferSound ==
    ASSUME NEW content, NEW s, Sound(content, s), EofHonest(content, s)
    PROVE  /\ Sound(content, FillBuffer(content, s))
           /\ EofHonest(content, FillBuffer(content, s))
           /\ Cursor(FillBuffer(content, s)) = Cursor(s)
           /\ FillBuffer(content, s).line = s.line
           /\ FillBuffer(content, s).column = s.column
           /\ FillBuffer(content, s).pointer = 0
           /\ Len(FillBuffer(content, s).buf) = 0 => Cursor(s) = Len(content)
<1> DEFINE r == ReadLen(content, s)
           in == SubSeq(content, s.filled + 1, s.filled + r)
           g == Fill(s, in)
           f == FillBuffer(content, s)
<1>1. /\ content \in Seq(Char) /\ s \in Sources /\ s.filled \in Nat
      /\ Len(content) \in Nat /\ s.filled <= Len(content)
      /\ s.pointer \in Nat /\ Len(s.buf) \in Nat
  BY LenProperties DEF Sound, Sources, Mirrors
<1>2. /\ r \in Nat /\ s.filled + r <= Len(content)
      /\ r < Chunk => s.filled + r = Len(content)
      /\ r = 0 => s.filled = Len(content)
  BY <1>1, ChunkAssumption DEF ReadLen
<1> HIDE DEF r
<1>4. /\ in \in Seq(Char) /\ Len(in) = r
      /\ \A i \in 1..r : in[i] = content[s.filled + i]
  <2> DEFINE a == s.filled
             b == s.filled + r
  <2>1. /\ a \in Nat /\ b \in Nat /\ a <= b /\ b <= Len(content) /\ b - a = r
    BY <1>1, <1>2
  <2>2. in = SubSeq(content, a + 1, b)
    OBVIOUS
  <2> HIDE DEF a, b, in
  <2>3. /\ SubSeq(content, a + 1, b) \in Seq(Char)
        /\ Len(SubSeq(content, a + 1, b)) = b - a
        /\ \A i \in 1..b - a : SubSeq(content, a + 1, b)[i] = content[a + i]
    BY <1>1, <2>1, Slice
  <2> QED
    BY <2>1, <2>2, <2>3 DEF a
<1>g. g = Fill(s, in)
  OBVIOUS
<1>f. f = [g EXCEPT !.eof = g.eof \/ r < Chunk]
  BY DEF FillBuffer, r
<1> HIDE DEF in, g, f
<1>5. /\ Sound(content, g) /\ Cursor(g) = Cursor(s)
      /\ g.line = s.line /\ g.column = s.column /\ g.pointer = 0
      /\ g.eof = s.eof /\ g.filled = s.filled + r
      /\ Len(g.buf) = Len(s.buf) - s.pointer + r
  <2>1. s.filled + Len(in) <= Len(content) /\ Len(in) = r
    BY <1>2, <1>4
  <2>2. Grown(content, content, s.filled, in)
    BY <1>4 DEF Grown
  <2> QED
    BY <1>1, <1>4, <1>g, <2>1, <2>2, FillSound
<1>6. g \in Sources
  BY <1>5 DEF Sound
<1>8. f \in Sources
  BY <1>6, <1>f DEF Sources
<1>9. /\ f.buf = g.buf /\ f.pointer = g.pointer /\ f.end = g.end
      /\ f.bufsize = g.bufsize /\ f.filled = g.filled /\ f.line = g.line
      /\ f.column = g.column /\ f.eof = (g.eof \/ r < Chunk)
  BY ONLY <1>6, <1>f DEF Sources
<1>10. Sound(content, f) /\ Cursor(f) = Cursor(s)
  <2>1. Mirrors(content, g)
    BY <1>5 DEF Sound
  <2>2. Mirrors(content, f)
    BY <1>9, <2>1, MirrorsLastPart
  <2>3. Cursor(f) = Cursor(g)
    BY <1>9 DEF Cursor
  <2> QED
    BY <1>1, <1>5, <1>8, <2>2, <2>3 DEF Sound
<1>11. EofHonest(content, f)
  <2>1. f.eof => s.eof \/ r < Chunk
    BY <1>5, <1>9, Zenon
  <2>2. s.eof => s.filled = Len(content)
    BY DEF EofHonest
  <2>3. f.filled = s.filled + r
    BY <1>5, <1>9
  <2>4. s.filled = Len(content) => s.filled + r = Len(content)
    BY <1>1, <1>2
  <2> QED
    BY <1>2, <2>1, <2>2, <2>3, <2>4 DEF EofHonest
<1>12. ASSUME Len(f.buf) = 0 PROVE Cursor(s) = Len(content)
  <2>1. Len(s.buf) - s.pointer + r = 0
    BY <1>5, <1>9, <1>12
  <2>2. s.pointer <= Len(s.buf)
    BY DEF Sound, Mirrors
  <2>3. r = 0 /\ s.pointer = Len(s.buf)
    BY <1>1, <1>2, <2>1, <2>2
  <2> QED
    BY <1>1, <1>2, <2>3 DEF Cursor
<1> QED
  BY <1>5, <1>9, <1>10, <1>11, <1>12 DEF f
-----------------------------------------------------------------------------
(* The invariant of a file source.                                         *)
Good(content, s) ==
    /\ Sound(content, s)
    /\ EofHonest(content, s)
    /\ s.line = LineAt(content, Cursor(s))

(* After a refill the next character of the file is the one seen.          *)
LEMMA RefillSound ==
    ASSUME NEW content, NEW s, Good(content, s)
    PROVE  /\ Good(content, FillBuffer(content, s))
           /\ Cursor(FillBuffer(content, s)) = Cursor(s)
           /\ FillBuffer(content, s).line = s.line
           /\ FillBuffer(content, s).column = s.column
           /\ FillBuffer(content, s).pointer = 0
           /\ Peek(FillBuffer(content, s)) = Upcoming(content, Cursor(s))
<1> DEFINE g == FillBuffer(content, s)
<1>1. /\ Sound(content, g) /\ EofHonest(content, g) /\ Cursor(g) = Cursor(s)
      /\ g.line = s.line /\ g.column = s.column /\ g.pointer = 0
      /\ Len(g.buf) = 0 => Cursor(s) = Len(content)
  BY FillBufferSound DEF Good
<1> HIDE DEF g
<1>2. Good(content, g)
  BY <1>1 DEF Good
<1>3. Peek(g) = Upcoming(content, Cursor(s))
  <2>1. Len(g.buf) \in Nat /\ Cursor(s) \in Nat /\ Len(content) \in Nat
    BY <1>1, PeekIsUpcoming
  <2>2. CASE Len(g.buf) = 0
    BY <1>1, <2>1, <2>2, PeekIsUpcoming DEF Upcoming
  <2>3. CASE Len(g.buf) # 0
    <3>1. g.pointer < Len(g.buf)
      BY <1>1, <2>1, <2>3
    <3> QED
      BY <1>1, <3>1, PeekIsUpcoming
  <2> QED
    BY <2>2, <2>3
<1> QED
  BY <1>1, <1>2, <1>3 DEF g

(* Without a refill, what is seen is the next character too.               *)
LEMMA FedPeek ==
    ASSUME NEW content, NEW s, Good(content, s), ~Starved(s)
    PROVE  Peek(s) = Upcoming(content, Cursor(s))
<1>1. Sound(content, s) /\ (s.eof => s.filled = Len(content))
  BY DEF Good, EofHonest
<1>2. /\ s.pointer \in Nat /\ Len(s.buf) \in Nat /\ s.pointer <= Len(s.buf)
      /\ Len(content) \in Nat
  BY <1>1, LenProperties DEF Sound, Sources, Mirrors
<1>3. CASE s.pointer < Len(s.buf)
  BY <1>1, <1>3, PeekIsUpcoming
<1>4. CASE s.pointer = Len(s.buf)
  <2>1. Peek(s) = NUL /\ Cursor(s) = s.filled
    BY <1>1, <1>4, PeekIsUpcoming
  <2>2. s.filled = Len(content)
    BY <1>1, <2>1 DEF Starved
  <2> QED
    BY <1>2, <2>1, <2>2 DEF Upcoming
<1> QED
  BY <1>2, <1>3, <1>4

(* Where a get leaves a source: one character on, with what a push-back    *)
(* needs to come back to where it was.                                     *)
Undoable(s, t, c) ==
    /\ t.pointer # 0
    /\ t.buf[t.pointer] = c
    /\ Cursor(t) = Cursor(s) + 1
    /\ IF c = NL THEN t.lastCol = s.column ELSE t.column = s.column + 1

LEMMA GetSound ==
    ASSUME NEW content, NEW s, Good(content, s)
    PROVE  /\ Good(content, Advance(s))
           /\ Peek(s) = NUL => Advance(s) = s
           /\ Peek(s) # NUL => Undoable(s, Advance(s), Peek(s))
<1> DEFINE t == Advance(s)
<1>1. /\ Sound(content, s) /\ EofHonest(content, s)
      /\ s.line = LineAt(content, Cursor(s)) /\ content \in Seq(Char)
      /\ Cursor(s) \in Nat /\ s.pointer \in Nat
  BY PeekIsUpcoming DEF Good, Sound, Sources
<1>2. /\ Sound(content, t) /\ t.eof = s.eof /\ t.filled = s.filled
      /\ Peek(s) = NUL => t = s
  BY <1>1, AdvanceSound
<1>3. EofHonest(content, t)
  BY <1>1, <1>2 DEF EofHonest
<1>4. ASSUME Peek(s) # NUL
      PROVE  t.line = LineAt(content, Cursor(t)) /\ Undoable(s, t, Peek(s))
  <2>1. /\ Cursor(t) = Cursor(s) + 1 /\ t.pointer = s.pointer + 1
        /\ t.buf = s.buf /\ s.buf[s.pointer + 1] = Peek(s)
        /\ t.line = IF content[Cursor(s) + 1] = NL THEN s.line + 1 ELSE s.line
        /\ IF Peek(s) = NL THEN t.lastCol = s.column ELSE t.column = s.column + 1
    BY <1>1, <1>4, AdvanceSound
  <2> HIDE DEF t
  <2>2. t.line = LineAt(content, Cursor(t))
    BY <1>1, <2>1, LineStep
  <2>3. t.pointer # 0 /\ t.buf[t.pointer] = Peek(s)
    BY <1>1, <2>1
  <2> QED
    BY <2>1, <2>2, <2>3 DEF Undoable
<1> QED
  BY <1>1, <1>2, <1>3, <1>4 DEF Good

(* FileLexInputSource::next(GET_CHAR).                                     *)
LEMMA FileGetSound ==
    ASSUME NEW content, NEW s, Good(content, s),
           NEW t, t = FileNext(content, s, "GET_CHAR"),
           NEW c, c = FileChar(content, s, "GET_CHAR")
    PROVE  /\ Good(content, t)
           /\ c = Upcoming(content, Cursor(s)) /\ c \in Char
           /\ c = NUL => Cursor(t) = Cursor(s)
           /\ c # NUL => Undoable(s, t, c)
<1>1. CASE ~Starved(s)
  <2>1. t = Advance(s) /\ c = Peek(s)
    BY <1>1 DEF FileNext, FileChar, MemoryNext
  <2>2. c \in Char
    BY <2>1, PeekIsUpcoming DEF Good
  <2> QED
    BY <1>1, <2>1, <2>2, GetSound, FedPeek
<1>2. CASE Starved(s)
  <2> DEFINE g == FillBuffer(content, s)
  <2>1. Advance(s) = s
    BY <1>2 DEF Advance, Starved
  <2>2. t = Advance(g) /\ c = Peek(g)
    BY <1>2, <2>1 DEF FileNext, FileChar, MemoryNext
  <2>3. /\ Good(content, g) /\ Cursor(g) = Cursor(s) /\ g.column = s.column
        /\ Peek(g) = Upcoming(content, Cursor(s))
    BY RefillSound
  <2> HIDE DEF g
  <2>4. c \in Char
    BY <2>2, <2>3, PeekIsUpcoming DEF Good
  <2>5. /\ Good(content, t) /\ (c = NUL => t = g) /\ (c # NUL => Undoable(g, t, c))
    BY <2>2, <2>3, GetSound
  <2>6. c # NUL => Undoable(s, t, c)
    BY <2>3, <2>5 DEF Undoable
  <2> QED
    BY <2>2, <2>3, <2>4, <2>5, <2>6
<1> QED
  BY <1>1, <1>2

(* FileLexInputSource::next(LOOK_AHEAD).                                   *)
LEMMA FileLookSound ==
    ASSUME NEW content, NEW s, Good(content, s),
           NEW t, t = FileNext(content, s, "LOOK_AHEAD"),
           NEW c, c = FileChar(content, s, "LOOK_AHEAD")
    PROVE  /\ Good(content, t) /\ Cursor(t) = Cursor(s)
           /\ c = Upcoming(content, Cursor(s)) /\ c \in Char
<1>1. CASE ~Starved(s)
  <2>1. t = s /\ c = Peek(s)
    BY <1>1 DEF FileNext, FileChar, MemoryNext
  <2>2. c \in Char
    BY <2>1, PeekIsUpcoming DEF Good
  <2> QED
    BY <1>1, <2>1, <2>2, FedPeek
<1>2. CASE Starved(s)
  <2> DEFINE g == FillBuffer(content, s)
  <2>1. t = g /\ c = Peek(g)
    BY <1>2 DEF FileNext, FileChar, MemoryNext
  <2>2. /\ Good(content, g) /\ Cursor(g) = Cursor(s)
        /\ Peek(g) = Upcoming(content, Cursor(s))
    BY RefillSound
  <2> HIDE DEF g
  <2>3. c \in Char
    BY <2>1, <2>2, PeekIsUpcoming DEF Good
  <2> QED
    BY <2>1, <2>2, <2>3
<1> QED
  BY <1>1, <1>2

(* FileLexInputSource::next(PUSH_BACK): the second push-back, after a      *)
(* refill, has nothing to give back.                                       *)
LEMMA FileBackSound ==
    ASSUME NEW content, NEW s, Good(content, s),
           NEW t, t = FileNext(content, s, "PUSH_BACK")
    PROVE  /\ Good(content, t)
           /\ Cursor(t) = Cursor(Retreat(s)) /\ t.line = Retreat(s).line
           /\ t.column = Retreat(s).column
<1> DEFINE m == Retreat(s)
<1>1. Good(content, m)
  <2>1. Sound(content, m) /\ m.line = LineAt(content, Cursor(m))
        /\ m.eof = s.eof /\ m.filled = s.filled
    BY RetreatSound DEF Good
  <2> QED
    BY <2>1 DEF Good, EofHonest
<1>2. CASE ~Starved(s)
  <2>1. t = m
    BY <1>2 DEF FileNext, MemoryNext
  <2> QED
    BY <1>1, <2>1
<1>3. CASE Starved(s)
  <2> DEFINE g == FillBuffer(content, m)
  <2>1. t = Retreat(g)
    BY <1>3 DEF FileNext, MemoryNext
  <2> HIDE DEF m
  <2>2. /\ Good(content, g) /\ Cursor(g) = Cursor(m) /\ g.line = m.line
        /\ g.column = m.column /\ g.pointer = 0
    BY <1>1, RefillSound
  <2>3. Retreat(g) = g
    BY <2>2 DEF Retreat
  <2> QED
    BY <2>1, <2>2, <2>3 DEF m
<1> QED
  BY <1>2, <1>3
=============================================================================
