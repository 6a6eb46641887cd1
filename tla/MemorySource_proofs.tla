------------------------- MODULE MemorySource_proofs -------------------------
(***************************************************************************)
(* For every alphabet, every text and every way to supply it in pieces: a  *)
(* MemoryLexInputSource keeps what was not yet read, and implements the    *)
(* abstract character stream.                                              *)
(***************************************************************************)
EXTENDS MemorySource, InputBuffer_proofs

(* The inductive invariant: the buffer mirrors the text, all of which was  *)
(* supplied; the line is that of the cursor (a push-back over a newline    *)
(* relies on it); and a character just got is still in the buffer.         *)
IInv ==
    /\ Sound(content, src)
    /\ src.filled = Len(content)
    /\ src.line = LineAt(content, Cursor(src))
    /\ out \in Char
    /\ undo \in BOOLEAN
    /\ undo => src.pointer # 0

(* fill() supplies what it is given, and leaves cursor and line alone.     *)
LEMMA SupplySound ==
    ASSUME IInv, NEW in \in Pieces, Supply(in)
    PROVE  /\ Sound(content', src') /\ src'.filled = Len(content')
           /\ src'.line = LineAt(content', Cursor(src'))
           /\ Cursor(src') = Cursor(src)
           /\ content' \in Seq(Char) /\ Len(content') >= Len(content)
           /\ SubSeq(content', 1, Len(content)) = content
<1> DEFINE more == content \o in
           n == Len(content)
<1>1. /\ content' = more /\ src' = Fill(src, in) /\ in \in Seq(Char)
      /\ content \in Seq(Char) /\ Sound(content, src) /\ src.filled = n
      /\ src.line = LineAt(content, Cursor(src))
  BY PiecesAssumption DEF Supply, IInv, Sound
<1>2. /\ more \in Seq(Char) /\ Len(more) = n + Len(in)
      /\ n \in Nat /\ Len(in) \in Nat
      /\ \A i \in 1..n + Len(in) : more[i] = IF i <= n THEN content[i] ELSE in[i - n]
  BY <1>1, ConcatProperties, LenProperties
<1>3. Cursor(src) \in Nat /\ Cursor(src) <= n
  BY <1>1, PeekIsUpcoming
<1> HIDE DEF more, n
<1>4. Grown(more, content, n, in)
  BY <1>2 DEF Grown
<1>5. /\ Sound(more, src') /\ Cursor(src') = Cursor(src) /\ src'.line = src.line
      /\ src'.filled = n + Len(in)
  <2>1. src.filled + Len(in) <= Len(more) /\ Grown(more, content, src.filled, in)
    BY <1>1, <1>2, <1>4
  <2> QED
    BY <1>1, <1>2, <2>1, FillSound
<1>6. LineAt(more, Cursor(src)) = LineAt(content, Cursor(src))
  <2>1. \A i \in 1..Cursor(src) : more[i] = content[i]
    BY <1>2, <1>3
  <2>2. Newlines(more, Cursor(src)) = Newlines(content, Cursor(src))
    BY <2>1 DEF Newlines
  <2> QED
    BY <2>2 DEF LineAt
<1>7. SubSeq(more, 1, n) = content
  <2>1. SubSeq(more, 0 + 1, n) \in Seq(Char) /\ Len(SubSeq(more, 0 + 1, n)) = n - 0
        /\ \A i \in 1..n - 0 : SubSeq(more, 0 + 1, n)[i] = more[0 + i]
    BY <1>2, Slice
  <2>2. \A i \in 1..n : SubSeq(more, 1, n)[i] = content[i]
    BY <1>2, <2>1
  <2>3. Len(SubSeq(more, 1, n)) = Len(content) /\ SubSeq(more, 1, n) \in Seq(Char)
    BY <1>2, <2>1 DEF n
  <2> QED
    BY <1>1, <2>2, <2>3, SeqEqual DEF n
<1>8. Len(content') >= Len(content)
  BY <1>1, <1>2 DEF n
<1> QED
  BY <1>1, <1>2, <1>5, <1>6, <1>7, <1>8 DEF n

LEMMA InitInv == Init => IInv
<1> SUFFICES ASSUME Init PROVE IInv
  OBVIOUS
<1>1. content = <<>> /\ src = NewSource /\ out = NUL /\ undo = FALSE
  BY DEF Init
<1>2. /\ content \in Seq(Char) /\ Len(content) = 0
  BY <1>1, EmptySeq
<1>3. Sound(content, NewSource) /\ Cursor(NewSource) = 0 /\ Newlines(content, 0) = {}
  BY <1>2, NewSourceSound
<1>4. LineAt(content, 0) = 1
  BY <1>3, FS_EmptySet DEF LineAt
<1> QED
  BY <1>1, <1>2, <1>3, <1>4, CharAssumption DEF IInv, NewSource

LEMMA StepInv == IInv /\ [Next]_vars => IInv'
<1> SUFFICES ASSUME IInv, [Next]_vars PROVE IInv'
  OBVIOUS
<1>1. ASSUME NEW in \in Pieces, Supply(in) PROVE IInv'
  <2>1. out' = out /\ undo' = FALSE
    BY <1>1 DEF Supply
  <2> QED
    BY <1>1, <2>1, SupplySound DEF IInv
<1>2. CASE GetChar
  <2>1. content' = content /\ src' = Advance(src) /\ out' = Peek(src)
        /\ undo' = (out' # NUL)
    BY <1>2 DEF GetChar, MemoryNext
  <2>2. /\ Sound(content, src') /\ src'.filled = src.filled /\ Peek(src) \in Char
        /\ Peek(src) = NUL => src' = src
        /\ Peek(src) # NUL =>
              /\ Cursor(src') = Cursor(src) + 1 /\ src'.pointer = src.pointer + 1
              /\ src'.line = IF content[Cursor(src) + 1] = NL THEN src.line + 1
                             ELSE src.line
    BY <2>1, AdvanceSound, PeekIsUpcoming DEF IInv
  <2>3. content \in Seq(Char) /\ Cursor(src) \in Nat /\ src.pointer \in Nat
    BY PeekIsUpcoming DEF IInv, Sound, Sources
  <2>4. src'.line = LineAt(content, Cursor(src'))
    BY <2>2, <2>3, LineStep DEF IInv
  <2>5. ASSUME undo' PROVE src'.pointer # 0
    <3>1. Peek(src) # NUL
      BY <2>1, <2>5
    <3> QED
      BY <2>2, <2>3, <3>1
  <2> QED
    BY <2>1, <2>2, <2>4, <2>5 DEF IInv
<1>3. CASE LookAhead
  <2>1. Peek(src) \in Char
    BY PeekIsUpcoming DEF IInv
  <2> QED
    BY <1>3, <2>1 DEF LookAhead, MemoryNext, IInv
<1>4. CASE PushBack
  <2>1. content' = content /\ src' = Retreat(src) /\ out' = out /\ undo' = FALSE
    BY <1>4 DEF PushBack, MemoryNext
  <2>2. Sound(content, src') /\ src'.line = LineAt(content, Cursor(src'))
        /\ src'.filled = src.filled
    BY <2>1, RetreatSound DEF IInv
  <2> QED
    BY <2>1, <2>2 DEF IInv
<1>5. CASE UNCHANGED vars
  BY <1>5 DEF IInv, vars
<1> QED
  BY <1>1, <1>2, <1>3, <1>4, <1>5 DEF Next

LEMMA Invariant == Spec => []IInv
BY InitInv, StepInv, PTL DEF Spec

-----------------------------------------------------------------------------
(* Every variable stays in its type.                                       *)
THEOREM TypeCorrect == Spec => []TypeOK
<1>1. IInv => TypeOK
  BY DEF IInv, TypeOK, Sound
<1> QED
  BY <1>1, Invariant, PTL

(* Mirroring the text implies that the unread parts are the same sequence. *)
LEMMA UnreadSame ==
    ASSUME NEW buf \in Seq(Char), NEW all \in Seq(Char), NEW p \in Nat, NEW c \in Nat,
           p <= Len(buf), c = Len(all) - Len(buf) + p, LastPart(buf, all, Len(all))
    PROVE  SubSeq(buf, p + 1, Len(buf)) = SubSeq(all, c + 1, Len(all))
<1> DEFINE x == SubSeq(buf, p + 1, Len(buf))
           y == SubSeq(all, c + 1, Len(all))
           k == Len(buf) - p
<1>1. Len(buf) \in Nat /\ Len(all) \in Nat /\ Len(buf) <= Len(all) /\ k \in Nat
      /\ c <= Len(all) /\ Len(all) - c = k
  BY LenProperties DEF LastPart
<1> DEFINE b == Len(buf)
           a == Len(all)
<1>x. x = SubSeq(buf, p + 1, b) /\ y = SubSeq(all, c + 1, a)
  OBVIOUS
<1>b. /\ b \in Nat /\ a \in Nat /\ p <= b /\ b <= Len(buf) /\ c <= a /\ a <= Len(all)
      /\ b - p = k /\ a - c = k
  BY <1>1
<1> HIDE DEF x, y, a, b
<1>2. x \in Seq(Char) /\ Len(x) = k /\ \A i \in 1..k : x[i] = buf[p + i]
  <2>1. /\ SubSeq(buf, p + 1, b) \in Seq(Char)
        /\ Len(SubSeq(buf, p + 1, b)) = b - p
        /\ \A i \in 1..b - p : SubSeq(buf, p + 1, b)[i] = buf[p + i]
    BY <1>b, Slice
  <2> QED
    BY <1>b, <1>x, <2>1
<1>3. y \in Seq(Char) /\ Len(y) = k /\ \A i \in 1..k : y[i] = all[c + i]
  <2>1. /\ SubSeq(all, c + 1, a) \in Seq(Char)
        /\ Len(SubSeq(all, c + 1, a)) = a - c
        /\ \A i \in 1..a - c : SubSeq(all, c + 1, a)[i] = all[c + i]
    BY <1>b, Slice
  <2> QED
    BY <1>b, <1>x, <2>1
<1>4. ASSUME NEW i \in 1..k PROVE x[i] = y[i]
  <2>1. p + i \in 1..Len(buf) /\ Len(all) - Len(buf) + (p + i) = c + i
    BY <1>1
  <2>2. buf[p + i] = all[Len(all) - Len(buf) + (p + i)]
    BY <2>1 DEF LastPart
  <2> QED
    BY <1>2, <1>3, <2>1, <2>2
<1>5. x = y
  BY <1>2, <1>3, <1>4, SeqEqual
<1> QED
  BY <1>5 DEF x, y

(* What was supplied and not yet read is in the buffer, in order, however  *)
(* calls of fill() and next() were interleaved.                            *)
THEOREM NothingLost == Spec => []UnreadIsKept
<1>1. IInv => UnreadIsKept
  <2> SUFFICES ASSUME IInv PROVE UnreadIsKept
    OBVIOUS
  <2>1. /\ src.buf \in Seq(Char) /\ content \in Seq(Char) /\ src.pointer \in Nat
        /\ src.pointer <= Len(src.buf) /\ src.end = Len(src.buf)
        /\ src.bufsize = Len(src.buf) /\ src.filled = Len(content)
        /\ Cursor(src) \in Nat
    BY PeekIsUpcoming DEF IInv, Sound, Sources, Mirrors
  <2>2. LastPart(src.buf, content, Len(content))
    BY <2>1, MirrorsLastPart DEF IInv, Sound
  <2>3. Cursor(src) = Len(content) - Len(src.buf) + src.pointer
    BY <2>1 DEF Cursor
  <2>4. SubSeq(src.buf, src.pointer + 1, Len(src.buf))
          = SubSeq(content, Cursor(src) + 1, Len(content))
    BY <2>1, <2>2, <2>3, UnreadSame
  <2> QED
    BY <2>1, <2>4 DEF UnreadIsKept
<1> QED
  BY <1>1, Invariant, PTL

(* The memory source implements CharStream, fill() being Supply.           *)
THEOREM ImplementsStream == Spec => StreamSpec
<1>1. Init => Stream!Init
  <2> SUFFICES ASSUME Init PROVE Stream!Init
    OBVIOUS
  <2>1. content = <<>> /\ src = NewSource /\ out = NUL /\ undo = FALSE
    BY DEF Init
  <2>2. content \in Seq(Char)
    BY <2>1
  <2>3. Cursor(NewSource) = 0
    BY <2>2, NewSourceSound
  <2> QED
    BY <2>1, <2>2, <2>3 DEF Stream!Init
<1>2. IInv /\ [Next]_vars => [Stream!Next]_(Stream!streamVars)
  <2> SUFFICES ASSUME IInv, [Next]_vars
               PROVE  Stream!Next \/ UNCHANGED Stream!streamVars
    OBVIOUS
  <2>1. /\ Sound(content, src) /\ Cursor(src) \in Nat /\ src.pointer \in Nat
        /\ src.pointer <= Len(src.buf) /\ Len(src.buf) \in Nat
        /\ Len(content) \in Nat
    BY PeekIsUpcoming DEF IInv, Sound, Sources, Mirrors
  <2>2. Peek(src) = Stream!Upcoming
    <3>1. CASE src.pointer < Len(src.buf)
      BY <2>1, <3>1, PeekIsUpcoming DEF Upcoming, Stream!Upcoming
    <3>2. CASE src.pointer = Len(src.buf)
      <4>1. Peek(src) = NUL /\ Cursor(src) = Len(content)
        BY <2>1, <3>2, PeekIsUpcoming DEF IInv
      <4> QED
        BY <2>1, <4>1 DEF Stream!Upcoming
    <3> QED
      BY <2>1, <3>1, <3>2
  <2>3. ASSUME NEW in \in Pieces, Supply(in) PROVE Stream!Supply
    <3>1. undo' = FALSE /\ out' = out
      BY <2>3 DEF Supply
    <3> QED
      BY <2>3, <3>1, SupplySound DEF Stream!Supply
  <2>4. CASE GetChar
    <3>1. /\ Peek(src) = NUL => Cursor(src') = Cursor(src)
          /\ Peek(src) # NUL => Cursor(src') = Cursor(src) + 1
      BY <2>1, <2>4, AdvanceSound DEF GetChar, MemoryNext
    <3> QED
      BY <2>2, <2>4, <3>1 DEF GetChar, Stream!Next, Stream!Get
  <2>5. CASE LookAhead
    BY <2>2, <2>5 DEF LookAhead, MemoryNext, Stream!Next, Stream!Look
  <2>6. CASE PushBack
    <3>1. src' = Retreat(src)
      BY <2>6 DEF PushBack, MemoryNext
    <3>2. CASE src.pointer # 0
      <4>1. Cursor(src') = Cursor(src) - 1 /\ Cursor(src) > 0
        BY <2>1, <3>1, <3>2, RetreatSound DEF IInv
      <4> QED
        BY <2>6, <4>1 DEF PushBack, Stream!Next, Stream!GiveBack
    <3>3. CASE src.pointer = 0
      <4>1. Cursor(src') = Cursor(src) /\ ~undo
        BY <3>1, <3>3 DEF Retreat, IInv
      <4> QED
        BY <2>6, <4>1 DEF PushBack, Stream!Next, Stream!GiveBack
    <3> QED
      BY <3>2, <3>3
  <2>7. CASE UNCHANGED vars
    BY <2>7 DEF vars, Stream!streamVars
  <2> QED
    BY <2>3, <2>4, <2>5, <2>6, <2>7 DEF Next, Stream!Next
<1> QED
  BY <1>1, <1>2, Invariant, PTL DEF Spec, StreamSpec, Stream!Spec
=============================================================================
