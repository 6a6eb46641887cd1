-------------------------- MODULE FileSource_proofs --------------------------
(***************************************************************************)
(* For every chunk size, alphabet and file: the invariants of FileSource,  *)
(* that a push-back undoes a get, and that the source implements the       *)
(* abstract character stream.                                              *)
(***************************************************************************)
EXTENDS FileSource, InputBuffer_proofs

(* A push-back now would be served from the buffer and come back to before.*)
Returns ==
    /\ src.pointer # 0
    /\ Cursor(src) - 1 = before.cursor
    /\ before.line = LineAt(content, before.cursor)
    /\ before.column = IF src.buf[src.pointer] = NL THEN src.lastCol
                       ELSE src.column - 1

(* The inductive invariant.  Its last conjunct is what UndoRestores needs  *)
(* and TypeOK does not say.                                                *)
IInv ==
    /\ Good(content, src)
    /\ out \in Char
    /\ undo \in BOOLEAN
    /\ before \in [cursor : Int, line : Nat, column : Int]
    /\ undo => Returns

(* The place of a source over a content is well typed.                     *)
LEMMA PlaceType ==
    ASSUME NEW c, NEW s, Good(c, s)
    PROVE  /\ Place(s) \in [cursor : Int, line : Nat, column : Int]
           /\ Place(s).cursor = Cursor(s) /\ Place(s).line = s.line
           /\ Place(s).column = s.column
<1>1. Cursor(s) \in Nat /\ s.line \in Nat /\ s.column \in Int
  BY PeekIsUpcoming DEF Good, Sound, Sources
<1> QED
  BY <1>1 DEF Place

LEMMA InitInv == Init => IInv
<1> SUFFICES ASSUME Init PROVE IInv
  OBVIOUS
<1>1. content \in Seq(Char) /\ src = NewSource /\ out = NUL /\ undo = FALSE
      /\ before = Place(NewSource)
  BY InputsAssumption DEF Init
<1>2. Sound(content, NewSource) /\ Cursor(NewSource) = 0 /\ Newlines(content, 0) = {}
  BY <1>1, NewSourceSound
<1>3. Good(content, NewSource)
  <2>1. LineAt(content, 0) = 1
    BY <1>2, FS_EmptySet DEF LineAt
  <2> QED
    BY <1>2, <2>1 DEF Good, EofHonest, NewSource
<1> QED
  BY <1>1, <1>3, PlaceType, CharAssumption DEF IInv

(* After a get that returned a character, a push-back returns.             *)
LEMMA UndoableReturns ==
    ASSUME NEW t, NEW c, Good(content, src), Undoable(src, t, c),
           NEW b, b = Place(src)
    PROVE  /\ t.pointer # 0
           /\ Cursor(t) - 1 = b.cursor
           /\ b.line = LineAt(content, b.cursor)
           /\ b.column = IF t.buf[t.pointer] = NL THEN t.lastCol ELSE t.column - 1
<1>1. b.cursor = Cursor(src) /\ b.line = src.line /\ b.column = src.column
      /\ Cursor(src) \in Nat /\ src.column \in Int
      /\ src.line = LineAt(content, Cursor(src))
  BY PlaceType, PeekIsUpcoming DEF Good, Sound, Sources
<1> QED
  BY <1>1 DEF Undoable

LEMMA StepInv == IInv /\ [Next]_vars => IInv'
<1> SUFFICES ASSUME IInv, [Next]_vars PROVE IInv'
  OBVIOUS
<1>1. Good(content, src) /\ Place(src) \in [cursor : Int, line : Nat, column : Int]
  BY PlaceType DEF IInv
<1>2. CASE GetChar
  <2>1. content' = content /\ before' = Place(src) /\ undo' = (out' # NUL)
    BY <1>2 DEF GetChar
  <2>2. /\ Good(content, src') /\ out' \in Char
        /\ out' # NUL => Undoable(src, src', out')
    BY <1>1, <1>2, FileGetSound DEF GetChar
  <2>3. undo' => Returns'
    <3> SUFFICES ASSUME undo' PROVE Returns'
      OBVIOUS
    <3>1. Undoable(src, src', out')
      BY <2>1, <2>2
    <3> QED
      BY <1>1, <2>1, <3>1, UndoableReturns DEF Returns
  <2> QED
    BY <1>1, <2>1, <2>2, <2>3 DEF IInv
<1>3. CASE LookAhead
  <2>1. content' = content /\ before' = Place(src) /\ undo' = FALSE
    BY <1>3 DEF LookAhead
  <2>2. Good(content, src') /\ out' \in Char
    BY <1>1, <1>3, FileLookSound DEF LookAhead
  <2> QED
    BY <1>1, <2>1, <2>2 DEF IInv
<1>4. CASE PushBack
  <2>1. content' = content /\ before' = Place(src) /\ undo' = FALSE /\ out' = out
    BY <1>4 DEF PushBack
  <2>2. Good(content, src')
    BY <1>1, <1>4, FileBackSound DEF PushBack
  <2> QED
    BY <1>1, <2>1, <2>2 DEF IInv
<1>5. CASE Refill
  <2>1. content' = content /\ before' = Place(src) /\ undo' = FALSE /\ out' = out
    BY <1>5 DEF Refill
  <2>2. Good(content, src')
    BY <1>1, <1>5, RefillSound DEF Refill
  <2> QED
    BY <1>1, <2>1, <2>2 DEF IInv
<1>6. CASE UNCHANGED vars
  BY <1>6 DEF IInv, vars, Returns
<1> QED
  BY <1>2, <1>3, <1>4, <1>5, <1>6 DEF Next

LEMMA Invariant == Spec => []IInv
BY InitInv, StepInv, PTL DEF Spec

-----------------------------------------------------------------------------
(* Every variable stays in its type: in particular pointer, line and       *)
(* filled never go below zero, so no push-back leaves the buffer.          *)
THEOREM TypeCorrect == Spec => []TypeOK
<1>1. IInv => TypeOK
  BY DEF IInv, TypeOK, Good, Sound
<1> QED
  BY <1>1, Invariant, PTL

(* No refill loses, repeats or reorders a byte of the file.                *)
THEOREM BufferCorrect == Spec => []BufferMirrorsFile
<1>1. IInv => BufferMirrorsFile
  BY DEF IInv, BufferMirrorsFile, Good, Sound
<1> QED
  BY <1>1, Invariant, PTL

(* The source reports the end of the file only when all of it was read.    *)
THEOREM EofCorrect == Spec => []EofMeansAllRead
<1>1. IInv => EofMeansAllRead
  BY DEF IInv, EofMeansAllRead, Good, EofHonest
<1> QED
  BY <1>1, Invariant, PTL

(* The line number counts the newlines before the cursor, always.          *)
THEOREM LineCorrect == Spec => []LineExact
<1>1. IInv => LineExact
  BY DEF IInv, LineExact, Good
<1> QED
  BY <1>1, Invariant, PTL

(* A push-back after a get that returned a character comes back to where   *)
(* the get started.                                                        *)
LEMMA PushBackReturns ==
    ASSUME IInv, undo, PushBack
    PROVE  Place(src') = before
<1>1. Good(content, src) /\ Returns
      /\ before \in [cursor : Int, line : Nat, column : Int]
  BY DEF IInv
<1>2. src' = FileNext(content, src, "PUSH_BACK")
  BY DEF PushBack
<1>3. /\ Good(content, src')
      /\ Cursor(src') = Cursor(Retreat(src)) /\ src'.line = Retreat(src).line
      /\ src'.column = Retreat(src).column
  BY <1>1, <1>2, FileBackSound
<1>4. /\ Cursor(Retreat(src)) = before.cursor
      /\ Retreat(src).column = before.column
  <2>1. /\ Cursor(Retreat(src)) = Cursor(src) - 1
        /\ Retreat(src).column = IF src.buf[src.pointer] = NL THEN src.lastCol
                                 ELSE src.column - 1
    BY <1>1, RetreatSound DEF Good, Returns
  <2> QED
    BY <1>1, <2>1 DEF Returns
<1>5. src'.line = before.line
  BY <1>1, <1>3, <1>4 DEF Good, Returns
<1>6. before = [cursor |-> before.cursor, line |-> before.line, column |-> before.column]
  BY <1>1
<1> QED
  BY <1>3, <1>4, <1>5, <1>6 DEF Place

(* A push-back right after a get restores cursor, line and column.         *)
THEOREM UndoCorrect == Spec => UndoRestores
<1>1. IInv /\ [Next]_vars => [PushBack /\ undo => Place(src') = before]_vars
  BY PushBackReturns
<1> QED
  BY <1>1, Invariant, PTL DEF Spec, UndoRestores

(* The file source implements CharStream: its initial states are initial   *)
(* there and every step is a step of the stream or leaves it alone.        *)
THEOREM ImplementsStream == Spec => StreamSpec
<1>1. Init => Stream!Init
  <2> SUFFICES ASSUME Init PROVE Stream!Init
    OBVIOUS
  <2>1. content \in Seq(Char) /\ src = NewSource /\ out = NUL /\ undo = FALSE
    BY InputsAssumption DEF Init
  <2>2. Cursor(NewSource) = 0
    BY <2>1, NewSourceSound
  <2> QED
    BY <2>1, <2>2 DEF Stream!Init
<1>2. IInv /\ [Next]_vars => [Stream!Next]_(Stream!streamVars)
  <2> SUFFICES ASSUME IInv, [Next]_vars
               PROVE  Stream!Next \/ UNCHANGED Stream!streamVars
    OBVIOUS
  <2>1. Good(content, src) /\ Cursor(src) \in Nat /\ content \in Seq(Char)
    BY PeekIsUpcoming DEF IInv, Good, Sound
  <2>2. Upcoming(content, Cursor(src)) = Stream!Upcoming
    BY DEF Upcoming, Stream!Upcoming
  <2>3. CASE GetChar
    <3>1. /\ out' = Upcoming(content, Cursor(src))
          /\ out' = NUL => Cursor(src') = Cursor(src)
          /\ out' # NUL => Undoable(src, src', out')
      BY <2>1, <2>3, FileGetSound DEF GetChar
    <3>2. undo' = (out' # NUL) /\ content' = content
      BY <2>3 DEF GetChar
    <3>3. out' # NUL => Cursor(src') = Cursor(src) + 1
      BY <3>1 DEF Undoable
    <3> QED
      BY <2>2, <3>1, <3>2, <3>3 DEF Stream!Next, Stream!Get
  <2>4. CASE LookAhead
    <3>1. Cursor(src') = Cursor(src) /\ out' = Upcoming(content, Cursor(src))
      BY <2>1, <2>4, FileLookSound DEF LookAhead
    <3> QED
      BY <2>2, <2>4, <3>1 DEF LookAhead, Stream!Next, Stream!Look
  <2>5. CASE PushBack
    <3>1. Cursor(src') = Cursor(Retreat(src))
      BY <2>1, <2>5, FileBackSound DEF PushBack
    <3>2. undo => src.pointer # 0
      BY DEF IInv, Returns
    <3>3. CASE src.pointer # 0
      <4>1. Cursor(src') = Cursor(src) - 1 /\ Cursor(src) > 0
        BY <2>1, <3>1, <3>3, RetreatSound DEF Good
      <4> QED
        BY <2>5, <4>1 DEF PushBack, Stream!Next, Stream!GiveBack
    <3>4. CASE src.pointer = 0
      <4>1. Cursor(src') = Cursor(src) /\ ~undo
        BY <3>1, <3>2, <3>4 DEF Retreat
      <4> QED
        BY <2>5, <4>1 DEF PushBack, Stream!Next, Stream!GiveBack
    <3> QED
      BY <3>3, <3>4
  <2>6. CASE Refill
    <3>1. Cursor(src') = Cursor(src)
      BY <2>1, <2>6, RefillSound DEF Refill
    <3>2. content' = content /\ undo' = FALSE /\ out' = out
      BY <2>6 DEF Refill
    <3>3. Len(content') >= Len(content) /\ SubSeq(content', 1, Len(content)) = content
      BY <2>1, <3>2
    <3> QED
      BY <3>1, <3>2, <3>3 DEF Stream!Next, Stream!Supply
  <2>7. CASE UNCHANGED vars
    BY <2>7 DEF vars, Stream!streamVars
  <2> QED
    BY <2>3, <2>4, <2>5, <2>6, <2>7 DEF Next
<1> QED
  BY <1>1, <1>2, Invariant, PTL DEF Spec, StreamSpec, Stream!Spec
=============================================================================
