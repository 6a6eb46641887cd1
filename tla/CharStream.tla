----------------------------- MODULE CharStream -----------------------------
(***************************************************************************)
(* What an input source promises the lexer, without buffers: a cursor into *)
(* the sequence of characters supplied so far.  A character that was just  *)
(* got can always be given back; any other push-back may be refused (the   *)
(* prefix of the buffer may have been dropped), and is then ignored.       *)
(***************************************************************************)
EXTENDS Naturals, Sequences

CONSTANTS Char, NUL

VARIABLES
    content,  \* the characters supplied so far
    cursor,   \* how many of them were consumed
    out,      \* the character the last get or look-ahead returned
    undo      \* whether the next push-back is certain to be honoured

streamVars == <<content, cursor, out, undo>>

(* '\0' is both "nothing more" and a character that is never passed.       *)
Upcoming == IF cursor < Len(content) THEN content[cursor + 1] ELSE NUL

Init ==
    /\ content \in Seq(Char)
    /\ cursor = 0
    /\ out = NUL
    /\ undo = FALSE

Get ==
    /\ out' = Upcoming
    /\ cursor' = IF Upcoming = NUL THEN cursor ELSE cursor + 1
    /\ undo' = (Upcoming # NUL)
    /\ UNCHANGED content

Look ==
    /\ out' = Upcoming
    /\ undo' = FALSE
    /\ UNCHANGED <<content, cursor>>

GiveBack ==
    /\ \/ cursor > 0 /\ cursor' = cursor - 1
       \/ ~undo /\ cursor' = cursor
    /\ undo' = FALSE
    /\ UNCHANGED <<content, out>>

(* More characters arrive behind the ones already there.                   *)
Supply ==
    /\ Len(content') >= Len(content)
    /\ SubSeq(content', 1, Len(content)) = content
    /\ undo' = FALSE
    /\ UNCHANGED <<cursor, out>>

Next == Get \/ Look \/ GiveBack \/ Supply

Spec == Init /\ [][Next]_streamVars
=============================================================================
