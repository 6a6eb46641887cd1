---------------------------- MODULE TokenBuffer ----------------------------
(***************************************************************************)
(* The parser's three tokens cur, pre and prepre over the text, as the     *)
(* operations Parser::next(), pushBack() and need() change them            *)
(* (includes/parser.h, lib/parser/parser.cc).                              *)
(*                                                                         *)
(* A token is its place in the text, 0 for a null token; what is at a      *)
(* place is a keyword, an operator, an integer constant, or a name that    *)
(* stands for an identifier.  The operations work on the parser p, a record that holds   *)
(* these tokens among its fields; once the compiler has stopped none of    *)
(* them changes anything.                                                  *)
(***************************************************************************)
EXTENDS Integers, Sequences

NullToken == 0

Keywords == {"int", "void", "const", "if", "else", "while", "for", "do", "switch", "case",
             "break", "continue", "return"}
Operators == {"(", ")", "{", "}", "[", "]", ";", ",", "=", "+=", "?", "||", "&&", "|", "^", "&",
              "==", "!=", "<", "<<", "+", "*", "++"}
Constants == {"1", "2"}
BaseTypes == {"int", "void"}

(* What cur is; a null token is of no kind.                                *)
Cur(p) == IF p.cur = NullToken THEN "none" ELSE p.text[p.cur]
Is(p, k) == Cur(p) = k
IsName(p) == Cur(p) \notin Keywords \cup Operators \cup Constants \cup {"none"}
IsConstant(p) == Cur(p) \in Constants
IsBaseType(p) == Cur(p) \in BaseTypes

Running(p) == p.stop = "no"
Stop(p, why) == IF Running(p) THEN [p EXCEPT !.stop = why] ELSE p

(* parserError().  Several kinds of it, Misreport, look up their text      *)
(* beyond the end of the table or print arguments of the wrong types:      *)
(* what the program does from there on is undefined.  The kind PAR_ERR_INT *)
(* is an assert(0).                                                        *)
Report(p) == IF Running(p) THEN [p EXCEPT !.errors = @ + 1] ELSE p
Misreport(p) == Stop(Report(p), "undefined")

(* next(): the last token pushed back but one, which stays in pre, the     *)
(* last one, or one from the lexer; the end of the text is fatal within a  *)
(* declaration.                                                            *)
NextToken(p) ==
    CASE ~Running(p) -> p
      [] Running(p) /\ p.prepre # NullToken ->
            [p EXCEPT !.pre = p.prepre, !.cur = p.prepre, !.prepre = NullToken]
      [] Running(p) /\ p.prepre = NullToken /\ p.pre # NullToken ->
            [p EXCEPT !.cur = p.pre, !.pre = NullToken]
      [] Running(p) /\ p.prepre = NullToken /\ p.pre = NullToken ->
            IF p.lexed < Len(p.text)
            THEN [p EXCEPT !.lexed = @ + 1, !.cur = p.lexed + 1]
            ELSE [p EXCEPT !.cur = NullToken,
                           !.stop = IF p.isFinish THEN "no" ELSE "fatal"]

(* pushBack(): assert(0) if both places are taken.                         *)
PushBack(p) ==
    CASE ~Running(p) -> p
      [] Running(p) /\ p.pre = NullToken ->
            [p EXCEPT !.pre = p.cur, !.cur = NullToken]
      [] Running(p) /\ p.pre # NullToken /\ p.prepre = NullToken ->
            [p EXCEPT !.prepre = p.pre, !.pre = p.cur, !.cur = NullToken]
      [] Running(p) /\ p.pre # NullToken /\ p.prepre # NullToken ->
            Stop(p, "pushback")

(* need(): a token of another kind is reported and pushed back; the report *)
(* of a keyword, a constant or no token is a wrong one.  need() of an      *)
(* integer constant has no right report.                                   *)
MustBe(p, k) ==
    CASE Is(p, k) -> p
      [] ~Is(p, k) /\ (Cur(p) \in Operators \/ IsName(p)) -> PushBack(Report(p))
      [] ~Is(p, k) /\ ~(Cur(p) \in Operators \/ IsName(p)) -> Misreport(p)
Need(p, k) == MustBe(NextToken(p), k)

MustBeConstant(p) ==
    CASE IsConstant(p) -> p
      [] IsBaseType(p) -> Stop(Report(p), "assert")
      [] ~IsConstant(p) /\ ~IsBaseType(p) -> Misreport(p)
NeedConstant(p) == MustBeConstant(NextToken(p))
=============================================================================
