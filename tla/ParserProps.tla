---------------------------- MODULE ParserProps ----------------------------
(***************************************************************************)
(* What StatementParser promises.  The texts are those of syntax trees, so *)
(* that the instructions a function ends up with can be compared with the  *)
(* flow of control its tree stands for.                                    *)
(***************************************************************************)
EXTENDS GrammarProps

CONSTANT Bodies     \* the bodies of functions, sequences of statements (see Text)

(* Statements: assign, name, return, break and continue; an if with braces *)
(* around its body, a while and a for with the one statement they govern,  *)
(* and a block.  A condition is a comparison or two of them.               *)
Simple == [assign |-> <<"a", "=", "a", ";">>, name |-> <<"a", ";">>,
           return |-> <<"return", "a", ";">>,
           break |-> <<"break", ";">>, continue |-> <<"continue", ";">>]
Compared == <<"a", "<", "a">>
Condition2Text == [one |-> Compared,
                   both |-> Compared \o <<"&&">> \o Compared,
                   either |-> Compared \o <<"||">> \o Compared]
Tests == [one |-> 1, both |-> 2, either |-> 2]

RECURSIVE StatementText(_), Text(_)
StatementText(s) ==
    CASE s.is \in DOMAIN Simple -> Simple[s.is]
      [] s.is = "block" -> <<"{">> \o Text(s.body) \o <<"}">>
      [] s.is = "if" -> <<"if", "(">> \o Condition2Text[s.cond] \o <<")", "{">> \o Text(s.body) \o <<"}">>
      [] s.is = "ifelse" -> <<"if", "(">> \o Condition2Text[s.cond] \o <<")">> \o Text(s.body)
                                \o <<"else">> \o Text(s.other)
      [] s.is = "while" -> <<"while", "(">> \o Condition2Text[s.cond] \o <<")">> \o Text(s.body)
      [] s.is = "for" -> <<"for", "(">> \o Simple.assign \o Condition2Text[s.cond]
                            \o <<";", "a", "=", "a", ")">> \o Text(s.body)
Text(body) == IF body = <<>> THEN <<>> ELSE StatementText(Head(body)) \o Text(Tail(body))

(* A function over a variable, as the declarations of this parser go.      *)
Unit(tokens) == <<"const", "a", ";", "const", "f", "(", ")", "{">> \o tokens \o <<"}">>

-----------------------------------------------------------------------------
(* The flow of a tree.  Its points are the comparisons, assignments and    *)
(* returns, numbered in the order of the text; End comes after the last.   *)
(* to names where a statement, a break and a continue lead.                *)
End == 0

RECURSIVE Points(_), PointsOf(_)
PointsOf(s) ==
    CASE s.is \in {"assign", "return"} -> 1
      [] s.is \in {"name", "break", "continue"} -> 0
      [] s.is = "block" -> Points(s.body)
      [] s.is \in {"if", "while"} -> Tests[s.cond] + Points(s.body)
      [] s.is = "ifelse" -> Tests[s.cond] + Points(s.body) + Points(s.other)
      [] s.is = "for" -> 2 + Tests[s.cond] + Points(s.body)
Points(body) == IF body = <<>> THEN 0 ELSE PointsOf(Head(body)) + Points(Tail(body))

RECURSIVE Entry(_, _, _)
Entry(body, n, to) ==
    IF body = <<>> THEN to.next
    ELSE LET s == Head(body)
             rest == [to EXCEPT !.next = Entry(Tail(body), n + PointsOf(s), to)]
         IN  CASE s.is \in {"assign", "return", "if", "ifelse", "while", "for"} -> n
               [] s.is = "name" -> rest.next
               [] s.is = "break" -> to.break
               [] s.is = "continue" -> to.continue
               [] s.is = "block" -> Entry(s.body, n, rest)

(* The steps of a condition whose first test is the point n.               *)
Decides(cond, n, yes, no) ==
    CASE cond = "one" -> {<<n, "yes", yes>>, <<n, "no", no>>}
      [] cond = "both" -> {<<n, "yes", n + 1>>, <<n, "no", no>>,
                           <<n + 1, "yes", yes>>, <<n + 1, "no", no>>}
      [] cond = "either" -> {<<n, "yes", yes>>, <<n, "no", n + 1>>,
                             <<n + 1, "yes", yes>>, <<n + 1, "no", no>>}

RECURSIVE Flow(_, _, _)
FlowOf(s, n, to) ==
    CASE s.is = "assign" -> {<<n, "on", to.next>>}
      [] s.is = "return" -> {<<n, "on", End>>}
      [] s.is \in {"name", "break", "continue"} -> {}
      [] s.is = "block" -> Flow(s.body, n, to)
      [] s.is = "if" ->
            LET body == n + Tests[s.cond]
            IN  Decides(s.cond, n, Entry(s.body, body, to), to.next) \cup Flow(s.body, body, to)
      [] s.is = "ifelse" ->
            LET body == n + Tests[s.cond]
                other == body + Points(s.body)
            IN  Decides(s.cond, n, Entry(s.body, body, to), Entry(s.other, other, to))
                    \cup Flow(s.body, body, to) \cup Flow(s.other, other, to)
      [] s.is = "while" ->
            LET body == n + Tests[s.cond]
                within == [next |-> n, break |-> to.next, continue |-> n]
            IN  Decides(s.cond, n, Entry(s.body, body, within), to.next)
                    \cup Flow(s.body, body, within)
      [] s.is = "for" ->
            LET step == n + 1 + Tests[s.cond]
                within == [next |-> step, break |-> to.next, continue |-> step]
            IN  {<<n, "on", n + 1>>, <<step, "on", n + 1>>}
                    \cup Decides(s.cond, n + 1, Entry(s.body, step + 1, within), to.next)
                    \cup Flow(s.body, step + 1, within)
Flow(body, n, to) ==
    IF body = <<>> THEN {}
    ELSE LET s == Head(body)
             after == n + PointsOf(s)
         IN  FlowOf(s, n, [to EXCEPT !.next = Entry(Tail(body), after, to)])
                 \cup Flow(Tail(body), after, to)

Functions == {[body |-> b, text |-> Unit(Text(b))] : b \in Bodies}
WellFormedTexts == {f.text : f \in Functions}
FlowMeant(b) == Flow(b, 1, [next |-> End, break |-> End, continue |-> End])

-----------------------------------------------------------------------------
(* The flow of the instructions written.  Lost is where a jump leads that  *)
(* no label says, Between two labels of one name.                          *)
Lost == -1
Ambiguous == -2

IsPoint(i) == code[i].op \in {"test", "code", "ret"}
PointAt(i) == Cardinality({j \in 1 .. i : IsPoint(j)})
Written == parser.printed[1]
Places(label) ==
    {i \in Written : label # Unset /\ code[i].op = "label" /\ code[i].dest = label}

RECURSIVE Lands(_, _), Follows(_, _)
Follows(there, steps) ==
    CASE there = {} -> Lost
      [] Cardinality(there) = 1 -> Lands(CHOOSE j \in there : TRUE, steps)
      [] Cardinality(there) > 1 -> Ambiguous
Lands(i, steps) ==
    CASE i = Null -> End
      [] i # Null /\ steps = 0 -> Lost
      [] i # Null /\ steps > 0 /\ IsPoint(i) -> PointAt(i)
      [] i # Null /\ steps > 0 /\ code[i].op \in Jumps ->
            Follows(Places(code[i].dest), steps - 1)
      [] OTHER -> Lands(code[i].next, steps - 1)
Reaches(i) == Lands(i, Len(code))

(* A test goes to its label if it holds; else the jump after it is taken.  *)
Steps(i) ==
    CASE code[i].op = "test" -> {<<PointAt(i), "yes", Follows(Places(code[i].dest), Len(code))>>,
                                 <<PointAt(i), "no", Reaches(code[i].next)>>}
      [] code[i].op = "code" -> {<<PointAt(i), "on", Reaches(code[i].next)>>}
      [] code[i].op = "ret" -> {<<PointAt(i), "on", End>>}
FlowWritten == UNION {Steps(i) : i \in {j \in Written : IsPoint(j)}}

FunctionEnded == Running(parser) /\ parser.printed # <<>>
WellFormed == parser.text \in WellFormedTexts

-----------------------------------------------------------------------------
(* A function as the parser takes it is read to its end without a null     *)
(* pointer followed, an assert or a fatal error, and its tokens are used   *)
(* up: the brace that ends the function is the last of the text.  So are   *)
(* the expressions and declarations of GrammarProps.                       *)
Accepted ==
    WellFormed \/ parser.text \in MeantTexts \cup TypeTexts =>
                  /\ parser.stop = "no"
                  /\ FunctionEnded => parser.lexed = Len(parser.text)

(* What the instructions of a function do is what its text means: between  *)
(* its comparisons, assignments and returns control goes the same ways.    *)
FlowCorrect ==
    FunctionEnded => \A f \in Functions : f.text = parser.text => FlowWritten = FlowMeant(f.body)

(* A jump whose destination is open is in a list that a waiting function   *)
(* or the last block holds, so that somebody can still fill it in, and at  *)
(* the end of the function none is open.                                   *)
Owed == {i \in DOMAIN code : \E l \in AllHeld : l > 0 /\ \E k \in DOMAIN parser.lists[l] : parser.lists[l][k] = i}
InHand == UNION {{calls[d].skip, calls[d].before} : d \in {e \in DOMAIN calls : calls[e].kind = "else"}}
NoJumpLost ==
    WellFormed =>
        \A i \in DOMAIN code :
            code[i].op \in Jumps /\ code[i].dest = Unset => calls # <<>> /\ i \in Owed \cup InHand

(* backPatch() overwrites what it finds, and lists are shared between the  *)
(* trees and blocks that were merged: what a condition or a statement has  *)
(* given its jumps when it ends, no statement that ends later changes.     *)
(* Before it ends a for itself overwrites: the jumps of its condition are  *)
(* patched at stmt.cc:353, again at 358 and with the label that stays at   *)
(* 361, all of which is one step here; it hands on the list (354), and     *)
(* what is claimed is that nobody around it patches that again.            *)
EndsAreFinal ==
    [][WellFormed => \A i \in DOMAIN code :
           code[i].dest # Unset => parser'.code[i].dest = code[i].dest]_vars

(* There are never more instructions than tokens read: no loop of the      *)
(* parser goes round without taking one.                                   *)
CodeBounded == WellFormed => Newest(parser) <= parser.lexed

-----------------------------------------------------------------------------
(* The comment before c_parser_iter_while() (stmt.cc:393) shows a loop with*)
(* a body in braces and a statement after it, and the instructions for     *)
(* both.                                                                   *)
DocumentedWhile ==
    <<[is |-> "while", cond |-> "one", body |-> <<[is |-> "block", body |-> <<[is |-> "assign"]>>]>>],
      [is |-> "assign"]>>
WhileAsDocumented ==
    FunctionEnded /\ parser.text = Unit(Text(DocumentedWhile)) =>
        FlowWritten = {<<1, "yes", 2>>, <<1, "no", 3>>, <<2, "on", 1>>, <<3, "on", End>>}

(* A comment has that EOT, for which the loop over the file waits,         *)
(* "indicates the end of input source file" (lexer.h:49): every turn of the*)
(* loop takes a token, and there are no more turns than tokens.            *)
TurnsEnd == turns <= Len(parser.text)
=============================================================================
