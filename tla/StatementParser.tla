-------------------------- MODULE StatementParser --------------------------
(***************************************************************************)
(* The parser from begin_parse() down to the statements                    *)
(* (lib/parser/stmt.cc, parser.cc, decl.cc): the translation unit,         *)
(* function definitions, blocks and statements, over the tokens of a text, *)
(* with the instructions they write and the destinations they fill in.     *)
(*                                                                         *)
(* The functions that wait for a statement or for an expression have       *)
(* frames; see CallStack.                                                  *)
(***************************************************************************)
EXTENDS Declarator

(* A Block: its lists of jumps.  NoBlock is a null pointer.                *)
EmptyBlock == [next |-> Null, break |-> Null, continue |-> Null]
NoBlock == [next |-> Unset, break |-> Unset, continue |-> Unset]

Init ==
    /\ parser \in {[text |-> t, lexed |-> 1, cur |-> 1, pre |-> NullToken, prepre |-> NullToken,
                    isFinish |-> FALSE, errors |-> 0, stop |-> "no",
                    scopes |-> <<NewScope>>, verdict |-> NoException, trees |-> <<>>,
                    code |-> <<>>, tail |-> Null, labels |-> 0, lists |-> <<>>,
                    printed |-> <<>>] : t \in Programs}
    /\ calls = <<>>
    /\ mode = "unit"
    /\ value = Nothing
    /\ turns = 0

(* A statement is read next, for the frames.                               *)
Begins(p, frames) == Leaves(p, frames, "statement", Nothing)

(* What reads a field of the block the last statement returned.            *)
Read(p, block) == IF block = NoBlock THEN Stop(p, "undefined") ELSE p

-----------------------------------------------------------------------------
(* c_parser_compound_statement(): an environment, and two empty            *)
(* instructions, the second one in nextList.                               *)
OpenBlock(p, under) ==
    LET q == EmitListed(Emit(EnterEnv(p), "pad"), "pad")
        ret == [EmptyBlock EXCEPT !.next = NewestList(q)]
    IN  Leaves(NextToken(q), Append(under, [kind |-> "block", ret |-> ret]), "declarations", Nothing)

(* c_parser_translation_unit(): what starts no declaration is passed over. *)
(* next() never returns EOT, so nothing but the bound ends the loop.       *)
(* A brace replaces the global environment (StrayBrace of Env): where that *)
(* leads is beyond this module.                                            *)
Turn == At("unit") /\ turns < MaxTurns

UnitDeclaration ==
    /\ Turn
    /\ Is(parser, "const") \/ IsBaseType(parser)
    /\ Declaration

UnitOther ==
    /\ Turn
    /\ ~ (Is(parser, "const") \/ IsBaseType(parser))
    /\ Stays(NextToken(IF Is(parser, "{") THEN Stop(parser, "beyond") ELSE parser))

(* c_parser_funtion_definition() around the block: the head of its code,   *)
(* and then print() and need('}').                                         *)
FunctionDefinition ==
    /\ DeclaredTo("{")
    /\ OpenBlock(MakeHead(AtBrace(NextToken(Verdict(value)), value)),
                 Append(Popped, [kind |-> "function", begin |-> Newest(parser) + 1]))

EndFunction ==
    /\ Resumes("function")
    /\ LET p == [parser EXCEPT !.printed = Append(@, Printed(parser.code, Top.begin))]
       IN  EndsDeclaration(Need(ExitEnv(p), "}"))

BlockDeclaration ==
    /\ At("declarations") /\ IsBaseType(parser)
    /\ Declaration

BlockStatements ==
    /\ At("declarations") /\ ~IsBaseType(parser)
    /\ Leaves(parser, calls, "body", Nothing)

BlockStatement ==
    /\ At("body") /\ ~Is(parser, "}")
    /\ Newest(parser) <= MaxInstructions
    /\ Begins(parser, calls)

(* The lists of a statement go into those of the block.  The breaks of a   *)
(* second statement are merged into breakList, and nextList then is that   *)
(* list as well.                                                           *)
TakeBreaks(p, ret, block) ==
    IF block.break = Null THEN [p |-> p, ret |-> ret]
    ELSE IF ret.break = Null THEN [p |-> p, ret |-> [ret EXCEPT !.break = block.break]]
    ELSE [p |-> Merge(p, ret.break, block.break), ret |-> [ret EXCEPT !.next = ret.break]]
TakeContinues(p, ret, block) ==
    IF block.continue = Null THEN [p |-> p, ret |-> ret]
    ELSE IF ret.continue = Null
    THEN [p |-> p, ret |-> [ret EXCEPT !.continue = block.continue]]
    ELSE [p |-> Merge(p, ret.continue, block.continue), ret |-> ret]
TakeLists(p, ret, block) ==
    LET next == IF block.next = Null THEN p ELSE Merge(p, ret.next, block.next)
        breaks == TakeBreaks(next, ret, block)
    IN  IF block = NoBlock THEN [p |-> p, ret |-> ret]
        ELSE TakeContinues(breaks.p, breaks.ret, block)

Takes(p) ==
    \E taken \in {TakeLists(p, Top.ret, value)} :
        Leaves(taken.p, Append(Popped, [Top EXCEPT !.ret = taken.ret]), "semicolons", Nothing)

(* Mutant: the token after the statement is not read.                      *)
BlockTakesNoToken == Resumes("block") /\ Takes(parser)
BlockTakes == Resumes("block") /\ Takes(NextToken(parser))

(* while (cur == OP_SEMICOLON) next(), also in do { next(); } while.       *)
PassSemicolon ==
    /\ At("semicolons") /\ Is(parser, ";")
    /\ Stays(NextToken(parser))
PastSemicolons(kind) == At("semicolons") /\ ~Is(parser, ";") /\ Top.kind = kind

BlockGoesOn ==
    /\ PastSemicolons("block")
    /\ Leaves(parser, calls, "body", Nothing)

(* Mutant: the brace is given back twice.                                  *)
CloseBlockTwice ==
    /\ At("body") /\ Is(parser, "}")
    /\ Returns(PushBack(PushBack(ExitEnv(parser))), Top.ret)

(* Mutant: the environment of the block is not left.                       *)
CloseBlockWithin ==
    /\ At("body") /\ Is(parser, "}")
    /\ Returns(PushBack(parser), Top.ret)

CloseBlock ==
    /\ At("body") /\ Is(parser, "}")
    /\ Returns(PushBack(ExitEnv(parser)), Top.ret)

-----------------------------------------------------------------------------
(* c_parser_statement(): by the current token.  After a semicolon the code *)
(* goes back to the label stmt_list, behind the test for a brace: one that *)
(* follows a semicolon opens no block there.                               *)
AtStatement == Running(parser) /\ mode \in {"statement", "stmt_list"}

InnerBlock ==
    /\ At("statement") /\ Is(parser, "{")
    /\ OpenBlock(parser, calls)

EmptyStatement ==
    /\ AtStatement /\ Is(parser, ";")
    /\ Leaves(NextToken(parser), calls, "stmt_list", Nothing)

NoStatement ==
    /\ AtStatement /\ Cur(parser) \in {"}", "case"}
    /\ Gives(parser, NoBlock)

(* What is not implemented: a do is not read at all, a switch is an        *)
(* assert(0).                                                              *)
DoStatement ==
    /\ AtStatement /\ Is(parser, "do")
    /\ Gives(parser, EmptyBlock)

SwitchStatement ==
    /\ AtStatement /\ Is(parser, "switch")
    /\ Stays(Stop(parser, "assert"))

(* A declaration after statements is a wrong report.                       *)
LateDeclaration ==
    /\ AtStatement /\ IsBaseType(parser)
    /\ Stays(Misreport(parser))

(* The Expr an expression returns is its block; the trees of expressions   *)
(* are kept in a history, for the properties.                              *)
ExpressionStatement ==
    /\ AtStatement /\ (Is(parser, "{") => mode = "stmt_list")
    /\ Cur(parser) \notin {";", "}", "if", "while", "for", "do", "switch", "case",
                           "break", "continue", "return"}
    /\ ~IsBaseType(parser)
    /\ Reads(IF Is(parser, "else") THEN NextToken(Report(parser)) ELSE parser,
             calls \o <<[kind |-> "expression"]>> \o Expressions)

AfterExpression ==
    /\ Resumes("expression")
    /\ Leaves(NextToken(PushBack([parser EXCEPT !.trees = Append(@, value)])), calls, "semicolons", Nothing)

EndExpression ==
    /\ PastSemicolons("expression")
    /\ Returns(PushBack(parser), [EmptyBlock EXCEPT !.next = NewestList(parser)])

(* c_parser_jump_statement(): the jump is left open in its list; a label   *)
(* nobody names goes before it.  return writes no value and no end of line.*)
Jump(op) ==
    LET q == EmitListed(Emit(parser, "label"), op)
    IN  MakeList(q, Newest(q) - 1)

BreakStatement ==
    /\ AtStatement /\ Is(parser, "break")
    /\ LET p == Jump("break")
       IN  Gives(Need(p, ";"), [EmptyBlock EXCEPT !.break = NewestList(p) - 1, !.next = NewestList(p)])

ContinueStatement ==
    /\ AtStatement /\ Is(parser, "continue")
    /\ LET p == Jump("continue")
       IN  Gives(Need(p, ";"), [EmptyBlock EXCEPT !.continue = NewestList(p) - 1, !.next = NewestList(p)])

ReturnStatement ==
    /\ AtStatement /\ Is(parser, "return")
    /\ Reads(parser, calls \o <<[kind |-> "return"]>> \o Expressions)

EndReturn ==
    /\ Resumes("return")
    /\ Returns(Need(Emit(parser, "ret"), ";"), EmptyBlock)

-----------------------------------------------------------------------------
(* The condition in the brackets of a statement.  Its lists are only those *)
(* of a comparison or of && and ||; an if makes a comparison of a name.    *)
Open(t) == [true |-> t.true, false |-> t.false]
OpenBracket(p, frame) == Reads(NextToken(Need(p, "(")), calls \o <<frame>> \o Expressions)
CloseCondition(p) == NextToken(Need(PushBack(p), ")"))

Decided(e) ==
    IF e.t.node = "id"
    THEN [CompareTree(e.p, "eq", e.t, CONSTtree("0")) EXCEPT !.p = EmitListed(@, "pad")]
    ELSE [e EXCEPT !.p = Needed(@, e.t)]

IfStatement ==
    /\ AtStatement /\ Is(parser, "if")
    /\ OpenBracket(parser, [kind |-> "if condition"])

IfBranch ==
    /\ Resumes("if condition")
    /\ \E e \in {Decided([p |-> parser, t |-> value])} :
          LET p == FreshLabel(CloseCondition(e.p))
          IN  Begins(p, Append(Popped,
              [kind |-> "if", cond |-> Open(e.t), at |-> p.tail, label |-> p.labels, ret |-> EmptyBlock]))

(* c_parser_statement() after the if: the label of its end, where the      *)
(* instructions of its nextList go.                                        *)
EndOfSelect(p, block) ==
    LET q == Make(FreshLabel(p), "label", p.labels + 1)
        r == PatchAll(Append1(q, Newest(q)), block.next, q.labels)
    IN  Returns(PushBack(r), block)

(* The branch was read: its label goes to where the code was before it.    *)
AfterBranch ==
    /\ Resumes("if")
    /\ LET q == Make(parser, "label", Top.label)
           r == PatchAll(InsertAfter(q, Top.at, Newest(q)), Top.cond.true, Top.label)
       IN  Leaves(NextToken(Read(r, value)), Append(Popped, [Top EXCEPT !.ret = value]), "semicolons", Nothing)

EndIf ==
    /\ PastSemicolons("if") /\ ~Is(parser, "else")
    /\ LET p == NextToken(parser)
           q == IF Top.ret.next = Null THEN p ELSE Merge(p, Top.cond.false, Top.ret.next)
       IN  EndOfSelect(q, [Top.ret EXCEPT !.next = Top.cond.false])

ElseBranch ==
    /\ PastSemicolons("if") /\ Is(parser, "else")
    /\ LET p == NextToken(FreshLabel(FreshLabel(parser)))
           q == Make(Make(p, "skip", Unset), "skip", Unset)
       IN  Begins(q, Append(Popped,
              [kind |-> "else", cond |-> Top.cond, ret |-> Top.ret, label |-> parser.labels + 1,
               before |-> Newest(q) - 1, skip |-> Newest(q), at |-> q.tail]))

(* The jump over the else part and the label of that part go before the    *)
(* last instruction of the first branch.  The list of the else part gets   *)
(* that jump and an instruction that is nowhere, and is merged into        *)
(* itself.                                                                 *)
Joined(p, ret, block) ==
    LET breaks == IF block.break = Null THEN [p |-> p, l |-> ret.break]
                  ELSE IF ret.break = Null THEN [p |-> p, l |-> block.break]
                  ELSE [p |-> Merge(p, ret.break, block.break), l |-> ret.break]
        continues == IF block.continue = Null THEN [p |-> breaks.p, l |-> ret.continue]
                     ELSE IF ret.continue = Null THEN [p |-> breaks.p, l |-> block.continue]
                     ELSE [p |-> Merge(breaks.p, ret.continue, block.continue), l |-> ret.continue]
    IN  [p |-> continues.p,
         ret |-> [next |-> block.next, break |-> breaks.l, continue |-> continues.l]]

EndElse ==
    /\ Resumes("else")
    /\ LET f == Top
           q == Make(parser, "label", f.label)
           r == InsertBefore(InsertBefore(q, f.at, f.skip), f.at, Newest(q))
           s == MakeList(MakeList(r, f.skip), f.before)
           t == Merge(Read(s, value), value.next, NewestList(s) - 1)
           u == MergeOne(PatchAll(t, f.cond.false, f.label), value.next, f.before)
           j == Joined(Merge(u, value.next, value.next), f.ret, value)
       IN  EndOfSelect(j.p, j.ret)

-----------------------------------------------------------------------------
(* c_parser_iter_while(): a label before the condition and one before the  *)
(* body.                                                                   *)
Labelled(p) ==
    LET q == Emit(FreshLabel(p), "label")
    IN  PatchOne(q, Newest(q), q.labels)

WhileStatement ==
    /\ AtStatement /\ Is(parser, "while")
    /\ OpenBracket(Labelled(parser), [kind |-> "while condition", head |-> parser.labels + 1])

WhileBody ==
    /\ Resumes("while condition")
    /\ LET p == Labelled(CloseCondition(parser))
       IN  Begins(p, Append(Popped,
              [kind |-> "while", cond |-> Open(value), head |-> Top.head, body |-> p.labels]))

EndWhile ==
    /\ Resumes("while")
    /\ LET f == Top
           b == Emit(parser, "back")
           back == PatchOne(b, Newest(b), f.head)
           e == Emit(FreshLabel(back), "label")
           end == Read(PatchOne(e, Newest(e), e.labels), value)
           breaks == IF value.break = Null THEN end ELSE PatchAll(end, value.break, end.labels)
           continues == IF value.continue = Null THEN breaks
                        ELSE PatchAll(breaks, value.continue, f.head)
       IN  Returns(PatchAll(PatchAll(continues, f.cond.true, f.body), f.cond.false, end.labels), EmptyBlock)

(* c_parser_iter_for(): the code of the third expression is written in a   *)
(* chain of its own, with the jump back after it, and linked in after the  *)
(* body.                                                                   *)
ForStatement ==
    /\ AtStatement /\ Is(parser, "for")
    /\ OpenBracket(EmitListed(parser, "pad"), [kind |-> "for"])

Semicolon(p) == NextToken(Need(PushBack(p), ";"))

ForCondition ==
    /\ Resumes("for")
    /\ LET p == EmitListed(FreshLabel(Semicolon(parser)), "label")
           frame == [kind |-> "for condition", starts |-> NewestList(p), head |-> p.labels]
       IN  Reads(p, Append(Popped, frame) \o Expressions)

ForStep ==
    /\ Resumes("for condition")
    /\ LET p == EmitListed(FreshLabel(FreshLabel(Semicolon(parser))), "label")
           frame == [kind |-> "for step", starts |-> Top.starts, head |-> Top.head,
                     cond |-> Open(value), next |-> NewestList(parser),
                     enters |-> NewestList(p), body |-> p.labels - 1, at |-> p.tail]
       IN  Reads(MakeHead(p), Append(Popped, frame) \o Expressions)

ForBody ==
    /\ Resumes("for step")
    /\ LET back == PatchAll(EmitListed(Needed(CloseCondition(parser), value), "back"),
                            NewestList(parser) + 1, Top.head)
           start == StartOf(back, value.begin)
           p == IF Running(start.p) THEN [start.p EXCEPT !.tail = Top.at] ELSE start.p
       IN  Begins(p, Append(Popped,
              [kind |-> "for body", starts |-> Top.starts, head |-> Top.head, cond |-> Top.cond,
               next |-> Top.next, enters |-> Top.enters, body |-> Top.body, at |-> Top.at,
               step |-> start.first]))

EndFor ==
    /\ Resumes("for body")
    /\ LET f == Top
           q == FreshLabel(EmitListed(parser, "label"))
           linked == ToEnd(LinkChain(q, f.step, f.at))
           r == EmitListed(FreshLabel(linked), "label")
           merged == Merge(PatchAll(r, f.cond.true, f.head), f.next, f.cond.true)
           ends == PatchAll(PatchAll(merged, NewestList(r), r.labels), f.enters, f.body)
           backs == PatchAll(PatchAll(ends, f.next, f.head), NewestList(q), q.labels)
           exits == PatchAll(PatchAll(backs, f.cond.false, r.labels), f.cond.true, f.body)
       IN  Returns(PatchAll(exits, f.starts, f.head), [EmptyBlock EXCEPT !.next = f.next])

Statements ==
    \/ UnitDeclaration \/ UnitOther \/ FunctionDefinition \/ EndFunction
    \/ BlockDeclaration \/ BlockStatements \/ BlockStatement \/ BlockTakes \/ PassSemicolon
    \/ BlockGoesOn \/ CloseBlock
    \/ InnerBlock \/ EmptyStatement \/ NoStatement \/ DoStatement \/ SwitchStatement \/ LateDeclaration
    \/ ExpressionStatement \/ AfterExpression \/ EndExpression
    \/ BreakStatement \/ ContinueStatement \/ ReturnStatement \/ EndReturn
    \/ IfStatement \/ IfBranch \/ AfterBranch \/ EndIf \/ ElseBranch \/ EndElse
    \/ WhileStatement \/ WhileBody \/ EndWhile
    \/ ForStatement \/ ForCondition \/ ForStep \/ ForBody \/ EndFor

Next == Expression \/ Declarators \/ Statements

Spec == Init /\ [][Next]_vars
=============================================================================
