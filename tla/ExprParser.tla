----------------------------- MODULE ExprParser -----------------------------
(***************************************************************************)
(* c_parser_expressions() and what it calls (lib/parser/expr.cc), with the *)
(* trees of lib/inter/tree.cc: recursive descent over the tokens of the    *)
(* parser, which also writes the instructions.                             *)
(*                                                                         *)
(* A tree is its node, a name or a constant, the trees it is made of, its  *)
(* type, the instruction it begins with and the two lists of a condition;  *)
(* a tree that never got those holds Unset ones, and NoTree is the null    *)
(* pointer.  Results are a pair: the parser p and the tree t.              *)
(*                                                                         *)
(* The operators are one of each behaviour: < stands for <, >, <= and >=,  *)
(* << for the shifts, + and * for the arithmetic of their levels, and ++   *)
(* for --, !, ~ and sizeof.  The build files do not define GD_OUTPUT:      *)
(* arithmetic writes no instruction.  The words in an instruction are left *)
(* out, and with them that its operands are printed through a pointer      *)
(* nobody set (treeString), which is taken to lead to some text.           *)
(***************************************************************************)
EXTENDS CallStack

NoTree == [node |-> "none", name |-> "none", args |-> <<>>, type |-> NoType,
           begin |-> Unset, true |-> Unset, false |-> Unset]
IsNull(t) == t.node = "none"
Leaf(node, name, ty) == [NoTree EXCEPT !.node = node, !.name = name, !.type = ty]
Node(node, args, ty) == [NoTree EXCEPT !.node = node, !.args = args, !.type = ty]
CONSTtree(name) == Leaf("const", name, IntType)

(* The node of a tree for an operator: & makes that of a sum, and != that  *)
(* of a division, which is no comparison.                                  *)
NodeOf == [op \in {"|", "^", "&", "==", "!=", "<", "<<", "+", "*"} |->
    CASE op = "|" -> "bor" [] op = "^" -> "xor" [] op = "&" -> "add"
      [] op = "==" -> "eq" [] op = "!=" -> "div" [] op = "<" -> "less"
      [] op = "<<" -> "shl" [] op = "+" -> "add" [] op = "*" -> "mul"]
IsCmpTree(t) == t.node \in {"eq", "less"}
IsLogTree(t) == t.node \in {"land", "lor"}

(* op2l, the level of an operator; of what is not in the table, 0.         *)
Levels == <<{","}, {"=", "+="}, {"?"}, {"||"}, {"&&"}, {"|"}, {"^"}, {"&"}, {"==", "!="},
            {"<"}, {"<<"}, {"+"}, {"*"}, {"++"}>>
LevelOf == [op \in UNION {Levels[l] : l \in DOMAIN Levels} |-> CHOOSE l \in DOMAIN Levels : op \in Levels[l]]
Level(p) == IF Cur(p) \in DOMAIN LevelOf THEN LevelOf[Cur(p)] ELSE 0

-----------------------------------------------------------------------------
(* What reads the tree, which must be there.                               *)
Needed(p, t) == IF IsNull(t) THEN Stop(p, "undefined") ELSE p

(* binaryOp(): the type of two sides is int; a left one that is constant   *)
(* is followed down to its end and beyond.                                 *)
BinaryOp(p, left, right) ==
    IF left.type.op = "const" THEN Stop(p, "undefined") ELSE Needed(Needed(p, left), right)

Arithmetic(p, node, left, right) ==
    [p |-> BinaryOp(p, left, right), t |-> Node(node, <<left, right>>, IntType)]

(* Mutant: both jumps in one list.                                         *)
CompareTreeOneList(p, node, left, right) ==
    [p |-> MergeOne(EmitListed(Emit(BinaryOp(p, left, right), "test"), "goto"),
                    NewestList(p) + 1, Newest(p) + 1),
     t |-> [Node(node, <<left, right>>, IntType) EXCEPT !.begin = Newest(p) + 1,
                !.true = NewestList(p) + 1, !.false = NewestList(p) + 1]]

(* LTtree() and the other comparisons: the jump if it holds, the jump if   *)
(* it does not, and a list of each.                                        *)
CompareTree(p, node, left, right) ==
    [p |-> EmitListed(EmitListed(BinaryOp(p, left, right), "test"), "goto"),
     t |-> [Node(node, <<left, right>>, IntType) EXCEPT !.begin = Newest(p) + 1,
                !.true = NewestList(p) + 1, !.false = NewestList(p) + 2]]

(* A side of && or || that is no condition is compared with 0.             *)
Condition(p, t) ==
    IF IsCmpTree(t) \/ IsLogTree(t)
    THEN [p |-> p, t |-> t] ELSE CompareTree(p, "eq", t, CONSTtree("0"))

(* The label between the sides, before the code of the right one, and      *)
(* merged into the list of the left one that leads there.                  *)
Between(p, right, list) ==
    LET label == MakeList(Make(FreshLabel(p), "label", Unset), Newest(p) + 1)
        placed == InsertBefore(label, right.begin, Newest(p) + 1)
    IN  PatchAll(Merge(placed, list, NewestList(p) + 1), list, p.labels + 1)

(* Mutant: the label between the sides goes to those that are false.       *)
ANDtreeLikeOR(l, r) ==
    [p |-> Merge(Between(r.p, r.t, l.t.false), l.t.true, r.t.true),
     t |-> [Node("land", <<l.t, r.t>>, IntType) EXCEPT !.true = l.t.true, !.false = r.t.false]]

(* ANDtree() and ORtree(), with both sides conditions.                     *)
ANDtree(l, r) ==
    [p |-> Merge(Between(r.p, r.t, l.t.true), l.t.false, r.t.false),
     t |-> [Node("land", <<l.t, r.t>>, IntType) EXCEPT !.true = r.t.true, !.false = l.t.false]]
ORtree(l, r) ==
    [p |-> Merge(Between(r.p, r.t, l.t.false), l.t.true, r.t.true),
     t |-> [Node("lor", <<l.t, r.t>>, IntType) EXCEPT !.begin = l.t.begin,
                !.true = l.t.true, !.false = r.t.false]]

LogicTree(op, l, right) ==
    LET Of(r) == IF op = "&&" THEN ANDtree(l, r) ELSE ORtree(l, r)
    IN  Of(Condition(l.p, right))

(* An array or a function on the left: a pointer is thrown, and what the   *)
(* parser catches is no pointer.                                           *)
ASGNtree(right, left) ==
    LET thrown == IF left.type.op \in {"array", "function"} THEN Stop(right.p, "thrown") ELSE right.p
    IN  [p |-> Emit(Needed(Needed(thrown, left), right.t), "code"),
         t |-> [Node("asgn", <<left, right.t>>, left.type) EXCEPT !.begin = Newest(right.p) + 1]]

(* ARRAYtree(): what the subscripted tree plus a multiple of the size of   *)
(* its element leads to.                                                   *)
ARRAYtree(array, sub) ==
    LET offset == Arithmetic(Needed(sub.p, array), "mul", CONSTtree("size"), sub.t)
        sum == Arithmetic(offset.p, "add", array, offset.t)
    IN  IF array.type.op \in {"null", "int"} THEN [p |-> Stop(sub.p, "undefined"), t |-> NoTree]
        ELSE [p |-> sum.p, t |-> Node("indr", <<sum.t>>, array.type.base)]

-----------------------------------------------------------------------------
(* What a call pushes: all of these begin with the call of the next one,   *)
(* down to an operand.  A binary frame is c_parser_expressions_3() with    *)
(* the levels it may still take.                                           *)
BinaryFrame(k) == [kind |-> "binary", least |-> k, most |-> Len(Levels)]
Conditional == <<[kind |-> "conditional"], BinaryFrame(4)>>
Assignment == <<[kind |-> "assignment"]>> \o Conditional
Expressions == <<[kind |-> "expressions"]>> \o Assignment

(* The step reads an operand next, for the frames it pushes.               *)
Reads(p, frames) == Leaves(p, frames, "operand", Nothing)

(* IDtree(): an identifier that was not declared is reported.              *)
IDtree(p) ==
    LET types == TypesOf(p, Cur(p), "ids")
        functions == TypesOf(p, Cur(p), "funcs")
    IN  CASE types # <<>> -> Leaf("id", Cur(p), types[Len(types)])
          [] types = <<>> /\ functions # <<>> -> Leaf("id", Cur(p), functions[Len(functions)])
          [] OTHER -> NoTree
Identifier(p, t) == [p |-> NextToken(IF IsNull(t) THEN Misreport(p) ELSE p), t |-> t]

(* c_parser_primary_expr(): a keyword in the place of an operand is passed *)
(* over.  In brackets a comparison is an assert(0).                        *)
Primary(p) ==
    CASE IsName(p) -> Identifier(p, IDtree(p))
      [] IsConstant(p) -> [p |-> NextToken(p), t |-> CONSTtree(Cur(p))]
      [] ~IsName(p) /\ ~IsConstant(p) -> [p |-> NextToken(p), t |-> NoTree]

PrimaryOperand ==
    /\ At("operand") /\ Cur(parser) \notin Operators
    /\ \E r \in {Primary(parser)} : Leaves(r.p, calls, "postfix", r.t)

Bracket ==
    /\ At("operand") /\ Is(parser, "(")
    /\ Reads(NextToken(parser), calls \o <<[kind |-> "bracket"]>> \o Expressions)

EndBracket ==
    /\ Resumes("bracket")
    /\ LET q == Needed(parser, value)
           checked == IF IsCmpTree(value) THEN Stop(q, "assert") ELSE q
       IN  Leaves(NextToken(Need(PushBack(checked), ")")), Popped, "postfix", value)

(* c_parser_unary_expr(): of these three the operand comes next.           *)
UnaryOperator ==
    /\ At("operand") /\ Cur(parser) \in {"*", "&", "+"}
    /\ Reads(NextToken(parser), Append(calls, [kind |-> "unary", op |-> Cur(parser)]))

Missing(r) == IF IsNull(r.t) THEN Stop(r.p, "assert") ELSE r.p
Indirect(r) ==
    CASE r.t.type.op \in {"array", "pointer"} -> [p |-> r.p, t |-> Node("indr", <<r.t>>, r.t.type.base)]
      [] r.t.type.op = "function" -> r
      [] OTHER -> [r EXCEPT !.p = Stop(@, "assert")]
Address(r) ==
    [p |-> IF r.t.node = "const" THEN Stop(r.p, "assert") ELSE Missing(r),
     t |-> Node("lea", <<r.t>>, TypeOver("pointer", r.t.type))]
Signed(r) ==
    Arithmetic(IF r.t.type.op = "pointer" THEN Stop(r.p, "assert") ELSE r.p, "add", CONSTtree("0"), r.t)
Applied(op, r) ==
    CASE op = "*" -> Indirect(r) [] op = "&" -> Address(r) [] op = "+" -> Signed(r)

EndUnary ==
    /\ Resumes("unary")
    /\ \E r \in {Applied(Top.op, [p |-> parser, t |-> value])} : Returns(r.p, r.t)

(* The others need a variable after them, which they leave there, and make *)
(* no tree; a bracket between is as good as no variable.  What is no unary *)
(* operator stays where it is.                                             *)
Sized(p) ==
    LET q == IF Is(p, "(") THEN NextToken(p) ELSE p
    IN  CASE IsName(q) /\ TypesOf(q, Cur(q), "ids") = <<>> -> Stop(q, "assert")
          [] IsName(q) /\ TypesOf(q, Cur(q), "ids") # <<>> /\ ~Is(p, "(") -> q
          [] OTHER -> Stop(IF Is(p, "(") THEN Need(q, ")") ELSE q, "undefined")

NoOperand ==
    /\ At("operand") /\ Cur(parser) \in Operators \ {"(", "*", "&", "+"}
    /\ Gives(IF Is(parser, "++") THEN Sized(NextToken(parser)) ELSE parser, NoTree)

-----------------------------------------------------------------------------
(* c_parser_postfix_expr(): a ++ leaves nothing; a call ends it, and its   *)
(* tree is that of the function.                                           *)
Increment ==
    /\ At("postfix") /\ Is(parser, "++")
    /\ Stays(NextToken(parser))

Index ==
    /\ At("postfix") /\ Is(parser, "[")
    /\ Reads(NextToken(parser), calls \o <<[kind |-> "index", array |-> value]>> \o Assignment)

EndIndex ==
    /\ Resumes("index")
    /\ \E r \in {ARRAYtree(Top.array, [p |-> parser, t |-> value])} :
          Leaves(NextToken(Need(PushBack(r.p), "]")), Popped, "postfix", r.t)

EndPostfix ==
    /\ At("postfix") /\ Cur(parser) \notin {"++", "[", "("}
    /\ Gives(parser, value)

(* c_parser_expr_func_call(): an argument for every parameter, of which    *)
(* () and (void) have one; what follows void is not to be had.             *)
Pass(p, under, function, list) ==
    IF list = <<>> THEN Leaves(Emit(p, "call"), under, "back", function)
    ELSE Reads(p, under \o <<[kind |-> "argument", function |-> function, list |-> list]>> \o Conditional)

FunctionCall ==
    /\ At("postfix") /\ Is(parser, "(")
    /\ IF value.type.op # "function" THEN Stays(Stop(Needed(parser, value), "assert"))
       ELSE Pass(NextToken(parser), calls, value, value.type.list)

EndArgument ==
    /\ Resumes("argument")
    /\ \E q \in {Emit(Needed(parser, value), "para")} :
          CASE Is(q, ")") -> Returns(Emit(NextToken(q), "call"), Top.function)
            [] ~Is(q, ")") /\ Head(Top.list).op = "void" -> Stays(Stop(q, "assert"))
            [] ~Is(q, ")") /\ Head(Top.list).op # "void" ->
                  Pass(IF Is(q, ",") THEN NextToken(q) ELSE q, Popped, Top.function, Tail(Top.list))

-----------------------------------------------------------------------------
(* What an operator makes of its sides.                                    *)
Combine(op, left, right) ==
    CASE op \in {"&&", "||"} -> LogicTree(op, Condition(right.p, left), right.t)
      [] op \in {"==", "!=", "<"} -> CompareTree(right.p, NodeOf[op], left, right.t)
      [] op \in {"|", "^", "&", "<<", "+", "*"} -> Arithmetic(right.p, NodeOf[op], left, right.t)
      [] op = "++" -> [right EXCEPT !.p = Stop(@, "assert")]

(* Mutant: the right side takes the operators of the same level as well.   *)
RightLevelSame(p) == IF Cur(p) \in {"&&", "||"} THEN 4 ELSE Level(p)

(* The level the right side goes down to; that of && and || takes all that *)
(* follows.                                                                *)
RightLevel(p) == IF Cur(p) \in {"&&", "||"} THEN 4 ELSE Level(p) + 1

(* c_parser_expressions_3(): the levels from that of the first operator    *)
(* down, each as often as it comes.                                        *)
Operator ==
    /\ Resumes("binary") /\ Level(parser) \in Top.least .. Top.most
    /\ Reads(NextToken(parser),
             Popped \o <<[Top EXCEPT !.most = Level(parser)],
                         [kind |-> "right", op |-> Cur(parser), left |-> value],
                         BinaryFrame(RightLevel(parser))>>)

EndRight ==
    /\ Resumes("right")
    /\ \E r \in {Combine(Top.op, Top.left, [p |-> parser, t |-> value])} : Returns(r.p, r.t)

EndBinary ==
    /\ Resumes("binary") /\ Level(parser) \notin Top.least .. Top.most
    /\ Returns(parser, value)

(* A ? is not passed over before what follows it is read: for ever.        *)
EndConditional ==
    /\ Resumes("conditional")
    /\ Returns(IF Is(parser, "?") THEN Stop(parser, "undefined") ELSE parser, value)

(* Of the assignments only = is read.                                      *)
Assign ==
    /\ Resumes("assignment") /\ Is(parser, "=")
    /\ Reads(NextToken(parser), Popped \o <<[kind |-> "assign", left |-> value]>> \o Assignment)

EndAssign ==
    /\ Resumes("assign")
    /\ \E r \in {ASGNtree([p |-> parser, t |-> value], Top.left)} : Returns(r.p, r.t)

EndAssignment ==
    /\ Resumes("assignment") /\ ~Is(parser, "=")
    /\ Returns(parser, value)

(* c_parser_expressions(): the tree is that of the first; and the empty    *)
(* instruction every Expr has.  The Expr is a block whose nextList holds   *)
(* that instruction.                                                       *)
Listing == Resumes("expressions") \/ Resumes("listed")
FirstTree == IF Top.kind = "listed" THEN Top.tree ELSE value

Comma ==
    /\ Listing /\ Is(parser, ",")
    /\ Reads(NextToken(parser), Popped \o <<[kind |-> "listed", tree |-> FirstTree]>> \o Assignment)

EndExpressions ==
    /\ Listing /\ ~Is(parser, ",")
    /\ Returns(EmitListed(parser, "pad"), FirstTree)

Expression ==
    \/ PrimaryOperand \/ Bracket \/ EndBracket \/ UnaryOperator \/ EndUnary \/ NoOperand
    \/ Increment \/ Index \/ EndIndex \/ EndPostfix \/ FunctionCall \/ EndArgument
    \/ Operator \/ EndRight \/ EndBinary \/ EndConditional
    \/ Assign \/ EndAssign \/ EndAssignment \/ Comma \/ EndExpressions
=============================================================================
