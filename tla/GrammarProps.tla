---------------------------- MODULE GrammarProps ----------------------------
(***************************************************************************)
(* What the parser makes of expressions and declarations, against what C   *)
(* means by them: the texts are those of syntax trees and of types, so     *)
(* that what the parser built can be compared with what the text says.     *)
(* The grammar is that of the repository's other parser                    *)
(* (test/flex_bison/misc/parser.y:65-150).                                 *)
(***************************************************************************)
EXTENDS ParserSafety

CONSTANTS
    Meanings,       \* expressions, as trees: see Own
    Types           \* types that declarations are written for

-----------------------------------------------------------------------------
(* An expression: an operator with what it is applied to, a name or a      *)
(* constant.  Own is the level of its operator; [] is a subscript.         *)
Own(e) ==
    CASE Len(e.of) = 2 /\ e.is \in DOMAIN LevelOf -> LevelOf[e.is]
      [] Len(e.of) = 1 -> 14
      [] OTHER -> 15

(* Its text within an operand of level k, with the brackets it needs.      *)
RECURSIVE Operand(_, _)
Spelled(e) ==
    CASE e.of = <<>> -> <<e.is>>
      [] Len(e.of) = 1 -> <<e.is>> \o Operand(e.of[1], 14)
      [] Len(e.of) = 2 /\ e.is = "[]" -> Operand(e.of[1], 15) \o <<"[">> \o Operand(e.of[2], 2) \o <<"]">>
      [] Len(e.of) = 2 /\ e.is = "=" -> Operand(e.of[1], 14) \o <<"=">> \o Operand(e.of[2], 2)
      [] Len(e.of) = 2 /\ e.is \notin {"[]", "="} ->
            Operand(e.of[1], Own(e)) \o <<e.is>> \o Operand(e.of[2], Own(e) + 1)
Operand(e, k) == IF Own(e) < k THEN <<"(">> \o Spelled(e) \o <<")">> ELSE Spelled(e)

(* A function of one expression, over a variable, a pointer, an array and  *)
(* a function.                                                             *)
Prelude == <<"const", "a", ";", "const", "*", "p", ";", "const", "v", "[", "2", "]", ";">>
ExpressionText(e) == Prelude \o <<"const", "g", "(", ")", "{">> \o Operand(e, 2) \o <<";", "}">>

(* What a tree of the parser says: a subscript is an address plus a        *)
(* multiple of a size, a sign adds to 0, and a side of && or || is         *)
(* compared with 0.                                                        *)
OperatorOf == [n \in {"bor", "xor", "add", "eq", "less", "shl", "mul", "land", "lor", "asgn"} |->
    CASE n = "land" -> "&&" [] n = "lor" -> "||" [] n = "asgn" -> "="
      [] OTHER -> CHOOSE op \in DOMAIN NodeOf \ {"&"} : NodeOf[op] = n]
IsConst(t, c) == t.node = "const" /\ t.name = c
IsOffset(t) == t.node = "add" /\ t.args[2].node = "mul" /\ IsConst(t.args[2].args[1], "size")
RECURSIVE Said(_)
Said(t) ==
    LET Of(op, parts) == [is |-> op, of |-> [i \in DOMAIN parts |-> Said(parts[i])]]
    IN  CASE t.node \in {"id", "const"} -> [is |-> t.name, of |-> <<>>]
          [] t.node = "lea" -> Of("&", t.args)
          [] t.node = "indr" -> IF IsOffset(t.args[1])
                                THEN Of("[]", <<t.args[1].args[1], t.args[1].args[2].args[2]>>)
                                ELSE Of("*", t.args)
          [] t.node = "add" /\ IsConst(t.args[1], "0") -> Of("+", <<t.args[2]>>)
          [] t.node = "eq" /\ IsConst(t.args[2], "0") -> Said(t.args[1])
          [] OTHER -> Of(OperatorOf[t.node], t.args)

Meant == {[tree |-> e, text |-> ExpressionText(e)] : e \in Meanings}
MeantTexts == {m.text : m \in Meant}

(* The tree of an expression groups its operators as the grammar does, by  *)
(* their levels and from the left: expr.cc climbs the levels with one loop *)
(* and a recursion that share the current token.                           *)
GroupsAsGrammar ==
    parser.trees # <<>> /\ parser.text \in MeantTexts =>
        [tree |-> Said(parser.trees[1]), text |-> parser.text] \in Meant

-----------------------------------------------------------------------------
(* The declarator of a type in C: what a pointer is applied to comes after *)
(* it, arrays and functions come after the name, and brackets where that   *)
(* would bind the wrong way.                                               *)
RECURSIVE DeclaratorText(_, _), ListText(_)
DeclaratorText(t, inner) ==
    CASE t.op = "int" -> inner
      [] t.op = "const" -> DeclaratorText(t.base.base, <<"*", "const">> \o inner)
      [] t.op = "pointer" -> DeclaratorText(t.base,
            IF t.base.op \in {"array", "function"} THEN <<"(", "*">> \o inner \o <<")">>
            ELSE <<"*">> \o inner)
      [] t.op = "array" -> DeclaratorText(t.base, inner \o <<"[", t.els, "]">>)
      [] t.op = "function" -> DeclaratorText(t.base, inner \o <<"(">> \o ListText(t.list) \o <<")">>)
ListText(list) ==
    IF Head(list).op = "void" THEN <<"void">>
    ELSE <<"const">> \o DeclaratorText(Head(list).base, <<Head(list).sym>>)
            \o (IF Len(list) = 1 THEN <<>> ELSE <<",">> \o ListText(Tail(list)))
DeclarationText(t) == <<"const">> \o DeclaratorText(t, <<"n">>) \o <<";">>

TypeTexts == {DeclarationText(t) : t \in Types}
TypesOfN == TypesOf(parser, "n", "ids") \o TypesOf(parser, "n", "funcs")

(* A name has the type its declarator writes: decl.cc builds it from the   *)
(* inside out, over tokens it reads from left to right, and gives back the *)
(* one that ends every part of it.  It is the declarator alone: what the   *)
(* specifiers make, the const every text begins with among it, the code    *)
(* drops for int (decl.cc:145-163), and the type expected has none.        *)
TypeAsDeclared ==
    mode = "unit" /\ turns > 0 /\ parser.text \in TypeTexts =>
        Len(TypesOfN) = 1 /\ DeclarationText(TypesOfN[1]) = parser.text

(* A comment has it that the parameters of a function are a "sequential    *)
(* list, which is terminated by a NULL pointer" (type.h:97): all of them   *)
(* are in the list.                                                        *)
ThreeParameters ==
    NewType("function", IntType,
            <<Parameter(IntType, "x"), Parameter(TypeOver("pointer", IntType), "y"), Parameter(IntType, "z")>>)
ParametersKept ==
    mode = "unit" /\ turns > 0 /\ parser.text = DeclarationText(ThreeParameters) => TypesOfN = <<ThreeParameters>>

(* What is refused with TE05, "Function cannot be a parameter of another   *)
(* function" (type.cc:42), is a function one of whose parameters is one:   *)
(* the verdict on a declarator is about its own type.                      *)
TakesFunction(t) == t.op = "function" /\ \E i \in DOMAIN t.list : t.list[i].base.op = "function"
RefusedForItself ==
    Resumes("declaration") /\ value.name # NullToken /\ Check(parser.verdict, value.ty) = "TE05" =>
        TakesFunction(value.ty)
=============================================================================
