------------------------------ MODULE MCParser ------------------------------
(* Texts for the parser: functions of statements nested two deep, which    *)
(* keep to what the parser translates (see the README for what it does     *)
(* not), the same with a token left out, and a few that are no functions   *)
(* of the language.                                                        *)
EXTENDS ParserProps

S(k) == [is |-> k]
Single == {"one"}
Conditions == {"one", "both", "either"}
Over(kind, conds, bodies) == [is : {kind}, cond : conds, body : bodies]
Choice(conds, ss) == [is : {"ifelse"}, cond : conds, body : ss, other : ss]
Each(ss) == {<<s>> : s \in ss}
Pairs(ss, tt) == {<<s, t>> : s \in ss, t \in tt}

Ordinary == {S("assign"), S("name")}
Plain == Ordinary \cup {S("return")}
While1 == Over("while", Single, Each(Plain \cup {S("break"), S("continue")}))
For1 == Over("for", Single, Each(Plain))
If1 == Over("if", Single, {<<S("assign")>>, <<S("name"), S("return")>>})
Else1 == Choice(Single, Each(Ordinary))
Inner == {S("assign")} \cup While1 \cup For1 \cup If1 \cup Else1

While2 == Over("while", Conditions, Each(Inner))
For2 == Over("for", Conditions, Each(Inner))
If2 == Over("if", Conditions, Each(While1) \cup Pairs(While1, Ordinary) \cup Pairs(Ordinary, While1))
Else2 == Choice(Conditions, Each(Ordinary))
Mixed == {S("assign")} \cup If1 \cup Over("while", Single, Each(Ordinary)) \cup Over("for", Single, Each(Ordinary))

MCBodies ==
    Each(While2 \cup For2 \cup If2 \cup Else2) \cup Pairs(Mixed, Mixed)
        \cup Pairs(While2 \cup For2 \cup Else2, {S("assign")})

(* One of each statement, to leave tokens out of.                          *)
Samples == Each(Over("if", Single, Each({S("assign")})) \cup Over("while", Single, Each({S("break")}))
                    \cup Over("for", Single, Each(Ordinary)) \cup Else1)
Without(t, i) == SubSeq(t, 1, i - 1) \o SubSeq(t, i + 1, Len(t))
Scraps == UNION {{Without(Unit(Text(b)), i) : i \in 1 .. Len(Unit(Text(b)))} : b \in Samples}
Strange == {Unit(<<"int", "a", ";">>), Unit(<<"a", ";", "int", "a", ";">>),
            Unit(<<"{", "a", ";", "}">>), Unit(<<"else", "a", ";">>),
            Unit(<<";", "{", "a", ";", "}">>), Unit(<<";", ";", "a", ";">>)}
            \cup {Unit(<<k, "a", ";">>) : k \in {"do", "switch", "case"}}

-----------------------------------------------------------------------------
(* Expressions: every pair of operators nested to the left and to the      *)
(* right, where the grammar would have no brackets around a comparison;    *)
(* && and || over those; unary operators, subscripts and assignments.      *)
X(k) == [is |-> k, of |-> <<>>]
Un(ops, es) == [is : ops, of : Each(es)]
Bin(ops, ls, rs) == [is : ops, of : Pairs(ls, rs)]
Sums == {"|", "^", "<<", "+", "*"}
Compares == {"==", "<"}
Values == Bin(Sums, {X("a")}, {X("1")})
Paths == Un({"*"}, {X("p"), X("v")}) \cup Un({"&", "+"}, {X("a")}) \cup Bin({"[]"}, {X("v"), X("p")}, {X("2")} \cup Values)
            \cup Un({"*"}, Un({"&"}, {X("a")})) \cup Un({"+"}, Bin({"[]"}, {X("v")}, {X("1")}))
            \cup Un({"&"}, Un({"*"}, {X("p")}) \cup Bin({"[]"}, {X("v")}, {X("1")}))
TwoDeep == Bin(Sums, Values, {X("2")}) \cup Bin(Sums, {X("2")}, Values)
ThreeDeep == Bin({"|", "<<", "*"}, Bin({"+", "^"}, {X("2")}, Values), {X("a")})
                \cup Bin({"|", "<<", "*"}, Values, Bin({"+", "^"}, {X("2")}, {X("p")}))
Tested == {e \in Bin(Compares \cup {"|", "^"}, Values \cup Bin(Compares, {X("a")}, {X("1")}), {X("2")})
                \cup Bin(Compares \cup {"|", "^"}, {X("2")}, Values \cup Bin(Compares, {X("a")}, {X("1")})) :
              \A i \in 1 .. 2 : e.of[i].is \in Compares => Own(e.of[i]) >= LevelOf[e.is] + (i - 1)}
MCMeanings ==
    Paths \cup Values \cup TwoDeep \cup ThreeDeep \cup Tested
        \cup Bin(Sums, Paths, {X("2")}) \cup Bin(Sums, {X("2")}, Paths)
        \cup Un({"+"}, Values)
        \cup Bin({"&&", "||"}, Values \cup Bin(Compares, {X("a")}, {X("1")}), Values \cup Bin(Compares, {X("a")}, {X("2")}))
        \cup Bin({"="}, {X("a"), X("p")} \cup Un({"*"}, {X("p")}) \cup Bin({"[]"}, {X("v")}, {X("1")}),
                         Values \cup Paths \cup Bin({"="}, {X("a")}, {X("2")}))

(* Types: what C may write with at most two stars, one dimension, two      *)
(* parameters and one pair of brackets.                                    *)
Pointers(ts) == {TypeOver("pointer", t) : t \in ts}
Arrays(ts) == {ArrayType(t, n) : t \in ts, n \in Constants}
Constant(ts) == {TypeOver("const", t) : t \in ts}
Starred == {IntType} \cup Pointers({IntType}) \cup Pointers(Pointers({IntType}))
               \cup Constant(Pointers({IntType})) \cup Pointers(Constant(Pointers({IntType})))
Parameterless == {NewType("function", t, <<VoidType>>) : t \in {IntType} \cup Pointers({IntType})}
First == {Parameter(t, "x") : t \in Starred \cup Arrays({IntType}) \cup Pointers(Parameterless)}
Lists == {<<VoidType>>} \cup Each(First)
            \cup {<<x, Parameter(t, "y")>> : x \in First, t \in {IntType} \cup Arrays({IntType}) \cup Pointers(Parameterless)}
Functionals == {NewType("function", t, list) : t \in {IntType} \cup Pointers({IntType}), list \in Lists}
MCTypes == Starred \cup Arrays(Starred) \cup Functionals \cup Pointers(Arrays(Starred) \cup Functionals)

(* Declarations of which some are refused, and functions that use names.   *)
G(tokens) == <<"const">> \o tokens \o <<";">>
Refused == {<<"f", "(", "const", "x", ")", "(", ")">>, <<"f", "(", "const", "x", ",", "const", "g", "(", ")", ")">>,
            <<"(", "b", ")">>}
Names2 == {<<"a">>, <<"*", "b">>, <<"v", "[", "1", "]">>}
Declarations ==
    {G(m) \o G(r) \o G(n) : m \in Names2, r \in Refused, n \in Names2}
        \cup {G(r \o <<",">> \o n) \o G(<<"c">>) : r \in Refused, n \in Names2}
        \cup {G(<<"a", ",", "const">> \o n) : n \in Names2 \cup Refused} \cup {G(<<"a", "==", "1">>)}
Uses == {<<"const", "a", ";", "const", "f", "(", "const", "x", ")", "{">> \o s \o <<";", "}">> :
            s \in {<<"f", "(", "x", ")">>, <<"f", "(", "a", ",", "a", ")">>, <<"x", "=", "f", "(", "a", "+", "x", ")">>,
                   <<"y">>, <<"a", ",", "x">>, <<"f">>, <<"f", "(", ")">>, <<"f", "=", "x">>, <<"*", "a">>, <<"&", "1">>, <<"x", "++">>,
                   <<"++", "x">>, <<"a", "?", "a">>, <<"a", "+=", "x">>, <<"a", "!=", "x">>, <<"(", "a", "!=", "x", ")">>,
                   <<"f", "(", "a", ")", "++">>, <<"f", "(", "a", ")", "(", "a", ")">>, <<"a", "[", "1", "]">>}}

MCPrograms == MeantTexts \cup TypeTexts \cup Declarations \cup Uses
                  \cup {Unit(Text(b)) : b \in MCBodies} \cup Scraps \cup Strange
MCDocumented == {Unit(Text(DocumentedWhile))}
MCThree == {DeclarationText(ThreeParameters)}
MCRefused == {G(<<"f", "(", "const", "x", ",", "const", "g", "(", ")", ")">>) \o G(<<"a">>)}
MCVariable == {<<"const", "a", ";">>}
=============================================================================
