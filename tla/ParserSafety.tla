---------------------------- MODULE ParserSafety ----------------------------
(***************************************************************************)
(* What StatementParser promises of every text, whether or not it is one   *)
(* of the language.                                                        *)
(***************************************************************************)
EXTENDS StatementParser, FiniteSets

(* What a waiting function waits for: a tree, a block, a type or a         *)
(* declarator.                                                             *)
TreeKinds == {"unary", "bracket", "index", "argument", "right", "binary", "conditional", "assignment",
              "assign", "expressions", "listed", "initializer", "expression", "return",
              "if condition", "while condition", "for", "for condition", "for step"}
BlockKinds == {"function", "block", "if", "else", "while", "for body"}
TypeKinds == {"specifiers", "star", "pointed", "named", "closing"}
DeclaratorKinds == {"declaration", "parameters", "brackets"}

(* The lists that trees and blocks name, and with them the waiting         *)
(* functions and the value.                                                *)
TreeLists(t) == {t.true, t.false}
BlockLists(block) == {block.next, block.break, block.continue}
FrameLists(f) ==
    CASE f.kind \in {"right", "assign"} -> TreeLists(f.left)
      [] f.kind = "index" -> TreeLists(f.array)
      [] f.kind = "argument" -> TreeLists(f.function)
      [] f.kind = "listed" -> TreeLists(f.tree)
      [] f.kind = "block" -> BlockLists(f.ret)
      [] f.kind \in {"if", "else"} -> TreeLists(f.cond) \cup BlockLists(f.ret)
      [] f.kind = "while" -> TreeLists(f.cond)
      [] f.kind = "for condition" -> {f.starts}
      [] f.kind \in {"for step", "for body"} -> TreeLists(f.cond) \cup {f.next, f.starts, f.enters}
      [] OTHER -> {}
HasTree == mode = "postfix" \/ (mode = "back" /\ Top.kind \in TreeKinds)
HasBlock == mode = "back" /\ Top.kind \in BlockKinds
ValueLists ==
    IF HasTree THEN TreeLists(value) ELSE IF HasBlock THEN BlockLists(value) ELSE {}
AllHeld == (UNION {FrameLists(calls[d]) : d \in DOMAIN calls}) \cup ValueLists

code == parser.code
IsList(l) == l \in {Null, Unset} \cup DOMAIN parser.lists

(* Tokens, instructions, labels and lists are those there are; what the    *)
(* waiting functions and the value name are lists that were made.          *)
TypeOK ==
    /\ parser.lexed \in 1 .. Len(parser.text)
    /\ {parser.cur, parser.pre, parser.prepre} \subseteq 0 .. parser.lexed
    /\ parser.stop \in {"no", "fatal", "assert", "pushback", "undefined", "beyond", "thrown"}
    /\ parser.tail \in {Null} \cup DOMAIN code
    /\ \A i \in DOMAIN code :
          /\ code[i].op \in Ops
          /\ code[i].dest \in {Unset} \cup 1 .. parser.labels
          /\ {code[i].next, code[i].pre} \subseteq {Null} \cup DOMAIN code
    /\ \A l \in DOMAIN parser.lists : \A k \in DOMAIN parser.lists[l] :
          parser.lists[l][k] \in DOMAIN code
    /\ mode \in Modes
    /\ Running(parser) => \A l \in AllHeld : IsList(l)

(* pushBack() has room for two tokens, and the functions of the parser     *)
(* give tokens back without looking: at most one is waiting, and it is the *)
(* last one the lexer gave, for every text without an else, well formed or *)
(* not.                                                                    *)
HasElse == \E i \in DOMAIN parser.text : parser.text[i] = "else"
OneTokenBack ==
    Running(parser) /\ ~HasElse =>
        parser.prepre = NullToken /\ parser.pre \in {NullToken, parser.lexed}

(* The instructions are a doubly linked list: appendIR() and the insertions*)
(* in the middle keep both links of it, in a text without a for, which     *)
(* links its third expression in by hand.                                  *)
HasFor == \E i \in DOMAIN parser.text : parser.text[i] = "for"
ChainLinked ==
    ~HasFor => \A i \in DOMAIN code : code[i].next # Null => code[code[i].next].pre = i

(* Environments are entered and left by other functions than those that    *)
(* declare and look up names, on ways out of a block that an error in the  *)
(* text can cut short: at every moment there is one for each function body *)
(* and block that waits, and the global one, whatever the text.            *)
Opening == {"function", "block"}
Opened(s) == Cardinality({d \in 1 .. Len(s) : s[d].kind \in Opening})
ScopesNest == Running(parser) => Len(parser.scopes) = Opened(calls) + 1
=============================================================================
