---------------------------- MODULE Parser_proofs ----------------------------
(***************************************************************************)
(* What is proved of StatementParser for every text: its functions call    *)
(* and return as the recursive descent of src/lib/parser means them to,    *)
(* tokens are given back one at a time, and environments nest.             *)
(***************************************************************************)
EXTENDS ParserSafety, SequenceTheorems, FiniteSetTheorems, TLAPS

-----------------------------------------------------------------------------
(* The stack of the waiting functions.  A frame is waited for by the one   *)
(* below it: what that waits for is what the frame, or the frame that      *)
(* takes its place, returns.  A loop over the file or over a block waits   *)
(* for nothing.                                                            *)
Waits(f) ==
    IF f.kind \in TreeKinds THEN "tree"
    ELSE IF f.kind \in BlockKinds THEN "block"
    ELSE IF f.kind \in TypeKinds THEN "type"
    ELSE IF f.kind \in DeclaratorKinds THEN "declarator" ELSE "none"

GivesTree == {"unary", "bracket", "index", "argument", "right", "binary", "conditional", "assignment",
              "assign", "expressions", "listed"}
GivesBlock == {"expression", "return", "if condition", "while condition", "for", "for condition",
               "for step", "block", "if", "else", "while", "for body"}
GivesDeclarator == {"specifiers", "star", "pointed", "named", "closing", "brackets"}
GivesNothing == {"declaration", "initializer", "function"}
Sort(f) ==
    IF f.kind \in GivesTree THEN "tree"
    ELSE IF f.kind \in GivesBlock THEN "block"
    ELSE IF f.kind = "parameters" THEN "type"
    ELSE IF f.kind \in GivesDeclarator THEN "declarator" ELSE "none"

IsStack(s) == \E S : s \in Seq(S)
Last(s) == s[Len(s)]
Ready(s, sort) ==
    IF sort = "none" THEN s = <<>> \/ Last(s).kind = "block" ELSE s # <<>> /\ Waits(Last(s)) = sort
Rests(s, d) ==
    IF Sort(s[d]) = "none" THEN d = 1 \/ s[d - 1].kind = "block" ELSE d > 1 /\ Waits(s[d - 1]) = Sort(s[d])
Stacked(s) ==
    /\ IsStack(s)
    /\ \A d \in 1 .. Len(s) : "kind" \in DOMAIN s[d] /\ Rests(s, d)

(* The stack is one, and the next call or return of the given sort fits it.*)
Fits(s, sort) == Stacked(s) /\ Ready(s, sort)

(* A call puts its frame on top of the stack and leaves the others.        *)
LEMMA Pushed ==
    ASSUME NEW s, IsStack(s), NEW f
    PROVE  /\ IsStack(Append(s, f)) /\ Len(s) \in Nat
           /\ Len(Append(s, f)) = Len(s) + 1
           /\ \A d \in 1 .. Len(s) : Append(s, f)[d] = s[d]
           /\ Last(Append(s, f)) = f /\ Append(s, f) # <<>>
           /\ s \o <<f>> = Append(s, f)
<1>1. PICK S : s \in Seq(S)
  BY DEF IsStack
<1>2. s \in Seq(S \cup {f}) /\ f \in S \cup {f}
  BY <1>1
<1>3. Append(s, f) \in Seq(S \cup {f})
  BY <1>2
<1>4. Len(s) \in Nat /\ Len(Append(s, f)) = Len(s) + 1 /\ Append(s, f)[Len(s) + 1] = f
  BY <1>2
<1>5. \A d \in 1 .. Len(s) : Append(s, f)[d] = s[d]
  BY <1>2
<1>6. s \o <<f>> = Append(s, f)
  BY <1>2
<1>7. IsStack(Append(s, f))
  BY <1>3 DEF IsStack
<1>8. Append(s, f) # <<>>
  BY <1>4, <1>3
<1> QED
  BY <1>4, <1>5, <1>6, <1>7, <1>8 DEF Last

(* A return takes the top frame away and leaves the others.                *)
LEMMA Dropped ==
    ASSUME NEW s, IsStack(s), s # <<>>
    PROVE  LET t == SubSeq(s, 1, Len(s) - 1)
           IN  /\ IsStack(t) /\ Len(s) \in Nat \ {0}
               /\ Len(t) = Len(s) - 1
               /\ \A d \in 1 .. Len(t) : t[d] = s[d]
               /\ t # <<>> <=> Len(s) > 1
<1> DEFINE t == SubSeq(s, 1, Len(s) - 1)
<1>1. PICK S : s \in Seq(S)
  BY DEF IsStack
<1>2. Len(s) \in Nat \ {0}
  BY <1>1
<1>3. t \in Seq(S) /\ Len(t) = Len(s) - 1 /\ \A d \in 1 .. Len(s) - 1 : t[d] = s[d]
  BY <1>1, <1>2
<1>4. t # <<>> <=> Len(t) > 0
  BY <1>3
<1>5. IsStack(t)
  BY <1>3 DEF IsStack
<1> QED
  BY <1>2, <1>3, <1>4, <1>5

(* A frame that gives what is waited for may be pushed; it then waits for  *)
(* what it calls.                                                          *)
LEMMA PushFits ==
    ASSUME NEW s, NEW f, "kind" \in DOMAIN f, Fits(s, Sort(f)), Waits(f) # "none"
    PROVE  Fits(Append(s, f), Waits(f))
<1> DEFINE t == Append(s, f)
<1>1. IsStack(s) /\ IsStack(t) /\ Len(s) \in Nat /\ Len(t) = Len(s) + 1 /\ Last(t) = f /\ t # <<>>
  BY Pushed DEF Fits, Stacked
<1>2. \A d \in 1 .. Len(s) : t[d] = s[d]
  BY Pushed, <1>1
<1> HIDE DEF t
<1>3. ASSUME NEW d \in 1 .. Len(s)
      PROVE  "kind" \in DOMAIN t[d] /\ Rests(t, d)
  <2>1. "kind" \in DOMAIN s[d] /\ Rests(s, d) /\ t[d] = s[d]
    BY <1>2 DEF Fits, Stacked
  <2>2. d = 1 \/ d - 1 \in 1 .. Len(s)
    BY <1>1
  <2>3. CASE d = 1
    BY <2>1, <2>3 DEF Rests
  <2>4. CASE d - 1 \in 1 .. Len(s)
    <3>1. t[d - 1] = s[d - 1]
      BY <1>2, <2>4
    <3> QED
      BY <3>1, <2>1 DEF Rests
  <2> QED
    BY <2>2, <2>3, <2>4
<1>4. t[Len(s) + 1] = f
  BY <1>1 DEF Last
<1>5. Rests(t, Len(s) + 1)
  <2>1. CASE s = <<>>
    <3>1. Len(s) = 0
      BY <2>1
    <3>2. Sort(f) = "none"
      BY <2>1 DEF Fits, Ready
    <3> QED
      BY <1>4, <3>1, <3>2 DEF Rests
  <2>2. CASE s # <<>>
    <3>1. Len(s) \in 1 .. Len(s)
      BY <2>2, <1>1, EmptySeq DEF IsStack
    <3>2. t[Len(s)] = Last(s)
      BY <1>2, <3>1 DEF Last
    <3>3. Ready(s, Sort(f))
      BY DEF Fits
    <3>4. (Len(s) + 1) - 1 = Len(s) /\ Len(s) + 1 > 1
      BY <1>1, <3>1
    <3>5. IF Sort(f) = "none" THEN Last(s).kind = "block" ELSE Waits(Last(s)) = Sort(f)
      BY <3>3, <2>2 DEF Ready
    <3> QED
      BY <3>2, <3>4, <3>5, <1>4 DEF Rests
  <2> QED
    BY <2>1, <2>2
<1>6. Stacked(t)
  <2>1. \A d \in 1 .. Len(t) : d \in 1 .. Len(s) \/ d = Len(s) + 1
    BY <1>1
  <2> QED
    BY <2>1, <1>1, <1>3, <1>4, <1>5 DEF Stacked
<1> QED
  BY <1>6, <1>1 DEF Fits, Ready, t

(* When the top frame returns, the one below waits for what it gives.      *)
LEMMA PopFits ==
    ASSUME NEW s, Stacked(s), s # <<>>
    PROVE  Fits(SubSeq(s, 1, Len(s) - 1), Sort(Last(s)))
<1> DEFINE t == SubSeq(s, 1, Len(s) - 1)
<1>1. /\ IsStack(t) /\ Len(s) \in Nat \ {0} /\ Len(t) = Len(s) - 1
      /\ \A d \in 1 .. Len(t) : t[d] = s[d]
      /\ (t # <<>> <=> Len(s) > 1)
  BY Dropped DEF Stacked
<1> HIDE DEF t
<1>2. Stacked(t)
  <2>1. ASSUME NEW d \in 1 .. Len(t)
        PROVE  "kind" \in DOMAIN t[d] /\ Rests(t, d)
    <3>1. d \in 1 .. Len(s) /\ t[d] = s[d]
      BY <1>1
    <3>2. "kind" \in DOMAIN s[d] /\ Rests(s, d)
      BY <3>1 DEF Stacked
    <3>3. d = 1 \/ d - 1 \in 1 .. Len(t)
      BY <1>1
    <3>4. d = 1 \/ t[d - 1] = s[d - 1]
      BY <3>3, <1>1
    <3> QED
      BY <3>1, <3>2, <3>4 DEF Rests
  <2> QED
    BY <2>1, <1>1 DEF Stacked
<1>3. Len(s) \in 1 .. Len(s)
  BY <1>1
<1>4. Rests(s, Len(s))
  BY <1>3 DEF Stacked
<1>5. Ready(t, Sort(Last(s)))
  <2>1. CASE Len(s) = 1
    <3>1. t = <<>> /\ ~(Len(s) > 1)
      BY <2>1, <1>1
    <3> QED
      BY <3>1, <2>1, <1>4 DEF Rests, Ready, Last
  <2>2. CASE Len(s) > 1
    <3>1. t # <<>> /\ Len(t) \in 1 .. Len(t) /\ Len(s) # 1
      BY <2>2, <1>1
    <3>2. Last(t) = s[Len(s) - 1]
      BY <3>1, <1>1 DEF Last
    <3> QED
      BY <3>1, <3>2, <1>4 DEF Rests, Ready, Last
  <2> QED
    BY <2>1, <2>2, <1>1
<1> QED
  BY <1>2, <1>5 DEF Fits, t

(* What is pushed on what, and what is left.                               *)
StatementsOfTrees == {"expression", "return", "if condition", "while condition", "for", "for condition", "for step"}
StatementsOfBlocks == {"block", "if", "else", "while", "for body"}
DeclaratorsOfTypes == {"specifiers", "star", "pointed", "named", "closing"}

(* The functions of expr.cc give a tree and wait for one.                  *)
LEMMA SortTree == ASSUME NEW f, f.kind \in GivesTree PROVE Sort(f) = "tree" /\ Waits(f) = "tree"
  BY DEF Sort, Waits, GivesTree, TreeKinds
(* The statements that begin with an expression wait for its tree.         *)
LEMMA SortStatement == ASSUME NEW f, f.kind \in StatementsOfTrees PROVE Sort(f) = "block" /\ Waits(f) = "tree"
  BY DEF Sort, Waits, GivesTree, TreeKinds, GivesBlock, StatementsOfTrees
(* The statements with a body wait for its block.                          *)
LEMMA SortBlock == ASSUME NEW f, f.kind \in StatementsOfBlocks PROVE Sort(f) = "block" /\ Waits(f) = "block"
  BY DEF Sort, Waits, GivesTree, TreeKinds, GivesBlock, StatementsOfBlocks, BlockKinds
(* The parts of a declarator wait for the type they apply to.              *)
LEMMA SortDeclarator == ASSUME NEW f, f.kind \in DeclaratorsOfTypes PROVE Sort(f) = "declarator" /\ Waits(f) = "type"
  BY DEF Sort, Waits, GivesTree, TreeKinds, GivesBlock, BlockKinds, DeclaratorsOfTypes, GivesDeclarator,
     TypeKinds
(* What the remaining functions give and wait for.                         *)
LEMMA SortOther ==
    ASSUME NEW f
    PROVE  /\ f.kind = "brackets" => Sort(f) = "declarator" /\ Waits(f) = "declarator"
           /\ f.kind = "parameters" => Sort(f) = "type" /\ Waits(f) = "declarator"
           /\ f.kind = "declaration" => Sort(f) = "none" /\ Waits(f) = "declarator"
           /\ f.kind = "initializer" => Sort(f) = "none" /\ Waits(f) = "tree"
           /\ f.kind = "function" => Sort(f) = "none" /\ Waits(f) = "block"
  BY DEF Sort, Waits, GivesTree, TreeKinds, GivesBlock, BlockKinds, GivesDeclarator, TypeKinds, DeclaratorKinds

(* PushFits for the kinds of frames there are.                             *)
LEMMA PushRules ==
    ASSUME NEW s, NEW f, "kind" \in DOMAIN f
    PROVE  /\ f.kind \in GivesTree /\ Fits(s, "tree") => Fits(Append(s, f), "tree")
           /\ f.kind \in StatementsOfTrees /\ Fits(s, "block") => Fits(Append(s, f), "tree")
           /\ f.kind \in StatementsOfBlocks /\ Fits(s, "block") => Fits(Append(s, f), "block")
           /\ f.kind \in DeclaratorsOfTypes /\ Fits(s, "declarator") => Fits(Append(s, f), "type")
           /\ f.kind = "brackets" /\ Fits(s, "declarator") => Fits(Append(s, f), "declarator")
           /\ f.kind = "parameters" /\ Fits(s, "type") => Fits(Append(s, f), "declarator")
           /\ f.kind = "declaration" /\ Fits(s, "none") => Fits(Append(s, f), "declarator")
           /\ f.kind = "initializer" /\ Fits(s, "none") => Fits(Append(s, f), "tree")
           /\ f.kind = "function" /\ Fits(s, "none") => Fits(Append(s, f), "block")
<1>1. Waits(f) # "none" /\ Fits(s, Sort(f)) => Fits(Append(s, f), Waits(f))
  BY PushFits
<1> QED
  BY <1>1, SortTree, SortStatement, SortBlock, SortDeclarator, SortOther

(* PopFits for the kinds of frames there are.                              *)
LEMMA PopRules ==
    ASSUME NEW s, Stacked(s), s # <<>>
    PROVE  LET t == SubSeq(s, 1, Len(s) - 1)
               f == s[Len(s)]
           IN  /\ f.kind \in GivesTree => Fits(t, "tree")
               /\ f.kind \in StatementsOfTrees \cup StatementsOfBlocks => Fits(t, "block")
               /\ f.kind \in DeclaratorsOfTypes \cup {"brackets"} => Fits(t, "declarator")
               /\ f.kind = "parameters" => Fits(t, "type")
               /\ f.kind \in {"declaration", "initializer", "function"} => Fits(t, "none")
<1> DEFINE t == SubSeq(s, 1, Len(s) - 1)
           f == s[Len(s)]
<1>1. Fits(t, Sort(f))
  BY PopFits DEF Last
<1> HIDE DEF t, f
<1>2. f.kind \in GivesTree => Fits(t, "tree")
  BY <1>1, SortTree
<1>3. f.kind \in StatementsOfTrees \cup StatementsOfBlocks => Fits(t, "block")
  BY <1>1, SortStatement, SortBlock
<1>4. f.kind \in DeclaratorsOfTypes \cup {"brackets"} => Fits(t, "declarator")
  BY <1>1, SortDeclarator, SortOther
<1>5. f.kind = "parameters" => Fits(t, "type")
  BY <1>1, SortOther
<1>6. f.kind \in {"declaration", "initializer", "function"} => Fits(t, "none")
  BY <1>1, SortOther
<1> QED
  BY <1>2, <1>3, <1>4, <1>5, <1>6 DEF t, f

(* An expression's waiting functions.                                      *)
LEMMA ExpressionFrames ==
    ASSUME NEW s, Fits(s, "tree")
    PROVE  /\ Fits(s \o Conditional, "tree")
           /\ Fits(s \o Assignment, "tree")
           /\ Fits(s \o Expressions, "tree")
<1> DEFINE F(k) == [kind |-> k]
<1>1. ASSUME NEW u, Fits(u, "tree")
      PROVE  /\ u \o Conditional = Append(Append(u, F("conditional")), BinaryFrame(4))
             /\ Fits(u \o Conditional, "tree")
  <2>1. Fits(Append(u, F("conditional")), "tree")
    BY <1>1, PushRules DEF GivesTree
  <2>2. Fits(Append(Append(u, F("conditional")), BinaryFrame(4)), "tree")
    BY <2>1, PushRules DEF GivesTree, BinaryFrame
  <2>3. PICK S : u \in Seq(S)
    BY <1>1 DEF Fits, Stacked, IsStack
  <2>4. u \in Seq(S \cup {F("conditional"), BinaryFrame(4)})
    BY <2>3
  <2>5. u \o <<F("conditional"), BinaryFrame(4)>> = Append(Append(u, F("conditional")), BinaryFrame(4))
    BY <2>4
  <2> QED
    BY <2>2, <2>5 DEF Conditional
<1>2. ASSUME NEW u, Fits(u, "tree"), NEW f, NEW t, NEW T, t \in Seq(T)
      PROVE  u \o (<<f>> \o t) = Append(u, f) \o t
  <2>1. PICK S : u \in Seq(S)
    BY <1>2 DEF Fits, Stacked, IsStack
  <2>2. u \in Seq(S \cup T \cup {f}) /\ t \in Seq(S \cup T \cup {f}) /\ f \in S \cup T \cup {f}
    BY <2>1, <1>2
  <2> QED
    BY <2>2
<1>3. /\ Conditional \in Seq({F("conditional"), BinaryFrame(4)})
      /\ Assignment \in Seq({F("assignment"), F("conditional"), BinaryFrame(4)})
  BY DEF Conditional, Assignment
<1>4. ASSUME NEW u, Fits(u, "tree")
      PROVE  Fits(u \o Assignment, "tree")
  <2>1. Fits(Append(u, F("assignment")), "tree")
    BY <1>4, PushRules DEF GivesTree
  <2>2. u \o (<<F("assignment")>> \o Conditional) = Append(u, F("assignment")) \o Conditional
    BY <1>2, <1>3, <1>4
  <2> QED
    BY <2>1, <2>2, <1>1 DEF Assignment
<1>5. Fits(s \o Expressions, "tree")
  <2>1. Fits(Append(s, F("expressions")), "tree")
    BY PushRules DEF GivesTree
  <2>2. s \o (<<F("expressions")>> \o Assignment) = Append(s, F("expressions")) \o Assignment
    BY <1>2, <1>3
  <2> QED
    BY <2>1, <2>2, <1>4 DEF Expressions
<1> QED
  BY <1>1, <1>4, <1>5

-----------------------------------------------------------------------------
(* What comes next fits the function at the top.                           *)
TreeModes == {"operand", "postfix"}
TypeModes == {"qualifiers", "suffix"}
DeclaratorModes == {"pointer", "direct"}
BodyModes == {"declarations", "body"}
SemicolonKinds == {"block", "expression", "if"}
Situation(s, m) ==
    /\ Stacked(s)
    /\ m \in Modes
    /\ m \in TreeModes => Fits(s, "tree")
    /\ m \in TypeModes => Fits(s, "type")
    /\ m \in DeclaratorModes => Fits(s, "declarator")
    /\ m \in {"statement", "stmt_list"} => Fits(s, "block")
    /\ m = "recover" => s # <<>> /\ Last(s).kind = "declaration"
    /\ m \in BodyModes => s # <<>> /\ Last(s).kind = "block"
    /\ m = "semicolons" => s # <<>> /\ Last(s).kind \in SemicolonKinds
    /\ m = "unit" => s = <<>>
    /\ m = "back" => s # <<>>

(* What waits fits the functions that the parser may run next.             *)
LEMMA Situations ==
    ASSUME NEW s, Stacked(s)
    PROVE  /\ Fits(s, "tree") => Situation(s, "operand") /\ Situation(s, "postfix") /\ Situation(s, "back")
           /\ Fits(s, "type") => Situation(s, "qualifiers") /\ Situation(s, "suffix") /\ Situation(s, "back")
           /\ Fits(s, "declarator") =>
                  Situation(s, "pointer") /\ Situation(s, "direct") /\ Situation(s, "back")
           /\ Fits(s, "block") =>
                  Situation(s, "statement") /\ Situation(s, "stmt_list") /\ Situation(s, "back")
           /\ s = <<>> => Situation(s, "unit")
           /\ s # <<>> => Situation(s, "back")
           /\ s # <<>> /\ Last(s).kind = "declaration" => Situation(s, "recover")
           /\ s # <<>> /\ Last(s).kind = "block" =>
                  Situation(s, "declarations") /\ Situation(s, "body") /\ Fits(s, "block") /\ Fits(s, "none")
           /\ s # <<>> /\ Last(s).kind \in SemicolonKinds => Situation(s, "semicolons")
<1>1. Fits(s, "tree") \/ Fits(s, "type") \/ Fits(s, "declarator") \/ Fits(s, "block") => s # <<>>
  BY DEF Fits, Ready
<1>2. s # <<>> /\ Last(s).kind = "block" => Fits(s, "block") /\ Fits(s, "none")
  <2>1. Last(s).kind = "block" => Waits(Last(s)) = "block"
    <3>1. "block" \in StatementsOfBlocks
      BY DEF StatementsOfBlocks
    <3> QED
      BY <3>1, SortBlock
  <2> QED
    BY <2>1 DEF Fits, Ready
<1> QED
  BY <1>1, <1>2 DEF Situation, TreeModes, TypeModes, DeclaratorModes, BodyModes, Modes

(* A stack that fits is one.                                               *)
LEMMA FitsStacked ==
    ASSUME NEW s, NEW sort, Fits(s, sort)
    PROVE  Stacked(s) /\ IsStack(s) /\ (sort # "none" => s # <<>>)
  BY DEF Fits, Stacked, Ready

Situated == Situation(calls, mode)

(* Calling conditional(), assignment() or expression() puts a whole chain  *)
(* of frames down.                                                         *)
LEMMA PushExpressions ==
    ASSUME NEW s, NEW f, "kind" \in DOMAIN f,
           \/ f.kind \in GivesTree /\ Fits(s, "tree")
           \/ f.kind \in StatementsOfTrees /\ Fits(s, "block")
           \/ f.kind = "initializer" /\ Fits(s, "none")
    PROVE  /\ Fits((s \o <<f>>) \o Conditional, "tree")
           /\ Fits((s \o <<f>>) \o Assignment, "tree")
           /\ Fits((s \o <<f>>) \o Expressions, "tree")
<1>1. Fits(Append(s, f), "tree")
  BY PushRules
<1>2. s \o <<f>> = Append(s, f)
  BY FitsStacked, Pushed
<1> QED
  BY <1>1, <1>2, ExpressionFrames

(* Calling a single function puts its frame down.                          *)
LEMMA PushOne ==
    ASSUME NEW s, NEW f, "kind" \in DOMAIN f
    PROVE  /\ f.kind \in DeclaratorsOfTypes /\ Fits(s, "declarator") => Fits(Append(s, f), "type")
           /\ f.kind = "brackets" /\ Fits(s, "declarator") => Fits(Append(s, f), "declarator")
           /\ f.kind = "declaration" /\ Fits(s, "none") => Fits(Append(s, f), "declarator")
           /\ f.kind = "parameters" /\ Fits(s, "type") => Fits(Append(s, f), "declarator")
           /\ f.kind \in StatementsOfBlocks /\ Fits(s, "block") => Fits(Append(s, f), "block")
           /\ f.kind \in GivesTree /\ Fits(s, "tree") => Fits(Append(s, f), "tree")
           /\ IsStack(s) => Append(s, f) # <<>> /\ Last(Append(s, f)) = f
  BY PushRules, Pushed

(* The function that returns is taken from the stack.                      *)
LEMMA Entering ==
    ASSUME Situated
    PROVE  /\ Stacked(calls) /\ IsStack(calls)
           /\ mode \in {"operand", "postfix"} => Fits(calls, "tree")
           /\ mode \in {"qualifiers", "suffix"} => Fits(calls, "type")
           /\ mode \in {"pointer", "direct"} => Fits(calls, "declarator")
           /\ mode \in {"statement", "stmt_list"} => Fits(calls, "block")
           /\ mode = "unit" => calls = <<>> /\ Fits(calls, "none")
           /\ mode = "recover" => Top.kind = "declaration"
           /\ mode \in {"declarations", "body"} => Top.kind = "block"
           /\ mode = "semicolons" => Top.kind \in SemicolonKinds
           /\ mode # "unit" => calls # <<>> /\ Top = Last(calls)
<1>1. mode \in Modes /\ Stacked(calls)
  BY DEF Situated, Situation
<1>2. Fits(calls, "tree") \/ Fits(calls, "type") \/ Fits(calls, "declarator") \/ Fits(calls, "block") => calls # <<>>
  BY DEF Fits, Ready
<1>3. mode # "unit" => calls # <<>>
  BY <1>1, <1>2 DEF Situated, Situation, Modes, TreeModes, TypeModes, DeclaratorModes, BodyModes
<1>4. calls = <<>> => Fits(calls, "none")
  BY <1>1 DEF Fits, Ready
<1> QED
  BY <1>1, <1>3, <1>4
  DEF Situated, Situation, TreeModes, TypeModes, DeclaratorModes, BodyModes, Top, Last, Stacked

(* What the top frame gives is what the rest of the stack waits for.       *)
LEMMA Leaving ==
    ASSUME Stacked(calls), calls # <<>>
    PROVE  /\ Top.kind \in GivesTree => Fits(Popped, "tree")
           /\ Top.kind \in StatementsOfTrees \cup StatementsOfBlocks => Fits(Popped, "block")
           /\ Top.kind \in DeclaratorsOfTypes \cup {"brackets"} => Fits(Popped, "declarator")
           /\ Top.kind = "parameters" => Fits(Popped, "type")
           /\ Top.kind \in {"declaration", "initializer", "function"} => Fits(Popped, "none")
           /\ "kind" \in DOMAIN Top
<1>1. IsStack(calls) /\ Len(calls) \in Nat \ {0}
  BY Dropped DEF Stacked
<1>2. Len(calls) \in 1 .. Len(calls)
  BY <1>1
<1>3. "kind" \in DOMAIN Top
  BY <1>2 DEF Stacked, Top
<1> QED
  BY <1>3, PopRules DEF Top, Popped

(* The end of a declaration goes on to the next one, to the body of a      *)
(* function or to a block.                                                 *)
LEMMA EndsDeclarationSituated ==
    ASSUME NEW p, Fits(Popped, "none"), EndsDeclaration(p)
    PROVE  Situated'
<1>1. Popped = <<>> \/ (Popped # <<>> /\ Last(Popped).kind = "block")
  BY DEF Fits, Ready
<1>2. Stacked(Popped)
  BY DEF Fits
<1>3. calls' = Popped /\ mode' = IF Popped = <<>> THEN "unit" ELSE "declarations"
  BY DEF EndsDeclaration, Leaves, Caller
<1>4. CASE Popped = <<>>
  BY <1>2, <1>3, <1>4, Situations DEF Situated
<1>5. CASE Popped # <<>>
  BY <1>1, <1>2, <1>3, <1>5, Situations DEF Situated
<1> QED
  BY <1>4, <1>5

(* A call of three levels of an expression.                                *)
LEMMA PushThree ==
    ASSUME NEW s, Fits(s, "tree"), NEW f, NEW g, NEW h,
           "kind" \in DOMAIN f, f.kind \in GivesTree, "kind" \in DOMAIN g, g.kind \in GivesTree,
           "kind" \in DOMAIN h, h.kind \in GivesTree
    PROVE  Fits(s \o <<f, g, h>>, "tree")
<1>1. Fits(Append(s, f), "tree")
  BY PushOne
<1>2. Fits(Append(Append(s, f), g), "tree")
  BY <1>1, PushOne
<1>3. Fits(Append(Append(Append(s, f), g), h), "tree")
  BY <1>2, PushOne
<1>4. PICK S : s \in Seq(S)
  BY FitsStacked DEF IsStack
<1>5. s \in Seq(S \cup {f, g, h})
  BY <1>4
<1>6. s \o <<f, g, h>> = Append(Append(Append(s, f), g), h)
  BY <1>5
<1> QED
  BY <1>3, <1>6

(* A block that is opened is waited for.                                   *)
LEMMA OpenBlockSituated ==
    ASSUME NEW p, NEW under, Fits(under, "block"), OpenBlock(p, under)
    PROVE  Situated'
<1>1. PICK f : calls' = Append(under, f) /\ mode' = "declarations" /\ "kind" \in DOMAIN f /\ f.kind = "block"
  BY DEF OpenBlock, Leaves
<1>2. Fits(calls', "block") /\ calls' # <<>> /\ Last(calls') = f
  BY <1>1, PushOne, FitsStacked DEF StatementsOfBlocks
<1> QED
  BY <1>1, <1>2, Situations, FitsStacked DEF Situated

(* What the parts of an if do to the stack, whatever they write.           *)
LEMMA SelectMoves ==
    ASSUME EndIf \/ EndElse \/ ElseBranch
    PROVE  /\ EndIf => mode = "semicolons" /\ Top.kind = "if" /\ calls' = Popped /\ mode' = "back"
           /\ EndElse => mode = "back" /\ Top.kind = "else" /\ calls' = Popped /\ mode' = "back"
           /\ ElseBranch =>
                  /\ mode = "semicolons" /\ Top.kind = "if" /\ mode' = "statement"
                  /\ \E f : "kind" \in DOMAIN f /\ f.kind = "else" /\ calls' = Append(Popped, f)
<1>1. ASSUME NEW p, NEW block, EndOfSelect(p, block) PROVE calls' = Popped /\ mode' = "back"
  BY ONLY <1>1 DEF EndOfSelect, Returns, Leaves
<1>2. ASSUME EndIf PROVE mode = "semicolons" /\ Top.kind = "if" /\ \E p, block : EndOfSelect(p, block)
  BY ONLY <1>2 DEF EndIf, PastSemicolons, At
<1>3. ASSUME EndElse PROVE mode = "back" /\ Top.kind = "else" /\ \E p, block : EndOfSelect(p, block)
  BY ONLY <1>3 DEF EndElse, Resumes, At
<1>4. ASSUME ElseBranch
      PROVE  /\ mode = "semicolons" /\ Top.kind = "if"
             /\ \E p, f : "kind" \in DOMAIN f /\ f.kind = "else" /\ Begins(p, Append(Popped, f))
  BY ONLY <1>4 DEF ElseBranch, PastSemicolons, At
<1>5. ASSUME NEW p, NEW frames, Begins(p, frames) PROVE calls' = frames /\ mode' = "statement"
  BY ONLY <1>5 DEF Begins, Leaves
<1> QED
  BY ONLY <1>1, <1>2, <1>3, <1>4, <1>5

(* Every call and every return keeps the stack right.                      *)
LEMMA StepSituated ==
    ASSUME Situated, [Next]_vars
    PROVE  Situated'
<1>1. /\ Stacked(calls) /\ IsStack(calls)
      /\ mode \in {"operand", "postfix"} => Fits(calls, "tree")
      /\ mode \in {"qualifiers", "suffix"} => Fits(calls, "type")
      /\ mode \in {"pointer", "direct"} => Fits(calls, "declarator")
      /\ mode \in {"statement", "stmt_list"} => Fits(calls, "block")
      /\ mode = "unit" => calls = <<>> /\ Fits(calls, "none")
      /\ mode = "recover" => Top.kind = "declaration"
      /\ mode \in {"declarations", "body"} => Top.kind = "block"
      /\ mode = "semicolons" => Top.kind \in SemicolonKinds
      /\ mode # "unit" => calls # <<>> /\ Top = Last(calls)
  BY Entering
<1>2. calls # <<>> =>
      /\ Top.kind \in GivesTree => Fits(Popped, "tree")
      /\ Top.kind \in StatementsOfTrees \cup StatementsOfBlocks => Fits(Popped, "block")
      /\ Top.kind \in DeclaratorsOfTypes \cup {"brackets"} => Fits(Popped, "declarator")
      /\ Top.kind = "parameters" => Fits(Popped, "type")
      /\ Top.kind \in {"declaration", "initializer", "function"} => Fits(Popped, "none")
      /\ "kind" \in DOMAIN Top
  BY <1>1, Leaving
<1>3. CASE PrimaryOperand
  BY <1>3, <1>1, <1>2, Situations, FitsStacked
  DEF PrimaryOperand, At, Resumes, Gives, Returns, Leaves, Situated, GivesTree, StatementsOfTrees, StatementsOfBlocks,
      DeclaratorsOfTypes, SemicolonKinds
<1>4. CASE Bracket
  <2>1. Fits((calls \o <<[kind |-> "bracket"]>>) \o Expressions, "tree")
    BY <1>4, <1>1, <1>2, PushExpressions DEF Bracket, At, Resumes, GivesTree
  <2> QED
    BY <2>1, <1>4, Situations, FitsStacked DEF Bracket, Leaves, Situated, Reads
<1>5. CASE EndBracket
  BY <1>5, <1>1, <1>2, Situations, FitsStacked
  DEF EndBracket, At, Resumes, Gives, Returns, Leaves, Situated, GivesTree, StatementsOfTrees, StatementsOfBlocks,
      DeclaratorsOfTypes, SemicolonKinds
<1>6. CASE UnaryOperator
  <2>1. Fits(Append(calls, [kind |-> "unary", op |-> Cur(parser)]), "tree")
    BY <1>6, <1>1, PushOne DEF UnaryOperator, At, GivesTree
  <2> QED
    BY <2>1, <1>6, Situations, FitsStacked DEF UnaryOperator, Leaves, Situated, Reads
<1>7. CASE EndUnary
  BY <1>7, <1>1, <1>2, Situations, FitsStacked
  DEF EndUnary, At, Resumes, Gives, Returns, Leaves, Situated, GivesTree, StatementsOfTrees, StatementsOfBlocks,
      DeclaratorsOfTypes, SemicolonKinds
<1>8. CASE NoOperand
  BY <1>8, <1>1, <1>2, Situations, FitsStacked
  DEF NoOperand, At, Resumes, Gives, Returns, Leaves, Situated, GivesTree, StatementsOfTrees, StatementsOfBlocks,
      DeclaratorsOfTypes, SemicolonKinds
<1>9. CASE Increment
  BY <1>9 DEF Increment, Stays, Leaves, Situated
<1>10. CASE Index
  <2>1. Fits((calls \o <<[kind |-> "index", array |-> value]>>) \o Assignment, "tree")
    BY <1>10, <1>1, <1>2, PushExpressions DEF Index, At, Resumes, GivesTree
  <2> QED
    BY <2>1, <1>10, Situations, FitsStacked DEF Index, Leaves, Situated, Reads
<1>11. CASE EndIndex
  BY <1>11, <1>1, <1>2, Situations, FitsStacked
  DEF EndIndex, At, Resumes, Gives, Returns, Leaves, Situated, GivesTree, StatementsOfTrees, StatementsOfBlocks,
      DeclaratorsOfTypes, SemicolonKinds
<1>12. CASE EndPostfix
  BY <1>12, <1>1, <1>2, Situations, FitsStacked
  DEF EndPostfix, At, Resumes, Gives, Returns, Leaves, Situated, GivesTree, StatementsOfTrees, StatementsOfBlocks,
      DeclaratorsOfTypes, SemicolonKinds
<1>13. CASE FunctionCall
  <2>1. Fits(calls, "tree")
    BY <1>13, <1>1 DEF FunctionCall, At
  <2>2. Fits((calls \o <<[kind |-> "argument", function |-> value, list |-> value.type.list]>>) \o Conditional, "tree")
    BY <2>1, PushExpressions DEF GivesTree
  <2> QED
    BY <2>1, <2>2, <1>13, Situations, FitsStacked DEF FunctionCall, Leaves, Situated, Pass, Reads, Stays
<1>14. CASE EndArgument
  <2>1. Fits(Popped, "tree") /\ calls # <<>>
    BY <1>14, <1>1, <1>2 DEF EndArgument, Resumes, At, GivesTree
  <2>2. Fits((Popped \o <<[kind |-> "argument", function |-> Top.function, list |-> Tail(Top.list)]>>) \o Conditional, "tree")
    BY <2>1, PushExpressions DEF GivesTree
  <2>3. mode = "back"
    BY <1>14 DEF EndArgument, Resumes, At
  <2> QED
    BY <2>1, <2>2, <2>3, <1>14, Situations, FitsStacked DEF EndArgument, Leaves, Situated, Pass, Reads,
       Returns, Stays
<1>15. CASE Operator
  <2>1. Fits(Popped, "tree") /\ "kind" \in DOMAIN Top /\ Top.kind = "binary"
    BY <1>15, <1>1, <1>2 DEF Operator, Resumes, At, GivesTree
  <2>2. \A f, g, h : "kind" \in DOMAIN f /\ f.kind \in GivesTree /\ "kind" \in DOMAIN g /\ g.kind \in GivesTree
             /\ "kind" \in DOMAIN h /\ h.kind \in GivesTree => Fits(Popped \o <<f, g, h>>, "tree")
    BY <2>1, PushThree
  <2>3. "kind" \in DOMAIN [Top EXCEPT !.most = Level(parser)] /\ [Top EXCEPT !.most = Level(parser)].kind \in GivesTree
    BY <2>1, Zenon DEF GivesTree
  <2>4. Fits(calls', "tree")
    BY <2>2, <2>3, <1>15 DEF Operator, Reads, Leaves, BinaryFrame, GivesTree
  <2> QED
    BY <2>1, <2>2, <2>3, <2>4, <1>15, Situations, FitsStacked DEF Operator, Leaves, Situated, Reads
<1>16. CASE EndRight
  BY <1>16, <1>1, <1>2, Situations, FitsStacked
  DEF EndRight, At, Resumes, Gives, Returns, Leaves, Situated, GivesTree, StatementsOfTrees, StatementsOfBlocks,
      DeclaratorsOfTypes, SemicolonKinds
<1>17. CASE EndBinary
  BY <1>17, <1>1, <1>2, Situations, FitsStacked
  DEF EndBinary, At, Resumes, Gives, Returns, Leaves, Situated, GivesTree, StatementsOfTrees, StatementsOfBlocks,
      DeclaratorsOfTypes, SemicolonKinds
<1>18. CASE EndConditional
  BY <1>18, <1>1, <1>2, Situations, FitsStacked
  DEF EndConditional, At, Resumes, Gives, Returns, Leaves, Situated, GivesTree, StatementsOfTrees, StatementsOfBlocks,
      DeclaratorsOfTypes, SemicolonKinds
<1>19. CASE Assign
  <2>1. Fits((Popped \o <<[kind |-> "assign", left |-> value]>>) \o Assignment, "tree")
    BY <1>19, <1>1, <1>2, PushExpressions DEF Assign, At, Resumes, GivesTree
  <2> QED
    BY <2>1, <1>19, Situations, FitsStacked DEF Assign, Leaves, Situated, Reads
<1>20. CASE EndAssign
  BY <1>20, <1>1, <1>2, Situations, FitsStacked
  DEF EndAssign, At, Resumes, Gives, Returns, Leaves, Situated, GivesTree, StatementsOfTrees, StatementsOfBlocks,
      DeclaratorsOfTypes, SemicolonKinds
<1>21. CASE EndAssignment
  BY <1>21, <1>1, <1>2, Situations, FitsStacked
  DEF EndAssignment, At, Resumes, Gives, Returns, Leaves, Situated, GivesTree, StatementsOfTrees, StatementsOfBlocks,
      DeclaratorsOfTypes, SemicolonKinds
<1>22. CASE Comma
  <2>1. Fits((Popped \o <<[kind |-> "listed", tree |-> FirstTree]>>) \o Assignment, "tree")
    BY <1>22, <1>1, <1>2, PushExpressions DEF Comma, At, Resumes, GivesTree, Listing
  <2> QED
    BY <2>1, <1>22, Situations, FitsStacked DEF Comma, Leaves, Situated, Reads, Listing
<1>23. CASE EndExpressions
  BY <1>23, <1>1, <1>2, Situations, FitsStacked
  DEF EndExpressions, At, Resumes, Gives, Returns, Leaves, Situated, GivesTree, StatementsOfTrees, StatementsOfBlocks,
      DeclaratorsOfTypes, SemicolonKinds, Listing
<1>24. CASE Qualifier
  BY <1>24, <1>1, <1>2, Situations, FitsStacked
  DEF Qualifier, At, Resumes, Gives, Returns, Leaves, Situated, GivesTree, StatementsOfTrees, StatementsOfBlocks,
      DeclaratorsOfTypes, SemicolonKinds, Qualifies
<1>25. CASE EndQualifiers
  BY <1>25, <1>1, <1>2, Situations, FitsStacked
  DEF EndQualifiers, At, Resumes, Gives, Returns, Leaves, Situated, GivesTree, StatementsOfTrees, StatementsOfBlocks,
      DeclaratorsOfTypes, SemicolonKinds
<1>26. CASE EndSpecifiers
  BY <1>26, <1>1, <1>2, Situations, FitsStacked
  DEF EndSpecifiers, At, Resumes, Gives, Returns, Leaves, Situated, GivesTree, StatementsOfTrees, StatementsOfBlocks,
      DeclaratorsOfTypes, SemicolonKinds
<1>27. CASE Star
  <2>1. Fits(Append(calls, [kind |-> "star"]), "type")
    BY <1>27, <1>1, PushOne DEF Star, At, DeclaratorsOfTypes
  <2> QED
    BY <2>1, <1>27, Situations, FitsStacked DEF Star, Leaves, Situated, Qualifies
<1>28. CASE EndStar
  BY <1>28, <1>1, <1>2, Situations, FitsStacked
  DEF EndStar, At, Resumes, Gives, Returns, Leaves, Situated, GivesTree, StatementsOfTrees, StatementsOfBlocks,
      DeclaratorsOfTypes, SemicolonKinds
<1>29. CASE QualifiedPointer
  <2>1. Fits(Append(calls, [kind |-> "pointed"]), "type")
    BY <1>29, <1>1, PushOne DEF QualifiedPointer, At, DeclaratorsOfTypes
  <2> QED
    BY <2>1, <1>29, Situations, FitsStacked DEF QualifiedPointer, Leaves, Situated, Qualifies
<1>30. CASE EndQualifiedPointer
  BY <1>30, <1>1, <1>2, Situations, FitsStacked
  DEF EndQualifiedPointer, At, Resumes, Gives, Returns, Leaves, Situated, GivesTree, StatementsOfTrees, StatementsOfBlocks,
      DeclaratorsOfTypes, SemicolonKinds
<1>31. CASE EndPointer
  BY <1>31, <1>1, <1>2, Situations, FitsStacked
  DEF EndPointer, At, Resumes, Gives, Returns, Leaves, Situated, GivesTree, StatementsOfTrees, StatementsOfBlocks,
      DeclaratorsOfTypes, SemicolonKinds
<1>32. CASE Named
  <2>1. Fits(Append(calls, [kind |-> "named", name |-> parser.cur]), "type")
    BY <1>32, <1>1, PushOne DEF Named, At, DeclaratorsOfTypes
  <2> QED
    BY <2>1, <1>32, Situations, FitsStacked DEF Named, Leaves, Situated
<1>33. CASE EndNamed
  BY <1>33, <1>1, <1>2, Situations, FitsStacked
  DEF EndNamed, At, Resumes, Gives, Returns, Leaves, Situated, GivesTree, StatementsOfTrees, StatementsOfBlocks,
      DeclaratorsOfTypes, SemicolonKinds
<1>34. CASE Bracketed
  <2>1. Fits(Append(calls, [kind |-> "brackets", ty |-> value]), "declarator")
    BY <1>34, <1>1, PushOne DEF Bracketed, At
  <2> QED
    BY <2>1, <1>34, Situations, FitsStacked DEF Bracketed, Leaves, Situated
<1>35. CASE CloseBracketed
  <2>1. Fits(Append(Popped, [kind |-> "closing", name |-> value.name, op |-> value.ty.op]), "type")
    BY <1>35, <1>1, <1>2, PushOne DEF CloseBracketed, Resumes, At, DeclaratorsOfTypes
  <2> QED
    BY <2>1, <1>35, Situations, FitsStacked DEF CloseBracketed, Leaves, Situated
<1>36. CASE EndBracketed
  BY <1>36, <1>1, <1>2, Situations, FitsStacked
  DEF EndBracketed, At, Resumes, Gives, Returns, Leaves, Situated, GivesTree, StatementsOfTrees, StatementsOfBlocks,
      DeclaratorsOfTypes, SemicolonKinds
<1>37. CASE NoDeclarator
  BY <1>37, <1>1, <1>2, Situations, FitsStacked
  DEF NoDeclarator, At, Resumes, Gives, Returns, Leaves, Situated, GivesTree, StatementsOfTrees, StatementsOfBlocks,
      DeclaratorsOfTypes, SemicolonKinds
<1>38. CASE Dimension
  BY <1>38, <1>1, <1>2, Situations, FitsStacked
  DEF Dimension, At, Resumes, Gives, Returns, Leaves, Situated, GivesTree, StatementsOfTrees, StatementsOfBlocks,
      DeclaratorsOfTypes, SemicolonKinds
<1>39. CASE NoSuffix
  BY <1>39, <1>1, <1>2, Situations, FitsStacked
  DEF NoSuffix, At, Resumes, Gives, Returns, Leaves, Situated, GivesTree, StatementsOfTrees, StatementsOfBlocks,
      DeclaratorsOfTypes, SemicolonKinds
<1>40. CASE NoParameters
  BY <1>40, <1>1, <1>2, Situations, FitsStacked
  DEF NoParameters, At, Resumes, Gives, Returns, Leaves, Situated, GivesTree, StatementsOfTrees, StatementsOfBlocks,
      DeclaratorsOfTypes, SemicolonKinds
<1>41. CASE Parameters
  <2>1. Fits(Append(calls, [kind |-> "parameters", ty |-> value, list |-> <<>>]), "declarator")
    BY <1>41, <1>1, PushOne DEF Parameters, At
  <2>2. Fits(Append(Append(calls, [kind |-> "parameters", ty |-> value, list |-> <<>>]), [kind |-> "specifiers"]), "type")
    BY <2>1, PushOne DEF DeclaratorsOfTypes
  <2> QED
    BY <2>1, <2>2, <1>41, Situations, FitsStacked DEF Parameters, Leaves, Situated, Specifies, Qualifies
<1>42. CASE AnotherParameter
  <2>1. Fits(Popped, "type") /\ "kind" \in DOMAIN Top /\ Top.kind = "parameters"
    BY <1>42, <1>1, <1>2 DEF AnotherParameter, Resumes, At
  <2>2. LET f == [Top EXCEPT !.list = WithParameter(@, value)] IN "kind" \in DOMAIN f /\ f.kind = "parameters"
    BY <2>1, Zenon
  <2>3. Fits(Append(Popped, [Top EXCEPT !.list = WithParameter(@, value)]), "declarator")
    BY <2>1, <2>2, PushOne
  <2>4. Fits(Append(Append(Popped, [Top EXCEPT !.list = WithParameter(@, value)]), [kind |-> "specifiers"]), "type")
    BY <2>3, PushOne DEF DeclaratorsOfTypes
  <2> QED
    BY <2>1, <2>2, <2>3, <2>4, <1>42, Situations, FitsStacked DEF AnotherParameter, Leaves, Situated,
       Specifies, Qualifies
<1>43. CASE EndParameters
  BY <1>43, <1>1, <1>2, Situations, FitsStacked
  DEF EndParameters, At, Resumes, Gives, Returns, Leaves, Situated, GivesTree, StatementsOfTrees, StatementsOfBlocks,
      DeclaratorsOfTypes, SemicolonKinds
<1>44. CASE NotDeclared
  BY <1>44 DEF NotDeclared, Stays, Leaves, Situated
<1>45. CASE AnotherDeclarator
  <2>1. Fits(Popped, "none") /\ "kind" \in DOMAIN Top /\ Top.kind = "declaration"
    BY <1>45, <1>1, <1>2 DEF AnotherDeclarator, DeclaredTo, Resumes, At
  <2>2. LET f == [Top EXCEPT !.declared = Declared(value)] IN "kind" \in DOMAIN f /\ f.kind = "declaration"
    BY <2>1, Zenon
  <2>3. Fits(Append(Popped, [Top EXCEPT !.declared = Declared(value)]), "declarator")
    BY <2>1, <2>2, PushOne
  <2> QED
    BY <2>1, <2>2, <2>3, <1>45, Situations, FitsStacked DEF AnotherDeclarator, Leaves, Situated
<1>46. CASE Initializer
  <2>1. Fits((Popped \o <<[kind |-> "initializer"]>>) \o Expressions, "tree")
    BY <1>46, <1>1, <1>2, PushExpressions DEF Initializer, At, Resumes, GivesTree, DeclaredTo
  <2> QED
    BY <2>1, <1>46, Situations, FitsStacked DEF Initializer, Leaves, Situated, Reads, DeclaredTo
<1>48. CASE EndDeclarator
  BY <1>48, <1>1, <1>2, EndsDeclarationSituated, Situations, FitsStacked DEF EndDeclarator, Resumes, At,
     Leaves, Situated
<1>49. CASE Recover
  BY <1>49, <1>1, <1>2, EndsDeclarationSituated DEF Recover, Resumes, At, Stays, Leaves, Situated
<1>50. CASE UnitDeclaration
  <2>1. Fits(calls, "none")
    BY <1>50, <1>1, Situations DEF UnitDeclaration, Turn, At
  <2>2. Fits(Append(calls, [kind |-> "declaration", ty |-> IntType, declared |-> 0]), "declarator")
    BY <2>1, PushOne
  <2>3. Fits(Append(Append(calls, [kind |-> "declaration", ty |-> IntType, declared |-> 0]), [kind |-> "specifiers"]), "type")
    BY <2>2, PushOne DEF DeclaratorsOfTypes
  <2> QED
    BY <2>1, <2>2, <2>3, <1>50, Situations, FitsStacked DEF UnitDeclaration, Leaves, Situated, Declaration,
       Specifies, Qualifies
<1>51. CASE BlockDeclaration
  <2>1. Fits(calls, "none")
    BY <1>51, <1>1, Situations DEF BlockDeclaration, At
  <2>2. Fits(Append(calls, [kind |-> "declaration", ty |-> IntType, declared |-> 0]), "declarator")
    BY <2>1, PushOne
  <2>3. Fits(Append(Append(calls, [kind |-> "declaration", ty |-> IntType, declared |-> 0]), [kind |-> "specifiers"]), "type")
    BY <2>2, PushOne DEF DeclaratorsOfTypes
  <2> QED
    BY <2>1, <2>2, <2>3, <1>51, Situations, FitsStacked DEF BlockDeclaration, Leaves, Situated, Declaration,
       Specifies, Qualifies
<1>52. CASE UnitOther
  BY <1>52 DEF UnitOther, Stays, Leaves, Situated
<1>53. CASE FunctionDefinition
  <2>1. Fits(Popped, "none")
    BY <1>53, <1>1, <1>2 DEF FunctionDefinition, DeclaredTo, Resumes, At
  <2>2. Fits(Append(Popped, [kind |-> "function", begin |-> Newest(parser) + 1]), "block")
    BY <2>1, PushRules
  <2> QED
    BY <2>2, <1>53, OpenBlockSituated DEF FunctionDefinition
<1>54. CASE EndFunction
  BY <1>54, <1>1, <1>2, EndsDeclarationSituated DEF EndFunction, Resumes, At
<1>55. CASE BlockStatements
  BY <1>55, <1>1, <1>2, Situations, FitsStacked
  DEF BlockStatements, At, Resumes, Gives, Returns, Leaves, Situated, GivesTree, StatementsOfTrees, StatementsOfBlocks,
      DeclaratorsOfTypes, SemicolonKinds
<1>56. CASE BlockStatement
  <2>1. Fits(calls, "block")
    BY <1>56, <1>1, Situations DEF BlockStatement, At
  <2> QED
    BY <2>1, <1>56, Situations, FitsStacked DEF BlockStatement, Leaves, Situated, Begins
<1>57. CASE BlockTakes
  <2>1. Top.kind = "block" /\ "kind" \in DOMAIN Top /\ Fits(Popped, "block")
    BY <1>57, <1>1, <1>2 DEF BlockTakes, Resumes, At, StatementsOfBlocks
  <2>2. PICK taken : calls' = Append(Popped, [Top EXCEPT !.ret = taken.ret]) /\ mode' = "semicolons"
    BY <1>57 DEF BlockTakes, Takes, Leaves
  <2>3. "kind" \in DOMAIN [Top EXCEPT !.ret = taken.ret] /\ [Top EXCEPT !.ret = taken.ret].kind = "block"
    BY <2>1, Zenon
  <2>4. calls' # <<>> /\ Last(calls') = [Top EXCEPT !.ret = taken.ret] /\ Fits(calls', "block")
    BY <2>1, <2>2, <2>3, PushOne, FitsStacked DEF StatementsOfBlocks
  <2> QED
    BY <2>1, <2>2, <2>3, <2>4, <1>57, Situations, FitsStacked DEF BlockTakes, Leaves, Situated, SemicolonKinds
<1>58. CASE PassSemicolon
  BY <1>58 DEF PassSemicolon, Stays, Leaves, Situated
<1>59. CASE BlockGoesOn
  BY <1>59, <1>1, <1>2, Situations, FitsStacked
  DEF BlockGoesOn, At, Resumes, Gives, Returns, Leaves, Situated, GivesTree, StatementsOfTrees, StatementsOfBlocks,
      DeclaratorsOfTypes, SemicolonKinds, PastSemicolons
<1>60. CASE CloseBlock
  BY <1>60, <1>1, <1>2, Situations, FitsStacked
  DEF CloseBlock, At, Resumes, Gives, Returns, Leaves, Situated, GivesTree, StatementsOfTrees, StatementsOfBlocks,
      DeclaratorsOfTypes, SemicolonKinds
<1>61. CASE InnerBlock
  <2>1. Fits(calls, "block")
    BY <1>61, <1>1 DEF InnerBlock, At
  <2> QED
    BY <2>1, <1>61, OpenBlockSituated DEF InnerBlock
<1>62. CASE EmptyStatement
  BY <1>62, <1>1, Situations DEF EmptyStatement, AtStatement, Leaves, Situated
<1>63. CASE NoStatement
  BY <1>63, <1>1, <1>2, Situations, FitsStacked
  DEF NoStatement, AtStatement, At, Resumes, Gives, Returns, Leaves, Situated, GivesTree, StatementsOfTrees, StatementsOfBlocks,
      DeclaratorsOfTypes, SemicolonKinds
<1>64. CASE DoStatement
  BY <1>64, <1>1, <1>2, Situations, FitsStacked
  DEF DoStatement, AtStatement, At, Resumes, Gives, Returns, Leaves, Situated, GivesTree, StatementsOfTrees, StatementsOfBlocks,
      DeclaratorsOfTypes, SemicolonKinds
<1>65. CASE SwitchStatement
  BY <1>65 DEF SwitchStatement, AtStatement, Stays, Leaves, Situated
<1>66. CASE LateDeclaration
  BY <1>66 DEF LateDeclaration, AtStatement, Stays, Leaves, Situated
<1>67. CASE ExpressionStatement
  <2>1. Fits((calls \o <<[kind |-> "expression"]>>) \o Expressions, "tree")
    BY <1>67, <1>1, <1>2, PushExpressions DEF ExpressionStatement, AtStatement, At, Resumes, StatementsOfTrees
  <2> QED
    BY <2>1, <1>67, Situations, FitsStacked DEF ExpressionStatement, AtStatement, Leaves, Situated, Reads
<1>68. CASE AfterExpression
  BY <1>68, <1>1, <1>2, Situations, FitsStacked
  DEF AfterExpression, At, Resumes, Gives, Returns, Leaves, Situated, GivesTree, StatementsOfTrees, StatementsOfBlocks,
      DeclaratorsOfTypes, SemicolonKinds
<1>69. CASE EndExpression
  BY <1>69, <1>1, <1>2, Situations, FitsStacked
  DEF EndExpression, At, Resumes, Gives, Returns, Leaves, Situated, GivesTree, StatementsOfTrees, StatementsOfBlocks,
      DeclaratorsOfTypes, SemicolonKinds, PastSemicolons
<1>70. CASE BreakStatement
  BY <1>70, <1>1, <1>2, Situations, FitsStacked
  DEF BreakStatement, AtStatement, At, Resumes, Gives, Returns, Leaves, Situated, GivesTree, StatementsOfTrees, StatementsOfBlocks,
      DeclaratorsOfTypes, SemicolonKinds
<1>71. CASE ContinueStatement
  BY <1>71, <1>1, <1>2, Situations, FitsStacked
  DEF ContinueStatement, AtStatement, At, Resumes, Gives, Returns, Leaves, Situated, GivesTree, StatementsOfTrees, StatementsOfBlocks,
      DeclaratorsOfTypes, SemicolonKinds
<1>72. CASE ReturnStatement
  <2>1. Fits((calls \o <<[kind |-> "return"]>>) \o Expressions, "tree")
    BY <1>72, <1>1, <1>2, PushExpressions DEF ReturnStatement, AtStatement, At, Resumes, StatementsOfTrees
  <2> QED
    BY <2>1, <1>72, Situations, FitsStacked DEF ReturnStatement, AtStatement, Leaves, Situated, Reads
<1>73. CASE EndReturn
  BY <1>73, <1>1, <1>2, Situations, FitsStacked
  DEF EndReturn, At, Resumes, Gives, Returns, Leaves, Situated, GivesTree, StatementsOfTrees, StatementsOfBlocks,
      DeclaratorsOfTypes, SemicolonKinds
<1>74. CASE IfStatement
  <2>1. Fits((calls \o <<[kind |-> "if condition"]>>) \o Expressions, "tree")
    BY <1>74, <1>1, <1>2, PushExpressions DEF IfStatement, AtStatement, At, Resumes, StatementsOfTrees, OpenBracket
  <2> QED
    BY <2>1, <1>74, Situations, FitsStacked DEF IfStatement, AtStatement, Leaves, Situated, Reads, OpenBracket
<1>75. CASE IfBranch
  <2>1. Fits(Popped, "block")
    BY <1>75, <1>1, <1>2 DEF IfBranch, Resumes, At, StatementsOfTrees
  <2>2. \A f : "kind" \in DOMAIN f /\ f.kind \in StatementsOfBlocks => Fits(Append(Popped, f), "block")
    BY <2>1, PushOne
  <2>3. Fits(calls', "block")
    BY <2>2, <1>75 DEF IfBranch, Begins, Leaves, StatementsOfBlocks
  <2> QED
    BY <2>1, <2>2, <2>3, <1>75, Situations, FitsStacked DEF IfBranch, Leaves, Situated, Begins
<1>76. CASE AfterBranch
  <2>1. Top.kind = "if" /\ "kind" \in DOMAIN Top /\ Fits(Popped, "block")
    BY <1>76, <1>1, <1>2 DEF AfterBranch, Resumes, At, StatementsOfBlocks
  <2>2. "kind" \in DOMAIN [Top EXCEPT !.ret = value] /\ [Top EXCEPT !.ret = value].kind = "if"
    BY <2>1, Zenon
  <2>3. calls' # <<>> /\ Last(calls') = [Top EXCEPT !.ret = value] /\ Fits(calls', "block")
    BY <2>1, <2>2, <1>76, PushOne, FitsStacked DEF AfterBranch, Leaves, StatementsOfBlocks
  <2> QED
    BY <2>1, <2>2, <2>3, <1>76, Situations, FitsStacked DEF AfterBranch, Leaves, Situated, SemicolonKinds
<1>77. CASE EndIf
  BY <1>77, <1>1, <1>2, SelectMoves, Situations, FitsStacked DEF Situated, StatementsOfBlocks, StatementsOfTrees
<1>78. CASE ElseBranch
  <2>1. Fits(Popped, "block")
    BY <1>78, <1>1, <1>2, SelectMoves DEF StatementsOfBlocks, StatementsOfTrees
  <2>2. \A f : "kind" \in DOMAIN f /\ f.kind \in StatementsOfBlocks => Fits(Append(Popped, f), "block")
    BY <2>1, PushOne
  <2>3. Fits(calls', "block")
    BY <2>2, <1>78, SelectMoves DEF StatementsOfBlocks
  <2> QED
    BY <2>3, <1>78, SelectMoves, Situations, FitsStacked DEF Situated
<1>79. CASE EndElse
  BY <1>79, <1>1, <1>2, SelectMoves, Situations, FitsStacked DEF Situated, StatementsOfBlocks, StatementsOfTrees
<1>80. CASE WhileStatement
  <2>1. Fits((calls \o <<[kind |-> "while condition", head |-> parser.labels + 1]>>) \o Expressions, "tree")
    BY <1>80, <1>1, <1>2, PushExpressions DEF WhileStatement, AtStatement, At, Resumes, StatementsOfTrees, OpenBracket
  <2> QED
    BY <2>1, <1>80, Situations, FitsStacked DEF WhileStatement, AtStatement, Leaves, Situated, Reads, OpenBracket
<1>81. CASE WhileBody
  <2>1. Fits(Popped, "block")
    BY <1>81, <1>1, <1>2 DEF WhileBody, Resumes, At, StatementsOfBlocks, StatementsOfTrees
  <2>2. \A f : "kind" \in DOMAIN f /\ f.kind \in StatementsOfBlocks => Fits(Append(Popped, f), "block")
    BY <2>1, PushOne
  <2>3. Fits(calls', "block")
    BY <2>2, <1>81 DEF WhileBody, Begins, Leaves, StatementsOfBlocks
  <2> QED
    BY <2>1, <2>2, <2>3, <1>81, Situations, FitsStacked DEF WhileBody, Leaves, Situated, Begins
<1>82. CASE EndWhile
  BY <1>82, <1>1, <1>2, Situations, FitsStacked
  DEF EndWhile, At, Resumes, Gives, Returns, Leaves, Situated, GivesTree, StatementsOfTrees, StatementsOfBlocks,
      DeclaratorsOfTypes, SemicolonKinds
<1>83. CASE ForStatement
  <2>1. Fits((calls \o <<[kind |-> "for"]>>) \o Expressions, "tree")
    BY <1>83, <1>1, <1>2, PushExpressions DEF ForStatement, AtStatement, At, Resumes, StatementsOfTrees, OpenBracket
  <2> QED
    BY <2>1, <1>83, Situations, FitsStacked DEF ForStatement, AtStatement, Leaves, Situated, Reads, OpenBracket
<1>84. CASE ForCondition
  <2>1. Fits(Popped, "block")
    BY <1>84, <1>1, <1>2 DEF ForCondition, Resumes, At, StatementsOfTrees
  <2>2. \A f : "kind" \in DOMAIN f /\ f.kind \in StatementsOfTrees => Fits(Append(Popped, f) \o Expressions, "tree")
    BY <2>1, PushRules, ExpressionFrames
  <2>3. Fits(calls', "tree")
    BY <2>2, <1>84 DEF ForCondition, Reads, Leaves, StatementsOfTrees
  <2> QED
    BY <2>1, <2>2, <2>3, <1>84, Situations, FitsStacked DEF ForCondition, Leaves, Situated, Reads
<1>85. CASE ForStep
  <2>1. Fits(Popped, "block")
    BY <1>85, <1>1, <1>2 DEF ForStep, Resumes, At, StatementsOfTrees
  <2>2. \A f : "kind" \in DOMAIN f /\ f.kind \in StatementsOfTrees => Fits(Append(Popped, f) \o Expressions, "tree")
    BY <2>1, PushRules, ExpressionFrames
  <2>3. Fits(calls', "tree")
    BY <2>2, <1>85 DEF ForStep, Reads, Leaves, StatementsOfTrees
  <2> QED
    BY <2>1, <2>2, <2>3, <1>85, Situations, FitsStacked DEF ForStep, Leaves, Situated, Reads
<1>86. CASE ForBody
  <2>1. Fits(Popped, "block")
    BY <1>86, <1>1, <1>2 DEF ForBody, Resumes, At, StatementsOfBlocks, StatementsOfTrees
  <2>2. \A f : "kind" \in DOMAIN f /\ f.kind \in StatementsOfBlocks => Fits(Append(Popped, f), "block")
    BY <2>1, PushOne
  <2>3. Fits(calls', "block")
    BY <2>2, <1>86 DEF ForBody, Begins, Leaves, StatementsOfBlocks
  <2> QED
    BY <2>1, <2>2, <2>3, <1>86, Situations, FitsStacked DEF ForBody, Leaves, Situated, Begins
<1>87. CASE EndFor
  BY <1>87, <1>1, <1>2, Situations, FitsStacked
  DEF EndFor, At, Resumes, Gives, Returns, Leaves, Situated, GivesTree, StatementsOfTrees, StatementsOfBlocks,
      DeclaratorsOfTypes, SemicolonKinds
<1>88. CASE UNCHANGED vars
  BY <1>88 DEF vars, Situated
<1> QED
  BY <1>3, <1>4, <1>5, <1>6, <1>7, <1>8, <1>9, <1>10, <1>11, <1>12, <1>13, <1>14, <1>15, <1>16, <1>17,
     <1>18, <1>19, <1>20, <1>21, <1>22, <1>23, <1>24, <1>25, <1>26, <1>27, <1>28, <1>29, <1>30, <1>31,
     <1>32, <1>33, <1>34, <1>35, <1>36, <1>37, <1>38, <1>39, <1>40, <1>41, <1>42, <1>43, <1>44, <1>45,
     <1>46, <1>48, <1>49, <1>50, <1>51, <1>52, <1>53, <1>54, <1>55, <1>56, <1>57, <1>58, <1>59, <1>60,
     <1>61, <1>62, <1>63, <1>64, <1>65, <1>66, <1>67, <1>68, <1>69, <1>70, <1>71, <1>72, <1>73, <1>74,
     <1>75, <1>76, <1>77, <1>78, <1>79, <1>80, <1>81, <1>82, <1>83, <1>84, <1>85, <1>86, <1>87, <1>88
  DEF Next, Expression, Declarators, Statements

(* The parser begins with an empty stack.                                  *)
LEMMA StackInit ==
    ASSUME Init
    PROVE  Situated
<1>1. <<>> \in Seq({}) /\ Len(<<>>) = 0
  OBVIOUS
<1>2. Stacked(<<>>)
  BY <1>1 DEF Stacked, IsStack
<1> QED
  BY <1>2, Situations DEF Init, Situated

(* The recursive descent of decl.cc, expr.cc and stmt.cc: every function   *)
(* that waits gets back what it called for, a tree, a block, a type or a   *)
(* declarator, and the mode the parser is in is one that the waiting       *)
(* function expects, for every text.                                       *)
THEOREM StackCorrect == Spec => []Situated
<1>1. Init => Situated
  BY StackInit
<1>2. Situated /\ [Next]_vars => Situated'
  BY StepSituated
<1> QED
  BY <1>1, <1>2, PTL DEF Spec

-----------------------------------------------------------------------------
(* The parser is a record of these fields; the operations change those of  *)
(* the tokens, those of the code or those of the names.                    *)
Fields == {"text", "lexed", "cur", "pre", "prepre", "isFinish", "errors", "stop", "scopes", "verdict", "trees",
           "code", "tail", "labels", "lists", "printed"}
IsParser(p) == DOMAIN p = Fields
ComesFrom(b, p) == IsParser(p) /\ p.text = b.text /\ (Running(p) => Running(b))
SameTokens(b, p) ==
    ComesFrom(b, p) /\ p.lexed = b.lexed /\ p.cur = b.cur /\ p.pre = b.pre /\ p.prepre = b.prepre
SameCode(b, p) ==
    ComesFrom(b, p) /\ p.code = b.code /\ p.tail = b.tail /\ p.labels = b.labels /\ p.lists = b.lists
SameNames(b, p) == ComesFrom(b, p) /\ p.scopes = b.scopes

(* What only stops or reports keeps all of them.                           *)
Keeps(b, p) == SameTokens(b, p) /\ SameCode(b, p) /\ SameNames(b, p)
Writes(b, p) == SameTokens(b, p) /\ SameNames(b, p)
Scans(b, p) == SameCode(b, p) /\ SameNames(b, p)
Declares(b, p) == SameTokens(b, p) /\ SameCode(b, p)

(* One operation after another changes what either of them changes.        *)
LEMMA Chains ==
    ASSUME NEW b, NEW p, NEW q
    PROVE  /\ IsParser(b) => Keeps(b, b)
           /\ Keeps(p, q) => Writes(p, q) /\ Scans(p, q) /\ Declares(p, q)
           /\ Writes(b, p) /\ Writes(p, q) => Writes(b, q)
           /\ Scans(b, p) /\ Scans(p, q) => Scans(b, q)
           /\ Declares(b, p) /\ Declares(p, q) => Declares(b, q)
           /\ SameTokens(b, p) /\ SameTokens(p, q) => SameTokens(b, q)
           /\ SameCode(b, p) /\ SameCode(p, q) => SameCode(b, q)
           /\ SameNames(b, p) /\ SameNames(p, q) => SameNames(b, q)
           /\ Keeps(b, p) /\ Keeps(p, q) => Keeps(b, q)
  BY DEF Keeps, Writes, Scans, Declares, SameTokens, SameCode, SameNames, ComesFrom

(* Reports and stops change neither tokens nor code nor names.             *)
LEMMA Stops ==
    ASSUME NEW p, IsParser(p)
    PROVE  /\ \A w : Keeps(p, Stop(p, w)) /\ (w # "no" => ~Running(Stop(p, w)))
           /\ Keeps(p, Report(p))
           /\ Keeps(p, Misreport(p)) /\ ~Running(Misreport(p))
           /\ \A l : Keeps(p, Follow(p, l))
           /\ \A t : Keeps(p, Needed(p, t))
           /\ \A block : Keeps(p, Read(p, block))
           /\ \A b : Keeps(p, [p EXCEPT !.isFinish = b])
           /\ \A b : Keeps(p, [p EXCEPT !.trees = b])
           /\ \A b : Keeps(p, [p EXCEPT !.printed = b])
           /\ \A b : Keeps(p, [p EXCEPT !.verdict = b])
<1> USE DEF Keeps, SameTokens, SameCode, SameNames, ComesFrom, IsParser, Fields, Running
<1>1. ASSUME NEW q, IsParser(q), NEW w
      PROVE  Keeps(q, Stop(q, w)) /\ (w # "no" => ~Running(Stop(q, w)))
  BY <1>1 DEF Stop
<1>2. Keeps(p, Report(p))
  BY DEF Report
<1>3. Keeps(p, Misreport(p)) /\ ~Running(Misreport(p))
  <2>1. IsParser(Report(p))
    BY <1>2
  <2>2. Keeps(Report(p), Stop(Report(p), "undefined")) /\ ~Running(Stop(Report(p), "undefined"))
    BY <1>1, <2>1
  <2> QED
    BY <1>2, <2>2, Chains DEF Misreport
<1>4. Keeps(p, p)
  OBVIOUS
<1>5. \A l : Keeps(p, Follow(p, l))
  BY <1>1, <1>4 DEF Follow
<1>6. \A t : Keeps(p, Needed(p, t))
  BY <1>1, <1>4 DEF Needed
<1>7. \A block : Keeps(p, Read(p, block))
  BY <1>1, <1>4 DEF Read
<1>8. \A b : Keeps(p, [p EXCEPT !.isFinish = b])
  OBVIOUS
<1>9. \A b : Keeps(p, [p EXCEPT !.trees = b])
  OBVIOUS
<1>10. \A b : Keeps(p, [p EXCEPT !.printed = b])
  OBVIOUS
<1>11. \A b : Keeps(p, [p EXCEPT !.verdict = b])
  OBVIOUS
<1>12. \A w : Keeps(p, Stop(p, w)) /\ (w # "no" => ~Running(Stop(p, w)))
  BY <1>1
<1> QED
  BY ONLY <1>2, <1>3, <1>5, <1>6, <1>7, <1>8, <1>9, <1>10, <1>11, <1>12

(* Following a list handle, dead or alive, writes at most the verdict.     *)
LEMMA FollowWrites ==
    ASSUME NEW q, IsParser(q), NEW l
    PROVE  Writes(q, Follow(q, l)) /\ IsParser(Follow(q, l))
<1>1. Keeps(q, Follow(q, l))
  BY Stops
<1>2. Writes(q, Follow(q, l))
  BY ONLY <1>1, Chains
<1> QED
  BY ONLY <1>2 DEF Writes, SameTokens, ComesFrom

(* newIR(), appendIR() and the insertions of ir.cc change the code alone.  *)
LEMMA CodeWrites ==
    ASSUME NEW p, IsParser(p)
    PROVE  /\ \A op, d : Writes(p, Make(p, op, d))
           /\ Writes(p, MakeHead(p))
           /\ \A i : Writes(p, Append1(p, i))
           /\ \A i, j : Writes(p, InsertAfter(p, i, j))
           /\ \A i, j : Writes(p, InsertBefore(p, i, j))
           /\ Writes(p, FreshLabel(p))
           /\ \A i : Writes(p, MakeList(p, i))
           /\ \A k, l : Writes(p, Merge(p, k, l))
           /\ \A l, i : Writes(p, MergeOne(p, l, i))
           /\ \A l, label : Writes(p, PatchAll(p, l, label))
           /\ \A i, label : Writes(p, PatchOne(p, i, label))
           /\ Writes(p, ToEnd(p))
           /\ \A i, j : Writes(p, LinkChain(p, i, j))
           /\ \A i : Writes(p, [p EXCEPT !.tail = i])
<1> USE DEF Writes, SameTokens, SameNames, ComesFrom, IsParser, Fields, Running
<1>1. ASSUME NEW op, NEW d PROVE Writes(p, Make(p, op, d))
  BY DEF Make
<1>2. Writes(p, MakeHead(p))
  <2>1. IsParser(Make(p, "head", Unset))
    BY <1>1
  <2>2. ASSUME NEW q, IsParser(q), NEW i PROVE Writes(q, [q EXCEPT !.tail = i])
    BY <2>2
  <2>3. Writes(Make(p, "head", Unset), [Make(p, "head", Unset) EXCEPT !.tail = Newest(p) + 1])
    BY <2>1, <2>2
  <2>4. Writes(p, [Make(p, "head", Unset) EXCEPT !.tail = Newest(p) + 1])
    BY <1>1, <2>3, Chains
  <2> QED
    BY <2>4 DEF MakeHead
<1>3. ASSUME NEW i PROVE Writes(p, Append1(p, i))
  BY DEF Append1, Stop
<1>4. ASSUME NEW i, NEW j PROVE Writes(p, InsertAfter(p, i, j))
  BY SMTT(40) DEF InsertAfter, Stop
<1>5. ASSUME NEW i, NEW j PROVE Writes(p, InsertBefore(p, i, j))
  <2>1. Writes(p, Stop(p, "undefined"))
    BY Stops DEF Keeps
  <2>2. Writes(p, p)
    BY Chains
  <2> DEFINE pre == p.code[i].pre
  <2>3. Writes(p, InsertAfter(p, pre, j))
    BY <1>4
  <2>4. InsertBefore(p, i, j) \in {p, Stop(p, "undefined"), InsertAfter(p, pre, j)}
    BY ONLY DEF InsertBefore
  <2> HIDE DEF pre
  <2> QED
    BY ONLY <2>1, <2>2, <2>3, <2>4
<1>6. Writes(p, FreshLabel(p))
  BY DEF FreshLabel
<1>7. ASSUME NEW i PROVE Writes(p, MakeList(p, i))
  BY DEF MakeList
<1>8. ASSUME NEW i, NEW j PROVE Writes(p, [p EXCEPT !.lists[i] = j])
  OBVIOUS
<1>14. \A i : Writes(p, [p EXCEPT !.tail = i])
  OBVIOUS
<1>16. ASSUME NEW i, NEW j PROVE Writes(p, LinkChain(p, i, j))
  BY DEF LinkChain
<1>17. ASSUME NEW c PROVE Writes(p, [p EXCEPT !.code = c])
  OBVIOUS
<1>18. Writes(p, p)
  BY Chains
<1>19. ASSUME NEW q, Writes(p, q) PROVE IsParser(q)
  BY <1>19
<1> HIDE DEF Writes, SameTokens, SameNames, ComesFrom, IsParser, Fields, Running
<1>9. ASSUME NEW l PROVE Writes(p, Follow(p, l)) /\ IsParser(Follow(p, l))
  BY ONLY FollowWrites, IsParser(p)
<1>10. ASSUME NEW k, NEW l PROVE Writes(p, Merge(p, k, l))
  <2>1. Writes(Follow(p, k), Follow(Follow(p, k), l))
    BY ONLY <1>9, FollowWrites
  <2>2. Writes(p, Follow(Follow(p, k), l))
    BY ONLY <1>9, <2>1, Chains
  <2>3. Writes(p, [p EXCEPT !.lists[k] = p.lists[k] \o p.lists[l]])
    BY ONLY <1>8
  <2> QED
    BY ONLY <2>2, <2>3 DEF Merge
<1>11. ASSUME NEW l, NEW i PROVE Writes(p, MergeOne(p, l, i))
  BY ONLY <1>8, <1>9 DEF MergeOne
<1>12. ASSUME NEW l, NEW label PROVE Writes(p, PatchAll(p, l, label))
  <2> DEFINE c == Patched(p, l, label)
  <2> DEFINE q == PatchList(p, l, label)
  <2>1. q = [p EXCEPT !.code = c] \/ q = p
    BY ONLY DEF PatchList
  <2>2. PatchAll(p, l, label) = Follow(q, l)
    BY ONLY DEF PatchAll
  <2> HIDE DEF c, q
  <2>3. Writes(p, q) /\ IsParser(q)
    BY ONLY <2>1, <1>17, <1>18, <1>19
  <2>4. Writes(q, Follow(q, l))
    BY ONLY <2>3, FollowWrites
  <2> QED
    BY ONLY <2>2, <2>3, <2>4, Chains
<1>13. ASSUME NEW i, NEW label PROVE Writes(p, PatchOne(p, i, label))
  <2>1. PatchOne(p, i, label) = p \/ \E c : PatchOne(p, i, label) = [p EXCEPT !.code = c]
    BY ONLY DEF PatchOne
  <2> QED
    BY ONLY <2>1, <1>18, <1>17
<1>15. Writes(p, ToEnd(p))
  <2>1. Keeps(p, Stop(p, "hang"))
    BY ONLY Stops, IsParser(p)
  <2>2. Writes(p, Stop(p, "hang"))
    BY ONLY <2>1, Chains
  <2> QED
    BY ONLY <2>2, <1>14, <1>18 DEF ToEnd
<1> QED
  BY ONLY <1>1, <1>2, <1>3, <1>4, <1>5, <1>6, <1>7, <1>10, <1>11, <1>12, <1>13, <1>14, <1>15, <1>16

(* next(), pushBack() and need() of parser.cc change the tokens alone.     *)
LEMMA TokenScans ==
    ASSUME NEW p, IsParser(p)
    PROVE  /\ Scans(p, NextToken(p))
           /\ Scans(p, PushBack(p))
           /\ \A k : Scans(p, MustBe(p, k)) /\ Scans(p, Need(p, k))
           /\ Scans(p, MustBeConstant(p)) /\ Scans(p, NeedConstant(p))
<1>1. ASSUME NEW q, IsParser(q) PROVE Scans(q, NextToken(q)) /\ IsParser(NextToken(q))
  BY <1>1 DEF Scans, SameCode, SameNames, ComesFrom, IsParser, Fields, Running, NextToken
<1>2. ASSUME NEW q, IsParser(q) PROVE Scans(q, PushBack(q))
  BY <1>2 DEF Scans, SameCode, SameNames, ComesFrom, IsParser, Fields, Running, PushBack, Stop
<1>3. ASSUME NEW q, IsParser(q) PROVE Scans(q, Report(q)) /\ Scans(q, Misreport(q)) /\ Scans(q, q) /\ IsParser(Report(q))
  BY <1>3, Stops DEF Keeps, Scans, SameCode, SameNames, ComesFrom
<1>4. ASSUME NEW q, IsParser(q), NEW k PROVE Scans(q, MustBe(q, k))
  <2>1. Scans(q, PushBack(Report(q)))
    BY <1>2, <1>3, <1>4, Chains
  <2> QED
    BY <2>1, <1>3, <1>4 DEF MustBe
<1>5. ASSUME NEW q, IsParser(q) PROVE Scans(q, MustBeConstant(q))
  <2>1. IsParser(Report(q)) /\ Scans(q, Report(q))
    BY <1>3, <1>5
  <2>3. Keeps(Report(q), Stop(Report(q), "assert"))
    BY <2>1, Stops
  <2>4. Scans(Report(q), Stop(Report(q), "assert"))
    BY <2>3, Chains
  <2>5. Scans(q, Stop(Report(q), "assert"))
    BY <2>1, <2>4, Chains
  <2> QED
    BY <2>5, <1>3, <1>5 DEF MustBeConstant
<1>6. ASSUME NEW k PROVE Scans(p, Need(p, k))
  BY <1>1, <1>4, Chains DEF Need
<1>7. Scans(p, NeedConstant(p))
  BY <1>1, <1>5, Chains DEF NeedConstant
<1> QED
  BY <1>1, <1>2, <1>4, <1>5, <1>6, <1>7

(* enterEnv(), exitEnv() and newIdentifier() change the names alone.       *)
LEMMA NamesDeclare ==
    ASSUME NEW p, IsParser(p)
    PROVE  /\ Declares(p, EnterEnv(p))
           /\ Declares(p, ExitEnv(p))
           /\ \A name, ty : Declares(p, NewIdentifier(p, name, ty))
<1> USE DEF Declares, SameTokens, SameCode, ComesFrom, IsParser, Fields, Running
<1>1. Declares(p, EnterEnv(p))
  BY DEF EnterEnv
<1>2. Declares(p, ExitEnv(p))
  BY DEF ExitEnv
<1>3. ASSUME NEW name, NEW ty PROVE Declares(p, NewIdentifier(p, name, ty))
  <2>1. ASSUME NEW s PROVE Declares(p, [p EXCEPT !.scopes = s])
    OBVIOUS
  <2>2. Declares(p, p) /\ Declares(p, Misreport(p))
    BY Stops DEF Keeps
  <2> QED
    BY <2>1, <2>2 DEF NewIdentifier
<1> QED
  BY ONLY <1>1, <1>2, <1>3

-----------------------------------------------------------------------------
(* The functions that wait, as a set.                                      *)
Frames(s) == {s[d] : d \in 1 .. Len(s)}
ExpressionSet == {[kind |-> "conditional"], BinaryFrame(4), [kind |-> "assignment"], [kind |-> "expressions"]}

(* A call adds its frame to the set, and a return takes one away.          *)
LEMMA FramesAppended ==
    ASSUME NEW s, IsStack(s), NEW f
    PROVE  Frames(Append(s, f)) = Frames(s) \cup {f} /\ IsStack(Append(s, f))
<1> DEFINE t == Append(s, f)
<1>1. /\ Len(s) \in Nat /\ Len(t) = Len(s) + 1 /\ t[Len(s) + 1] = f
      /\ \A d \in 1 .. Len(s) : t[d] = s[d]
  <2>1. Len(s) \in Nat /\ Len(t) = Len(s) + 1 /\ Last(t) = f /\ \A d \in 1 .. Len(s) : t[d] = s[d]
    BY Pushed
  <2> QED
    BY <2>1 DEF Last
<1>2. IsStack(t)
  BY Pushed
<1> HIDE DEF t
<1>3. \A d : d \in 1 .. Len(t) <=> d \in 1 .. Len(s) \/ d = Len(s) + 1
  BY <1>1
<1>4. Frames(t) \subseteq Frames(s) \cup {f}
  BY <1>1, <1>3 DEF Frames
<1>5. Frames(s) \subseteq Frames(t)
  BY <1>1, <1>3 DEF Frames
<1>6. f \in Frames(t)
  BY <1>1, <1>3 DEF Frames
<1> QED
  BY <1>2, <1>4, <1>5, <1>6 DEF t

(* What is left after a return is some of what there was.                  *)
LEMMA FramesDropped ==
    ASSUME NEW s, IsStack(s), s # <<>>
    PROVE  /\ Frames(SubSeq(s, 1, Len(s) - 1)) \subseteq Frames(s)
           /\ IsStack(SubSeq(s, 1, Len(s) - 1))
           /\ s[Len(s)] \in Frames(s)
<1> DEFINE t == SubSeq(s, 1, Len(s) - 1)
<1>1. IsStack(t) /\ Len(s) \in Nat \ {0} /\ Len(t) = Len(s) - 1 /\ \A d \in 1 .. Len(t) : t[d] = s[d]
  BY Dropped
<1> HIDE DEF t
<1>2. Len(s) \in 1 .. Len(s) /\ \A d \in 1 .. Len(t) : d \in 1 .. Len(s)
  BY <1>1
<1>3. Frames(t) \subseteq Frames(s)
  BY <1>1, <1>2 DEF Frames
<1>4. s[Len(s)] \in Frames(s)
  BY <1>2 DEF Frames
<1> QED
  BY <1>1, <1>3, <1>4 DEF t

(* A call into an expression adds the frames of its levels only.           *)
LEMMA FramesOfExpression ==
    ASSUME NEW s, IsStack(s)
    PROVE  /\ Frames(s \o Conditional) \subseteq Frames(s) \cup ExpressionSet
           /\ Frames(s \o Assignment) \subseteq Frames(s) \cup ExpressionSet
           /\ Frames(s \o Expressions) \subseteq Frames(s) \cup ExpressionSet
           /\ IsStack(s \o Conditional) /\ IsStack(s \o Assignment) /\ IsStack(s \o Expressions)
<1> DEFINE F(k) == [kind |-> k]
           K == {F("conditional"), BinaryFrame(4), F("assignment"), F("expressions")}
<1>1. PICK S : s \in Seq(S)
  BY DEF IsStack
<1>2. s \in Seq(S \cup K)
  BY <1>1
<1>3. ASSUME NEW u, u \in Seq(S \cup K), NEW f \in K, NEW t \in Seq(S \cup K)
      PROVE  u \o (<<f>> \o t) = Append(u, f) \o t /\ Append(u, f) \in Seq(S \cup K)
  <2> f \in S \cup K
    OBVIOUS
  <2> QED
    BY <1>3
<1>4. /\ Conditional \in Seq(K) /\ Assignment \in Seq(K)
      /\ Conditional \in Seq(S \cup K) /\ Assignment \in Seq(S \cup K)
  BY DEF Conditional, Assignment
<1>5. ASSUME NEW u, u \in Seq(S \cup K)
      PROVE  /\ u \o Conditional = Append(Append(u, F("conditional")), BinaryFrame(4))
             /\ Frames(u \o Conditional) \subseteq Frames(u) \cup K
             /\ IsStack(u \o Conditional)
  <2>1. u \o <<F("conditional"), BinaryFrame(4)>> = Append(Append(u, F("conditional")), BinaryFrame(4))
    <3> F("conditional") \in S \cup K /\ BinaryFrame(4) \in S \cup K
      OBVIOUS
    <3> QED
      BY <1>5
  <2>2. IsStack(u)
    BY <1>5 DEF IsStack
  <2>3. IsStack(Append(u, F("conditional"))) /\ Frames(Append(u, F("conditional"))) = Frames(u) \cup {F("conditional")}
    BY <2>2, FramesAppended
  <2>4. Frames(Append(Append(u, F("conditional")), BinaryFrame(4))) = Frames(u) \cup {F("conditional")} \cup {BinaryFrame(4)}
    BY <2>3, FramesAppended
  <2> QED
    BY <2>1, <2>3, <2>4, FramesAppended DEF Conditional
<1>6. ASSUME NEW u, u \in Seq(S \cup K)
      PROVE  Frames(u \o Assignment) \subseteq Frames(u) \cup K /\ IsStack(u \o Assignment)
  <2>1. IsStack(u)
    BY <1>6 DEF IsStack
  <2>2. Frames(Append(u, F("assignment"))) = Frames(u) \cup {F("assignment")}
    BY <2>1, FramesAppended
  <2>3. u \o (<<F("assignment")>> \o Conditional) = Append(u, F("assignment")) \o Conditional
        /\ Append(u, F("assignment")) \in Seq(S \cup K)
    BY <1>3, <1>4, <1>6
  <2> HIDE DEF F
  <2>4. F("assignment") \in K
    BY DEF F
  <2> QED
    BY <2>2, <2>3, <2>4, <1>5 DEF Assignment, F
<1>7. Frames(s \o Expressions) \subseteq Frames(s) \cup K /\ IsStack(s \o Expressions)
  <2>2. Frames(Append(s, F("expressions"))) = Frames(s) \cup {F("expressions")}
    BY FramesAppended
  <2>3. s \o (<<F("expressions")>> \o Assignment) = Append(s, F("expressions")) \o Assignment
        /\ Append(s, F("expressions")) \in Seq(S \cup K)
    BY <1>2, <1>3, <1>4
  <2> HIDE DEF F
  <2>4. F("expressions") \in K
    BY DEF F
  <2> QED
    BY <2>2, <2>3, <2>4, <1>6 DEF Expressions, F
<1> QED
  BY <1>2, <1>5, <1>6, <1>7 DEF ExpressionSet

-----------------------------------------------------------------------------
(* What writes after writing has written: the rules by which the writing   *)
(* of a whole step follows from that of its parts.                         *)
LEMMA WritesCode ==
    ASSUME NEW b, NEW p, Writes(b, p)
    PROVE  /\ IsParser(p)
           /\ \A w : Writes(b, Stop(p, w))
           /\ Writes(b, Report(p)) /\ Writes(b, Misreport(p))
           /\ \A l : Writes(b, Follow(p, l))
           /\ \A t : Writes(b, Needed(p, t))
           /\ \A block : Writes(b, Read(p, block))
           /\ \A op, d : Writes(b, Make(p, op, d))
           /\ Writes(b, MakeHead(p))
           /\ \A i : Writes(b, Append1(p, i))
           /\ \A op : Writes(b, Emit(p, op))
           /\ \A op : Writes(b, EmitListed(p, op))
           /\ \A i, j : Writes(b, InsertAfter(p, i, j))
           /\ \A i, j : Writes(b, InsertBefore(p, i, j))
           /\ Writes(b, FreshLabel(p))
           /\ \A i : Writes(b, MakeList(p, i))
           /\ \A k, l : Writes(b, Merge(p, k, l))
           /\ \A l, i : Writes(b, MergeOne(p, l, i))
           /\ \A l, label : Writes(b, PatchAll(p, l, label))
           /\ \A i, label : Writes(b, PatchOne(p, i, label))
           /\ Writes(b, ToEnd(p))
           /\ \A i, j : Writes(b, LinkChain(p, i, j))
           /\ \A i : Writes(b, StartOf(p, i).p)
           /\ \A i : Writes(b, [p EXCEPT !.tail = i])
           /\ Writes(b, Labelled(p))
<1>1. IsParser(p)
  BY DEF Writes, SameTokens, ComesFrom
<1>2. ASSUME NEW q, Writes(p, q) PROVE Writes(b, q)
  BY <1>2, Chains
<1>3. ASSUME NEW q, Keeps(p, q) PROVE Writes(b, q)
  BY <1>2, <1>3, Chains
<1>4. ASSUME NEW w PROVE Writes(b, Stop(p, w))
  BY <1>1, <1>3, Stops
<1>5. Writes(b, Report(p)) /\ Writes(b, Misreport(p))
  BY <1>1, <1>3, Stops
<1>6. ASSUME NEW l PROVE Writes(b, Follow(p, l))
  BY <1>1, <1>3, Stops
<1>7. ASSUME NEW t PROVE Writes(b, Needed(p, t))
  BY <1>1, <1>3, Stops
<1>8. ASSUME NEW block PROVE Writes(b, Read(p, block))
  BY <1>1, <1>3, Stops
<1>9. /\ \A op, d : Writes(b, Make(p, op, d))
      /\ Writes(b, MakeHead(p))
      /\ \A i : Writes(b, Append1(p, i))
      /\ \A i, j : Writes(b, InsertAfter(p, i, j))
      /\ \A i, j : Writes(b, InsertBefore(p, i, j))
      /\ Writes(b, FreshLabel(p))
  BY <1>1, <1>2, CodeWrites
<1>10. /\ \A i : Writes(b, MakeList(p, i))
       /\ \A k, l : Writes(b, Merge(p, k, l))
       /\ \A l, i : Writes(b, MergeOne(p, l, i))
       /\ \A l, label : Writes(b, PatchAll(p, l, label))
       /\ \A i, label : Writes(b, PatchOne(p, i, label))
       /\ Writes(b, ToEnd(p))
       /\ \A i, j : Writes(b, LinkChain(p, i, j))
       /\ \A i : Writes(b, [p EXCEPT !.tail = i])
  BY <1>1, <1>2, CodeWrites
<1>11. ASSUME NEW op PROVE Writes(b, Emit(p, op)) /\ IsParser(Emit(p, op))
  <2>1. Writes(b, Make(p, op, Unset)) /\ IsParser(Make(p, op, Unset))
    BY <1>9 DEF Writes, SameTokens, ComesFrom
  <2>2. Writes(Make(p, op, Unset), Append1(Make(p, op, Unset), Newest(p) + 1))
    BY <2>1, CodeWrites
  <2>3. Writes(b, Emit(p, op))
    BY <2>1, <2>2, Chains DEF Emit
  <2> QED
    BY <2>3 DEF Writes, SameTokens, ComesFrom
<1>12. ASSUME NEW op PROVE Writes(b, EmitListed(p, op))
  <2>1. Writes(Emit(p, op), MakeList(Emit(p, op), Newest(p) + 1))
    BY <1>11, CodeWrites
  <2> QED
    BY <2>1, <1>11, Chains DEF EmitListed
<1>13. ASSUME NEW i PROVE Writes(b, StartOf(p, i).p)
  BY <1>6 DEF StartOf
<1>14. Writes(b, Labelled(p))
  <2>1. Writes(b, FreshLabel(p)) /\ IsParser(FreshLabel(p))
    BY <1>9 DEF Writes, SameTokens, ComesFrom
  <2>2. ASSUME NEW q, Writes(b, q) PROVE Writes(b, Emit(q, "label")) /\ IsParser(Emit(q, "label"))
    <3>0. IsParser(q)
      BY <2>2 DEF Writes, SameTokens, ComesFrom
    <3>4. Writes(q, Make(q, "label", Unset))
      BY <3>0, CodeWrites
    <3>5. Writes(b, Make(q, "label", Unset))
      BY <3>4, <2>2, Chains
    <3>1. Writes(b, Make(q, "label", Unset)) /\ IsParser(Make(q, "label", Unset))
      BY <3>4, <3>5 DEF Writes, SameTokens, ComesFrom
    <3>2. Writes(Make(q, "label", Unset), Append1(Make(q, "label", Unset), Newest(q) + 1))
      BY <3>1, CodeWrites
    <3>3. Writes(b, Emit(q, "label"))
      BY <3>1, <3>2, Chains DEF Emit
    <3> QED
      BY <3>3 DEF Writes, SameTokens, ComesFrom
  <2> DEFINE q == Emit(FreshLabel(p), "label")
  <2>3. Writes(b, q) /\ IsParser(q)
    BY <2>1, <2>2
  <2>4. Writes(q, PatchOne(q, Newest(q), q.labels))
    BY <2>3, CodeWrites
  <2>5. Writes(b, PatchOne(q, Newest(q), q.labels))
    BY <2>3, <2>4, Chains
  <2> QED
    BY <2>5 DEF Labelled
<1> QED
  BY ONLY <1>1, <1>4, <1>5, <1>6, <1>7, <1>8, <1>9, <1>10, <1>11, <1>12, <1>13, <1>14

UnaryOperators == {"*", "&", "+"}
BinaryOperators == {"||", "&&", "|", "^", "&", "==", "!=", "<", "<<", "+", "*", "++"}

(* The same for the trees and for the blocks.                              *)
LEMMA WritesSides ==
    ASSUME NEW b, NEW p, Writes(b, p), NEW left, NEW right
    PROVE  /\ Writes(b, BinaryOp(p, left, right))
           /\ \A node : Writes(b, Arithmetic(p, node, left, right).p)
           /\ \A node : Writes(b, CompareTree(p, node, left, right).p)
<1>1. Writes(b, BinaryOp(p, left, right))
  <2>1. Writes(b, Stop(p, "undefined")) /\ Writes(b, Needed(p, left))
    BY WritesCode
  <2>2. Writes(b, Needed(Needed(p, left), right))
    BY <2>1, WritesCode
  <2> QED
    BY <2>1, <2>2 DEF BinaryOp
<1>2. \A node : Writes(b, Arithmetic(p, node, left, right).p)
  BY <1>1 DEF Arithmetic
<1>3. Writes(b, EmitListed(BinaryOp(p, left, right), "test"))
  BY <1>1, WritesCode
<1>4. Writes(b, EmitListed(EmitListed(BinaryOp(p, left, right), "test"), "goto"))
  BY <1>3, WritesCode
<1>5. \A node : Writes(b, CompareTree(p, node, left, right).p)
  BY <1>4 DEF CompareTree
<1> QED
  BY <1>1, <1>2, <1>5

(* The code of conditions, of && and of || changes neither tokens nor      *)
(* names.                                                                  *)
LEMMA WritesLogic ==
    ASSUME NEW b, NEW p, Writes(b, p)
    PROVE  /\ \A t : Writes(b, Condition(p, t).p)
           /\ \A right, list : Writes(b, Between(p, right, list))
           /\ \A l, t : Writes(b, ANDtree(l, [p |-> p, t |-> t]).p)
           /\ \A l, t : Writes(b, ORtree(l, [p |-> p, t |-> t]).p)
<1>1. ASSUME NEW t PROVE Writes(b, Condition(p, t).p)
  BY WritesSides DEF Condition
<1>2. ASSUME NEW q, Writes(b, q), NEW right, NEW list PROVE Writes(b, Between(q, right, list))
  <2>1. Writes(b, FreshLabel(q))
    BY <1>2, WritesCode
  <2>2. Writes(b, Make(FreshLabel(q), "label", Unset))
    BY <2>1, WritesCode
  <2> DEFINE label == MakeList(Make(FreshLabel(q), "label", Unset), Newest(q) + 1)
             placed == InsertBefore(label, right.begin, Newest(q) + 1)
  <2>3. Writes(b, label)
    BY <2>2, WritesCode
  <2> HIDE DEF label
  <2>4. Writes(b, placed)
    BY <2>3, WritesCode
  <2> HIDE DEF placed
  <2>5. Writes(b, Merge(placed, list, NewestList(q) + 1))
    BY <2>4, WritesCode
  <2>6. Writes(b, PatchAll(Merge(placed, list, NewestList(q) + 1), list, q.labels + 1))
    BY <2>5, WritesCode
  <2> QED
    BY <2>6 DEF Between, label, placed
<1>3. ASSUME NEW l, NEW t PROVE Writes(b, ANDtree(l, [p |-> p, t |-> t]).p)
  <2> DEFINE q == Between(p, t, l.t.true)
  <2>1. Writes(b, q)
    BY <1>2
  <2> HIDE DEF q
  <2>2. Writes(b, Merge(q, l.t.false, t.false))
    BY <2>1, WritesCode
  <2> QED
    BY <2>2 DEF ANDtree, q
<1>4. ASSUME NEW l, NEW t PROVE Writes(b, ORtree(l, [p |-> p, t |-> t]).p)
  <2> DEFINE q == Between(p, t, l.t.false)
  <2>1. Writes(b, q)
    BY <1>2
  <2> HIDE DEF q
  <2>2. Writes(b, Merge(q, l.t.true, t.true))
    BY <2>1, WritesCode
  <2> QED
    BY <2>2 DEF ORtree, q
<1> QED
  BY <1>1, <1>2, <1>3, <1>4

(* A condition is a pair.                                                  *)
LEMMA ConditionPair ==
    ASSUME NEW p, NEW t
    PROVE  Condition(p, t) = [p |-> Condition(p, t).p, t |-> Condition(p, t).t]
<1>1. \A q, u : LET r == [p |-> q, t |-> u] IN r = [p |-> r.p, t |-> r.t]
  OBVIOUS
<1>2. CASE IsCmpTree(t) \/ IsLogTree(t)
  BY <1>1, <1>2 DEF Condition
<1>3. CASE ~(IsCmpTree(t) \/ IsLogTree(t))
  <2>1. Condition(p, t) = CompareTree(p, "eq", t, CONSTtree("0"))
    BY <1>3 DEF Condition
  <2> QED
    BY <1>1, <2>1 DEF CompareTree
<1> QED
  BY <1>2, <1>3

(* Building the tree of an operator changes the code alone.                *)
LEMMA WritesTree ==
    ASSUME NEW b, NEW p, Writes(b, p), NEW t
    PROVE  /\ \A op \in UnaryOperators : Writes(b, Applied(op, [p |-> p, t |-> t]).p)
           /\ \A op \in BinaryOperators : \A left : Writes(b, Combine(op, left, [p |-> p, t |-> t]).p)
           /\ \A left : Writes(b, ASGNtree([p |-> p, t |-> t], left).p)
           /\ \A array : Writes(b, ARRAYtree(array, [p |-> p, t |-> t]).p)
           /\ Writes(b, Decided([p |-> p, t |-> t]).p)
<1> DEFINE r == [p |-> p, t |-> t]
<1>1. \A w : Writes(b, Stop(p, w))
  BY WritesCode
<1>2. Writes(b, Indirect(r).p)
  BY <1>1 DEF Indirect
<1>3. Writes(b, Address(r).p)
  BY <1>1 DEF Address, Missing
<1>4. Writes(b, Signed(r).p)
  <2>1. Writes(b, IF t.type.op = "pointer" THEN Stop(p, "assert") ELSE p)
    BY <1>1
  <2> QED
    BY <2>1, WritesSides DEF Signed
<1>5. \A op \in UnaryOperators : Writes(b, Applied(op, r).p)
  BY <1>2, <1>3, <1>4 DEF Applied, UnaryOperators
<1>6. ASSUME NEW op, NEW left PROVE Writes(b, LogicTree(op, Condition(p, left), t).p)
  <2> DEFINE l == Condition(p, left)
             q == Condition(l.p, t).p
             u == Condition(l.p, t).t
  <2>1. Writes(b, l.p)
    BY WritesLogic
  <2>2. Writes(b, q)
    BY <2>1, WritesLogic
  <2>3. Condition(l.p, t) = [p |-> q, t |-> u]
    BY ConditionPair
  <2> HIDE DEF l, q, u
  <2>4. Writes(b, ANDtree(l, [p |-> q, t |-> u]).p) /\ Writes(b, ORtree(l, [p |-> q, t |-> u]).p)
    BY <2>2, WritesLogic
  <2>5. LogicTree(op, l, t).p = IF op = "&&" THEN ANDtree(l, [p |-> q, t |-> u]).p ELSE ORtree(l, [p |-> q, t |-> u]).p
    BY <2>3 DEF LogicTree
  <2> QED
    BY <2>4, <2>5 DEF l
<1>7. ASSUME NEW op \in BinaryOperators, NEW left PROVE Writes(b, Combine(op, left, r).p)
  <2>1. \A node : Writes(b, CompareTree(p, node, left, t).p) /\ Writes(b, Arithmetic(p, node, left, t).p)
    BY WritesSides
  <2>2. CASE op \in {"&&", "||"}
    BY <2>2, <1>6 DEF Combine
  <2>3. CASE op \in {"==", "!=", "<"}
    BY <2>3, <2>1 DEF Combine
  <2>4. CASE op \in {"|", "^", "&", "<<", "+", "*"}
    BY <2>4, <2>1 DEF Combine
  <2>5. CASE op = "++"
    BY <2>5, <1>1 DEF Combine
  <2> QED
    BY <2>2, <2>3, <2>4, <2>5 DEF BinaryOperators
<1>8. ASSUME NEW left PROVE Writes(b, ASGNtree(r, left).p)
  <2> DEFINE q == IF left.type.op \in {"array", "function"} THEN Stop(p, "thrown") ELSE p
  <2>1. Writes(b, q)
    BY <1>1
  <2> HIDE DEF q
  <2>2. Writes(b, Needed(q, left))
    BY <2>1, WritesCode
  <2>3. Writes(b, Needed(Needed(q, left), t))
    BY <2>2, WritesCode
  <2>4. Writes(b, Emit(Needed(Needed(q, left), t), "code"))
    BY <2>3, WritesCode
  <2> QED
    BY <2>4 DEF ASGNtree, q
<1>9. ASSUME NEW array PROVE Writes(b, ARRAYtree(array, r).p)
  <2> DEFINE offset == Arithmetic(Needed(p, array), "mul", CONSTtree("size"), t)
  <2>1. Writes(b, Needed(p, array))
    BY WritesCode
  <2>2. Writes(b, offset.p)
    BY <2>1, WritesSides
  <2> HIDE DEF offset
  <2>3. Writes(b, Arithmetic(offset.p, "add", array, offset.t).p)
    BY <2>2, WritesSides
  <2> QED
    BY <2>3, <1>1 DEF ARRAYtree, offset
<1>10. Writes(b, Decided(r).p)
  <2> DEFINE c == CompareTree(p, "eq", t, CONSTtree("0"))
  <2>1. Writes(b, c.p)
    BY WritesSides
  <2>2. Writes(b, EmitListed(c.p, "pad")) /\ Writes(b, Needed(p, t))
    BY <2>1, WritesCode
  <2>3. CASE t.node = "id"
    BY <2>2, <2>3 DEF Decided, CompareTree
  <2>4. CASE t.node # "id"
    BY <2>2, <2>4 DEF Decided
  <2> QED
    BY <2>3, <2>4
<1> QED
  BY <1>5, <1>7, <1>8, <1>9, <1>10

(* Joining the lists of two blocks changes the code alone.                 *)
LEMMA WritesBlock ==
    ASSUME NEW b, NEW p, Writes(b, p), NEW ret, NEW block
    PROVE  /\ Writes(b, TakeLists(p, ret, block).p)
           /\ Writes(b, Joined(p, ret, block).p)
<1>1. ASSUME NEW q, Writes(b, q), NEW k, NEW l PROVE Writes(b, Merge(q, k, l))
  BY <1>1, WritesCode
<1>2. ASSUME NEW q, Writes(b, q), NEW r PROVE Writes(b, TakeBreaks(q, r, block).p)
  BY <1>1, <1>2 DEF TakeBreaks
<1>3. ASSUME NEW q, Writes(b, q), NEW r PROVE Writes(b, TakeContinues(q, r, block).p)
  BY <1>1, <1>3 DEF TakeContinues
<1>4. Writes(b, TakeLists(p, ret, block).p)
  <2> DEFINE q == IF block.next = Null THEN p ELSE Merge(p, ret.next, block.next)
             breaks == TakeBreaks(q, ret, block)
  <2>1. Writes(b, q)
    BY <1>1
  <2> HIDE DEF q
  <2>2. Writes(b, breaks.p)
    BY <2>1, <1>2
  <2> HIDE DEF breaks
  <2>3. Writes(b, TakeContinues(breaks.p, breaks.ret, block).p)
    BY <2>2, <1>3
  <2> QED
    BY <2>3 DEF TakeLists, breaks, q
<1>5. Writes(b, Joined(p, ret, block).p)
  <2> DEFINE breaks == IF block.break = Null THEN [p |-> p, l |-> ret.break]
                       ELSE IF ret.break = Null THEN [p |-> p, l |-> block.break]
                       ELSE [p |-> Merge(p, ret.break, block.break), l |-> ret.break]
  <2>1. Writes(b, breaks.p)
    BY <1>1
  <2> HIDE DEF breaks
  <2>2. Writes(b, Merge(breaks.p, ret.continue, block.continue))
    BY <2>1, <1>1
  <2> QED
    BY <2>1, <2>2 DEF Joined, breaks
<1> QED
  BY <1>4, <1>5

-----------------------------------------------------------------------------
(* The tokens.  They are places of the text that the lexer has come to; in *)
(* a text without an else at most one of them waits, and where one waits   *)
(* there is no current one.                                                *)
Typed(p) ==
    /\ p.text \in Programs
    /\ p.lexed \in 1 .. Len(p.text)
    /\ p.cur \in 0 .. p.lexed /\ p.pre \in 0 .. p.lexed /\ p.prepre \in 0 .. p.lexed
Came(b, p) == ComesFrom(b, p) /\ Typed(p)
One(p) ==
    IsParser(p) /\ (Running(p) => p.prepre = 0 /\ p.pre = 0 /\ p.cur \in {0, p.lexed})
GivenBack(p) == p.prepre = 0 /\ p.cur = 0 /\ p.pre = p.lexed
Either(p) == One(p) \/ (IsParser(p) /\ GivenBack(p))

(* What takes no token and gives none back leaves them as they are.        *)
LEMMA TokensKept ==
    ASSUME NEW b, NEW p, SameTokens(b, p)
    PROVE  /\ \A a : Came(a, b) => Came(a, p)
           /\ One(b) => One(p)
           /\ Either(b) => Either(p)
  BY DEF SameTokens, ComesFrom, Came, Typed, One, Either, GivenBack

(* next(), pushBack() and need() of one waiting token at the most.         *)
LEMMA TokensMoved ==
    ASSUME NEW p
    PROVE  /\ One(p) => Either(p)
           /\ Either(p) => One(NextToken(p)) /\ \A k : Either(Need(p, k))
           /\ One(p) => Either(PushBack(p))
           /\ Either(p) => One(NeedConstant(p))
           /\ One(p) => One(Report(p)) /\ One(Misreport(p)) /\ \A w : One(Stop(p, w))
           /\ Either(p) => Either(Report(p)) /\ Either(Misreport(p)) /\ \A w : Either(Stop(p, w))
<1>1. One(p) => Either(p)
  BY DEF Either
<1>2. ASSUME NEW q, Either(q) PROVE One(NextToken(q))
  <2>1. IsParser(q)
    BY <1>2 DEF Either, One
  <2>2. CASE ~Running(q)
    BY <2>1, <2>2 DEF NextToken, One
  <2>3. CASE Running(q) /\ q.pre = 0
    BY <2>1, <2>3, <1>2 DEF NextToken, One, Either, GivenBack, IsParser, Fields, NullToken
  <2>4. CASE Running(q) /\ q.pre # 0
    BY <2>1, <2>4, <1>2 DEF NextToken, One, Either, GivenBack, IsParser, Fields, NullToken
  <2> QED
    BY <2>2, <2>3, <2>4
<1>3. ASSUME NEW q, One(q) PROVE Either(PushBack(q))
  <2>1. IsParser(q)
    BY <1>3 DEF One
  <2>2. CASE ~Running(q)
    BY <2>1, <2>2 DEF PushBack, One, Either
  <2>3. CASE Running(q)
    <3>1. PushBack(q) = [q EXCEPT !.pre = q.cur, !.cur = 0]
      BY <1>3, <2>3 DEF PushBack, One, NullToken
    <3> QED
      BY <2>1, <2>3, <3>1, <1>3 DEF One, Either, GivenBack, IsParser, Fields
  <2> QED
    BY <2>2, <2>3
<1>4. ASSUME NEW q, NEW w PROVE /\ One(q) => One(Report(q)) /\ One(Misreport(q)) /\ One(Stop(q, w))
                                /\ Either(q) => Either(Report(q)) /\ Either(Misreport(q)) /\ Either(Stop(q, w))
  <2>1. IsParser(q) => SameTokens(q, Report(q)) /\ SameTokens(q, Misreport(q)) /\ SameTokens(q, Stop(q, w))
    BY Stops DEF Keeps
  <2>2. One(q) \/ Either(q) => IsParser(q)
    BY DEF One, Either
  <2> QED
    BY <2>1, <2>2, TokensKept
<1>5. ASSUME NEW q, One(q), NEW k PROVE Either(MustBe(q, k))
  <2>1. Either(PushBack(Report(q))) /\ Either(Misreport(q)) /\ Either(q)
    BY <1>3, <1>4, <1>5 DEF Either
  <2> QED
    BY <2>1 DEF MustBe
<1>6. ASSUME NEW q, One(q) PROVE One(MustBeConstant(q))
  <2>1. One(Misreport(q)) /\ One(Stop(Report(q), "assert"))
    BY <1>4, <1>6
  <2> QED
    BY <2>1, <1>6 DEF MustBeConstant
<1> QED
  BY <1>1, <1>2, <1>3, <1>4, <1>5, <1>6 DEF Need, NeedConstant

(* The tokens stay places that the lexer has come to.                      *)
LEMMA TokensTyped ==
    ASSUME NEW b, NEW p, Came(b, p)
    PROVE  /\ IsParser(p)
           /\ Came(b, NextToken(p)) /\ Came(b, PushBack(p))
           /\ \A k : Came(b, MustBe(p, k)) /\ Came(b, Need(p, k))
           /\ Came(b, MustBeConstant(p)) /\ Came(b, NeedConstant(p))
           /\ Came(b, Report(p)) /\ Came(b, Misreport(p)) /\ \A w : Came(b, Stop(p, w))
<1>1. ASSUME NEW q, Came(b, q) PROVE IsParser(q) /\ Len(q.text) \in Nat \ {0}
  BY <1>1, ProgramsAssumption DEF Came, ComesFrom, Typed
<1>2. ASSUME NEW q, Came(b, q) PROVE Came(b, NextToken(q))
  <2>1. IsParser(q) /\ Len(q.text) \in Nat \ {0}
    BY <1>1, <1>2
  <2>2. CASE ~Running(q)
    BY <1>2, <2>2 DEF NextToken
  <2>3. CASE Running(q) /\ q.prepre # 0
    BY <2>1, <2>3, <1>2 DEF NextToken, Came, ComesFrom, Typed, IsParser, Fields, NullToken, Running
  <2>4. CASE Running(q) /\ q.prepre = 0 /\ q.pre # 0
    BY <2>1, <2>4, <1>2 DEF NextToken, Came, ComesFrom, Typed, IsParser, Fields, NullToken, Running
  <2>5. CASE Running(q) /\ q.prepre = 0 /\ q.pre = 0 /\ q.lexed < Len(q.text)
    <3> DEFINE n == [q EXCEPT !.lexed = @ + 1, !.cur = q.lexed + 1]
    <3>1. NextToken(q) = n
      BY <2>5 DEF NextToken, NullToken
    <3>2. /\ IsParser(n) /\ n.text = q.text /\ n.lexed = q.lexed + 1 /\ n.cur = q.lexed + 1 /\ n.pre = q.pre
          /\ n.prepre = q.prepre /\ n.stop = q.stop
      BY <2>1 DEF IsParser, Fields
    <3> HIDE DEF n
    <3>3. q.lexed \in 1 .. Len(q.text) /\ q.lexed + 1 \in 1 .. Len(q.text) /\ 0 \in 0 .. q.lexed + 1 /\ q.lexed + 1 \in 0 .. q.lexed + 1
      BY <2>1, <2>5, <1>2 DEF Came, Typed
    <3> QED
      BY <3>1, <3>2, <3>3, <2>5, <1>2 DEF Came, ComesFrom, Typed, Running
  <2>6. CASE Running(q) /\ q.prepre = 0 /\ q.pre = 0 /\ ~(q.lexed < Len(q.text))
    <3> DEFINE n == [q EXCEPT !.cur = NullToken, !.stop = IF q.isFinish THEN "no" ELSE "fatal"]
    <3>1. NextToken(q) = n
      BY <2>6 DEF NextToken, NullToken
    <3>2. /\ IsParser(n) /\ n.text = q.text /\ n.lexed = q.lexed /\ n.cur = 0 /\ n.pre = q.pre /\ n.prepre = q.prepre
      BY <2>1 DEF IsParser, Fields, NullToken
    <3> HIDE DEF n
    <3> QED
      BY <3>1, <3>2, <2>1, <2>6, <1>2 DEF Came, ComesFrom, Typed, Running
  <2> QED
    BY <2>2, <2>3, <2>4, <2>5, <2>6
<1>3. ASSUME NEW q, Came(b, q) PROVE Came(b, Report(q)) /\ Came(b, Misreport(q)) /\ \A w : Came(b, Stop(q, w))
  <2>1. SameTokens(q, Report(q)) /\ SameTokens(q, Misreport(q)) /\ \A w : SameTokens(q, Stop(q, w))
    BY <1>1, <1>3, Stops DEF Keeps
  <2> QED
    BY <2>1, <1>3, TokensKept
<1>4. ASSUME NEW q, Came(b, q) PROVE Came(b, PushBack(q))
  <2>1. IsParser(q) /\ Len(q.text) \in Nat \ {0}
    BY <1>1, <1>4
  <2>2. CASE ~Running(q)
    BY <1>4, <2>2 DEF PushBack
  <2>3. CASE Running(q) /\ q.pre = 0
    BY <2>1, <2>3, <1>4 DEF PushBack, Came, ComesFrom, Typed, IsParser, Fields, NullToken, Running
  <2>4. CASE Running(q) /\ q.pre # 0 /\ q.prepre = 0
    BY <2>1, <2>4, <1>4 DEF PushBack, Came, ComesFrom, Typed, IsParser, Fields, NullToken, Running
  <2>5. CASE Running(q) /\ q.pre # 0 /\ q.prepre # 0
    BY <1>3, <2>5, <1>4 DEF PushBack, NullToken
  <2> QED
    BY <2>2, <2>3, <2>4, <2>5
<1>5. ASSUME NEW q, Came(b, q), NEW k PROVE Came(b, MustBe(q, k))
  <2>1. Came(b, PushBack(Report(q))) /\ Came(b, Misreport(q))
    BY <1>3, <1>4, <1>5
  <2> QED
    BY <2>1, <1>5 DEF MustBe
<1>6. ASSUME NEW q, Came(b, q) PROVE Came(b, MustBeConstant(q))
  <2>1. Came(b, Misreport(q)) /\ Came(b, Stop(Report(q), "assert"))
    BY <1>3, <1>6
  <2> QED
    BY <2>1, <1>6 DEF MustBeConstant
<1> QED
  BY <1>1, <1>2, <1>3, <1>4, <1>5, <1>6 DEF Need, NeedConstant

-----------------------------------------------------------------------------
(* What the frames of operators hold, and which frames there are only in   *)
(* texts with an else or a for.                                            *)
ForKinds == {"for", "for condition", "for step", "for body"}
Special == {"unary", "right", "binary", "else"} \cup ForKinds
Sound(f) ==
    /\ f.kind = "unary" => f.op \in UnaryOperators
    /\ f.kind = "right" => f.op \in BinaryOperators
    /\ f.kind = "binary" => f.least \in 4 .. 15 /\ f.most \in Nat /\ {"least", "most"} \subseteq DOMAIN f
    /\ f.kind = "else" => HasElse
    /\ f.kind \in ForKinds => HasFor
Framed == \A f \in Frames(calls) : Sound(f)

(* From level 4 on the operators have two sides.                           *)
LEMMA LevelBinary ==
    ASSUME NEW p
    PROVE  Level(p) \in 0 .. 14 /\ (Level(p) >= 4 => Cur(p) \in BinaryOperators)
<1> DEFINE op == Cur(p)
<1>1. DOMAIN Levels = 1 .. 14
  BY DEF Levels
<1>2. CASE op \notin DOMAIN LevelOf
  BY <1>2 DEF Level
<1>3. CASE op \in DOMAIN LevelOf
  <2>1. PICK level \in DOMAIN Levels : op \in Levels[level]
    BY <1>3 DEF LevelOf
  <2> DEFINE k == CHOOSE l \in DOMAIN Levels : op \in Levels[l]
  <2>2. k \in DOMAIN Levels /\ op \in Levels[k]
    BY <2>1
  <2>3. Level(p) = k
    BY <1>3 DEF Level, LevelOf
  <2> HIDE DEF k, op
  <2>4. k \in 4 .. 14 => op \in BinaryOperators
    <3>1. /\ Levels[4] = {"||"} /\ Levels[5] = {"&&"} /\ Levels[6] = {"|"} /\ Levels[7] = {"^"} /\ Levels[8] = {"&"}
          /\ Levels[9] = {"==", "!="} /\ Levels[10] = {"<"} /\ Levels[11] = {"<<"} /\ Levels[12] = {"+"}
          /\ Levels[13] = {"*"} /\ Levels[14] = {"++"}
      BY DEF Levels
    <3>2. k \in 4 .. 14 => k \in {4, 5, 6, 7, 8, 9, 10, 11, 12, 13, 14}
      BY <1>1, <2>2
    <3> QED
      BY <3>1, <3>2, <2>2 DEF BinaryOperators
  <2> QED
    BY <1>1, <2>2, <2>3, <2>4 DEF op
<1> QED
  BY <1>2, <1>3

(* A frame of no special kind is sound, and so are those of an expression. *)
LEMMA FrameSound ==
    ASSUME NEW f
    PROVE  /\ f.kind \notin Special => Sound(f) /\ Sound(f)'
           /\ f \in ExpressionSet => Sound(f) /\ Sound(f)'
<1>1. f.kind \notin Special => Sound(f) /\ Sound(f)'
  BY DEF Sound, Special
<1>2. f \in ExpressionSet => Sound(f) /\ Sound(f)'
  <2>1. CASE f = BinaryFrame(4)
    <3>1. f.kind = "binary" /\ f.least = 4 /\ f.most = 14 /\ {"least", "most"} \subseteq DOMAIN f
      BY <2>1 DEF BinaryFrame, Levels
    <3> QED
      BY <3>1 DEF Sound, ForKinds
  <2>2. CASE f \in {[kind |-> "conditional"], [kind |-> "assignment"], [kind |-> "expressions"]}
    <3>1. f.kind \in {"conditional", "assignment", "expressions"}
      BY <2>2
    <3>2. f.kind \notin Special
      BY <3>1 DEF Special, ForKinds
    <3> QED
      BY <3>2, <1>1
  <2> QED
    BY <2>1, <2>2 DEF ExpressionSet
<1> QED
  BY <1>1, <1>2

(* What a frame holds is about the text, which no step changes.            *)
LEMMA FrameStays ==
    ASSUME parser'.text = parser.text, NEW f, Sound(f)
    PROVE  Sound(f)'
  BY DEF Sound, HasElse, HasFor

(* Sound frames on top of sound frames are sound.                          *)
LEMMA FramesSound ==
    ASSUME parser'.text = parser.text, Framed, NEW s, IsStack(s), Frames(s) \subseteq Frames(calls)
    PROVE  /\ calls' = s => Framed'
           /\ \A f : Sound(f) /\ calls' = Append(s, f) => Framed'
           /\ \A f, g : Sound(f) /\ Sound(g) /\ calls' = Append(Append(s, f), g) => Framed'
           /\ \A f, g, h : Sound(f) /\ Sound(g) /\ Sound(h) /\ calls' = s \o <<f, g, h>> => Framed'
           /\ \A f : Sound(f) /\ calls' = (s \o <<f>>) \o Conditional => Framed'
           /\ \A f : Sound(f) /\ calls' = (s \o <<f>>) \o Assignment => Framed'
           /\ \A f : Sound(f) /\ calls' = (s \o <<f>>) \o Expressions => Framed'
<1>1. \A f \in Frames(s) : Sound(f)'
  BY FrameStays DEF Framed
<1>2. \A f \in ExpressionSet : Sound(f)'
  BY FrameSound
<1>9. \A f : Sound(f) => Sound(f)'
  BY FrameStays
<1>3. calls' = s => Framed'
  BY <1>1 DEF Framed
<1>4. ASSUME NEW f, Sound(f)
      PROVE  /\ IsStack(Append(s, f)) /\ s \o <<f>> = Append(s, f)
             /\ \A g \in Frames(Append(s, f)) : Sound(g)'
  <2>1. IsStack(Append(s, f)) /\ s \o <<f>> = Append(s, f) /\ Frames(Append(s, f)) = Frames(s) \cup {f}
    BY FramesAppended, Pushed
  <2> QED
    BY <2>1, <1>1, <1>4, <1>9
<1>5. ASSUME NEW f, Sound(f), calls' = Append(s, f) PROVE Framed'
  BY <1>4, <1>5 DEF Framed
<1>6. ASSUME NEW f, NEW g, Sound(f), Sound(g), calls' = Append(Append(s, f), g) PROVE Framed'
  <2>1. IsStack(Append(s, f)) /\ \A k \in Frames(Append(s, f)) : Sound(k)'
    BY <1>4, <1>6
  <2>2. Frames(calls') = Frames(Append(s, f)) \cup {g}
    BY <2>1, <1>6, FramesAppended
  <2> QED
    BY <2>1, <2>2, <1>6, <1>9 DEF Framed
<1>7. ASSUME NEW f, NEW g, NEW h, Sound(f), Sound(g), Sound(h), calls' = s \o <<f, g, h>> PROVE Framed'
  <2>1. IsStack(Append(s, f)) /\ \A k \in Frames(Append(s, f)) : Sound(k)'
    BY <1>4, <1>7
  <2>2. /\ IsStack(Append(Append(s, f), g))
        /\ Frames(Append(Append(s, f), g)) = Frames(Append(s, f)) \cup {g}
    BY <2>1, FramesAppended
  <2>3. Frames(Append(Append(Append(s, f), g), h)) = Frames(Append(s, f)) \cup {g} \cup {h}
    BY <2>2, FramesAppended
  <2>4. PICK S : s \in Seq(S)
    BY DEF IsStack
  <2>5. s \in Seq(S \cup {f, g, h})
    BY <2>4
  <2>6. s \o <<f, g, h>> = Append(Append(Append(s, f), g), h)
    BY <2>5
  <2> QED
    <3>1. Frames(calls') = Frames(Append(s, f)) \cup {g} \cup {h}
      BY <2>3, <2>6, <1>7
    <3>2. \A k \in Frames(calls') : Sound(k)'
      BY ONLY <3>1, <2>1, <1>7, <1>9
    <3> QED
      BY <3>2 DEF Framed
<1>8. ASSUME NEW f, Sound(f),
             calls' \in {(s \o <<f>>) \o Conditional, (s \o <<f>>) \o Assignment, (s \o <<f>>) \o Expressions}
      PROVE  Framed'
  <2> DEFINE t == s \o <<f>>
  <2>1. IsStack(t) /\ \A k \in Frames(t) : Sound(k)'
    BY <1>4, <1>8
  <2> HIDE DEF t
  <2>2. /\ Frames(t \o Conditional) \subseteq Frames(t) \cup ExpressionSet
        /\ Frames(t \o Assignment) \subseteq Frames(t) \cup ExpressionSet
        /\ Frames(t \o Expressions) \subseteq Frames(t) \cup ExpressionSet
    BY <2>1, FramesOfExpression
  <2>3. calls' \in {t \o Conditional, t \o Assignment, t \o Expressions}
    BY <1>8 DEF t
  <2>4. Frames(calls') \subseteq Frames(t) \cup ExpressionSet
    BY <2>2, <2>3
  <2> QED
    BY <2>1, <2>4, <1>2 DEF Framed
<1> QED
  BY <1>3, <1>5, <1>6, <1>7, <1>8

(* A frame of a level of binary operators.                                 *)
LEMMA BinarySound ==
    ASSUME NEW f, f.kind = "binary", f.least \in 4 .. 15, f.most \in Nat, {"least", "most"} \subseteq DOMAIN f
    PROVE  Sound(f)
  BY DEF Sound, ForKinds

(* Frames of no special kind.                                              *)
LEMMA KindSound ==
    ASSUME NEW f
    PROVE  /\ f.kind = "parameters" => Sound(f)
           /\ f.kind = "declaration" => Sound(f)
           /\ f.kind = "block" => Sound(f)
           /\ f.kind = "if" => Sound(f)
  BY DEF Sound, ForKinds

(* Every step pushes frames that are sound.                                *)
LEMMA StepFramed ==
    ASSUME Situated, Framed, Typed(parser), parser'.text = parser.text, [Next]_vars
    PROVE  Framed'
<1>1. /\ IsStack(calls) /\ Frames(calls) \subseteq Frames(calls)
      /\ mode # "unit" => calls # <<>>
  BY Entering
<1>2. calls # <<>> =>
         /\ IsStack(Popped) /\ Frames(Popped) \subseteq Frames(calls)
         /\ Sound(Top) /\ "kind" \in DOMAIN Top
  <2>1. calls # <<>> => IsStack(Popped) /\ Frames(Popped) \subseteq Frames(calls) /\ Top \in Frames(calls)
    BY <1>1, FramesDropped DEF Popped, Top
  <2>2. calls # <<>> => "kind" \in DOMAIN Top
    BY Entering, Leaving
  <2> QED
    BY <2>1, <2>2 DEF Framed
<1>3. CASE PrimaryOperand
  BY <1>3, <1>1, <1>2, FramesSound DEF PrimaryOperand, Stays, Gives, Returns, Leaves, At, Resumes
<1>4. CASE EndBracket
  BY <1>4, <1>1, <1>2, FramesSound DEF EndBracket, Stays, Gives, Returns, Leaves, At, Resumes
<1>5. CASE EndUnary
  BY <1>5, <1>1, <1>2, FramesSound DEF EndUnary, Stays, Gives, Returns, Leaves, At, Resumes
<1>6. CASE NoOperand
  BY <1>6, <1>1, <1>2, FramesSound DEF NoOperand, Stays, Gives, Returns, Leaves, At, Resumes
<1>7. CASE Increment
  BY <1>7, <1>1, <1>2, FramesSound DEF Increment, Stays, Gives, Returns, Leaves, At, Resumes
<1>8. CASE EndIndex
  BY <1>8, <1>1, <1>2, FramesSound DEF EndIndex, Stays, Gives, Returns, Leaves, At, Resumes
<1>9. CASE EndPostfix
  BY <1>9, <1>1, <1>2, FramesSound DEF EndPostfix, Stays, Gives, Returns, Leaves, At, Resumes
<1>10. CASE EndRight
  BY <1>10, <1>1, <1>2, FramesSound DEF EndRight, Stays, Gives, Returns, Leaves, At, Resumes
<1>11. CASE EndBinary
  BY <1>11, <1>1, <1>2, FramesSound DEF EndBinary, Stays, Gives, Returns, Leaves, At, Resumes
<1>12. CASE EndConditional
  BY <1>12, <1>1, <1>2, FramesSound DEF EndConditional, Stays, Gives, Returns, Leaves, At, Resumes
<1>13. CASE EndAssign
  BY <1>13, <1>1, <1>2, FramesSound DEF EndAssign, Stays, Gives, Returns, Leaves, At, Resumes
<1>14. CASE EndAssignment
  BY <1>14, <1>1, <1>2, FramesSound DEF EndAssignment, Stays, Gives, Returns, Leaves, At, Resumes
<1>15. CASE EndExpressions
  BY <1>15, <1>1, <1>2, FramesSound DEF EndExpressions, Stays, Gives, Returns, Leaves, At, Resumes, Listing
<1>16. CASE Qualifier
  BY <1>16, <1>1, <1>2, FramesSound DEF Qualifier, Stays, Gives, Returns, Leaves, At, Resumes, Qualifies
<1>17. CASE EndQualifiers
  BY <1>17, <1>1, <1>2, FramesSound DEF EndQualifiers, Stays, Gives, Returns, Leaves, At, Resumes
<1>18. CASE EndSpecifiers
  BY <1>18, <1>1, <1>2, FramesSound DEF EndSpecifiers, Stays, Gives, Returns, Leaves, At, Resumes
<1>19. CASE EndStar
  BY <1>19, <1>1, <1>2, FramesSound DEF EndStar, Stays, Gives, Returns, Leaves, At, Resumes
<1>20. CASE EndQualifiedPointer
  BY <1>20, <1>1, <1>2, FramesSound DEF EndQualifiedPointer, Stays, Gives, Returns, Leaves, At, Resumes
<1>21. CASE EndPointer
  BY <1>21, <1>1, <1>2, FramesSound DEF EndPointer, Stays, Gives, Returns, Leaves, At, Resumes
<1>22. CASE EndNamed
  BY <1>22, <1>1, <1>2, FramesSound DEF EndNamed, Stays, Gives, Returns, Leaves, At, Resumes
<1>23. CASE EndBracketed
  BY <1>23, <1>1, <1>2, FramesSound DEF EndBracketed, Stays, Gives, Returns, Leaves, At, Resumes
<1>24. CASE NoDeclarator
  BY <1>24, <1>1, <1>2, FramesSound DEF NoDeclarator, Stays, Gives, Returns, Leaves, At, Resumes
<1>25. CASE Dimension
  BY <1>25, <1>1, <1>2, FramesSound DEF Dimension, Stays, Gives, Returns, Leaves, At, Resumes
<1>26. CASE NoSuffix
  BY <1>26, <1>1, <1>2, FramesSound DEF NoSuffix, Stays, Gives, Returns, Leaves, At, Resumes
<1>27. CASE NoParameters
  BY <1>27, <1>1, <1>2, FramesSound DEF NoParameters, Stays, Gives, Returns, Leaves, At, Resumes
<1>28. CASE EndParameters
  BY <1>28, <1>1, <1>2, FramesSound DEF EndParameters, Stays, Gives, Returns, Leaves, At, Resumes
<1>29. CASE NotDeclared
  BY <1>29, <1>1, <1>2, FramesSound DEF NotDeclared, Stays, Gives, Returns, Leaves, At, Resumes
<1>30. CASE EndDeclarator
  BY <1>30, <1>1, <1>2, FramesSound DEF EndDeclarator, Stays, Gives, Returns, Leaves, At, Resumes,
     EndsDeclaration
<1>31. CASE Recover
  BY <1>31, <1>1, <1>2, FramesSound DEF Recover, Stays, Gives, Returns, Leaves, At, Resumes, EndsDeclaration
<1>32. CASE UnitOther
  BY <1>32, <1>1, <1>2, FramesSound DEF UnitOther, Stays, Gives, Returns, Leaves, At, Resumes
<1>33. CASE EndFunction
  BY <1>33, <1>1, <1>2, FramesSound DEF EndFunction, Stays, Gives, Returns, Leaves, At, Resumes, EndsDeclaration
<1>34. CASE BlockStatements
  BY <1>34, <1>1, <1>2, FramesSound DEF BlockStatements, Stays, Gives, Returns, Leaves, At, Resumes
<1>35. CASE BlockStatement
  BY <1>35, <1>1, <1>2, FramesSound DEF BlockStatement, Stays, Gives, Returns, Leaves, At, Resumes, Begins
<1>36. CASE PassSemicolon
  BY <1>36, <1>1, <1>2, FramesSound DEF PassSemicolon, Stays, Gives, Returns, Leaves, At, Resumes
<1>37. CASE BlockGoesOn
  BY <1>37, <1>1, <1>2, FramesSound DEF BlockGoesOn, Stays, Gives, Returns, Leaves, At, Resumes, PastSemicolons
<1>38. CASE CloseBlock
  BY <1>38, <1>1, <1>2, FramesSound DEF CloseBlock, Stays, Gives, Returns, Leaves, At, Resumes
<1>39. CASE EmptyStatement
  BY <1>39, <1>1, <1>2, FramesSound DEF EmptyStatement, AtStatement, Stays, Gives, Returns, Leaves, At, Resumes
<1>40. CASE NoStatement
  BY <1>40, <1>1, <1>2, FramesSound DEF NoStatement, AtStatement, Stays, Gives, Returns, Leaves, At, Resumes
<1>41. CASE DoStatement
  BY <1>41, <1>1, <1>2, FramesSound DEF DoStatement, AtStatement, Stays, Gives, Returns, Leaves, At, Resumes
<1>42. CASE SwitchStatement
  BY <1>42, <1>1, <1>2, FramesSound DEF SwitchStatement, AtStatement, Stays, Gives, Returns, Leaves, At, Resumes
<1>43. CASE LateDeclaration
  BY <1>43, <1>1, <1>2, FramesSound DEF LateDeclaration, AtStatement, Stays, Gives, Returns, Leaves, At, Resumes
<1>44. CASE AfterExpression
  BY <1>44, <1>1, <1>2, FramesSound DEF AfterExpression, Stays, Gives, Returns, Leaves, At, Resumes
<1>45. CASE EndExpression
  BY <1>45, <1>1, <1>2, FramesSound DEF EndExpression, Stays, Gives, Returns, Leaves, At, Resumes,
     PastSemicolons
<1>46. CASE BreakStatement
  BY <1>46, <1>1, <1>2, FramesSound DEF BreakStatement, AtStatement, Stays, Gives, Returns, Leaves, At, Resumes
<1>47. CASE ContinueStatement
  BY <1>47, <1>1, <1>2, FramesSound DEF ContinueStatement, AtStatement, Stays, Gives, Returns, Leaves, At, Resumes
<1>48. CASE EndReturn
  BY <1>48, <1>1, <1>2, FramesSound DEF EndReturn, Stays, Gives, Returns, Leaves, At, Resumes
<1>49. CASE EndIf
  BY <1>49, <1>1, <1>2, SelectMoves, FramesSound
<1>50. CASE EndElse
  BY <1>50, <1>1, <1>2, SelectMoves, FramesSound
<1>51. CASE EndWhile
  BY <1>51, <1>1, <1>2, FramesSound DEF EndWhile, Stays, Gives, Returns, Leaves, At, Resumes
<1>52. CASE EndFor
  BY <1>52, <1>1, <1>2, FramesSound DEF EndFor, Stays, Gives, Returns, Leaves, At, Resumes
<1>53. CASE Bracket
  <2>1. Sound([kind |-> "bracket"])
    BY FrameSound DEF Special, ForKinds
  <2> QED
    BY <2>1, <1>53, <1>1, <1>2, FramesSound DEF Bracket, Leaves, Reads, At, Resumes
<1>54. CASE UnaryOperator
  <2>1. Cur(parser) \in UnaryOperators
    BY <1>54 DEF UnaryOperator, UnaryOperators
  <2>2. Sound([kind |-> "unary", op |-> Cur(parser)])
    BY <2>1 DEF Sound, ForKinds
  <2> QED
    BY <2>1, <2>2, <1>54, <1>1, <1>2, FramesSound DEF UnaryOperator, Leaves, Reads, At, Resumes
<1>55. CASE Index
  <2>1. Sound([kind |-> "index", array |-> value])
    BY FrameSound DEF Special, ForKinds
  <2> QED
    BY <2>1, <1>55, <1>1, <1>2, FramesSound DEF Index, Leaves, Reads, At, Resumes
<1>56. CASE FunctionCall
  <2>1. Sound([kind |-> "argument", function |-> value, list |-> value.type.list])
    BY FrameSound DEF Special, ForKinds
  <2> QED
    BY <2>1, <1>56, <1>1, <1>2, FramesSound DEF FunctionCall, Leaves, Reads, At, Resumes, Pass, Stays
<1>57. CASE EndArgument
  <2>1. Sound([kind |-> "argument", function |-> Top.function, list |-> Tail(Top.list)])
    BY FrameSound DEF Special, ForKinds
  <2> QED
    BY <2>1, <1>57, <1>1, <1>2, FramesSound DEF EndArgument, Leaves, Reads, At, Resumes, Pass, Stays, Returns
<1>58. CASE Operator
  <2>1. Top.kind = "binary" /\ Top.least \in 4 .. 15 /\ Top.most \in Nat /\ {"kind", "least", "most"} \subseteq DOMAIN Top
    BY <1>58, <1>1, <1>2 DEF Operator, Resumes, At, Sound
  <2>2. Level(parser) \in 4 .. 14 /\ Level(parser) \in Nat
    BY <1>58, <2>1, LevelBinary DEF Operator
  <2>3. [Top EXCEPT !.most = Level(parser)].kind = "binary"
    BY <2>1, Zenon
  <2>4. /\ [Top EXCEPT !.most = Level(parser)].least \in 4 .. 15
       /\ [Top EXCEPT !.most = Level(parser)].most = Level(parser)
       /\ {"least", "most"} \subseteq DOMAIN [Top EXCEPT !.most = Level(parser)]
    BY <2>1, Zenon
  <2>5. Cur(parser) \in BinaryOperators
    BY <2>2, LevelBinary
  <2>6. RightLevel(parser) \in 4 .. 15
    BY <2>2 DEF RightLevel
  <2>7. LET f == BinaryFrame(RightLevel(parser)) IN f.kind = "binary" /\ f.least \in 4 .. 15 /\ f.most \in Nat /\ {"least", "most"} \subseteq DOMAIN f
    BY <2>6 DEF BinaryFrame, Levels
  <2>8. Sound([Top EXCEPT !.most = Level(parser)])
    BY <2>2, <2>3, <2>4, BinarySound
  <2>9. Sound([kind |-> "right", op |-> Cur(parser), left |-> value])
    BY <2>5 DEF Sound, ForKinds
  <2>10. Sound(BinaryFrame(RightLevel(parser)))
    BY ONLY <2>7, BinarySound
  <2> QED
    BY <2>1, <2>2, <2>3, <2>4, <2>5, <2>6, <2>7, <2>8, <2>9, <2>10, <1>58, <1>1, <1>2, FramesSound DEF
       Operator, Leaves, Reads, At, Resumes
<1>59. CASE Assign
  <2>1. Sound([kind |-> "assign", left |-> value])
    BY FrameSound DEF Special, ForKinds
  <2> QED
    BY <2>1, <1>59, <1>1, <1>2, FramesSound DEF Assign, Leaves, Reads, At, Resumes
<1>60. CASE Comma
  <2>1. Sound([kind |-> "listed", tree |-> FirstTree])
    BY FrameSound DEF Special, ForKinds
  <2> QED
    BY <2>1, <1>60, <1>1, <1>2, FramesSound DEF Comma, Leaves, Reads, At, Resumes, Listing
<1>61. CASE Star
  <2>1. Sound([kind |-> "star"])
    BY FrameSound DEF Special, ForKinds
  <2> QED
    BY <2>1, <1>61, <1>1, <1>2, FramesSound DEF Star, Leaves, Reads, At, Resumes, Qualifies
<1>62. CASE QualifiedPointer
  <2>1. Sound([kind |-> "pointed"])
    BY FrameSound DEF Special, ForKinds
  <2> QED
    BY <2>1, <1>62, <1>1, <1>2, FramesSound DEF QualifiedPointer, Leaves, Reads, At, Resumes, Qualifies
<1>63. CASE Named
  <2>1. Sound([kind |-> "named", name |-> parser.cur])
    BY FrameSound DEF Special, ForKinds
  <2> QED
    BY <2>1, <1>63, <1>1, <1>2, FramesSound DEF Named, Leaves, Reads, At, Resumes
<1>64. CASE Bracketed
  <2>1. Sound([kind |-> "brackets", ty |-> value])
    BY FrameSound DEF Special, ForKinds
  <2> QED
    BY <2>1, <1>64, <1>1, <1>2, FramesSound DEF Bracketed, Leaves, Reads, At, Resumes
<1>65. CASE CloseBracketed
  <2>1. Sound([kind |-> "closing", name |-> value.name, op |-> value.ty.op])
    BY FrameSound DEF Special, ForKinds
  <2> QED
    BY <2>1, <1>65, <1>1, <1>2, FramesSound DEF CloseBracketed, Leaves, Reads, At, Resumes
<1>66. CASE Parameters
  <2>1. Sound([kind |-> "parameters", ty |-> value, list |-> <<>>])
    BY FrameSound DEF Special, ForKinds
  <2>2. Sound([kind |-> "specifiers"])
    BY FrameSound DEF Special, ForKinds
  <2> QED
    BY <2>1, <2>2, <1>66, <1>1, <1>2, FramesSound DEF Parameters, Leaves, Reads, At, Resumes, Specifies,
       Qualifies
<1>67. CASE AnotherParameter
  <2>1. [Top EXCEPT !.list = WithParameter(@, value)].kind = "parameters"
    BY <1>67, <1>1, <1>2, Zenon DEF AnotherParameter, Resumes, At
  <2>2. Sound([Top EXCEPT !.list = WithParameter(@, value)])
    BY ONLY <2>1, KindSound
  <2>3. Sound([kind |-> "specifiers"])
    BY FrameSound DEF Special, ForKinds
  <2> QED
    BY <2>1, <2>2, <2>3, <1>67, <1>1, <1>2, FramesSound DEF AnotherParameter, Leaves, Reads, At, Resumes,
       Specifies, Qualifies
<1>68. CASE AnotherDeclarator
  <2>1. [Top EXCEPT !.declared = Declared(value)].kind = "declaration"
    BY <1>68, <1>1, <1>2, Zenon DEF AnotherDeclarator, Resumes, At, DeclaredTo
  <2>2. Sound([Top EXCEPT !.declared = Declared(value)])
    BY ONLY <2>1, KindSound
  <2> QED
    BY <2>1, <2>2, <1>68, <1>1, <1>2, FramesSound DEF AnotherDeclarator, Leaves, Reads, At, Resumes, DeclaredTo
<1>69. CASE Initializer
  <2>1. Sound([kind |-> "initializer"])
    BY FrameSound DEF Special, ForKinds
  <2> QED
    BY <2>1, <1>69, <1>1, <1>2, FramesSound DEF Initializer, Leaves, Reads, At, Resumes, DeclaredTo
<1>70. CASE UnitDeclaration
  <2>1. Sound([kind |-> "declaration", ty |-> IntType, declared |-> 0])
    BY FrameSound DEF Special, ForKinds
  <2>2. Sound([kind |-> "specifiers"])
    BY FrameSound DEF Special, ForKinds
  <2> QED
    BY <2>1, <2>2, <1>70, <1>1, <1>2, FramesSound DEF UnitDeclaration, Leaves, Reads, At, Resumes,
       Declaration, Specifies, Qualifies, Turn
<1>71. CASE BlockDeclaration
  <2>1. Sound([kind |-> "declaration", ty |-> IntType, declared |-> 0])
    BY FrameSound DEF Special, ForKinds
  <2>2. Sound([kind |-> "specifiers"])
    BY FrameSound DEF Special, ForKinds
  <2> QED
    BY <2>1, <2>2, <1>71, <1>1, <1>2, FramesSound DEF BlockDeclaration, Leaves, Reads, At, Resumes,
       Declaration, Specifies, Qualifies
<1>72. CASE FunctionDefinition
  <2>1. Sound([kind |-> "function", begin |-> Newest(parser) + 1])
    BY FrameSound DEF Special, ForKinds
  <2>2. PICK f : f.kind = "block" /\ calls' = Append(Append(Popped, [kind |-> "function", begin |-> Newest(parser) + 1]), f)
    BY <1>72 DEF FunctionDefinition, OpenBlock, Leaves
  <2>3. Sound(f)
    BY <2>2, FrameSound DEF Special, ForKinds
  <2> QED
    BY <2>1, <2>2, <2>3, <1>72, <1>1, <1>2, FramesSound DEF FunctionDefinition, DeclaredTo, Resumes, At
<1>73. CASE InnerBlock
  <2>1. PICK f : f.kind = "block" /\ calls' = Append(calls, f)
    BY <1>73 DEF InnerBlock, OpenBlock, Leaves
  <2>2. Sound(f)
    BY <2>1, FrameSound DEF Special, ForKinds
  <2> QED
    BY <2>1, <2>2, <1>73, <1>1, FramesSound
<1>74. CASE BlockTakes
  <2>1. PICK taken : calls' = Append(Popped, [Top EXCEPT !.ret = taken.ret])
    BY <1>74 DEF BlockTakes, Takes, Leaves
  <2>2. [Top EXCEPT !.ret = taken.ret].kind = "block"
    BY <1>74, <1>1, <1>2, Zenon DEF BlockTakes, Resumes, At
  <2>3. Sound([Top EXCEPT !.ret = taken.ret])
    BY ONLY <2>2, KindSound
  <2> QED
    BY <2>1, <2>2, <2>3, <1>74, <1>1, <1>2, FramesSound DEF BlockTakes, Resumes, At
<1>75. CASE ExpressionStatement
  <2>1. Sound([kind |-> "expression"])
    BY FrameSound DEF Special, ForKinds
  <2> QED
    BY <2>1, <1>75, <1>1, <1>2, FramesSound DEF ExpressionStatement, AtStatement, Leaves, Reads, At, Resumes
<1>76. CASE ReturnStatement
  <2>1. Sound([kind |-> "return"])
    BY FrameSound DEF Special, ForKinds
  <2> QED
    BY <2>1, <1>76, <1>1, <1>2, FramesSound DEF ReturnStatement, AtStatement, Leaves, Reads, At, Resumes
<1>77. CASE IfStatement
  <2>1. Sound([kind |-> "if condition"])
    BY FrameSound DEF Special, ForKinds
  <2> QED
    BY <2>1, <1>77, <1>1, <1>2, FramesSound DEF IfStatement, AtStatement, Leaves, Reads, At, Resumes, OpenBracket
<1>78. CASE IfBranch
  <2>1. PICK f : f.kind = "if" /\ calls' = Append(Popped, f)
    BY <1>78 DEF IfBranch, Leaves, Reads, Begins
  <2>2. Sound(f)
    BY <2>1, FrameSound DEF Special, ForKinds
  <2> QED
    BY <2>1, <2>2, <1>78, <1>1, <1>2, FramesSound DEF IfBranch, Resumes, At
<1>79. CASE AfterBranch
  <2>1. [Top EXCEPT !.ret = value].kind = "if"
    BY <1>79, <1>1, <1>2, Zenon DEF AfterBranch, Resumes, At
  <2>2. Sound([Top EXCEPT !.ret = value])
    BY ONLY <2>1, KindSound
  <2> QED
    BY <2>1, <2>2, <1>79, <1>1, <1>2, FramesSound DEF AfterBranch, Resumes, At, Leaves
<1>80. CASE ElseBranch
  <2>1. Is(parser, "else")
    BY <1>80 DEF ElseBranch
  <2>2. HasElse
    BY <2>1, ProgramsAssumption DEF Is, Cur, Typed, NullToken, HasElse
  <2>3. PICK f : f.kind = "else" /\ calls' = Append(Popped, f)
    BY <1>80 DEF ElseBranch, Leaves, Begins
  <2>4. Sound(f)
    BY <2>2, <2>3 DEF Sound, ForKinds
  <2> QED
    BY <2>1, <2>2, <2>3, <2>4, <1>80, <1>1, <1>2, FramesSound DEF ElseBranch, PastSemicolons, At
<1>81. CASE WhileStatement
  <2>1. PICK f : f.kind = "while condition" /\ calls' = (calls \o <<f>>) \o Expressions
    BY <1>81 DEF WhileStatement, AtStatement, Leaves, Reads, Begins, OpenBracket
  <2>2. Sound(f)
    BY <2>1, FrameSound DEF Special, ForKinds
  <2> QED
    BY <2>1, <2>2, <1>81, <1>1, <1>2, FramesSound DEF WhileStatement, AtStatement, Resumes, At, OpenBracket
<1>82. CASE WhileBody
  <2>1. PICK f : f.kind = "while" /\ calls' = Append(Popped, f)
    BY <1>82 DEF WhileBody, Leaves, Reads, Begins
  <2>2. Sound(f)
    BY <2>1, FrameSound DEF Special, ForKinds
  <2> QED
    BY <2>1, <2>2, <1>82, <1>1, <1>2, FramesSound DEF WhileBody, Resumes, At
<1>83. CASE ForStatement
  <2>1. PICK f : f.kind = "for" /\ calls' = (calls \o <<f>>) \o Expressions
    BY <1>83 DEF ForStatement, AtStatement, Leaves, Reads, Begins, OpenBracket
  <2>2. HasFor
    BY <1>83, ProgramsAssumption DEF ForStatement, AtStatement, Is, Cur, Typed, NullToken, HasFor
  <2>3. Sound(f)
    BY <2>1, <2>2, FrameStays DEF Sound, Special, ForKinds, HasElse, HasFor
  <2> QED
    BY <2>1, <2>2, <2>3, <1>83, <1>1, <1>2, FramesSound DEF ForStatement, AtStatement, Resumes, At, OpenBracket
<1>84. CASE ForCondition
  <2>1. PICK f : f.kind = "for condition" /\ calls' = Append(Popped, f) \o Expressions
    BY <1>84 DEF ForCondition, Leaves, Reads
  <2>2. HasFor
    BY <1>84, <1>1, <1>2 DEF ForCondition, Resumes, At, Sound, ForKinds, HasFor
  <2>3. Sound(f)
    BY <2>1, <2>2 DEF Sound, ForKinds
  <2>4. Append(Popped, f) = Popped \o <<f>>
    BY <1>84, <1>1, <1>2, Pushed DEF ForCondition, Resumes, At
  <2> QED
    BY <2>1, <2>2, <2>3, <2>4, <1>84, <1>1, <1>2, FramesSound DEF ForCondition, Resumes, At
<1>85. CASE ForStep
  <2>1. PICK f : f.kind = "for step" /\ calls' = Append(Popped, f) \o Expressions
    BY <1>85 DEF ForStep, Leaves, Reads
  <2>2. HasFor
    BY <1>85, <1>1, <1>2 DEF ForStep, Resumes, At, Sound, ForKinds, HasFor
  <2>3. Sound(f)
    BY <2>1, <2>2 DEF Sound, ForKinds
  <2>4. Append(Popped, f) = Popped \o <<f>>
    BY <1>85, <1>1, <1>2, Pushed DEF ForStep, Resumes, At
  <2> QED
    BY <2>1, <2>2, <2>3, <2>4, <1>85, <1>1, <1>2, FramesSound DEF ForStep, Resumes, At
<1>86. CASE ForBody
  <2>1. PICK f : f.kind = "for body" /\ calls' = Append(Popped, f)
    BY <1>86 DEF ForBody, Leaves, Begins
  <2>2. HasFor
    BY <1>86, <1>1, <1>2 DEF ForBody, Resumes, At, Sound, ForKinds, HasFor
  <2>3. Sound(f)
    BY <2>1, <2>2 DEF Sound, ForKinds
  <2> QED
    BY <2>1, <2>2, <2>3, <1>86, <1>1, <1>2, FramesSound DEF ForBody, Resumes, At
<1>87. CASE UNCHANGED vars
  BY <1>87, <1>1, FramesSound DEF vars
<1> QED
  BY <1>3, <1>4, <1>5, <1>6, <1>7, <1>8, <1>9, <1>10, <1>11, <1>12, <1>13, <1>14, <1>15, <1>16, <1>17,
     <1>18, <1>19, <1>20, <1>21, <1>22, <1>23, <1>24, <1>25, <1>26, <1>27, <1>28, <1>29, <1>30, <1>31,
     <1>32, <1>33, <1>34, <1>35, <1>36, <1>37, <1>38, <1>39, <1>40, <1>41, <1>42, <1>43, <1>44, <1>45,
     <1>46, <1>47, <1>48, <1>49, <1>50, <1>51, <1>52, <1>53, <1>54, <1>55, <1>56, <1>57, <1>58, <1>59,
     <1>60, <1>61, <1>62, <1>63, <1>64, <1>65, <1>66, <1>67, <1>68, <1>69, <1>70, <1>71, <1>72, <1>73,
     <1>74, <1>75, <1>76, <1>77, <1>78, <1>79, <1>80, <1>81, <1>82, <1>83, <1>84, <1>85, <1>86, <1>87
  DEF Next, Expression, Declarators, Statements

-----------------------------------------------------------------------------
(* One token back.  Of a parser that comes from b: no token waits, or one  *)
(* may wait.                                                               *)
AtOne(b, p) == Came(b, p) /\ (~HasElse => One(p))
AtEither(b, p) == Came(b, p) /\ (~HasElse => Either(p))

(* Where a token may wait, next() and need() take it first.                *)
LEMMA TokenRules ==
    ASSUME NEW b, NEW p, AtEither(b, p)
    PROVE  /\ IsParser(p)
           /\ AtOne(b, NextToken(p)) /\ AtOne(b, NeedConstant(p)) /\ \A k : AtEither(b, Need(p, k))
           /\ AtEither(b, Report(p)) /\ AtOne(b, Misreport(p)) /\ \A w : w # "no" => AtOne(b, Stop(p, w))
           /\ \A q : SameTokens(p, q) => AtEither(b, q)
           /\ \A q : Writes(p, q) => AtEither(b, q)
<1>1. Came(b, p) /\ IsParser(p) /\ (~HasElse => Either(p))
  BY DEF AtEither, Came, ComesFrom
<1>2. AtOne(b, NextToken(p)) /\ AtOne(b, NeedConstant(p)) /\ \A k : AtEither(b, Need(p, k))
  BY <1>1, TokensMoved, TokensTyped DEF AtOne, AtEither
<1>3. AtEither(b, Report(p))
  BY <1>1, TokensMoved, TokensTyped DEF AtEither
<1>4. ASSUME NEW q, Came(b, q), ~Running(q) PROVE AtOne(b, q)
  BY <1>4 DEF AtOne, One, Came, ComesFrom
<1>5. AtOne(b, Misreport(p))
  BY <1>1, <1>4, Stops, TokensTyped
<1>6. \A w : w # "no" => AtOne(b, Stop(p, w))
  BY <1>1, <1>4, Stops, TokensTyped
<1>7. \A q : SameTokens(p, q) => AtEither(b, q)
  BY <1>1, TokensKept DEF AtEither
<1>8. \A q : Writes(p, q) => AtEither(b, q)
  BY <1>7 DEF Writes
<1> QED
  BY <1>1, <1>2, <1>3, <1>5, <1>6, <1>7, <1>8

(* Where none waits, one may be given back.                                *)
LEMMA TokenRulesOne ==
    ASSUME NEW b, NEW p, AtOne(b, p)
    PROVE  /\ AtEither(b, p)
           /\ AtEither(b, PushBack(p))
           /\ AtOne(b, Report(p))
           /\ \A q : SameTokens(p, q) => AtOne(b, q)
           /\ \A q : Writes(p, q) => AtOne(b, q)
<1>1. Came(b, p) /\ IsParser(p) /\ (~HasElse => One(p))
  BY DEF AtOne, Came, ComesFrom
<1>2. AtEither(b, p) /\ AtEither(b, PushBack(p)) /\ AtOne(b, Report(p))
  BY <1>1, TokensMoved, TokensTyped DEF AtOne, AtEither
<1>3. \A q : SameTokens(p, q) => AtOne(b, q)
  BY <1>1, TokensKept DEF AtOne
<1>4. \A q : Writes(p, q) => AtOne(b, q)
  BY <1>3 DEF Writes
<1> QED
  BY <1>2, <1>3, <1>4

(* Where a token may wait: before a pointer is read, and where a type, a   *)
(* declarator or a block has been.                                         *)
Loose == mode = "pointer" \/ (mode = "back" /\ Waits(Top) # "tree")
TokenWaits == IsParser(parser) /\ Typed(parser) /\ (~HasElse => IF Loose THEN Either(parser) ELSE One(parser))

(* What a step finds: only the functions that look for a pointer or take a *)
(* type, a declarator or a block may find a token waiting.                 *)
LEMMA TokensAtStart ==
    ASSUME TokenWaits
    PROVE  /\ IsParser(parser)
           /\ AtEither(parser, parser)
           /\ mode \notin {"pointer", "back"} => AtOne(parser, parser)
           /\ mode = "back" /\ Top.kind \in TreeKinds => AtOne(parser, parser)
<1>1. Came(parser, parser)
  BY DEF TokenWaits, Came, ComesFrom
<1>2. Top.kind \in TreeKinds => Waits(Top) = "tree"
  BY DEF Waits
<1> QED
  BY <1>1, <1>2 DEF TokenWaits, AtOne, AtEither, Loose, Either

(* What a step has to leave to the next one.                               *)
LEMMA TokensAtEnd ==
    ASSUME AtOne(parser, parser') \/ (AtEither(parser, parser') /\ Loose')
    PROVE  TokenWaits' /\ ComesFrom(parser, parser')
<1>1. Came(parser, parser') /\ parser'.text = parser.text
  BY DEF AtOne, AtEither, Came, ComesFrom
<1>2. HasElse' <=> HasElse
  BY <1>1 DEF HasElse
<1>3. ~HasElse => One(parser') \/ (Either(parser') /\ Loose')
  BY DEF AtOne, AtEither
<1>4. One(parser') => Either(parser')
  BY DEF Either
<1> QED
  BY <1>1, <1>2, <1>3, <1>4 DEF TokenWaits, Came, ComesFrom

(* A function that gives a type, a declarator or a block returns to one    *)
(* that waits for it.                                                      *)
LEMMA LooseReturn ==
    ASSUME NEW s, NEW sort, sort \in {"type", "declarator", "block"}, Fits(s, sort), calls' = s, mode' = "back"
    PROVE  Loose'
<1>1. Waits(Last(s)) = sort
  BY DEF Fits, Ready
<1>2. Top' = Last(s)
  BY DEF Top, Last
<1> QED
  BY <1>1, <1>2 DEF Loose

(* The operations of a declaration on the tokens.                          *)
LEMMA DeclarationTokens ==
    ASSUME NEW p, IsParser(p)
    PROVE  /\ SameTokens(p, [p EXCEPT !.isFinish = FALSE]) /\ SameTokens(p, Finished(p))
           /\ \A t : SameTokens(p, [p EXCEPT !.trees = t]) /\ SameTokens(p, [p EXCEPT !.printed = t])
           /\ SameTokens(p, EnterEnv(p)) /\ SameTokens(p, ExitEnv(p))
<1>1. \A b : Keeps(p, [p EXCEPT !.isFinish = b])
  BY Stops
<1>2. Keeps(p, p)
  BY Chains
<1>3. SameTokens(p, Finished(p))
  BY <1>1, <1>2 DEF Finished, Keeps
<1>4. \A t : Keeps(p, [p EXCEPT !.trees = t]) /\ Keeps(p, [p EXCEPT !.printed = t])
  BY Stops
<1> QED
  BY <1>1, <1>3, <1>4, NamesDeclare DEF Keeps, Declares

(* What the checks of declarators, the brace of a function and its block   *)
(* do to the tokens.                                                       *)
LEMMA VerdictTokens ==
    ASSUME IsParser(parser), NEW d
    PROVE  SameTokens(parser, Verdict(d))
<1> DEFINE q == [parser EXCEPT !.verdict = Check(parser.verdict, d.ty)]
<1>1. Keeps(parser, q)
  BY Stops
<1>2. IsParser(q) /\ SameTokens(parser, q)
  BY <1>1 DEF Keeps, SameTokens, ComesFrom
<1> HIDE DEF q
<1>3. \A name, ty : SameTokens(q, NewIdentifier(q, name, ty))
  BY <1>2, NamesDeclare DEF Declares
<1>4. SameTokens(q, Misreport(q)) /\ SameTokens(q, Report(q))
  BY <1>2, Stops DEF Keeps
<1>5. \/ Verdict(d) = NewIdentifier(q, q.text[d.name], d.ty)
      \/ Verdict(d) = Misreport(q)
      \/ Verdict(d) = Report(q)
  BY DEF Verdict, q
<1> QED
  BY <1>2, <1>3, <1>4, <1>5, Chains

(* The brace of a function body is looked at and not taken.                *)
LEMMA BraceTokens ==
    ASSUME NEW p, IsParser(p), NEW d
    PROVE  SameTokens(p, AtBrace(p, d))
<1>1. ASSUME NEW a, SameTokens(p, a), NEW list, NEW i
      PROVE  SameTokens(p, ParseParameter(a, list, i))
  <2>1. IsParser(a)
    BY <1>1 DEF SameTokens, ComesFrom
  <2>2. SameTokens(a, NewIdentifier(a, list[i].sym, list[i].base))
    BY <2>1, NamesDeclare DEF Declares
  <2> QED
    BY <1>1, <2>2, Chains DEF ParseParameter
<1>2. SameTokens(p, EnterEnv(p))
  BY NamesDeclare DEF Declares
<1>3. \A list : SameTokens(p, ParseParameters(EnterEnv(p), list))
  BY <1>1, <1>2 DEF ParseParameters
<1>4. ASSUME NEW a, SameTokens(p, a), NEW w PROVE SameTokens(p, Stop(a, w)) /\ SameTokens(p, Report(a))
  <2>1. IsParser(a)
    BY <1>4 DEF SameTokens, ComesFrom
  <2>2. SameTokens(a, Stop(a, w)) /\ SameTokens(a, Report(a))
    BY <2>1, Stops DEF Keeps
  <2> QED
    BY <1>4, <2>2, Chains
<1>5. \A ty : SameTokens(p, BeginFunction(p, ty))
  BY <1>3, <1>4 DEF BeginFunction
<1>6. SameTokens(p, p)
  BY Chains DEF Keeps
<1>7. SameTokens(p, Report(p))
  BY <1>4, <1>6
<1>8. SameTokens(p, Stop(Report(p), "assert")) /\ SameTokens(p, Stop(p, "undefined")) /\ SameTokens(p, Stop(p, "assert"))
  BY <1>4, <1>6, <1>7
<1>9. \/ AtBrace(p, d) = Stop(Report(p), "assert")
      \/ AtBrace(p, d) = Stop(p, "undefined")
      \/ AtBrace(p, d) = Stop(p, "assert")
      \/ AtBrace(p, d) = BeginFunction(p, d.ty)
  BY DEF AtBrace
<1> QED
  BY <1>5, <1>8, <1>9

(* A block takes its brace.                                                *)
LEMMA OpenBlockTokens ==
    ASSUME NEW p, NEW under, AtEither(parser, p), OpenBlock(p, under)
    PROVE  AtOne(parser, parser')
<1> DEFINE q == EmitListed(Emit(EnterEnv(p), "pad"), "pad")
<1>1. AtEither(parser, EnterEnv(p)) /\ IsParser(EnterEnv(p))
  BY TokenRules, DeclarationTokens DEF SameTokens, ComesFrom
<1>2. Writes(EnterEnv(p), EnterEnv(p))
  BY <1>1, Chains
<1>3. Writes(EnterEnv(p), q)
  BY <1>2, WritesCode
<1>4. AtEither(parser, q)
  BY <1>1, <1>3, TokenRules
<1>5. parser' = NextToken(q)
  BY DEF OpenBlock, Leaves
<1> HIDE DEF q
<1> QED
  BY <1>4, <1>5, TokenRules

(* What only writes code takes no token.                                   *)
LEMMA WritesTokens ==
    ASSUME NEW b, NEW a, NEW p, Writes(a, p)
    PROVE  (AtOne(b, a) => AtOne(b, p)) /\ (AtEither(b, a) => AtEither(b, p))
  BY TokenRules, TokenRulesOne

(* The size of an array is a constant and a bracket.                       *)
LEMMA SizedTokens ==
    ASSUME NEW b, NEW p, AtOne(b, p)
    PROVE  AtOne(b, Sized(p))
<1> DEFINE q == IF Is(p, "(") THEN NextToken(p) ELSE p
<1>1. AtOne(b, q)
  BY TokenRules, TokenRulesOne
<1> DEFINE r == IF Is(p, "(") THEN Need(q, ")") ELSE q
<1>2. AtEither(b, q)
  BY <1>1, TokenRulesOne
<1> HIDE DEF q
<1>3. AtEither(b, r)
  BY <1>2, TokenRules
<1>4. AtOne(b, Stop(q, "assert"))
  BY <1>2, TokenRules
<1> HIDE DEF r
<1>5. AtOne(b, Stop(r, "undefined"))
  BY <1>3, TokenRules
<1>6. Sized(p) = Stop(q, "assert") \/ Sized(p) = q \/ Sized(p) = Stop(r, "undefined")
  BY DEF Sized, q, r
<1> QED
  BY <1>1, <1>4, <1>5, <1>6

(* The Jump of a break or continue, and the code of labels and loops.      *)
LEMMA JumpWrites ==
    ASSUME IsParser(parser), NEW op
    PROVE  Writes(parser, Jump(op))
<1>1. Writes(parser, parser)
  BY Chains
<1>2. Writes(parser, EmitListed(Emit(parser, "label"), op))
  BY <1>1, WritesCode
<1> QED
  BY <1>2, WritesCode DEF Jump

(* After an if the parser looks for an else and gives back any other       *)
(* token.                                                                  *)
LEMMA EndOfSelectTokens ==
    ASSUME NEW p, NEW block, AtOne(parser, p), EndOfSelect(p, block)
    PROVE  AtEither(parser, parser')
<1>1. IsParser(p) /\ Writes(p, p)
  BY Chains DEF AtOne, Came, ComesFrom
<1> DEFINE q == Make(FreshLabel(p), "label", p.labels + 1)
<1>2. Writes(p, q)
  BY <1>1, WritesCode
<1> HIDE DEF q
<1> DEFINE r == PatchAll(Append1(q, Newest(q)), block.next, q.labels)
<1>3. Writes(p, r)
  BY <1>2, WritesCode
<1>4. parser' = PushBack(r)
  BY DEF EndOfSelect, Returns, Leaves, q, r
<1> HIDE DEF r
<1> QED
  BY <1>3, <1>4, WritesTokens, TokenRulesOne

(* A declaration ends with a comma, a semicolon or a body.                 *)
LEMMA EndsDeclarationTokens ==
    ASSUME NEW p, AtEither(parser, p), EndsDeclaration(p)
    PROVE  AtOne(parser, parser')
<1>1. IsParser(p)
  BY TokenRules
<1>2. AtEither(parser, Finished(p))
  BY <1>1, DeclarationTokens, TokenRules
<1> QED
  BY <1>2, TokenRules DEF EndsDeclaration, Leaves

(* An argument ends with a comma or a bracket.                             *)
LEMMA PassTokens ==
    ASSUME NEW p, NEW under, NEW function, NEW list, AtOne(parser, p), Pass(p, under, function, list)
    PROVE  AtOne(parser, parser')
<1>1. IsParser(p) /\ Writes(p, p)
  BY Chains DEF AtOne, Came, ComesFrom
<1>2. AtOne(parser, Emit(p, "call"))
  BY <1>1, WritesCode, WritesTokens
<1> QED
  BY <1>2 DEF Pass, Reads, Leaves

(* The closing of a condition or of a part of a for, and labels.           *)
LEMMA ConditionTokens ==
    ASSUME NEW b, NEW p, AtOne(b, p)
    PROVE  AtOne(b, CloseCondition(p)) /\ AtOne(b, Semicolon(p))
<1>1. AtEither(b, PushBack(p))
  BY TokenRulesOne
<1>2. AtEither(b, Need(PushBack(p), ")")) /\ AtEither(b, Need(PushBack(p), ";"))
  BY <1>1, TokenRules
<1> QED
  BY <1>2, TokenRules DEF CloseCondition, Semicolon

(* The labels of a loop are fresh and take no token.                       *)
LEMMA LabelTokens ==
    ASSUME NEW b, NEW p, AtOne(b, p)
    PROVE  /\ AtOne(b, FreshLabel(p)) /\ AtOne(b, Labelled(p))
           /\ AtOne(b, EmitListed(FreshLabel(p), "label"))
           /\ AtOne(b, MakeHead(EmitListed(FreshLabel(FreshLabel(p)), "label")))
<1>1. Writes(p, p)
  BY Chains DEF AtOne, Came, ComesFrom
<1>2. Writes(p, FreshLabel(p)) /\ Writes(p, Labelled(p))
  BY <1>1, WritesCode
<1>3. Writes(p, FreshLabel(FreshLabel(p))) /\ Writes(p, EmitListed(FreshLabel(p), "label"))
  BY <1>2, WritesCode
<1>4. Writes(p, EmitListed(FreshLabel(FreshLabel(p)), "label"))
  BY <1>3, WritesCode
<1>5. Writes(p, MakeHead(EmitListed(FreshLabel(FreshLabel(p)), "label")))
  BY <1>4, WritesCode
<1> QED
  BY <1>2, <1>3, <1>5, WritesTokens

(* The code that the ends of an else, of a while and of a for write.       *)
LEMMA ElseWrites ==
    ASSUME IsParser(parser), EndElse
    PROVE  \E p, block : Writes(parser, p) /\ EndOfSelect(p, block)
<1> DEFINE f == Top
<1> DEFINE q == Make(parser, "label", f.label)
<1>1. Writes(parser, q)
  BY Chains, WritesCode
<1> HIDE DEF q
<1> DEFINE r1 == InsertBefore(q, f.at, f.skip)
<1>2. Writes(parser, r1)
  BY <1>1, WritesCode
<1> HIDE DEF r1
<1> DEFINE r == InsertBefore(r1, f.at, Newest(q))
<1>3. Writes(parser, r)
  BY <1>2, WritesCode
<1> HIDE DEF r
<1> DEFINE s == MakeList(MakeList(r, f.skip), f.before)
<1>4. Writes(parser, MakeList(r, f.skip))
  BY <1>3, WritesCode
<1>5. Writes(parser, s)
  BY <1>4, WritesCode
<1> HIDE DEF s
<1> DEFINE t == Merge(Read(s, value), value.next, NewestList(s) - 1)
<1>6. Writes(parser, Read(s, value))
  BY <1>5, WritesCode
<1>7. Writes(parser, t)
  BY <1>6, WritesCode
<1> HIDE DEF t
<1> DEFINE u == MergeOne(PatchAll(t, f.cond.false, f.label), value.next, f.before)
<1>8. Writes(parser, PatchAll(t, f.cond.false, f.label))
  BY <1>7, WritesCode
<1>9. Writes(parser, u)
  BY <1>8, WritesCode
<1> HIDE DEF u
<1> DEFINE j == Joined(Merge(u, value.next, value.next), f.ret, value)
<1>10. Writes(parser, Merge(u, value.next, value.next))
  BY <1>9, WritesCode
<1>11. Writes(parser, j.p)
  BY <1>10, WritesBlock
<1>12. EndOfSelect(j.p, j.ret)
  BY DEF EndElse, f, q, r, r1, s, t, u, j
<1> QED
  BY <1>11, <1>12

(* The end of a while.                                                     *)
LEMMA WhileWrites ==
    ASSUME IsParser(parser), EndWhile
    PROVE  Writes(parser, parser')
<1> DEFINE f == Top
<1> DEFINE b == Emit(parser, "back")
<1>1. Writes(parser, b)
  BY Chains, WritesCode
<1> HIDE DEF b
<1> DEFINE back == PatchOne(b, Newest(b), f.head)
<1>2. Writes(parser, back)
  BY <1>1, WritesCode
<1> HIDE DEF back
<1> DEFINE e == Emit(FreshLabel(back), "label")
<1>3. Writes(parser, FreshLabel(back))
  BY <1>2, WritesCode
<1>4. Writes(parser, e)
  BY <1>3, WritesCode
<1> HIDE DEF e
<1> DEFINE e2 == PatchOne(e, Newest(e), e.labels)
<1>5. Writes(parser, e2)
  BY <1>4, WritesCode
<1> HIDE DEF e2
<1> DEFINE end == Read(e2, value)
<1>6. Writes(parser, end)
  BY <1>5, WritesCode
<1> HIDE DEF end
<1> DEFINE breaks == IF value.break = Null THEN end ELSE PatchAll(end, value.break, end.labels)
<1>7. Writes(parser, breaks)
  BY <1>6, WritesCode
<1> HIDE DEF breaks
<1> DEFINE continues == IF value.continue = Null THEN breaks ELSE PatchAll(breaks, value.continue, f.head)
<1>8. Writes(parser, continues)
  BY <1>7, WritesCode
<1> HIDE DEF continues
<1>9. Writes(parser, PatchAll(continues, f.cond.true, f.body))
  BY <1>8, WritesCode
<1>10. parser' = PatchAll(PatchAll(continues, f.cond.true, f.body), f.cond.false, end.labels)
  BY DEF EndWhile, Returns, Leaves, f, b, back, e, e2, end, breaks, continues
<1> QED
  BY <1>9, <1>10, WritesCode

(* The beginning of the body of a for.                                     *)
LEMMA BodyWrites ==
    ASSUME IsParser(CloseCondition(parser)), ForBody
    PROVE  Writes(CloseCondition(parser), parser')
<1> DEFINE c == CloseCondition(parser)
<1>1. Writes(c, c)
  BY Chains
<1> HIDE DEF c
<1>2. Writes(c, Needed(c, value))
  BY <1>1, WritesCode
<1>3. Writes(c, EmitListed(Needed(c, value), "back"))
  BY <1>2, WritesCode
<1> DEFINE back == PatchAll(EmitListed(Needed(c, value), "back"), NewestList(parser) + 1, Top.head)
<1>4. Writes(c, back)
  BY <1>3, WritesCode
<1> HIDE DEF back
<1> DEFINE start == StartOf(back, value.begin)
<1>5. Writes(c, start.p)
  BY <1>4, WritesCode
<1> HIDE DEF start
<1>6. Writes(c, [start.p EXCEPT !.tail = Top.at])
  BY <1>5, WritesCode
<1>7. parser' = [start.p EXCEPT !.tail = Top.at] \/ parser' = start.p
  BY DEF ForBody, Begins, Leaves, start, back, c
<1> QED
  BY <1>5, <1>6, <1>7 DEF c

(* The end of a for.                                                       *)
LEMMA ForWrites ==
    ASSUME IsParser(parser), EndFor
    PROVE  Writes(parser, parser')
<1> DEFINE f == Top
<1> DEFINE q == FreshLabel(EmitListed(parser, "label"))
<1>1. Writes(parser, EmitListed(parser, "label"))
  BY Chains, WritesCode
<1>2. Writes(parser, q)
  BY <1>1, WritesCode
<1> HIDE DEF q
<1> DEFINE linked == ToEnd(LinkChain(q, f.step, f.at))
<1>3. Writes(parser, LinkChain(q, f.step, f.at))
  BY <1>2, WritesCode
<1>4. Writes(parser, linked)
  BY <1>3, WritesCode
<1> HIDE DEF linked
<1> DEFINE r == EmitListed(FreshLabel(linked), "label")
<1>5. Writes(parser, FreshLabel(linked))
  BY <1>4, WritesCode
<1>6. Writes(parser, r)
  BY <1>5, WritesCode
<1> HIDE DEF r
<1> DEFINE patched == PatchAll(r, f.cond.true, f.head)
<1>7. Writes(parser, patched)
  BY <1>6, WritesCode
<1> HIDE DEF patched
<1> DEFINE merged == Merge(patched, f.next, f.cond.true)
<1>8. Writes(parser, merged)
  BY <1>7, WritesCode
<1> HIDE DEF merged
<1> DEFINE ends == PatchAll(PatchAll(merged, NewestList(r), r.labels), f.enters, f.body)
<1>9. Writes(parser, PatchAll(merged, NewestList(r), r.labels))
  BY <1>8, WritesCode
<1>10. Writes(parser, ends)
  BY <1>9, WritesCode
<1> HIDE DEF ends
<1> DEFINE backs == PatchAll(PatchAll(ends, f.next, f.head), NewestList(q), q.labels)
<1>11. Writes(parser, PatchAll(ends, f.next, f.head))
  BY <1>10, WritesCode
<1>12. Writes(parser, backs)
  BY <1>11, WritesCode
<1> HIDE DEF backs
<1> DEFINE exits == PatchAll(PatchAll(backs, f.cond.false, r.labels), f.cond.true, f.body)
<1>13. Writes(parser, PatchAll(backs, f.cond.false, r.labels))
  BY <1>12, WritesCode
<1>14. Writes(parser, exits)
  BY <1>13, WritesCode
<1> HIDE DEF exits
<1>15. parser' = PatchAll(exits, f.starts, f.head)
  BY DEF EndFor, Returns, Leaves, f, q, linked, r, patched, merged, ends, backs, exits
<1> QED
  BY <1>14, <1>15, WritesCode

(* Every step gives back one token at the most, and gives it back to a     *)
(* function that reads it again.                                           *)
LEMMA StepTokens ==
    ASSUME Situated, Framed, TokenWaits, [Next]_vars
    PROVE  TokenWaits' /\ ComesFrom(parser, parser')
<1>1. /\ IsParser(parser) /\ Writes(parser, parser) /\ AtEither(parser, parser)
      /\ mode \notin {"pointer", "back"} => AtOne(parser, parser)
      /\ mode = "back" /\ Top.kind \in TreeKinds => AtOne(parser, parser)
  BY TokensAtStart, Chains
<1>2. /\ mode # "unit" => calls # <<>>
      /\ calls # <<>> => Stacked(calls)
      /\ mode \in {"qualifiers", "suffix"} => Fits(calls, "type")
      /\ mode \in {"pointer", "direct"} => Fits(calls, "declarator")
      /\ mode \in {"statement", "stmt_list"} => Fits(calls, "block")
      /\ mode = "body" => Top.kind = "block"
      /\ calls # <<>> /\ Top.kind = "block" => Fits(Popped, "block")
      /\ calls # <<>> /\ Top.kind \in StatementsOfTrees \cup StatementsOfBlocks => Fits(Popped, "block")
      /\ calls # <<>> /\ Top.kind \in DeclaratorsOfTypes \cup {"brackets"} => Fits(Popped, "declarator")
      /\ calls # <<>> /\ Top.kind = "parameters" => Fits(Popped, "type")
  BY Entering, Leaving DEF StatementsOfBlocks
<1>3. CASE Bracket
  <2>1. AtOne(parser, parser)
    BY <1>3, <1>1 DEF Bracket, At, Resumes, TreeKinds
  <2>2. parser' = NextToken(parser)
    BY <1>3 DEF Bracket, Leaves, Returns, Gives, Stays, Reads, Begins, At, Resumes
  <2>3. AtOne(parser, parser')
    BY <2>1, <2>2, TokenRules, TokenRulesOne
  <2> QED
    BY ONLY <2>3, TokensAtEnd, TokenWaits
<1>4. CASE UnaryOperator
  <2>1. AtOne(parser, parser)
    BY <1>4, <1>1 DEF UnaryOperator, At, Resumes, TreeKinds
  <2>2. parser' = NextToken(parser)
    BY <1>4 DEF UnaryOperator, Leaves, Returns, Gives, Stays, Reads, Begins, At, Resumes
  <2>3. AtOne(parser, parser')
    BY <2>1, <2>2, TokenRules, TokenRulesOne
  <2> QED
    BY ONLY <2>3, TokensAtEnd, TokenWaits
<1>5. CASE Increment
  <2>1. AtOne(parser, parser)
    BY <1>5, <1>1 DEF Increment, At, Resumes, TreeKinds
  <2>2. parser' = NextToken(parser)
    BY <1>5 DEF Increment, Leaves, Returns, Gives, Stays, Reads, Begins, At, Resumes
  <2>3. AtOne(parser, parser')
    BY <2>1, <2>2, TokenRules, TokenRulesOne
  <2> QED
    BY ONLY <2>3, TokensAtEnd, TokenWaits
<1>6. CASE Index
  <2>1. AtOne(parser, parser)
    BY <1>6, <1>1 DEF Index, At, Resumes, TreeKinds
  <2>2. parser' = NextToken(parser)
    BY <1>6 DEF Index, Leaves, Returns, Gives, Stays, Reads, Begins, At, Resumes
  <2>3. AtOne(parser, parser')
    BY <2>1, <2>2, TokenRules, TokenRulesOne
  <2> QED
    BY ONLY <2>3, TokensAtEnd, TokenWaits
<1>7. CASE Operator
  <2>1. AtOne(parser, parser)
    BY <1>7, <1>1 DEF Operator, At, Resumes, TreeKinds
  <2>2. parser' = NextToken(parser)
    BY <1>7 DEF Operator, Leaves, Returns, Gives, Stays, Reads, Begins, At, Resumes
  <2>3. AtOne(parser, parser')
    BY <2>1, <2>2, TokenRules, TokenRulesOne
  <2> QED
    BY ONLY <2>3, TokensAtEnd, TokenWaits
<1>8. CASE Assign
  <2>1. AtOne(parser, parser)
    BY <1>8, <1>1 DEF Assign, At, Resumes, TreeKinds
  <2>2. parser' = NextToken(parser)
    BY <1>8 DEF Assign, Leaves, Returns, Gives, Stays, Reads, Begins, At, Resumes
  <2>3. AtOne(parser, parser')
    BY <2>1, <2>2, TokenRules, TokenRulesOne
  <2> QED
    BY ONLY <2>3, TokensAtEnd, TokenWaits
<1>9. CASE Comma
  <2>1. AtOne(parser, parser)
    BY <1>9, <1>1 DEF Comma, At, Resumes, TreeKinds, Listing
  <2>2. parser' = NextToken(parser)
    BY <1>9 DEF Comma, Leaves, Returns, Gives, Stays, Reads, Begins, At, Resumes, Listing
  <2>3. AtOne(parser, parser')
    BY <2>1, <2>2, TokenRules, TokenRulesOne
  <2> QED
    BY ONLY <2>3, TokensAtEnd, TokenWaits
<1>10. CASE Qualifier
  <2>1. AtOne(parser, parser)
    BY <1>10, <1>1 DEF Qualifier, At, Resumes, TreeKinds, Qualifies
  <2>2. parser' = NextToken(parser)
    BY <1>10 DEF Qualifier, Leaves, Returns, Gives, Stays, Reads, Begins, At, Resumes, Qualifies
  <2>3. AtOne(parser, parser')
    BY <2>1, <2>2, TokenRules, TokenRulesOne
  <2> QED
    BY ONLY <2>3, TokensAtEnd, TokenWaits
<1>11. CASE Named
  <2>1. AtOne(parser, parser)
    BY <1>11, <1>1 DEF Named, At, Resumes, TreeKinds
  <2>2. parser' = NextToken(parser)
    BY <1>11 DEF Named, Leaves, Returns, Gives, Stays, Reads, Begins, At, Resumes
  <2>3. AtOne(parser, parser')
    BY <2>1, <2>2, TokenRules, TokenRulesOne
  <2> QED
    BY ONLY <2>3, TokensAtEnd, TokenWaits
<1>12. CASE PassSemicolon
  <2>1. AtOne(parser, parser)
    BY <1>12, <1>1 DEF PassSemicolon, At, Resumes, TreeKinds
  <2>2. parser' = NextToken(parser)
    BY <1>12 DEF PassSemicolon, Leaves, Returns, Gives, Stays, Reads, Begins, At, Resumes
  <2>3. AtOne(parser, parser')
    BY <2>1, <2>2, TokenRules, TokenRulesOne
  <2> QED
    BY ONLY <2>3, TokensAtEnd, TokenWaits
<1>13. CASE EmptyStatement
  <2>1. AtOne(parser, parser)
    BY <1>13, <1>1 DEF EmptyStatement, AtStatement, At, Resumes, TreeKinds
  <2>2. parser' = NextToken(parser)
    BY <1>13 DEF EmptyStatement, AtStatement, Leaves, Returns, Gives, Stays, Reads, Begins, At, Resumes
  <2>3. AtOne(parser, parser')
    BY <2>1, <2>2, TokenRules, TokenRulesOne
  <2> QED
    BY ONLY <2>3, TokensAtEnd, TokenWaits
<1>14. CASE EndPostfix
  <2>1. AtOne(parser, parser)
    BY <1>14, <1>1 DEF EndPostfix, At, Resumes, TreeKinds
  <2>2. parser' = parser
    BY <1>14 DEF EndPostfix, Leaves, Returns, Gives, Stays, Reads, Begins, At, Resumes
  <2>3. AtOne(parser, parser')
    BY <2>1, <2>2, TokenRules, TokenRulesOne
  <2> QED
    BY ONLY <2>3, TokensAtEnd, TokenWaits
<1>15. CASE EndBinary
  <2>1. AtOne(parser, parser)
    BY <1>15, <1>1 DEF EndBinary, At, Resumes, TreeKinds
  <2>2. parser' = parser
    BY <1>15 DEF EndBinary, Leaves, Returns, Gives, Stays, Reads, Begins, At, Resumes
  <2>3. AtOne(parser, parser')
    BY <2>1, <2>2, TokenRules, TokenRulesOne
  <2> QED
    BY ONLY <2>3, TokensAtEnd, TokenWaits
<1>16. CASE EndAssignment
  <2>1. AtOne(parser, parser)
    BY <1>16, <1>1 DEF EndAssignment, At, Resumes, TreeKinds
  <2>2. parser' = parser
    BY <1>16 DEF EndAssignment, Leaves, Returns, Gives, Stays, Reads, Begins, At, Resumes
  <2>3. AtOne(parser, parser')
    BY <2>1, <2>2, TokenRules, TokenRulesOne
  <2> QED
    BY ONLY <2>3, TokensAtEnd, TokenWaits
<1>17. CASE BlockStatements
  <2>1. AtOne(parser, parser)
    BY <1>17, <1>1 DEF BlockStatements, At, Resumes, TreeKinds
  <2>2. parser' = parser
    BY <1>17 DEF BlockStatements, Leaves, Returns, Gives, Stays, Reads, Begins, At, Resumes
  <2>3. AtOne(parser, parser')
    BY <2>1, <2>2, TokenRules, TokenRulesOne
  <2> QED
    BY ONLY <2>3, TokensAtEnd, TokenWaits
<1>18. CASE BlockStatement
  <2>1. AtOne(parser, parser)
    BY <1>18, <1>1 DEF BlockStatement, At, Resumes, TreeKinds
  <2>2. parser' = parser
    BY <1>18 DEF BlockStatement, Leaves, Returns, Gives, Stays, Reads, Begins, At, Resumes
  <2>3. AtOne(parser, parser')
    BY <2>1, <2>2, TokenRules, TokenRulesOne
  <2> QED
    BY ONLY <2>3, TokensAtEnd, TokenWaits
<1>19. CASE BlockGoesOn
  <2>1. AtOne(parser, parser)
    BY <1>19, <1>1 DEF BlockGoesOn, At, Resumes, TreeKinds, PastSemicolons
  <2>2. parser' = parser
    BY <1>19 DEF BlockGoesOn, Leaves, Returns, Gives, Stays, Reads, Begins, At, Resumes, PastSemicolons
  <2>3. AtOne(parser, parser')
    BY <2>1, <2>2, TokenRules, TokenRulesOne
  <2> QED
    BY ONLY <2>3, TokensAtEnd, TokenWaits
<1>20. CASE NoStatement
  <2>1. AtOne(parser, parser)
    BY <1>20, <1>1 DEF NoStatement, AtStatement, At, Resumes, TreeKinds
  <2>2. parser' = parser
    BY <1>20 DEF NoStatement, AtStatement, Leaves, Returns, Gives, Stays, Reads, Begins, At, Resumes
  <2>3. AtOne(parser, parser')
    BY <2>1, <2>2, TokenRules, TokenRulesOne
  <2> QED
    BY ONLY <2>3, TokensAtEnd, TokenWaits
<1>21. CASE DoStatement
  <2>1. AtOne(parser, parser)
    BY <1>21, <1>1 DEF DoStatement, AtStatement, At, Resumes, TreeKinds
  <2>2. parser' = parser
    BY <1>21 DEF DoStatement, AtStatement, Leaves, Returns, Gives, Stays, Reads, Begins, At, Resumes
  <2>3. AtOne(parser, parser')
    BY <2>1, <2>2, TokenRules, TokenRulesOne
  <2> QED
    BY ONLY <2>3, TokensAtEnd, TokenWaits
<1>22. CASE NoDeclarator
  <2>1. AtOne(parser, parser)
    BY <1>22, <1>1 DEF NoDeclarator, At, Resumes, TreeKinds
  <2>2. parser' = parser
    BY <1>22 DEF NoDeclarator, Leaves, Returns, Gives, Stays, Reads, Begins, At, Resumes
  <2>3. AtOne(parser, parser')
    BY <2>1, <2>2, TokenRules, TokenRulesOne
  <2> QED
    BY ONLY <2>3, TokensAtEnd, TokenWaits
<1>23. CASE Bracketed
  <2>1. AtOne(parser, parser)
    BY <1>23, <1>1 DEF Bracketed, At, Resumes, TreeKinds
  <2>2. parser' = parser
    BY <1>23 DEF Bracketed, Leaves, Returns, Gives, Stays, Reads, Begins, At, Resumes
  <2>3. AtOne(parser, parser')
    BY <2>1, <2>2, TokenRules, TokenRulesOne
  <2> QED
    BY ONLY <2>3, TokensAtEnd, TokenWaits
<1>24. CASE ReturnStatement
  <2>1. AtOne(parser, parser)
    BY <1>24, <1>1 DEF ReturnStatement, AtStatement, At, Resumes, TreeKinds
  <2>2. parser' = parser
    BY <1>24 DEF ReturnStatement, AtStatement, Leaves, Returns, Gives, Stays, Reads, Begins, At, Resumes
  <2>3. AtOne(parser, parser')
    BY <2>1, <2>2, TokenRules, TokenRulesOne
  <2> QED
    BY ONLY <2>3, TokensAtEnd, TokenWaits
<1>25. CASE PrimaryOperand
  <2>1. AtOne(parser, parser)
    BY <1>25, <1>1 DEF PrimaryOperand, At, Resumes, TreeKinds
  <2>2. PICK r \in {Primary(parser)} : parser' = r.p
    BY <1>25 DEF PrimaryOperand, Leaves, Returns, Gives, Stays, Reads, Begins, At, Resumes
  <2>3. AtOne(parser, NextToken(parser)) /\ AtOne(parser, NextToken(Misreport(parser)))
    BY <2>1, TokenRules, TokenRulesOne
  <2>4. r.p \in {NextToken(parser), NextToken(Misreport(parser))}
    BY <2>2 DEF Primary, Identifier
  <2>5. AtOne(parser, parser')
    BY <2>2, <2>3, <2>4
  <2> QED
    BY <2>5, TokensAtEnd
<1>26. CASE EndUnary
  <2>1. AtOne(parser, parser)
    BY <1>26, <1>1 DEF EndUnary, At, Resumes, TreeKinds
  <2>2. PICK r \in {Applied(Top.op, [p |-> parser, t |-> value])} : parser' = r.p
    BY <1>26 DEF EndUnary, Leaves, Returns, Gives, Stays, Reads, Begins, At, Resumes
  <2>3. Top.op \in UnaryOperators
    BY <1>26, <1>2, FramesDropped, Entering DEF EndUnary, Resumes, At, Framed, Sound, Top, Frames
  <2>4. Writes(parser, (Applied(Top.op, [p |-> parser, t |-> value])).p)
    BY <1>1, WritesTree, <2>3
  <2>5. AtOne(parser, parser')
    BY <2>1, <2>2, <2>4, WritesTokens
  <2> QED
    BY <2>5, TokensAtEnd
<1>27. CASE EndRight
  <2>1. AtOne(parser, parser)
    BY <1>27, <1>1 DEF EndRight, At, Resumes, TreeKinds
  <2>2. PICK r \in {Combine(Top.op, Top.left, [p |-> parser, t |-> value])} : parser' = r.p
    BY <1>27 DEF EndRight, Leaves, Returns, Gives, Stays, Reads, Begins, At, Resumes
  <2>3. Top.op \in BinaryOperators
    BY <1>27, <1>2, FramesDropped, Entering DEF EndRight, Resumes, At, Framed, Sound, Top, Frames
  <2>4. Writes(parser, (Combine(Top.op, Top.left, [p |-> parser, t |-> value])).p)
    BY <1>1, WritesTree, <2>3
  <2>5. AtOne(parser, parser')
    BY <2>1, <2>2, <2>4, WritesTokens
  <2> QED
    BY <2>5, TokensAtEnd
<1>28. CASE EndAssign
  <2>1. AtOne(parser, parser)
    BY <1>28, <1>1 DEF EndAssign, At, Resumes, TreeKinds
  <2>2. PICK r \in {ASGNtree([p |-> parser, t |-> value], Top.left)} : parser' = r.p
    BY <1>28 DEF EndAssign, Leaves, Returns, Gives, Stays, Reads, Begins, At, Resumes
  <2>3. Writes(parser, (ASGNtree([p |-> parser, t |-> value], Top.left)).p)
    BY <1>1, WritesTree
  <2>4. AtOne(parser, parser')
    BY <2>1, <2>2, <2>3, WritesTokens
  <2> QED
    BY <2>4, TokensAtEnd
<1>29. CASE EndExpressions
  <2>1. AtOne(parser, parser)
    BY <1>29, <1>1 DEF EndExpressions, At, Resumes, TreeKinds, Listing
  <2>2. Writes(parser, EmitListed(parser, "pad"))
    BY <1>1, WritesCode
  <2>3. parser' = EmitListed(parser, "pad")
    BY <1>29 DEF EndExpressions, Leaves, Returns, Gives, Stays, Reads, Begins, At, Resumes, Listing
  <2>4. AtOne(parser, parser')
    BY <2>1, <2>2, <2>3, WritesTokens
  <2> QED
    BY ONLY <2>4, TokensAtEnd, TokenWaits
<1>30. CASE EndConditional
  <2>1. AtOne(parser, parser)
    BY <1>30, <1>1 DEF EndConditional, At, Resumes, TreeKinds
  <2>2. parser' = parser \/ parser' = Stop(parser, "undefined")
    BY <1>30 DEF EndConditional, Leaves, Returns, Gives, Stays, Reads, Begins, At, Resumes
  <2>3. AtOne(parser, parser')
    BY <2>1, <2>2, TokenRules, TokenRulesOne
  <2> QED
    BY <2>3, TokensAtEnd
<1>31. CASE EndBracket
  <2>1. AtOne(parser, parser)
    BY <1>31, <1>1 DEF EndBracket, At, Resumes, TreeKinds
  <2>2. PICK c : c \in {parser, Needed(parser, value), Stop(Needed(parser, value), "assert")} /\ parser' = NextToken(Need(PushBack(c), ")"))
    BY <1>31 DEF EndBracket, Leaves, Returns, Gives, Stays, Reads, Begins, At, Resumes
  <2>3. Writes(parser, Needed(parser, value))
    BY <1>1, WritesCode
  <2>4. Writes(parser, c)
    BY <2>2, <2>3, <1>1, WritesCode
  <2>5. AtEither(parser, PushBack(c))
    BY <2>1, <2>4, WritesTokens, TokenRulesOne
  <2>6. AtEither(parser, Need(PushBack(c), ")"))
    BY <2>5, TokenRules
  <2>7. AtOne(parser, parser')
    BY <2>2, <2>6, TokenRules
  <2> QED
    BY <2>7, TokensAtEnd
<1>32. CASE EndIndex
  <2>1. AtOne(parser, parser)
    BY <1>32, <1>1 DEF EndIndex, At, Resumes, TreeKinds
  <2>2. PICK r \in {ARRAYtree(Top.array, [p |-> parser, t |-> value])} : parser' = NextToken(Need(PushBack(r.p), "]"))
    BY <1>32 DEF EndIndex, Leaves, Returns, Gives, Stays, Reads, Begins, At, Resumes
  <2>3. Writes(parser, r.p)
    BY <2>2, <1>1, WritesTree
  <2>4. AtEither(parser, PushBack(r.p))
    BY <2>1, <2>3, WritesTokens, TokenRulesOne
  <2>5. AtEither(parser, Need(PushBack(r.p), "]"))
    BY <2>4, TokenRules
  <2>6. AtOne(parser, parser')
    BY <2>2, <2>5, TokenRules
  <2> QED
    BY <2>6, TokensAtEnd
<1>33. CASE NoOperand
  <2>1. AtOne(parser, parser)
    BY <1>33, <1>1 DEF NoOperand, At, Resumes, TreeKinds
  <2>2. parser' = parser \/ parser' = Sized(NextToken(parser))
    BY <1>33 DEF NoOperand, Leaves, Returns, Gives, Stays, Reads, Begins, At, Resumes
  <2>3. AtOne(parser, NextToken(parser))
    BY <2>1, TokenRules, TokenRulesOne
  <2>4. AtOne(parser, parser')
    BY <2>1, <2>2, <2>3, SizedTokens
  <2> QED
    BY <2>4, TokensAtEnd
<1>34. CASE FunctionCall
  <2>1. AtOne(parser, parser)
    BY <1>34, <1>1 DEF FunctionCall, At, Resumes, TreeKinds
  <2>2. AtOne(parser, NextToken(parser))
    BY <2>1, TokenRules, TokenRulesOne
  <2>3. Writes(parser, Needed(parser, value))
    BY <1>1, WritesCode
  <2>4. AtOne(parser, Stop(Needed(parser, value), "assert"))
    BY <2>1, <2>3, WritesTokens, TokenRules, TokenRulesOne
  <2>5. parser' = Stop(Needed(parser, value), "assert") \/ Pass(NextToken(parser), calls, value, value.type.list)
    BY <1>34 DEF FunctionCall, Stays, Leaves
  <2>6. AtOne(parser, parser')
    BY <2>2, <2>4, <2>5, PassTokens
  <2> QED
    BY <2>6, TokensAtEnd
<1>35. CASE EndArgument
  <2>1. AtOne(parser, parser)
    BY <1>35, <1>1 DEF EndArgument, At, Resumes, TreeKinds
  <2>2. PICK q \in {Emit(Needed(parser, value), "para")} : \/ parser' = Emit(NextToken(q), "call")
                    \/ parser' = Stop(q, "assert")
                    \/ Pass(IF Is(q, ",") THEN NextToken(q) ELSE q, Popped, Top.function, Tail(Top.list))
    BY <1>35 DEF EndArgument, Stays, Returns, Leaves
  <2>3. Writes(parser, q)
    <3>1. Writes(parser, Needed(parser, value))
      BY <1>1, WritesCode
    <3>2. Writes(parser, Emit(Needed(parser, value), "para"))
      BY <3>1, WritesCode
    <3> QED
      BY <2>2, <3>2
  <2>4. AtOne(parser, q)
    BY <2>1, <2>3, WritesTokens
  <2>5. AtOne(parser, NextToken(q)) /\ AtOne(parser, Stop(q, "assert")) /\ IsParser(NextToken(q))
    BY <2>4, TokenRules, TokenRulesOne
  <2>6. Writes(NextToken(q), Emit(NextToken(q), "call"))
    BY <2>5, Chains, WritesCode
  <2>7. AtOne(parser, IF Is(q, ",") THEN NextToken(q) ELSE q)
    BY <2>4, <2>5
  <2>8. AtOne(parser, Emit(NextToken(q), "call"))
    BY <2>5, <2>6, WritesTokens
  <2>9. AtOne(parser, parser')
    BY <2>2, <2>5, <2>7, <2>8, PassTokens
  <2> QED
    BY <2>9, TokensAtEnd
<1>36. CASE EndQualifiers
  <2>1. AtOne(parser, parser)
    BY <1>36, <1>1 DEF EndQualifiers, At, Resumes, TreeKinds
  <2>2. parser' = PushBack(parser)
    BY <1>36 DEF EndQualifiers, Leaves, Returns, Gives, Stays, Reads, Begins, At, Resumes
  <2>3. AtEither(parser, parser')
    BY <2>1, <2>2, TokenRulesOne
  <2>4. Loose'
    BY <1>36, <1>2, LooseReturn DEF EndQualifiers, Leaves, Returns, Gives, Stays, Reads, Begins, At,
       Resumes, StatementsOfTrees, StatementsOfBlocks, DeclaratorsOfTypes
  <2> QED
    BY <2>3, <2>4, TokensAtEnd
<1>37. CASE EndSpecifiers
  <2>1. AtEither(parser, parser)
    BY <1>1
  <2>2. parser' = Report(parser)
    BY <1>37 DEF EndSpecifiers, Leaves, Returns, Gives, Stays, Reads, Begins, At, Resumes
  <2>3. AtEither(parser, parser')
    BY <2>1, <2>2, TokenRules
  <2>4. Loose'
    BY <1>37 DEF EndSpecifiers, Leaves, Returns, Gives, Stays, Reads, Begins, At, Resumes, Loose
  <2> QED
    BY <2>3, <2>4, TokensAtEnd
<1>38. CASE Star
  <2>1. AtEither(parser, parser)
    BY <1>1
  <2>2. AtOne(parser, NextToken(parser)) /\ AtEither(parser, NextToken(parser)) /\ AtEither(parser, PushBack(NextToken(parser)))
    BY <2>1, TokenRules, TokenRulesOne
  <2>3. parser' = NextToken(NextToken(parser))
    BY <1>38 DEF Star, Leaves, Returns, Gives, Stays, Reads, Begins, At, Resumes, Qualifies
  <2>4. AtOne(parser, parser')
    BY <2>2, <2>3, TokenRules, TokenRulesOne
  <2> QED
    BY <2>4, TokensAtEnd
<1>39. CASE EndStar
  <2>1. AtEither(parser, parser)
    BY <1>1
  <2>2. parser' = parser
    BY <1>39 DEF EndStar, Leaves, Returns, Gives, Stays, Reads, Begins, At, Resumes
  <2>3. AtEither(parser, parser')
    BY <2>1, <2>2
  <2>4. Loose'
    BY <1>39 DEF EndStar, Leaves, Returns, Gives, Stays, Reads, Begins, At, Resumes, Loose
  <2> QED
    BY <2>3, <2>4, TokensAtEnd
<1>40. CASE QualifiedPointer
  <2>1. AtEither(parser, parser)
    BY <1>1
  <2>2. AtOne(parser, NextToken(parser)) /\ AtEither(parser, NextToken(parser)) /\ AtEither(parser, PushBack(NextToken(parser)))
    BY <2>1, TokenRules, TokenRulesOne
  <2>3. parser' = NextToken(PushBack(NextToken(parser)))
    BY <1>40 DEF QualifiedPointer, Leaves, Returns, Gives, Stays, Reads, Begins, At, Resumes, Qualifies
  <2>4. AtOne(parser, parser')
    BY <2>2, <2>3, TokenRules, TokenRulesOne
  <2> QED
    BY <2>4, TokensAtEnd
<1>41. CASE EndQualifiedPointer
  <2>1. AtEither(parser, parser)
    BY <1>1
  <2>2. AtOne(parser, NextToken(parser)) /\ AtEither(parser, NextToken(parser)) /\ AtEither(parser, PushBack(NextToken(parser)))
    BY <2>1, TokenRules, TokenRulesOne
  <2>3. parser' = NextToken(parser)
    BY <1>41 DEF EndQualifiedPointer, Leaves, Returns, Gives, Stays, Reads, Begins, At, Resumes
  <2>4. AtOne(parser, parser')
    BY <2>2, <2>3, TokenRules, TokenRulesOne
  <2> QED
    BY <2>4, TokensAtEnd
<1>42. CASE EndPointer
  <2>1. AtEither(parser, parser)
    BY <1>1
  <2>2. AtOne(parser, NextToken(parser)) /\ AtEither(parser, NextToken(parser)) /\ AtEither(parser, PushBack(NextToken(parser)))
    BY <2>1, TokenRules, TokenRulesOne
  <2>3. parser' = NextToken(PushBack(NextToken(parser)))
    BY <1>42 DEF EndPointer, Leaves, Returns, Gives, Stays, Reads, Begins, At, Resumes
  <2>4. AtOne(parser, parser')
    BY <2>2, <2>3, TokenRules, TokenRulesOne
  <2> QED
    BY <2>4, TokensAtEnd
<1>43. CASE EndNamed
  <2>1. AtEither(parser, parser)
    BY <1>1
  <2>2. parser' = parser
    BY <1>43 DEF EndNamed, Leaves, Returns, Gives, Stays, Reads, Begins, At, Resumes
  <2>3. AtEither(parser, parser')
    BY <2>1, <2>2
  <2>4. Loose'
    BY <1>43, <1>2, LooseReturn DEF EndNamed, Leaves, Returns, Gives, Stays, Reads, Begins, At, Resumes,
       StatementsOfTrees, StatementsOfBlocks, DeclaratorsOfTypes
  <2> QED
    BY <2>3, <2>4, TokensAtEnd
<1>44. CASE CloseBracketed
  <2>1. AtEither(parser, parser)
    BY <1>1
  <2>2. AtEither(parser, Need(parser, ")"))
    BY <2>1, TokenRules
  <2>3. parser' = NextToken(Need(parser, ")"))
    BY <1>44 DEF CloseBracketed, Leaves, Returns, Gives, Stays, Reads, Begins, At, Resumes
  <2>4. AtOne(parser, parser')
    BY <2>2, <2>3, TokenRules
  <2> QED
    BY <2>4, TokensAtEnd
<1>45. CASE EndBracketed
  <2>1. AtEither(parser, parser)
    BY <1>1
  <2>2. parser' = parser \/ parser' = Stop(parser, "undefined")
    BY <1>45 DEF EndBracketed, Leaves, Returns, Gives, Stays, Reads, Begins, At, Resumes
  <2>3. AtEither(parser, parser')
    BY <2>1, <2>2, TokenRules, TokenRulesOne
  <2>4. Loose'
    BY <1>45, <1>2, LooseReturn DEF EndBracketed, Leaves, Returns, Gives, Stays, Reads, Begins, At, Resumes,
       StatementsOfTrees, StatementsOfBlocks, DeclaratorsOfTypes
  <2> QED
    BY <2>3, <2>4, TokensAtEnd
<1>46. CASE Dimension
  <2>1. AtEither(parser, parser)
    BY <1>1
  <2>2. AtOne(parser, NeedConstant(parser))
    BY <2>1, TokenRules
  <2>3. AtEither(parser, Need(NeedConstant(parser), "]"))
    BY <2>2, TokenRules, TokenRulesOne
  <2>4. parser' = NextToken(Need(NeedConstant(parser), "]"))
    BY <1>46 DEF Dimension, Leaves, Returns, Gives, Stays, Reads, Begins, At, Resumes
  <2>5. AtOne(parser, parser')
    BY <2>3, <2>4, TokenRules
  <2> QED
    BY <2>5, TokensAtEnd
<1>47. CASE NoSuffix
  <2>1. AtOne(parser, parser)
    BY <1>47, <1>1 DEF NoSuffix, At, Resumes, TreeKinds
  <2>2. parser' = PushBack(parser)
    BY <1>47 DEF NoSuffix, Leaves, Returns, Gives, Stays, Reads, Begins, At, Resumes
  <2>3. AtEither(parser, parser')
    BY <2>1, <2>2, TokenRulesOne
  <2>4. Loose'
    BY <1>47, <1>2, LooseReturn DEF NoSuffix, Leaves, Returns, Gives, Stays, Reads, Begins, At, Resumes,
       StatementsOfTrees, StatementsOfBlocks, DeclaratorsOfTypes
  <2> QED
    BY <2>3, <2>4, TokensAtEnd
<1>48. CASE NoParameters
  <2>1. AtEither(parser, parser)
    BY <1>1
  <2>2. AtOne(parser, NextToken(parser)) /\ AtEither(parser, NextToken(parser)) /\ AtEither(parser, PushBack(NextToken(parser)))
    BY <2>1, TokenRules, TokenRulesOne
  <2>3. parser' = NextToken(parser) \/ parser' = Need(NextToken(parser), ")")
    BY <1>48 DEF NoParameters, Leaves, Returns, Gives, Stays, Reads, Begins, At, Resumes
  <2>4. AtEither(parser, parser')
    BY <2>2, <2>3, TokenRules
  <2>5. Loose'
    BY <1>48, <1>2, LooseReturn DEF NoParameters, Leaves, Returns, Gives, Stays, Reads, Begins, At, Resumes,
       StatementsOfTrees, StatementsOfBlocks, DeclaratorsOfTypes
  <2> QED
    BY <2>4, <2>5, TokensAtEnd
<1>49. CASE Parameters
  <2>1. AtEither(parser, parser)
    BY <1>1
  <2>2. AtOne(parser, NextToken(parser)) /\ AtEither(parser, NextToken(parser)) /\ AtEither(parser, PushBack(NextToken(parser)))
    BY <2>1, TokenRules, TokenRulesOne
  <2>3. parser' = NextToken(PushBack(NextToken(parser)))
    BY <1>49 DEF Parameters, Leaves, Returns, Gives, Stays, Reads, Begins, At, Resumes, Specifies, Qualifies
  <2>4. AtOne(parser, parser')
    BY <2>2, <2>3, TokenRules, TokenRulesOne
  <2> QED
    BY <2>4, TokensAtEnd
<1>50. CASE AnotherParameter
  <2>1. AtEither(parser, parser)
    BY <1>1
  <2>2. AtOne(parser, NextToken(parser)) /\ AtEither(parser, NextToken(parser)) /\ AtEither(parser, PushBack(NextToken(parser)))
    BY <2>1, TokenRules, TokenRulesOne
  <2>3. parser' = NextToken(NextToken(parser))
    BY <1>50 DEF AnotherParameter, Leaves, Returns, Gives, Stays, Reads, Begins, At, Resumes, Specifies,
       Qualifies
  <2>4. AtOne(parser, parser')
    BY <2>2, <2>3, TokenRules, TokenRulesOne
  <2> QED
    BY <2>4, TokensAtEnd
<1>51. CASE EndParameters
  <2>1. AtEither(parser, parser)
    BY <1>1
  <2>2. AtOne(parser, NextToken(parser)) /\ AtEither(parser, NextToken(parser)) /\ AtEither(parser, PushBack(NextToken(parser)))
    BY <2>1, TokenRules, TokenRulesOne
  <2>3. parser' = NextToken(parser) \/ parser' = Report(NextToken(parser))
    BY <1>51 DEF EndParameters, Leaves, Returns, Gives, Stays, Reads, Begins, At, Resumes
  <2>4. AtEither(parser, parser')
    BY <2>2, <2>3, TokenRules
  <2>5. Loose'
    BY <1>51, <1>2, LooseReturn DEF EndParameters, Leaves, Returns, Gives, Stays, Reads, Begins, At,
       Resumes, StatementsOfTrees, StatementsOfBlocks, DeclaratorsOfTypes
  <2> QED
    BY <2>4, <2>5, TokensAtEnd
<1>52. CASE NotDeclared
  <2>1. AtEither(parser, parser)
    BY <1>1
  <2>2. parser' = Misreport(parser)
    BY <1>52 DEF NotDeclared, Leaves, Returns, Gives, Stays, Reads, Begins, At, Resumes
  <2>3. AtOne(parser, parser')
    BY <2>1, <2>2, TokenRules
  <2> QED
    BY <2>3, TokensAtEnd
<1>53. CASE AnotherDeclarator
  <2>1. AtEither(parser, parser)
    BY <1>1
  <2>2. AtEither(parser, Verdict(value)) /\ AtOne(parser, NextToken(Verdict(value)))
    BY <2>1, <1>1, VerdictTokens, TokenRules
  <2>3. parser' = NextToken(Verdict(value))
    BY <1>53 DEF AnotherDeclarator, Leaves, Returns, Gives, Stays, Reads, Begins, At, Resumes, DeclaredTo
  <2>4. AtOne(parser, parser')
    BY <2>2, <2>3
  <2> QED
    BY <2>4, TokensAtEnd
<1>54. CASE Initializer
  <2>1. AtEither(parser, parser)
    BY <1>1
  <2>2. AtEither(parser, Verdict(value)) /\ AtOne(parser, NextToken(Verdict(value)))
    BY <2>1, <1>1, VerdictTokens, TokenRules
  <2>3. parser' = NextToken(Verdict(value))
    BY <1>54 DEF Initializer, Leaves, Returns, Gives, Stays, Reads, Begins, At, Resumes, DeclaredTo
  <2>4. AtOne(parser, parser')
    BY <2>2, <2>3
  <2> QED
    BY <2>4, TokensAtEnd
<1>55. CASE EndDeclarator
  <2>1. AtEither(parser, parser)
    BY <1>1
  <2>2. AtEither(parser, Verdict(value)) /\ AtOne(parser, NextToken(Verdict(value)))
    BY <2>1, <1>1, VerdictTokens, TokenRules
  <2>3. AtEither(parser, PushBack(NextToken(Verdict(value))))
    BY <2>2, TokenRulesOne
  <2>4. AtEither(parser, Need(PushBack(NextToken(Verdict(value))), ";"))
    BY <2>3, TokenRules
  <2>5. EndsDeclaration(Need(PushBack(NextToken(Verdict(value))), ";")) \/ parser' = NextToken(Need(PushBack(NextToken(Verdict(value))), ";"))
    BY <1>55 DEF EndDeclarator, Leaves
  <2>6. AtOne(parser, parser')
    BY <2>4, <2>5, EndsDeclarationTokens, TokenRules
  <2> QED
    BY <2>6, TokensAtEnd
<1>56. CASE Recover
  <2>1. AtEither(parser, parser)
    BY <1>1
  <2>2. EndsDeclaration(parser) \/ parser' = NextToken(parser)
    BY <1>56 DEF Recover, Stays, Leaves
  <2>3. AtOne(parser, parser')
    BY <2>1, <2>2, EndsDeclarationTokens, TokenRules
  <2> QED
    BY <2>3, TokensAtEnd
<1>57. CASE FunctionDefinition
  <2>1. AtEither(parser, parser)
    BY <1>1
  <2>2. AtEither(parser, Verdict(value)) /\ AtOne(parser, NextToken(Verdict(value)))
    BY <2>1, <1>1, VerdictTokens, TokenRules
  <2>3. IsParser(NextToken(Verdict(value)))
    BY <2>2, TokenRules, TokenRulesOne
  <2>4. AtOne(parser, AtBrace(NextToken(Verdict(value)), value))
    BY <2>2, <2>3, BraceTokens, TokenRulesOne
  <2>5. IsParser(AtBrace(NextToken(Verdict(value)), value))
    BY <2>4, TokenRules, TokenRulesOne
  <2>6. AtEither(parser, MakeHead(AtBrace(NextToken(Verdict(value)), value)))
    BY <2>4, <2>5, TokenRulesOne, CodeWrites
  <2>7. AtOne(parser, parser')
    BY <1>57, <2>6, OpenBlockTokens DEF FunctionDefinition
  <2> QED
    BY <2>7, TokensAtEnd
<1>58. CASE UnitDeclaration
  <2>1. AtOne(parser, parser)
    BY <1>58, <1>1 DEF UnitDeclaration, At, Resumes, TreeKinds, Turn
  <2>2. AtOne(parser, [parser EXCEPT !.isFinish = FALSE])
    BY <2>1, <1>1, DeclarationTokens, TokenRulesOne
  <2>3. AtEither(parser, PushBack([parser EXCEPT !.isFinish = FALSE]))
    BY <2>2, TokenRulesOne
  <2>4. parser' = NextToken(PushBack([parser EXCEPT !.isFinish = FALSE]))
    BY <1>58 DEF UnitDeclaration, Leaves, Returns, Gives, Stays, Reads, Begins, At, Resumes, Declaration,
       Specifies, Qualifies
  <2>5. AtOne(parser, parser')
    BY <2>3, <2>4, TokenRules
  <2> QED
    BY <2>5, TokensAtEnd
<1>59. CASE BlockDeclaration
  <2>1. AtOne(parser, parser)
    BY <1>59, <1>1 DEF BlockDeclaration, At, Resumes, TreeKinds
  <2>2. AtOne(parser, [parser EXCEPT !.isFinish = FALSE])
    BY <2>1, <1>1, DeclarationTokens, TokenRulesOne
  <2>3. AtEither(parser, PushBack([parser EXCEPT !.isFinish = FALSE]))
    BY <2>2, TokenRulesOne
  <2>4. parser' = NextToken(PushBack([parser EXCEPT !.isFinish = FALSE]))
    BY <1>59 DEF BlockDeclaration, Leaves, Returns, Gives, Stays, Reads, Begins, At, Resumes, Declaration,
       Specifies, Qualifies
  <2>5. AtOne(parser, parser')
    BY <2>3, <2>4, TokenRules
  <2> QED
    BY <2>5, TokensAtEnd
<1>60. CASE UnitOther
  <2>1. AtOne(parser, parser)
    BY <1>60, <1>1 DEF UnitOther, At, Resumes, TreeKinds, Turn
  <2>2. PICK c : c \in {parser, Stop(parser, "beyond")} /\ parser' = NextToken(c)
    BY <1>60 DEF UnitOther, Leaves, Returns, Gives, Stays, Reads, Begins, At, Resumes
  <2>3. AtEither(parser, c)
    BY <2>1, <2>2, TokenRules, TokenRulesOne
  <2>4. AtOne(parser, parser')
    BY <2>2, <2>3, TokenRules
  <2> QED
    BY <2>4, TokensAtEnd
<1>61. CASE EndFunction
  <2>1. AtEither(parser, parser)
    BY <1>1
  <2>2. PICK t : EndsDeclaration(Need(ExitEnv([parser EXCEPT !.printed = t]), "}"))
    BY <1>61 DEF EndFunction
  <2>3. AtEither(parser, [parser EXCEPT !.printed = t])
    BY <2>1, <1>1, DeclarationTokens, TokenRules
  <2>4. IsParser([parser EXCEPT !.printed = t])
    BY <2>3, TokenRules
  <2>5. AtEither(parser, ExitEnv([parser EXCEPT !.printed = t]))
    BY <2>3, <2>4, DeclarationTokens, TokenRules
  <2>6. AtEither(parser, Need(ExitEnv([parser EXCEPT !.printed = t]), "}"))
    BY <2>5, TokenRules
  <2>7. AtOne(parser, parser')
    BY <2>2, <2>6, EndsDeclarationTokens
  <2> QED
    BY <2>7, TokensAtEnd
<1>62. CASE BlockTakes
  <2>1. AtEither(parser, parser)
    BY <1>1
  <2>2. PICK taken \in {TakeLists(NextToken(parser), Top.ret, value)} : parser' = taken.p
    BY <1>62 DEF BlockTakes, Takes, Leaves
  <2>3. AtOne(parser, NextToken(parser)) /\ IsParser(NextToken(parser))
    BY <2>1, TokenRules, TokenRulesOne
  <2>4. Writes(NextToken(parser), taken.p)
    BY <2>2, <2>3, Chains, WritesBlock
  <2>5. AtOne(parser, parser')
    BY <2>2, <2>3, <2>4, WritesTokens
  <2> QED
    BY <2>5, TokensAtEnd
<1>63. CASE CloseBlock
  <2>1. AtOne(parser, parser)
    BY <1>63, <1>1 DEF CloseBlock, At, Resumes, TreeKinds
  <2>2. parser' = PushBack(ExitEnv(parser))
    BY <1>63 DEF CloseBlock, Leaves, Returns, Gives, Stays, Reads, Begins, At, Resumes
  <2>3. AtOne(parser, ExitEnv(parser))
    BY <2>1, <1>1, DeclarationTokens, TokenRulesOne
  <2>4. AtEither(parser, parser')
    BY <2>2, <2>3, TokenRulesOne
  <2>5. Loose'
    BY <1>63, <1>2, LooseReturn DEF CloseBlock, Leaves, Returns, Gives, Stays, Reads, Begins, At, Resumes,
       StatementsOfTrees, StatementsOfBlocks, DeclaratorsOfTypes
  <2> QED
    BY <2>4, <2>5, TokensAtEnd
<1>64. CASE InnerBlock
  <2>1. AtEither(parser, parser)
    BY <1>1
  <2>2. AtOne(parser, parser')
    BY <1>64, <1>1, OpenBlockTokens DEF InnerBlock
  <2> QED
    BY <2>2, TokensAtEnd
<1>65. CASE SwitchStatement
  <2>1. AtEither(parser, parser)
    BY <1>1
  <2>2. parser' = Stop(parser, "assert")
    BY <1>65 DEF SwitchStatement, AtStatement, Leaves, Returns, Gives, Stays, Reads, Begins, At, Resumes
  <2>3. AtOne(parser, parser')
    BY <2>1, <2>2, TokenRules
  <2> QED
    BY <2>3, TokensAtEnd
<1>66. CASE LateDeclaration
  <2>1. AtEither(parser, parser)
    BY <1>1
  <2>2. parser' = Misreport(parser)
    BY <1>66 DEF LateDeclaration, AtStatement, Leaves, Returns, Gives, Stays, Reads, Begins, At, Resumes
  <2>3. AtOne(parser, parser')
    BY <2>1, <2>2, TokenRules
  <2> QED
    BY <2>3, TokensAtEnd
<1>67. CASE ExpressionStatement
  <2>1. AtOne(parser, parser)
    BY <1>67, <1>1 DEF ExpressionStatement, AtStatement, At, Resumes, TreeKinds
  <2>2. parser' = parser \/ parser' = NextToken(Report(parser))
    BY <1>67 DEF ExpressionStatement, AtStatement, Leaves, Returns, Gives, Stays, Reads, Begins, At, Resumes
  <2>3. AtOne(parser, parser')
    BY <2>1, <2>2, TokenRules, TokenRulesOne
  <2> QED
    BY <2>3, TokensAtEnd
<1>68. CASE AfterExpression
  <2>1. AtOne(parser, parser)
    BY <1>68, <1>1 DEF AfterExpression, At, Resumes, TreeKinds
  <2>2. PICK t : parser' = NextToken(PushBack([parser EXCEPT !.trees = t]))
    BY <1>68 DEF AfterExpression, Leaves, Returns, Gives, Stays, Reads, Begins, At, Resumes
  <2>3. AtOne(parser, [parser EXCEPT !.trees = t])
    BY <2>1, <1>1, DeclarationTokens, TokenRulesOne
  <2>4. AtEither(parser, PushBack([parser EXCEPT !.trees = t]))
    BY <2>3, TokenRulesOne
  <2>5. AtOne(parser, parser')
    BY <2>2, <2>4, TokenRules
  <2> QED
    BY <2>5, TokensAtEnd
<1>69. CASE EndExpression
  <2>1. AtOne(parser, parser)
    BY <1>69, <1>1 DEF EndExpression, At, Resumes, TreeKinds, PastSemicolons
  <2>2. parser' = PushBack(parser)
    BY <1>69 DEF EndExpression, Leaves, Returns, Gives, Stays, Reads, Begins, At, Resumes, PastSemicolons
  <2>3. AtEither(parser, parser')
    BY <2>1, <2>2, TokenRulesOne
  <2>4. Loose'
    BY <1>69, <1>2, LooseReturn DEF EndExpression, Leaves, Returns, Gives, Stays, Reads, Begins, At,
       Resumes, PastSemicolons, StatementsOfTrees, StatementsOfBlocks, DeclaratorsOfTypes
  <2> QED
    BY <2>3, <2>4, TokensAtEnd
<1>70. CASE BreakStatement
  <2>1. AtEither(parser, parser)
    BY <1>1
  <2>2. parser' = Need(Jump("break"), ";")
    BY <1>70 DEF BreakStatement, AtStatement, Leaves, Returns, Gives, Stays, Reads, Begins, At, Resumes
  <2>3. AtEither(parser, Jump("break"))
    BY <2>1, <1>1, JumpWrites, WritesTokens
  <2>4. AtEither(parser, parser')
    BY <2>2, <2>3, TokenRules
  <2>5. Loose'
    BY <1>70, <1>2, LooseReturn DEF BreakStatement, AtStatement, Leaves, Returns, Gives, Stays, Reads, Begins, At,
       Resumes, StatementsOfTrees, StatementsOfBlocks, DeclaratorsOfTypes
  <2> QED
    BY <2>4, <2>5, TokensAtEnd
<1>71. CASE ContinueStatement
  <2>1. AtEither(parser, parser)
    BY <1>1
  <2>2. parser' = Need(Jump("continue"), ";")
    BY <1>71 DEF ContinueStatement, AtStatement, Leaves, Returns, Gives, Stays, Reads, Begins, At, Resumes
  <2>3. AtEither(parser, Jump("continue"))
    BY <2>1, <1>1, JumpWrites, WritesTokens
  <2>4. AtEither(parser, parser')
    BY <2>2, <2>3, TokenRules
  <2>5. Loose'
    BY <1>71, <1>2, LooseReturn DEF ContinueStatement, AtStatement, Leaves, Returns, Gives, Stays, Reads, Begins, At,
       Resumes, StatementsOfTrees, StatementsOfBlocks, DeclaratorsOfTypes
  <2> QED
    BY <2>4, <2>5, TokensAtEnd
<1>72. CASE EndReturn
  <2>1. AtEither(parser, parser)
    BY <1>1
  <2>2. parser' = Need(Emit(parser, "ret"), ";")
    BY <1>72 DEF EndReturn, Leaves, Returns, Gives, Stays, Reads, Begins, At, Resumes
  <2>3. Writes(parser, Emit(parser, "ret"))
    BY <1>1, WritesCode
  <2>4. AtEither(parser, Emit(parser, "ret"))
    BY <2>1, <2>3, WritesTokens
  <2>5. AtEither(parser, parser')
    BY <2>2, <2>4, TokenRules
  <2>6. Loose'
    BY <1>72, <1>2, LooseReturn DEF EndReturn, Leaves, Returns, Gives, Stays, Reads, Begins, At, Resumes,
       StatementsOfTrees, StatementsOfBlocks, DeclaratorsOfTypes
  <2> QED
    BY <2>5, <2>6, TokensAtEnd
<1>73. CASE IfStatement
  <2>1. AtEither(parser, parser)
    BY <1>1
  <2>2. parser' = NextToken(Need(parser, "("))
    BY <1>73 DEF IfStatement, AtStatement, Leaves, Returns, Gives, Stays, Reads, Begins, At, Resumes, OpenBracket
  <2>3. AtEither(parser, Need(parser, "("))
    BY <2>1, TokenRules
  <2>4. AtOne(parser, parser')
    BY <2>2, <2>3, TokenRules
  <2> QED
    BY <2>4, TokensAtEnd
<1>74. CASE IfBranch
  <2>1. AtOne(parser, parser)
    BY <1>74, <1>1 DEF IfBranch, At, Resumes, TreeKinds
  <2>2. PICK e \in {Decided([p |-> parser, t |-> value])} : parser' = FreshLabel(CloseCondition(e.p))
    BY <1>74 DEF IfBranch, Leaves, Returns, Gives, Stays, Reads, Begins, At, Resumes
  <2>3. Writes(parser, e.p)
    BY <2>2, <1>1, WritesTree
  <2>4. AtOne(parser, e.p)
    BY <2>1, <2>3, WritesTokens
  <2>5. AtOne(parser, CloseCondition(e.p))
    BY <2>4, ConditionTokens
  <2>6. AtOne(parser, parser')
    BY <2>2, <2>5, LabelTokens
  <2> QED
    BY <2>6, TokensAtEnd
<1>75. CASE AfterBranch
  <2>1. AtEither(parser, parser)
    BY <1>1
  <2>2. PICK r : Writes(parser, r) /\ parser' = NextToken(r)
    <3>1. Writes(parser, Make(parser, "label", Top.label))
        BY <1>1, WritesCode
      <3> DEFINE q == Make(parser, "label", Top.label)
      <3>2. Writes(parser, InsertAfter(q, Top.at, Newest(q)))
        BY <3>1, WritesCode
      <3> DEFINE r == PatchAll(InsertAfter(q, Top.at, Newest(q)), Top.cond.true, Top.label)
      <3>3. Writes(parser, r)
        BY <3>2, WritesCode
      <3> DEFINE z == Read(r, value)
      <3>4. parser' = NextToken(z)
        BY <1>75 DEF AfterBranch, Leaves
      <3> HIDE DEF r
      <3>5. Writes(parser, z)
        BY <3>3, WritesCode
      <3> HIDE DEF z
      <3> QED
        BY <3>4, <3>5
  <2>3. AtEither(parser, r)
    BY <2>1, <2>2, WritesTokens
  <2>4. AtOne(parser, parser')
    BY <2>2, <2>3, TokenRules
  <2> QED
    BY <2>4, TokensAtEnd
<1>76. CASE EndIf
  <2>1. AtOne(parser, parser)
    BY <1>76, <1>1 DEF EndIf, At, Resumes, TreeKinds, PastSemicolons
  <2>2. PICK q, block : (q = NextToken(parser) \/ q = Merge(NextToken(parser), Top.cond.false, Top.ret.next)) /\ EndOfSelect(q, block)
    BY <1>76 DEF EndIf
  <2>3. AtOne(parser, NextToken(parser)) /\ IsParser(NextToken(parser))
    BY <2>1, TokenRules, TokenRulesOne
  <2>4. AtOne(parser, q)
    BY <2>2, <2>3, CodeWrites, WritesTokens
  <2>5. AtEither(parser, parser')
    BY <2>2, <2>4, EndOfSelectTokens
  <2>6. Loose'
    BY <1>76, <1>2, <2>2, LooseReturn DEF EndIf, Leaves, Returns, Gives, Stays, Reads, Begins, At, Resumes,
       PastSemicolons, EndOfSelect, StatementsOfBlocks
  <2> QED
    BY <2>5, <2>6, TokensAtEnd
<1>77. CASE ElseBranch
  <2>1. AtOne(parser, parser)
    BY <1>77, <1>1 DEF ElseBranch, At, Resumes, TreeKinds, PastSemicolons
  <2>2. PICK p, w : p = NextToken(FreshLabel(FreshLabel(parser))) /\ w = Make(Make(p, "skip", Unset), "skip", Unset) /\ parser' = w
    BY <1>77 DEF ElseBranch, Leaves, Returns, Gives, Stays, Reads, Begins, At, Resumes
  <2>3. Writes(parser, FreshLabel(FreshLabel(parser)))
    BY <1>1, WritesCode
  <2>4. AtOne(parser, p) /\ IsParser(p)
    BY <2>1, <2>2, <2>3, WritesTokens, TokenRules, TokenRulesOne
  <2>5. Writes(p, Make(p, "skip", Unset))
    BY <2>4, CodeWrites
  <2>6. Writes(p, w)
    BY <2>2, <2>5, WritesCode
  <2>7. AtOne(parser, parser')
    BY <2>2, <2>4, <2>6, WritesTokens
  <2> QED
    BY <2>7, TokensAtEnd
<1>78. CASE EndElse
  <2>1. HasElse
    BY <1>78, <1>2, FramesDropped, Entering DEF EndElse, Resumes, At, Framed, Sound, Top, Frames
  <2>2. Came(parser, parser')
    <3>1. PICK p, block : Writes(parser, p) /\ EndOfSelect(p, block)
        BY <1>78, <1>1, ElseWrites DEF EndElse
      <3>2. Writes(p, p) /\ Came(parser, parser)
        BY <3>1, <1>1, Chains DEF Writes, SameTokens, ComesFrom, AtEither
      <3> DEFINE q == Make(FreshLabel(p), "label", p.labels + 1)
      <3>3. Writes(parser, q)
        BY <3>1, WritesCode
      <3> HIDE DEF q
      <3> DEFINE r == PatchAll(Append1(q, Newest(q)), block.next, q.labels)
      <3>4. Writes(parser, r)
        BY <3>3, WritesCode
      <3>5. parser' = PushBack(r)
        BY <3>1 DEF EndOfSelect, Returns, Leaves, q, r
      <3> HIDE DEF r
      <3> QED
        BY <3>2, <3>4, <3>5, TokensKept, TokensTyped DEF Writes
  <2> QED
    BY <2>1, <2>2, TokensAtEnd DEF AtOne
<1>79. CASE WhileStatement
  <2>1. AtEither(parser, parser)
    BY <1>1
  <2>2. parser' = NextToken(Need(Labelled(parser), "("))
    BY <1>79 DEF WhileStatement, AtStatement, Leaves, Returns, Gives, Stays, Reads, Begins, At, Resumes, OpenBracket
  <2>3. AtEither(parser, Labelled(parser))
    BY <2>1, <1>1, WritesCode, WritesTokens
  <2>4. AtEither(parser, Need(Labelled(parser), "("))
    BY <2>3, TokenRules
  <2>5. AtOne(parser, parser')
    BY <2>2, <2>4, TokenRules
  <2> QED
    BY <2>5, TokensAtEnd
<1>80. CASE WhileBody
  <2>1. AtOne(parser, parser)
    BY <1>80, <1>1 DEF WhileBody, At, Resumes, TreeKinds
  <2>2. parser' = Labelled(CloseCondition(parser))
    BY <1>80 DEF WhileBody, Leaves, Returns, Gives, Stays, Reads, Begins, At, Resumes
  <2>3. AtOne(parser, CloseCondition(parser))
    BY <2>1, ConditionTokens
  <2>4. AtOne(parser, parser')
    BY <2>2, <2>3, LabelTokens
  <2> QED
    BY <2>4, TokensAtEnd
<1>81. CASE EndWhile
  <2>1. AtEither(parser, parser)
    BY <1>1
  <2>2. Writes(parser, parser')
    BY <1>81, <1>1, WhileWrites
  <2>3. AtEither(parser, parser')
    BY <2>1, <2>2, WritesTokens
  <2>4. Loose'
    BY <1>81, <1>2, LooseReturn DEF EndWhile, Leaves, Returns, Gives, Stays, Reads, Begins, At, Resumes,
       StatementsOfTrees, StatementsOfBlocks, DeclaratorsOfTypes
  <2> QED
    BY <2>3, <2>4, TokensAtEnd
<1>82. CASE ForStatement
  <2>1. AtEither(parser, parser)
    BY <1>1
  <2>2. parser' = NextToken(Need(EmitListed(parser, "pad"), "("))
    BY <1>82 DEF ForStatement, AtStatement, Leaves, Returns, Gives, Stays, Reads, Begins, At, Resumes, OpenBracket
  <2>3. Writes(parser, EmitListed(parser, "pad"))
    BY <1>1, WritesCode
  <2>4. AtEither(parser, EmitListed(parser, "pad"))
    BY <2>1, <2>3, WritesTokens
  <2>5. AtEither(parser, Need(EmitListed(parser, "pad"), "("))
    BY <2>4, TokenRules
  <2>6. AtOne(parser, parser')
    BY <2>2, <2>5, TokenRules
  <2> QED
    BY <2>6, TokensAtEnd
<1>83. CASE ForCondition
  <2>1. AtOne(parser, parser)
    BY <1>83, <1>1 DEF ForCondition, At, Resumes, TreeKinds
  <2>2. parser' = EmitListed(FreshLabel(Semicolon(parser)), "label")
    BY <1>83 DEF ForCondition, Leaves, Returns, Gives, Stays, Reads, Begins, At, Resumes
  <2>3. AtOne(parser, Semicolon(parser))
    BY <2>1, ConditionTokens
  <2>4. AtOne(parser, parser')
    BY <2>2, <2>3, LabelTokens
  <2> QED
    BY <2>4, TokensAtEnd
<1>84. CASE ForStep
  <2>1. AtOne(parser, parser)
    BY <1>84, <1>1 DEF ForStep, At, Resumes, TreeKinds
  <2>2. parser' = MakeHead(EmitListed(FreshLabel(FreshLabel(Semicolon(parser))), "label"))
    BY <1>84 DEF ForStep, Leaves, Returns, Gives, Stays, Reads, Begins, At, Resumes
  <2>3. AtOne(parser, Semicolon(parser))
    BY <2>1, ConditionTokens
  <2>4. AtOne(parser, parser')
    BY <2>2, <2>3, LabelTokens
  <2> QED
    BY <2>4, TokensAtEnd
<1>85. CASE ForBody
  <2>1. AtOne(parser, parser)
    BY <1>85, <1>1 DEF ForBody, At, Resumes, TreeKinds
  <2>2. AtOne(parser, CloseCondition(parser))
    BY <2>1, ConditionTokens
  <2>3. Writes(CloseCondition(parser), parser')
    BY <1>85, <2>2, BodyWrites DEF AtOne, Came, ComesFrom
  <2>4. AtOne(parser, parser')
    BY <2>2, <2>3, WritesTokens
  <2> QED
    BY <2>4, TokensAtEnd
<1>86. CASE EndFor
  <2>1. AtEither(parser, parser)
    BY <1>1
  <2>2. Writes(parser, parser')
    BY <1>86, <1>1, ForWrites
  <2>3. AtEither(parser, parser')
    BY <2>1, <2>2, WritesTokens
  <2>4. Loose'
    BY <1>86, <1>2, LooseReturn DEF EndFor, Leaves, Returns, Gives, Stays, Reads, Begins, At, Resumes,
       StatementsOfTrees, StatementsOfBlocks, DeclaratorsOfTypes
  <2> QED
    BY <2>3, <2>4, TokensAtEnd
<1>87. CASE UNCHANGED vars
  <2>1. parser' = parser /\ (TokenWaits' <=> TokenWaits)
    BY <1>87 DEF vars, TokenWaits, Loose, One, Either, Typed, HasElse, Waits, Top
  <2> QED
    BY <2>1, <1>1 DEF ComesFrom
<1> QED
  BY <1>3, <1>4, <1>5, <1>6, <1>7, <1>8, <1>9, <1>10, <1>11, <1>12, <1>13, <1>14, <1>15, <1>16, <1>17,
     <1>18, <1>19, <1>20, <1>21, <1>22, <1>23, <1>24, <1>25, <1>26, <1>27, <1>28, <1>29, <1>30, <1>31,
     <1>32, <1>33, <1>34, <1>35, <1>36, <1>37, <1>38, <1>39, <1>40, <1>41, <1>42, <1>43, <1>44, <1>45,
     <1>46, <1>47, <1>48, <1>49, <1>50, <1>51, <1>52, <1>53, <1>54, <1>55, <1>56, <1>57, <1>58, <1>59,
     <1>60, <1>61, <1>62, <1>63, <1>64, <1>65, <1>66, <1>67, <1>68, <1>69, <1>70, <1>71, <1>72, <1>73,
     <1>74, <1>75, <1>76, <1>77, <1>78, <1>79, <1>80, <1>81, <1>82, <1>83, <1>84, <1>85, <1>86, <1>87
  DEF Next, Expression, Declarators, Statements

(* The stack, what its frames hold and the tokens are right together.      *)
Safe == Situated /\ Framed /\ TokenWaits

(* Before the first token nothing waits.                                   *)
LEMMA SafeInit ==
    ASSUME Init
    PROVE  Safe
<1>1. Situated
  BY StackInit
<1>2. Framed
  BY DEF Init, Framed, Frames
<1>3. TokenWaits
  BY ProgramsAssumption DEF Init, TokenWaits, IsParser, Fields, Typed, One, Loose, NullToken
<1> QED
  BY <1>1, <1>2, <1>3 DEF Safe

(* One step keeps stack, frames and tokens right together: none of the     *)
(* three is inductive alone.                                               *)
LEMMA SafeStep ==
    ASSUME Safe, [Next]_vars
    PROVE  Safe' /\ ComesFrom(parser, parser')
<1>1. TokenWaits' /\ ComesFrom(parser, parser') /\ parser'.text = parser.text
  BY StepTokens DEF Safe, ComesFrom
<1>2. Framed'
  BY <1>1, StepFramed DEF TokenWaits, Safe
<1> QED
  BY <1>1, <1>2, StepSituated DEF Safe

(* pushBack() has room for two tokens; the functions of decl.cc, expr.cc   *)
(* and stmt.cc give tokens back without looking.  In a text without an     *)
(* else one of them at the most is waiting, and it is the last one the     *)
(* lexer gave.  The frames say who may give a token back to whom: after a  *)
(* tree none waits.                                                        *)
THEOREM TokensCorrect == Spec => []OneTokenBack
<1>1. Init => Safe
  BY SafeInit
<1>2. Safe /\ [Next]_vars => Safe'
  BY SafeStep
<1>3. Safe => OneTokenBack
  BY DEF Safe, TokenWaits, OneTokenBack, One, Either, GivenBack, NullToken
<1> QED
  BY <1>1, <1>2, <1>3, PTL DEF Spec

-----------------------------------------------------------------------------
(* The names.  Only the declarators of a declaration, and the beginnings   *)
(* and ends of functions and blocks, change the environments.              *)
LEMMA NamesKept ==
    ASSUME NEW b, NEW p, SameNames(b, p)
    PROVE  /\ IsParser(p)
           /\ SameNames(b, NextToken(p)) /\ SameNames(b, PushBack(p)) /\ SameNames(b, NeedConstant(p))
           /\ \A k : SameNames(b, Need(p, k))
           /\ SameNames(b, Report(p)) /\ SameNames(b, Misreport(p)) /\ \A w : SameNames(b, Stop(p, w))
           /\ SameNames(b, [p EXCEPT !.isFinish = FALSE]) /\ SameNames(b, Finished(p))
           /\ \A t : SameNames(b, [p EXCEPT !.trees = t]) /\ SameNames(b, [p EXCEPT !.printed = t])
<1>1. IsParser(p)
  BY DEF SameNames, ComesFrom
<1>2. /\ SameNames(p, NextToken(p)) /\ SameNames(p, PushBack(p)) /\ SameNames(p, NeedConstant(p))
      /\ \A k : SameNames(p, Need(p, k))
  BY <1>1, TokenScans DEF Scans
<1>3. /\ SameNames(p, Report(p)) /\ SameNames(p, Misreport(p)) /\ \A w : SameNames(p, Stop(p, w))
      /\ \A t : SameNames(p, [p EXCEPT !.isFinish = t])
      /\ \A t : SameNames(p, [p EXCEPT !.trees = t]) /\ SameNames(p, [p EXCEPT !.printed = t])
  BY <1>1, Stops DEF Keeps
<1>4. SameNames(p, p)
  BY <1>1, Chains DEF Keeps
<1>5. SameNames(p, Finished(p))
  BY <1>3, <1>4 DEF Finished
<1> QED
  BY <1>1, <1>2, <1>3, <1>5, Chains

(* What changes the code alone keeps the environments.                     *)
LEMMA WritesNames ==
    ASSUME NEW b, NEW a, NEW p, Writes(a, p), SameNames(b, a)
    PROVE  SameNames(b, p)
  BY Chains DEF Writes

(* The closing of a condition changes no environment.                      *)
LEMMA ConditionNames ==
    ASSUME NEW b, NEW p, SameNames(b, p)
    PROVE  SameNames(b, CloseCondition(p)) /\ SameNames(b, Semicolon(p))
<1>1. SameNames(b, PushBack(p))
  BY NamesKept
<1>2. SameNames(b, Need(PushBack(p), ")")) /\ SameNames(b, Need(PushBack(p), ";"))
  BY <1>1, NamesKept
<1> QED
  BY <1>2, NamesKept DEF CloseCondition, Semicolon

(* Labels change no environment.                                           *)
LEMMA LabelNames ==
    ASSUME NEW b, NEW p, SameNames(b, p)
    PROVE  /\ SameNames(b, FreshLabel(p)) /\ SameNames(b, Labelled(p))
           /\ SameNames(b, EmitListed(FreshLabel(p), "label"))
           /\ SameNames(b, MakeHead(EmitListed(FreshLabel(FreshLabel(p)), "label")))
<1>1. Writes(p, p)
  BY Chains DEF SameNames, ComesFrom
<1>2. Writes(p, FreshLabel(p)) /\ Writes(p, Labelled(p))
  BY <1>1, WritesCode
<1>3. Writes(p, FreshLabel(FreshLabel(p))) /\ Writes(p, EmitListed(FreshLabel(p), "label"))
  BY <1>2, WritesCode
<1>4. Writes(p, EmitListed(FreshLabel(FreshLabel(p)), "label"))
  BY <1>3, WritesCode
<1>5. Writes(p, MakeHead(EmitListed(FreshLabel(FreshLabel(p)), "label")))
  BY <1>4, WritesCode
<1> QED
  BY <1>2, <1>3, <1>5, WritesNames

(* The size of an array changes no environment.                            *)
LEMMA SizedNames ==
    ASSUME NEW b, NEW p, SameNames(b, p)
    PROVE  SameNames(b, Sized(p))
<1> DEFINE q == IF Is(p, "(") THEN NextToken(p) ELSE p
<1>1. SameNames(b, q)
  BY NamesKept
<1> DEFINE r == IF Is(p, "(") THEN Need(q, ")") ELSE q
<1> HIDE DEF q
<1>2. SameNames(b, r)
  BY <1>1, NamesKept
<1>3. SameNames(b, Stop(q, "assert"))
  BY <1>1, NamesKept
<1> HIDE DEF r
<1>4. SameNames(b, Stop(r, "undefined"))
  BY <1>2, NamesKept
<1>5. Sized(p) = Stop(q, "assert") \/ Sized(p) = q \/ Sized(p) = Stop(r, "undefined")
  BY DEF Sized, q, r
<1> QED
  BY <1>1, <1>3, <1>4, <1>5

(* The search for an else changes no environment.                          *)
LEMMA EndOfSelectNames ==
    ASSUME NEW p, NEW block, SameNames(parser, p), EndOfSelect(p, block)
    PROVE  SameNames(parser, parser')
<1>1. IsParser(p) /\ Writes(p, p)
  BY Chains DEF SameNames, ComesFrom
<1> DEFINE q == Make(FreshLabel(p), "label", p.labels + 1)
<1>2. Writes(p, q)
  BY <1>1, WritesCode
<1> HIDE DEF q
<1> DEFINE r == PatchAll(Append1(q, Newest(q)), block.next, q.labels)
<1>3. Writes(p, r)
  BY <1>2, WritesCode
<1>4. parser' = PushBack(r)
  BY DEF EndOfSelect, Returns, Leaves, q, r
<1> HIDE DEF r
<1> QED
  BY <1>3, <1>4, WritesNames, NamesKept

(* The end of a declaration changes no environment.                        *)
LEMMA EndsDeclarationNames ==
    ASSUME NEW b, NEW p, SameNames(b, p), EndsDeclaration(p)
    PROVE  SameNames(b, parser')
<1>1. SameNames(b, Finished(p))
  BY NamesKept
<1> QED
  BY <1>1, NamesKept DEF EndsDeclaration, Leaves

(* An argument changes no environment.                                     *)
LEMMA PassNames ==
    ASSUME NEW p, NEW under, NEW function, NEW list, SameNames(parser, p), Pass(p, under, function, list)
    PROVE  SameNames(parser, parser')
<1>1. IsParser(p) /\ Writes(p, p)
  BY Chains DEF SameNames, ComesFrom
<1>2. SameNames(parser, Emit(p, "call"))
  BY <1>1, WritesCode, WritesNames
<1> QED
  BY <1>2 DEF Pass, Reads, Leaves

(* The steps that change no environment.                                   *)
Quiet ==
    \/ Bracket \/ UnaryOperator \/ Increment \/ Index \/ Operator \/ Assign \/ Comma \/ Qualifier
    \/ Named \/ PassSemicolon \/ EmptyStatement \/ EndPostfix \/ EndBinary \/ EndAssignment
    \/ BlockStatements \/ BlockStatement \/ BlockGoesOn \/ NoStatement \/ DoStatement
    \/ NoDeclarator \/ Bracketed \/ ReturnStatement \/ PrimaryOperand \/ EndUnary \/ EndRight
    \/ EndAssign \/ EndExpressions \/ EndConditional \/ EndBracket \/ EndIndex \/ NoOperand
    \/ FunctionCall \/ EndArgument \/ EndQualifiers \/ EndSpecifiers \/ Star \/ EndStar
    \/ QualifiedPointer \/ EndQualifiedPointer \/ EndPointer \/ EndNamed \/ CloseBracketed
    \/ EndBracketed \/ Dimension \/ NoSuffix \/ NoParameters \/ Parameters \/ AnotherParameter
    \/ EndParameters \/ NotDeclared \/ Recover \/ UnitDeclaration \/ BlockDeclaration \/ UnitOther
    \/ BlockTakes \/ SwitchStatement \/ LateDeclaration \/ ExpressionStatement
    \/ AfterExpression \/ EndExpression \/ BreakStatement \/ ContinueStatement \/ EndReturn
    \/ IfStatement \/ IfBranch \/ AfterBranch \/ EndIf \/ ElseBranch \/ EndElse \/ WhileStatement
    \/ WhileBody \/ EndWhile \/ ForStatement \/ ForCondition \/ ForStep \/ ForBody \/ EndFor

(* The quiet steps keep all environments.                                  *)
LEMMA StepNames ==
    ASSUME Safe, Quiet
    PROVE  SameNames(parser, parser')
<1>1. /\ IsParser(parser) /\ Writes(parser, parser) /\ SameNames(parser, parser)
  BY Chains DEF Safe, TokenWaits, Writes
<1>0. /\ mode # "unit" => calls # <<>>
      /\ Framed /\ IsStack(calls)
  BY Entering DEF Safe
<1>2. CASE Bracket
  <2>1. SameNames(parser, parser)
    BY <1>1
  <2>2. parser' = NextToken(parser)
    BY <1>2 DEF Bracket, Leaves, Returns, Gives, Stays, Reads, Begins, At, Resumes
  <2>3. SameNames(parser, parser')
    BY <2>1, <2>2, NamesKept
  <2> QED
    BY <2>3
<1>3. CASE UnaryOperator
  <2>1. SameNames(parser, parser)
    BY <1>1
  <2>2. parser' = NextToken(parser)
    BY <1>3 DEF UnaryOperator, Leaves, Returns, Gives, Stays, Reads, Begins, At, Resumes
  <2>3. SameNames(parser, parser')
    BY <2>1, <2>2, NamesKept
  <2> QED
    BY <2>3
<1>4. CASE Increment
  <2>1. SameNames(parser, parser)
    BY <1>1
  <2>2. parser' = NextToken(parser)
    BY <1>4 DEF Increment, Leaves, Returns, Gives, Stays, Reads, Begins, At, Resumes
  <2>3. SameNames(parser, parser')
    BY <2>1, <2>2, NamesKept
  <2> QED
    BY <2>3
<1>5. CASE Index
  <2>1. SameNames(parser, parser)
    BY <1>1
  <2>2. parser' = NextToken(parser)
    BY <1>5 DEF Index, Leaves, Returns, Gives, Stays, Reads, Begins, At, Resumes
  <2>3. SameNames(parser, parser')
    BY <2>1, <2>2, NamesKept
  <2> QED
    BY <2>3
<1>6. CASE Operator
  <2>1. SameNames(parser, parser)
    BY <1>1
  <2>2. parser' = NextToken(parser)
    BY <1>6 DEF Operator, Leaves, Returns, Gives, Stays, Reads, Begins, At, Resumes
  <2>3. SameNames(parser, parser')
    BY <2>1, <2>2, NamesKept
  <2> QED
    BY <2>3
<1>7. CASE Assign
  <2>1. SameNames(parser, parser)
    BY <1>1
  <2>2. parser' = NextToken(parser)
    BY <1>7 DEF Assign, Leaves, Returns, Gives, Stays, Reads, Begins, At, Resumes
  <2>3. SameNames(parser, parser')
    BY <2>1, <2>2, NamesKept
  <2> QED
    BY <2>3
<1>8. CASE Comma
  <2>1. SameNames(parser, parser)
    BY <1>1
  <2>2. parser' = NextToken(parser)
    BY <1>8 DEF Comma, Leaves, Returns, Gives, Stays, Reads, Begins, At, Resumes, Listing
  <2>3. SameNames(parser, parser')
    BY <2>1, <2>2, NamesKept
  <2> QED
    BY <2>3
<1>9. CASE Qualifier
  <2>1. SameNames(parser, parser)
    BY <1>1
  <2>2. parser' = NextToken(parser)
    BY <1>9 DEF Qualifier, Leaves, Returns, Gives, Stays, Reads, Begins, At, Resumes, Qualifies
  <2>3. SameNames(parser, parser')
    BY <2>1, <2>2, NamesKept
  <2> QED
    BY <2>3
<1>10. CASE Named
  <2>1. SameNames(parser, parser)
    BY <1>1
  <2>2. parser' = NextToken(parser)
    BY <1>10 DEF Named, Leaves, Returns, Gives, Stays, Reads, Begins, At, Resumes
  <2>3. SameNames(parser, parser')
    BY <2>1, <2>2, NamesKept
  <2> QED
    BY <2>3
<1>11. CASE PassSemicolon
  <2>1. SameNames(parser, parser)
    BY <1>1
  <2>2. parser' = NextToken(parser)
    BY <1>11 DEF PassSemicolon, Leaves, Returns, Gives, Stays, Reads, Begins, At, Resumes
  <2>3. SameNames(parser, parser')
    BY <2>1, <2>2, NamesKept
  <2> QED
    BY <2>3
<1>12. CASE EmptyStatement
  <2>1. SameNames(parser, parser)
    BY <1>1
  <2>2. parser' = NextToken(parser)
    BY <1>12 DEF EmptyStatement, AtStatement, Leaves, Returns, Gives, Stays, Reads, Begins, At, Resumes
  <2>3. SameNames(parser, parser')
    BY <2>1, <2>2, NamesKept
  <2> QED
    BY <2>3
<1>13. CASE EndPostfix
  <2>1. SameNames(parser, parser)
    BY <1>1
  <2>2. parser' = parser
    BY <1>13 DEF EndPostfix, Leaves, Returns, Gives, Stays, Reads, Begins, At, Resumes
  <2>3. SameNames(parser, parser')
    BY <2>1, <2>2, NamesKept
  <2> QED
    BY <2>3
<1>14. CASE EndBinary
  <2>1. SameNames(parser, parser)
    BY <1>1
  <2>2. parser' = parser
    BY <1>14 DEF EndBinary, Leaves, Returns, Gives, Stays, Reads, Begins, At, Resumes
  <2>3. SameNames(parser, parser')
    BY <2>1, <2>2, NamesKept
  <2> QED
    BY <2>3
<1>15. CASE EndAssignment
  <2>1. SameNames(parser, parser)
    BY <1>1
  <2>2. parser' = parser
    BY <1>15 DEF EndAssignment, Leaves, Returns, Gives, Stays, Reads, Begins, At, Resumes
  <2>3. SameNames(parser, parser')
    BY <2>1, <2>2, NamesKept
  <2> QED
    BY <2>3
<1>16. CASE BlockStatements
  <2>1. SameNames(parser, parser)
    BY <1>1
  <2>2. parser' = parser
    BY <1>16 DEF BlockStatements, Leaves, Returns, Gives, Stays, Reads, Begins, At, Resumes
  <2>3. SameNames(parser, parser')
    BY <2>1, <2>2, NamesKept
  <2> QED
    BY <2>3
<1>17. CASE BlockStatement
  <2>1. SameNames(parser, parser)
    BY <1>1
  <2>2. parser' = parser
    BY <1>17 DEF BlockStatement, Leaves, Returns, Gives, Stays, Reads, Begins, At, Resumes
  <2>3. SameNames(parser, parser')
    BY <2>1, <2>2, NamesKept
  <2> QED
    BY <2>3
<1>18. CASE BlockGoesOn
  <2>1. SameNames(parser, parser)
    BY <1>1
  <2>2. parser' = parser
    BY <1>18 DEF BlockGoesOn, Leaves, Returns, Gives, Stays, Reads, Begins, At, Resumes, PastSemicolons
  <2>3. SameNames(parser, parser')
    BY <2>1, <2>2, NamesKept
  <2> QED
    BY <2>3
<1>19. CASE NoStatement
  <2>1. SameNames(parser, parser)
    BY <1>1
  <2>2. parser' = parser
    BY <1>19 DEF NoStatement, AtStatement, Leaves, Returns, Gives, Stays, Reads, Begins, At, Resumes
  <2>3. SameNames(parser, parser')
    BY <2>1, <2>2, NamesKept
  <2> QED
    BY <2>3
<1>20. CASE DoStatement
  <2>1. SameNames(parser, parser)
    BY <1>1
  <2>2. parser' = parser
    BY <1>20 DEF DoStatement, AtStatement, Leaves, Returns, Gives, Stays, Reads, Begins, At, Resumes
  <2>3. SameNames(parser, parser')
    BY <2>1, <2>2, NamesKept
  <2> QED
    BY <2>3
<1>21. CASE NoDeclarator
  <2>1. SameNames(parser, parser)
    BY <1>1
  <2>2. parser' = parser
    BY <1>21 DEF NoDeclarator, Leaves, Returns, Gives, Stays, Reads, Begins, At, Resumes
  <2>3. SameNames(parser, parser')
    BY <2>1, <2>2, NamesKept
  <2> QED
    BY <2>3
<1>22. CASE Bracketed
  <2>1. SameNames(parser, parser)
    BY <1>1
  <2>2. parser' = parser
    BY <1>22 DEF Bracketed, Leaves, Returns, Gives, Stays, Reads, Begins, At, Resumes
  <2>3. SameNames(parser, parser')
    BY <2>1, <2>2, NamesKept
  <2> QED
    BY <2>3
<1>23. CASE ReturnStatement
  <2>1. SameNames(parser, parser)
    BY <1>1
  <2>2. parser' = parser
    BY <1>23 DEF ReturnStatement, AtStatement, Leaves, Returns, Gives, Stays, Reads, Begins, At, Resumes
  <2>3. SameNames(parser, parser')
    BY <2>1, <2>2, NamesKept
  <2> QED
    BY <2>3
<1>24. CASE PrimaryOperand
  <2>1. SameNames(parser, parser)
    BY <1>1
  <2>2. PICK r \in {Primary(parser)} : parser' = r.p
    BY <1>24 DEF PrimaryOperand, Leaves, Returns, Gives, Stays, Reads, Begins, At, Resumes
  <2>3. SameNames(parser, NextToken(parser)) /\ SameNames(parser, NextToken(Misreport(parser)))
    BY <2>1, NamesKept
  <2>4. r.p \in {NextToken(parser), NextToken(Misreport(parser))}
    BY <2>2 DEF Primary, Identifier
  <2>5. SameNames(parser, parser')
    BY <2>2, <2>3, <2>4
  <2> QED
    BY <2>5
<1>25. CASE EndUnary
  <2>1. SameNames(parser, parser)
    BY <1>1
  <2>2. PICK r \in {Applied(Top.op, [p |-> parser, t |-> value])} : parser' = r.p
    BY <1>25 DEF EndUnary, Leaves, Returns, Gives, Stays, Reads, Begins, At, Resumes
  <2>3. Top.op \in UnaryOperators
    BY <1>25, <1>0, FramesDropped DEF EndUnary, Resumes, At, Framed, Sound, Top, Frames
  <2>4. Writes(parser, (Applied(Top.op, [p |-> parser, t |-> value])).p)
    BY <1>1, WritesTree, <2>3
  <2>5. SameNames(parser, parser')
    BY <2>1, <2>2, <2>4, WritesNames
  <2> QED
    BY <2>5
<1>26. CASE EndRight
  <2>1. SameNames(parser, parser)
    BY <1>1
  <2>2. PICK r \in {Combine(Top.op, Top.left, [p |-> parser, t |-> value])} : parser' = r.p
    BY <1>26 DEF EndRight, Leaves, Returns, Gives, Stays, Reads, Begins, At, Resumes
  <2>3. Top.op \in BinaryOperators
    BY <1>26, <1>0, FramesDropped DEF EndRight, Resumes, At, Framed, Sound, Top, Frames
  <2>4. Writes(parser, (Combine(Top.op, Top.left, [p |-> parser, t |-> value])).p)
    BY <1>1, WritesTree, <2>3
  <2>5. SameNames(parser, parser')
    BY <2>1, <2>2, <2>4, WritesNames
  <2> QED
    BY <2>5
<1>27. CASE EndAssign
  <2>1. SameNames(parser, parser)
    BY <1>1
  <2>2. PICK r \in {ASGNtree([p |-> parser, t |-> value], Top.left)} : parser' = r.p
    BY <1>27 DEF EndAssign, Leaves, Returns, Gives, Stays, Reads, Begins, At, Resumes
  <2>3. Writes(parser, (ASGNtree([p |-> parser, t |-> value], Top.left)).p)
    BY <1>1, WritesTree
  <2>4. SameNames(parser, parser')
    BY <2>1, <2>2, <2>3, WritesNames
  <2> QED
    BY <2>4
<1>28. CASE EndExpressions
  <2>1. SameNames(parser, parser)
    BY <1>1
  <2>2. Writes(parser, EmitListed(parser, "pad"))
    BY <1>1, WritesCode
  <2>3. parser' = EmitListed(parser, "pad")
    BY <1>28 DEF EndExpressions, Leaves, Returns, Gives, Stays, Reads, Begins, At, Resumes, Listing
  <2>4. SameNames(parser, parser')
    BY <2>1, <2>2, <2>3, WritesNames
  <2> QED
    BY <2>4
<1>29. CASE EndConditional
  <2>1. SameNames(parser, parser)
    BY <1>1
  <2>2. parser' = parser \/ parser' = Stop(parser, "undefined")
    BY <1>29 DEF EndConditional, Leaves, Returns, Gives, Stays, Reads, Begins, At, Resumes
  <2>3. SameNames(parser, parser')
    <3>1. SameNames(parser, Stop(parser, "undefined"))
      BY <2>1, NamesKept
    <3> QED
      BY <2>1, <2>2, <3>1
  <2> QED
    BY <2>3
<1>30. CASE EndBracket
  <2>1. SameNames(parser, parser)
    BY <1>1
  <2>2. PICK c : c \in {parser, Needed(parser, value), Stop(Needed(parser, value), "assert")} /\ parser' = NextToken(Need(PushBack(c), ")"))
    BY <1>30 DEF EndBracket, Leaves, Returns, Gives, Stays, Reads, Begins, At, Resumes
  <2>3. Writes(parser, Needed(parser, value))
    BY <1>1, WritesCode
  <2>4. Writes(parser, c)
    BY <2>2, <2>3, <1>1, WritesCode
  <2>5. SameNames(parser, PushBack(c))
    BY <2>1, <2>4, WritesNames, NamesKept
  <2>6. SameNames(parser, Need(PushBack(c), ")"))
    BY <2>5, NamesKept
  <2>7. SameNames(parser, parser')
    BY <2>2, <2>6, NamesKept
  <2> QED
    BY <2>7
<1>31. CASE EndIndex
  <2>1. SameNames(parser, parser)
    BY <1>1
  <2>2. PICK r \in {ARRAYtree(Top.array, [p |-> parser, t |-> value])} : parser' = NextToken(Need(PushBack(r.p), "]"))
    BY <1>31 DEF EndIndex, Leaves, Returns, Gives, Stays, Reads, Begins, At, Resumes
  <2>3. Writes(parser, r.p)
    BY <2>2, <1>1, WritesTree
  <2>4. SameNames(parser, PushBack(r.p))
    BY <2>1, <2>3, WritesNames, NamesKept
  <2>5. SameNames(parser, Need(PushBack(r.p), "]"))
    BY <2>4, NamesKept
  <2>6. SameNames(parser, parser')
    BY <2>2, <2>5, NamesKept
  <2> QED
    BY <2>6
<1>32. CASE NoOperand
  <2>1. SameNames(parser, parser)
    BY <1>1
  <2>2. parser' = parser \/ parser' = Sized(NextToken(parser))
    BY <1>32 DEF NoOperand, Leaves, Returns, Gives, Stays, Reads, Begins, At, Resumes
  <2>3. SameNames(parser, NextToken(parser))
    BY <2>1, NamesKept
  <2>4. SameNames(parser, parser')
    BY <2>1, <2>2, <2>3, SizedNames
  <2> QED
    BY <2>4
<1>33. CASE FunctionCall
  <2>1. SameNames(parser, parser)
    BY <1>1
  <2>2. SameNames(parser, NextToken(parser))
    BY <2>1, NamesKept
  <2>3. Writes(parser, Needed(parser, value))
    BY <1>1, WritesCode
  <2>4. SameNames(parser, Stop(Needed(parser, value), "assert"))
    BY <2>1, <2>3, WritesNames, NamesKept
  <2>5. parser' = Stop(Needed(parser, value), "assert") \/ Pass(NextToken(parser), calls, value, value.type.list)
    BY <1>33 DEF FunctionCall, Stays, Leaves
  <2>6. SameNames(parser, parser')
    BY <2>2, <2>4, <2>5, PassNames
  <2> QED
    BY <2>6
<1>34. CASE EndArgument
  <2>1. SameNames(parser, parser)
    BY <1>1
  <2>2. PICK q \in {Emit(Needed(parser, value), "para")} : \/ parser' = Emit(NextToken(q), "call")
                    \/ parser' = Stop(q, "assert")
                    \/ Pass(IF Is(q, ",") THEN NextToken(q) ELSE q, Popped, Top.function, Tail(Top.list))
    BY <1>34 DEF EndArgument, Stays, Returns, Leaves
  <2>3. Writes(parser, q)
    <3>1. Writes(parser, Needed(parser, value))
      BY <1>1, WritesCode
    <3>2. Writes(parser, Emit(Needed(parser, value), "para"))
      BY <3>1, WritesCode
    <3> QED
      BY <2>2, <3>2
  <2>4. SameNames(parser, q)
    BY <2>1, <2>3, WritesNames
  <2>5. SameNames(parser, NextToken(q)) /\ SameNames(parser, Stop(q, "assert")) /\ IsParser(NextToken(q))
    BY <2>4, NamesKept
  <2>6. Writes(NextToken(q), Emit(NextToken(q), "call"))
    BY <2>5, Chains, WritesCode
  <2>7. SameNames(parser, IF Is(q, ",") THEN NextToken(q) ELSE q)
    BY <2>4, <2>5
  <2>8. SameNames(parser, Emit(NextToken(q), "call"))
    BY <2>5, <2>6, WritesNames
  <2>9. SameNames(parser, parser')
    BY <2>2, <2>5, <2>7, <2>8, PassNames
  <2> QED
    BY <2>9
<1>35. CASE EndQualifiers
  <2>1. SameNames(parser, parser)
    BY <1>1
  <2>2. parser' = PushBack(parser)
    BY <1>35 DEF EndQualifiers, Leaves, Returns, Gives, Stays, Reads, Begins, At, Resumes
  <2>3. SameNames(parser, parser')
    BY <2>1, <2>2, NamesKept
  <2> QED
    BY <2>3
<1>36. CASE EndSpecifiers
  <2>1. SameNames(parser, parser)
    BY <1>1
  <2>2. parser' = Report(parser)
    BY <1>36 DEF EndSpecifiers, Leaves, Returns, Gives, Stays, Reads, Begins, At, Resumes
  <2>3. SameNames(parser, parser')
    BY <2>1, <2>2, NamesKept
  <2> QED
    BY <2>3
<1>37. CASE Star
  <2>1. SameNames(parser, parser)
    BY <1>1
  <2>2. SameNames(parser, NextToken(parser)) /\ SameNames(parser, PushBack(NextToken(parser)))
    BY <2>1, NamesKept
  <2>3. parser' = NextToken(NextToken(parser))
    BY <1>37 DEF Star, Leaves, Returns, Gives, Stays, Reads, Begins, At, Resumes, Qualifies
  <2>4. SameNames(parser, parser')
    BY <2>2, <2>3, NamesKept
  <2> QED
    BY <2>4
<1>38. CASE EndStar
  <2>1. SameNames(parser, parser)
    BY <1>1
  <2>2. parser' = parser
    BY <1>38 DEF EndStar, Leaves, Returns, Gives, Stays, Reads, Begins, At, Resumes
  <2>3. SameNames(parser, parser')
    BY <2>1, <2>2
  <2> QED
    BY <2>3
<1>39. CASE QualifiedPointer
  <2>1. SameNames(parser, parser)
    BY <1>1
  <2>2. SameNames(parser, NextToken(parser)) /\ SameNames(parser, PushBack(NextToken(parser)))
    BY <2>1, NamesKept
  <2>3. parser' = NextToken(PushBack(NextToken(parser)))
    BY <1>39 DEF QualifiedPointer, Leaves, Returns, Gives, Stays, Reads, Begins, At, Resumes, Qualifies
  <2>4. SameNames(parser, parser')
    BY <2>2, <2>3, NamesKept
  <2> QED
    BY <2>4
<1>40. CASE EndQualifiedPointer
  <2>1. SameNames(parser, parser)
    BY <1>1
  <2>2. SameNames(parser, NextToken(parser)) /\ SameNames(parser, PushBack(NextToken(parser)))
    BY <2>1, NamesKept
  <2>3. parser' = NextToken(parser)
    BY <1>40 DEF EndQualifiedPointer, Leaves, Returns, Gives, Stays, Reads, Begins, At, Resumes
  <2>4. SameNames(parser, parser')
    BY <2>2, <2>3, NamesKept
  <2> QED
    BY <2>4
<1>41. CASE EndPointer
  <2>1. SameNames(parser, parser)
    BY <1>1
  <2>2. SameNames(parser, NextToken(parser)) /\ SameNames(parser, PushBack(NextToken(parser)))
    BY <2>1, NamesKept
  <2>3. parser' = NextToken(PushBack(NextToken(parser)))
    BY <1>41 DEF EndPointer, Leaves, Returns, Gives, Stays, Reads, Begins, At, Resumes
  <2>4. SameNames(parser, parser')
    BY <2>2, <2>3, NamesKept
  <2> QED
    BY <2>4
<1>42. CASE EndNamed
  <2>1. SameNames(parser, parser)
    BY <1>1
  <2>2. parser' = parser
    BY <1>42 DEF EndNamed, Leaves, Returns, Gives, Stays, Reads, Begins, At, Resumes
  <2>3. SameNames(parser, parser')
    BY <2>1, <2>2
  <2> QED
    BY <2>3
<1>43. CASE CloseBracketed
  <2>1. SameNames(parser, parser)
    BY <1>1
  <2>2. SameNames(parser, Need(parser, ")"))
    BY <2>1, NamesKept
  <2>3. parser' = NextToken(Need(parser, ")"))
    BY <1>43 DEF CloseBracketed, Leaves, Returns, Gives, Stays, Reads, Begins, At, Resumes
  <2>4. SameNames(parser, parser')
    BY <2>2, <2>3, NamesKept
  <2> QED
    BY <2>4
<1>44. CASE EndBracketed
  <2>1. SameNames(parser, parser)
    BY <1>1
  <2>2. parser' = parser \/ parser' = Stop(parser, "undefined")
    BY <1>44 DEF EndBracketed, Leaves, Returns, Gives, Stays, Reads, Begins, At, Resumes
  <2>3. SameNames(parser, parser')
    <3>1. SameNames(parser, Stop(parser, "undefined"))
      BY <2>1, NamesKept
    <3> QED
      BY <2>1, <2>2, <3>1
  <2> QED
    BY <2>3
<1>45. CASE Dimension
  <2>1. SameNames(parser, parser)
    BY <1>1
  <2>2. SameNames(parser, NeedConstant(parser))
    BY <2>1, NamesKept
  <2>3. SameNames(parser, Need(NeedConstant(parser), "]"))
    BY <2>2, NamesKept
  <2>4. parser' = NextToken(Need(NeedConstant(parser), "]"))
    BY <1>45 DEF Dimension, Leaves, Returns, Gives, Stays, Reads, Begins, At, Resumes
  <2>5. SameNames(parser, parser')
    BY <2>3, <2>4, NamesKept
  <2> QED
    BY <2>5
<1>46. CASE NoSuffix
  <2>1. SameNames(parser, parser)
    BY <1>1
  <2>2. parser' = PushBack(parser)
    BY <1>46 DEF NoSuffix, Leaves, Returns, Gives, Stays, Reads, Begins, At, Resumes
  <2>3. SameNames(parser, parser')
    BY <2>1, <2>2, NamesKept
  <2> QED
    BY <2>3
<1>47. CASE NoParameters
  <2>1. SameNames(parser, parser)
    BY <1>1
  <2>2. SameNames(parser, NextToken(parser)) /\ SameNames(parser, PushBack(NextToken(parser)))
    BY <2>1, NamesKept
  <2>3. parser' = NextToken(parser) \/ parser' = Need(NextToken(parser), ")")
    BY <1>47 DEF NoParameters, Leaves, Returns, Gives, Stays, Reads, Begins, At, Resumes
  <2>4. SameNames(parser, parser')
    <3>1. SameNames(parser, Need(NextToken(parser), ")"))
      BY <2>2, NamesKept
    <3> QED
      BY <2>2, <2>3, <3>1
  <2> QED
    BY <2>4
<1>48. CASE Parameters
  <2>1. SameNames(parser, parser)
    BY <1>1
  <2>2. SameNames(parser, NextToken(parser)) /\ SameNames(parser, PushBack(NextToken(parser)))
    BY <2>1, NamesKept
  <2>3. parser' = NextToken(PushBack(NextToken(parser)))
    BY <1>48 DEF Parameters, Leaves, Returns, Gives, Stays, Reads, Begins, At, Resumes, Specifies, Qualifies
  <2>4. SameNames(parser, parser')
    BY <2>2, <2>3, NamesKept
  <2> QED
    BY <2>4
<1>49. CASE AnotherParameter
  <2>1. SameNames(parser, parser)
    BY <1>1
  <2>2. SameNames(parser, NextToken(parser)) /\ SameNames(parser, PushBack(NextToken(parser)))
    BY <2>1, NamesKept
  <2>3. parser' = NextToken(NextToken(parser))
    BY <1>49 DEF AnotherParameter, Leaves, Returns, Gives, Stays, Reads, Begins, At, Resumes, Specifies,
       Qualifies
  <2>4. SameNames(parser, parser')
    BY <2>2, <2>3, NamesKept
  <2> QED
    BY <2>4
<1>50. CASE EndParameters
  <2>1. SameNames(parser, parser)
    BY <1>1
  <2>2. SameNames(parser, NextToken(parser)) /\ SameNames(parser, PushBack(NextToken(parser)))
    BY <2>1, NamesKept
  <2>3. parser' = NextToken(parser) \/ parser' = Report(NextToken(parser))
    BY <1>50 DEF EndParameters, Leaves, Returns, Gives, Stays, Reads, Begins, At, Resumes
  <2>4. SameNames(parser, parser')
    BY <2>2, <2>3, NamesKept
  <2> QED
    BY <2>4
<1>51. CASE NotDeclared
  <2>1. SameNames(parser, parser)
    BY <1>1
  <2>2. parser' = Misreport(parser)
    BY <1>51 DEF NotDeclared, Leaves, Returns, Gives, Stays, Reads, Begins, At, Resumes
  <2>3. SameNames(parser, parser')
    BY <2>1, <2>2, NamesKept
  <2> QED
    BY <2>3
<1>52. CASE Recover
  <2>1. SameNames(parser, parser)
    BY <1>1
  <2>2. EndsDeclaration(parser) \/ parser' = NextToken(parser)
    BY <1>52 DEF Recover, Stays, Leaves
  <2>3. SameNames(parser, parser')
    BY <2>1, <2>2, EndsDeclarationNames, NamesKept
  <2> QED
    BY <2>3
<1>53. CASE UnitDeclaration
  <2>1. SameNames(parser, parser)
    BY <1>1
  <2>2. SameNames(parser, [parser EXCEPT !.isFinish = FALSE])
    BY <2>1, <1>1, NamesKept
  <2>3. SameNames(parser, PushBack([parser EXCEPT !.isFinish = FALSE]))
    BY <2>2, NamesKept
  <2>4. parser' = NextToken(PushBack([parser EXCEPT !.isFinish = FALSE]))
    BY <1>53 DEF UnitDeclaration, Leaves, Returns, Gives, Stays, Reads, Begins, At, Resumes, Declaration,
       Specifies, Qualifies
  <2>5. SameNames(parser, parser')
    BY <2>3, <2>4, NamesKept
  <2> QED
    BY <2>5
<1>54. CASE BlockDeclaration
  <2>1. SameNames(parser, parser)
    BY <1>1
  <2>2. SameNames(parser, [parser EXCEPT !.isFinish = FALSE])
    BY <2>1, <1>1, NamesKept
  <2>3. SameNames(parser, PushBack([parser EXCEPT !.isFinish = FALSE]))
    BY <2>2, NamesKept
  <2>4. parser' = NextToken(PushBack([parser EXCEPT !.isFinish = FALSE]))
    BY <1>54 DEF BlockDeclaration, Leaves, Returns, Gives, Stays, Reads, Begins, At, Resumes, Declaration,
       Specifies, Qualifies
  <2>5. SameNames(parser, parser')
    BY <2>3, <2>4, NamesKept
  <2> QED
    BY <2>5
<1>55. CASE UnitOther
  <2>1. SameNames(parser, parser)
    BY <1>1
  <2>2. PICK c : c \in {parser, Stop(parser, "beyond")} /\ parser' = NextToken(c)
    BY <1>55 DEF UnitOther, Leaves, Returns, Gives, Stays, Reads, Begins, At, Resumes
  <2>3. SameNames(parser, c)
    <3>1. SameNames(parser, Stop(parser, "beyond"))
      BY <2>1, NamesKept
    <3> QED
      BY <2>1, <2>2, <3>1
  <2>4. SameNames(parser, parser')
    BY <2>2, <2>3, NamesKept
  <2> QED
    BY <2>4
<1>56. CASE BlockTakes
  <2>1. SameNames(parser, parser)
    BY <1>1
  <2>2. PICK taken \in {TakeLists(NextToken(parser), Top.ret, value)} : parser' = taken.p
    BY <1>56 DEF BlockTakes, Takes, Leaves
  <2>3. SameNames(parser, NextToken(parser)) /\ IsParser(NextToken(parser))
    BY <2>1, NamesKept
  <2>4. Writes(NextToken(parser), taken.p)
    BY <2>2, <2>3, Chains, WritesBlock
  <2>5. SameNames(parser, parser')
    BY <2>2, <2>3, <2>4, WritesNames
  <2> QED
    BY <2>5
<1>57. CASE SwitchStatement
  <2>1. SameNames(parser, parser)
    BY <1>1
  <2>2. parser' = Stop(parser, "assert")
    BY <1>57 DEF SwitchStatement, AtStatement, Leaves, Returns, Gives, Stays, Reads, Begins, At, Resumes
  <2>3. SameNames(parser, parser')
    BY <2>1, <2>2, NamesKept
  <2> QED
    BY <2>3
<1>58. CASE LateDeclaration
  <2>1. SameNames(parser, parser)
    BY <1>1
  <2>2. parser' = Misreport(parser)
    BY <1>58 DEF LateDeclaration, AtStatement, Leaves, Returns, Gives, Stays, Reads, Begins, At, Resumes
  <2>3. SameNames(parser, parser')
    BY <2>1, <2>2, NamesKept
  <2> QED
    BY <2>3
<1>59. CASE ExpressionStatement
  <2>1. SameNames(parser, parser)
    BY <1>1
  <2>2. parser' = parser \/ parser' = NextToken(Report(parser))
    BY <1>59 DEF ExpressionStatement, AtStatement, Leaves, Returns, Gives, Stays, Reads, Begins, At, Resumes
  <2>3. SameNames(parser, parser')
    BY <2>1, <2>2, NamesKept
  <2> QED
    BY <2>3
<1>60. CASE AfterExpression
  <2>1. SameNames(parser, parser)
    BY <1>1
  <2>2. PICK t : parser' = NextToken(PushBack([parser EXCEPT !.trees = t]))
    BY <1>60 DEF AfterExpression, Leaves, Returns, Gives, Stays, Reads, Begins, At, Resumes
  <2>3. SameNames(parser, [parser EXCEPT !.trees = t])
    BY <2>1, <1>1, NamesKept
  <2>4. SameNames(parser, PushBack([parser EXCEPT !.trees = t]))
    BY <2>3, NamesKept
  <2>5. SameNames(parser, parser')
    BY <2>2, <2>4, NamesKept
  <2> QED
    BY <2>5
<1>61. CASE EndExpression
  <2>1. SameNames(parser, parser)
    BY <1>1
  <2>2. parser' = PushBack(parser)
    BY <1>61 DEF EndExpression, Leaves, Returns, Gives, Stays, Reads, Begins, At, Resumes, PastSemicolons
  <2>3. SameNames(parser, parser')
    BY <2>1, <2>2, NamesKept
  <2> QED
    BY <2>3
<1>62. CASE BreakStatement
  <2>1. SameNames(parser, parser)
    BY <1>1
  <2>2. parser' = Need(Jump("break"), ";")
    BY <1>62 DEF BreakStatement, AtStatement, Leaves, Returns, Gives, Stays, Reads, Begins, At, Resumes
  <2>3. SameNames(parser, Jump("break"))
    BY <2>1, <1>1, JumpWrites, WritesNames
  <2>4. SameNames(parser, parser')
    BY <2>2, <2>3, NamesKept
  <2> QED
    BY <2>4
<1>63. CASE ContinueStatement
  <2>1. SameNames(parser, parser)
    BY <1>1
  <2>2. parser' = Need(Jump("continue"), ";")
    BY <1>63 DEF ContinueStatement, AtStatement, Leaves, Returns, Gives, Stays, Reads, Begins, At, Resumes
  <2>3. SameNames(parser, Jump("continue"))
    BY <2>1, <1>1, JumpWrites, WritesNames
  <2>4. SameNames(parser, parser')
    BY <2>2, <2>3, NamesKept
  <2> QED
    BY <2>4
<1>64. CASE EndReturn
  <2>1. SameNames(parser, parser)
    BY <1>1
  <2>2. parser' = Need(Emit(parser, "ret"), ";")
    BY <1>64 DEF EndReturn, Leaves, Returns, Gives, Stays, Reads, Begins, At, Resumes
  <2>3. Writes(parser, Emit(parser, "ret"))
    BY <1>1, WritesCode
  <2>4. SameNames(parser, Emit(parser, "ret"))
    BY <2>1, <2>3, WritesNames
  <2>5. SameNames(parser, parser')
    BY <2>2, <2>4, NamesKept
  <2> QED
    BY <2>5
<1>65. CASE IfStatement
  <2>1. SameNames(parser, parser)
    BY <1>1
  <2>2. parser' = NextToken(Need(parser, "("))
    BY <1>65 DEF IfStatement, AtStatement, Leaves, Returns, Gives, Stays, Reads, Begins, At, Resumes, OpenBracket
  <2>3. SameNames(parser, Need(parser, "("))
    BY <2>1, NamesKept
  <2>4. SameNames(parser, parser')
    BY <2>2, <2>3, NamesKept
  <2> QED
    BY <2>4
<1>66. CASE IfBranch
  <2>1. SameNames(parser, parser)
    BY <1>1
  <2>2. PICK e \in {Decided([p |-> parser, t |-> value])} : parser' = FreshLabel(CloseCondition(e.p))
    BY <1>66 DEF IfBranch, Leaves, Returns, Gives, Stays, Reads, Begins, At, Resumes
  <2>3. Writes(parser, e.p)
    BY <2>2, <1>1, WritesTree
  <2>4. SameNames(parser, e.p)
    BY <2>1, <2>3, WritesNames
  <2>5. SameNames(parser, CloseCondition(e.p))
    BY <2>4, ConditionNames
  <2>6. SameNames(parser, parser')
    BY <2>2, <2>5, LabelNames
  <2> QED
    BY <2>6
<1>67. CASE AfterBranch
  <2>1. SameNames(parser, parser)
    BY <1>1
  <2>2. PICK r : Writes(parser, r) /\ parser' = NextToken(r)
    <3>1. Writes(parser, Make(parser, "label", Top.label))
        BY <1>1, WritesCode
      <3> DEFINE q == Make(parser, "label", Top.label)
      <3>2. Writes(parser, InsertAfter(q, Top.at, Newest(q)))
        BY <3>1, WritesCode
      <3> DEFINE r == PatchAll(InsertAfter(q, Top.at, Newest(q)), Top.cond.true, Top.label)
      <3>3. Writes(parser, r)
        BY <3>2, WritesCode
      <3> DEFINE z == Read(r, value)
      <3>4. parser' = NextToken(z)
        BY <1>67 DEF AfterBranch, Leaves
      <3> HIDE DEF r
      <3>5. Writes(parser, z)
        BY <3>3, WritesCode
      <3> HIDE DEF z
      <3> QED
        BY <3>4, <3>5
  <2>3. SameNames(parser, r)
    BY <2>1, <2>2, WritesNames
  <2>4. SameNames(parser, parser')
    BY <2>2, <2>3, NamesKept
  <2> QED
    BY <2>4
<1>68. CASE EndIf
  <2>1. SameNames(parser, parser)
    BY <1>1
  <2>2. PICK q, block : (q = NextToken(parser) \/ q = Merge(NextToken(parser), Top.cond.false, Top.ret.next)) /\ EndOfSelect(q, block)
    BY <1>68 DEF EndIf
  <2>3. SameNames(parser, NextToken(parser)) /\ IsParser(NextToken(parser))
    BY <2>1, NamesKept
  <2>4. SameNames(parser, q)
    BY <2>2, <2>3, CodeWrites, WritesNames
  <2>5. SameNames(parser, parser')
    BY <2>2, <2>4, EndOfSelectNames
  <2> QED
    BY <2>5
<1>69. CASE ElseBranch
  <2>1. SameNames(parser, parser)
    BY <1>1
  <2>2. PICK p, w : p = NextToken(FreshLabel(FreshLabel(parser))) /\ w = Make(Make(p, "skip", Unset), "skip", Unset) /\ parser' = w
    BY <1>69 DEF ElseBranch, Leaves, Returns, Gives, Stays, Reads, Begins, At, Resumes
  <2>3. Writes(parser, FreshLabel(FreshLabel(parser)))
    BY <1>1, WritesCode
  <2>4. SameNames(parser, p) /\ IsParser(p)
    BY <2>1, <2>2, <2>3, WritesNames, NamesKept
  <2>5. Writes(p, Make(p, "skip", Unset))
    BY <2>4, CodeWrites
  <2>6. Writes(p, w)
    BY <2>2, <2>5, WritesCode
  <2>7. SameNames(parser, parser')
    BY <2>2, <2>4, <2>6, WritesNames
  <2> QED
    BY <2>7
<1>70. CASE EndElse
  <2>1. PICK p, block : Writes(parser, p) /\ EndOfSelect(p, block)
    BY <1>70, <1>1, ElseWrites DEF EndElse, SameNames, ComesFrom
  <2>2. SameNames(parser, p)
    BY <2>1 DEF Writes
  <2>3. SameNames(parser, parser')
    BY <2>1, <2>2, EndOfSelectNames
  <2> QED
    BY <2>3
<1>71. CASE WhileStatement
  <2>1. SameNames(parser, parser)
    BY <1>1
  <2>2. parser' = NextToken(Need(Labelled(parser), "("))
    BY <1>71 DEF WhileStatement, AtStatement, Leaves, Returns, Gives, Stays, Reads, Begins, At, Resumes, OpenBracket
  <2>3. SameNames(parser, Labelled(parser))
    BY <2>1, <1>1, WritesCode, WritesNames
  <2>4. SameNames(parser, Need(Labelled(parser), "("))
    BY <2>3, NamesKept
  <2>5. SameNames(parser, parser')
    BY <2>2, <2>4, NamesKept
  <2> QED
    BY <2>5
<1>72. CASE WhileBody
  <2>1. SameNames(parser, parser)
    BY <1>1
  <2>2. parser' = Labelled(CloseCondition(parser))
    BY <1>72 DEF WhileBody, Leaves, Returns, Gives, Stays, Reads, Begins, At, Resumes
  <2>3. SameNames(parser, CloseCondition(parser))
    BY <2>1, ConditionNames
  <2>4. SameNames(parser, parser')
    BY <2>2, <2>3, LabelNames
  <2> QED
    BY <2>4
<1>73. CASE EndWhile
  <2>1. SameNames(parser, parser)
    BY <1>1
  <2>2. Writes(parser, parser')
    BY <1>73, <1>1, WhileWrites
  <2>3. SameNames(parser, parser')
    BY <2>1, <2>2, WritesNames
  <2> QED
    BY <2>3
<1>74. CASE ForStatement
  <2>1. SameNames(parser, parser)
    BY <1>1
  <2>2. parser' = NextToken(Need(EmitListed(parser, "pad"), "("))
    BY <1>74 DEF ForStatement, AtStatement, Leaves, Returns, Gives, Stays, Reads, Begins, At, Resumes, OpenBracket
  <2>3. Writes(parser, EmitListed(parser, "pad"))
    BY <1>1, WritesCode
  <2>4. SameNames(parser, EmitListed(parser, "pad"))
    BY <2>1, <2>3, WritesNames
  <2>5. SameNames(parser, Need(EmitListed(parser, "pad"), "("))
    BY <2>4, NamesKept
  <2>6. SameNames(parser, parser')
    BY <2>2, <2>5, NamesKept
  <2> QED
    BY <2>6
<1>75. CASE ForCondition
  <2>1. SameNames(parser, parser)
    BY <1>1
  <2>2. parser' = EmitListed(FreshLabel(Semicolon(parser)), "label")
    BY <1>75 DEF ForCondition, Leaves, Returns, Gives, Stays, Reads, Begins, At, Resumes
  <2>3. SameNames(parser, Semicolon(parser))
    BY <2>1, ConditionNames
  <2>4. SameNames(parser, parser')
    BY <2>2, <2>3, LabelNames
  <2> QED
    BY <2>4
<1>76. CASE ForStep
  <2>1. SameNames(parser, parser)
    BY <1>1
  <2>2. parser' = MakeHead(EmitListed(FreshLabel(FreshLabel(Semicolon(parser))), "label"))
    BY <1>76 DEF ForStep, Leaves, Returns, Gives, Stays, Reads, Begins, At, Resumes
  <2>3. SameNames(parser, Semicolon(parser))
    BY <2>1, ConditionNames
  <2>4. SameNames(parser, parser')
    BY <2>2, <2>3, LabelNames
  <2> QED
    BY <2>4
<1>77. CASE ForBody
  <2>1. SameNames(parser, parser)
    BY <1>1
  <2>2. SameNames(parser, CloseCondition(parser))
    BY <2>1, ConditionNames
  <2>3. Writes(CloseCondition(parser), parser')
    BY <1>77, <2>2, BodyWrites DEF SameNames, ComesFrom
  <2>4. SameNames(parser, parser')
    BY <2>2, <2>3, WritesNames
  <2> QED
    BY <2>4
<1>78. CASE EndFor
  <2>1. SameNames(parser, parser)
    BY <1>1
  <2>2. Writes(parser, parser')
    BY <1>78, <1>1, ForWrites
  <2>3. SameNames(parser, parser')
    BY <2>1, <2>2, WritesNames
  <2> QED
    BY <2>3
<1> QED
  BY <1>2, <1>3, <1>4, <1>5, <1>6, <1>7, <1>8, <1>9, <1>10, <1>11, <1>12, <1>13, <1>14, <1>15, <1>16, <1>17,
     <1>18, <1>19, <1>20, <1>21, <1>22, <1>23, <1>24, <1>25, <1>26, <1>27, <1>28, <1>29, <1>30, <1>31,
     <1>32, <1>33, <1>34, <1>35, <1>36, <1>37, <1>38, <1>39, <1>40, <1>41, <1>42, <1>43, <1>44, <1>45,
     <1>46, <1>47, <1>48, <1>49, <1>50, <1>51, <1>52, <1>53, <1>54, <1>55, <1>56, <1>57, <1>58, <1>59,
     <1>60, <1>61, <1>62, <1>63, <1>64, <1>65, <1>66, <1>67, <1>68, <1>69, <1>70, <1>71, <1>72, <1>73,
     <1>74, <1>75, <1>76, <1>77, <1>78 DEF Quiet

-----------------------------------------------------------------------------
(* A call opens an environment if it is that of a function or a block.     *)
LEMMA OpenedPushed ==
    ASSUME NEW s, IsStack(s), NEW f
    PROVE  /\ Opened(s) \in Nat
           /\ f.kind \in Opening => Opened(Append(s, f)) = Opened(s) + 1
           /\ f.kind \notin Opening => Opened(Append(s, f)) = Opened(s)
<1> DEFINE D(t) == {d \in 1 .. Len(t) : t[d].kind \in Opening}
           t == Append(s, f)
           n == Len(s)
<1>1. n \in Nat /\ Len(t) = n + 1 /\ t[n + 1] = f /\ \A d \in 1 .. n : t[d] = s[d]
  BY Pushed DEF Last
<1>2. IsFiniteSet(1 .. n)
  BY <1>1, FS_Interval
<1>3. IsFiniteSet(D(s)) /\ Cardinality(D(s)) \in Nat
  BY <1>2, FS_Subset, FS_CardinalityType
<1> HIDE DEF t, n
<1>4. f.kind \in Opening => D(t) = D(s) \cup {n + 1}
  BY <1>1 DEF n
<1>5. f.kind \notin Opening => D(t) = D(s)
  BY <1>1 DEF n
<1>6. n + 1 \notin D(s)
  BY <1>1 DEF n
<1> HIDE DEF D
<1>7. f.kind \in Opening => Cardinality(D(t)) = Cardinality(D(s)) + 1
  BY <1>3, <1>4, <1>6, FS_AddElement
<1> QED
  BY <1>3, <1>5, <1>7 DEF Opened, D, t

(* A return closes one if it is that of a function or a block.             *)
LEMMA OpenedDropped ==
    ASSUME NEW s, IsStack(s), s # <<>>
    PROVE  LET t == SubSeq(s, 1, Len(s) - 1)
           IN  /\ Opened(t) \in Nat /\ IsStack(t)
               /\ s[Len(s)].kind \in Opening => Opened(s) = Opened(t) + 1
               /\ s[Len(s)].kind \notin Opening => Opened(s) = Opened(t)
<1> DEFINE D(t) == {d \in 1 .. Len(t) : t[d].kind \in Opening}
           t == SubSeq(s, 1, Len(s) - 1)
           n == Len(s)
<1>1. n \in Nat \ {0} /\ Len(t) = n - 1 /\ IsStack(t) /\ \A d \in 1 .. n - 1 : t[d] = s[d]
  BY Dropped
<1> HIDE DEF t
<1>2. IsFiniteSet(1 .. n - 1)
  BY <1>1, FS_Interval
<1>3. IsFiniteSet(D(t)) /\ Cardinality(D(t)) \in Nat
  BY <1>1, <1>2, FS_Subset, FS_CardinalityType
<1> HIDE DEF n
<1>4. s[n].kind \in Opening => D(s) = D(t) \cup {n}
  BY <1>1 DEF n
<1>5. s[n].kind \notin Opening => D(s) = D(t)
  BY <1>1 DEF n
<1>6. n \notin D(t)
  BY <1>1
<1> HIDE DEF D
<1>7. s[n].kind \in Opening => Cardinality(D(s)) = Cardinality(D(t)) + 1
  BY <1>3, <1>4, <1>6, FS_AddElement
<1> QED
  BY <1>1, <1>3, <1>5, <1>7 DEF Opened, D, t, n

(* The frames of an expression one by one.                                 *)
LEMMA ExpressionPushed ==
    ASSUME NEW s, IsStack(s)
    PROVE  /\ s \o Conditional = Append(Append(s, [kind |-> "conditional"]), BinaryFrame(4))
           /\ s \o Assignment = Append(s, [kind |-> "assignment"]) \o Conditional
           /\ s \o Expressions = Append(s, [kind |-> "expressions"]) \o Assignment
<1> DEFINE F(k) == [kind |-> k]
           K == {F("conditional"), BinaryFrame(4), F("assignment"), F("expressions")}
<1>1. PICK S : s \in Seq(S)
  BY DEF IsStack
<1>2. s \in Seq(S \cup K)
  BY <1>1
<1>3. ASSUME NEW f \in K, NEW t \in Seq(S \cup K)
      PROVE  s \o (<<f>> \o t) = Append(s, f) \o t
  <2> f \in S \cup K
    OBVIOUS
  <2> QED
    BY <1>2, <1>3
<1>4. Conditional \in Seq(S \cup K) /\ Assignment \in Seq(S \cup K)
  BY DEF Conditional, Assignment
<1>5. s \o <<F("conditional"), BinaryFrame(4)>> = Append(Append(s, F("conditional")), BinaryFrame(4))
  <2> F("conditional") \in S \cup K /\ BinaryFrame(4) \in S \cup K
    OBVIOUS
  <2> QED
    BY <1>2
<1>6. s \o (<<F("assignment")>> \o Conditional) = Append(s, F("assignment")) \o Conditional
  BY <1>3, <1>4
<1>7. s \o (<<F("expressions")>> \o Assignment) = Append(s, F("expressions")) \o Assignment
  BY <1>3, <1>4
<1> QED
  BY <1>5, <1>6, <1>7 DEF Conditional, Assignment, Expressions

(* Calls of no function and no block open none.                            *)
LEMMA OpenedRules ==
    ASSUME NEW s, IsStack(s)
    PROVE  /\ \A f : f.kind \notin Opening => Opened(Append(s, f)) = Opened(s)
           /\ \A f, g : f.kind \notin Opening /\ g.kind \notin Opening => Opened(Append(Append(s, f), g)) = Opened(s)
           /\ \A f, g, h : f.kind \notin Opening /\ g.kind \notin Opening /\ h.kind \notin Opening =>
                  Opened(s \o <<f, g, h>>) = Opened(s)
           /\ \A f : f.kind \notin Opening =>
                  /\ Opened((s \o <<f>>) \o Conditional) = Opened(s)
                  /\ Opened((s \o <<f>>) \o Assignment) = Opened(s)
                  /\ Opened((s \o <<f>>) \o Expressions) = Opened(s)
<1>1. ASSUME NEW t, IsStack(t), NEW f, f.kind \notin Opening
      PROVE  IsStack(Append(t, f)) /\ Opened(Append(t, f)) = Opened(t) /\ t \o <<f>> = Append(t, f)
  BY <1>1, OpenedPushed, Pushed
<1>2. ASSUME NEW f, NEW g, f.kind \notin Opening, g.kind \notin Opening
      PROVE  IsStack(Append(Append(s, f), g)) /\ Opened(Append(Append(s, f), g)) = Opened(s)
  <2>1. IsStack(Append(s, f)) /\ Opened(Append(s, f)) = Opened(s)
    BY <1>1, <1>2
  <2> QED
    BY <1>1, <1>2, <2>1
<1>3. ASSUME NEW f, NEW g, NEW h, f.kind \notin Opening, g.kind \notin Opening, h.kind \notin Opening
      PROVE  Opened(s \o <<f, g, h>>) = Opened(s)
  <2>1. IsStack(Append(Append(s, f), g)) /\ Opened(Append(Append(s, f), g)) = Opened(s)
    BY <1>2, <1>3
  <2>2. s \o <<f, g, h>> = Append(Append(Append(s, f), g), h)
    BY DEF IsStack
  <2> QED
    BY <1>1, <1>3, <2>1, <2>2
<1>4. ASSUME NEW t, IsStack(t)
      PROVE  Opened(t \o Conditional) = Opened(t) /\ Opened(t \o Assignment) = Opened(t) /\ Opened(t \o Expressions) = Opened(t)
  <2>1. /\ [kind |-> "conditional"].kind \notin Opening /\ [kind |-> "assignment"].kind \notin Opening
        /\ [kind |-> "expressions"].kind \notin Opening
    BY DEF Opening
  <2>2. BinaryFrame(4).kind \notin Opening
    BY DEF Opening, BinaryFrame
  <2>3. ASSUME NEW u, IsStack(u) PROVE Opened(u \o Conditional) = Opened(u)
    <3>1. IsStack(Append(u, [kind |-> "conditional"])) /\ Opened(Append(u, [kind |-> "conditional"])) = Opened(u)
      BY <1>1, <2>3, <2>1
    <3>2. Opened(Append(Append(u, [kind |-> "conditional"]), BinaryFrame(4))) = Opened(u)
      BY <1>1, <2>2, <3>1
    <3> QED
      BY <2>3, <3>2, ExpressionPushed
  <2>4. ASSUME NEW u, IsStack(u) PROVE Opened(u \o Assignment) = Opened(u)
    <3>1. IsStack(Append(u, [kind |-> "assignment"])) /\ Opened(Append(u, [kind |-> "assignment"])) = Opened(u)
      BY <1>1, <2>4, <2>1
    <3> QED
      BY <2>3, <2>4, <3>1, ExpressionPushed
  <2>5. IsStack(Append(t, [kind |-> "expressions"])) /\ Opened(Append(t, [kind |-> "expressions"])) = Opened(t)
    BY <1>1, <1>4, <2>1
  <2> QED
    BY <1>4, <2>3, <2>4, <2>5, ExpressionPushed
<1>5. ASSUME NEW f, f.kind \notin Opening
      PROVE  /\ Opened((s \o <<f>>) \o Conditional) = Opened(s)
             /\ Opened((s \o <<f>>) \o Assignment) = Opened(s)
             /\ Opened((s \o <<f>>) \o Expressions) = Opened(s)
  <2>1. IsStack(s \o <<f>>) /\ Opened(s \o <<f>>) = Opened(s)
    BY <1>1, <1>5
  <2> QED
    BY <1>4, <2>1
<1> QED
  BY <1>1, <1>2, <1>3, <1>5

(* The quiet steps open no environment and close none.                     *)
LEMMA StepOpened ==
    ASSUME Safe, Quiet
    PROVE  Opened(calls') = Opened(calls)
<1>1. /\ IsStack(calls) /\ (mode # "unit" => calls # <<>>)
      /\ mode = "recover" => Top.kind = "declaration"
  BY Entering DEF Safe
<1>2. calls # <<>> =>
         /\ IsStack(Popped) /\ Opened(Popped) \in Nat
         /\ Top.kind \in Opening => Opened(calls) = Opened(Popped) + 1
         /\ Top.kind \notin Opening => Opened(calls) = Opened(Popped)
         /\ "kind" \in DOMAIN Top
  <2>1. calls # <<>> => "kind" \in DOMAIN Top
    BY Entering, Leaving DEF Safe
  <2> QED
    BY <1>1, <2>1, OpenedDropped DEF Popped, Top
<1>3. CASE PrimaryOperand
  BY <1>3, <1>1, <1>2, OpenedRules DEF PrimaryOperand, Stays, Gives, Returns, Leaves, At, Resumes, Opening
<1>4. CASE EndBracket
  BY <1>4, <1>1, <1>2, OpenedRules DEF EndBracket, Stays, Gives, Returns, Leaves, At, Resumes, Opening
<1>5. CASE EndUnary
  BY <1>5, <1>1, <1>2, OpenedRules DEF EndUnary, Stays, Gives, Returns, Leaves, At, Resumes, Opening
<1>6. CASE NoOperand
  BY <1>6, <1>1, <1>2, OpenedRules DEF NoOperand, Stays, Gives, Returns, Leaves, At, Resumes, Opening
<1>7. CASE Increment
  BY <1>7, <1>1, <1>2, OpenedRules DEF Increment, Stays, Gives, Returns, Leaves, At, Resumes, Opening
<1>8. CASE EndIndex
  BY <1>8, <1>1, <1>2, OpenedRules DEF EndIndex, Stays, Gives, Returns, Leaves, At, Resumes, Opening
<1>9. CASE EndPostfix
  BY <1>9, <1>1, <1>2, OpenedRules DEF EndPostfix, Stays, Gives, Returns, Leaves, At, Resumes, Opening
<1>10. CASE EndRight
  BY <1>10, <1>1, <1>2, OpenedRules DEF EndRight, Stays, Gives, Returns, Leaves, At, Resumes, Opening
<1>11. CASE EndBinary
  BY <1>11, <1>1, <1>2, OpenedRules DEF EndBinary, Stays, Gives, Returns, Leaves, At, Resumes, Opening
<1>12. CASE EndConditional
  BY <1>12, <1>1, <1>2, OpenedRules DEF EndConditional, Stays, Gives, Returns, Leaves, At, Resumes, Opening
<1>13. CASE EndAssign
  BY <1>13, <1>1, <1>2, OpenedRules DEF EndAssign, Stays, Gives, Returns, Leaves, At, Resumes, Opening
<1>14. CASE EndAssignment
  BY <1>14, <1>1, <1>2, OpenedRules DEF EndAssignment, Stays, Gives, Returns, Leaves, At, Resumes, Opening
<1>15. CASE EndExpressions
  BY <1>15, <1>1, <1>2, OpenedRules DEF EndExpressions, Stays, Gives, Returns, Leaves, At, Resumes, Listing,
     Opening
<1>16. CASE Qualifier
  BY <1>16, <1>1, <1>2, OpenedRules DEF Qualifier, Stays, Gives, Returns, Leaves, At, Resumes, Qualifies,
     Opening
<1>17. CASE EndQualifiers
  BY <1>17, <1>1, <1>2, OpenedRules DEF EndQualifiers, Stays, Gives, Returns, Leaves, At, Resumes, Opening
<1>18. CASE EndSpecifiers
  BY <1>18, <1>1, <1>2, OpenedRules DEF EndSpecifiers, Stays, Gives, Returns, Leaves, At, Resumes, Opening
<1>19. CASE EndStar
  BY <1>19, <1>1, <1>2, OpenedRules DEF EndStar, Stays, Gives, Returns, Leaves, At, Resumes, Opening
<1>20. CASE EndQualifiedPointer
  BY <1>20, <1>1, <1>2, OpenedRules DEF EndQualifiedPointer, Stays, Gives, Returns, Leaves, At, Resumes, Opening
<1>21. CASE EndPointer
  BY <1>21, <1>1, <1>2, OpenedRules DEF EndPointer, Stays, Gives, Returns, Leaves, At, Resumes, Opening
<1>22. CASE EndNamed
  BY <1>22, <1>1, <1>2, OpenedRules DEF EndNamed, Stays, Gives, Returns, Leaves, At, Resumes, Opening
<1>23. CASE EndBracketed
  BY <1>23, <1>1, <1>2, OpenedRules DEF EndBracketed, Stays, Gives, Returns, Leaves, At, Resumes, Opening
<1>24. CASE NoDeclarator
  BY <1>24, <1>1, <1>2, OpenedRules DEF NoDeclarator, Stays, Gives, Returns, Leaves, At, Resumes, Opening
<1>25. CASE Dimension
  BY <1>25, <1>1, <1>2, OpenedRules DEF Dimension, Stays, Gives, Returns, Leaves, At, Resumes, Opening
<1>26. CASE NoSuffix
  BY <1>26, <1>1, <1>2, OpenedRules DEF NoSuffix, Stays, Gives, Returns, Leaves, At, Resumes, Opening
<1>27. CASE NoParameters
  BY <1>27, <1>1, <1>2, OpenedRules DEF NoParameters, Stays, Gives, Returns, Leaves, At, Resumes, Opening
<1>28. CASE EndParameters
  BY <1>28, <1>1, <1>2, OpenedRules DEF EndParameters, Stays, Gives, Returns, Leaves, At, Resumes, Opening
<1>29. CASE NotDeclared
  BY <1>29, <1>1, <1>2, OpenedRules DEF NotDeclared, Stays, Gives, Returns, Leaves, At, Resumes, Opening
<1>30. CASE Recover
  BY <1>30, <1>1, <1>2, OpenedRules DEF Recover, Stays, Gives, Returns, Leaves, At, Resumes,
     EndsDeclaration, Opening
<1>31. CASE UnitOther
  BY <1>31, <1>1, <1>2, OpenedRules DEF UnitOther, Stays, Gives, Returns, Leaves, At, Resumes, Opening
<1>32. CASE BlockStatements
  BY <1>32, <1>1, <1>2, OpenedRules DEF BlockStatements, Stays, Gives, Returns, Leaves, At, Resumes, Opening
<1>33. CASE BlockStatement
  BY <1>33, <1>1, <1>2, OpenedRules DEF BlockStatement, Stays, Gives, Returns, Leaves, At, Resumes, Begins,
     Opening
<1>34. CASE PassSemicolon
  BY <1>34, <1>1, <1>2, OpenedRules DEF PassSemicolon, Stays, Gives, Returns, Leaves, At, Resumes, Opening
<1>35. CASE BlockGoesOn
  BY <1>35, <1>1, <1>2, OpenedRules DEF BlockGoesOn, Stays, Gives, Returns, Leaves, At, Resumes,
     PastSemicolons, Opening
<1>36. CASE EmptyStatement
  BY <1>36, <1>1, <1>2, OpenedRules DEF EmptyStatement, AtStatement, Stays, Gives, Returns, Leaves, At, Resumes, Opening
<1>37. CASE NoStatement
  BY <1>37, <1>1, <1>2, OpenedRules DEF NoStatement, AtStatement, Stays, Gives, Returns, Leaves, At, Resumes, Opening
<1>38. CASE DoStatement
  BY <1>38, <1>1, <1>2, OpenedRules DEF DoStatement, AtStatement, Stays, Gives, Returns, Leaves, At, Resumes, Opening
<1>39. CASE SwitchStatement
  BY <1>39, <1>1, <1>2, OpenedRules DEF SwitchStatement, AtStatement, Stays, Gives, Returns, Leaves, At, Resumes, Opening
<1>40. CASE LateDeclaration
  BY <1>40, <1>1, <1>2, OpenedRules DEF LateDeclaration, AtStatement, Stays, Gives, Returns, Leaves, At, Resumes, Opening
<1>41. CASE AfterExpression
  BY <1>41, <1>1, <1>2, OpenedRules DEF AfterExpression, Stays, Gives, Returns, Leaves, At, Resumes, Opening
<1>42. CASE EndExpression
  BY <1>42, <1>1, <1>2, OpenedRules DEF EndExpression, Stays, Gives, Returns, Leaves, At, Resumes,
     PastSemicolons, Opening
<1>43. CASE BreakStatement
  BY <1>43, <1>1, <1>2, OpenedRules DEF BreakStatement, AtStatement, Stays, Gives, Returns, Leaves, At, Resumes, Opening
<1>44. CASE ContinueStatement
  BY <1>44, <1>1, <1>2, OpenedRules DEF ContinueStatement, AtStatement, Stays, Gives, Returns, Leaves, At, Resumes, Opening
<1>45. CASE EndReturn
  BY <1>45, <1>1, <1>2, OpenedRules DEF EndReturn, Stays, Gives, Returns, Leaves, At, Resumes, Opening
<1>46. CASE EndIf
  BY <1>46, <1>1, <1>2, SelectMoves, OpenedRules DEF Opening
<1>47. CASE EndElse
  BY <1>47, <1>1, <1>2, SelectMoves, OpenedRules DEF Opening
<1>48. CASE EndWhile
  BY <1>48, <1>1, <1>2, OpenedRules DEF EndWhile, Stays, Gives, Returns, Leaves, At, Resumes, Opening
<1>49. CASE EndFor
  BY <1>49, <1>1, <1>2, OpenedRules DEF EndFor, Stays, Gives, Returns, Leaves, At, Resumes, Opening
<1>50. CASE Bracket
  <2>1. [kind |-> "bracket"].kind \notin Opening
    BY DEF Opening
  <2> QED
    BY <2>1, <1>50, <1>1, <1>2, OpenedRules DEF Bracket, Leaves, Reads, At, Resumes, Opening
<1>51. CASE UnaryOperator
  <2>1. [kind |-> "unary", op |-> Cur(parser)].kind \notin Opening
    BY DEF Opening
  <2> QED
    BY <2>1, <1>51, <1>1, <1>2, OpenedRules DEF UnaryOperator, Leaves, Reads, At, Resumes, Opening
<1>52. CASE Index
  <2>1. [kind |-> "index", array |-> value].kind \notin Opening
    BY DEF Opening
  <2> QED
    BY <2>1, <1>52, <1>1, <1>2, OpenedRules DEF Index, Leaves, Reads, At, Resumes, Opening
<1>53. CASE FunctionCall
  <2>1. [kind |-> "argument", function |-> value, list |-> value.type.list].kind \notin Opening
    BY DEF Opening
  <2>2. IsStack(calls) /\ Opened(calls) = Opened(calls)
    BY <1>53, <1>1, <1>2 DEF FunctionCall, Resumes, At, Opening
  <2>3. Opened((calls \o <<[kind |-> "argument", function |-> value, list |-> value.type.list]>>) \o Conditional) = Opened(calls)
    BY ONLY <2>1, <2>2, OpenedRules
  <2>4. calls' \in {calls, calls, (calls \o <<[kind |-> "argument", function |-> value, list |-> value.type.list]>>) \o Conditional}
    BY <1>53 DEF FunctionCall, Pass, Reads, Stays, Returns, Leaves
  <2> QED
    BY <2>2, <2>3, <2>4
<1>54. CASE EndArgument
  <2>1. [kind |-> "argument", function |-> Top.function, list |-> Tail(Top.list)].kind \notin Opening
    BY DEF Opening
  <2>2. IsStack(Popped) /\ Opened(Popped) = Opened(calls)
    BY <1>54, <1>1, <1>2 DEF EndArgument, Resumes, At, Opening
  <2>3. Opened((Popped \o <<[kind |-> "argument", function |-> Top.function, list |-> Tail(Top.list)]>>) \o Conditional) = Opened(Popped)
    BY ONLY <2>1, <2>2, OpenedRules
  <2>4. calls' \in {calls, Popped, (Popped \o <<[kind |-> "argument", function |-> Top.function, list |-> Tail(Top.list)]>>) \o Conditional}
    BY <1>54 DEF EndArgument, Pass, Reads, Stays, Returns, Leaves
  <2> QED
    BY <2>2, <2>3, <2>4
<1>55. CASE Operator
  <2>1. Top.kind = "binary" /\ "kind" \in DOMAIN Top
    BY <1>55, <1>1, <1>2 DEF Operator, Resumes, At
  <2>2. [Top EXCEPT !.most = Level(parser)].kind = "binary"
    BY <2>1, Zenon
  <2>3. [Top EXCEPT !.most = Level(parser)].kind \notin Opening
    BY ONLY <2>2 DEF Opening
  <2>4. [kind |-> "right", op |-> Cur(parser), left |-> value].kind \notin Opening
    BY DEF Opening
  <2>5. BinaryFrame(RightLevel(parser)).kind \notin Opening
    BY DEF Opening, BinaryFrame
  <2>6. Opened(Popped) = Opened(calls) /\ IsStack(Popped)
    BY <1>55, <1>1, <1>2 DEF Operator, Resumes, At, Opening
  <2>7. PICK f, g, h : calls' = Popped \o <<f, g, h>> /\ f.kind \notin Opening /\ g.kind \notin Opening /\ h.kind \notin Opening
    BY <1>55, <2>3, <2>4, <2>5 DEF Operator, Leaves, Reads, Specifies, Qualifies
  <2>8. Opened(calls') = Opened(Popped)
    BY ONLY <2>6, <2>7, OpenedRules
  <2> QED
    BY <2>6, <2>8
<1>56. CASE Assign
  <2>1. [kind |-> "assign", left |-> value].kind \notin Opening
    BY DEF Opening
  <2> QED
    BY <2>1, <1>56, <1>1, <1>2, OpenedRules DEF Assign, Leaves, Reads, At, Resumes, Opening
<1>57. CASE Comma
  <2>1. [kind |-> "listed", tree |-> FirstTree].kind \notin Opening
    BY DEF Opening
  <2> QED
    BY <2>1, <1>57, <1>1, <1>2, OpenedRules DEF Comma, Leaves, Reads, At, Resumes, Listing, Opening
<1>58. CASE Star
  <2>1. [kind |-> "star"].kind \notin Opening
    BY DEF Opening
  <2> QED
    BY <2>1, <1>58, <1>1, <1>2, OpenedRules DEF Star, Leaves, Reads, At, Resumes, Qualifies, Opening
<1>59. CASE QualifiedPointer
  <2>1. [kind |-> "pointed"].kind \notin Opening
    BY DEF Opening
  <2> QED
    BY <2>1, <1>59, <1>1, <1>2, OpenedRules DEF QualifiedPointer, Leaves, Reads, At, Resumes, Qualifies, Opening
<1>60. CASE Named
  <2>1. [kind |-> "named", name |-> parser.cur].kind \notin Opening
    BY DEF Opening
  <2> QED
    BY <2>1, <1>60, <1>1, <1>2, OpenedRules DEF Named, Leaves, Reads, At, Resumes, Opening
<1>61. CASE Bracketed
  <2>1. [kind |-> "brackets", ty |-> value].kind \notin Opening
    BY DEF Opening
  <2> QED
    BY <2>1, <1>61, <1>1, <1>2, OpenedRules DEF Bracketed, Leaves, Reads, At, Resumes, Opening
<1>62. CASE CloseBracketed
  <2>1. [kind |-> "closing", name |-> value.name, op |-> value.ty.op].kind \notin Opening
    BY DEF Opening
  <2> QED
    BY <2>1, <1>62, <1>1, <1>2, OpenedRules DEF CloseBracketed, Leaves, Reads, At, Resumes, Opening
<1>63. CASE Parameters
  <2>1. [kind |-> "parameters", ty |-> value, list |-> <<>>].kind \notin Opening
    BY DEF Opening
  <2>2. [kind |-> "specifiers"].kind \notin Opening
    BY DEF Opening
  <2> QED
    BY <2>1, <2>2, <1>63, <1>1, <1>2, OpenedRules DEF Parameters, Leaves, Reads, At, Resumes, Specifies,
       Qualifies, Opening
<1>64. CASE AnotherParameter
  <2>1. [Top EXCEPT !.list = WithParameter(@, value)].kind = "parameters"
    BY <1>64, <1>1, <1>2, Zenon DEF AnotherParameter, Resumes, At
  <2>2. [Top EXCEPT !.list = WithParameter(@, value)].kind \notin Opening
    BY ONLY <2>1 DEF Opening
  <2>3. [kind |-> "specifiers"].kind \notin Opening
    BY DEF Opening
  <2>4. Opened(Popped) = Opened(calls) /\ IsStack(Popped)
    BY <1>64, <1>1, <1>2 DEF AnotherParameter, Resumes, At, Opening
  <2>5. PICK f, g : calls' = Append(Append(Popped, f), g) /\ f.kind \notin Opening /\ g.kind \notin Opening
    BY <1>64, <2>2, <2>3 DEF AnotherParameter, Leaves, Reads, Specifies, Qualifies
  <2>6. Opened(calls') = Opened(Popped)
    BY ONLY <2>4, <2>5, OpenedRules
  <2> QED
    BY <2>4, <2>6
<1>65. CASE UnitDeclaration
  <2>1. [kind |-> "declaration", ty |-> IntType, declared |-> 0].kind \notin Opening
    BY DEF Opening
  <2>2. [kind |-> "specifiers"].kind \notin Opening
    BY DEF Opening
  <2> QED
    BY <2>1, <2>2, <1>65, <1>1, <1>2, OpenedRules DEF UnitDeclaration, Leaves, Reads, At, Resumes,
       Declaration, Specifies, Qualifies, Turn, Opening
<1>66. CASE BlockDeclaration
  <2>1. [kind |-> "declaration", ty |-> IntType, declared |-> 0].kind \notin Opening
    BY DEF Opening
  <2>2. [kind |-> "specifiers"].kind \notin Opening
    BY DEF Opening
  <2> QED
    BY <2>1, <2>2, <1>66, <1>1, <1>2, OpenedRules DEF BlockDeclaration, Leaves, Reads, At, Resumes,
       Declaration, Specifies, Qualifies, Opening
<1>67. CASE BlockTakes
  <2>1. PICK taken : calls' = Append(Popped, [Top EXCEPT !.ret = taken.ret])
    BY <1>67 DEF BlockTakes, Takes, Leaves
  <2>2. [Top EXCEPT !.ret = taken.ret].kind = "block"
    BY <1>67, <1>1, <1>2, Zenon DEF BlockTakes, Resumes, At
  <2>3. IsStack(Popped)
    BY <1>67, <1>1, <1>2 DEF BlockTakes, Resumes, At
  <2>4. Opened(Append(Popped, [Top EXCEPT !.ret = taken.ret])) = Opened(Popped) + 1
    BY ONLY <2>2, <2>3, OpenedPushed DEF Opening
  <2> QED
    BY <2>1, <2>2, <2>3, <2>4, <1>67, <1>1, <1>2 DEF BlockTakes, Resumes, At, Opening
<1>68. CASE ExpressionStatement
  <2>1. [kind |-> "expression"].kind \notin Opening
    BY DEF Opening
  <2> QED
    BY <2>1, <1>68, <1>1, <1>2, OpenedRules DEF ExpressionStatement, AtStatement, Leaves, Reads, At, Resumes, Opening
<1>69. CASE ReturnStatement
  <2>1. [kind |-> "return"].kind \notin Opening
    BY DEF Opening
  <2> QED
    BY <2>1, <1>69, <1>1, <1>2, OpenedRules DEF ReturnStatement, AtStatement, Leaves, Reads, At, Resumes, Opening
<1>70. CASE IfStatement
  <2>1. [kind |-> "if condition"].kind \notin Opening
    BY DEF Opening
  <2> QED
    BY <2>1, <1>70, <1>1, <1>2, OpenedRules DEF IfStatement, AtStatement, Leaves, Reads, At, Resumes, OpenBracket, Opening
<1>71. CASE IfBranch
  <2>1. PICK f : f.kind = "if" /\ calls' = Append(Popped, f)
    BY <1>71 DEF IfBranch, Leaves, Reads, Begins
  <2>2. f.kind \notin Opening
    BY <2>1 DEF Opening
  <2> QED
    BY <2>1, <2>2, <1>71, <1>1, <1>2, OpenedRules DEF IfBranch, Resumes, At, Opening
<1>72. CASE AfterBranch
  <2>1. [Top EXCEPT !.ret = value].kind = "if"
    BY <1>72, <1>1, <1>2, Zenon DEF AfterBranch, Resumes, At
  <2>2. [Top EXCEPT !.ret = value].kind \notin Opening
    BY ONLY <2>1 DEF Opening
  <2> QED
    BY <2>1, <2>2, <1>72, <1>1, <1>2, OpenedRules DEF AfterBranch, Resumes, At, Leaves, Opening
<1>73. CASE ElseBranch
  <2>1. PICK f : f.kind = "else" /\ calls' = Append(Popped, f)
    BY <1>73 DEF ElseBranch, Leaves, Begins
  <2>2. f.kind \notin Opening
    BY <2>1 DEF Opening
  <2> QED
    BY <2>1, <2>2, <1>73, <1>1, <1>2, OpenedRules DEF ElseBranch, PastSemicolons, At, Opening
<1>74. CASE WhileStatement
  <2>1. PICK f : f.kind = "while condition" /\ calls' = (calls \o <<f>>) \o Expressions
    BY <1>74 DEF WhileStatement, AtStatement, Leaves, Reads, Begins, OpenBracket
  <2>2. f.kind \notin Opening
    BY <2>1 DEF Opening
  <2> QED
    BY <2>1, <2>2, <1>74, <1>1, <1>2, OpenedRules DEF WhileStatement, AtStatement, Resumes, At, OpenBracket, Opening
<1>75. CASE WhileBody
  <2>1. PICK f : f.kind = "while" /\ calls' = Append(Popped, f)
    BY <1>75 DEF WhileBody, Leaves, Reads, Begins
  <2>2. f.kind \notin Opening
    BY <2>1 DEF Opening
  <2> QED
    BY <2>1, <2>2, <1>75, <1>1, <1>2, OpenedRules DEF WhileBody, Resumes, At, Opening
<1>76. CASE ForStatement
  <2>1. PICK f : f.kind = "for" /\ calls' = (calls \o <<f>>) \o Expressions
    BY <1>76 DEF ForStatement, AtStatement, Leaves, Reads, Begins, OpenBracket
  <2>2. f.kind \notin Opening
    BY <2>1 DEF Opening
  <2> QED
    BY <2>1, <2>2, <1>76, <1>1, <1>2, OpenedRules DEF ForStatement, AtStatement, Resumes, At, OpenBracket, Opening
<1>77. CASE ForCondition
  <2>1. PICK f : f.kind = "for condition" /\ calls' = Append(Popped, f) \o Expressions
    BY <1>77 DEF ForCondition, Leaves, Reads
  <2>2. f.kind \notin Opening
    BY <2>1 DEF Opening
  <2>3. Append(Popped, f) = Popped \o <<f>>
    BY <1>77, <1>1, <1>2, Pushed DEF ForCondition, Resumes, At
  <2>4. Opened(Popped) = Opened(calls) /\ IsStack(Popped)
    BY <1>77, <1>1, <1>2 DEF ForCondition, Resumes, At, Opening
  <2>5. Opened((Popped \o <<f>>) \o Expressions) = Opened(Popped)
    BY ONLY <2>2, <2>4, OpenedRules
  <2>6. calls' = (Popped \o <<f>>) \o Expressions
    BY <2>1, <2>3
  <2> QED
    BY <2>4, <2>5, <2>6
<1>78. CASE ForStep
  <2>1. PICK f : f.kind = "for step" /\ calls' = Append(Popped, f) \o Expressions
    BY <1>78 DEF ForStep, Leaves, Reads
  <2>2. f.kind \notin Opening
    BY <2>1 DEF Opening
  <2>3. Append(Popped, f) = Popped \o <<f>>
    BY <1>78, <1>1, <1>2, Pushed DEF ForStep, Resumes, At
  <2>4. Opened(Popped) = Opened(calls) /\ IsStack(Popped)
    BY <1>78, <1>1, <1>2 DEF ForStep, Resumes, At, Opening
  <2>5. Opened((Popped \o <<f>>) \o Expressions) = Opened(Popped)
    BY ONLY <2>2, <2>4, OpenedRules
  <2>6. calls' = (Popped \o <<f>>) \o Expressions
    BY <2>1, <2>3
  <2> QED
    BY <2>4, <2>5, <2>6
<1>79. CASE ForBody
  <2>1. PICK f : f.kind = "for body" /\ calls' = Append(Popped, f)
    BY <1>79 DEF ForBody, Leaves, Begins
  <2>2. f.kind \notin Opening
    BY <2>1 DEF Opening
  <2> QED
    BY <2>1, <2>2, <1>79, <1>1, <1>2, OpenedRules DEF ForBody, Resumes, At, Opening
<1> QED
  BY <1>3, <1>4, <1>5, <1>6, <1>7, <1>8, <1>9, <1>10, <1>11, <1>12, <1>13, <1>14, <1>15, <1>16, <1>17,
     <1>18, <1>19, <1>20, <1>21, <1>22, <1>23, <1>24, <1>25, <1>26, <1>27, <1>28, <1>29, <1>30, <1>31,
     <1>32, <1>33, <1>34, <1>35, <1>36, <1>37, <1>38, <1>39, <1>40, <1>41, <1>42, <1>43, <1>44, <1>45,
     <1>46, <1>47, <1>48, <1>49, <1>50, <1>51, <1>52, <1>53, <1>54, <1>55, <1>56, <1>57, <1>58, <1>59,
     <1>60, <1>61, <1>62, <1>63, <1>64, <1>65, <1>66, <1>67, <1>68, <1>69, <1>70, <1>71, <1>72, <1>73,
     <1>74, <1>75, <1>76, <1>77, <1>78, <1>79 DEF Quiet

-----------------------------------------------------------------------------
(* p comes from b, with k more environments open.                          *)
Rooted(b, p, k) ==
    /\ ComesFrom(b, p) /\ IsStack(p.scopes)
    /\ Running(p) => p.scopes # <<>> /\ Len(p.scopes) = Len(b.scopes) + k

(* newIdentifier() enters a name in an environment, and opens none.        *)
LEMMA DeclaredScopes ==
    ASSUME NEW p, IsParser(p), IsStack(p.scopes), p.scopes # <<>>, NEW name, NEW ty
    PROVE  LET q == NewIdentifier(p, name, ty)
           IN  IsStack(q.scopes) /\ Len(q.scopes) = Len(p.scopes) /\ q.scopes # <<>>
<1> DEFINE n == Len(p.scopes)
           names == p.scopes[n][Kind(ty)]
           scope == [p.scopes[n] EXCEPT ![Kind(ty)] = [m \in DOMAIN names \cup {name} |-> IF m = name THEN ty ELSE names[m]]]
           scopes == [p.scopes EXCEPT ![n] = scope]
           q == NewIdentifier(p, name, ty)
<1>1. PICK S : p.scopes \in Seq(S)
  BY DEF IsStack
<1>2. n \in 1 .. n /\ n \in Nat /\ p.scopes \in Seq(S \cup {scope})
  BY <1>1
<1>3. SameNames(p, Misreport(p))
  BY Stops DEF Keeps
<1>4. \/ q = p \/ q = Misreport(p)
      \/ q = [p EXCEPT !.scopes[Len(p.scopes)][Kind(ty)] =
                 [m \in DOMAIN names \cup {name} |-> IF m = name THEN ty ELSE names[m]]]
  BY DEF NewIdentifier
<1>5. [p EXCEPT !.scopes[Len(p.scopes)][Kind(ty)] =
          [m \in DOMAIN names \cup {name} |-> IF m = name THEN ty ELSE names[m]]].scopes = scopes
  BY Zenon DEF IsParser, Fields
<1>6. q.scopes = p.scopes \/ q.scopes = scopes
  BY <1>3, <1>4, <1>5 DEF SameNames
<1> HIDE DEF scope, q
<1>7. scopes \in Seq(S \cup {scope}) /\ Len(scopes) = n
  <2> scope \in S \cup {scope}
    OBVIOUS
  <2> QED
    BY <1>2, ExceptSeq
<1> HIDE DEF scopes
<1>8. IsStack(scopes) /\ scopes # <<>>
  BY <1>2, <1>7 DEF IsStack
<1> QED
  BY <1>2, <1>6, <1>7, <1>8 DEF q

(* How the operations change the number of environments.                   *)
LEMMA RootedRules ==
    ASSUME NEW b, NEW k \in Int, NEW p, Rooted(b, p, k), Len(b.scopes) \in Nat \ {0}, Running(b)
    PROVE  /\ \A q : SameNames(p, q) => Rooted(b, q, k)
           /\ \A q : SameNames(p, q) /\ ~Running(q) => \A j : Rooted(b, q, j)
           /\ Rooted(b, EnterEnv(p), k + 1)
           /\ Len(b.scopes) + k >= 2 => Rooted(b, ExitEnv(p), k - 1)
           /\ \A name, ty : Rooted(b, NewIdentifier(p, name, ty), k)
<1>1. IsParser(p) /\ IsStack(p.scopes)
  BY DEF Rooted, ComesFrom
<1>2. \A q : SameNames(p, q) => Rooted(b, q, k) /\ (~Running(q) => \A j : Rooted(b, q, j))
  BY DEF Rooted, SameNames, ComesFrom
<1>3. Rooted(b, EnterEnv(p), k + 1)
  <2>1. CASE ~Running(p)
    BY <2>1 DEF EnterEnv, Rooted
  <2>2. CASE Running(p)
    <3>1. EnterEnv(p).scopes = Append(p.scopes, NewScope) /\ ComesFrom(p, EnterEnv(p))
      BY <1>1, <2>2, NamesDeclare DEF EnterEnv, IsParser, Fields, Declares, SameCode
    <3>2. /\ IsStack(Append(p.scopes, NewScope)) /\ Append(p.scopes, NewScope) # <<>>
          /\ Len(Append(p.scopes, NewScope)) = Len(p.scopes) + 1 /\ Len(p.scopes) \in Nat
      BY <1>1, Pushed
    <3>3. p.scopes # <<>> /\ Len(p.scopes) = Len(b.scopes) + k
      BY <2>2 DEF Rooted
    <3>4. Len(Append(p.scopes, NewScope)) = Len(b.scopes) + (k + 1)
      <4>1. \A x, y \in Nat : x = y + k => x + 1 = y + (k + 1)
        OBVIOUS
      <4>2. Len(b.scopes) \in Nat /\ Len(p.scopes) \in Nat
        BY <3>2
      <4> QED
        BY ONLY <3>2, <3>3, <4>1, <4>2
    <3> QED
      BY <2>2, <3>1, <3>2, <3>3, <3>4 DEF Rooted, ComesFrom
  <2> QED
    BY <2>1, <2>2
<1>4. ASSUME Len(b.scopes) + k >= 2 PROVE Rooted(b, ExitEnv(p), k - 1)
  <2>1. CASE ~Running(p)
    BY <2>1 DEF ExitEnv, Rooted
  <2>2. CASE Running(p)
    <3> DEFINE t == SubSeq(p.scopes, 1, Len(p.scopes) - 1)
    <3>1. ExitEnv(p).scopes = t /\ ComesFrom(p, ExitEnv(p))
      BY <1>1, <2>2, NamesDeclare DEF ExitEnv, IsParser, Fields, Declares, SameCode
    <3>2. p.scopes # <<>> /\ Len(p.scopes) = Len(b.scopes) + k
      BY <2>2 DEF Rooted
    <3>3. IsStack(t) /\ Len(t) = Len(p.scopes) - 1 /\ t # <<>> /\ Len(p.scopes) \in Nat
      BY <1>1, <1>4, <3>2, Dropped
    <3> HIDE DEF t
    <3>4. Len(t) = Len(b.scopes) + (k - 1)
      BY <3>2, <3>3
    <3> QED
      BY <2>2, <3>1, <3>3, <3>4 DEF Rooted, ComesFrom
  <2> QED
    BY <2>1, <2>2
<1>5. ASSUME NEW name, NEW ty
      PROVE  Rooted(b, NewIdentifier(p, name, ty), k)
  <2>1. CASE ~Running(p)
    BY <2>1 DEF NewIdentifier, Rooted
  <2>2. CASE Running(p)
    <3> DEFINE q == NewIdentifier(p, name, ty)
    <3>1. p.scopes # <<>> /\ Len(p.scopes) = Len(b.scopes) + k
      BY <2>2 DEF Rooted
    <3>2. IsStack(q.scopes) /\ Len(q.scopes) = Len(p.scopes) /\ q.scopes # <<>>
      BY <1>1, <3>1, DeclaredScopes
    <3>3. ComesFrom(p, q)
      BY <1>1, NamesDeclare DEF Declares, SameCode
    <3> HIDE DEF q
    <3> QED
      BY <3>1, <3>2, <3>3 DEF Rooted, ComesFrom, q
  <2> QED
    BY <2>1, <2>2
<1> QED
  BY <1>2, <1>3, <1>4, <1>5

(* As many environments as functions and blocks wait, and the global one.  *)
ScopesRight == Running(parser) => IsStack(parser.scopes) /\ Len(parser.scopes) = Opened(calls) + 1

(* The check of a declarator, and the name it then enters.                 *)
LEMMA VerdictRooted ==
    ASSUME IsParser(parser), Running(parser), IsStack(parser.scopes), Len(parser.scopes) \in Nat \ {0}, NEW d
    PROVE  Rooted(parser, Verdict(d), 0)
<1> DEFINE q == [parser EXCEPT !.verdict = Check(parser.verdict, d.ty)]
<1>1. Rooted(parser, parser, 0)
  <2>1. parser.scopes # <<>>
    BY DEF IsStack
  <2> QED
    BY <2>1 DEF Rooted, ComesFrom
<1>2. SameNames(parser, q)
  BY Stops DEF Keeps
<1>3. Rooted(parser, q, 0) /\ IsParser(q)
  <2>1. \A a : SameNames(parser, a) => Rooted(parser, a, 0)
    BY <1>1, RootedRules
  <2> QED
    BY <1>2, <2>1 DEF SameNames, ComesFrom
<1> HIDE DEF q
<1>4. SameNames(q, Misreport(q)) /\ SameNames(q, Report(q))
  BY <1>3, Stops DEF Keeps
<1>5. Rooted(parser, Misreport(q), 0) /\ Rooted(parser, Report(q), 0)
  BY <1>3, <1>4, RootedRules
<1>6. Rooted(parser, NewIdentifier(q, q.text[d.name], d.ty), 0)
  BY <1>3, RootedRules
<1> QED
  BY <1>5, <1>6 DEF Verdict, q

(* The body of a function opens the environment of its parameters.         *)
LEMMA BraceRooted ==
    ASSUME NEW b, Running(b), Len(b.scopes) \in Nat \ {0}, NEW p, Rooted(b, p, 0), NEW d
    PROVE  Rooted(b, AtBrace(p, d), 1)
<1>1. IsParser(p)
  BY DEF Rooted, ComesFrom
<1>2. Rooted(b, EnterEnv(p), 1)
  <2>1. Rooted(b, EnterEnv(p), 0 + 1)
    BY RootedRules
  <2> QED
    BY <2>1
<1>3. ASSUME NEW a, Rooted(b, a, 1), NEW list, NEW i
      PROVE  Rooted(b, ParseParameter(a, list, i), 1)
  <2>1. Rooted(b, NewIdentifier(a, list[i].sym, list[i].base), 1)
    BY <1>3, RootedRules
  <2> QED
    BY <1>3, <2>1 DEF ParseParameter
<1>4. \A list : Rooted(b, ParseParameters(EnterEnv(p), list), 1)
  BY <1>2, <1>3 DEF ParseParameters
<1>5. ASSUME NEW a, IsParser(a), NEW w, w # "no"
      PROVE  SameNames(a, Stop(a, w)) /\ ~Running(Stop(a, w))
  BY <1>5, Stops DEF Keeps
<1>6. \A ty : Rooted(b, BeginFunction(p, ty), 1)
  <2> SUFFICES ASSUME NEW ty PROVE Rooted(b, BeginFunction(p, ty), 1)
    OBVIOUS
  <2> DEFINE q == ParseParameters(EnterEnv(p), ty.list)
  <2>1. Rooted(b, q, 1) /\ IsParser(q)
    BY <1>4 DEF Rooted, ComesFrom
  <2>2. BeginFunction(p, ty) = q \/ BeginFunction(p, ty) = Stop(q, "undefined")
    BY DEF BeginFunction
  <2> HIDE DEF q
  <2>3. Rooted(b, Stop(q, "undefined"), 1)
    BY <1>5, <2>1, RootedRules
  <2> QED
    BY <2>1, <2>2, <2>3
<1>7. SameNames(p, Report(p)) /\ IsParser(Report(p)) /\ Rooted(b, Report(p), 0)
  <2>1. SameNames(p, Report(p)) /\ IsParser(Report(p))
    BY <1>1, Stops DEF Keeps, SameNames, ComesFrom
  <2> QED
    BY <2>1, RootedRules
<1>8. Rooted(b, Stop(Report(p), "assert"), 1)
  BY <1>5, <1>7, RootedRules
<1>9. Rooted(b, Stop(p, "undefined"), 1) /\ Rooted(b, Stop(p, "assert"), 1)
  BY <1>1, <1>5, RootedRules
<1>10. \/ AtBrace(p, d) = Stop(Report(p), "assert")
      \/ AtBrace(p, d) = Stop(p, "undefined")
      \/ AtBrace(p, d) = Stop(p, "assert")
      \/ AtBrace(p, d) = BeginFunction(p, d.ty)
  BY DEF AtBrace
<1> QED
  BY <1>6, <1>8, <1>9, <1>10

(* A block opens an environment of its own.                                *)
LEMMA BlockRooted ==
    ASSUME NEW b, Running(b), Len(b.scopes) \in Nat \ {0}, NEW k \in Int, NEW p, Rooted(b, p, k),
           NEW under, OpenBlock(p, under), IsStack(under)
    PROVE  Rooted(b, parser', k + 1) /\ Opened(calls') = Opened(under) + 1
<1> DEFINE e == EnterEnv(p)
           q == EmitListed(Emit(e, "pad"), "pad")
<1>1. Rooted(b, e, k + 1) /\ IsParser(e)
  <2>1. Rooted(b, e, k + 1)
    BY RootedRules
  <2> QED
    BY <2>1 DEF Rooted, ComesFrom
<1> HIDE DEF e
<1>2. Writes(e, e)
  BY <1>1, Chains
<1>3. Writes(e, q)
  <2>1. Writes(e, Emit(e, "pad"))
    BY ONLY <1>2, WritesCode
  <2>2. Writes(e, EmitListed(Emit(e, "pad"), "pad"))
    BY ONLY <2>1, WritesCode
  <2> QED
    BY ONLY <2>2 DEF q
<1>4. SameNames(e, q) /\ IsParser(q)
  BY <1>3 DEF Writes, SameNames, ComesFrom
<1> HIDE DEF q
<1>5. SameNames(q, NextToken(q))
  BY <1>4, TokenScans DEF Scans
<1>6. SameNames(e, NextToken(q))
  BY <1>4, <1>5, Chains
<1>7. Rooted(b, NextToken(q), k + 1)
  BY <1>1, <1>6, RootedRules
<1>8. parser' = NextToken(q)
  BY DEF OpenBlock, Leaves, q, e
<1>9. PICK f : f.kind = "block" /\ calls' = Append(under, f)
  BY DEF OpenBlock, Leaves
<1>10. f.kind \in Opening
  BY <1>9 DEF Opening
<1> QED
  BY <1>7, <1>8, <1>9, <1>10, OpenedPushed

(* A step that opens as many environments as it pushes frames of functions *)
(* and blocks keeps the environments right.                                *)
LEMMA ScopesAtEnd ==
    ASSUME ScopesRight, NEW k \in Int, Rooted(parser, parser', k), Running(parser),
           Opened(calls) \in Nat, Opened(calls') = Opened(calls) + k
    PROVE  ScopesRight'
  BY DEF ScopesRight, Rooted

(* Every step of a compiler that runs keeps the environments right.        *)
LEMMA StepScopes ==
    ASSUME Safe, ScopesRight, Running(parser), [Next]_vars
    PROVE  ScopesRight'
<1>1. /\ IsStack(calls) /\ (mode # "unit" => calls # <<>>)
      /\ mode = "body" => Top.kind = "block"
      /\ IsParser(parser) /\ SameNames(parser, parser)
  BY Entering, Chains DEF Safe, TokenWaits, Keeps
<1>2. calls # <<>> =>
         /\ IsStack(Popped) /\ Opened(Popped) \in Nat
         /\ Top.kind \in Opening => Opened(calls) = Opened(Popped) + 1
         /\ Top.kind \notin Opening => Opened(calls) = Opened(Popped)
         /\ "kind" \in DOMAIN Top
  <2>1. calls # <<>> => "kind" \in DOMAIN Top
    BY Entering, Leaving DEF Safe
  <2> QED
    BY <1>1, <2>1, OpenedDropped DEF Popped, Top
<1>3. /\ Opened(calls) \in Nat /\ IsStack(parser.scopes)
      /\ Len(parser.scopes) = Opened(calls) + 1 /\ Len(parser.scopes) \in Nat \ {0}
  <2>1. Opened(calls) \in Nat
    BY <1>1, OpenedPushed
  <2> QED
    BY <2>1 DEF ScopesRight
<1>4. Rooted(parser, parser, 0)
  <2>1. parser.scopes # <<>>
    BY <1>3
  <2> QED
    BY <1>1, <1>3, <2>1 DEF Rooted, SameNames
<1>5. Rooted(parser, Verdict(value), 0)
  BY <1>1, <1>3, VerdictRooted
<1> DEFINE V == Verdict(value)
<1>6. IsParser(V) /\ Running(parser)
  BY <1>5 DEF Rooted, ComesFrom
<1> DEFINE NV == NextToken(V)
<1>7. Rooted(parser, NV, 0) /\ IsParser(NV) /\ SameNames(NV, NV)
  <2>1. SameNames(V, NV)
    BY <1>6, TokenScans DEF Scans
  <2>2. Rooted(parser, NV, 0)
    BY <1>3, <1>5, <2>1, RootedRules
  <2> QED
    BY <2>1, <2>2, Chains DEF Keeps, SameNames, ComesFrom
<1> HIDE DEF NV, V
<1>8. CASE Quiet
  <2>1. SameNames(parser, parser') /\ Opened(calls') = Opened(calls)
    BY <1>8, StepNames, StepOpened
  <2>2. Rooted(parser, parser', 0)
    BY <1>3, <1>4, <2>1, RootedRules
  <2> QED
    BY <1>3, <2>1, <2>2, ScopesAtEnd
<1>9. CASE AnotherDeclarator
  <2>1. parser' = NV
    BY <1>9 DEF AnotherDeclarator, Leaves, NV, V
  <2>2. [Top EXCEPT !.declared = Declared(value)].kind = "declaration"
    BY <1>9, <1>1, <1>2, Zenon DEF AnotherDeclarator, DeclaredTo, Resumes, At
  <2>3. [Top EXCEPT !.declared = Declared(value)].kind \notin Opening
    BY ONLY <2>2 DEF Opening
  <2>4. IsStack(Popped) /\ Opened(Popped) = Opened(calls)
    BY <1>9, <1>1, <1>2 DEF AnotherDeclarator, DeclaredTo, Resumes, At, Opening
  <2>5. PICK f : f.kind \notin Opening /\ calls' = Append(Popped, f)
    BY <1>9, <2>3 DEF AnotherDeclarator, Leaves
  <2>6. Opened(calls') = Opened(calls)
    BY <2>4, <2>5, OpenedRules
  <2> QED
    BY <1>3, <1>7, <2>1, <2>6, ScopesAtEnd
<1>10. CASE Initializer
  <2>1. parser' = NV
    BY <1>10 DEF Initializer, Leaves, Reads, NV, V
  <2>2. [kind |-> "initializer"].kind \notin Opening
    BY DEF Opening
  <2>3. IsStack(Popped) /\ Opened(Popped) = Opened(calls)
    BY <1>10, <1>1, <1>2 DEF Initializer, DeclaredTo, Resumes, At, Opening
  <2>4. calls' = (Popped \o <<[kind |-> "initializer"]>>) \o Expressions
    BY <1>10 DEF Initializer, Leaves, Reads
  <2>5. Opened(calls') = Opened(calls)
    BY <2>2, <2>3, <2>4, OpenedRules
  <2> QED
    BY <1>3, <1>7, <2>1, <2>5, ScopesAtEnd
<1>11. CASE EndDeclarator
  <2> DEFINE p == Need(PushBack(NV), ";")
  <2>1. SameNames(NV, PushBack(NV))
    BY <1>7, NamesKept
  <2>2. SameNames(NV, p)
    BY <2>1, NamesKept
  <2>3. EndsDeclaration(p) \/ parser' = NextToken(p)
    BY <1>11 DEF EndDeclarator, Leaves, NV, V
  <2> HIDE DEF p
  <2>4. SameNames(NV, parser')
    BY <2>2, <2>3, NamesKept, EndsDeclarationNames
  <2>5. Rooted(parser, parser', 0)
    BY <1>3, <1>7, <2>4, RootedRules
  <2>6. IsStack(Popped) /\ Opened(Popped) = Opened(calls)
    BY <1>11, <1>1, <1>2 DEF EndDeclarator, Resumes, At, Opening
  <2>7. Opened(calls') = Opened(calls)
    BY <1>11, <2>6 DEF EndDeclarator, EndsDeclaration, Leaves
  <2> QED
    BY <1>3, <2>5, <2>7, ScopesAtEnd
<1>12. CASE FunctionDefinition
  <2> DEFINE a == AtBrace(NV, value)
             m == MakeHead(a)
             f == [kind |-> "function", begin |-> Newest(parser) + 1]
  <2>1. Rooted(parser, a, 1) /\ IsParser(a)
    BY <1>3, <1>7, BraceRooted DEF Rooted, ComesFrom
  <2>2. OpenBlock(m, Append(Popped, f))
    BY <1>12 DEF FunctionDefinition, NV, V
  <2> HIDE DEF a
  <2>3. SameNames(a, m)
    BY <2>1, CodeWrites DEF Writes
  <2>4. Rooted(parser, m, 1)
    BY <1>3, <2>1, <2>3, RootedRules
  <2>5. IsStack(Popped) /\ Opened(Popped) = Opened(calls)
    BY <1>12, <1>1, <1>2 DEF FunctionDefinition, DeclaredTo, Resumes, At, Opening
  <2>6. f.kind \in Opening
    BY DEF Opening
  <2> HIDE DEF f, m
  <2>7. IsStack(Append(Popped, f)) /\ Opened(Append(Popped, f)) = Opened(calls) + 1
    BY <2>5, <2>6, Pushed, OpenedPushed
  <2>8. Rooted(parser, parser', 1 + 1) /\ Opened(calls') = Opened(Append(Popped, f)) + 1
    BY <1>3, <2>2, <2>4, <2>7, BlockRooted
  <2>9. Opened(calls') = Opened(calls) + (1 + 1)
    BY <1>3, <2>7, <2>8
  <2> QED
    BY <1>3, <2>8, <2>9, ScopesAtEnd
<1>13. CASE InnerBlock
  <2>1. OpenBlock(parser, calls)
    BY <1>13 DEF InnerBlock
  <2>2. Rooted(parser, parser', 0 + 1) /\ Opened(calls') = Opened(calls) + 1
    BY <1>1, <1>3, <1>4, <2>1, BlockRooted
  <2>3. Opened(calls') = Opened(calls) + (0 + 1)
    BY <1>3, <2>2
  <2> QED
    BY <1>3, <2>2, <2>3, ScopesAtEnd
<1>14. CASE CloseBlock
  <2>1. IsStack(Popped) /\ Opened(calls) = Opened(Popped) + 1 /\ Opened(Popped) \in Nat
    BY <1>14, <1>1, <1>2 DEF CloseBlock, At, Opening
  <2>2. Len(parser.scopes) + 0 >= 2
    BY <1>3, <2>1
  <2>3. Rooted(parser, ExitEnv(parser), 0 - 1)
    BY <1>3, <1>4, <2>2, RootedRules
  <2> DEFINE e == ExitEnv(parser)
  <2>4. IsParser(e)
    BY <2>3 DEF Rooted, ComesFrom
  <2>5. parser' = PushBack(e) /\ calls' = Popped
    BY <1>14 DEF CloseBlock, Returns, Leaves
  <2> HIDE DEF e
  <2>6. SameNames(e, PushBack(e))
    BY <2>4, TokenScans DEF Scans
  <2>7. Rooted(parser, parser', 0 - 1)
    BY <1>3, <2>3, <2>5, <2>6, RootedRules DEF e
  <2>8. Opened(calls') = Opened(calls) + (0 - 1)
    BY <2>1, <2>5
  <2> QED
    BY <1>3, <2>7, <2>8, ScopesAtEnd
<1>15. CASE EndFunction
  <2>1. IsStack(Popped) /\ Opened(calls) = Opened(Popped) + 1 /\ Opened(Popped) \in Nat
    BY <1>15, <1>1, <1>2 DEF EndFunction, Resumes, At, Opening
  <2>2. PICK t : EndsDeclaration(Need(ExitEnv([parser EXCEPT !.printed = t]), "}")) /\ calls' = Popped
    BY <1>15 DEF EndFunction, EndsDeclaration, Leaves
  <2>15. Opened(calls') = Opened(calls) + (0 - 1)
    <3>1. calls' = Popped
      BY <2>2
    <3> QED
      BY ONLY <2>1, <3>1
  <2> DEFINE p == [parser EXCEPT !.printed = t]
             e == ExitEnv(p)
  <2>3. SameNames(parser, p)
    BY <1>1, NamesKept
  <2>4. Rooted(parser, p, 0)
    <3>1. \A q : SameNames(parser, q) => Rooted(parser, q, 0)
      BY <1>3, <1>4, RootedRules
    <3> QED
      BY <2>3, <3>1
  <2> HIDE DEF p
  <2>5. Len(parser.scopes) + 0 >= 2
    BY <1>3, <2>1
  <2>6. Rooted(parser, e, 0 - 1) /\ IsParser(e)
    <3>1. Rooted(parser, ExitEnv(p), 0 - 1)
      BY <1>3, <2>4, <2>5, RootedRules
    <3> QED
      BY <3>1 DEF Rooted, ComesFrom
  <2>7. EndsDeclaration(Need(e, "}"))
    BY <2>2 DEF p
  <2> HIDE DEF e
  <2>8. SameNames(e, e)
    BY <2>6, Chains DEF Keeps
  <2>9. SameNames(e, Need(e, "}"))
    BY <2>8, NamesKept
  <2>10. SameNames(e, parser')
    BY <2>7, <2>9, EndsDeclarationNames
  <2>11. Rooted(parser, parser', 0 - 1)
    BY <1>3, <2>6, <2>10, RootedRules
  <2> QED
    BY <1>3, <2>11, <2>15, ScopesAtEnd
<1>16. CASE UNCHANGED vars
  BY <1>16 DEF vars, ScopesRight
<1> QED
  BY <1>8, <1>9, <1>10, <1>11, <1>12, <1>13, <1>14, <1>15, <1>16
  DEF Next, Expression, Declarators, Statements, Quiet

(* A stopped compiler takes no step.                                       *)
LEMMA StoppedStays ==
    ASSUME ~Running(parser), [Next]_vars
    PROVE  UNCHANGED vars
<1>1. ASSUME Expression PROVE FALSE
  BY <1>1 DEF Expression, PrimaryOperand, Bracket, EndBracket, UnaryOperator, EndUnary, NoOperand,
     Increment, Index,
      EndIndex, EndPostfix, FunctionCall, EndArgument, Operator, EndRight, EndBinary,
      EndConditional, Assign, EndAssign, EndAssignment, Comma, EndExpressions, At, Resumes, Listing
<1>2. ASSUME Declarators PROVE FALSE
  BY <1>2 DEF Declarators, Qualifier, EndQualifiers, EndSpecifiers, Star, EndStar, QualifiedPointer,
      EndQualifiedPointer, EndPointer, Named, EndNamed, Bracketed, CloseBracketed, EndBracketed,
      NoDeclarator, Dimension, NoSuffix, NoParameters, Parameters, AnotherParameter,
      EndParameters, NotDeclared, AnotherDeclarator, Initializer, EndDeclarator, Recover, At, Resumes, DeclaredTo
<1>3. ASSUME Statements PROVE FALSE
  BY <1>3 DEF Statements, UnitDeclaration, UnitOther, FunctionDefinition, EndFunction, BlockDeclaration,
      BlockStatements, BlockStatement, BlockTakes, PassSemicolon, BlockGoesOn, CloseBlock,
      InnerBlock, EmptyStatement, NoStatement, DoStatement, SwitchStatement, LateDeclaration,
      ExpressionStatement, AfterExpression, EndExpression, BreakStatement, ContinueStatement,
      ReturnStatement, EndReturn, IfStatement, IfBranch, AfterBranch, EndIf, ElseBranch,
      EndElse, WhileStatement, WhileBody, EndWhile, ForStatement, ForCondition, ForStep,
      ForBody, EndFor, At, AtStatement, Resumes, DeclaredTo, Turn, PastSemicolons
<1> QED
  BY <1>1, <1>2, <1>3 DEF Next

(* No step breaks the count of environments.                               *)
LEMMA ScopesStep ==
    ASSUME Safe, ScopesRight, [Next]_vars
    PROVE  ScopesRight'
<1>1. CASE Running(parser)
  BY <1>1, StepScopes
<1>2. CASE ~Running(parser)
  <2>1. UNCHANGED vars
    BY <1>2, StoppedStays
  <2> QED
    BY <1>2, <2>1 DEF vars, ScopesRight
<1> QED
  BY <1>1, <1>2

(* At the beginning there is the global environment alone.                 *)
LEMMA ScopesInit ==
    ASSUME Init
    PROVE  Safe /\ ScopesRight
<1>1. parser.scopes = <<NewScope>> /\ calls = <<>>
  BY DEF Init
<1>2. <<NewScope>> \in Seq({NewScope}) /\ Len(<<NewScope>>) = 1 /\ IsStack(<<NewScope>>)
  <2>1. \A x : <<x>> \in Seq({x}) /\ Len(<<x>>) = 1
    OBVIOUS
  <2> QED
    BY <2>1, Zenon DEF IsStack
<1>3. {d \in 1 .. Len(calls) : calls[d].kind \in Opening} = {}
  BY <1>1
<1>4. Opened(calls) = 0
  BY <1>3, FS_EmptySet DEF Opened
<1> QED
  BY <1>1, <1>2, <1>4, SafeInit DEF ScopesRight

(* Environments nest: at every moment there is the global one and one for  *)
(* every function and every block that is being read, whatever is wrong in *)
(* the text; the last of them is never left.                               *)
THEOREM ScopesCorrect == Spec => []ScopesNest
<1>1. Init => Safe /\ ScopesRight
  BY ScopesInit
<1>2. Safe /\ ScopesRight /\ [Next]_vars => (Safe /\ ScopesRight)'
  BY SafeStep, ScopesStep
<1>3. ScopesRight => ScopesNest
  BY DEF ScopesRight, ScopesNest
<1> QED
  BY <1>1, <1>2, <1>3, PTL DEF Spec
=============================================================================
