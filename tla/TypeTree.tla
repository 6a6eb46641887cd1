------------------------------ MODULE TypeTree ------------------------------
(***************************************************************************)
(* The types of lib/semantic/type.cc and includes/type.h, and the check a  *)
(* declared type must pass.                                                *)
(*                                                                         *)
(* A type is its outermost operator, the type that one is applied to, the  *)
(* parameters of a function, the elements of an array and, of a parameter, *)
(* its name.  NoType is the null pointer, the empty list a null list.      *)
(* What the check counts along a type, ints, and whether print() gets      *)
(* through it, prints, are worked out where the type is made.  Every type  *)
(* the parser makes ends in int: what else the check counts, signed and    *)
(* unsigned, is left out.                                                  *)
(***************************************************************************)
EXTENDS Integers, Sequences

NoType == [op |-> "null", ints |-> 0, prints |-> TRUE]

(* print(), which follows null where a pointer leads to a function, or a   *)
(* function has no list.                                                   *)
Prints(op, base, list) ==
    CASE op = "function" -> list # <<>> /\ base.prints /\ \A i \in DOMAIN list : list[i].prints
      [] op = "pointer" -> base.op # "function" /\ base.prints
      [] op \in {"array", "para"} -> base.prints
      [] OTHER -> TRUE

(* Type::Type(): only a function is given a list.                          *)
NewType(op, base, list) ==
    [op |-> op, base |-> base, list |-> IF op = "function" THEN list ELSE <<>>,
     els |-> "0", sym |-> "none",
     ints |-> base.ints + (IF op = "int" THEN 1 ELSE 0), prints |-> Prints(op, base, list)]
TypeOver(op, base) == NewType(op, base, <<>>)
ArrayType(base, els) == [TypeOver("array", base) EXCEPT !.els = els]
Parameter(base, sym) == [TypeOver("para", base) EXCEPT !.sym = sym]
IntType == TypeOver("int", NoType)
VoidType == TypeOver("void", NoType)

(* A second parameter, or another one in its place: the first links to it. *)
NextPara(list, second) == <<Head(list), second>>

-----------------------------------------------------------------------------
(* The exception that check() answers with: a static object, which no call *)
(* sets back.  A type that is refused sets it to its last error.           *)
NoException == "no exception"

(* checkPara(): of every parameter but the first.                          *)
CheckPara(te, list) ==
    IF \E i \in 2 .. Len(list) : list[i].base.op = "function" THEN "TE05" ELSE te

CheckFunction(te, t) ==
    LET returns == CASE t.base.op = "function" -> "TE03"
                     [] t.base.op = "array" -> "TE04"
                     [] OTHER -> te
    IN  IF t.list = <<>> THEN "internal" ELSE CheckPara(returns, t.list)

(* Of base types along the chain there may be one.                         *)
CheckType(te, t) ==
    IF t.ints > 1 THEN "TE01"
    ELSE IF t.op = "function" THEN CheckFunction(te, t) ELSE te

Check(te, t) == CheckType(te, t)

(* TE03 and TE04 print a name that is not passed to them.                  *)
Misprinted(te) == te \in {"TE03", "TE04"}
=============================================================================
