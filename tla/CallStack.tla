------------------------------ MODULE CallStack ------------------------------
(***************************************************************************)
(* The state of the parser between two steps, and what a step of it does   *)
(* to the stack of its functions.                                          *)
(*                                                                         *)
(* The functions of lib/parser call each other, to any depth.  A step is   *)
(* what the code does from one call or return to the next, or one turn of  *)
(* a loop; calls is the stack of the functions that wait for one they      *)
(* called, a frame for each with its kind and the locals it goes on with.  *)
(* \E x \in {e} names a result e so that it is worked out once.            *)
(***************************************************************************)
EXTENDS InstructionList, Names

CONSTANTS
    Programs,           \* the texts, sequences of tokens
    MaxInstructions,    \* bound: the parser starts no statement with more than these
    MaxTurns            \* bound on the turns of the loop over the file

ASSUME ProgramsAssumption == \A t \in Programs : Len(t) \in Nat \ {0} /\ DOMAIN t = 1 .. Len(t)

VARIABLES
    parser,     \* the tokens and the code: see Init of StatementParser
    calls,      \* the waiting functions, the outermost one first
    mode,       \* what comes next: see Modes
    value,      \* what the function that returns gives back, or works on
    turns       \* of the loop over the file, which the code counts in n

vars == <<parser, calls, mode, value, turns>>

(* back: a function has returned its value to the one at the top.          *)
(* semicolons: they are passed over, by the function at the top.           *)
(* operand, postfix: within an expression.  qualifiers, pointer, direct,   *)
(* suffix: within a declarator.  recover: tokens are dropped.  unit: the   *)
(* loop over the file.  declarations, body: the loops of a block.          *)
(* statement: a statement is about to be read; stmt_list: what follows an  *)
(* empty one is.                                                           *)
Modes == {"back", "semicolons", "operand", "postfix", "qualifiers", "pointer", "direct", "suffix",
          "recover", "unit", "declarations", "body", "statement",
          "stmt_list"}

Top == calls[Len(calls)]
Popped == SubSeq(calls, 1, Len(calls) - 1)

At(m) == Running(parser) /\ mode = m
Resumes(kind) == At("back") /\ Top.kind = kind

(* The step leaves the parser p and the frames, and goes on in mode m with *)
(* the value v.  One of mode unit is a turn of the loop over the file.     *)
Nothing == "nothing"
Leaves(p, frames, m, v) ==
    /\ parser' = p
    /\ calls' = frames
    /\ mode' = m
    /\ value' = v
    /\ turns' = IF mode = "unit" THEN turns + 1 ELSE turns

(* The function at the top, or one that has no frame, returns v.           *)
Returns(p, v) == Leaves(p, Popped, "back", v)
Gives(p, v) == Leaves(p, calls, "back", v)
Stays(p) == Leaves(p, calls, mode, value)
=============================================================================
