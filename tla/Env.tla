-------------------------------- MODULE Env --------------------------------
(***************************************************************************)
(* The scopes of the parser (includes/environment.h, lib/env/              *)
(* environment.cc) under the calls the parser makes of them: declarations, *)
(* uses of names (Tree::IDtree), function definitions and blocks.          *)
(*                                                                         *)
(* scopes is the chain of up pointers from the current Env to the global   *)
(* one, last to first.  The up pointers of the two tables of an Env are    *)
(* set and cleared together with its own.                                  *)
(***************************************************************************)
EXTENDS SymbolTable, Sequences

CONSTANTS
    MaxDepth,       \* bound: nested scopes
    MaxDeclared,    \* bound: names declared in the open scopes
    MaxStray        \* bound: '{' met where a declaration should be

ASSUME BoundsAssumption ==
    MaxDepth \in Nat \ {0} /\ MaxDeclared \in Nat /\ MaxStray \in Nat

VARIABLES
    scopes,     \* the open environments
    status,     \* "running", or how the compiler stopped
    answer,     \* what the last declaration or use was told
    defining,   \* a function was just declared: its body may follow
    strays      \* stray braces so far

vars == <<scopes, status, answer, defining, strays>>

Kinds == {"ids", "funcs"}
Top == Len(scopes)
Current == scopes[Top]

Running == status = "running"

Says == {"nothing", "declared", "redeclared", "ids", "funcs", "unknown"}
Statuses == {"running", "lost_in_report", "lost_in_rePut", "overrun", "endless"}

Envs ==
    [role : {"global", "function", "block"}, level : Int, selfUp : BOOLEAN,
     declaring : BOOLEAN,   \* the parser is among its declarations
     ids : Tables, funcs : Tables, idCounts : Nat, funcCounts : Nat]

(* Env() makes level 1; setGlobal() and EnterEnv() change it.              *)
NewEnv(role, level) ==
    [role |-> role, level |-> level, selfUp |-> FALSE,
     declaring |-> TRUE, ids |-> NewTable, funcs |-> NewTable,
     idCounts |-> 0, funcCounts |-> 0]

Init ==
    /\ scopes = <<NewEnv("global", 0)>>
    /\ status = "running"
    /\ answer = [says |-> "nothing", depth |-> 0]
    /\ defining = FALSE
    /\ strays = 0

(***************************************************************************)
(* Env::newIdentifier.  semError() reads its arguments as (string, int,    *)
(* int) where (int, string, int) was passed: what the report of a          *)
(* redeclaration does is undefined, and it may not return.                 *)
(***************************************************************************)
CountedAsIds(e, k) ==   \* mutant: functions are counted as variables
    [e EXCEPT !.idCounts = @ + 1]
Counted(e, k) == IF k = "ids" THEN [e EXCEPT !.idCounts = @ + 1]
                 ELSE [e EXCEPT !.funcCounts = @ + 1]

(* bound: what the open scopes hold together                             *)
InUse == Cardinality({e \in (1..Top) \X Kinds \X Slots :
                        scopes[e[1]][e[2]].slot[e[3]] # Null})

NewIdentifier(n, k) ==
    LET t == Current[k]
        said(s) == answer' = [says |-> s, depth |-> Top]
    IN  /\ Running /\ Current.declaring
        /\ Found(t, n) \/ InUse < MaxDeclared
        /\ defining' = (k = "funcs")
        /\ UNCHANGED strays
        /\ \/ /\ Found(t, n)
              /\ said("redeclared")
              /\ status' \in {"running", "lost_in_report"}
              /\ UNCHANGED scopes
           \/ /\ ~Found(t, n) /\ Overruns(t, n)
              /\ said("declared")
              /\ status' = "overrun"
              /\ UNCHANGED scopes
           \/ /\ ~Found(t, n) /\ ~Overruns(t, n) /\ Grows(t)
              /\ said("declared")
              /\ status' = "lost_in_rePut"
              /\ scopes' = [scopes EXCEPT ![Top][k].slot[FirstFree(t, n)] = n]
           \/ /\ ~Found(t, n) /\ ~Overruns(t, n) /\ ~Grows(t)
              /\ said("declared")
              /\ scopes' = [scopes EXCEPT ![Top] = Counted([@ EXCEPT ![k] = Put(t, n)], k)]
              /\ UNCHANGED status

(***************************************************************************)
(* existAllScope(), and Tree::IDtree's choice between variables and        *)
(* functions.  An environment that is its own up never ends the search.    *)
(***************************************************************************)
Depths(n, k) == {i \in 1..Top : Found(scopes[i][k], n)}
Outermost(D) ==         \* mutant: the search starts at the global scope
    CHOOSE i \in D : \A j \in D : i <= j
Innermost(D) == CHOOSE i \in D : \A j \in D : j <= i

IDtree(n) ==
    /\ Running /\ Current.role # "function"
    /\ UNCHANGED <<scopes, defining, strays>>
    /\ \/ /\ Depths(n, "ids") # {}
          /\ answer' = [says |-> "ids", depth |-> Innermost(Depths(n, "ids"))]
          /\ UNCHANGED status
       \/ /\ Depths(n, "ids") = {} /\ scopes[1].selfUp
          /\ status' = "endless"
          /\ answer' = [says |-> "nothing", depth |-> 0]
       \/ /\ Depths(n, "ids") = {} /\ ~scopes[1].selfUp
          /\ answer' = IF Depths(n, "funcs") # {}
                       THEN [says |-> "funcs", depth |-> Innermost(Depths(n, "funcs"))]
                       ELSE [says |-> "unknown", depth |-> 0]
          /\ UNCHANGED status

(* Env::EnterEnv on a new Env.                                             *)
EnterEnv(role) ==
    /\ Running /\ Top < MaxDepth
    /\ scopes' = Append([scopes EXCEPT ![Top].declaring = (role = "function")],
                        NewEnv(role, 2))
    /\ defining' = FALSE
    /\ UNCHANGED <<status, answer, strays>>

(* c_parser_funtion_definition() enters a scope for the parameters.        *)
EnterFunction ==
    /\ defining /\ Current.role # "function"
    /\ EnterEnv("function")

(* c_parser_compound_statement() enters a scope of its own.  A block is a  *)
(* statement: no declaration of the scope around it comes after it (PE08). *)
EnterBlock ==
    /\ Current.role # "global"
    /\ EnterEnv("block")

(* At the end of the block Env::ExitEnv lowers the level of the            *)
(* environment it returns to.  With its body a function definition is over *)
(* too, and its environment is gone, without an ExitEnv.                   *)
LeaveBlockExiting ==    \* mutant: the function's environment is exited too
    /\ Running /\ Current.role = "block"
    /\ scopes' = IF scopes[Top - 1].role = "function"
                 THEN SubSeq([scopes EXCEPT ![Top - 2].level = @ - 1], 1, Top - 2)
                 ELSE SubSeq([scopes EXCEPT ![Top - 1].level = @ - 1], 1, Top - 1)
    /\ defining' = FALSE
    /\ UNCHANGED <<status, answer, strays>>
LeaveBlockTwice ==      \* mutant: a function is left with what it stands in
    /\ Running /\ Current.role = "block"
    /\ scopes' = SubSeq(scopes, 1, IF scopes[Top - 1].role = "function"
                                   THEN Top - 3 ELSE Top - 1)
    /\ defining' = FALSE
    /\ UNCHANGED <<status, answer, strays>>
LeaveBlock ==
    /\ Running /\ Current.role = "block"
    /\ LET left == SubSeq([scopes EXCEPT ![Top - 1].level = @ - 1], 1, Top - 1)
       IN  scopes' = IF scopes[Top - 1].role = "function"
                     THEN SubSeq(left, 1, Top - 2) ELSE left
    /\ defining' = FALSE
    /\ UNCHANGED <<status, answer, strays>>

(* c_parser_translation_unit() meets a '{': the global environment is      *)
(* overwritten with the one just entered, whose up is the global one.      *)
StrayBrace ==
    /\ Running /\ Top = 1 /\ strays < MaxStray
    /\ scopes' = <<[NewEnv("global", 2) EXCEPT !.selfUp = TRUE]>>
    /\ strays' = strays + 1
    /\ defining' = FALSE
    /\ UNCHANGED <<status, answer>>

Next ==
    \/ \E n \in Name, k \in Kinds : NewIdentifier(n, k)
    \/ \E n \in Name : IDtree(n)
    \/ EnterFunction
    \/ EnterBlock
    \/ LeaveBlock
    \/ StrayBrace

Spec == Init /\ [][Next]_vars
=============================================================================
