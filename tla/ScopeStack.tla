----------------------------- MODULE ScopeStack -----------------------------
(***************************************************************************)
(* What the environments promise the parser: a stack of scopes, each with  *)
(* the variables and the functions declared in it.  A declaration is       *)
(* refused exactly if the scope has the name already (the compiler may     *)
(* then stop); a use of a name finds the innermost variable of that name,  *)
(* or else the innermost function.                                         *)
(***************************************************************************)
EXTENDS Integers, Sequences, FiniteSets

CONSTANTS Name, Capacity    \* a scope holds at least this many names of a kind

VARIABLES
    scopes,     \* the open scopes, the global one first
    answer,     \* what the last declaration or use was told
    running     \* the compiler has not stopped

scopeVars == <<scopes, answer, running>>

Kinds == {"ids", "funcs"}
Empty == [k \in Kinds |-> {}]
Top == Len(scopes)

Depths(n, k) == {i \in 1..Top : n \in scopes[i][k]}
Innermost(D) == CHOOSE i \in D : \A j \in D : j <= i

Init ==
    /\ scopes = <<Empty>>
    /\ answer = [says |-> "nothing", depth |-> 0]
    /\ running = TRUE

Declare(n, k) ==
    IF n \in scopes[Top][k]
    THEN /\ answer' = [says |-> "redeclared", depth |-> Top]
         /\ running' \in BOOLEAN
         /\ UNCHANGED scopes
    ELSE /\ scopes' = [scopes EXCEPT ![Top][k] = @ \cup {n}]
         /\ answer' = [says |-> "declared", depth |-> Top]
         /\ running' \in {TRUE, Cardinality(scopes[Top][k]) < Capacity}

Use(n) ==
    /\ answer' =
         IF Depths(n, "ids") # {}
         THEN [says |-> "ids", depth |-> Innermost(Depths(n, "ids"))]
         ELSE IF Depths(n, "funcs") # {}
         THEN [says |-> "funcs", depth |-> Innermost(Depths(n, "funcs"))]
         ELSE [says |-> "unknown", depth |-> 0]
    /\ UNCHANGED <<scopes, running>>

Enter ==
    /\ scopes' = Append(scopes, Empty)
    /\ UNCHANGED <<answer, running>>

(* A block is left, and with the outermost block of a function its scope   *)
(* of parameters.                                                          *)
Leave ==
    /\ \E d \in {1, 2} : Top > d /\ scopes' = SubSeq(scopes, 1, Top - d)
    /\ UNCHANGED <<answer, running>>

Next ==
    /\ running
    /\ \/ \E n \in Name, k \in Kinds : Declare(n, k)
       \/ \E n \in Name : Use(n)
       \/ Enter
       \/ Leave

Spec == Init /\ [][Next]_scopeVars
=============================================================================
