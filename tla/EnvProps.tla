------------------------------ MODULE EnvProps ------------------------------
(***************************************************************************)
(* What is checked of Env.                                                 *)
(***************************************************************************)
EXTENDS Env

(* Every variable stays in its type.                                       *)
TypeOK ==
    /\ scopes \in Seq(Envs) /\ Top \in 1..MaxDepth
    /\ status \in Statuses
    /\ answer \in [says : Says, depth : 0..MaxDepth]
    /\ defining \in BOOLEAN
    /\ strays \in 0..MaxStray

AllTables == {scopes[i][k] : i \in 1..Top, k \in Kinds}

(* A name stands in the first slot from its home on that was free when it  *)
(* came: no slot between is empty, as a probing search needs.              *)
ProbesUnbroken ==
    \A t \in AllTables : \A i \in Slots :
        t.slot[i] # Null =>
            /\ Home[t.slot[i]] <= i
            /\ \A j \in Home[t.slot[i]]..i : t.slot[j] # Null

(* stored, which checkSize() and find() go by, the counters of the         *)
(* environment and the entries of the array agree, in every scope.         *)
Occupied(t) == Cardinality({i \in Slots : t.slot[i] # Null})
CountsAgree ==
    status # "lost_in_rePut" =>
        \A i \in 1..Top :
            /\ scopes[i].idCounts = Occupied(scopes[i].ids)
            /\ scopes[i].funcCounts = Occupied(scopes[i].funcs)
            /\ \A k \in Kinds : scopes[i][k].stored = Occupied(scopes[i][k])

(* The tables of every scope are as find(), PutIntoTable() and checkSize() *)
(* take them to be.                                                        *)
TablesWellFormed == ProbesUnbroken /\ CountsAgree

(* A name that was declared can only be hidden by another name of the same *)
(* scope and kind that stands in its home slot.                            *)
OnlyCollisionsHide ==
    \A t \in AllTables : \A n \in Held(t) :
        ~Found(t, n) /\ t.stored > 0 => t.slot[Home[n]] \notin {n, Null}

(* TE01 is never a false alarm: the name was declared before in this very  *)
(* scope, and as the same kind; not in a scope around it, not in one that  *)
(* was left.                                                               *)
NoFalseRedeclaration ==
    [][\A n \in Name, k \in Kinds :
          NewIdentifier(n, k) /\ answer'.says = "redeclared" => n \in Held(Current[k])]_vars

(* A use never finds what the source text does not have in scope: the      *)
(* scope it answers has the name, and no scope further in could have told. *)
UsesAreInScope ==
    [][\A n \in Name :
          IDtree(n) /\ answer'.says \in Kinds =>
              /\ n \in Held(scopes[answer'.depth][answer'.says])
              /\ \A i \in answer'.depth + 1..Top :
                    n \in Held(scopes[i][answer'.says]) =>
                        scopes[i][answer'.says].slot[Home[n]] # n]_vars

(* However blocks and functions nest and end, the global environment is    *)
(* at level 0 (isGlobal) until a stray brace replaces it: leaving a block  *)
(* lowers the level of the environment around it, but a function's own     *)
(* environment is never exited.                                            *)
GlobalStaysGlobal == strays = 0 => scopes[1].level = 0

(* As long as no table holds two names of one home slot, and no stray      *)
(* brace came, the environments are a scope stack: they start as one, and  *)
(* every step is one of its steps, but for one that leaves the array,      *)
(* which only a name whose home is taken may do.                           *)
Apart == \A t \in AllTables : \A m, n \in Held(t) : Home[m] = Home[n] => m = n
Declared == [i \in 1..Top |-> [k \in Kinds |-> Held(scopes[i][k])]]
Abstract == INSTANCE ScopeStack
                WITH scopes <- Declared, running <- Running,
                     Capacity <- Threshold
ScopeStackSpec ==
    /\ Abstract!Init
    /\ [][Apart /\ Apart' /\ strays' = 0 /\ status' # "overrun" =>
            [Abstract!Next]_(Abstract!scopeVars)]_vars

-----------------------------------------------------------------------------
(* What the repository says of the program and the code does not do.       *)

(* environment.cc:24: the redeclaration of a variable is an error (TE01).  *)
RedeclarationReported ==
    [][\A n \in Name, k \in Kinds :
          NewIdentifier(n, k) /\ n \in Held(Current[k]) => answer'.says = "redeclared"]_vars
=============================================================================
