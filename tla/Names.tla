------------------------------- MODULE Names -------------------------------
(***************************************************************************)
(* The names in scope and their types, as the parser keeps them: p.scopes  *)
(* is the chain of environments (lib/env/environment.cc), the global one   *)
(* first, each with the types of its variables and of its functions.  Env  *)
(* has the tables that hold them, and what they do when names collide;     *)
(* here they hold what was put into them.                                  *)
(***************************************************************************)
EXTENDS TokenBuffer, TypeTree

NoNames == [x \in {} |-> NoType]
NewScope == [ids |-> NoNames, funcs |-> NoNames]
Kind(ty) == IF ty.op = "function" THEN "funcs" ELSE "ids"

EnterEnv(p) == IF Running(p) THEN [p EXCEPT !.scopes = Append(@, NewScope)] ELSE p
ExitEnv(p) == IF Running(p) THEN [p EXCEPT !.scopes = SubSeq(@, 1, Len(@) - 1)] ELSE p

(* newIdentifier(): a second declaration is a wrong report.                *)
NewIdentifier(p, name, ty) ==
    LET names == p.scopes[Len(p.scopes)][Kind(ty)]
    IN  CASE ~Running(p) -> p
          [] Running(p) /\ name \in DOMAIN names -> Misreport(p)
          [] Running(p) /\ name \notin DOMAIN names ->
                [p EXCEPT !.scopes[Len(p.scopes)][Kind(ty)] =
                    [n \in DOMAIN names \cup {name} |-> IF n = name THEN ty ELSE names[n]]]

(* findID() or findFUNC(): the types of a name, that of the innermost      *)
(* scope last; none if it was not declared.                                *)
TypesOf(p, name, kind) ==
    LET Declares(scope) == name \in DOMAIN scope[kind]
        with == SelectSeq(p.scopes, Declares)
    IN  [i \in DOMAIN with |-> with[i][kind][name]]
=============================================================================
