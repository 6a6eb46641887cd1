------------------------------- MODULE MCEnv -------------------------------
(* Four names: two share a home slot, and the slot after it, the last of   *)
(* the array, is the home of another.                                      *)
EXTENDS EnvProps, TLC

CONSTANTS a, b, c, d

Names == {a, b, c, d}
Shared == (a :> 0) @@ (b :> 3) @@ (c :> 3) @@ (d :> 4)
Pair == {a, b}
Together == (a :> 1) @@ (b :> 1)
=============================================================================
