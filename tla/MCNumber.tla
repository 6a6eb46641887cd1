------------------------------ MODULE MCNumber ------------------------------
(* Texts that begin with a digit, and integers of 8 and 12 bits with       *)
(* limits in proportion: a hex number fills an int, the longest octal and  *)
(* decimal numbers do not.                                                 *)
EXTENDS NumberProps, SequencesExt

CONSTANT MaxLength

MCTexts ==
    {<<c>> \o rest : c \in {"0", "1", "9"},
                     rest \in BoundedSeq({"0", "1", "8", "e", "f", "x", "u", "l", ".", "+"},
                                         MaxLength - 1)}
=============================================================================
