---------------------------- MODULE MCFileSource ----------------------------
(* Every file of at most MaxLen characters over two letters, a newline and *)
(* an embedded '\0'.                                                       *)
EXTENDS FileSource, SequencesExt

CONSTANTS a, b, MaxLen

MCChar == {a, b, NL, NUL}
MCInputs == BoundedSeq({a, b, NL}, MaxLen) \cup {<<a, NUL, NL>>, <<NL, a, NUL, b>>}
=============================================================================
