--------------------------- MODULE MCMemorySource ---------------------------
(* Up to MaxTotal characters, supplied in pieces of none to two.           *)
EXTENDS MemorySource, SequencesExt

CONSTANTS a, b

MCChar == {a, b, NL, NUL}
MCPieces == BoundedSeq({a, b, NL}, 2) \cup {<<NUL>>}
=============================================================================
