---------------------------- MODULE NumberProps ----------------------------
(***************************************************************************)
(* What is checked of NumberLiteral.                                       *)
(***************************************************************************)
EXTENDS NumberLiteral

Reports == {"LE03", "LE04", "LE06", "LE10", "LE12", "LE14"}
IntegerFlags == {"unsigned", "long"}
FloatFlags == {"double", "single", "long double"}

(* Every variable stays in its type; no loop takes more characters than    *)
(* its limit and the one that exceeds it.                                  *)
TypeOK ==
    /\ radix \in {8, 10, 16}
    /\ pc \in {"integer", "float", "done"}
    /\ at \in 1..Len(text) + 1
    /\ times \in 0..(CASE radix = 8 -> OctLimit [] radix = 10 -> DecLimit + 1
                       [] radix = 16 -> HexLimit + 1)
    /\ result \in 0..LongValues - 1
    /\ seen \subseteq {"u", "l"}
    /\ flags \subseteq IntegerFlags \cup FloatFlags
    /\ marks \in [{".", "e", "f", "l"} -> Nat]
    /\ errors \subseteq Reports

IsFloat == flags \cap FloatFlags # {}
Accepted == pc = "done" /\ errors = {}
Count(c) == Cardinality({i \in 1..Len(text) : text[i] = c})
Before(c, d) == \A i, j \in 1..Len(text) : text[i] = c /\ text[j] = d => i < j

(* The number the digits of the text t make, wherever suffixes stand: each *)
(* digit counts r times what the next one does.  Weights(t, r)[n] is what  *)
(* a digit with n characters behind it counts, Sums(t, r)[n] what those    *)
(* among the first n characters make.                                      *)
DigitAt(t, r, i) == i \in (IF r = 16 THEN 3 ELSE 1)..Len(t) /\ t[i] \in Digits[r]
Weights(t, r) ==
    LET w[n \in Nat] == IF n = 0 THEN 1
                        ELSE IF DigitAt(t, r, Len(t) - n + 1) THEN r * w[n - 1]
                        ELSE w[n - 1]
    IN  w
Sums(t, r) ==
    LET s[n \in Nat] == IF n = 0 THEN 0
                        ELSE IF DigitAt(t, r, n)
                        THEN s[n - 1] + Worth(t[n]) * Weights(t, r)[Len(t) - n]
                        ELSE s[n - 1]
    IN  s
Numeral == Sums(text, radix)[Len(text)]

(* The lengths at which the scanners give up fit the sizes they compute    *)
(* in, an octal number with some room: its first character is the '0' that *)
(* makes it octal, and its digits go up to '8'.                            *)
Power(b) == LET p[n \in Nat] == IF n = 0 THEN 1 ELSE b * p[n - 1] IN p

ASSUME FitAssumption ==
    /\ Power(10)[DecLimit] <= LongValues
    /\ Power(16)[HexLimit] <= IntValues
    /\ Power(9)[OctLimit - 2] <= IntValues \div 2

(* An integer that is accepted without a report was read to its end and    *)
(* did not wrap around: the lengths at which the scanners give up are      *)
(* short enough for the widths they compute in.  Only the value of a hex   *)
(* number that fills an int differs, as it is widened with its sign.       *)
AcceptedIsExact ==
    Accepted /\ ~IsFloat =>
        /\ at = Len(text) + 1
        /\ result = Numeral
        /\ Value # Numeral => radix = 16 /\ Numeral >= IntValues \div 2

(* An integer that is accepted without a report has the type its suffixes  *)
(* say, wherever they stand, and its u once; a hex number has its l once.  *)
SuffixesTell ==
    Accepted /\ ~IsFloat =>
        /\ flags = {f \in IntegerFlags : Count(IF f = "unsigned" THEN "u" ELSE "l") > 0}
        /\ Count("u") <= 1
        /\ radix = 16 => Count("l") <= 1

(* Digits with one of the suffixes of the grammar before number()          *)
(* (lex.cc:595-597), a u, an l or both in either order, are not reported   *)
(* as having an illegal one (LE03).  The one exception is an l and then a  *)
(* u after a decimal or octal number, which is never accepted: these       *)
(* scanners note an l as a u (lex.cc:361, 519), against the grammar and    *)
(* flex.l:7, which have the u after the l for every number.                *)
IntegerSuffixes == {<<>>, <<"u">>, <<"l">>, <<"u", "l">>, <<"l", "u">>}
AllDigits(n) == \A i \in (IF radix = 16 THEN 3 ELSE 1)..n : DigitAt(text, radix, i)
SuffixesTaken ==
    pc = "done" =>
        \A n \in 1..Len(text) :
            LET suffix == SubSeq(text, n + 1, Len(text))
            IN  AllDigits(n) /\ suffix \in IntegerSuffixes =>
                    IF radix # 16 /\ suffix = <<"l", "u">> THEN ~Accepted
                    ELSE "LE03" \notin errors

(* The suffixes of the grammar are taken, and say the type of the integer. *)
SuffixesExact == SuffixesTell /\ SuffixesTaken

(* A floating number that is accepted without a report has one '.' and one *)
(* 'e' at most, in this order, no suffix twice, and nothing of an integer: *)
(* what stood before the '.' or 'e' is judged again, and the suffixes the  *)
(* decimal scanner met are forgotten.                                      *)
FloatShape ==
    Accepted /\ IsFloat =>
        /\ \A c \in {".", "e", "f", "l"} : Count(c) <= 1
        /\ Before(".", "e")
        /\ Count("u") = 0 /\ Count("x") = 0
        /\ flags \in {{f} : f \in FloatFlags}
=============================================================================
