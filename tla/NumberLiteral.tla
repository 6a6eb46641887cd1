--------------------------- MODULE NumberLiteral ---------------------------
(***************************************************************************)
(* What the characters of a number mean: Lex::number() and the scanners    *)
(* tryParseDecNumber, tryParseHexNumber, tryParseOctNumber and             *)
(* tryParseFloatNumber (lib/lex/lex.cc), one step per character of the     *)
(* text that getBufferUntilSp() collected.  Upper case letters mean what   *)
(* the lower case ones do and are left out.                                *)
(*                                                                         *)
(* The sizes of the integers and the lengths at which a scanner gives up   *)
(* are parameters, so that small ones can be checked.                      *)
(***************************************************************************)
EXTENDS Integers, Sequences, FiniteSets

CONSTANTS
    Texts,      \* the texts tmpBuffer may hold
    IntValues,  \* how many values an int has, in which hex and octal
                \* numbers grow (2^32)
    LongValues, \* how many a uint64_t has (2^64)
    DecLimit,   \* characters a decimal number may have (16)
    HexLimit,   \* characters a hex number may have after 0x (8)
    OctLimit    \* characters that are too many in an octal number (11)

ASSUME TextsAssumption == Texts \subseteq Seq(STRING) \ {<<>>}
ASSUME SizeAssumption ==
    {IntValues, LongValues} \subseteq Nat \ {0} /\ IntValues <= LongValues
ASSUME LimitAssumption == {DecLimit, HexLimit, OctLimit} \subseteq Nat \ {0, 1}

VARIABLES
    text,       \* tmpBuffer
    radix,      \* the scanner newNumber() chose
    pc,         \* which loop runs: "integer", "float" or "done"
    at,         \* tp: the next character
    times,      \* how many characters of an integer were taken
    result,     \* what they are worth
    seen,       \* the suffixes that reachU and reachL remember
    flags,      \* the masks in numberType
    marks,      \* reachP, reachE, reachF and reachL of a floating number
    errors      \* what was reported

vars == <<text, radix, pc, at, times, result, seen, flags, marks, errors>>

Numerals == <<"0", "1", "2", "3", "4", "5", "6", "7", "8", "9", "a", "b", "c", "d", "e", "f">>
Worth(c) == (CHOOSE v \in 1..16 : Numerals[v] = c) - 1
Decimals == {Numerals[v] : v \in 1..10}

(* The octal switch has a case for '8'.                                    *)
Digits == [r \in {8, 10, 16} |->
              {Numerals[v] : v \in 1..(CASE r = 8 -> 9 [] r = 10 -> 10 [] r = 16 -> 16)}]

(* number(): what the first two characters say.                            *)
RadixOf(t) ==
    IF t[1] = "0" /\ Len(t) > 1 /\ t[2] \in Decimals THEN 8
    ELSE IF t[1] = "0" /\ Len(t) > 1 /\ t[2] = "x" THEN 16
    ELSE 10

Init ==
    /\ text \in Texts
    /\ radix = RadixOf(text)
    /\ pc = "integer"
    /\ at = IF RadixOf(text) = 16 THEN 3 ELSE 1
    /\ times = 0
    /\ result = 0
    /\ seen = {}
    /\ flags = {}
    /\ marks = [m \in {".", "e", "f", "l"} |-> 0]
    /\ errors = {}

-----------------------------------------------------------------------------
(* result is an int in the hex and octal scanners, a uint64_t in the       *)
(* decimal one.                                                            *)
Size == IF radix = 10 THEN LongValues ELSE IntValues

(* The end of a turn of an integer loop: the test of the length comes      *)
(* after the character was taken, whether it was a digit or a suffix.      *)
TooLongNever(n) == FALSE    \* mutant: the length is not looked at
TooLongLate(n) ==           \* mutant: one character more
    CASE radix = 10 -> n > DecLimit + 1
      [] radix = 16 -> n > HexLimit + 1
      [] radix = 8 -> n > OctLimit
TooLong(n) ==
    CASE radix = 10 -> n > DecLimit
      [] radix = 16 -> n > HexLimit
      [] radix = 8 -> n >= OctLimit

Turn(errs) ==
    /\ at' = at + 1
    /\ times' = times + 1
    /\ pc' = IF TooLong(times + 1) THEN "done" ELSE "integer"
    /\ errors' = errors \cup errs
                    \cup (IF TooLong(times + 1) THEN {"LE06"} ELSE {})
    /\ UNCHANGED <<text, radix, marks>>

AtCharacter(loop) == pc = loop /\ at <= Len(text)

IntegerDigit ==
    /\ AtCharacter("integer") /\ text[at] \in Digits[radix]
    /\ result' = (result * radix + Worth(text[at])) % Size
    /\ Turn({})
    /\ UNCHANGED <<seen, flags>>

(* A suffix that was seen is reported.  The decimal and the octal scanner  *)
(* note an 'l' where they note a 'u'.                                      *)
UnsignedSuffix ==
    /\ AtCharacter("integer") /\ text[at] = "u"
    /\ \/ /\ "u" \notin seen
          /\ flags' = flags \cup {"unsigned"}
          /\ seen' = seen \cup {"u"}
          /\ Turn({})
       \/ /\ "u" \in seen
          /\ Turn({"LE03"})
          /\ UNCHANGED <<seen, flags>>
    /\ UNCHANGED result

LongSuffixSlipping ==   \* mutant: the hex scanner notes it as a 'u' as well
    /\ AtCharacter("integer") /\ text[at] = "l"
    /\ \/ /\ "l" \notin seen
          /\ flags' = flags \cup {"long"}
          /\ seen' = seen \cup {"u"}
          /\ Turn({})
       \/ /\ "l" \in seen
          /\ Turn({"LE03"})
          /\ UNCHANGED <<seen, flags>>
    /\ UNCHANGED result
LongSuffix ==
    /\ AtCharacter("integer") /\ text[at] = "l"
    /\ \/ /\ "l" \notin seen
          /\ flags' = flags \cup {"long"}
          /\ seen' = seen \cup (IF radix = 16 THEN {"l"} ELSE {"u"})
          /\ Turn({})
       \/ /\ "l" \in seen
          /\ Turn({"LE03"})
          /\ UNCHANGED <<seen, flags>>
    /\ UNCHANGED result

(* Any other character: the decimal scanner reports it and goes on, the    *)
(* others stop.                                                            *)
Foreign == text[at] \notin Digits[radix] \cup {"u", "l"}

IllegalCharacter ==
    /\ AtCharacter("integer") /\ Foreign
    /\ \/ radix = 10 /\ text[at] \notin {".", "e"} /\ Turn({"LE03"})
       \/ /\ radix # 10
          /\ pc' = "done"
          /\ errors' = errors \cup {IF radix = 16 THEN "LE04" ELSE "LE14"}
          /\ UNCHANGED <<text, radix, at, times, marks>>
    /\ UNCHANGED <<result, seen, flags>>

IntegerEnd ==
    /\ pc = "integer" /\ at > Len(text)
    /\ pc' = "done"
    /\ UNCHANGED <<text, radix, at, times, result, seen, flags, marks, errors>>

-----------------------------------------------------------------------------
(* A '.' or an 'e' in a decimal number starts it anew as a floating one:   *)
(* its type is overwritten.                                                *)
BecomesFloatHere ==     \* mutant: the floating scanner starts where this one is
    /\ AtCharacter("integer") /\ radix = 10 /\ text[at] \in {".", "e"}
    /\ pc' = "float"
    /\ flags' = {"double"}
    /\ UNCHANGED <<text, radix, at, times, result, seen, marks, errors>>
BecomesFloat ==
    /\ AtCharacter("integer") /\ radix = 10 /\ text[at] \in {".", "e"}
    /\ pc' = "float"
    /\ at' = 1
    /\ flags' = {"double"}
    /\ UNCHANGED <<text, radix, times, result, seen, marks, errors>>

FloatError(e) ==
    /\ pc' = "done"
    /\ errors' = errors \cup {e}
    /\ UNCHANGED <<text, radix, at, times, result, seen, flags, marks>>

FloatTurn(new) ==
    /\ marks' = new
    /\ at' = at + 1
    /\ UNCHANGED <<text, radix, pc, times, result, seen, flags, errors>>

(* A second '.', a '.' after an 'e' and a second 'e' are errors; signs are *)
(* taken anywhere; a suffix is replaced by the '\0' that ends the string   *)
(* for strtod(), but the scanner looks at what follows it all the same.    *)
FloatCharacter ==
    LET c == text[at]
        repeated == \/ c = "." /\ (marks["e"] # 0 \/ marks["."] # 0)
                    \/ c = "e" /\ marks["e"] # 0
    IN  /\ AtCharacter("float")
        /\ \/ c \in Decimals \cup {"+", "-"} /\ FloatTurn(marks)
           \/ c \in {".", "e"} /\ ~repeated /\ FloatTurn([marks EXCEPT ![c] = 1])
           \/ c \in {"f", "l"} /\ FloatTurn([marks EXCEPT ![c] = @ + 1])
           \/ repeated /\ FloatError("LE10")
           \/ /\ c \notin Decimals \cup {"+", "-", ".", "e", "f", "l"}
              /\ FloatError("LE10")

(* strtod() may find the number out of range, and so may the test of a     *)
(* single precision one.                                                   *)
FloatEnd ==
    /\ pc = "float" /\ at > Len(text)
    /\ \/ (marks["f"] > 1 \/ marks["l"] > 1) /\ FloatError("LE10")
       \/ marks["f"] <= 1 /\ marks["l"] <= 1 /\ FloatError("LE12")
       \/ /\ marks["f"] <= 1 /\ marks["l"] <= 1
          /\ pc' = "done"
          /\ flags' = CASE marks["l"] = 1 -> {"long double"}
                        [] marks["l"] = 0 /\ marks["f"] = 1 -> {"single"}
                        [] OTHER -> {"double"}
          /\ UNCHANGED <<text, radix, at, times, result, seen, marks, errors>>

Next ==
    \/ IntegerDigit \/ UnsignedSuffix \/ LongSuffix \/ IllegalCharacter \/ IntegerEnd
    \/ BecomesFloat \/ FloatCharacter \/ FloatEnd

Spec == Init /\ [][Next]_vars

(* i_value is a uint64_t: an int is widened with its sign.                 *)
Value ==
    IF radix # 10 /\ result >= IntValues \div 2
    THEN result + LongValues - IntValues
    ELSE result
=============================================================================
