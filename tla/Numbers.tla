------------------------------ MODULE Numbers ------------------------------
(***************************************************************************)
(* The conversions of text to integers, safe_ato* of src/src/misc.c, with  *)
(* the widths of their types.  A text is the integer that its digits spell,*)
(* however large, or NoNumber when it does not begin with one; what comes  *)
(* after the digits is ignored.  long and long long are equally wide.      *)
(***************************************************************************)
EXTENDS Integers

CONSTANTS
    IntRange,   \* 2^32 in the code
    LongRange,  \* 2^64 in the code
    NoNumber    \* a text without a number, and the result of a conversion that fails

ASSUME RangesAssumption ==
    /\ IntRange \in Nat \ {0} /\ IntRange % 2 = 0
    /\ LongRange \in Nat /\ LongRange % 2 = 0 /\ LongRange > IntRange
    /\ NoNumber \notin Int

IntMax == IntRange \div 2 - 1
LongMax == LongRange \div 2 - 1

\* A long that is converted to int32_t
ToInt(n) == ((n + IntMax + 1) % IntRange) - (IntMax + 1)

\* strtol and strtoll take these, and strtoul and strtoull those, which may have a sign:
\* then the result is the negative of the number, modulo the range.  All else is ERANGE.
SignedTexts == -LongMax - 1 .. LongMax
UnsignedTexts == 1 - LongRange .. LongRange - 1

\* Only the upper end of int32_t is compared with.
safe_atoi32(text) ==
    IF text \in SignedTexts /\ text <= IntMax THEN ToInt(text) ELSE NoNumber

safe_atou32(text) ==
    IF text \in UnsignedTexts /\ text % LongRange < IntRange
      THEN text % LongRange ELSE NoNumber

safe_atoi64(text) == IF text \in SignedTexts THEN text ELSE NoNumber

safe_atou64(text) == IF text \in UnsignedTexts THEN text % LongRange ELSE NoNumber

\* With base 16: the same, of the number that the hexadecimal digits spell
safe_hextou64(text) == safe_atou64(text)
=============================================================================
