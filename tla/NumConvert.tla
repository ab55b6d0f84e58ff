----------------------------- MODULE NumConvert -----------------------------
(***************************************************************************)
(* str_to_int (src/src/num_convert.c): a decimal string to an int, INT_MIN *)
(* for anything else.  It lets strtol's long be cut to an int and then     *)
(* compares the digits of the result with the string.  A character is its  *)
(* distance from '0'.                                                      *)
(***************************************************************************)
EXTENDS Integers, Sequences

CONSTANTS IntBits,   \* 32
          LongBits   \* 64

ASSUME NumAssumption == IntBits \in Nat /\ LongBits \in Nat /\ 1 < IntBits /\ IntBits < LongBits

INT_MAX  == 2 ^ (IntBits - 1) - 1
INT_MIN  == -(2 ^ (IntBits - 1))
LONG_MAX == 2 ^ (LongBits - 1) - 1

\* what the digits mean
Value(s) == LET v[i \in 0 .. Len(s)] == IF i = 0 THEN 0 ELSE 10 * v[i - 1] + s[i] IN v[Len(s)]

\* a long assigned to an int
ToInt(x) == ((x + 2 ^ (IntBits - 1)) % 2 ^ IntBits) - 2 ^ (IntBits - 1)

\* external: strtol on digits stops at the largest long
strtol(s) == IF Value(s) > LONG_MAX THEN LONG_MAX ELSE Value(s)

\* C's division rounds to zero
CDiv(a, b) == IF a >= 0 THEN a \div b ELSE -((-a) \div b)
CRem(a, b) == a - b * CDiv(a, b)

\* faulty variant: only the sign is checked
SignMatches(s, res) == res >= 0

\* res, taken apart from its last digit on, has the digits of s
DigitsMatch(s, res) ==
    LET n == Len(s)
        checkVal[k \in 0 .. n] == IF k = 0 THEN res ELSE CDiv(checkVal[k - 1], 10)
    IN  \A k \in 0 .. n - 1 : CRem(checkVal[k], 10) = s[n - k]

str_to_int(s, length) ==
    LET res == ToInt(strtol(s))
    IN  IF Len(s) = length /\ (\A i \in 1 .. length : s[i] \in 0 .. 9) /\ DigitsMatch(s, res)
        THEN res ELSE INT_MIN
=============================================================================
