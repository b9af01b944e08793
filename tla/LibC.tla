-------------------------------- MODULE LibC --------------------------------
(***************************************************************************)
(* The number conversions of libc.h.  A string is the sequence in front of *)
(* its terminating null.                                                   *)
(***************************************************************************)
EXTENDS Printf

\* n in base, last digit first; the digit of a negative n is no digit.
NoDigit == "/"
RECURSIVE DigitsFrom(_, _)
DigitsFrom(n, base) ==
    <<IF n < 0 THEN NoDigit ELSE UpperDigits[(n % base) + 1]>>
        \o (IF n < base THEN <<>> ELSE DigitsFrom(n \div base, base))

\* Exchange the first half characters with the last.
Swapped(s, half) ==
    [k \in DOMAIN s |-> IF k <= half \/ k > Len(s) - half THEN s[Len(s) + 1 - k] ELSE s[k]]

\* The loop's bound i>>2 - 1 is i>>1.
SwapEnds(s) == Swapped(s, Len(s) \div 2)

Smallest == - 2^(IntBits - 1)

\* The smallest integer has no negation.
itoa(n, base) ==
    LET magnitude == IF n < 0 /\ n # Smallest THEN - n ELSE n
    IN  SwapEnds(DigitsFrom(magnitude, base) \o (IF n < 0 THEN <<"-">> ELSE <<>>))

utoa(n, base) == SwapEnds(DigitsFrom(n, base))

\* No digits for zero, zeros in front up to d digits.
intToStr(x, d) ==
    LET digits == IF x = 0 THEN <<>> ELSE DigitsFrom(x, 10)
    IN  SwapEnds(digits \o Copies("0", d - Len(digits)))

\* libc.h's ftoa of v = n/d, not negative.
ftoaLibC(v, afterpoint) ==
    LET ipart == v.n \div v.d
        fpart == ((v.n % v.d) * 10^afterpoint) \div v.d
    IN  intToStr(ipart, 0)
            \o (IF afterpoint = 0 THEN <<>> ELSE <<".">> \o intToStr(fpart, afterpoint))
=============================================================================
