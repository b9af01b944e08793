---------------------------- MODULE FloatingPoint ----------------------------
(***************************************************************************)
(* The binary floating-point format the units compute in, as the generated *)
(* code of the division test carries it (exponent and significand fields,  *)
(* a significand with a hidden bit, two guard bits and five exceptions),   *)
(* and, independently of that code, what rounding an exact quotient of two *)
(* naturals means.  The chip has 8 and 23 bits; the widths are parameters  *)
(* because TLC's integers have 32 bits.                                    *)
(***************************************************************************)
EXTENDS Integers, FiniteSets

CONSTANTS
    ExpBits,    \* width of the exponent field
    SfdBits     \* width of the significand field

ASSUME FormatAssumption == ExpBits \in Nat \ {0, 1} /\ SfdBits \in Nat \ {0}

MaxField == 2^ExpBits - 1
Bias == 2^(ExpBits - 1) - 1
MaxExp == Bias
MinExp == 1 - Bias
MinSub == MinExp - SfdBits      \* the exponent of the smallest subnormal

Float == [sign : {0, 1}, exp : 0 .. MaxField, sfd : 0 .. 2^SfdBits - 1]
(* The rounding modes, by their encoding. *)
NearestEven == 0
NearestAway == 1
TowardPlus == 2
TowardMinus == 3
TowardZero == 4
RoundMode == NearestEven .. TowardZero

Zero(s) == [sign |-> s, exp |-> 0, sfd |-> 0]
Infinity(s) == [sign |-> s, exp |-> MaxField, sfd |-> 0]
MaxFinite(s) == [sign |-> s, exp |-> MaxField - 1, sfd |-> 2^SfdBits - 1]
QuietBit == 2^(SfdBits - 1)
DefaultNaN == [sign |-> 0, exp |-> MaxField, sfd |-> QuietBit]

IsZero(f) == f.exp = 0 /\ f.sfd = 0
IsInf(f) == f.exp = MaxField /\ f.sfd = 0
IsNaN(f) == f.exp = MaxField /\ f.sfd # 0
IsQuiet(f) == IsNaN(f) /\ f.sfd >= QuietBit
IsSignaling(f) == IsNaN(f) /\ f.sfd < QuietBit
IsFinite(f) == f.exp # MaxField
Quieted(f) == [f EXCEPT !.sfd = QuietBit + (@ % QuietBit)]

\* The exponent a field stands for: subnormals share the smallest one.
TrueExp(e) == IF e = 0 THEN MinExp ELSE e - Bias
Significand(f) == IF f.exp = 0 THEN f.sfd ELSE 2^SfdBits + f.sfd

\* A table of special answers: the first row whose condition holds, or none.
Row(when, val, exc) == [when |-> when, val |-> val, exc |-> exc]
FirstRow(rows) ==
    IF \E i \in DOMAIN rows : rows[i].when
    THEN rows[CHOOSE i \in DOMAIN rows :
                /\ rows[i].when
                /\ \A j \in 1 .. i - 1 : ~ rows[j].when]
    ELSE Row(FALSE, Zero(0), {})

BitLength(s) == CHOOSE n \in 0 .. s : s < 2^n /\ (n = 0 \/ s >= 2^(n - 1))

\* Mutation: what is shifted out is forgotten.
StickyShift_truncates(s, n) == s \div 2^n

\* Shift right, with a 1 in the last place when anything was lost.
StickyShift(s, n) ==
    LET q == s \div 2^n
    IN  IF q * 2^n = s \/ q % 2 = 1 THEN q ELSE q + 1

(***************************************************************************)
(* normalize: a significand of X bits, binary point after the second, for  *)
(* the exponent field exp.  It is shifted until its first bit is the       *)
(* hidden one, unless the exponent would fall below the smallest; what is  *)
(* left of it after SfdBits is two guard bits, the second sticky.          *)
(***************************************************************************)
Shifted(exp, s, X) ==
    LET z == X - BitLength(s)
        room == TrueExp(exp) - MinExp
    IN  CASE z = 0 ->
                [exp |-> IF exp = 0 THEN 2 ELSE exp + 1, s |-> (2 * s) % 2^X]
          [] z = 1 ->
                [exp |-> IF exp = 0 THEN 1 ELSE exp, s |-> (4 * s) % 2^X]
          [] z = X -> [exp |-> 0, s |-> 0]
          [] z \in 2 .. X - 1 /\ z - 1 > room ->
                [exp |-> 0, s |-> (4 * s * 2^room) % 2^X]
          [] z \in 2 .. X - 1 /\ z - 1 <= room ->
                [exp |-> exp - (z - 1), s |-> (4 * s * 2^(z - 1)) % 2^X]

Normalize(sign, exp, s, X) ==
    IF X = BitLength(s) /\ TrueExp(exp) = MaxExp
    THEN [val |-> MaxFinite(sign), guard |-> 3, exc |-> {"overflow", "inexact"}]
    ELSE LET sh == Shifted(exp, s, X)
             below == 2^(X - SfdBits)
             rest == sh.s % below
             g == 2 * (rest \div (below \div 2))
                    + (IF rest % (below \div 2) = 0 THEN 0 ELSE 1)
         IN  [val |-> [sign |-> sign, exp |-> sh.exp, sfd |-> sh.s \div below],
              guard |-> g,
              exc |-> IF sh.exp = 0 /\ g # 0 THEN {"underflow"} ELSE {}]

(***************************************************************************)
(* round: the neighbour away from zero or the value itself, as the mode    *)
(* and the guard bits say.                                                 *)
(***************************************************************************)
NextAway(f) ==
    IF f.sfd = 2^SfdBits - 1
    THEN [f EXCEPT !.exp = @ + 1, !.sfd = 0]
    ELSE [f EXCEPT !.sfd = @ + 1]

GoesAway(rm, f, g) ==
    \/ rm = NearestEven /\ (g = 3 \/ (g = 2 /\ f.sfd % 2 = 1))
    \/ rm = NearestAway /\ g # 0
    \/ rm = TowardPlus /\ g # 0 /\ f.sign = 0
    \/ rm = TowardMinus /\ g # 0 /\ f.sign = 1

Round(rm, f, g) ==
    LET val == IF IsFinite(f) /\ GoesAway(rm, f, g) THEN NextAway(f) ELSE f
    IN  [val |-> val,
         exc |-> (IF IsFinite(f) /\ g # 0 THEN {"inexact"} ELSE {})
                    \cup (IF IsInf(val) THEN {"overflow", "inexact"} ELSE {})]

(***************************************************************************)
(* The meaning of rounding.  Magnitudes are counted in units of 2^MinSub,  *)
(* so that every finite number has a natural one; Top is the magnitude the *)
(* next number after the largest would have.                               *)
(***************************************************************************)
Place(f) == IF f.exp = 0 THEN 0 ELSE f.exp - 1
Magnitude(f) == Significand(f) * 2^Place(f)
Finite(s) == {f \in Float : f.sign = s /\ IsFinite(f)}
Top == 2^(SfdBits + MaxField - 1)
Grid == {Magnitude(f) : f \in Finite(0)} \cup {Top}
OfMagnitude(s, m) ==
    IF m = Top THEN Infinity(s)
    ELSE CHOOSE f \in Finite(s) : Magnitude(f) = m

\* The neighbours of n/d on the grid; from Top on there is only infinity.
Below(n, d) ==
    IF n >= Top * d THEN Magnitude(MaxFinite(0))
    ELSE CHOOSE g \in Grid :
            g * d <= n /\ \A h \in Grid : h * d <= n => h <= g
Above(n, d) ==
    IF n >= Top * d THEN Top
    ELSE CHOOSE g \in Grid :
            g * d >= n /\ \A h \in Grid : h * d >= n => h >= g

\* Mode 1 is called "nearest, ties away"; the units round away from zero.
ChoosesAbove(rm, s, n, d) ==
    LET lo == Below(n, d)
        twice == (lo + Above(n, d)) * d
    IN  \/ rm = NearestEven
            /\ \/ n >= Top * d
               \/ 2 * n > twice
               \/ 2 * n = twice /\ OfMagnitude(s, lo).sfd % 2 = 1
        \/ rm = NearestAway
        \/ rm = TowardPlus /\ s = 0
        \/ rm = TowardMinus /\ s = 1

RoundExact(rm, s, n, d) ==
    LET lo == Below(n, d)
        exact == lo * d = n
        m == IF exact \/ ~ChoosesAbove(rm, s, n, d) THEN lo ELSE Above(n, d)
    IN  [val |-> OfMagnitude(s, m),
         exc |-> (IF exact THEN {} ELSE {"inexact"})
                    \cup (IF ~ exact /\ n < 2^SfdBits * d
                          THEN {"underflow"} ELSE {})
                    \cup (IF m = Top \/ n >= Top * d THEN {"overflow"} ELSE {})]
=============================================================================
