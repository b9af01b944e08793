----------------------------- MODULE FloatDivide -----------------------------
(***************************************************************************)
(* The five stages of the floating-point divider (fpu_div) and the integer *)
(* divider it asks (mkDivider(1): one quotient bit per stage, the partial  *)
(* remainder added to or subtracted from without ever being restored).     *)
(* A request is [b, c, rm]: b / c.                                         *)
(***************************************************************************)
EXTENDS FloatingPoint, TLC

QuotientBits == SfdBits + 5     \* 28 in the chip
LeadingZeros(f) ==
    IF f.exp = 0 THEN SfdBits + 1 - BitLength(f.sfd) ELSE 0
Normalized(f) == Significand(f) * 2^LeadingZeros(f)
NormalExp(f) == TrueExp(f.exp) - LeadingZeros(f)
QuotientSign(r) == (r.b.sign + r.c.sign) % 2
QuotientExp(r) == NormalExp(r.b) - NormalExp(r.c)

\* An answer beyond the format is rounded at once, with its exceptions.
Extreme(rm, f, g, exc) ==
    LET rounded == Round(rm, f, g)
    IN  [val |-> rounded.val, exc |-> exc \cup rounded.exc]

DivSpecial(r) ==
    LET sg == QuotientSign(r)
        large == Extreme(r.rm, MaxFinite(sg), 3, {"overflow", "inexact"})
        small == Extreme(r.rm, Zero(sg), 1, {"underflow", "inexact"})
    IN  << Row(IsSignaling(r.b), Quieted(r.b), {"invalid"}),
           Row(IsSignaling(r.c), Quieted(r.c), {"invalid"}),
           Row(IsQuiet(r.b), r.b, {}),
           Row(IsQuiet(r.c), r.c, {}),
           Row(\/ IsInf(r.b) /\ IsInf(r.c)
               \/ IsZero(r.b) /\ IsZero(r.c), DefaultNaN, {"invalid"}),
           Row(IsInf(r.b), Infinity(sg), {}),
           Row(IsZero(r.c), Infinity(sg), {"divzero"}),
           Row(IsZero(r.b) \/ IsInf(r.c), Zero(sg), {}),
           Row(QuotientExp(r) > MaxExp + 1, large.val, large.exc),
           Row(QuotientExp(r) < MinSub - 2, small.val, small.exc) >>

div_s1(r) ==
    LET row == FirstRow(DivSpecial(r))
        e == QuotientExp(r)
    IN  [special |-> row.when, val |-> row.val, exc |-> row.exc, rm |-> r.rm,
         sign |-> QuotientSign(r),
         exp |-> IF e < MinExp THEN 0 ELSE e + Bias,
         shift |-> IF e < MinExp THEN MinExp - e ELSE 0,
         num |-> Normalized(r.b) * 2^(SfdBits + 8),
         den |-> Normalized(r.c) * 16]

DivCommon(s) ==
    [special |-> s.special, val |-> s.val, exc |-> s.exc, rm |-> s.rm,
     sign |-> s.sign, exp |-> s.exp]

\* Stage 2 sends the significands to the integer divider, and keeps the rest.
div_s2(s) ==
    [special |-> s.special, val |-> s.val, exc |-> s.exc, rm |-> s.rm,
     sign |-> s.sign, exp |-> s.exp, shift |-> s.shift]

(***************************************************************************)
(* The integer divider: start, one work stage for every quotient bit and   *)
(* one more, finish.  The partial remainder p is signed; a quotient bit 1  *)
(* stands for +1 and 0 for -1 until the last stage converts them.          *)
(***************************************************************************)
Aligned(den) == den * 2^(QuotientBits + 1)
start(s) == [p |-> s.num, q |-> 0, den |-> s.den]
work(s) ==
    IF s.p < 0
    THEN [s EXCEPT !.p = 2 * s.p + Aligned(s.den), !.q = 2 * @]
    ELSE [s EXCEPT !.p = 2 * s.p - Aligned(s.den), !.q = 2 * @ + 1]
\* Mutation: the quotient of a negative remainder is not corrected.
finish_uncorrected(s) ==
    LET q == (2 * s.q + 1) % 2^(QuotientBits + 1)
        p == IF s.p < 0 THEN s.p + Aligned(s.den) ELSE s.p
    IN  [q |-> q % 2^QuotientBits, rem |-> p \div 2^(QuotientBits + 1)]

finish(s) ==
    LET q == (2 * s.q + 1) % 2^(QuotientBits + 1)
    IN  IF s.p < 0
        THEN [q |-> (q - 1) % 2^QuotientBits,
              rem |-> (s.p + Aligned(s.den)) \div 2^(QuotientBits + 1)]
        ELSE [q |-> q % 2^QuotientBits, rem |-> s.p \div 2^(QuotientBits + 1)]

\* Stage 3 takes the quotient back; a remainder makes its last bit sticky.
QuotientWidth == SfdBits + 6
div_s3(s, r) ==
    LET q == IF s.shift < QuotientWidth THEN StickyShift(r.q, s.shift)
             ELSE IF r.q = 0 THEN 0 ELSE 1
    IN  DivCommon(s)
            @@ [sfd |-> IF s.special THEN 0
                        ELSE IF r.rem # 0 /\ q % 2 = 0 THEN q + 1 ELSE q]

\* Stage 4: a quotient below 1 still fits the largest exponent, above not.
div_s4(s) ==
    LET late == s.exp = MaxField
        small == s.sfd < 2^(QuotientWidth - 2)
        n == IF late THEN Normalize(s.sign, s.exp - 1, 2 * s.sfd, QuotientWidth)
             ELSE Normalize(s.sign, s.exp, s.sfd, QuotientWidth)
        large == Extreme(s.rm, MaxFinite(s.sign), 3, {"overflow", "inexact"})
        keep == [special |-> TRUE, rm |-> s.rm, guard |-> 0]
    IN  IF s.special THEN keep @@ [val |-> s.val, exc |-> s.exc]
        ELSE IF late /\ ~ small
        THEN keep @@ [val |-> large.val, exc |-> s.exc \cup large.exc]
        ELSE [special |-> FALSE, rm |-> s.rm, guard |-> n.guard,
              val |-> n.val, exc |-> s.exc \cup n.exc]

div_s5(s) ==
    LET r == Round(s.rm, s.val, s.guard)
    IN  IF s.special THEN [val |-> s.val, exc |-> s.exc]
        ELSE [val |-> r.val, exc |-> s.exc \cup r.exc]

(***************************************************************************)
(* What the unit promises, from the operands alone: the exact quotient,    *)
(* rounded once.                                                           *)
(***************************************************************************)
RoundedQuotient(r) ==
    LET x == Place(r.b) - Place(r.c) - MinSub
    IN  IF x >= 0
        THEN RoundExact(r.rm, QuotientSign(r), Significand(r.b) * 2^x,
                        Significand(r.c))
        ELSE RoundExact(r.rm, QuotientSign(r), Significand(r.b),
                        Significand(r.c) * 2^(-x))

DivAnswers(r, ans) ==
    LET nan == IsNaN(r.b) \/ IsNaN(r.c)
        signaling == IsSignaling(r.b) \/ IsSignaling(r.c)
        invalid == \/ IsInf(r.b) /\ IsInf(r.c)
                   \/ IsZero(r.b) /\ IsZero(r.c)
        sg == QuotientSign(r)
    IN  IF nan \/ invalid
        THEN /\ IsQuiet(ans.val)
             /\ ans.exc = IF signaling \/ ~ nan THEN {"invalid"} ELSE {}
        ELSE IF IsInf(r.b) THEN ans = [val |-> Infinity(sg), exc |-> {}]
        ELSE IF IsZero(r.c) THEN ans = [val |-> Infinity(sg), exc |-> {"divzero"}]
        ELSE IF IsInf(r.c) THEN ans = [val |-> Zero(sg), exc |-> {}]
        ELSE ans = RoundedQuotient(r)
=============================================================================
