--------------------------- MODULE FusedMultiplyAdd ---------------------------
(***************************************************************************)
(* The nine stages of the fused multiply accumulate pipeline (fpu_madd).   *)
(* A request is [acc, a, b, c, rm]: a + b * c when acc, else b * c.  Each  *)
(* stage is a function from what it takes out of the queue before it to    *)
(* what it puts into the queue behind it; `special' marks an answer known  *)
(* from the first stage on, which the others only pass along.              *)
(***************************************************************************)
EXTENDS FloatingPoint, TLC

Addend(r) == IF r.acc THEN r.a ELSE Zero(0)
ProductSign(r) == (r.b.sign + r.c.sign) % 2
InvalidProduct(r) ==
    \/ IsInf(r.b) /\ IsZero(r.c)
    \/ IsZero(r.b) /\ IsInf(r.c)
InfiniteProduct(r) == IsInf(r.b) \/ IsInf(r.c)
ZeroProduct(r) == IsZero(r.b) \/ IsZero(r.c)

\* Answers that need no arithmetic: the first row that applies, if one does.
MaddSpecial(r) ==
    LET A == Addend(r)
        sgBC == ProductSign(r)
    IN  << Row(IsSignaling(A), Quieted(A), {"invalid"}),
           Row(IsSignaling(r.b), Quieted(r.b), {"invalid"}),
           Row(IsSignaling(r.c), Quieted(r.c), {"invalid"}),
           Row(IsQuiet(A), A, {}),
           Row(IsQuiet(r.b), r.b, {}),
           Row(IsQuiet(r.c), r.c, {}),
           Row(\/ InvalidProduct(r)
               \/ IsInf(A) /\ InfiniteProduct(r) /\ A.sign # sgBC,
               DefaultNaN, {"invalid"}),
           Row(IsInf(A), A, {}),
           Row(InfiniteProduct(r), Infinity(sgBC), {}),
           Row(IsZero(A) /\ ZeroProduct(r) /\ A.sign = sgBC, A, {}) >>

madd_s1(r) ==
    LET row == FirstRow(MaddSpecial(r))
    IN  [special |-> row.when, val |-> row.val, exc |-> row.exc, rm |-> r.rm,
         acc |-> r.acc, a |-> Addend(r), signBC |-> ProductSign(r),
         expBC |-> TrueExp(r.b.exp) + TrueExp(r.c.exp),
         sfdB |-> Significand(r.b), sfdC |-> Significand(r.c)]

\* What a stage passes on besides its own result.
Common(s) ==
    [special |-> s.special, val |-> s.val, exc |-> s.exc, rm |-> s.rm,
     acc |-> s.acc]

madd_s2(s) ==
    Common(s) @@ [a |-> s.a, signBC |-> s.signBC, expBC |-> s.expBC,
                  prod |-> s.sfdB * s.sfdC]
madd_s3(s) == s

(***************************************************************************)
(* Stage 4 brings the product into the format, with two guard bits: too    *)
(* large becomes the largest number, too small becomes zero and a guard.   *)
(***************************************************************************)
TooLarge(s) == s.expBC > MaxExp
TooSmall(s) == s.expBC < MinSub - 2
ProductWidth == 2 * SfdBits + 2
PlacedProduct(s) ==
    LET sh == MinExp - s.expBC
    IN  IF sh > 0
        THEN Normalize(s.signBC, 0, StickyShift(s.prod, sh), ProductWidth)
        ELSE Normalize(s.signBC, s.expBC + Bias, s.prod, ProductWidth)

madd_s4(s) ==
    LET bc == IF s.special
              THEN [val |-> Zero(0), guard |-> 0, exc |-> {}]
              ELSE IF TooLarge(s)
              THEN [val |-> MaxFinite(s.signBC), guard |-> 3,
                    exc |-> {"overflow", "inexact"}]
              ELSE IF TooSmall(s)
              THEN [val |-> Zero(s.signBC),
                    guard |-> IF s.prod = 0 THEN 0 ELSE 1,
                    exc |-> IF s.prod = 0 THEN {} ELSE {"underflow", "inexact"}]
              ELSE PlacedProduct(s)
    IN  [Common(s) EXCEPT !.exc = @ \cup bc.exc]
            @@ [a |-> s.a, bc |-> bc.val, guard |-> bc.guard]

(* Stages 5 to 7 align the smaller with the larger and add and subtract. *)
SumWidth == SfdBits + 5
madd_s5(s) ==
    LET expA == TrueExp(s.a.exp)
        expBC == TrueExp(s.bc.exp)
        sfdA == Significand(s.a) * 8
        sfdBC == Significand(s.bc) * 8 + s.guard * 2
        bcLarger == ~ s.acc \/ expBC > expA \/ (expBC = expA /\ sfdBC > sfdA)
    IN  Common(s)
            @@ [sub |-> s.a.sign # s.bc.sign,
                sign |-> IF bcLarger THEN s.bc.sign ELSE s.a.sign,
                exp |-> IF bcLarger THEN expBC ELSE expA,
                shift |-> IF bcLarger THEN expBC - expA ELSE expA - expBC,
                x |-> IF bcLarger THEN sfdBC ELSE sfdA,
                y |-> IF bcLarger THEN sfdA ELSE sfdBC]

madd_s6(s) ==
    IF s.special THEN s
    ELSE IF s.shift \in 0 .. SumWidth - 1
    THEN [s EXCEPT !.y = StickyShift(@, s.shift)]
    ELSE [s EXCEPT !.y = IF @ = 0 THEN 0 ELSE 1]

madd_s7(s) ==
    Common(s) @@ [sub |-> s.sub, sign |-> s.sign, exp |-> s.exp,
                  sum |-> (s.x + s.y) % 2^SumWidth,
                  diff |-> (s.x - s.y) % 2^SumWidth]

madd_s8(s) ==
    LET n == IF s.special
             THEN [val |-> Zero(0), guard |-> 0, exc |-> {}]
             ELSE Normalize(s.sign, s.exp + Bias,
                            IF s.sub THEN s.diff ELSE s.sum, SumWidth)
    IN  [Common(s) EXCEPT !.exc = @ \cup n.exc]
            @@ [sub |-> s.sub, out |-> n.val, guard |-> n.guard]

\* An exact zero out of terms of both signs is positive, but in mode 3.
ZeroSign(s, r, exc) ==
    IF s.acc /\ IsZero(r) /\ "inexact" \notin exc /\ s.sub
    THEN Zero(IF s.rm = TowardMinus THEN 1 ELSE 0)
    ELSE r

madd_s9(s) ==
    LET r == Round(s.rm, s.out, s.guard)
        exc == s.exc \cup r.exc
    IN  IF s.special THEN [val |-> s.val, exc |-> s.exc]
        ELSE [val |-> ZeroSign(s, r.val, exc), exc |-> exc]

MaddStage(i, s) ==
    CASE i = 1 -> madd_s1(s) [] i = 2 -> madd_s2(s) [] i = 3 -> madd_s3(s)
      [] i = 4 -> madd_s4(s) [] i = 5 -> madd_s5(s) [] i = 6 -> madd_s6(s)
      [] i = 7 -> madd_s7(s) [] i = 8 -> madd_s8(s) [] i = 9 -> madd_s9(s)

(***************************************************************************)
(* What the unit promises, from the operands alone: the exact sum, rounded *)
(* once.  The product is carried with SfdBits + 2 fraction digits, fewer   *)
(* below the smallest normal number, so the promise is void for a request  *)
(* whose sum needs the digits beyond them: it may then be the sum of       *)
(* either neighbour of the product in that wider format, rounded once.     *)
(* Magnitudes here are in units of 2^(2 * MinSub), in which every product  *)
(* is a natural number; One of them is the smallest subnormal.             *)
(***************************************************************************)
One == 2^(-MinSub)
\* Products from Top on are alike: larger ones would leave TLC's integers.
ExactProduct(b, c) ==
    LET place == Place(b) + Place(c)
        p == Significand(b) * Significand(c) * 2^place
    IN  IF place >= SfdBits + MaxField - 1 - MinSub \/ p >= Top * One
        THEN Top * One
        ELSE p

\* The distance of neighbours in the wider format, at and above p.
WideUnit(p) ==
    LET digits == BitLength(p \div (One \div 4))
    IN  (One \div 4) * (IF digits <= SfdBits + 3 THEN 1
                        ELSE 2^(digits - (SfdBits + 3)))

Signed(s, m) == IF s = 0 THEN m ELSE -m
SignedSum(r, p) ==
    Signed(Addend(r).sign, Magnitude(Addend(r)) * One) + Signed(ProductSign(r), p)

(***************************************************************************)
(* A product beyond the range, and a term that brings the sum back.  Or a  *)
(* product of too many digits, and either a term whose last digit is below *)
(* theirs or a sum that has lost the product's leading digit.              *)
(***************************************************************************)
Disturbed(r) ==
    LET p == ExactProduct(r.b, r.c)
        sum == SignedSum(r, p)
    IN  IF p = Top * One THEN r.acc /\ Addend(r).sign # ProductSign(r)
        ELSE /\ p % WideUnit(p) # 0
             /\ \/ (Magnitude(Addend(r)) * One) % (2 * WideUnit(p)) # 0
                \/ 2 * (IF sum < 0 THEN -sum ELSE sum) < 2^BitLength(p)

\* The products a request's answer may be the sum of.
ProductsOf(r) ==
    LET p == ExactProduct(r.b, r.c)
        u == WideUnit(p)
    IN  IF ~ Disturbed(r) THEN {p}
        ELSE IF p = Top * One THEN {p - WideUnit(p - 1)}
        ELSE {p - (p % u), p - (p % u) + u}

NaNOperand(r) == IsNaN(Addend(r)) \/ IsNaN(r.b) \/ IsNaN(r.c)
Invalid(r) ==
    \/ InvalidProduct(r)
    \/ IsInf(Addend(r)) /\ InfiniteProduct(r) /\ Addend(r).sign # ProductSign(r)

RoundedSum(r, p) ==
    LET sum == SignedSum(r, p)
        zero == IF ~ r.acc \/ Addend(r).sign = ProductSign(r) THEN ProductSign(r)
                ELSE IF r.rm = TowardMinus THEN 1 ELSE 0
    IN  IF sum = 0 THEN [val |-> Zero(zero), exc |-> {}]
        ELSE RoundExact(r.rm, IF sum > 0 THEN 0 ELSE 1,
                        IF sum > 0 THEN sum ELSE -sum, One)

\* The product by itself overflows or underflows, whatever is added to it.
ProductExceptions(r) ==
    LET p == ExactProduct(r.b, r.c)
    IN  IF p = Top * One THEN {"overflow", "inexact"}
        ELSE IF p < 2^SfdBits * One /\ p % One # 0 THEN {"underflow"} ELSE {}

MaddAnswers(r, ans) ==
    LET A == Addend(r)
        signaling == IsSignaling(A) \/ IsSignaling(r.b) \/ IsSignaling(r.c)
    IN  IF NaNOperand(r) \/ Invalid(r)
        THEN /\ IsQuiet(ans.val)
             /\ ans.exc = IF signaling \/ ~ NaNOperand(r)
                          THEN {"invalid"} ELSE {}
        ELSE IF IsInf(A) \/ InfiniteProduct(r)
        THEN ans = [val |-> Infinity(IF IsInf(A) THEN A.sign ELSE ProductSign(r)),
                    exc |-> {}]
        ELSE \E p \in ProductsOf(r) :
                ans = [RoundedSum(r, p) EXCEPT !.exc = @ \cup ProductExceptions(r)]

(***************************************************************************)
(* What the thesis promises: of finite operands, the sum rounded once.     *)
(***************************************************************************)
RoundedOnce(r, ans) ==
    IsFinite(Addend(r)) /\ IsFinite(r.b) /\ IsFinite(r.c) =>
        ans.val = RoundedSum(r, ExactProduct(r.b, r.c)).val
=============================================================================
