---------------------------- MODULE PrintfNumbers ----------------------------
(***************************************************************************)
(* The numeric conversions of the firmware's printf: from a value and a    *)
(* directive's width, precision and flags to the characters it prints.     *)
(* They build the number backwards in a buffer on the stack, of a fixed    *)
(* size, which out_rev prints from its end.                                *)
(*                                                                         *)
(* The sizes are scaled down and named after the macros and the C types.   *)
(* A double is [n, d], n over d; over 0 it is special: 0 not a number, 1   *)
(* and -1 the infinities.  A product or a quotient of doubles is rounded   *)
(* to DoubleDigits binary digits.                                          *)
(***************************************************************************)
EXTENDS Integers, Sequences, SequencesExt

CONSTANTS
    PRINTF_NTOA_BUFFER_SIZE, PRINTF_FTOA_BUFFER_SIZE,   \* 32
    PRINTF_DEFAULT_FLOAT_PRECISION,     \* 6
    PRINTF_MAX_FLOAT,                   \* 1e9
    MaxPrec,                            \* the last power in pow10: 9
    FixedDigits,                        \* %g is fixed below 10^6
    FixedZeros,                         \* and from 10^-4
    DoubleDigits                        \* 53

ASSUME PrintfAssumption ==
    /\ PRINTF_NTOA_BUFFER_SIZE \in Nat \ {0}
    /\ PRINTF_FTOA_BUFFER_SIZE \in Nat \ {0}
    /\ PRINTF_DEFAULT_FLOAT_PRECISION \in 0 .. MaxPrec
    /\ PRINTF_MAX_FLOAT \in Nat /\ 10^FixedDigits <= PRINTF_MAX_FLOAT
    /\ FixedZeros \in Nat
    /\ DoubleDigits \in Nat \ {0}

Copies(c, n) == [k \in 1 .. (IF n < 0 THEN 0 ELSE n) |-> c]
\* Appending to a buffer of the given size: one character, or up to a length.
Put(buf, c, size) == IF Len(buf) < size THEN Append(buf, c) ELSE buf
FillTo(buf, c, len, size) ==
    buf \o Copies(c, (IF len < size THEN len ELSE size) - Len(buf))
Cut(buf, size) == SubSeq(buf, 1, IF Len(buf) < size THEN Len(buf) ELSE size)

LowerDigits == <<"0", "1", "2", "3", "4", "5", "6", "7", "8", "9", "a", "b", "c",
                 "d", "e", "f">>
UpperDigits == <<"0", "1", "2", "3", "4", "5", "6", "7", "8", "9", "A", "B", "C",
                 "D", "E", "F">>

\* The digits of v, the last one first.
Digits(v, base, digit) ==
    LET rest[n \in Nat] ==
            IF n = 0 THEN <<>> ELSE <<digit[(n % base) + 1]>> \o rest[n \div base]
    IN  IF v = 0 THEN <<digit[1]>> ELSE rest[v]
-----------------------------------------------------------------------------
(* Integers.                                                                *)

out_rev(buf, width, flags) ==
    LET lead == IF flags \cap {"LEFT", "ZEROPAD"} = {}
                THEN Copies(" ", width - Len(buf)) ELSE <<>>
        body == lead \o Reverse(buf)
    IN  body \o (IF "LEFT" \in flags THEN Copies(" ", width - Len(body)) ELSE <<>>)

\* A sign is printed in front of the zeros, which leave a place for it.
SignPlace(width, negative, flags) ==
    IF width > 0 /\ "ZEROPAD" \in flags /\ (negative \/ flags \cap {"PLUS", "SPACE"} # {})
    THEN width - 1 ELSE width

PutSign(buf, negative, flags, size) ==
    CASE negative -> Put(buf, "-", size)
      [] ~ negative /\ "PLUS" \in flags -> Put(buf, "+", size)
      [] ~ negative /\ "PLUS" \notin flags /\ "SPACE" \in flags -> Put(buf, " ", size)
      [] OTHER -> buf

\* The prefix of the alternative form takes the place of zeros, if the number
\* was padded; the code takes a number that is as long as that for padded.
PutPrefix(buf, base, prec, width, flags) ==
    LET size == PRINTF_NTOA_BUFFER_SIZE
        padded == "PRECISION" \notin flags /\ Len(buf) \in {prec, width}
        room == IF padded THEN SubSeq(buf, 1, Len(buf) - (IF base = 16 THEN 2 ELSE 1))
                ELSE buf
        letter == CASE base = 16 -> Put(room, IF "UPPERCASE" \in flags THEN "X" ELSE "x", size)
                    [] base = 2 -> Put(room, "b", size)
                    [] OTHER -> room
    IN  Put(letter, "0", size)

ntoa_format(buf, negative, base, prec, width, flags) ==
    LET size == PRINTF_NTOA_BUFFER_SIZE
        left == "LEFT" \in flags
        w == IF left THEN width ELSE SignPlace(width, negative, flags)
        precise == IF left THEN buf ELSE FillTo(buf, "0", prec, size)
        padded == IF left \/ "ZEROPAD" \notin flags THEN precise
                  ELSE FillTo(precise, "0", w, size)
        marked == IF "HASH" \in flags THEN PutPrefix(padded, base, prec, w, flags)
                  ELSE padded
    IN  out_rev(PutSign(marked, negative, flags, size), w, flags)

\* ntoa_long and ntoa_long_long.
ntoa_long(value, negative, base, prec, width, flags) ==
    LET digit == IF "UPPERCASE" \in flags THEN UpperDigits ELSE LowerDigits
        buf == IF "PRECISION" \in flags /\ value = 0 THEN <<>>
               ELSE Cut(Digits(value, base, digit), PRINTF_NTOA_BUFFER_SIZE)
    IN  ntoa_format(buf, negative, base, prec, width,
                    IF value = 0 THEN flags \ {"HASH"} ELSE flags)
-----------------------------------------------------------------------------
(* Floating point.                                                          *)

\* The double nearest to n over d (below 2^DoubleDigits): the quotient is taken
\* to DoubleDigits digits and rounded, a tie to even.
Double(n, d) ==
    IF n = 0 THEN [n |-> 0, d |-> 1]
    ELSE LET s == CHOOSE k \in 0 .. 28 :
                    /\ n * 2^k >= 2^(DoubleDigits - 1) * d
                    /\ n * 2^k < 2^DoubleDigits * d
             q == (n * 2^s) \div d
             r == 2 * ((n * 2^s) % d)
             up == r > d \/ (r = d /\ q % 2 = 1)
         IN  [n |-> IF up THEN q + 1 ELSE q, d |-> 2^s]

Negate(v) == [n |-> - v.n, d |-> v.d]
Absolute(v) == IF v.n < 0 THEN Negate(v) ELSE v
Special(v) == v.d = 0

special_rev(v, width, flags) ==
    out_rev(CASE v.n = 0 -> <<"n", "a", "n">>
              [] v.n < 0 -> <<"f", "n", "i", "-">>
              [] OTHER -> <<"f", "n", "i">>
                    \o (IF "PLUS" \in flags THEN <<"+">> ELSE <<>>),
            width, flags)

\* whole and tmp, a fraction in units of the last of its digits, below limit:
\* rounded by what is left of it, half; diff is against tmp.d, a half.
\* A half that rounds up in front of a fraction of nines is not carried.
RoundFraction(whole, tmp, frac, diff, limit) ==
    CASE diff > tmp.d /\ frac + 1 >= limit -> [whole |-> whole + 1, frac |-> 0]
      [] diff > tmp.d /\ frac + 1 < limit -> [whole |-> whole, frac |-> frac + 1]
      [] diff = tmp.d /\ (frac = 0 \/ frac % 2 = 1) -> [whole |-> whole, frac |-> frac + 1]
      [] OTHER -> [whole |-> whole, frac |-> frac]
RoundScaled(whole, tmp, limit) ==
    RoundFraction(whole, tmp, tmp.n \div tmp.d, 2 * (tmp.n % tmp.d), limit)

\* value, not negative, to prec digits after the point.
RoundDecimal(value, prec) ==
    RoundScaled(value.n \div value.d, Double((value.n % value.d) * 10^prec, value.d), 10^prec)

\* Without a fraction a half, or more, rounds an odd whole part up.
RoundWhole(value, whole) ==
    IF 2 * (value.n - whole * value.d) >= value.d /\ whole % 2 = 1
    THEN whole + 1 ELSE whole

\* The fraction's digits, filled up to prec.  The counter of those left is
\* unsigned: past zero the buffer is filled.
PutFraction(buf, frac, prec) ==
    LET size == PRINTF_FTOA_BUFFER_SIZE
        fill(digits) ==
            FillTo(Cut(buf \o digits, size), "0",
                   IF Len(digits) <= prec THEN Len(buf) + prec ELSE size, size)
    IN  Put(fill(Digits(frac, 10, LowerDigits)), ".", size)

\* number to places digits, and the zeros behind them.
PutDecimal(zeros, value, number, places) ==
    LET size == PRINTF_FTOA_BUFFER_SIZE
        whole == IF places = 0 THEN RoundWhole(value, number.whole) ELSE number.whole
        fraction == IF places = 0 THEN zeros ELSE PutFraction(zeros, number.frac, places)
    IN  Cut(fraction \o Digits(whole, 10, LowerDigits), size)

PutDigits(value, wanted, places) ==
    PutDecimal(Cut(Copies("0", wanted - MaxPrec), PRINTF_FTOA_BUFFER_SIZE), value,
               RoundDecimal(value, places), places)

\* buf with leading zeros and its sign.
PadFloat(buf, negative, width, flags) ==
    LET size == PRINTF_FTOA_BUFFER_SIZE
        pads == "LEFT" \notin flags /\ "ZEROPAD" \in flags
        w == IF pads THEN SignPlace(width, negative, flags) ELSE width
    IN  out_rev(PutSign(FillTo(buf, "0", IF pads THEN w ELSE 0, size), negative, flags, size),
                w, flags)

\* The fixed notation of a value that is neither special nor too large.
fixed(v, prec, width, flags) ==
    LET wanted == IF "PRECISION" \in flags THEN prec ELSE PRINTF_DEFAULT_FLOAT_PRECISION
    IN  PadFloat(PutDigits(Absolute(v), wanted, IF wanted <= MaxPrec THEN wanted ELSE MaxPrec),
                 v.n < 0, width, flags)

TooLarge(v) == v.n > PRINTF_MAX_FLOAT * v.d \/ - v.n > PRINTF_MAX_FLOAT * v.d

Below(v, e) ==      \* v < 10^e
    IF e >= 0 THEN v.n < v.d * 10^e ELSE v.n * 10^(-e) < v.d

\* The decimal exponent by way of the binary one and a tangent of the
\* logarithm (in millionths), truncated, and one less if that is too much.
\* Zero, whose binary exponent is -1023, has -308.
Estimate(exp2, sig) ==
    176091 + exp2 * 301030 + (289530 * (2 * sig.n - 3 * sig.d)) \div (2 * sig.d)
Truncated(est) == IF est >= 0 THEN est \div 1000000 ELSE -((-est) \div 1000000)
Corrected(v, e) == IF Below(v, e) THEN e - 1 ELSE e
FromBinary(v, exp2) ==
    Corrected(v, Truncated(Estimate(exp2, IF exp2 >= 0 THEN [n |-> v.n, d |-> v.d * 2^exp2]
                                          ELSE [n |-> v.n * 2^(-exp2), d |-> v.d])))
DecimalExponent(v) ==
    LET bound == 16
    IN  IF v.n = 0 THEN -308
        ELSE FromBinary(v, CHOOSE k \in -bound .. bound :
                                IF k >= 0 THEN v.d * 2^k <= v.n /\ v.n < v.d * 2^(k + 1)
                                ELSE v.d <= v.n * 2^(-k) /\ v.n * 2^(-k - 1) < v.d)

\* v, not negative, over a power of ten.
Scaled(v, e) ==
    CASE e = 0 \/ v.n = 0 -> v
      [] e > 0 /\ v.n # 0 -> Double(v.n, v.d * 10^e)
      [] OTHER -> Double(v.n * 10^(-e), v.d)
Signum(v, negative) == IF negative THEN Negate(v) ELSE v

Power(e, minwidth, flags) ==
    <<IF "UPPERCASE" \in flags THEN "E" ELSE "e">>
        \o ntoa_long(IF e < 0 THEN - e ELSE e, e < 0, 10, 0, minwidth - 1, {"ZEROPAD", "PLUS"})
FillLeft(text, width, flags) ==
    text \o (IF "LEFT" \in flags THEN Copies(" ", width - Len(text)) ELSE <<>>)

\* The scientific notation with exponent exp10 of a value that is not special.
\* %g falls back to the fixed one for values near one.
WithExponent(v, exp10, falls, prec, width, flags) ==
    LET adapt == "ADAPT_EXP" \in flags
        minwidth == CASE falls -> 0 [] ~ falls /\ exp10 \in -99 .. 99 -> 4 [] OTHER -> 5
        places == CASE falls -> (IF prec > exp10 THEN prec - exp10 - 1 ELSE 0)
                    [] adapt /\ ~ falls /\ prec > 0 /\ "PRECISION" \in flags -> prec - 1
                    [] OTHER -> prec
        fwidth == IF width <= minwidth \/ ("LEFT" \in flags /\ minwidth > 0) THEN 0
                  ELSE width - minwidth
        float == fixed(Signum(Scaled(Absolute(v), IF falls THEN 0 ELSE exp10), v.n < 0),
                       places, fwidth,
                       (flags \ {"ADAPT_EXP"}) \cup (IF falls THEN {"PRECISION"} ELSE {}))
    IN  IF falls THEN float ELSE FillLeft(float \o Power(exp10, minwidth, flags), width, flags)

Exponential(v, precision, width, flags) ==
    LET value == Absolute(v)
    IN  WithExponent(v, DecimalExponent(value),
                     /\ "ADAPT_EXP" \in flags
                     /\ ~ Below(value, - FixedZeros) /\ Below(value, FixedDigits),
                     IF "PRECISION" \in flags THEN precision ELSE PRINTF_DEFAULT_FLOAT_PRECISION,
                     width, flags)

etoa(v, prec, width, flags) ==
    IF Special(v) THEN special_rev(v, width, flags)
    ELSE Exponential(v, prec, width, flags)

ftoa(v, prec, width, flags) ==
    CASE Special(v) -> special_rev(v, width, flags)
      [] ~ Special(v) /\ TooLarge(v) -> etoa(v, prec, width, flags)
      [] OTHER -> fixed(v, prec, width, flags)
=============================================================================
