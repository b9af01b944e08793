-------------------------- MODULE PrintfReference --------------------------
(***************************************************************************)
(* What a directive should print by the C language, stated from its value, *)
(* width, precision and flags and without what the library makes of them:  *)
(* numerals by position, the nearest decimals, and the layout of sign,     *)
(* prefix, zeros and padding.  Covered names the directives that the       *)
(* library does print so; the others are known deviations.                 *)
(***************************************************************************)
EXTENDS Printf

More(a, b) == IF a > b THEN a ELSE b
Less(a, b) == IF a < b THEN a ELSE b
Size(v) == IF v < 0 THEN - v ELSE v
Zeros(n) == Copies("0", n)

\* A negative width means its size, and to the left; a negative precision is
\* taken as if it were omitted.
FieldWidth(d) == Size(d.width)
Left(d) == d.width < 0 \/ "LEFT" \in d.flags
Given(d) == d.prec # <<>> /\ d.prec[1] >= 0
NegativePrecision(d) == d.prec # <<>> /\ d.prec[1] < 0
PrecisionOr(d, default) == IF Given(d) THEN d.prec[1] ELSE default

\* The numeral of v with the given number of digits.
Numeral(v, base, len, digit) ==
    [k \in 1 .. len |-> digit[((v \div base^(len - k)) % base) + 1]]
NumeralLength(v, base) ==
    IF v = 0 THEN 1
    ELSE CHOOSE n \in 1 .. 31 : base^(n - 1) <= v /\ v < base^n

SignOf(negative, flags) ==
    CASE negative -> <<"-">>
      [] ~ negative /\ "PLUS" \in flags -> <<"+">>
      [] ~ negative /\ "PLUS" \notin flags /\ "SPACE" \in flags -> <<" ">>
      [] OTHER -> <<>>

\* head and body with zeros between them or spaces around them.
Layout(head, body, width, left, zeros) ==
    LET gap == width - Len(head) - Len(body)
    IN  CASE left -> head \o body \o Copies(" ", gap)
          [] ~ left /\ zeros -> head \o Zeros(gap) \o body
          [] OTHER -> Copies(" ", gap) \o head \o body
-----------------------------------------------------------------------------
(* Integers.                                                                *)

SignedSpec(d) == d.spec \in {"d", "i"}
\* The argument as its type has it: char and short are signed with d and i.
IntegerValue(d) ==
    LET bits == IF d.spec = "p" THEN IntBits ELSE Bits(d.length)
        v == d.arg.int % 2^bits
    IN  IF SignedSpec(d) /\ v >= 2^(bits - 1) THEN v - 2^bits ELSE v
Magnitude(d) == Size(IntegerValue(d))
\* Zero has no digit of its own when a precision says how many there are.
DigitCount(d) ==
    IF Magnitude(d) = 0 /\ Given(d) THEN 0 ELSE NumeralLength(Magnitude(d), Base(d.spec))

IntegerReference(d) ==
    LET base == Base(d.spec)
        upper == d.spec \in {"X", "p"}
        v == Magnitude(d)
        alternative == "HASH" \in d.flags
        len == DigitCount(d)
        numeral == Numeral(v, base, len, IF upper THEN UpperDigits ELSE LowerDigits)
        prefix == CASE ~ alternative \/ v = 0 -> <<>>
                    [] alternative /\ v # 0 /\ base = 16 -> <<"0", IF upper THEN "X" ELSE "x">>
                    [] alternative /\ v # 0 /\ base = 2 -> <<"0", "b">>
                    [] OTHER -> <<>>
        \* the alternative octal form begins with a zero
        octal == IF alternative /\ base = 8 /\ (v # 0 \/ len = 0) THEN len + 1 ELSE 0
        sign == IF SignedSpec(d) THEN SignOf(IntegerValue(d) < 0, d.flags) ELSE <<>>
    IN  IF d.spec = "p" THEN Layout(<<>>, numeral, PointerDigits, FALSE, TRUE)
        ELSE Layout(sign \o prefix,
                    Zeros(More(PrecisionOr(d, 0), octal) - len) \o numeral, FieldWidth(d),
                    Left(d), "ZEROPAD" \in d.flags /\ ~ Given(d))

(***************************************************************************)
(* Integers the library prints otherwise: numbers longer than its buffer,  *)
(* a negative char, a precision with LEFT, a prefix in front of a number   *)
(* as long as the width, which loses digits, and the alternative octal     *)
(* form with a precision, which gains a zero or, of 0, has none.           *)
(***************************************************************************)
IntegerCovered(d) ==
    LET len == DigitCount(d)
        prec == PrecisionOr(d, 0)
        padded == IF "ZEROPAD" \in d.flags /\ ~ Left(d) THEN More(len, FieldWidth(d)) ELSE len
    IN  /\ ~ NegativePrecision(d)
        /\ More(More(FieldWidth(d), prec), len) + 2 <= PRINTF_NTOA_BUFFER_SIZE
        /\ d.length = "hh" => IntegerValue(d) >= 0
        /\ Left(d) => prec <= len
        /\ "HASH" \in d.flags =>
                /\ (~ Given(d) /\ padded = FieldWidth(d)) =>
                        Base(d.spec) \in {8, 16}
                            /\ padded - len >= (IF Base(d.spec) = 16 THEN 2 ELSE 1)
                /\ (d.spec = "o" /\ Given(d)) => IF len = 0 THEN prec > 0 ELSE prec <= len
        /\ d.spec = "p" => d.flags = {} /\ d.prec = <<>> /\ len <= PointerDigits
                                /\ d.width \in 0 .. PointerDigits
-----------------------------------------------------------------------------
(* Floating point, from the exact value of the double.  Of two decimals     *)
(* that are as near, C leaves open which is printed.                        *)

\* The numbers of units 10^-prec nearest to v = n/d, not negative.
Nearest(v, prec) ==
    LET floor == (v.n * 10^prec) \div v.d
    IN  {N \in {floor, floor + 1} : 2 * Size(N * v.d - v.n * 10^prec) <= v.d}

\* N units of the last of prec digits.
Decimal(N, prec) ==
    LET len == More(NumeralLength(N, 10), prec + 1)
        digits == Numeral(N, 10, len, LowerDigits)
    IN  IF prec = 0 THEN digits
        ELSE SubSeq(digits, 1, len - prec) \o <<".">> \o SubSeq(digits, len - prec + 1, len)

FloatPrecision(d) == PrecisionOr(d, PRINTF_DEFAULT_FLOAT_PRECISION)
FloatLayout(d, body) ==
    Layout(SignOf(d.arg.real.n < 0, d.flags), body, FieldWidth(d), Left(d),
           "ZEROPAD" \in d.flags)

FixedReference(d) ==
    LET prec == FloatPrecision(d)
    IN  {FloatLayout(d, Decimal(N, prec)) : N \in Nearest(Absolute(d.arg.real), prec)}

\* A half behind a fraction of nines, which the library does not carry.
NinesAndHalf(v, prec) ==
    prec > 0 /\ 2 * ((v.n % v.d) * 10^prec) = (2 * 10^prec - 1) * v.d

(***************************************************************************)
(* The library scales the fraction of a double and rounds from there.  The *)
(* products and quotients of doubles are rounded themselves, which may     *)
(* take them to, or over, the half between two decimals.                   *)
(***************************************************************************)
InDoubles(double, prec) ==
    LET tmp == Double((double.n % double.d) * 10^prec, double.d)
    IN  [n |-> (double.n \div double.d) * 10^prec * tmp.d + tmp.n, d |-> tmp.d]
Side(x, half) == CASE 2 * x.n > half * x.d -> 1 [] 2 * x.n = half * x.d -> 0 [] OTHER -> -1
Crosses(v, double, prec) ==
    LET half == 2 * ((v.n * 10^prec) \div v.d) + 1
    IN  Side([v EXCEPT !.n = @ * 10^prec], half) # Side(InDoubles(double, prec), half)

FloatCovered(d) ==
    /\ ~ NegativePrecision(d) /\ FloatPrecision(d) <= MaxPrec
    /\ More(FieldWidth(d), FloatPrecision(d) + 4) + 1 <= PRINTF_FTOA_BUFFER_SIZE
FixedCovered(d) ==
    /\ FloatCovered(d) /\ ~ TooLarge(d.arg.real)
    /\ ~ NinesAndHalf(Absolute(d.arg.real), FloatPrecision(d))
    /\ ~ Crosses(Absolute(d.arg.real), Absolute(d.arg.real), FloatPrecision(d))

\* v over 10^e, and the exponent that makes it one digit before the point.
Over(v, e) == IF e < 0 THEN [n |-> v.n * 10^(-e), d |-> v.d] ELSE [n |-> v.n, d |-> v.d * 10^e]
ExponentOf(v) ==
    CHOOSE e \in -4 .. 4 : Over(v, e).n >= v.d * 10^More(e, 0)
                            /\ Over(v, e).n < 10 * v.d * 10^More(e, 0)

\* A mantissa rounded to ten is one of the next exponent.
ExponentReference(d) ==
    LET prec == FloatPrecision(d)
        v == Absolute(d.arg.real)
        exp10 == ExponentOf(v)
        power(e) == <<d.spec, IF e < 0 THEN "-" ELSE "+", "0", LowerDigits[Size(e) + 1]>>
        text(N) == IF N = 10^(prec + 1) THEN Decimal(10^prec, prec) \o power(exp10 + 1)
                   ELSE Decimal(N, prec) \o power(exp10)
    IN  {FloatLayout(d, text(N)) : N \in Nearest(Over(v, exp10), prec)}

\* The library does not carry into the exponent, and its estimate of it is
\* one more for values a little below a negative power of ten.
ExponentCovered(d) ==
    LET v == Absolute(d.arg.real)
        mantissa == Over(v, ExponentOf(v))
    IN  /\ FloatCovered(d) /\ v.n # 0
        /\ ~ NinesAndHalf(mantissa, FloatPrecision(d))
        /\ ~ Crosses(mantissa, Double(mantissa.n, mantissa.d), FloatPrecision(d))
        /\ 10^(FloatPrecision(d) + 1) \notin Nearest(mantissa, FloatPrecision(d))
        /\ ExponentOf(v) < -1 => 100 * mantissa.n < 930 * mantissa.d

SpecialReference(d) ==
    LET v == d.arg.real.n
        lower == d.spec \in {"f", "e", "g"}
    IN  Layout(SignOf(v < 0, d.flags),
               IF v = 0 THEN IF lower THEN <<"n", "a", "n">> ELSE <<"N", "A", "N">>
               ELSE IF lower THEN <<"i", "n", "f">> ELSE <<"I", "N", "F">>,
               FieldWidth(d), Left(d), FALSE)
\* The library knows no capitals here, pads with what it finds, and has no
\* blank for a sign.
SpecialCovered(d) ==
    /\ d.spec \in {"f", "e", "g"} /\ d.flags \cap {"ZEROPAD", "SPACE"} = {}
    /\ d.arg.real.n = 0 => "PLUS" \notin d.flags
-----------------------------------------------------------------------------
IntegerSpec == {"d", "i", "u", "x", "X", "o", "b", "p"}
FixedSpec == {"f", "F"}
ExponentSpec == {"e", "E"}
FloatSpec == FixedSpec \cup ExponentSpec \cup {"g", "G"}
Finite(d) == ~ Special(d.arg.real)

Covered(d) ==
    CASE d.spec \in IntegerSpec -> IntegerCovered(d)
      [] d.spec \in FloatSpec /\ ~ Finite(d) -> SpecialCovered(d)
      [] d.spec \in FixedSpec /\ Finite(d) -> FixedCovered(d)
      [] d.spec \in ExponentSpec /\ Finite(d) -> ExponentCovered(d)
      [] d.spec \in {"g", "G"} /\ Finite(d) -> FALSE
      [] d.spec = "s" -> ~ NegativePrecision(d)
      [] OTHER -> TRUE

References(d) ==
    CASE d.spec \in IntegerSpec -> {IntegerReference(d)}
      [] d.spec \in FloatSpec /\ ~ Finite(d) -> {SpecialReference(d)}
      [] d.spec \in FixedSpec /\ Finite(d) -> FixedReference(d)
      [] d.spec \in ExponentSpec /\ Finite(d) -> ExponentReference(d)
      [] d.spec = "c" -> {Layout(<<>>, <<d.arg.char>>, FieldWidth(d), Left(d), FALSE)}
      [] d.spec = "s" ->
            {Layout(<<>>, SubSeq(d.arg.text, 1, Less(Len(d.arg.text),
                                                     PrecisionOr(d, Len(d.arg.text)))),
                    FieldWidth(d), Left(d), FALSE)}
      [] d.spec = "copy" -> {d.arg.text}
      [] OTHER -> {<<d.spec>>}
=============================================================================
