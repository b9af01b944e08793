------------------------------- MODULE Printf -------------------------------
(***************************************************************************)
(* The firmware's printf: a format is a sequence of directives, read as    *)
(*   %[flags][width][.precision][length]spec                               *)
(* with the argument each takes, and of text that is copied.  A width or a *)
(* precision may be an argument itself, and then be negative.              *)
(***************************************************************************)
EXTENDS PrintfNumbers

CONSTANTS
    CharBits, ShortBits, IntBits, LongLongBits,     \* 8, 16, 32, 64
    PointerDigits,                                  \* twice the size of a pointer
    NUL                                             \* the null character

ASSUME WidthAssumption ==
    /\ CharBits \in Nat \ {0} /\ ShortBits \in Nat \ {0}
    /\ IntBits \in Nat \ {0} /\ LongLongBits \in Nat \ {0}

\* A directive: width is an integer, prec is <<>> or <<an integer>>, and arg
\* has a field for its type: int, real, char or text.
Copy(chars) == [spec |-> "copy", arg |-> [text |-> chars]]
Directive(flags, width, prec, length, spec, arg) ==
    [flags |-> flags, width |-> width, prec |-> prec, length |-> length,
     spec |-> spec, arg |-> arg]

\* What the parser makes of width, precision and flags.
Width(d) == IF d.width < 0 THEN - d.width ELSE d.width
Precision(d) == IF d.prec = <<>> \/ d.prec[1] < 0 THEN 0 ELSE d.prec[1]
ParsedFlags(d) ==
    d.flags \cup (IF d.width < 0 THEN {"LEFT"} ELSE {})
            \cup (IF d.prec # <<>> THEN {"PRECISION"} ELSE {})

\* Integer arguments have the size their length says; a long is an int, and a
\* plain char is unsigned on this processor.
Bits(length) == CASE length = "hh" -> CharBits [] length = "h" -> ShortBits
                  [] length \in {"ll", "j"} -> LongLongBits [] OTHER -> IntBits
Unsigned(v, bits) == v % 2^bits
Signed(v, bits) ==
    IF Unsigned(v, bits) < 2^(bits - 1) THEN Unsigned(v, bits)
    ELSE Unsigned(v, bits) - 2^bits
SignedArg(d) ==
    IF d.length = "hh" THEN Unsigned(d.arg.int, CharBits) ELSE Signed(d.arg.int, Bits(d.length))

Base(spec) == CASE spec \in {"x", "X", "p"} -> 16 [] spec = "o" -> 8 [] spec = "b" -> 2
                [] OTHER -> 10

\* Mutation: the sign flags are not cleared for unsigned numbers.
IntegerFlags_signed(d) ==
    (ParsedFlags(d) \ ((IF Base(d.spec) = 10 THEN {"HASH"} ELSE {})
                       \cup (IF d.prec # <<>> THEN {"ZEROPAD"} ELSE {})))
        \cup (IF d.spec = "X" THEN {"UPPERCASE"} ELSE {})

IntegerFlags(d) ==
    (ParsedFlags(d) \ ((IF Base(d.spec) = 10 THEN {"HASH"} ELSE {})
                       \cup (IF d.spec \in {"d", "i"} THEN {} ELSE {"PLUS", "SPACE"})
                       \cup (IF d.prec # <<>> THEN {"ZEROPAD"} ELSE {})))
        \cup (IF d.spec = "X" THEN {"UPPERCASE"} ELSE {})

IntegerText(d) ==
    LET signed == d.spec \in {"d", "i"}
        value == IF signed THEN SignedArg(d) ELSE Unsigned(d.arg.int, Bits(d.length))
    IN  ntoa_long(IF value < 0 THEN - value ELSE value, value < 0, Base(d.spec),
                  Precision(d), Width(d), IntegerFlags(d))

FloatText(d) ==
    LET flags == ParsedFlags(d)
                    \cup (IF d.spec \in {"F", "E", "G"} THEN {"UPPERCASE"} ELSE {})
                    \cup (IF d.spec \in {"g", "G"} THEN {"ADAPT_EXP"} ELSE {})
    IN  IF d.spec \in {"f", "F"} THEN ftoa(d.arg.real, Precision(d), Width(d), flags)
        ELSE etoa(d.arg.real, Precision(d), Width(d), flags)

Padded(text, d) ==
    LET spaces == Copies(" ", Width(d) - Len(text))
    IN  IF "LEFT" \in ParsedFlags(d) THEN text \o spaces ELSE spaces \o text

StringText(d) ==
    Padded(IF d.prec # <<>> THEN Cut(d.arg.text, Precision(d)) ELSE d.arg.text, d)

PointerText(d) ==
    ntoa_long(Unsigned(d.arg.int, IntBits), FALSE, 16, Precision(d), PointerDigits,
              ParsedFlags(d) \cup {"ZEROPAD", "UPPERCASE"})

DirectiveText(d) ==
    CASE d.spec = "copy" -> d.arg.text
      [] d.spec \in {"d", "i", "u", "x", "X", "o", "b"} -> IntegerText(d)
      [] d.spec \in {"f", "F", "e", "E", "g", "G"} -> FloatText(d)
      [] d.spec = "c" -> Padded(<<d.arg.char>>, d)
      [] d.spec = "s" -> StringText(d)
      [] d.spec = "p" -> PointerText(d)
      [] OTHER -> <<d.spec>>      \* %% and what is no directive

\* The characters given to the output function, without the final one.
vsnprintf(format) == FlattenSeq([k \in DOMAIN format |-> DirectiveText(format[k])])
-----------------------------------------------------------------------------
(* The output functions.  A buffer is a function from 0; the last character *)
(* given to it is the terminating one, in its last place if it is full.     *)

\* out_buffer, with the k-th of chars at index k - 1.
out_buffer(buffer, chars, maxlen) ==
    [i \in DOMAIN buffer |-> IF i < Len(chars) /\ i < maxlen THEN chars[i + 1] ELSE buffer[i]]

Unlimited == 2^30

\* snprintf and vsnprintf with a count, sprintf without a limit.
vsnprintf_buffer(buffer, count, text) ==
    LET written == out_buffer(buffer, text, count)
        last == IF Len(text) < count THEN Len(text) ELSE count - 1
    IN  [buffer |-> [i \in DOMAIN buffer |-> IF i = last /\ i < count THEN NUL ELSE written[i]],
         ret |-> Len(text)]

\* out_char: printf and vprintf give _putchar every character but the null.
vsnprintf_console(text) == SelectSeq(text, LAMBDA c : c # NUL)
=============================================================================
