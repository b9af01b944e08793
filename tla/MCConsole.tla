----------------------------- MODULE MCConsole -----------------------------
(***************************************************************************)
(* The console with three kinds of scripts: one directive, or conversion,  *)
(* into a buffer, over a grid of flags, widths, precisions and arguments;  *)
(* what the firmware prints, with a reset at any point; and keys typed     *)
(* while a program prints and reads.  A literal of the firmware is one     *)
(* character here.                                                         *)
(***************************************************************************)
EXTENDS Console

Script(program, typed, closed, reset) ==
    [program |-> program, typed |-> typed, closed |-> closed, reset |-> reset]
Snprintf(count, format) == [op |-> "snprintf", count |-> count, format |-> format]
Convert(fn, arg, base) == [op |-> "convert", fn |-> fn, arg |-> arg, base |-> base]
PrintfOf(format) == [op |-> "printf", format |-> format]
PrintOf(text) == [op |-> "print", text |-> text]
PrintlnOf(text) == [op |-> "println", text |-> text]
ReadOf(count) == [op |-> "read", count |-> count]
StoreOf(addr, data) == [op |-> "store", addr |-> addr, data |-> data]
Whole(n) == [int |-> n]
Real(n, d) == [real |-> [n |-> n, d |-> d]]
Char(c) == [char |-> c]
Text(s) == [text |-> s]

IntegerDirectives ==
    {Directive(flags, width, prec, "", spec, Whole(arg)) :
        flags \in SUBSET {"ZEROPAD", "LEFT", "PLUS", "HASH"}, width \in {-5, 0, 5},
        prec \in {<<>>, <<0>>, <<3>>}, spec \in {"d", "u", "X", "o"}, arg \in {-3, 0, 29}}
    \cup {Directive({"SPACE"}, 0, <<>>, length, spec, Whole(arg)) :
            length \in {"hh", "h", "ll", "j"}, spec \in {"i", "x", "b"},
            arg \in {-32, -1, 9, 100}}
FloatDirectives ==
    {Directive(flags, width, prec, "", spec, arg) :
        flags \in {{}, {"ZEROPAD"}, {"LEFT", "PLUS"}}, width \in {0, 9},
        prec \in {<<>>, <<0>>, <<2>>}, spec \in {"f", "E"},
        arg \in {Real(n, d) : n \in {-61, -3, 1, 13, 31, 127}, d \in {1, 8, 32}}
                    \cup {Real(n, 2048) : n \in {37, 1243, 3333}}}
    \cup {Directive({}, 6, <<>>, "", spec, arg) : spec \in {"F", "e", "g", "G"},
            arg \in {Real(0, 0), Real(1, 0), Real(-1, 0), Real(0, 1), Real(5, 2)}}
OtherDirectives ==
    {Directive({}, width, <<>>, "", "c", Char("q")) : width \in {-3, 0, 3}}
    \cup {Directive({}, width, prec, "", "s", Text(<<"q", "r", "t">>)) :
            width \in {-5, 0, 5}, prec \in {<<>>, <<0>>, <<2>>, <<-1>>}}
    \cup {Directive({}, 0, <<>>, "", "p", Whole(60)), Directive({}, 0, <<>>, "", "%", Whole(0))}

FormatGrid == {<<d>> : d \in IntegerDirectives \cup FloatDirectives \cup OtherDirectives}
                \cup {<<Copy(<<"A: ">>), Directive({}, 0, <<2>>, "", "f", Real(13, 2)),
                        Directive({}, 0, <<>>, "", "%", Whole(0))>>}
Conversions ==
    {Convert(fn, Whole(n), base) : fn \in {"itoa", "utoa"}, n \in {0, 7, 16, 31}, base \in {2, 10, 16}}
    \cup {Convert("itoa", Whole(n), base) : n \in {-32, -31, -7}, base \in {2, 10, 16}}
    \cup {Convert("intToStr", Whole(n), d) : n \in {0, 5, 40, 123}, d \in {0, 1, 4}}
    \cup {Convert("ftoa", Real(n, d), prec) : n \in {0, 1, 13, 61}, d \in {1, 4, 16},
            prec \in {0, 1, 3}}
Formatting ==
    {Script(<<Snprintf(count, format)>>, <<>>, FALSE, FALSE) :
        count \in {0, 1, 4, 18}, format \in FormatGrid}
    \cup {Script(<<conversion>>, <<>>, FALSE, FALSE) : conversion \in Conversions}

\* initialize_ram, and the beginning and the end of main.
Boot == <<PrintOf(<<"[BOOT]", "\n">>), PrintOf(<<"Hello", "\n">>),
          PrintfOf(<<Copy(<<"A: ">>), Directive({}, 0, <<2>>, "", "f", Real(13, 2)),
                     Copy(<<"\n">>)>>)>>
Results == <<PrintlnOf(<<"Buffering">>),
             PrintfOf(<<Copy(<<"0x">>), Directive({}, 0, <<>>, "", "X", Whole(31)),
                        Copy(<<" -> ">>), Directive({}, 2, <<>>, "", "f", Real(-8, 1))>>),
             PrintfOf(<<Directive({}, 0, <<>>, "", "c", Char(NUL)), Copy(<<"\n">>)>>)>>
\* Software that sets the divisor first; a store to a register there is not.
Divisor == <<StoreOf(12, {"DLAB"}), StoreOf(0, {"low"}), StoreOf(4, {}), StoreOf(12, {}),
             StoreOf(4, {"ERBFI"}), StoreOf(LSR, {}), StoreOf(33, {}), StoreOf(32, {}),
             PrintOf(<<"o", "k">>)>>
Echo == <<PrintOf(<<"?">>), ReadOf(2), PrintOf(<<"!">>)>>

Printing == {Script(program, <<>>, FALSE, reset) :
                program \in {Boot, Results, Divisor}, reset \in BOOLEAN}
Typing == {Script(Echo, typed, closed, reset) :
             typed \in {<<"a", NUL, "b", "c">>}, closed \in {TRUE}, reset \in BOOLEAN}
            \cup {Script(Echo, <<"a", "b", "c", "d", "e", "f", "g">>, FALSE, TRUE)}

MCScripts == Formatting \cup Printing \cup Typing
=============================================================================
