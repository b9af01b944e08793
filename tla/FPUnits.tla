------------------------------- MODULE FPUnits -------------------------------
(***************************************************************************)
(* The queues of the two floating-point units and the rules that move      *)
(* items through them, one clock cycle at a time.  Every queue holds one   *)
(* item and the schedule runs the rules from the last stage to the first,  *)
(* so that a full pipeline moves on when its last item is taken.           *)
(***************************************************************************)
EXTENDS FusedMultiplyAdd, FloatDivide

CONSTANT Empty      \* what an empty queue holds

VARIABLES
    madd,   \* queues 0 (fOperand_S0) to 9 (fResult_S9); 2 and 3 with fProd
    div,    \* queues 0 (fOperands_S0) to 5 (fResult_S5)
    core    \* fRequest, fFirst, fNext_0 .. fNext_28, fResponse
units == <<madd, div, core>>

MaddLast == 9
DivLast == 5
CoreLast == QuotientBits + 3

\* Whether the rule between queues i - 1 and i fires, if the last is taken.
Moves(p, last, i, taken) ==
    /\ p[i - 1] # Empty
    /\ \/ \E j \in i .. last : p[j] = Empty
       \/ taken
Accepts(p, last, taken) == p[0] = Empty \/ Moves(p, last, 1, taken)

\* The queues after a cycle: fired[i] puts made[i] into queue i.
After(p, last, fired, made, taken, in) ==
    [i \in 0 .. last |->
        IF i = 0 /\ in # Empty THEN in
        ELSE IF i \in fired THEN made[i]
        ELSE IF i + 1 \in fired \/ (i = last /\ taken) THEN Empty ELSE p[i]]

UnitsInit ==
    /\ madd = [i \in 0 .. MaddLast |-> Empty]
    /\ div = [i \in 0 .. DivLast |-> Empty]
    /\ core = [i \in 0 .. CoreLast |-> Empty]

MaddAccepts(taken) == Accepts(madd, MaddLast, taken)
MaddCycle(in, taken) ==
    LET fired == {i \in 1 .. MaddLast : Moves(madd, MaddLast, i, taken)}
        made == [i \in fired |-> MaddStage(i, madd[i - 1])]
    IN  madd' = After(madd, MaddLast, fired, made, taken, in)

(***************************************************************************)
(* The divider.  Stage 2 also needs room in the integer divider and stage  *)
(* 3 its response, but neither for an item whose answer is known.          *)
(***************************************************************************)
\* Mutation: stage 3 waits for a response also with an answer known.
DivFires_waits(i, taken) ==
    LET s5 == div[4] # Empty /\ (div[5] = Empty \/ taken)
        s4 == div[3] # Empty /\ (div[4] = Empty \/ s5)
        s3 == /\ div[2] # Empty /\ (div[3] = Empty \/ s4)
              /\ core[CoreLast] # Empty
        s2 == /\ div[1] # Empty /\ (div[2] = Empty \/ s3)
              /\ \/ div[1].special
                 \/ Accepts(core, CoreLast, s3 /\ ~ div[2].special)
        s1 == div[0] # Empty /\ (div[1] = Empty \/ s2)
    IN  <<s1, s2, s3, s4, s5>>[i]

DivFires(i, taken) ==
    LET s5 == div[4] # Empty /\ (div[5] = Empty \/ taken)
        s4 == div[3] # Empty /\ (div[4] = Empty \/ s5)
        s3 == /\ div[2] # Empty /\ (div[3] = Empty \/ s4)
              /\ div[2].special \/ core[CoreLast] # Empty
        s2 == /\ div[1] # Empty /\ (div[2] = Empty \/ s3)
              /\ \/ div[1].special
                 \/ Accepts(core, CoreLast, s3 /\ ~ div[2].special)
        s1 == div[0] # Empty /\ (div[1] = Empty \/ s2)
    IN  <<s1, s2, s3, s4, s5>>[i]

DivAccepts(taken) == div[0] = Empty \/ DivFires(1, taken)

DivMade(i) ==
    CASE i = 1 -> div_s1(div[0]) [] i = 2 -> div_s2(div[1])
      [] i = 3 -> div_s3(div[2], IF div[2].special THEN [q |-> 0, rem |-> 0]
                                 ELSE core[CoreLast])
      [] i = 4 -> div_s4(div[3]) [] i = 5 -> div_s5(div[4])

CoreStage(i, s) ==
    IF i = 1 THEN start(s) ELSE IF i = CoreLast THEN finish(s) ELSE work(s)

CoreCycle(in, taken) ==
    LET fired == {i \in 1 .. CoreLast : Moves(core, CoreLast, i, taken)}
        made == [i \in fired |-> CoreStage(i, core[i - 1])]
    IN  core' = After(core, CoreLast, fired, made, taken, in)

\* What the integer divider is asked.
Operands(s) == [num |-> s.num, den |-> s.den]

\* fired is bound by a quantifier, so that TLC evaluates it once.
DivCycle(in, taken) ==
    \E fired \in {{i \in 1 .. DivLast : DivFires(i, taken)}} :
    \E answered \in {3 \in fired /\ ~ div[2].special} :
        /\ div' = After(div, DivLast, fired, [i \in fired |-> DivMade(i)], taken, in)
        /\ CoreCycle(IF 2 \in fired /\ ~ div[1].special
                     THEN Operands(div[1]) ELSE Empty,
                     answered)

ResetUnits ==
    /\ madd' = [i \in 0 .. MaddLast |-> Empty]
    /\ div' = [i \in 0 .. DivLast |-> Empty]
    /\ core' = [i \in 0 .. CoreLast |-> Empty]
-----------------------------------------------------------------------------
(* What the stages make of a request, one after another: what each queue   *)
(* holds of it, were it alone.                                             *)

MaddItems(r) ==
    LET item[i \in 0 .. MaddLast] == IF i = 0 THEN r ELSE MaddStage(i, item[i - 1])
    IN  item

CoreItems(s) ==
    LET item[i \in 0 .. CoreLast] == IF i = 0 THEN s ELSE CoreStage(i, item[i - 1])
    IN  item

Answered(s) == IF s.special THEN [q |-> 0, rem |-> 0] ELSE CoreItems(Operands(s))[CoreLast]

DivItems(r) ==
    LET s1 == div_s1(r)
        s2 == div_s2(s1)
        s3 == div_s3(s2, Answered(s1))
        s4 == div_s4(s3)
    IN  [i \in 0 .. DivLast |-> <<r, s1, s2, s3, s4, div_s5(s4)>>[i + 1]]
=============================================================================
