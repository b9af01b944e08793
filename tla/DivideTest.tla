------------------------------ MODULE DivideTest ------------------------------
(***************************************************************************)
(* mkDivideTest, the test bench of the two units: in its first cycle it    *)
(* asks for acc + 1.0 * -2.0 and 1.0 / -2.0, and when the first sum is     *)
(* back, once more for acc + 1.0 * -2.0.  It always takes answers.         *)
(***************************************************************************)
EXTENDS FPUnits

CONSTANT MaxResets      \* bound: how often the reset is pulled

VARIABLES
    acc,        \* the accumulator
    m_count,    \* counts sums taken and the follow-up
    r_count,    \* counts cycles, up to 255
    quotient,   \* the quotient displayed last, or Empty
    resets      \* how often the reset was pulled
bench == <<acc, m_count, r_count, quotient, resets>>
benchVars == <<madd, div, core, acc, m_count, r_count, quotient, resets>>

PowerOf2(s, e) == [sign |-> s, exp |-> Bias + e, sfd |-> 0]
opd1 == PowerOf2(0, 0)
opd2 == PowerOf2(1, 1)
Sum(a) == [acc |-> TRUE, a |-> a, b |-> opd1, c |-> opd2, rm |-> NearestEven]
Quotient == [b |-> opd1, c |-> opd2, rm |-> NearestEven]

BenchInit ==
    /\ UnitsInit
    /\ acc = Zero(0)
    /\ m_count = 0
    /\ r_count = 0
    /\ quotient = Empty
    /\ resets = 0

(* The conditions of the bench's rules; pipe_response_mul and the two that *)
(* put a sum write the same register or queue, and give way in this order. *)
pipe_response_mul == madd[MaddLast] # Empty
pipe_response_div == div[DivLast] # Empty
\* Mutation: the follow-up is asked again after the second sum.
pipe_response_mul_2_again ==
    m_count \in {1, 3} /\ MaddAccepts(pipe_response_mul) /\ ~ pipe_response_mul

pipe_response_mul_2 ==
    m_count = 1 /\ MaddAccepts(pipe_response_mul) /\ ~ pipe_response_mul
start_1 ==
    /\ r_count = 0 /\ ~ pipe_response_mul_2
    /\ MaddAccepts(pipe_response_mul) /\ DivAccepts(pipe_response_div)

schedule_posedge_CLK ==
    /\ MaddCycle(IF start_1 \/ pipe_response_mul_2 THEN Sum(acc) ELSE Empty,
                 pipe_response_mul)
    /\ DivCycle(IF start_1 THEN Quotient ELSE Empty, pipe_response_div)
    /\ r_count' = IF r_count = 255 THEN r_count ELSE r_count + 1
    /\ m_count' = IF pipe_response_mul \/ pipe_response_mul_2
                  THEN (m_count + 1) % 256 ELSE m_count
    /\ acc' = IF pipe_response_mul THEN madd[MaddLast].val ELSE acc
    /\ quotient' = IF pipe_response_div THEN div[DivLast].val ELSE quotient
    /\ UNCHANGED resets

\* Mutation: the reset leaves the queues of the units.
reset_RST_N_keepsUnits ==
    /\ resets < MaxResets
    /\ resets' = resets + 1
    /\ UNCHANGED units
    /\ acc' = Zero(0)
    /\ m_count' = 0
    /\ r_count' = 0
    /\ UNCHANGED quotient

reset_RST_N ==
    /\ resets < MaxResets
    /\ resets' = resets + 1
    /\ ResetUnits
    /\ acc' = Zero(0)
    /\ m_count' = 0
    /\ r_count' = 0
    /\ UNCHANGED quotient

BenchNext == schedule_posedge_CLK \/ reset_RST_N
BenchSpec == BenchInit /\ [][BenchNext]_benchVars
                /\ WF_benchVars(schedule_posedge_CLK)

(***************************************************************************)
(* The accumulator holds -2 for every sum taken since the reset, the       *)
(* follow-up is asked once, with the first sum in it, and a sum asked      *)
(* before a reset is never added after it.                                 *)
(***************************************************************************)
SumsTaken == CASE m_count = 0 -> 0 [] m_count \in {1, 2} -> 1 [] OTHER -> 2
SumsAsked == (IF r_count > 0 THEN 1 ELSE 0) + (IF m_count >= 2 THEN 1 ELSE 0)
InPipeline == Cardinality({i \in 0 .. MaddLast : madd[i] # Empty})
RunningSum ==
    /\ SumsAsked = SumsTaken + InPipeline
    /\ acc = CASE SumsTaken = 0 -> Zero(0) [] SumsTaken = 1 -> PowerOf2(1, 1)
               [] SumsTaken = 2 -> PowerOf2(1, 2)

\* The stages compute the two sums of the bench.
BenchAdds ==
    LET first == MaddItems(Sum(Zero(0)))
        second == MaddItems(Sum(PowerOf2(1, 1)))
    IN  /\ \A i \in 0 .. MaddLast : first[i] # Empty /\ second[i] # Empty
        /\ first[MaddLast].val = PowerOf2(1, 1)
        /\ second[MaddLast].val = PowerOf2(1, 2)

\* The bench ends with -4 and a half, and nothing left in the units.
BenchCompletes ==
    <>[](/\ m_count = 3 /\ acc = PowerOf2(1, 2) /\ quotient = PowerOf2(1, -1)
         /\ \A i \in 0 .. CoreLast : core[i] = Empty)
=============================================================================
