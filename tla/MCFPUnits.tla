------------------------------ MODULE MCFPUnits ------------------------------
(***************************************************************************)
(* The units with one client or the other: requests one at a time over a   *)
(* grid of operands, short programs over a few operands that meet in the   *)
(* pipelines, or the test bench.  Format of 4 and 2 bits.                  *)
(***************************************************************************)
EXTENDS FPServer, DivideTest

Num(s, e, f) == [sign |-> s, exp |-> e, sfd |-> f]

\* Zero, subnormal, the smallest normal, around one, large, special.
Plus == {Num(0, 0, 0), Num(0, 0, 1), Num(0, 0, 3), Num(0, 1, 0), Num(0, 6, 3),
         Num(0, 7, 1), Num(0, 10, 2), Num(0, 14, 3)}
Minus == {Num(1, 0, 0), Num(1, 1, 1), Num(1, 4, 3), Num(1, 7, 3), Num(1, 13, 0)}
Special == {Infinity(0), Infinity(1), DefaultNaN, Num(1, MaxField, 1)}
Grid2 == Plus \cup Minus \cup Special
Few == {Num(0, 1, 1), Num(1, 7, 3), Num(0, 12, 2), Infinity(0), Num(0, 4, 0)}

MaddProgram(a, b, c, rm, valid) ==
    << [unit |-> "madd",
        req |-> [acc |-> valid, a |-> a, b |-> b, c |-> c, rm |-> rm]] >>
DivProgram(b, c, rm) == << [unit |-> "div", req |-> [b |-> b, c |-> c, rm |-> rm]] >>

Singles ==
    {MaddProgram(a, b, c, rm, TRUE) :
            a \in Grid2, b \in Plus \cup Special, c \in Few, rm \in RoundMode}
        \cup {MaddProgram(Zero(0), b, c, rm, FALSE) :
                b \in Plus, c \in Grid2, rm \in RoundMode}
        \cup {DivProgram(b, c, rm) : b, c \in Grid2, rm \in RoundMode}

\* An answer known at once between two that are not, sums among quotients.
Pool == {DivProgram(Num(0, 7, 1), Num(0, 4, 3), 0),
         DivProgram(Num(0, 7, 1), Num(0, 0, 0), 0),
         DivProgram(Num(1, 5, 2), Num(0, 9, 1), 0),
         MaddProgram(Num(0, 7, 1), Num(0, 8, 0), Num(1, 6, 3), 0, TRUE),
         MaddProgram(Num(0, 4, 0), Num(0, 7, 3), Num(0, 7, 3), 0, TRUE)}
Mixed == {p \o q \o r : p, q, r \in Pool}

MCPrograms == Singles \cup Mixed

Idle == todo = <<>> /\ asked = [u \in Units |-> <<>>]
           /\ answers = [u \in Units |-> <<>>]

MCInit ==
    \/ ServerInit /\ acc = Zero(0) /\ m_count = 0 /\ r_count = 0
        /\ quotient = Empty /\ resets = 0
    \/ BenchInit /\ Idle

\* Which of the two clients runs.
Serves == asked # [u \in Units |-> <<>>] \/ todo # <<>>
MCNext ==
    \/ Serves /\ ServerNext /\ UNCHANGED bench
    \/ ~ Serves /\ BenchNext /\ UNCHANGED client

\* What the proofs assume of the stages.
ASSUME MCAssumption == Callable /\ Something /\ BenchAdds

vars == <<units, client, bench>>
MCSpec ==
    /\ MCInit /\ [][MCNext]_vars
    /\ WF_vars(Serves /\ ServerCycle(TRUE, TRUE) /\ UNCHANGED bench)
    /\ WF_vars(~ Serves /\ schedule_posedge_CLK /\ UNCHANGED client)

\* When the bench is the client, its accumulator and its counter agree with
\* what it asked and what is still in the pipeline, across resets.
BenchSums == ~ Serves => RunningSum

\* When the bench is the client, it ends with both sums and the quotient.
BenchEnds == (~ Serves) => BenchCompletes
=============================================================================
