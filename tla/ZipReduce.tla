----------------------------- MODULE ZipReduce -----------------------------
(***************************************************************************)
(* What a functional unit (a ZipReduceServer) promises its client: of a    *)
(* job of n operand pairs it delivers, once all pairs have been fed, the   *)
(* sum of their n products, and nothing of an earlier job.                 *)
(*                                                                         *)
(* A floating point value is abstracted to the terms it sums: a function   *)
(* that counts, for each product of each job, how often it was added.  The *)
(* order of the additions, which only rounding tells apart, is left out.   *)
(***************************************************************************)
EXTENDS Naturals

CONSTANTS
    Jobs,     \* jobs the client runs: 1 in the test bench, any number in mkAccel
    Lens      \* lengths of the jobs it asks for

VARIABLES
    job,    \* jobs started so far
    len,    \* length of the current job
    fed,    \* operand pairs of it fed so far
    busy,   \* is a job in progress?
    result  \* what the unit delivered last

vars == <<job, len, fed, busy, result>>

Terms == UNION {(1 .. Jobs) \X (0 .. n - 1) : n \in Lens}
NoTerm == [t \in Terms |-> 0]
Product(j, k) == [t \in Terms |-> IF t = <<j, k>> THEN 1 ELSE 0]
Plus(x, y) == [t \in Terms |-> x[t] + y[t]]

\* The sum of the first n products of job j.
SumOf(j, n) == [t \in Terms |-> IF t[1] = j /\ t[2] < n THEN 1 ELSE 0]
-----------------------------------------------------------------------------
Init ==
    /\ job = 0 /\ len = 0 /\ fed = 0
    /\ busy = FALSE
    /\ result = NoTerm

Start(n) ==
    /\ ~busy
    /\ job < Jobs
    /\ job' = job + 1
    /\ len' = n
    /\ fed' = 0
    /\ busy' = TRUE
    /\ UNCHANGED result

Feed ==
    /\ busy
    /\ fed < len
    /\ fed' = fed + 1
    /\ UNCHANGED <<job, len, busy, result>>

Deliver ==
    /\ busy
    /\ fed = len
    /\ result' = SumOf(job, len)
    /\ busy' = FALSE
    /\ UNCHANGED <<job, len, fed>>

Next == (\E n \in Lens : Start(n)) \/ Feed \/ Deliver

Spec == Init /\ [][Next]_vars
=============================================================================
