------------------------------ MODULE MCAccel ------------------------------
(***************************************************************************)
(* Small instances of Accel.  Values are bits, with a Madd that is not     *)
(* commutative over a job, so that a product added twice, lost or out of   *)
(* order changes the sum.                                                  *)
(***************************************************************************)
EXTENDS Accel

\* The pair 1, 0 sets the sum, the pair 1, 1 flips it, others leave it.
MCMadd(c, a, b) == IF a = 1 /\ b = 0 THEN 1 ELSE (c + a) % 2

MCPtr(a, o, s) == [addr |-> a, offset |-> o, stride |-> s]

\* Unit 0 with two products, unit 1 with one; of the live run, lengths 0 and 1
\* on either unit.
MCHeadOne == [unit |-> 0, count |-> 2]
MCHeads == {MCHeadOne, [unit |-> 1, count |-> 1]}
MCHeadsZero == [unit : Units, count : {0, 1}]

\* Two elements of stride 1, and one element twice (stride 0), which the
\* result replaces: a unit's write back changes what the other one reads.
MCShared == [a |-> MCPtr(0, 0, 1), b |-> MCPtr(0, 1, 0), c |-> 1]
\* The same, of elements that no result and no store of software replaces.
MCApart == [a |-> MCPtr(2, 0, 1), b |-> MCPtr(2, 1, 0), c |-> 1]
MCOperands == {MCShared, MCApart}
MCNoOperands == {}

MCStart == [region : {"stat"}, data : {1}]
MCCommands ==
    MCStart \cup [region : {"head"}, data : MCHeads]
            \cup [region : {"ptrs"}, data : {MCShared}]
MCOther ==
    [region : {"outside"}]
        \cup [region : {"busy"}, data : {{}}]
        \cup [region : {"data"}, cell : {0}, data : {1}, full : BOOLEAN]
MCWrites == MCCommands \cup MCOther \cup [region : {"ptrs"}, data : {MCApart}]
MCReads == [region : {"outside"}] \cup [region : {"data"}, cell : {1}]
MCNoReads == {}
MCControlWrites ==
    MCStart
        \cup [region : {"head"}, data : Heads]
        \cup [region : {"busy"}, data : {{}}]
-----------------------------------------------------------------------------
(* What the bus brings, chosen once: commands to both units that share an  *)
(* element, or all kinds of reads and writes while unit 0 works on its own *)
(* elements.                                                               *)
VARIABLE traffic

\* The requests that may come, and what the memory holds at first.
Brought ==
    IF traffic = "commands" THEN MCCommands
    ELSE MCStart \cup MCOther \cup [region : {"head"}, data : {MCHeadOne}]
                 \cup [region : {"ptrs"}, data : {MCApart}]
FirstData ==
    IF traffic = "commands"
    THEN {<<x, y, 0, 0>> : x, y \in Value}
    ELSE {<<0, 0, x, 1>> : x \in Value}

MCInit ==
    /\ traffic \in {"commands", "all"}
    /\ Init
    /\ \E d \in FirstData : \A i \in Cells : rgv_data[i] = d[i + 1]

MCNext ==
    /\ Next
    /\ wr_reqs' \in Seq(Brought)
    /\ traffic = "commands" => rd_reqs' = <<>>
    /\ UNCHANGED traffic
MCSpec == MCInit /\ [][MCNext]_<<vars, traffic>>
\* The live run brings all of its few requests.
MCLiveInit == Init /\ traffic = "all"
MCLive == MCLiveInit /\ [][Next /\ UNCHANGED traffic]_<<vars, traffic>> /\ Fairness
=============================================================================
