--------------------------- MODULE MCMemController --------------------------
(***************************************************************************)
(* Two words of two lanes: enough for a miss, a write back of one word     *)
(* while the other is cached, and a write of one lane beside another.  The *)
(* other lane, l1, is never written: it must stay as it was.               *)
(***************************************************************************)
EXTENDS MemController

CONSTANTS l0, l1, v0, v1   \* lanes and values

MCReads == [op : {"RD"}, ok : {TRUE}, word : Words, lane : {l0}] \cup [op : {"RD"}, ok : {FALSE}]
MCWrites ==
    [op : {"WR"}, ok : {TRUE}, word : {0}, lane : {l0}, data : Value]
        \cup [op : {"WR"}, ok : {TRUE}, word : {1}, lane : {l0}, data : {v1}]
        \cup [op : {"WR"}, ok : {FALSE}]
MCToHost == {}

\* Whatever l1 holds at first: here v0.
MCInit == Init /\ \A w \in Words : rf[w][l1] = v0
MCSpec == MCInit /\ [][Next]_vars /\ Fairness
=============================================================================
