---------------------------- MODULE MCDeburster ----------------------------
(***************************************************************************)
(* Bursts over four bytes: one that wraps in its first beat, one of two    *)
(* words that increments, and single accesses.  Writes and reads use       *)
(* different registers and meet in the slave's memory only, so that the    *)
(* instance lets one kind of burst be under way at a time.                 *)
(***************************************************************************)
EXTENDS Deburster

MCBurst(a, s, l, t) == [addr |-> a, size |-> s, len |-> l, type |-> t]

MCWrBursts == {MCBurst(3, 1, 1, "wrap"), MCBurst(0, 2, 1, "incr"), MCBurst(1, 1, 0, "incr")}
MCRdBursts == {MCBurst(2, 1, 3, "wrap"), MCBurst(0, 1, 0, "incr")}

MCInit == Init /\ mem = [a \in Addrs |-> 0]
Writing == wr_addr # <<>> \/ f_w_awlen # <<>> \/ wr_resp # <<>>
Reading == rd_addr # <<>> \/ f_r_arlen # <<>> \/ rd_data # <<>>
MCNext == Next /\ ~(Writing' /\ Reading')
MCSpec == MCInit /\ [][MCNext]_vars /\ Fairness
=============================================================================
