------------------------------ MODULE MCFabric ------------------------------
(***************************************************************************)
(* Two masters and two slaves.  Writes and reads use different registers,  *)
(* so that the instance lets one kind of burst be under way at a time.     *)
(***************************************************************************)
EXTENDS Fabric

MCBurst(m, s, n) == [master |-> m, to |-> s, len |-> n]

\* As in the SoC, master 1 (data) writes and master 0 (instructions) does not.
MCWrBursts == {MCBurst(1, 0, 1), MCBurst(1, 1, 0), MCBurst(1, NoSlave, 1)}
ASSUME MCAssumption == OneWriter
MCRdBursts == {MCBurst(0, 0, 1), MCBurst(0, 1, 0),
               MCBurst(1, 0, 0), MCBurst(1, 1, 0), MCBurst(1, NoSlave, 1)}
Idle(asked) == \A m \in Masters : asked[m] = <<>>
MCNext == Next /\ ((Idle(asked_wr) /\ Idle(to_send)) \/ Idle(asked_rd))'
MCSpec == Init /\ [][MCNext]_vars /\ Fairness
=============================================================================
