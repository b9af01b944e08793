------------------------------- MODULE Bursts -------------------------------
(***************************************************************************)
(* What the deburster (AXI4_Deburster) promises: every burst becomes the   *)
(* single accesses of its beats, in order and at the addresses AXI4 names, *)
(* and the master gets one answer per write burst, the first error if any  *)
(* beat had one, and the read data marked last at the last beat.           *)
(*                                                                         *)
(* The slave is a memory that may refuse an access.  A burst is            *)
(* [addr, size, len, type]: len + 1 beats of size bytes.                   *)
(***************************************************************************)
EXTENDS Naturals, Sequences

CONSTANTS WrBursts, RdBursts,   \* bursts the master may issue
          Data                  \* what a beat carries

VARIABLES
    mem,        \* the slave's memory
    wr_beats,   \* beats of write bursts still to be made, [addr, last]
    wr_data,    \* their data, as far as the master has sent it
    wr_resp,    \* first error of the burst being made, or OKAY
    answers,    \* answers to write bursts not yet taken by the master
    rd_beats,   \* beats of read bursts still to be made
    rd_data     \* read data not yet taken

vars == <<mem, wr_beats, wr_data, wr_resp, answers, rd_beats, rd_data>>

\* The address of beat k, as AXI4 defines it for an aligned burst.
BeatAddr(b, k) ==
    LET total == (b.len + 1) * b.size
        lower == b.addr - (b.addr % total)
    IN  CASE b.type = "incr" -> b.addr + k * b.size
          [] b.type = "wrap" -> lower + ((b.addr - lower + k * b.size) % total)

Beats(b) == [k \in 1 .. b.len + 1 |-> [addr |-> BeatAddr(b, k - 1), last |-> k = b.len + 1]]

Addrs == UNION {{BeatAddr(b, k) : k \in 0 .. b.len} : b \in WrBursts \cup RdBursts}
Resp == {"OKAY", "SLVERR"}
First(r, s) == IF r = "OKAY" THEN s ELSE r
-----------------------------------------------------------------------------
Init ==
    /\ mem \in [Addrs -> Data]
    /\ wr_beats = <<>> /\ wr_data = <<>> /\ wr_resp = "OKAY" /\ answers = <<>>
    /\ rd_beats = <<>> /\ rd_data = <<>>

WriteBurst(b) ==
    /\ wr_beats' = wr_beats \o Beats(b)
    /\ UNCHANGED <<mem, wr_data, wr_resp, answers, rd_beats, rd_data>>

WriteData(d) ==
    /\ Len(wr_data) < Len(wr_beats)
    /\ wr_data' = Append(wr_data, d)
    /\ UNCHANGED <<mem, wr_beats, wr_resp, answers, rd_beats, rd_data>>

\* The slave takes a beat and stores it or refuses it.
Store(r) ==
    /\ wr_beats # <<>> /\ wr_data # <<>>
    /\ mem' = IF r = "OKAY" THEN [mem EXCEPT ![Head(wr_beats).addr] = Head(wr_data)] ELSE mem
    /\ wr_beats' = Tail(wr_beats)
    /\ wr_data' = Tail(wr_data)
    /\ IF Head(wr_beats).last
       THEN wr_resp' = "OKAY" /\ answers' = Append(answers, First(wr_resp, r))
       ELSE wr_resp' = First(wr_resp, r) /\ UNCHANGED answers
    /\ UNCHANGED <<rd_beats, rd_data>>

TakeAnswer ==
    /\ answers # <<>>
    /\ answers' = Tail(answers)
    /\ UNCHANGED <<mem, wr_beats, wr_data, wr_resp, rd_beats, rd_data>>

ReadBurst(b) ==
    /\ rd_beats' = rd_beats \o Beats(b)
    /\ UNCHANGED <<mem, wr_beats, wr_data, wr_resp, answers, rd_data>>

Fetch ==
    /\ rd_beats # <<>>
    /\ rd_data' = Append(rd_data, [data |-> mem[Head(rd_beats).addr], last |-> Head(rd_beats).last])
    /\ rd_beats' = Tail(rd_beats)
    /\ UNCHANGED <<mem, wr_beats, wr_data, wr_resp, answers>>

TakeData ==
    /\ rd_data # <<>>
    /\ rd_data' = Tail(rd_data)
    /\ UNCHANGED <<mem, wr_beats, wr_data, wr_resp, answers, rd_beats>>

Next ==
    \/ \E b \in WrBursts : WriteBurst(b)
    \/ \E d \in Data : WriteData(d)
    \/ \E r \in Resp : Store(r)
    \/ TakeAnswer
    \/ \E b \in RdBursts : ReadBurst(b)
    \/ Fetch
    \/ TakeData

Spec == Init /\ [][Next]_vars
=============================================================================
