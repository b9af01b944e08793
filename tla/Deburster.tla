----------------------------- MODULE Deburster -----------------------------
(***************************************************************************)
(* The AXI4 deburster that stands between the fabric and the memory        *)
(* controllers.  It cuts bursts into single accesses and joins the         *)
(* responses.  Requests and responses are counted on their own: f_w_awlen  *)
(* and f_r_arlen carry the length of each burst from the request rules to  *)
(* the response rules, which may lag several bursts behind.                *)
(*                                                                         *)
(* The fabric sends the data of a burst after its address.  The slave      *)
(* takes address and data together, as the memory controller does, and may *)
(* refuse an access; its responses wait in the deburster's transactor.     *)
(***************************************************************************)
EXTENDS Naturals, SequencesExt

CONSTANTS
    WrBursts, RdBursts,   \* bursts the fabric may bring, [addr, size, len, type]
    Data,                 \* what a beat carries
    MaxLen,               \* largest awlen or arlen: one less than the beats
    BusDepth,             \* capacity of the transactors' FIFOs (2)
    LenDepth              \* capacity of f_w_awlen and f_r_arlen (4)

\* Bursts are aligned, and wrapping ones have a power of two of beats; a
\* burst of type "fixed" would be treated as an incrementing one.
ASSUME DebursterAssumption ==
    /\ MaxLen \in Nat
    /\ \A b \in WrBursts \cup RdBursts :
          /\ b.addr \in Nat /\ b.size \in Nat \ {0} /\ b.len \in 0 .. MaxLen
          /\ b.addr % b.size = 0
          /\ b.type \in {"incr", "wrap"}
          /\ b.type = "wrap" => \E k \in 0 .. b.len + 1 : b.len + 1 = 2 ^ k
    /\ BusDepth \in Nat \ {0} /\ LenDepth \in Nat \ {0}

VARIABLES
    rg_reset,
    wr_addr, wr_data, wr_resp,   \* from and to the master: AW, W, B
    rg_w_beat_count, rg_last_beat_waddr,   \* requests of the current write burst
    f_w_awlen,                   \* lengths of write bursts not yet answered
    rg_b_beat_count, rg_b_resp,  \* responses of the oldest of them
    s_wr_addr, s_wr_data, s_wr_resp,       \* to and from the slave
    rd_addr, rd_data,            \* from and to the master: AR, R
    rg_ar_beat_count, rg_last_beat_raddr, f_r_arlen, rg_r_beat_count,
    s_rd_addr, s_rd_data,        \* to and from the slave
    mem                          \* the slave's memory

wrVars == <<wr_addr, wr_data, wr_resp, rg_w_beat_count, rg_last_beat_waddr, f_w_awlen,
            rg_b_beat_count, rg_b_resp, s_wr_addr, s_wr_data, s_wr_resp>>
rdVars == <<rd_addr, rd_data, rg_ar_beat_count, rg_last_beat_raddr, f_r_arlen,
            rg_r_beat_count, s_rd_addr, s_rd_data>>
vars == <<rg_reset, wrVars, rdVars, mem>>

Resp == {"OKAY", "SLVERR"}
-----------------------------------------------------------------------------
\* The address after start; & wrap_mask is % n, n being a power of two.
fv_addr_for_beat(start, b) ==
    LET addr == start + b.size
        n == (b.len + 1) * b.size
    IN  IF b.type = "wrap" THEN (start - (start % n)) + (addr % n) ELSE addr

\* The addresses of the first k + 1 beats.
Addresses(b) ==
    LET a[k \in 0 .. b.len] == IF k = 0 THEN b.addr ELSE fv_addr_for_beat(a[k - 1], b)
    IN  a
Addrs == UNION {{Addresses(b)[k] : k \in 0 .. b.len} : b \in WrBursts \cup RdBursts}

Init ==
    /\ rg_reset = TRUE
    /\ wr_addr = <<>> /\ wr_data = <<>> /\ wr_resp = <<>>
    /\ rg_w_beat_count = 0 /\ rg_last_beat_waddr \in Addrs
    /\ f_w_awlen = <<>> /\ rg_b_beat_count = 0 /\ rg_b_resp = "OKAY"
    /\ s_wr_addr = <<>> /\ s_wr_data = <<>> /\ s_wr_resp = <<>>
    /\ rd_addr = <<>> /\ rd_data = <<>>
    /\ rg_ar_beat_count = 0 /\ rg_last_beat_raddr \in Addrs
    /\ f_r_arlen = <<>> /\ rg_r_beat_count = 0
    /\ s_rd_addr = <<>> /\ s_rd_data = <<>>
    /\ mem \in [Addrs -> Data]

\* Once after power up: in this system nothing calls the method reset.
rl_reset ==
    /\ rg_reset
    /\ rg_reset' = FALSE
    /\ wr_addr' = <<>> /\ wr_data' = <<>> /\ wr_resp' = <<>>
    /\ s_wr_addr' = <<>> /\ s_wr_data' = <<>> /\ s_wr_resp' = <<>>
    /\ f_w_awlen' = <<>> /\ rg_w_beat_count' = 0
    /\ rg_b_beat_count' = 0 /\ rg_b_resp' = "OKAY"
    /\ rd_addr' = <<>> /\ rd_data' = <<>>
    /\ s_rd_addr' = <<>> /\ s_rd_data' = <<>>
    /\ f_r_arlen' = <<>> /\ rg_ar_beat_count' = 0 /\ rg_r_beat_count' = 0
    /\ UNCHANGED <<rg_last_beat_waddr, rg_last_beat_raddr, mem>>
-----------------------------------------------------------------------------
(* Write bursts.                                                            *)

\* One beat; the address stays until its last one.
rl_wr_xaction_master_to_slave ==
    /\ wr_addr # <<>> /\ wr_data # <<>>
    /\ Len(s_wr_addr) < BusDepth /\ Len(s_wr_data) < BusDepth
    /\ LET b == Head(wr_addr)
           addr == IF rg_w_beat_count = 0 THEN b.addr
                                          ELSE fv_addr_for_beat(rg_last_beat_waddr, b)
       IN  /\ s_wr_addr' = Append(s_wr_addr, addr)
           /\ s_wr_data' = Append(s_wr_data, Head(wr_data))
           /\ rg_last_beat_waddr' = addr
           /\ IF rg_w_beat_count = 0
              THEN Len(f_w_awlen) < LenDepth /\ f_w_awlen' = Append(f_w_awlen, b.len)
              ELSE UNCHANGED f_w_awlen
           /\ IF rg_w_beat_count < b.len
              THEN rg_w_beat_count' = rg_w_beat_count + 1 /\ UNCHANGED wr_addr
              ELSE rg_w_beat_count' = 0 /\ wr_addr' = Tail(wr_addr)
    /\ wr_data' = Tail(wr_data)
    /\ UNCHANGED <<rg_reset, wr_resp, rg_b_beat_count, rg_b_resp, s_wr_resp, rdVars, mem>>

\* Mutation: the response of the last beat is returned.
JoinResp_last(st, resp) ==
    IF st.beat < Head(st.awlen)
    THEN [st EXCEPT !.beat = @ + 1, !.resp = IF @ = "OKAY" THEN resp ELSE @]
    ELSE [awlen |-> Tail(st.awlen), beat |-> 0, resp |-> "OKAY",
          out |-> Append(st.out, resp)]

\* Mutation: one response too many is awaited.
JoinResp_over(st, resp) ==
    IF st.beat <= Head(st.awlen)
    THEN [st EXCEPT !.beat = @ + 1, !.resp = IF @ = "OKAY" THEN resp ELSE @]
    ELSE [awlen |-> Tail(st.awlen), beat |-> 0, resp |-> "OKAY",
          out |-> Append(st.out, IF st.resp = "OKAY" THEN resp ELSE st.resp)]

\* What a slave's response does to the lengths, the count, the remembered
\* error, and the responses for the master.
JoinResp(st, resp) ==
    IF st.beat < Head(st.awlen)
    THEN [st EXCEPT !.beat = @ + 1, !.resp = IF @ = "OKAY" THEN resp ELSE @]
    ELSE [awlen |-> Tail(st.awlen), beat |-> 0, resp |-> "OKAY",
          out |-> Append(st.out, IF st.resp = "OKAY" THEN resp ELSE st.resp)]

Joining == [awlen |-> f_w_awlen, beat |-> rg_b_beat_count, resp |-> rg_b_resp, out |-> wr_resp]

rl_wr_resp_slave_to_master ==
    /\ s_wr_resp # <<>> /\ f_w_awlen # <<>>
    /\ LET st == JoinResp(Joining, Head(s_wr_resp))
       IN  /\ Len(st.out) <= BusDepth
           /\ f_w_awlen' = st.awlen /\ rg_b_beat_count' = st.beat
           /\ rg_b_resp' = st.resp /\ wr_resp' = st.out
    /\ s_wr_resp' = Tail(s_wr_resp)
    /\ UNCHANGED <<rg_reset, wr_addr, wr_data, rg_w_beat_count, rg_last_beat_waddr,
                   s_wr_addr, s_wr_data, rdVars, mem>>
-----------------------------------------------------------------------------
(* Read bursts.                                                             *)

rl_rd_xaction_master_to_slave ==
    /\ rd_addr # <<>>
    /\ Len(s_rd_addr) < BusDepth
    /\ LET b == Head(rd_addr)
           addr == IF rg_ar_beat_count = 0 THEN b.addr
                                           ELSE fv_addr_for_beat(rg_last_beat_raddr, b)
       IN  /\ s_rd_addr' = Append(s_rd_addr, addr)
           /\ rg_last_beat_raddr' = addr
           /\ IF rg_ar_beat_count = 0
              THEN Len(f_r_arlen) < LenDepth /\ f_r_arlen' = Append(f_r_arlen, b.len)
              ELSE UNCHANGED f_r_arlen
           /\ IF rg_ar_beat_count < b.len
              THEN rg_ar_beat_count' = rg_ar_beat_count + 1 /\ UNCHANGED rd_addr
              ELSE rg_ar_beat_count' = 0 /\ rd_addr' = Tail(rd_addr)
    /\ UNCHANGED <<rg_reset, wrVars, rd_data, rg_r_beat_count, s_rd_data, mem>>

\* What read data of the slave does to the lengths, the count and the data
\* for the master: rlast is set anew.
MarkLast(st, data) ==
    IF st.beat < Head(st.arlen)
    THEN [st EXCEPT !.beat = @ + 1, !.out = Append(@, [data |-> data, last |-> FALSE])]
    ELSE [arlen |-> Tail(st.arlen), beat |-> 0,
          out |-> Append(st.out, [data |-> data, last |-> TRUE])]

Marking == [arlen |-> f_r_arlen, beat |-> rg_r_beat_count, out |-> rd_data]

rl_rd_resp_slave_to_master ==
    /\ s_rd_data # <<>> /\ f_r_arlen # <<>>
    /\ Len(rd_data) < BusDepth
    /\ LET st == MarkLast(Marking, Head(s_rd_data))
       IN  f_r_arlen' = st.arlen /\ rg_r_beat_count' = st.beat /\ rd_data' = st.out
    /\ s_rd_data' = Tail(s_rd_data)
    /\ UNCHANGED <<rg_reset, wrVars, rd_addr, rg_ar_beat_count, rg_last_beat_raddr, s_rd_addr,
                   mem>>
-----------------------------------------------------------------------------
(* The fabric and the slave.                                                *)

\* The beats of bursts that are still to be sent, the first beats of the first
\* burst having been sent.
BeatsOf(b) == [k \in 1 .. b.len + 1 |-> [addr |-> Addresses(b)[k - 1], last |-> k = b.len + 1]]
ToSend(bursts, beat) ==
    LET all == FlattenSeq([i \in DOMAIN bursts |-> BeatsOf(bursts[i])])
    IN  SubSeq(all, beat + 1, Len(all))

\* Beats whose data the master has not sent.
Missing == Len(ToSend(wr_addr, rg_w_beat_count)) - Len(wr_data)

MasterWrite(b) ==
    /\ ~rg_reset
    /\ Len(wr_addr) < BusDepth
    /\ wr_addr' = Append(wr_addr, b)
    /\ UNCHANGED <<rg_reset, wr_data, wr_resp, rg_w_beat_count, rg_last_beat_waddr, f_w_awlen,
                   rg_b_beat_count, rg_b_resp, s_wr_addr, s_wr_data, s_wr_resp, rdVars, mem>>

MasterData(d) ==
    /\ Missing > 0
    /\ Len(wr_data) < BusDepth
    /\ wr_data' = Append(wr_data, d)
    /\ UNCHANGED <<rg_reset, wr_addr, wr_resp, rg_w_beat_count, rg_last_beat_waddr, f_w_awlen,
                   rg_b_beat_count, rg_b_resp, s_wr_addr, s_wr_data, s_wr_resp, rdVars, mem>>

MasterTakesResp ==
    /\ wr_resp # <<>>
    /\ wr_resp' = Tail(wr_resp)
    /\ UNCHANGED <<rg_reset, wr_addr, wr_data, rg_w_beat_count, rg_last_beat_waddr, f_w_awlen,
                   rg_b_beat_count, rg_b_resp, s_wr_addr, s_wr_data, s_wr_resp, rdVars, mem>>

MasterRead(b) ==
    /\ ~rg_reset
    /\ Len(rd_addr) < BusDepth
    /\ rd_addr' = Append(rd_addr, b)
    /\ UNCHANGED <<rg_reset, wrVars, rd_data, rg_ar_beat_count, rg_last_beat_raddr, f_r_arlen,
                   rg_r_beat_count, s_rd_addr, s_rd_data, mem>>

MasterTakesData ==
    /\ rd_data # <<>>
    /\ rd_data' = Tail(rd_data)
    /\ UNCHANGED <<rg_reset, wrVars, rd_addr, rg_ar_beat_count, rg_last_beat_raddr, f_r_arlen,
                   rg_r_beat_count, s_rd_addr, s_rd_data, mem>>

SlaveWrite(r) ==
    /\ s_wr_addr # <<>> /\ s_wr_data # <<>>
    /\ Len(s_wr_resp) < BusDepth
    /\ mem' = IF r = "OKAY" THEN [mem EXCEPT ![Head(s_wr_addr)] = Head(s_wr_data)] ELSE mem
    /\ s_wr_addr' = Tail(s_wr_addr) /\ s_wr_data' = Tail(s_wr_data)
    /\ s_wr_resp' = Append(s_wr_resp, r)
    /\ UNCHANGED <<rg_reset, wr_addr, wr_data, wr_resp, rg_w_beat_count, rg_last_beat_waddr,
                   f_w_awlen, rg_b_beat_count, rg_b_resp, rdVars>>

SlaveRead ==
    /\ s_rd_addr # <<>>
    /\ Len(s_rd_data) < BusDepth
    /\ s_rd_data' = Append(s_rd_data, mem[Head(s_rd_addr)])
    /\ s_rd_addr' = Tail(s_rd_addr)
    /\ UNCHANGED <<rg_reset, wrVars, rd_addr, rd_data, rg_ar_beat_count, rg_last_beat_raddr,
                   f_r_arlen, rg_r_beat_count, mem>>

Next ==
    \/ rl_reset
    \/ rl_wr_xaction_master_to_slave
    \/ rl_wr_resp_slave_to_master
    \/ rl_rd_xaction_master_to_slave
    \/ rl_rd_resp_slave_to_master
    \/ \E b \in WrBursts : MasterWrite(b)
    \/ \E d \in Data : MasterData(d)
    \/ MasterTakesResp
    \/ \E b \in RdBursts : MasterRead(b)
    \/ MasterTakesData
    \/ \E r \in Resp : SlaveWrite(r)
    \/ SlaveRead

Spec == Init /\ [][Next]_vars

\* The rules do not conflict with one another.  The master sends the data it
\* announced and takes its answers, and the slave serves what it is sent.
Fairness ==
    /\ WF_vars(rl_wr_xaction_master_to_slave)
    /\ WF_vars(rl_wr_resp_slave_to_master)
    /\ WF_vars(rl_rd_xaction_master_to_slave)
    /\ WF_vars(rl_rd_resp_slave_to_master)
    /\ WF_vars(\E d \in Data : MasterData(d))
    /\ WF_vars(MasterTakesResp)
    /\ WF_vars(MasterTakesData)
    /\ WF_vars(\E r \in Resp : SlaveWrite(r))
    /\ WF_vars(SlaveRead)

FairSpec == Spec /\ Fairness
-----------------------------------------------------------------------------
(* Properties.                                                              *)

\* Of the bursts whose lengths wait in f_w_awlen or f_r_arlen each beat is
\* answered, in the slave, or not yet sent, once: the two counts of a channel
\* never part, though the request side may be bursts ahead.
LastFlags(lens) == FlattenSeq([i \in DOMAIN lens |-> [k \in 1 .. lens[i] + 1 |-> k = lens[i] + 1]])
BeatsIn(lens) == Len(LastFlags(lens))
Unsent(bursts, beat) == IF beat = 0 THEN 0 ELSE Head(bursts).len + 1 - beat
BeatsMatched ==
    /\ BeatsIn(f_w_awlen) = rg_b_beat_count + Len(s_wr_resp) + Len(s_wr_addr)
                               + Unsent(wr_addr, rg_w_beat_count)
    /\ BeatsIn(f_r_arlen) = rg_r_beat_count + Len(s_rd_data) + Len(s_rd_addr)
                               + Unsent(rd_addr, rg_ar_beat_count)

\* Bursts are the single accesses of their beats.  A beat on its way to the
\* slave is still to be made, the last one of its burst if f_w_awlen says so;
\* a response on its way back has been counted.
OnTheWay(addrs, lens, answered) ==
    [i \in DOMAIN addrs |-> [addr |-> addrs[i], last |-> LastFlags(lens)[answered + i]]]
Marked(data, lens, answered) ==
    [i \in DOMAIN data |-> [data |-> data[i], last |-> LastFlags(lens)[answered + i]]]
Joined(st, resps) ==
    LET join[n \in 0 .. Len(resps)] == IF n = 0 THEN st ELSE JoinResp(join[n - 1], resps[n])
    IN  join[Len(resps)]
B == INSTANCE Bursts WITH
        wr_beats <- OnTheWay(s_wr_addr, f_w_awlen, rg_b_beat_count + Len(s_wr_resp))
                      \o ToSend(wr_addr, rg_w_beat_count),
        wr_data <- s_wr_data \o wr_data,
        wr_resp <- Joined(Joining, s_wr_resp).resp,
        answers <- Joined(Joining, s_wr_resp).out,
        rd_beats <- OnTheWay(s_rd_addr, f_r_arlen, rg_r_beat_count + Len(s_rd_data))
                      \o ToSend(rd_addr, rg_ar_beat_count),
        rd_data <- rd_data \o Marked(s_rd_data, f_r_arlen, rg_r_beat_count)
ImplementsBursts == B!Spec

\* A burst whose first beat was sent is answered, and to the last beat.
BurstsAnswered ==
    /\ f_w_awlen # <<>> ~> wr_resp # <<>>
    /\ f_r_arlen # <<>> ~> rd_data # <<>> /\ Last(rd_data).last
=============================================================================
