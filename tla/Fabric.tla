------------------------------- MODULE Fabric -------------------------------
(***************************************************************************)
(* The AXI4 fabric (mkAXI4_Fabric): masters on one side, slaves on the     *)
(* other.  Each request leaves a note where it came from and where it went *)
(* (f_wr_mis, f_wr_sjs for writes, f_rd_mis, f_rd_sjs for reads), by which *)
(* responses find their way back, and a task that leads its write data.    *)
(*                                                                         *)
(* A burst is known by its master, its slave (NoSlave: an address that no  *)
(* slave has), its length, and a tag that tells it from its neighbours; a  *)
(* beat of data or of a response is known by its burst.                    *)
(***************************************************************************)
EXTENDS Naturals, SequencesExt, FiniteSets

CONSTANTS
    NumMasters, NumSlaves,
    WrBursts, RdBursts, \* bursts the masters may ask for, [master, to, len];
                        \* len (awlen, arlen) is one less than the beats
    MaxAsked,           \* bound: bursts a master has under way
    BusDepth,           \* capacity of the transactors' FIFOs (2)
    TaskDepth,          \* capacity of f_wd_tasks (2)
    NoteDepth           \* capacity of the other FIFOs (8)

Masters == 0 .. NumMasters - 1
Slaves == 0 .. NumSlaves - 1
NoSlave == NumSlaves

ASSUME FabricAssumption ==
    /\ NumMasters \in Nat /\ NumSlaves \in Nat \ {0}
    /\ WrBursts \cup RdBursts \subseteq [master : Masters, to : 0 .. NumSlaves, len : Nat]
    /\ MaxAsked \in Nat /\ BusDepth \in Nat \ {0}
    /\ TaskDepth \in Nat \ {0} /\ NoteDepth \in Nat \ {0}

VARIABLES
    rg_reset,
    \* per master: its bursts not yet answered, write beats not yet sent, beats
    \* taken of the first read
    asked_wr, to_send, asked_rd, taken_rd,
    \* per master: the transactor's channels AW, W, B, AR, R
    wr_addr, wr_data, wr_resp, rd_addr, rd_data,
    \* per slave: the transactor's channels, and the beats of the first burst
    \* that the slave has taken or served
    s_wr_addr, s_wr_data, s_wr_resp, s_wr_taken,
    s_rd_addr, s_rd_data, s_rd_served,
    \* book-keeping of writes, per master and (f_wr_mis) per slave
    f_wr_sjs, f_wr_mis, f_wd_tasks, rg_wd_beat_count, f_wr_err_info,
    \* book-keeping of reads
    f_rd_sjs, f_rd_mis, rg_r_beat_count, f_rd_err_info, rg_r_err_beat_count

wrVars == <<asked_wr, to_send, wr_addr, wr_data, wr_resp, s_wr_addr, s_wr_data, s_wr_resp,
            s_wr_taken, f_wr_sjs, f_wr_mis, f_wd_tasks, rg_wd_beat_count, f_wr_err_info>>
rdVars == <<asked_rd, taken_rd, rd_addr, rd_data, s_rd_addr, s_rd_data, s_rd_served,
            f_rd_sjs, f_rd_mis, rg_r_beat_count, f_rd_err_info, rg_r_err_beat_count>>
vars == <<rg_reset, wrVars, rdVars>>

Push(f, k, x) == [f EXCEPT ![k] = Append(@, x)]
Pop(f, k) == [f EXCEPT ![k] = Tail(@)]
Count(f, k, n) == [f EXCEPT ![k] = n]

Tags == {0, 1}
Tagged(b, t) == [master |-> b.master, to |-> b.to, len |-> b.len, tag |-> t]
Bursts == {Tagged(b, t) : b \in WrBursts \cup RdBursts, t \in Tags}
Lens == {b.len : b \in WrBursts \cup RdBursts}
EmptyPer(S) == [k \in S |-> <<>>]
ZeroPer(S) == [k \in S |-> 0]

Init ==
    /\ rg_reset = TRUE
    /\ asked_wr = EmptyPer(Masters) /\ to_send = EmptyPer(Masters)
    /\ asked_rd = EmptyPer(Masters) /\ taken_rd = ZeroPer(Masters)
    /\ wr_addr = EmptyPer(Masters) /\ wr_data = EmptyPer(Masters) /\ wr_resp = EmptyPer(Masters)
    /\ rd_addr = EmptyPer(Masters) /\ rd_data = EmptyPer(Masters)
    /\ s_wr_addr = EmptyPer(Slaves) /\ s_wr_data = EmptyPer(Slaves)
    /\ s_wr_resp = EmptyPer(Slaves) /\ s_wr_taken = ZeroPer(Slaves)
    /\ s_rd_addr = EmptyPer(Slaves) /\ s_rd_data = EmptyPer(Slaves)
    /\ s_rd_served = ZeroPer(Slaves)
    /\ f_wr_sjs = EmptyPer(Masters) /\ f_wr_mis = EmptyPer(Slaves)
    /\ f_wd_tasks = EmptyPer(Masters) /\ rg_wd_beat_count = ZeroPer(Masters)
    /\ f_wr_err_info = EmptyPer(Masters)
    /\ f_rd_sjs = EmptyPer(Masters) /\ f_rd_mis = EmptyPer(Slaves)
    /\ rg_r_beat_count = ZeroPer(Slaves)
    /\ f_rd_err_info = EmptyPer(Masters) /\ rg_r_err_beat_count = ZeroPer(Masters)

\* The masters wait for it: nothing has been asked yet.
\* v_rg_r_err_beat_count is not reset.
rl_reset ==
    /\ rg_reset
    /\ rg_reset' = FALSE
    /\ wr_addr' = EmptyPer(Masters) /\ wr_data' = EmptyPer(Masters)
    /\ wr_resp' = EmptyPer(Masters)
    /\ rd_addr' = EmptyPer(Masters) /\ rd_data' = EmptyPer(Masters)
    /\ s_wr_addr' = EmptyPer(Slaves) /\ s_wr_data' = EmptyPer(Slaves)
    /\ s_wr_resp' = EmptyPer(Slaves)
    /\ s_rd_addr' = EmptyPer(Slaves) /\ s_rd_data' = EmptyPer(Slaves)
    /\ f_wr_sjs' = EmptyPer(Masters) /\ f_wr_mis' = EmptyPer(Slaves)
    /\ f_wd_tasks' = EmptyPer(Masters) /\ rg_wd_beat_count' = ZeroPer(Masters)
    /\ f_wr_err_info' = EmptyPer(Masters)
    /\ f_rd_sjs' = EmptyPer(Masters) /\ f_rd_mis' = EmptyPer(Slaves)
    /\ rg_r_beat_count' = ZeroPer(Slaves) /\ f_rd_err_info' = EmptyPer(Masters)
    /\ UNCHANGED <<asked_wr, to_send, asked_rd, taken_rd, s_wr_taken, s_rd_served,
                   rg_r_err_beat_count>>
-----------------------------------------------------------------------------
(* Writes.                                                                  *)

\* fv_mi_has_wr_for_sj and fv_mi_has_wr_for_none
HasWrite(m, s) == wr_addr[m] # <<>> /\ Head(wr_addr[m]).to = s

rl_wr_xaction_master_to_slave(m, s) ==
    /\ HasWrite(m, s)
    /\ Len(s_wr_addr[s]) < BusDepth /\ Len(f_wd_tasks[m]) < TaskDepth
    /\ Len(f_wr_mis[s]) < NoteDepth /\ Len(f_wr_sjs[m]) < NoteDepth
    /\ s_wr_addr' = Push(s_wr_addr, s, Head(wr_addr[m]))
    /\ wr_addr' = Pop(wr_addr, m)
    /\ f_wd_tasks' = Push(f_wd_tasks, m, [to |-> s, len |-> Head(wr_addr[m]).len])
    /\ f_wr_mis' = Push(f_wr_mis, s, m)
    /\ f_wr_sjs' = Push(f_wr_sjs, m, s)
    /\ UNCHANGED <<rg_reset, asked_wr, to_send, wr_data, wr_resp, s_wr_data, s_wr_resp,
                   s_wr_taken, rg_wd_beat_count, f_wr_err_info, rdVars>>

rl_wr_xaction_no_such_slave(m) ==
    /\ HasWrite(m, NoSlave)
    /\ Len(f_wd_tasks[m]) < TaskDepth
    /\ Len(f_wr_sjs[m]) < NoteDepth /\ Len(f_wr_err_info[m]) < NoteDepth
    /\ wr_addr' = Pop(wr_addr, m)
    /\ f_wr_sjs' = Push(f_wr_sjs, m, NoSlave)
    /\ f_wr_err_info' = Push(f_wr_err_info, m, Head(wr_addr[m]))
    /\ f_wd_tasks' = Push(f_wd_tasks, m, [to |-> NoSlave, len |-> Head(wr_addr[m]).len])
    /\ UNCHANGED <<rg_reset, asked_wr, to_send, wr_data, wr_resp, s_wr_addr, s_wr_data,
                   s_wr_resp, s_wr_taken, f_wr_mis, rg_wd_beat_count, rdVars>>

\* Mutation: the task is done one beat too early.
EndOfBurst_early(m) == rg_wd_beat_count[m] + 1 >= Head(f_wd_tasks[m]).len

EndOfBurst(m) == rg_wd_beat_count[m] = Head(f_wd_tasks[m]).len

\* Data for no slave is dropped.
rl_wr_xaction_master_to_slave_data(m) ==
    /\ f_wd_tasks[m] # <<>> /\ wr_data[m] # <<>>
    /\ LET s == Head(f_wd_tasks[m]).to
       IN  IF s \in Slaves
           THEN Len(s_wr_data[s]) < BusDepth /\ s_wr_data' = Push(s_wr_data, s, Head(wr_data[m]))
           ELSE UNCHANGED s_wr_data
    /\ wr_data' = Pop(wr_data, m)
    /\ IF EndOfBurst(m)
       THEN f_wd_tasks' = Pop(f_wd_tasks, m) /\ rg_wd_beat_count' = Count(rg_wd_beat_count, m, 0)
       ELSE /\ rg_wd_beat_count' = Count(rg_wd_beat_count, m, rg_wd_beat_count[m] + 1)
            /\ UNCHANGED f_wd_tasks
    /\ UNCHANGED <<rg_reset, asked_wr, to_send, wr_addr, wr_resp, s_wr_addr, s_wr_resp,
                   s_wr_taken, f_wr_sjs, f_wr_mis, f_wr_err_info, rdVars>>

\* The oldest write of slave s came from m, and the oldest one of m went to s.
WriteReturns(s, m) ==
    /\ f_wr_mis[s] # <<>> /\ Head(f_wr_mis[s]) = m
    /\ f_wr_sjs[m] # <<>> /\ Head(f_wr_sjs[m]) = s

rl_wr_resp_slave_to_master(m, s) ==
    /\ WriteReturns(s, m)
    /\ s_wr_resp[s] # <<>>
    /\ Len(wr_resp[m]) < BusDepth
    /\ f_wr_mis' = Pop(f_wr_mis, s)
    /\ f_wr_sjs' = Pop(f_wr_sjs, m)
    /\ s_wr_resp' = Pop(s_wr_resp, s)
    /\ wr_resp' = Push(wr_resp, m, Head(s_wr_resp[s]))
    /\ UNCHANGED <<rg_reset, asked_wr, to_send, wr_addr, wr_data, s_wr_addr, s_wr_data,
                   s_wr_taken, f_wd_tasks, rg_wd_beat_count, f_wr_err_info, rdVars>>

\* Not held back until the data has been dropped.
rl_wr_resp_err_to_master(m) ==
    /\ f_wr_sjs[m] # <<>> /\ Head(f_wr_sjs[m]) = NoSlave
    /\ f_wr_err_info[m] # <<>>
    /\ Len(wr_resp[m]) < BusDepth
    /\ f_wr_sjs' = Pop(f_wr_sjs, m)
    /\ f_wr_err_info' = Pop(f_wr_err_info, m)
    /\ wr_resp' = Push(wr_resp, m, [burst |-> Head(f_wr_err_info[m]), resp |-> "DECERR"])
    /\ UNCHANGED <<rg_reset, asked_wr, to_send, wr_addr, wr_data, s_wr_addr, s_wr_data,
                   s_wr_resp, s_wr_taken, f_wr_mis, f_wd_tasks, rg_wd_beat_count, rdVars>>
-----------------------------------------------------------------------------
(* Reads.                                                                   *)

\* fv_mi_has_rd_for_sj and fv_mi_has_rd_for_none
HasRead(m, s) == rd_addr[m] # <<>> /\ Head(rd_addr[m]).to = s

rl_rd_xaction_master_to_slave(m, s) ==
    /\ HasRead(m, s)
    /\ Len(s_rd_addr[s]) < BusDepth
    /\ Len(f_rd_mis[s]) < NoteDepth /\ Len(f_rd_sjs[m]) < NoteDepth
    /\ s_rd_addr' = Push(s_rd_addr, s, Head(rd_addr[m]))
    /\ rd_addr' = Pop(rd_addr, m)
    /\ f_rd_mis' = Push(f_rd_mis, s, [from |-> m, len |-> Head(rd_addr[m]).len])
    /\ f_rd_sjs' = Push(f_rd_sjs, m, s)
    /\ UNCHANGED <<rg_reset, wrVars, asked_rd, taken_rd, rd_data, s_rd_data, s_rd_served,
                   rg_r_beat_count, f_rd_err_info, rg_r_err_beat_count>>

rl_rd_xaction_no_such_slave(m) ==
    /\ HasRead(m, NoSlave)
    /\ Len(f_rd_sjs[m]) < NoteDepth /\ Len(f_rd_err_info[m]) < NoteDepth
    /\ rd_addr' = Pop(rd_addr, m)
    /\ f_rd_sjs' = Push(f_rd_sjs, m, NoSlave)
    /\ f_rd_err_info' = Push(f_rd_err_info, m, Head(rd_addr[m]))
    /\ UNCHANGED <<rg_reset, wrVars, asked_rd, taken_rd, rd_data, s_rd_addr, s_rd_data, s_rd_served,
                   f_rd_mis, rg_r_beat_count, rg_r_err_beat_count>>

\* Mutation: only the slave's note is looked at.
ReadReturns_slaveOnly(s, m) ==
    f_rd_mis[s] # <<>> /\ Head(f_rd_mis[s]).from = m /\ f_rd_sjs[m] # <<>>

ReadReturns(s, m) ==
    /\ f_rd_mis[s] # <<>> /\ Head(f_rd_mis[s]).from = m
    /\ f_rd_sjs[m] # <<>> /\ Head(f_rd_sjs[m]) = s

\* A last beat that the slave has not marked is turned into an error.
rl_rd_resp_slave_to_master(m, s) ==
    /\ ReadReturns(s, m)
    /\ s_rd_data[s] # <<>>
    /\ Len(rd_data[m]) < BusDepth
    /\ LET r == Head(s_rd_data[s])
       IN  IF rg_r_beat_count[s] = Head(f_rd_mis[s]).len
           THEN /\ f_rd_mis' = Pop(f_rd_mis, s)
                /\ f_rd_sjs' = Pop(f_rd_sjs, m)
                /\ rg_r_beat_count' = Count(rg_r_beat_count, s, 0)
                /\ rd_data' = Push(rd_data, m,
                                   IF r.last THEN r ELSE [r EXCEPT !.resp = "SLVERR"])
           ELSE /\ rg_r_beat_count' = Count(rg_r_beat_count, s, rg_r_beat_count[s] + 1)
                /\ rd_data' = Push(rd_data, m, r)
                /\ UNCHANGED <<f_rd_mis, f_rd_sjs>>
    /\ s_rd_data' = Pop(s_rd_data, s)
    /\ UNCHANGED <<rg_reset, wrVars, asked_rd, taken_rd, rd_addr, s_rd_addr, s_rd_served,
                   f_rd_err_info, rg_r_err_beat_count>>

\* Mutation: the count stands still.
NextErrBeat_stuck(m) == rg_r_err_beat_count[m]

NextErrBeat(m) == rg_r_err_beat_count[m] + 1

rl_rd_resp_err_to_master(m) ==
    /\ f_rd_sjs[m] # <<>> /\ Head(f_rd_sjs[m]) = NoSlave
    /\ f_rd_err_info[m] # <<>>
    /\ Len(rd_data[m]) < BusDepth
    /\ LET b == Head(f_rd_err_info[m])
           last == rg_r_err_beat_count[m] = b.len
       IN  /\ rd_data' = Push(rd_data, m, [burst |-> b, last |-> last, resp |-> "DECERR"])
           /\ IF last
              THEN /\ f_rd_sjs' = Pop(f_rd_sjs, m)
                   /\ f_rd_err_info' = Pop(f_rd_err_info, m)
                   /\ rg_r_err_beat_count' = Count(rg_r_err_beat_count, m, 0)
              ELSE /\ rg_r_err_beat_count' = Count(rg_r_err_beat_count, m, NextErrBeat(m))
                   /\ UNCHANGED <<f_rd_sjs, f_rd_err_info>>
    /\ UNCHANGED <<rg_reset, wrVars, asked_rd, taken_rd, rd_addr, s_rd_addr, s_rd_data, s_rd_served,
                   f_rd_mis, rg_r_beat_count>>
-----------------------------------------------------------------------------
(* Masters and slaves.                                                      *)

NextTag(asked) == IF asked = <<>> THEN 0 ELSE 1 - Last(asked).tag

MasterWrite(burst) ==
    LET m == burst.master
        b == Tagged(burst, NextTag(asked_wr[m]))
    IN  /\ ~rg_reset
        /\ Len(asked_wr[m]) < MaxAsked /\ Len(wr_addr[m]) < BusDepth
        /\ wr_addr' = Push(wr_addr, m, b)
        /\ asked_wr' = Push(asked_wr, m, b)
        /\ to_send' = [to_send EXCEPT ![m] =
                          @ \o [k \in 1 .. b.len + 1 |-> [burst |-> b, last |-> k = b.len + 1]]]
        /\ UNCHANGED <<rg_reset, wr_data, wr_resp, s_wr_addr, s_wr_data, s_wr_resp, s_wr_taken,
                       f_wr_sjs, f_wr_mis, f_wd_tasks, rg_wd_beat_count, f_wr_err_info, rdVars>>

MasterData(m) ==
    /\ to_send[m] # <<>> /\ Len(wr_data[m]) < BusDepth
    /\ wr_data' = Push(wr_data, m, Head(to_send[m]))
    /\ to_send' = Pop(to_send, m)
    /\ UNCHANGED <<rg_reset, asked_wr, wr_addr, wr_resp, s_wr_addr, s_wr_data, s_wr_resp,
                   s_wr_taken, f_wr_sjs, f_wr_mis, f_wd_tasks, rg_wd_beat_count, f_wr_err_info,
                   rdVars>>

MasterTakesResp(m) ==
    /\ wr_resp[m] # <<>>
    /\ wr_resp' = Pop(wr_resp, m)
    /\ asked_wr' = Pop(asked_wr, m)
    /\ UNCHANGED <<rg_reset, to_send, wr_addr, wr_data, s_wr_addr, s_wr_data, s_wr_resp,
                   s_wr_taken, f_wr_sjs, f_wr_mis, f_wd_tasks, rg_wd_beat_count, f_wr_err_info,
                   rdVars>>

MasterRead(burst) ==
    LET m == burst.master
        b == Tagged(burst, NextTag(asked_rd[m]))
    IN  /\ ~rg_reset
        /\ Len(asked_rd[m]) < MaxAsked /\ Len(rd_addr[m]) < BusDepth
        /\ rd_addr' = Push(rd_addr, m, b)
        /\ asked_rd' = Push(asked_rd, m, b)
        /\ UNCHANGED <<rg_reset, wrVars, taken_rd, rd_data, s_rd_addr, s_rd_data, s_rd_served,
                       f_rd_sjs, f_rd_mis, rg_r_beat_count, f_rd_err_info, rg_r_err_beat_count>>

\* Bound: beats are counted up to the first one too many.
MasterTakesData(m) ==
    /\ rd_data[m] # <<>>
    /\ rd_data' = Pop(rd_data, m)
    /\ IF Head(rd_data[m]).last
       THEN asked_rd' = Pop(asked_rd, m) /\ taken_rd' = Count(taken_rd, m, 0)
       ELSE /\ taken_rd' = Count(taken_rd, m, Min({taken_rd[m], Head(asked_rd[m]).len}) + 1)
            /\ UNCHANGED asked_rd
    /\ UNCHANGED <<rg_reset, wrVars, rd_addr, s_rd_addr, s_rd_data, s_rd_served, f_rd_sjs,
                   f_rd_mis, rg_r_beat_count, f_rd_err_info, rg_r_err_beat_count>>

\* A slave takes as many beats as the address at the head of its queue says.
SlaveWrite(s) ==
    /\ s_wr_addr[s] # <<>> /\ s_wr_data[s] # <<>>
    /\ s_wr_data' = Pop(s_wr_data, s)
    /\ IF s_wr_taken[s] = Head(s_wr_addr[s]).len
       THEN /\ Len(s_wr_resp[s]) < BusDepth
            /\ s_wr_resp' = Push(s_wr_resp, s, [burst |-> Head(s_wr_addr[s]), resp |-> "OKAY"])
            /\ s_wr_addr' = Pop(s_wr_addr, s)
            /\ s_wr_taken' = Count(s_wr_taken, s, 0)
       ELSE /\ s_wr_taken' = Count(s_wr_taken, s, s_wr_taken[s] + 1)
            /\ UNCHANGED <<s_wr_addr, s_wr_resp>>
    /\ UNCHANGED <<rg_reset, asked_wr, to_send, wr_addr, wr_data, wr_resp, f_wr_sjs, f_wr_mis,
                   f_wd_tasks, rg_wd_beat_count, f_wr_err_info, rdVars>>

SlaveRead(s) ==
    /\ s_rd_addr[s] # <<>> /\ Len(s_rd_data[s]) < BusDepth
    /\ LET b == Head(s_rd_addr[s])
           last == s_rd_served[s] = b.len
       IN  /\ s_rd_data' = Push(s_rd_data, s, [burst |-> b, last |-> last, resp |-> "OKAY"])
           /\ s_rd_addr' = IF last THEN Pop(s_rd_addr, s) ELSE s_rd_addr
           /\ s_rd_served' = Count(s_rd_served, s, IF last THEN 0 ELSE s_rd_served[s] + 1)
    /\ UNCHANGED <<rg_reset, wrVars, asked_rd, taken_rd, rd_addr, rd_data, f_rd_sjs, f_rd_mis,
                   rg_r_beat_count, f_rd_err_info, rg_r_err_beat_count>>
-----------------------------------------------------------------------------
WriteRules(m) ==
    \/ \E s \in Slaves : rl_wr_xaction_master_to_slave(m, s)
    \/ rl_wr_xaction_no_such_slave(m)
    \/ rl_wr_xaction_master_to_slave_data(m)
    \/ \E s \in Slaves : rl_wr_resp_slave_to_master(m, s)
    \/ rl_wr_resp_err_to_master(m)

ReadRules(m) ==
    \/ \E s \in Slaves : rl_rd_xaction_master_to_slave(m, s)
    \/ rl_rd_xaction_no_such_slave(m)
    \/ \E s \in Slaves : rl_rd_resp_slave_to_master(m, s)
    \/ rl_rd_resp_err_to_master(m)

Next ==
    \/ rl_reset
    \/ \E m \in Masters : WriteRules(m) \/ ReadRules(m)
    \/ \E b \in WrBursts : MasterWrite(b)
    \/ \E b \in RdBursts : MasterRead(b)
    \/ \E m \in Masters : MasterData(m) \/ MasterTakesResp(m) \/ MasterTakesData(m)
    \/ \E s \in Slaves : SlaveWrite(s) \/ SlaveRead(s)

Spec == Init /\ [][Next]_vars

\* What moves a burst on that the fabric has passed on.  Rules of different
\* masters meet only at a slave, where the notes name one of them.  Masters
\* and slaves go on with what has begun.
MasterSide(m) ==
    \/ rl_wr_xaction_master_to_slave_data(m)
    \/ \E s \in Slaves : rl_wr_resp_slave_to_master(m, s) \/ rl_rd_resp_slave_to_master(m, s)
    \/ rl_wr_resp_err_to_master(m)
    \/ rl_rd_resp_err_to_master(m)
    \/ MasterData(m) \/ MasterTakesResp(m) \/ MasterTakesData(m)
SlaveSide(s) == SlaveWrite(s) \/ SlaveRead(s)

Fairness ==
    /\ \A m \in Masters : WF_vars(MasterSide(m))
    /\ \A s \in Slaves : WF_vars(SlaveSide(s))

FairSpec == Spec /\ Fairness
-----------------------------------------------------------------------------
(* Properties.                                                              *)

\* What the fabric takes for granted: beats carry no name of their master, so
\* that one master alone writes to a slave.
OneWriter == \A b, c \in WrBursts : b.to = c.to /\ b.to # NoSlave => b.master = c.master

\* The data a slave takes belongs to the address it takes with it.
DataFollowsAddress ==
    \A s \in Slaves :
        s_wr_addr[s] # <<>> /\ s_wr_data[s] # <<>> =>
            /\ Head(s_wr_data[s]).burst = Head(s_wr_addr[s])
            /\ Head(s_wr_data[s]).last <=> s_wr_taken[s] = Head(s_wr_addr[s]).len

\* A master gets its answers in the order in which it asked, from the slave it
\* asked, or an error if there is none, and of a read as many beats as it
\* asked for, whatever slaves answer first.
RightResp(r) == r.resp = IF r.burst.to = NoSlave THEN "DECERR" ELSE "OKAY"
AnswersInOrder ==
    \A m \in Masters :
        /\ \A i \in DOMAIN wr_resp[m] :
              wr_resp[m][i].burst = asked_wr[m][i] /\ RightResp(wr_resp[m][i])
        /\ \A i \in DOMAIN rd_data[m] :
              LET before == Cardinality({k \in 1 .. i - 1 : rd_data[m][k].last})
              IN  rd_data[m][i].burst = asked_rd[m][before + 1] /\ RightResp(rd_data[m][i])
        /\ rd_data[m] # <<>> =>
              (Head(rd_data[m]).last <=> taken_rd[m] = Head(asked_rd[m]).len)

\* A burst the fabric has passed on is answered: masters and slaves never
\* wait for one another in a circle.
BurstsAnswered ==
    \A m \in Masters :
        /\ f_wr_sjs[m] # <<>> ~> wr_resp[m] # <<>>
        /\ f_rd_sjs[m] # <<>> ~> rd_data[m] # <<>> /\ Last(rd_data[m]).last
=============================================================================
