------------------------------ MODULE MemPort ------------------------------
(***************************************************************************)
(* The fabric side of a memory controller: the FIFOs of its AXI4 slave     *)
(* transactor, and the queue into which reads and writes are merged.  It   *)
(* is shared by the controller and the memory it implements.               *)
(*                                                                         *)
(* A memory word holds several lanes, the parts a write strobe selects     *)
(* separately; a request names a word and one lane of it, or is misaligned *)
(* or out of range (not ok).  A write is one request, address and data.    *)
(***************************************************************************)
EXTENDS Naturals, Sequences

CONSTANTS
    Words,      \* raw memory addresses
    Lanes,      \* lanes of a word
    Value,      \* what a lane holds
    Reads,      \* read requests the fabric may bring, a subset of RdReq
    Writes,     \* write requests the fabric may bring, a subset of WrReq
    BusDepth    \* capacity of the transactor's FIFOs (2)

VARIABLES
    rd_addr, wr_addr,   \* requests in the transactor
    rd_data, wr_resp,   \* responses in the transactor
    f_reqs              \* merged requests, at most one

xactor == <<rd_addr, wr_addr, rd_data, wr_resp>>
port == <<xactor, f_reqs>>

RdReq == [op : {"RD"}, ok : {TRUE}, word : Words, lane : Lanes]
            \cup [op : {"RD"}, ok : {FALSE}]
WrReq == [op : {"WR"}, ok : {TRUE}, word : Words, lane : Lanes, data : Value]
            \cup [op : {"WR"}, ok : {FALSE}]
ASSUME MemPortAssumption ==
    /\ BusDepth \in Nat \ {0}
    /\ Reads \subseteq RdReq
    /\ Writes \subseteq WrReq

PortInit ==
    /\ rd_addr = <<>> /\ wr_addr = <<>>
    /\ rd_data = <<>> /\ wr_resp = <<>>
    /\ f_reqs = <<>>

\* slave_xactor.reset; the merged requests are kept.
XactorReset ==
    /\ rd_addr' = <<>> /\ wr_addr' = <<>>
    /\ rd_data' = <<>> /\ wr_resp' = <<>>
    /\ UNCHANGED f_reqs

\* The fabric.
BusRead(req) ==
    /\ Len(rd_addr) < BusDepth
    /\ rd_addr' = Append(rd_addr, req)
    /\ UNCHANGED <<wr_addr, rd_data, wr_resp, f_reqs>>

BusWrite(req) ==
    /\ Len(wr_addr) < BusDepth
    /\ wr_addr' = Append(wr_addr, req)
    /\ UNCHANGED <<rd_addr, rd_data, wr_resp, f_reqs>>

BusResponse ==
    \/ /\ rd_data # <<>>
       /\ rd_data' = Tail(rd_data)
       /\ UNCHANGED <<rd_addr, wr_addr, wr_resp, f_reqs>>
    \/ /\ wr_resp # <<>>
       /\ wr_resp' = Tail(wr_resp)
       /\ UNCHANGED <<rd_addr, wr_addr, rd_data, f_reqs>>

rl_merge_rd_req ==
    /\ rd_addr # <<>>
    /\ f_reqs = <<>>
    /\ f_reqs' = <<Head(rd_addr)>>
    /\ rd_addr' = Tail(rd_addr)
    /\ UNCHANGED <<wr_addr, rd_data, wr_resp>>

\* Less urgent than rl_merge_rd_req.
rl_merge_wr_req ==
    /\ wr_addr # <<>>
    /\ rd_addr = <<>>
    /\ f_reqs = <<>>
    /\ f_reqs' = <<Head(wr_addr)>>
    /\ wr_addr' = Tail(wr_addr)
    /\ UNCHANGED <<rd_addr, rd_data, wr_resp>>

PortNext ==
    \/ \E req \in Reads : BusRead(req)
    \/ \E req \in Writes : BusWrite(req)
    \/ BusResponse
    \/ rl_merge_rd_req
    \/ rl_merge_wr_req

\* Taking the merged request and answering it.
AnswerRead(rsp) ==
    /\ Len(rd_data) < BusDepth
    /\ rd_data' = Append(rd_data, rsp)
    /\ f_reqs' = <<>>
    /\ UNCHANGED <<rd_addr, wr_addr, wr_resp>>

AnswerWrite(rsp) ==
    /\ Len(wr_resp) < BusDepth
    /\ wr_resp' = Append(wr_resp, rsp)
    /\ f_reqs' = <<>>
    /\ UNCHANGED <<rd_addr, wr_addr, rd_data>>

=============================================================================
