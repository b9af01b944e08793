----------------------------- MODULE DebugServer -----------------------------
(***************************************************************************)
(* The host side of the simulation: Top_HW_Side.bsv and its imported C     *)
(* functions look up a symbol, record the trace, and serve a debug client  *)
(* over a stream socket, for the SoC's debug module.  One thread runs it   *)
(* all: while a C function reads or writes the socket, nothing else moves. *)
(* The test program of the C file serves the client alone.                 *)
(***************************************************************************)
EXTENDS Integers, SequencesExt

CONSTANTS
    Sessions,       \* what may happen: [program, table, commands, vectors,
                    \*   stops, closes, fault]
    SocketBytes,    \* what a direction of the connection holds
    ControlDepth,   \* the SoC's queues of control requests and responses
    TV_VB_SIZE, WordBytes, BUFSIZE, \* bytes of a trace vector, a word, buf
    Radix           \* values of a byte

VARIABLES
    session,    \* the one that happens
    call,       \* "start", or the C function the thread is in, "rules" when
                \* in none, "exit" at the end
    finish,     \* <<>>, or <<the status given to $finish>>
    last,       \* rules fired since then, in the last cycle
    p_result, p_data,   \* bytes of a request read, of a response to write
    rsp_data,   \* the next response of the test program
    tohost,     \* the address watched
    f_external_control_reqs, f_external_control_rsps,
    dm_read, dm,    \* in the debug module: addresses being read, registers
    buf, trace, \* the buffer of the trace, and its file
    vectors,    \* the trace vectors still to come
    link,       \* the connection: "none", "asked", "up", "closed"
    outgoing,   \* bytes the client has still to send
    toServer, toClient,     \* bytes under way
    received    \* the bytes the client has got

thread == <<call, finish, last, p_result, p_data, rsp_data>>
soc == <<f_external_control_reqs, f_external_control_rsps, dm_read, dm>>
tv == <<buf, trace, vectors>>
socket == <<link, outgoing, toServer, toClient, received>>
serverVars == <<session, thread, tohost, soc, tv, socket>>

DMI_OP_READ == 1
DMI_OP_WRITE == 2
DMI_OP_SHUTDOWN == 3
DMI_OP_START_COMMAND == 4

\* A request is its operation, an address and the data, low byte first; the
\* widths of address and data (2 and 4 bytes) are abstracted to 1 and 2.
RequestBytes == 4
ResponseBytes == 2
DataBytes(v) == <<v % Radix, v \div Radix>>
Data(low, high) == low + high * Radix
CommandBytes(c) == <<c.op, c.addr>> \o DataBytes(c.data)

Fails(what) == session.fault = what
-----------------------------------------------------------------------------
(* The symbol table: a line is a symbol, a space and hexadecimal digits.    *)

HexDigits == {"0", "1", "2", "3", "4", "5", "6", "7", "8", "9", "a", "b", "c", "d", "e", "f"}

\* sscanf's %x: spaces are skipped, then it takes all the digits it can.
Scanned(chars) ==
    LET from == CHOOSE i \in 1 .. Len(chars) + 1 :
                    /\ \A j \in 1 .. i - 1 : chars[j] = " "
                    /\ i <= Len(chars) => chars[i] # " "
        to == CHOOSE i \in from - 1 .. Len(chars) :
                    /\ \A j \in from .. i : chars[j] \in HexDigits
                    /\ i < Len(chars) => chars[i + 1] \notin HexDigits
    IN  SubSeq(chars, from, to)

\* The digits after the symbol on the first line that begins with it; none
\* (the value 0) without such a line, or if none follow.
c_get_symbol_val(table, symbol) ==
    LET found == {i \in DOMAIN table : IsPrefix(symbol, table[i])}
        line == CHOOSE i \in found : \A j \in found : i <= j
    IN  IF found = {} THEN <<>>
        ELSE Scanned(SubSeq(table[line], Len(symbol) + 1, Len(table[line])))

Symbol == <<"t", "o">>      \* tohost
-----------------------------------------------------------------------------
ServerInit ==
    /\ session \in Sessions
    /\ call = "start" /\ finish = <<>> /\ last = {}
    /\ p_result = <<>> /\ p_data = <<>> /\ rsp_data = 0 /\ tohost = <<>>
    /\ f_external_control_reqs = <<>> /\ f_external_control_rsps = <<>>
    /\ dm_read = <<>> /\ dm = [a \in 0 .. Radix - 1 |-> 0]
    /\ buf = [i \in 0 .. BUFSIZE - 1 |-> 0] /\ trace = <<>> /\ vectors = session.vectors
    /\ link = "none" /\ toServer = <<>> /\ toClient = <<>> /\ received = <<>>
    /\ outgoing = FlattenSeq([k \in DOMAIN session.commands |->
                                CommandBytes(session.commands[k])])

Simulator == session.program = "simulator"

\* $finish ends the simulation with the cycle: other rules may fire in it.
Fires(rule) == Simulator /\ call = "rules" /\ (finish = <<>> \/ rule \notin last)
Fired(rule) == last' = IF finish' = <<>> THEN {} ELSE last \cup {rule}
Finish(status) == finish' = <<status>>
Goes == finish' = finish

\* The test program stops at once where the simulator calls $finish.
Stops(rule, status) ==
    /\ IF Simulator THEN call' = "rules" ELSE call' = "exit"
    /\ Finish(status) /\ Fired(rule)
-----------------------------------------------------------------------------
(* Starting: the rule rl_step0 or the test program's first call.            *)

\* Without a trace file the simulation is to end, after the connection.
rl_step0 ==
    /\ call = "start" /\ call' = "connect"
    /\ IF Simulator
       THEN /\ tohost' = c_get_symbol_val(session.table, Symbol)
            /\ IF Fails("fopen") THEN Finish(1) ELSE Goes
       ELSE UNCHANGED <<tohost, finish>>
    /\ UNCHANGED <<session, last, p_result, p_data, rsp_data, soc, tv, socket>>

c_debug_client_connect ==
    /\ call = "connect"
    /\ IF Fails("listen") THEN Stops("step0", 1) ELSE call' = "accept" /\ Goes /\ last' = last
    /\ UNCHANGED <<session, p_result, p_data, rsp_data, tohost, soc, tv, socket>>

\* accept, tried each second, and closing the socket it listened on
Accept ==
    /\ call = "accept" /\ link = "asked"
    /\ IF Fails("accept") \/ Fails("close") THEN Stops("step0", 1)
       ELSE call' = "rules" /\ Goes /\ last' = last
    /\ link' = IF Fails("accept") THEN link ELSE "up"
    /\ UNCHANGED <<session, p_result, p_data, rsp_data, tohost, soc, tv, outgoing, toServer,
                   toClient, received>>
-----------------------------------------------------------------------------
(* Receiving a request.                                                     *)

\* The socket has something to read, its end included.
Readable == (link = "up" /\ toServer # <<>>) \/ link = "closed"

\* The rule waits for room for the request that it may get; poll itself may
\* fail, whatever there is to read.
Poll ==
    /\ IF Simulator THEN Fires("recv") /\ Len(f_external_control_reqs) < ControlDepth
       ELSE call = "rules"
    /\ \/ Readable /\ call' = "recv" /\ Goes /\ last' = last
       \/ Fails("poll") /\ Stops("recv", 1)
    /\ p_result' = <<>>
    /\ UNCHANGED <<session, p_data, rsp_data, tohost, soc, tv, socket>>

\* What the rule, and what the test program, do with a request.
Handle(req) ==
    LET op == req[1] IN
    /\ IF op = DMI_OP_SHUTDOWN THEN Stops("recv", 0)
       ELSE /\ call' = IF op = DMI_OP_READ /\ ~ Simulator THEN "send" ELSE "rules"
            /\ Goes /\ Fired("recv")
    /\ IF op \in {DMI_OP_READ, DMI_OP_WRITE} /\ Simulator
       THEN f_external_control_reqs' = Append(f_external_control_reqs,
                [op |-> op, arg1 |-> req[2], arg2 |-> Data(req[3], req[4])])
       ELSE UNCHANGED f_external_control_reqs
    /\ p_data' = IF op = DMI_OP_READ /\ ~ Simulator THEN DataBytes(rsp_data) ELSE p_data

\* Mutation: the request is what the first read gives, its rest left over
\* from the one before.
c_debug_client_request_recv_once ==
    /\ call = "recv" /\ toServer # <<>>
    /\ \E n \in 1 .. Len(toServer) :
          LET got == SubSeq(toServer, 1, n) IN
          /\ Len(got) <= RequestBytes
          /\ toServer' = SubSeq(toServer, n + 1, Len(toServer))
          /\ p_result' = <<>>
          /\ Handle(got \o SubSeq(<<0, 0, 0, 0>>, n + 1, RequestBytes))
    /\ UNCHANGED <<session, rsp_data, tohost, f_external_control_rsps, dm_read, dm, tv, link,
                   outgoing, toClient, received>>

\* A read gives what it likes of what there is, or fails.  At the end of the
\* stream it gives nothing, and the loop goes on for ever.
c_debug_client_request_recv ==
    /\ call = "recv"
    /\ \/ /\ \E n \in 1 .. Len(toServer) :
                LET got == p_result \o SubSeq(toServer, 1, n) IN
                /\ Len(got) <= RequestBytes
                /\ toServer' = SubSeq(toServer, n + 1, Len(toServer))
                /\ IF Len(got) < RequestBytes
                   THEN p_result' = got /\ call' = call /\ Goes /\ last' = last
                        /\ UNCHANGED <<f_external_control_reqs, p_data>>
                   ELSE p_result' = <<>> /\ Handle(got)
       \/ /\ Fails("read") /\ Stops("recv", 1)
          /\ UNCHANGED <<p_result, p_data, f_external_control_reqs, toServer>>
    /\ UNCHANGED <<session, rsp_data, tohost, f_external_control_rsps, dm_read, dm, tv, link,
                   outgoing, toClient, received>>
-----------------------------------------------------------------------------
(* The SoC's rules for control requests, and the debug module behind them.  *)

Unmoved == UNCHANGED <<session, call, p_result, p_data, rsp_data, tohost, tv, socket>>

rl_handle_external_req_read_request ==
    /\ Fires("read_request") /\ Goes /\ Fired("read_request")
    /\ f_external_control_reqs # <<>> /\ dm_read = <<>>
    /\ Head(f_external_control_reqs).op = DMI_OP_READ
    /\ dm_read' = <<Head(f_external_control_reqs).arg1>>
    /\ f_external_control_reqs' = Tail(f_external_control_reqs)
    /\ Unmoved /\ UNCHANGED <<f_external_control_rsps, dm>>

rl_handle_external_req_read_response ==
    /\ Fires("read_response") /\ Goes /\ Fired("read_response")
    /\ dm_read # <<>> /\ Len(f_external_control_rsps) < ControlDepth
    /\ f_external_control_rsps' = Append(f_external_control_rsps, dm[Head(dm_read)])
    /\ dm_read' = <<>>
    /\ Unmoved /\ UNCHANGED <<f_external_control_reqs, dm>>

rl_handle_external_req_write ==
    /\ Fires("write") /\ Goes /\ Fired("write")
    /\ f_external_control_reqs # <<>>
    /\ LET req == Head(f_external_control_reqs)
       IN  req.op = DMI_OP_WRITE /\ dm' = [dm EXCEPT ![req.arg1] = req.arg2]
    /\ f_external_control_reqs' = Tail(f_external_control_reqs)
    /\ Unmoved /\ UNCHANGED <<f_external_control_rsps, dm_read>>
-----------------------------------------------------------------------------
(* Sending a response.                                                      *)

rl_debug_client_response_send ==
    /\ Fires("send") /\ f_external_control_rsps # <<>>
    /\ call' = "send" /\ p_data' = DataBytes(Head(f_external_control_rsps))
    /\ f_external_control_rsps' = Tail(f_external_control_rsps)
    /\ UNCHANGED <<session, finish, last, p_result, rsp_data, tohost, f_external_control_reqs,
                   dm_read, dm, tv, socket>>

\* A write takes what it likes of what there is room for, or fails; when the
\* client has gone, its signal ends the program.
c_debug_client_response_send ==
    /\ call = "send"
    /\ \/ /\ link = "up"
          /\ \E n \in 1 .. Len(p_data) :
                /\ Len(toClient) + n <= SocketBytes
                /\ toClient' = toClient \o SubSeq(p_data, 1, n)
                /\ p_data' = SubSeq(p_data, n + 1, Len(p_data))
          /\ IF p_data' # <<>> THEN call' = call /\ Goes /\ last' = last /\ rsp_data' = rsp_data
             ELSE /\ call' = "rules" /\ Goes /\ Fired("send")
                  /\ rsp_data' = IF Simulator THEN 0 ELSE rsp_data + 1
       \/ /\ Fails("write") /\ Stops("send", 1)
          /\ UNCHANGED <<p_data, rsp_data, toClient>>
       \/ /\ link = "closed" /\ call' = "exit" /\ Finish(1) /\ last' = last
          /\ UNCHANGED <<p_data, rsp_data, toClient>>
    /\ UNCHANGED <<session, p_result, tohost, soc, tv, link, outgoing, toServer, received>>
-----------------------------------------------------------------------------
(* The trace: a vector of TV_VB_SIZE bytes, num_bytes of them in use.       *)

c_trace_file_load_word64_in_buffer(b, byte_offset, data) ==
    IF byte_offset + WordBytes - 1 >= BUFSIZE THEN b
    ELSE [i \in DOMAIN b |-> IF i \in byte_offset .. byte_offset + WordBytes - 1
                             THEN data[i - byte_offset + 1] ELSE b[i]]

\* fwrite writes all of the n bytes, or fails having written some.
rl_tv_vb_out ==
    /\ Fires("tv") /\ vectors # <<>>
    /\ LET vb == Head(vectors)
           n == vb.num_bytes
           load(b, w) == c_trace_file_load_word64_in_buffer(b, w * WordBytes,
                            SubSeq(vb.vec_bytes, w * WordBytes + 1, (w + 1) * WordBytes))
           words == [w \in 1 .. TV_VB_SIZE \div WordBytes |-> w - 1]
           filled == FoldLeft(load, buf, words)
       IN  /\ buf' = filled
           /\ \E k \in 0 .. n :
                /\ k < n => Fails("fwrite")
                /\ trace' = trace \o [i \in 1 .. k |-> filled[i - 1]]
                /\ IF k < n THEN Finish(1) ELSE Goes
    /\ vectors' = Tail(vectors) /\ Fired("tv")
    /\ UNCHANGED <<session, call, p_result, p_data, rsp_data, tohost, soc, socket>>

\* The processor has stored a status to the watched address.
rl_terminate ==
    /\ Fires("terminate") /\ session.stops
    /\ Finish(0) /\ Fired("terminate")
    /\ UNCHANGED <<session, call, p_result, p_data, rsp_data, tohost, soc, tv, socket>>

\* The process ends; the connection is reset, with what was under way or not.
Exit ==
    /\ \/ finish # <<>> /\ call = "rules" /\ call' = "exit"
       \/ call = "exit" /\ link = "up" /\ call' = call
    /\ link' = "closed"
    /\ toClient' \in {<<>>, toClient}
    /\ UNCHANGED <<session, finish, last, p_result, p_data, rsp_data, tohost, soc, tv,
                   outgoing, toServer, received>>
-----------------------------------------------------------------------------
(* The client may send requests without waiting for answers.                *)

ClientConnects ==
    /\ link = "none" /\ call = "accept" /\ link' = "asked"
    /\ UNCHANGED <<session, thread, tohost, soc, tv, outgoing, toServer, toClient, received>>

ClientSends ==
    /\ link = "up" /\ outgoing # <<>> /\ Len(toServer) < SocketBytes
    /\ toServer' = Append(toServer, Head(outgoing)) /\ outgoing' = Tail(outgoing)
    /\ UNCHANGED <<session, thread, tohost, soc, tv, link, toClient, received>>

ClientReceives ==
    /\ toClient # <<>>
    /\ received' = Append(received, Head(toClient)) /\ toClient' = Tail(toClient)
    /\ UNCHANGED <<session, thread, tohost, soc, tv, link, outgoing, toServer>>

ClientCloses ==
    /\ session.closes /\ link = "up" /\ outgoing = <<>> /\ link' = "closed"
    /\ UNCHANGED <<session, thread, tohost, soc, tv, outgoing, toServer, toClient, received>>

Client == ClientConnects \/ ClientSends \/ ClientReceives \/ ClientCloses
Receiving == Poll \/ c_debug_client_request_recv
Sending == rl_debug_client_response_send \/ c_debug_client_response_send
Starting == rl_step0 \/ c_debug_client_connect \/ Accept
ControlRule ==
    \/ rl_handle_external_req_read_request \/ rl_handle_external_req_read_response
    \/ rl_handle_external_req_write
ServerNext ==
    Starting \/ Receiving \/ Sending \/ ControlRule \/ rl_tv_vb_out \/ rl_terminate \/ Exit
        \/ Client

\* Each rule fires in every cycle in which it can, and the client's system
\* carries its bytes.
ServerSpec ==
    /\ ServerInit /\ [][ServerNext]_serverVars
    /\ WF_serverVars(Starting) /\ WF_serverVars(Receiving) /\ WF_serverVars(Sending)
    /\ WF_serverVars(rl_handle_external_req_read_request)
    /\ WF_serverVars(rl_handle_external_req_read_response)
    /\ WF_serverVars(rl_handle_external_req_write)
    /\ WF_serverVars(rl_tv_vb_out) /\ WF_serverVars(rl_terminate) /\ WF_serverVars(Exit)
    /\ WF_serverVars(ClientConnects) /\ WF_serverVars(ClientSends)
    /\ WF_serverVars(ClientReceives)
-----------------------------------------------------------------------------
(* Properties.                                                              *)

Positions(op) == SelectSeq([k \in DOMAIN session.commands |-> k],
                           LAMBDA k : session.commands[k].op = op)
\* What the first k commands leave in a register.
Written(addr, k) ==
    LET write(v, c) == IF c.op = DMI_OP_WRITE /\ c.addr = addr THEN c.data ELSE v
    IN  FoldLeft(write, 0, SubSeq(session.commands, 1, k))

\* The i-th read sees every write before it in the stream, and maybe some
\* that the client sent before it had the answer.
AnswerOf(i) ==
    IF Simulator
    THEN LET k == Positions(DMI_OP_READ)[i]
         IN  {Written(session.commands[k].addr, j) : j \in k .. Len(session.commands)}
    ELSE {i - 1}

Answers == [i \in 1 .. Len(received) \div ResponseBytes |->
                Data(received[ResponseBytes * i - 1], received[ResponseBytes * i])]

(***************************************************************************)
(* What the client is answered belongs to what it asked, in that order,    *)
(* however reads and writes of the socket cut its requests and their       *)
(* answers: the i-th answer is the value of the i-th register it read,     *)
(* with all the writes sent before.                                        *)
(***************************************************************************)
AnswersWhole ==
    /\ Len(Answers) <= Len(Positions(DMI_OP_READ))
    /\ \A i \in DOMAIN Answers : Answers[i] \in AnswerOf(i)

(***************************************************************************)
(* The trace file is the used bytes of the vectors, in order, cut only     *)
(* when a failed write ends the simulation.                                *)
(***************************************************************************)
TraceWhole ==
    LET bytes(vb) == SubSeq(vb.vec_bytes, 1, vb.num_bytes)
        done == Len(session.vectors) - Len(vectors)
        all(n) == FlattenSeq([k \in 1 .. n |-> bytes(session.vectors[k])])
    IN  trace = all(done) \/ (finish # <<>> /\ IsPrefix(trace, all(done)))

(***************************************************************************)
(* The watched address is the one of the line with the symbol, unless a    *)
(* line before it begins with the symbol too.                              *)
(***************************************************************************)
SymbolFound ==
    \A i \in DOMAIN session.table :
        (Simulator /\ call # "start" /\ IsPrefix(Append(Symbol, " "), session.table[i])
         /\ \A j \in 1 .. i - 1 : ~ IsPrefix(Symbol, session.table[j]))
            => tohost = SubSeq(session.table[i], Len(Symbol) + 2, Len(session.table[i]))

StreamsWhole == AnswersWhole /\ TraceWhole /\ SymbolFound

Ending == session.stops \/ \E k \in DOMAIN session.commands :
                                session.commands[k].op = DMI_OP_SHUTDOWN

(***************************************************************************)
(* A client that stays gets all its answers, or its session ends; the      *)
(* session of one that asks for it ends, and with it the simulation.       *)
(***************************************************************************)
SessionServed ==
    IF Ending THEN session.closes \/ <>(call = "exit")
    ELSE session.closes \/ session.fault # "none"
            \/ <>(Len(Answers) = Len(Positions(DMI_OP_READ)))
=============================================================================
