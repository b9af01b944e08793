------------------------------- MODULE MCHost -------------------------------
(***************************************************************************)
(* The host's programs: the boot ROM is made, or a session of the debug    *)
(* server is run, of the simulator or of the test program.                 *)
(***************************************************************************)
EXTENDS DebugServer, BootRom

Read(a) == [op |-> DMI_OP_READ, addr |-> a, data |-> 0]
Write(a, v) == [op |-> DMI_OP_WRITE, addr |-> a, data |-> v]
Shutdown == [op |-> DMI_OP_SHUTDOWN, addr |-> 0, data |-> 0]
Start == [op |-> DMI_OP_START_COMMAND, addr |-> 0, data |-> 0]

Line(symbol, digits) == symbol \o <<" ">> \o digits
Before == Line(<<"m">> \o Symbol, <<"1">>)
Tables == { <<Before, Line(Symbol, <<"8", "0">>), Line(Symbol, <<"9">>)>>,
            <<Before, Line(Symbol \o <<"c">>, <<"7">>), Line(Symbol, <<"9">>)>>, <<Before>> }

Vector(n, b) == [num_bytes |-> n, vec_bytes |-> [i \in 1 .. TV_VB_SIZE |-> (b + i) % Radix]]

Session(program, commands, vbs, stops, closes, fails) ==
    {[program |-> program, table |-> table, commands |-> commands, vectors |-> vbs,
      stops |-> stops, closes |-> closes, fault |-> fails] :
        table \in IF commands = <<>> THEN Tables ELSE {<<Before>>}}

Debugging == {<<Write(1, 5), Read(1), Read(2)>>, <<Read(1), Write(1, 6), Read(1)>>,
              <<Read(0), Start, Write(0, 7), Read(0)>>}

MCSessions ==
    Session("simulator", <<>>, <<>>, TRUE, FALSE, "none") \cup
    UNION ({Session("simulator", c, <<>>, FALSE, FALSE, "none") : c \in Debugging}
      \cup {Session("simulator", <<Read(1), Shutdown>>, <<Vector(2, 1)>>, FALSE, FALSE, f) :
                f \in {"none", "listen", "accept", "close", "poll", "read", "write", "fwrite"}}
      \cup {Session("simulator", <<Read(1), Shutdown>>, <<>>, FALSE, FALSE, "fopen")}
      \cup {Session("simulator", <<Write(2, 4), Read(2)>>, <<Vector(3, 1), Vector(1, 2)>>,
                    stops, ~ stops, "none") : stops \in BOOLEAN}
      \cup {Session("test", <<Read(1), Write(1, 3), Start, Read(1)>> \o end, <<>>, FALSE, FALSE, f) :
                end \in {<<>>, <<Shutdown>>},
                f \in {"none", "read", "write", "listen", "accept", "close", "poll"}})

\* Which of the two runs.
Making == arg # "none"
MCInit ==
    \/ GenInit /\ call = "exit" /\ link = "closed" /\ tohost = <<>>
        /\ session \in Session("none", <<Start>>, <<>>, FALSE, FALSE, "none")
        /\ finish = <<>> /\ last = {} /\ p_result = <<>> /\ p_data = <<>> /\ rsp_data = 0
        /\ f_external_control_reqs = <<>> /\ f_external_control_rsps = <<>> /\ dm_read = <<>>
        /\ dm = <<>> /\ buf = <<>> /\ trace = <<>> /\ vectors = <<>>
        /\ outgoing = <<>> /\ toServer = <<>> /\ toClient = <<>> /\ received = <<>>
    \/ ServerInit /\ arg = "none" /\ fault = "none" /\ done = 0
        /\ at = [p \in {"gen", "dts", "dtc"} |-> "none"]
        /\ status = [p \in {"gen", "dts", "dtc"} |-> 0]
        /\ readers = [p \in Pipes |-> {}] /\ writers = readers /\ pipe = [p \in Pipes |-> <<>>]
        /\ input = <<>> /\ output = <<>> /\ dtb = <<>> /\ memhex = <<>> /\ fn_read_ROM = <<>>

vars == <<serverVars, romVars>>
MCNext ==
    \/ Making /\ GenNext /\ UNCHANGED serverVars
    \/ ~ Making /\ ServerNext /\ UNCHANGED romVars

Makes(A) == Making /\ A /\ UNCHANGED serverVars
Serves(A) == ~ Making /\ A /\ UNCHANGED romVars
MCSpec ==
    /\ MCInit /\ [][MCNext]_vars
    /\ WF_vars(Makes(gen_bootrom)) /\ WF_vars(Makes(dts_child)) /\ WF_vars(Makes(dtb_child))
    /\ WF_vars(Makes(execl)) /\ WF_vars(Makes(dtc))
    /\ WF_vars(Serves(Starting)) /\ WF_vars(Serves(Receiving)) /\ WF_vars(Serves(Sending))
    /\ WF_vars(Serves(rl_handle_external_req_read_request))
    /\ WF_vars(Serves(rl_handle_external_req_read_response))
    /\ WF_vars(Serves(rl_handle_external_req_write))
    /\ WF_vars(Serves(rl_tv_vb_out)) /\ WF_vars(Serves(rl_terminate))
    /\ WF_vars(Serves(Exit)) /\ WF_vars(Serves(ClientConnects))
    /\ WF_vars(Serves(ClientSends)) /\ WF_vars(Serves(ClientReceives))

\* The generator ends and leaves no child behind; a debug client gets its
\* answers, or its session and the simulation end.
HostEnds == (Making => GeneratorEnds) /\ (~ Making => SessionServed)
=============================================================================
