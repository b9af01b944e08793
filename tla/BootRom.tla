------------------------------- MODULE BootRom -------------------------------
(***************************************************************************)
(* How the boot ROM is made: gen_bootrom.cc writes a device tree through a *)
(* pipe to the compiler dtc and reads the compiled tree (dtb) back through *)
(* another, puts it behind the reset vector and prints the image as words; *)
(* Gen_BSV_fn_read_ROM.py turns the words into the two functions that      *)
(* Boot_ROM.bsv reads.  Three processes: gen (the generator), dts (its     *)
(* child that writes the tree) and dtc; dtc itself is external.            *)
(***************************************************************************)
EXTENDS Integers, SequencesExt

CONSTANTS
    DtsBytes, DtbBytes,     \* the length of the tree, and compiled
    PipeBytes,              \* what a pipe holds
    Align,                  \* the image is a multiple of it (0x1000)
    ROM_BASE

VARIABLES
    arg,            \* the argument: "RV32", "RV64" or another
    fault,          \* what may fail: a system call, the compilation, "none"
    at,             \* process -> where it is; "exit" when it has ended
    status,         \* process -> its exit status; 1 also if a signal ended it
    readers, writers,   \* pipe -> the processes that hold its ends
    pipe,           \* pipe -> the bytes in it
    done,           \* bytes of the tree written
    input, output,  \* dtc: what it has read, what it has still to write
    dtb,            \* what the generator has read
    memhex,         \* the lines it printed
    fn_read_ROM     \* <<>>, or <<the arms of the two functions>>

processes == <<at, status>>
pipes == <<readers, writers, pipe>>
romVars == <<arg, fault, at, status, readers, writers, pipe, done, input, output, dtb, memhex, fn_read_ROM>>

Faults == {"none", "fork", "read", "write", "execl", "compile"}
Pipes == {"dts_pipe", "dtb_pipe"}
xlen == IF arg = "RV32" THEN 32 ELSE 64
dts == [i \in 1 .. DtsBytes |-> [tree |-> xlen, byte |-> i]]
Compiled == [i \in 1 .. DtbBytes |-> [of |-> <<"dtb", xlen>>, byte |-> i]]
-----------------------------------------------------------------------------
(* The image.  A word of the reset vector is an instruction with its        *)
(* immediate, or a half of the address it jumps to; a byte of it is its     *)
(* number in the word, from the lowest.                                     *)

bytes_per_word == 4
reset_vec_size == 8
reset_vec ==
    << <<"auipc", 0>>, <<"addi a1", reset_vec_size * bytes_per_word>>, <<"csrr a0", 0>>,
       <<IF xlen = 32 THEN "lw" ELSE "ld", 24>>, <<"jr", 0>>, <<"zero", 0>>,
       <<"start_pc low", 0>>, <<"start_pc high", 0>> >>

Bytes(word) == [j \in 1 .. bytes_per_word |-> [of |-> word, byte |-> j]]
Zero == [of |-> <<"zero", 0>>, byte |-> 1]
\* The bytes of a zero are all alike.
rom ==
    LET vector == FlattenSeq([w \in 1 .. reset_vec_size |->
                    IF reset_vec[w][1] = "zero" THEN [j \in 1 .. bytes_per_word |-> Zero]
                    ELSE Bytes(reset_vec[w])])
        inserted == vector \o dtb
        size == ((Len(inserted) + Align - 1) \div Align) * Align
    IN  inserted \o [i \in 1 .. size - Len(inserted) |-> Zero]

\* The lines printed: a word per line, its highest byte first.
Contents ==
    << <<"@ 1000">> >> \o
    [w \in 1 .. Len(rom) \div bytes_per_word |->
        [j \in 1 .. bytes_per_word |-> rom[w * bytes_per_word + 1 - j]]]
-----------------------------------------------------------------------------
(* The script: the words in turn are arms of one function and the other.    *)

IsAddress(line) == line = <<"@ 1000">>

\* Mutation: the line with the address counts as a word.
gen_BSV_ROM_function_counts(lines) ==
    [aligned \in {0, 4} |->
        [addr \in {4 * (k - 1) : k \in {k \in DOMAIN lines :
                        ~ IsAddress(lines[k]) /\ (4 * (k - 1)) % 8 = aligned}} |->
            lines[addr \div 4 + 1]]]

gen_BSV_ROM_function(lines) ==
    LET words == SelectSeq(lines, LAMBDA line : ~ IsAddress(line))
        addrs(aligned) == {addr \in {4 * (k - 1) : k \in DOMAIN words} : addr % 8 = aligned}
    IN  [aligned \in {0, 4} |-> [addr \in addrs(aligned) |-> words[addr \div 4 + 1]]]

Default == [j \in 1 .. bytes_per_word |-> [of |-> <<"AAAA", 0>>, byte |-> 1]]
Arm(fn, aligned, addr) == IF addr \in DOMAIN fn[aligned] THEN fn[aligned][addr] ELSE Default

\* Boot_ROM.bsv: the bytes of the answer to an aligned read, from the lowest;
\* on a bus of 32 bits the first half is used.
ReadROM(fn, araddr) ==
    LET byte_addr == araddr - ROM_BASE
    IN  IF araddr % 8 = 0 THEN Reverse(Arm(fn, 0, byte_addr)) \o Reverse(Arm(fn, 4, byte_addr + 4))
        ELSE Reverse(Arm(fn, 4, byte_addr))
-----------------------------------------------------------------------------
GenInit ==
    /\ arg \in {"RV32", "RV64", "RV128"} /\ fault \in Faults
    /\ at = [gen |-> "main", dts |-> "none", dtc |-> "none"]
    /\ status = [gen |-> 0, dts |-> 0, dtc |-> 0]
    /\ readers = [p \in Pipes |-> {}] /\ writers = [p \in Pipes |-> {}]
    /\ pipe = [p \in Pipes |-> <<>>]
    /\ done = 0 /\ input = <<>> /\ output = <<>> /\ dtb = <<>>
    /\ memhex = <<>> /\ fn_read_ROM = <<>>

Ended(p) == at[p] = "exit"

\* A process that ends closes its ends of the pipes.
exit(p, code) ==
    /\ at' = [at EXCEPT ![p] = "exit"] /\ status' = [status EXCEPT ![p] = code]
    /\ readers' = [q \in Pipes |-> readers[q] \ {p}]
    /\ writers' = [q \in Pipes |-> writers[q] \ {p}]
    /\ UNCHANGED pipe

Proceeds(p, where) == at' = [at EXCEPT ![p] = where] /\ UNCHANGED status

\* read takes what it likes of what is there; write what it likes of what
\* there is room for.
Takes(p, chunk) ==
    \E n \in 1 .. Len(pipe[p]) :
        /\ chunk = SubSeq(pipe[p], 1, n)
        /\ pipe' = [pipe EXCEPT ![p] = SubSeq(@, n + 1, Len(@))]
AtEnd(p) == pipe[p] = <<>> /\ writers[p] = {}
Room(p) == PipeBytes - Len(pipe[p])
Puts(p, chunk) == pipe' = [pipe EXCEPT ![p] = @ \o chunk]

unrelated == <<arg, fault, done, input, output, dtb, memhex, fn_read_ROM>>
-----------------------------------------------------------------------------
(* The generator.                                                           *)

main ==
    /\ at.gen = "main"
    /\ IF arg \in {"RV32", "RV64"} THEN Proceeds("gen", "fork dts") /\ UNCHANGED pipes
       ELSE exit("gen", 1)
    /\ UNCHANGED unrelated

\* A child starts with the ends that the generator has.
fork_dts ==
    /\ at.gen = "fork dts"
    /\ \/ /\ at' = [at EXCEPT !.gen = "fork dtb", !.dts = "close"]
          /\ readers' = [readers EXCEPT !["dts_pipe"] = {"gen", "dts"}]
          /\ writers' = [writers EXCEPT !["dts_pipe"] = {"gen", "dts"}]
          /\ UNCHANGED <<status, pipe>>
       \/ fault = "fork" /\ exit("gen", 1)
    /\ UNCHANGED unrelated

fork_dtb ==
    /\ at.gen = "fork dtb"
    /\ \/ /\ at' = [at EXCEPT !.gen = "close", !.dtc = "dup2"]
          /\ readers' = [dts_pipe |-> readers["dts_pipe"] \cup {"dtc"}, dtb_pipe |-> {"gen", "dtc"}]
          /\ writers' = [dts_pipe |-> writers["dts_pipe"] \cup {"dtc"}, dtb_pipe |-> {"gen", "dtc"}]
          /\ UNCHANGED <<status, pipe>>
       \/ fault = "fork" /\ exit("gen", 1)
    /\ UNCHANGED unrelated

\* Mutation: the generator keeps its end for writing the tree.
close_ends_keepsWriter ==
    /\ at.gen = "close" /\ Proceeds("gen", "read")
    /\ readers' = [readers EXCEPT !["dts_pipe"] = @ \ {"gen"}]
    /\ writers' = [writers EXCEPT !["dtb_pipe"] = @ \ {"gen"}]
    /\ UNCHANGED <<pipe, unrelated>>

close_ends ==
    /\ at.gen = "close" /\ Proceeds("gen", "read")
    /\ readers' = [readers EXCEPT !["dts_pipe"] = @ \ {"gen"}]
    /\ writers' = [p \in Pipes |-> writers[p] \ {"gen"}]
    /\ UNCHANGED <<pipe, unrelated>>

ReadOut ==
    /\ at.gen = "read"
    /\ \/ \E chunk \in {SubSeq(pipe["dtb_pipe"], 1, n) : n \in 1 .. Len(pipe["dtb_pipe"])} :
            /\ Takes("dtb_pipe", chunk) /\ dtb' = dtb \o chunk
            /\ UNCHANGED <<processes, readers, writers>>
       \/ AtEnd("dtb_pipe") /\ Proceeds("gen", "reap dts")
            /\ readers' = [readers EXCEPT !["dtb_pipe"] = @ \ {"gen"}]
            /\ UNCHANGED <<writers, pipe, dtb>>
       \/ fault = "read" /\ exit("gen", 1) /\ UNCHANGED dtb
    /\ UNCHANGED <<arg, fault, done, input, output, memhex, fn_read_ROM>>

reap(child, where, next) ==
    /\ at.gen = where /\ Ended(child)
    /\ IF status[child] = 0 THEN Proceeds("gen", next) /\ UNCHANGED pipes ELSE exit("gen", 1)
    /\ UNCHANGED unrelated

make_dtb ==
    /\ at.gen = "print" /\ memhex' = Contents /\ exit("gen", 0)
    /\ UNCHANGED <<arg, fault, done, input, output, dtb, fn_read_ROM>>

gen_bootrom ==
    \/ main \/ fork_dts \/ fork_dtb \/ close_ends \/ ReadOut
    \/ reap("dts", "reap dts", "reap dtb") \/ reap("dtc", "reap dtb", "print") \/ make_dtb
-----------------------------------------------------------------------------
(* The child that writes the tree.                                          *)

dts_child ==
    /\ \/ /\ at.dts = "close" /\ Proceeds("dts", "write") /\ done' = done
          /\ readers' = [readers EXCEPT !["dts_pipe"] = @ \ {"dts"}]
          /\ UNCHANGED <<writers, pipe>>
       \/ /\ at.dts = "write" /\ done < DtsBytes
          /\ \/ /\ readers["dts_pipe"] # {}
                /\ \E n \in 1 .. Room("dts_pipe") :
                      /\ done + n <= DtsBytes
                      /\ Puts("dts_pipe", SubSeq(dts, done + 1, done + n))
                      /\ done' = done + n
                /\ UNCHANGED <<processes, readers, writers>>
             \/ /\ fault = "write" \/ readers["dts_pipe"] = {}   \* killed by a signal
                /\ exit("dts", 1) /\ done' = done
       \/ at.dts = "write" /\ done = DtsBytes /\ exit("dts", 0) /\ done' = done
    /\ UNCHANGED <<arg, fault, input, output, dtb, memhex, fn_read_ROM>>
-----------------------------------------------------------------------------
(* The child that becomes dtc.  dtc reads to the end, and compiles the whole *)
(* tree or fails.                                                            *)

dtb_child ==
    /\ at.dtc = "dup2" /\ Proceeds("dtc", "execl")
    /\ writers' = [writers EXCEPT !["dts_pipe"] = @ \ {"dtc"}]
    /\ readers' = [readers EXCEPT !["dtb_pipe"] = @ \ {"dtc"}]
    /\ UNCHANGED <<pipe, unrelated>>

execl ==
    /\ at.dtc = "execl"
    /\ IF fault = "execl" THEN exit("dtc", 1) ELSE Proceeds("dtc", "compile") /\ UNCHANGED pipes
    /\ UNCHANGED unrelated

dtc ==
    /\ \/ /\ at.dtc = "compile"
          /\ \/ \E chunk \in {SubSeq(pipe["dts_pipe"], 1, n) : n \in 1 .. Len(pipe["dts_pipe"])} :
                  /\ Takes("dts_pipe", chunk) /\ input' = input \o chunk
                  /\ UNCHANGED <<processes, readers, writers, output>>
             \/ /\ AtEnd("dts_pipe") /\ input = dts /\ output' = Compiled
                /\ Proceeds("dtc", "emit") /\ UNCHANGED <<pipes, input>>
             \/ /\ fault = "compile" \/ (AtEnd("dts_pipe") /\ input # dts)
                /\ exit("dtc", 1) /\ UNCHANGED <<input, output>>
       \/ /\ at.dtc = "emit" /\ output # <<>>
          /\ IF readers["dtb_pipe"] = {} THEN exit("dtc", 1) /\ UNCHANGED output
             ELSE /\ \E n \in 1 .. Room("dtb_pipe") :
                        /\ n <= Len(output) /\ Puts("dtb_pipe", SubSeq(output, 1, n))
                        /\ output' = SubSeq(output, n + 1, Len(output))
                  /\ UNCHANGED <<processes, readers, writers>>
          /\ input' = input
       \/ /\ at.dtc = "emit" /\ output = <<>> /\ exit("dtc", 0) /\ UNCHANGED <<input, output>>
    /\ UNCHANGED <<arg, fault, done, dtb, memhex, fn_read_ROM>>
-----------------------------------------------------------------------------
\* The Makefile runs the script when the generator has succeeded.
Gen_BSV_fn_read_ROM ==
    /\ Ended("gen") /\ status.gen = 0 /\ fn_read_ROM = <<>>
    /\ fn_read_ROM' = <<gen_BSV_ROM_function(memhex)>>
    /\ UNCHANGED <<processes, pipes, arg, fault, done, input, output, dtb, memhex>>

GenNext == gen_bootrom \/ dts_child \/ dtb_child \/ execl \/ dtc \/ Gen_BSV_fn_read_ROM

GenSpec ==
    /\ GenInit /\ [][GenNext]_romVars
    /\ WF_romVars(gen_bootrom) /\ WF_romVars(dts_child) /\ WF_romVars(dtb_child)
    /\ WF_romVars(execl) /\ WF_romVars(dtc)
-----------------------------------------------------------------------------
(* Properties.                                                              *)

\* The byte at an address, read over a bus of so many bytes, and the word
\* there: known by its first byte if all of them belong to it.
ByteAt(fn, bus, addr) == ReadROM(fn, addr - (addr % bus))[(addr % bus) + 1]
WordAt(fn, bus, addr) ==
    LET first == ByteAt(fn, bus, addr).of
    IN  IF \A j \in 1 .. 4 : ByteAt(fn, bus, addr + j - 1) = [of |-> first, byte |-> j]
        THEN first ELSE <<"?", 0>>

\* What a processor finds that starts at the base: where it jumps, and where
\* a1 points.
Booted(fn, bus) ==
    LET t0 == ROM_BASE
        load == WordAt(fn, bus, ROM_BASE + 12)
        from == t0 + load[2]
    IN  [start |-> [h \in 1 .. (IF load[1] = "lw" THEN 1 ELSE 2) |->
                        WordAt(fn, bus, from + 4 * (h - 1))[1]],
         a1 |-> t0 + WordAt(fn, bus, ROM_BASE + 4)[2]]

(***************************************************************************)
(* A ROM that was made holds the whole compiled tree, whatever the reads   *)
(* and writes that carried it, and only if tree and compiler succeeded;    *)
(* started at its base, the processor jumps to start_pc with a1 pointing   *)
(* to the first byte of the tree, behind which are all others.             *)
(***************************************************************************)
RomComplete ==
    fn_read_ROM # <<>> =>
        /\ status.dts = 0 /\ status.dtc = 0
        /\ \A bus \in {4, 8} :
            LET fn == fn_read_ROM[1]
                boot == Booted(fn, bus)
            IN  /\ boot.start = IF xlen = 32 THEN <<"start_pc low">>
                                ELSE <<"start_pc low", "start_pc high">>
                /\ \A i \in 1 .. DtbBytes : ByteAt(fn, bus, boot.a1 + i - 1) = Compiled[i]

(***************************************************************************)
(* The generator ends, with an image or without, and leaves no child       *)
(* behind that waits on a pipe.                                            *)
(***************************************************************************)
GeneratorEnds == <>[](Ended("gen") /\ \A p \in {"dts", "dtc"} : at[p] = "none" \/ Ended(p))
=============================================================================
