----------------------------- MODULE MatTypes ------------------------------
(***************************************************************************)
(* The values and the command format shared by the accelerator, the        *)
(* specification it implements and the firmware.                           *)
(*                                                                         *)
(* Floating point values are an arbitrary set Value and the FPU's fused    *)
(* multiply-accumulate an arbitrary operator Madd(c, a, b), read "c + a*b": *)
(* rounding and the exception flags (which the unit ignores) are left out. *)
(* Data addresses are cell indices: the byte address minus rg_addr_data,   *)
(* shifted right by 2.                                                     *)
(***************************************************************************)
EXTENDS Naturals

CONSTANTS
    Banks,          \* number of functional units, at least 1
    NumCells,       \* cells of the data memory (4096)
    MaxCount,       \* largest length of a command (255)
    Heads,          \* first words software writes: [unit, count]
    Operands,       \* pointer words software writes: [a, b, c]
    Value,          \* single precision values
    Zero,           \* 0.0
    Madd(_, _, _)   \* c + a * b, rounded once

Units == 0 .. Banks - 1
Cells == 0 .. NumCells - 1

Ptr == [addr : Nat, offset : Nat, stride : Nat]
HeadType == [unit : Units, count : 0 .. MaxCount]
OperandType == [a : Ptr, b : Ptr, c : Cells]
ArgsType == [unit : Units, count : 0 .. MaxCount, a : Ptr, b : Ptr, c : Cells]

\* The cell of the k-th element of an operand.
ElemCell(p, k) == p.addr + p.offset + p.stride * k

\* A whole command, as the decoder assembles it from the command register.
Args(h, o) == [unit |-> h.unit, count |-> h.count,
               a |-> o.a, b |-> o.b, c |-> o.c]

\* The command register after power up; its null pointers stand for cell 0.
ZeroPtr == [addr |-> 0, offset |-> 0, stride |-> 0]
ZeroHead == [unit |-> 0, count |-> 0]
ZeroOperands == [a |-> ZeroPtr, b |-> ZeroPtr, c |-> 0]

\* Software names existing units only and stays inside the data memory,
\* whichever of its words the decoder combines: what the hardware does
\* otherwise is undefined.
ASSUME MatTypesAssumption ==
    /\ Banks \in Nat \ {0}
    /\ NumCells \in Nat \ {0}
    /\ MaxCount \in Nat
    /\ Heads \subseteq HeadType
    /\ Operands \subseteq OperandType
    /\ \A o \in Operands \cup {ZeroOperands} : \A k \in 0 .. MaxCount - 1 :
          ElemCell(o.a, k) \in Cells /\ ElemCell(o.b, k) \in Cells
    /\ Zero \in Value
    /\ \A c, a, b \in Value : Madd(c, a, b) \in Value

Command == {Args(h, o) : h \in Heads \cup {ZeroHead},
                         o \in Operands \cup {ZeroOperands}}
=============================================================================
