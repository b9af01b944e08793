---------------------------- MODULE MCZipReduce ----------------------------
(***************************************************************************)
(* The same client and the same jobs with either of two units: the         *)
(* pairwise one, or the pipelined one, to which a job may bring more       *)
(* products than it has registers.                                         *)
(* Registers that both have are shared, since only one unit is there;      *)
(* those that only the other has stay as they are.                         *)
(***************************************************************************)
EXTENDS PairwiseMA

CONSTANT OutSize    \* product registers of the pipelined unit

VARIABLES
    connected,      \* the unit that is there
    out, fpu_madd   \* the pipelined unit's own registers

P == INSTANCE PipelinedMA WITH MaxAllocSize <- BufSize

\* What the proofs assume of the sizes.
ASSUME MCAssumption == RemRoom
ASSUME OutAssumption == OutSize \in Nat

pairwiseOnly ==
    <<buffer, rem_buf, rem_count, a_count, a_free, rem_free, ar_count, fpu_mult>>
pipelinedOnly == <<out, fpu_madd>>

Absent ==
    /\ buffer = <<>> /\ rem_buf = <<>> /\ fpu_mult = <<>>
    /\ rem_count = 0 /\ a_count = 0 /\ ar_count = 0
    /\ a_free = FALSE /\ rem_free = FALSE

MCInit ==
    \/ connected = "pairwise" /\ Init /\ out = <<>> /\ fpu_madd = <<>>
    \/ connected = "pipelined" /\ P!Init /\ Absent

With(unitNext, pipelinedNext) ==
    /\ UNCHANGED connected
    /\ \/ connected = "pairwise" /\ unitNext /\ UNCHANGED pipelinedOnly
       \/ connected = "pipelined" /\ pipelinedNext /\ UNCHANGED pairwiseOnly

\* A job that was started goes on.
Progress ==
    With(Rules \/ ClientReqOp \/ ClientGet, P!Rules \/ P!ClientReqOp \/ P!ClientGet)

allVars == <<connected, vars, pipelinedOnly>>
MCSpec == MCInit /\ [][With(Next, P!Next)]_allVars /\ WF_allVars(Progress)

(***************************************************************************)
(* The pipelined unit keeps its promise, although put is open while        *)
(* products of the current job are still in flight: a job that fits the    *)
(* registers is delivered with each product once; of a longer one the      *)
(* products without a register are lost, as in the bench, and additions    *)
(* that find no register may repeat one; nothing of a job before is ever   *)
(* added.                                                                  *)
(***************************************************************************)
PipelinedDelivers ==
    /\ connected = "pipelined" => ZR!Init
    /\ [][connected = "pipelined" => P!Promised]_client
=============================================================================
