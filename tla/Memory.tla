------------------------------- MODULE Memory ------------------------------
(***************************************************************************)
(* What a memory controller promises the fabric: a memory that answers     *)
(* reads and writes one after the other.  A word is saved in the raw       *)
(* memory some time after it was written, and before another word is       *)
(* written, so that a reset reverts at most one word, to what it once was. *)
(***************************************************************************)
EXTENDS MemPort

VARIABLES
    mem,      \* what the fabric reads
    posted,   \* what the raw memory will hold once it has caught up
    saved     \* what it holds, and what survives a reset

content == <<mem, posted, saved>>
vars == <<port, content>>

Init ==
    /\ PortInit
    /\ mem \in [Words -> [Lanes -> Value]]
    /\ posted = mem
    /\ saved = mem

Read ==
    /\ \E req \in Reads :
          /\ f_reqs = <<req>>
          /\ AnswerRead(IF req.ok THEN [resp |-> "OKAY", data |-> mem[req.word][req.lane]]
                                  ELSE [resp |-> "SLVERR"])
    /\ UNCHANGED content

Write ==
    \E req \in Writes :
        /\ f_reqs = <<req>>
        /\ req.ok
        /\ \A w \in Words \ {req.word} : saved[w] = mem[w]
        /\ mem' = [mem EXCEPT ![req.word][req.lane] = req.data]
        /\ AnswerWrite("OKAY")
        /\ UNCHANGED <<posted, saved>>

Refuse ==
    /\ \E req \in Writes : f_reqs = <<req>> /\ ~req.ok
    /\ AnswerWrite("SLVERR")
    /\ UNCHANGED content

Post ==
    /\ posted' = mem
    /\ UNCHANGED <<port, mem, saved>>

Save ==
    /\ saved' = posted
    /\ UNCHANGED <<port, mem, posted>>

Reset ==
    /\ mem' = saved /\ posted' = saved
    /\ XactorReset
    /\ UNCHANGED saved

Next ==
    \/ PortNext /\ UNCHANGED content
    \/ Read
    \/ Write
    \/ Refuse
    \/ Post
    \/ Save
    \/ Reset

Spec == Init /\ [][Next]_vars
=============================================================================
