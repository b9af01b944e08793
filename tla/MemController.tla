--------------------------- MODULE MemController ---------------------------
(***************************************************************************)
(* The memory controller mkMem_Controller with the raw memory outside the  *)
(* SoC.  It keeps one raw memory word in a write back cache: a miss first  *)
(* writes a dirty word back and then reloads; an idle controller writes    *)
(* back too.  Raw memory requests wait in a FIFO of one.  A reset empties  *)
(* the transactor and that FIFO and reloads word 0.                        *)
(***************************************************************************)
EXTENDS MemPort

CONSTANTS
    FirstWord,   \* raw memory address 0
    ToHost       \* write requests that end the simulation, if it watches

ASSUME MemControllerAssumption == FirstWord \in Words /\ ToHost \subseteq Writes

VARIABLES
    rg_state, f_reset_reqs, f_reset_rsps,
    f_raw_mem_reqs, f_raw_mem_rsps,
    rg_cached_clean, rg_cached_raw_mem_addr, rg_cached_raw_mem_word,
    rg_status,    \* 0, or 1 when the simulation is to end
    rf            \* the raw memory

reset == <<f_reset_reqs, f_reset_rsps>>
raw == <<f_raw_mem_reqs, f_raw_mem_rsps>>
cache == <<rg_cached_clean, rg_cached_raw_mem_addr, rg_cached_raw_mem_word>>
vars == <<port, rg_state, reset, raw, cache, rg_status, rf>>

Line == [Lanes -> Value]
RawRead(w) == [write |-> FALSE, address |-> w]
RawWrite(w, x) == [write |-> TRUE, address |-> w, data |-> x]

\* The cache registers are not initialised.
Init ==
    /\ PortInit
    /\ rg_state = "POWER_ON_RESET"
    /\ f_reset_reqs = FALSE /\ f_reset_rsps = FALSE
    /\ f_raw_mem_reqs = <<>> /\ f_raw_mem_rsps = <<>>
    /\ rg_cached_clean \in BOOLEAN
    /\ rg_cached_raw_mem_addr \in Words
    /\ rg_cached_raw_mem_word \in Line
    /\ rg_status = 0
    /\ rf \in [Words -> Line]
-----------------------------------------------------------------------------
ResetRequest ==
    /\ ~f_reset_reqs
    /\ f_reset_reqs' = TRUE
    /\ UNCHANGED <<port, rg_state, f_reset_rsps, raw, cache, rg_status, rf>>

ResetResponse ==
    /\ f_reset_rsps
    /\ f_reset_rsps' = FALSE
    /\ UNCHANGED <<port, rg_state, f_reset_reqs, raw, cache, rg_status, rf>>

\* Mem_Model, request.put
RawMem ==
    /\ f_raw_mem_reqs # <<>>
    /\ LET req == Head(f_raw_mem_reqs)
       IN  IF req.write
           THEN /\ rf' = [rf EXCEPT ![req.address] = req.data]
                /\ UNCHANGED f_raw_mem_rsps
           ELSE /\ f_raw_mem_rsps = <<>>
                /\ f_raw_mem_rsps' = <<rf[req.address]>>
                /\ UNCHANGED rf
    /\ f_raw_mem_reqs' = <<>>
    /\ UNCHANGED <<port, rg_state, reset, cache, rg_status>>
-----------------------------------------------------------------------------
fa_reset_actions ==
    /\ XactorReset
    /\ f_raw_mem_reqs' = <<>> /\ f_raw_mem_rsps' = <<>>
    /\ rg_status' = 0
    /\ rg_state' = "RESET_RELOAD_CACHE"

rl_power_on_reset ==
    /\ rg_state = "POWER_ON_RESET"
    /\ fa_reset_actions
    /\ UNCHANGED <<reset, cache, rf>>

rl_external_reset ==
    /\ rg_state = "READY"
    /\ f_reset_reqs /\ ~f_reset_rsps
    /\ f_reset_reqs' = FALSE /\ f_reset_rsps' = TRUE
    /\ fa_reset_actions
    /\ UNCHANGED <<cache, rf>>

RawRequest(req) == f_raw_mem_reqs = <<>> /\ f_raw_mem_reqs' = <<req>>

rl_reset_reload_cache ==
    /\ rg_state = "RESET_RELOAD_CACHE"
    /\ RawRequest(RawRead(FirstWord))
    /\ rg_cached_raw_mem_addr' = FirstWord
    /\ rg_state' = "RELOADING"
    /\ UNCHANGED <<port, reset, f_raw_mem_rsps, rg_cached_clean, rg_cached_raw_mem_word,
                   rg_status, rf>>

WriteBack ==
    /\ RawRequest(RawWrite(rg_cached_raw_mem_addr, rg_cached_raw_mem_word))
    /\ rg_cached_clean' = TRUE
    /\ UNCHANGED <<port, rg_state, reset, f_raw_mem_rsps, rg_cached_raw_mem_addr,
                   rg_cached_raw_mem_word, rg_status, rf>>

rl_writeback_dirty_idle ==
    /\ rg_state = "READY"
    /\ f_reqs = <<>>
    /\ ~rg_cached_clean
    /\ WriteBack

\* The merged request is in range and its word is cached, or is not.
Hit == f_reqs # <<>> /\ f_reqs[1].ok /\ f_reqs[1].word = rg_cached_raw_mem_addr
Miss == f_reqs # <<>> /\ f_reqs[1].ok /\ f_reqs[1].word # rg_cached_raw_mem_addr

rl_writeback_dirty ==
    /\ rg_state = "READY"
    /\ Miss
    /\ ~rg_cached_clean
    /\ WriteBack

\* Mutation: a dirty word is replaced.
rl_miss_clean_req_dropsDirty ==
    /\ rg_state = "READY"
    /\ Miss
    /\ RawRequest(RawRead(f_reqs[1].word))
    /\ rg_cached_raw_mem_addr' = f_reqs[1].word
    /\ rg_state' = "RELOADING"
    /\ UNCHANGED <<port, reset, f_raw_mem_rsps, rg_cached_clean, rg_cached_raw_mem_word,
                   rg_status, rf>>

\* Mutation: the cached address is not updated.
rl_miss_clean_req_keepsAddr ==
    /\ rg_state = "READY"
    /\ Miss
    /\ rg_cached_clean
    /\ RawRequest(RawRead(f_reqs[1].word))
    /\ rg_state' = "RELOADING"
    /\ UNCHANGED <<rg_cached_raw_mem_addr, port, reset, f_raw_mem_rsps, rg_cached_clean, rg_cached_raw_mem_word,
                   rg_status, rf>>

\* Mutation: the read overtakes a posted write back.
rl_miss_clean_req_bypasses ==
    /\ rg_state = "READY"
    /\ Miss
    /\ rg_cached_clean
    /\ f_raw_mem_rsps' = <<rf[f_reqs[1].word]>>
    /\ rg_cached_raw_mem_addr' = f_reqs[1].word
    /\ rg_state' = "RELOADING"
    /\ UNCHANGED <<port, reset, f_raw_mem_reqs, rg_cached_clean, rg_cached_raw_mem_word,
                   rg_status, rf>>

rl_miss_clean_req ==
    /\ rg_state = "READY"
    /\ Miss
    /\ rg_cached_clean
    /\ RawRequest(RawRead(f_reqs[1].word))
    /\ rg_cached_raw_mem_addr' = f_reqs[1].word
    /\ rg_state' = "RELOADING"
    /\ UNCHANGED <<port, reset, f_raw_mem_rsps, rg_cached_clean, rg_cached_raw_mem_word,
                   rg_status, rf>>

rl_reload ==
    /\ rg_state = "RELOADING"
    /\ f_raw_mem_rsps # <<>>
    /\ rg_cached_raw_mem_word' = Head(f_raw_mem_rsps)
    /\ f_raw_mem_rsps' = <<>>
    /\ rg_cached_clean' = TRUE
    /\ rg_state' = "READY"
    /\ UNCHANGED <<port, reset, f_raw_mem_reqs, rg_cached_raw_mem_addr, rg_status, rf>>

rl_process_rd_req ==
    /\ rg_state = "READY"
    /\ Hit
    /\ f_reqs[1].op = "RD"
    /\ AnswerRead([resp |-> "OKAY", data |-> rg_cached_raw_mem_word[f_reqs[1].lane]])
    /\ UNCHANGED <<rg_state, reset, raw, cache, rg_status, rf>>

\* Mutation: the word is not marked dirty.
rl_process_wr_req_keepsClean ==
    /\ rg_state = "READY"
    /\ Hit
    /\ f_reqs[1].op = "WR"
    /\ rg_cached_raw_mem_word' =
          [rg_cached_raw_mem_word EXCEPT ![f_reqs[1].lane] = f_reqs[1].data]
    /\ UNCHANGED rg_cached_clean
    /\ rg_status' = IF f_reqs[1] \in ToHost THEN 1 ELSE rg_status
    /\ AnswerWrite("OKAY")
    /\ UNCHANGED <<rg_state, reset, raw, rg_cached_raw_mem_addr, rf>>

rl_process_wr_req ==
    /\ rg_state = "READY"
    /\ Hit
    /\ f_reqs[1].op = "WR"
    /\ rg_cached_raw_mem_word' =
          [rg_cached_raw_mem_word EXCEPT ![f_reqs[1].lane] = f_reqs[1].data]
    /\ rg_cached_clean' = FALSE
    /\ rg_status' = IF f_reqs[1] \in ToHost THEN 1 ELSE rg_status
    /\ AnswerWrite("OKAY")
    /\ UNCHANGED <<rg_state, reset, raw, rg_cached_raw_mem_addr, rf>>

rl_invalid_rd_address ==
    /\ rg_state = "READY"
    /\ f_reqs # <<>> /\ ~f_reqs[1].ok /\ f_reqs[1].op = "RD"
    /\ AnswerRead([resp |-> "SLVERR"])
    /\ UNCHANGED <<rg_state, reset, raw, cache, rg_status, rf>>

rl_invalid_wr_address ==
    /\ rg_state = "READY"
    /\ f_reqs # <<>> /\ ~f_reqs[1].ok /\ f_reqs[1].op = "WR"
    /\ AnswerWrite("SLVERR")
    /\ UNCHANGED <<rg_state, reset, raw, cache, rg_status, rf>>

Handle ==
    \/ rl_writeback_dirty
    \/ rl_miss_clean_req
    \/ rl_process_rd_req
    \/ rl_process_wr_req
    \/ rl_invalid_rd_address
    \/ rl_invalid_wr_address

Next ==
    \/ PortNext /\ UNCHANGED <<rg_state, reset, raw, cache, rg_status, rf>>
    \/ ResetRequest
    \/ ResetResponse
    \/ RawMem
    \/ rl_power_on_reset
    \/ rl_external_reset
    \/ rl_reset_reload_cache
    \/ rl_writeback_dirty_idle
    \/ rl_reload
    \/ Handle

Spec == Init /\ [][Next]_vars

\* Rules that stay enabled fire, and the fabric takes responses.
Fairness ==
    /\ WF_vars(BusResponse /\ UNCHANGED <<rg_state, reset, raw, cache, rg_status, rf>>)
    /\ WF_vars(rl_merge_rd_req /\ UNCHANGED <<rg_state, reset, raw, cache, rg_status, rf>>)
    /\ WF_vars(RawMem)
    /\ WF_vars(rl_power_on_reset)
    /\ WF_vars(rl_reset_reload_cache)
    /\ WF_vars(rl_reload)
    /\ WF_vars(Handle)

FairSpec == Spec /\ Fairness
-----------------------------------------------------------------------------
(* Properties.                                                              *)

\* What the raw memory will hold once the write in its FIFO is done, and
\* what it will hold once the cached word is written back too.
Written ==
    IF f_raw_mem_reqs # <<>> /\ f_raw_mem_reqs[1].write
    THEN [rf EXCEPT ![f_raw_mem_reqs[1].address] = f_raw_mem_reqs[1].data]
    ELSE rf
Current ==
    IF rg_state = "READY" /\ ~rg_cached_clean
    THEN [Written EXCEPT ![rg_cached_raw_mem_addr] = rg_cached_raw_mem_word]
    ELSE Written

\* A clean cached word is the current one, and a reload brings the current
\* word although the write back before it may still have been on its way
\* when the read was requested.
CacheCoherent ==
    /\ rg_state = "READY" /\ rg_cached_clean
          => rg_cached_raw_mem_word = Current[rg_cached_raw_mem_addr]
    /\ rg_state = "RELOADING" =>
          \/ f_raw_mem_reqs = <<RawRead(rg_cached_raw_mem_addr)>> /\ f_raw_mem_rsps = <<>>
          \/ f_raw_mem_reqs = <<>> /\ f_raw_mem_rsps = <<Current[rg_cached_raw_mem_addr]>>

\* Acknowledged writes that a reset would lose are all in one word.
OneWordAtRisk == \A v, w \in Words : Current[v] # rf[v] /\ Current[w] # rf[w] => v = w

\* The controller is a memory: each read returns what was last written to
\* its lane, and only a reset reverts a word, and only one.
M == INSTANCE Memory WITH mem <- Current, posted <- Written, saved <- rf
ImplementsMemory == M!Spec

\* A read the controller has merged is answered, whatever the cache holds,
\* unless the controller is reset again and again.
ReadsAnswered ==
    []<>(rg_state = "RESET_RELOAD_CACHE") \/ \A req \in Reads : (f_reqs = <<req>>) ~> (f_reqs = <<>>)
=============================================================================
