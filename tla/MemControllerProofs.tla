------------------------- MODULE MemControllerProofs ------------------------
(***************************************************************************)
(* The memory controller for all words, lanes and values, all requests and *)
(* every depth of the transactor: the cache is coherent, one word at most  *)
(* is at risk, and the controller implements a memory.                     *)
(***************************************************************************)
EXTENDS MemController, SequenceTheorems, TLAPS

RawRequests ==
    {<<>>} \cup {<<RawRead(w)>> : w \in Words}
           \cup {<<RawWrite(w, x)>> : w \in Words, x \in Line}

TypeOK ==
    /\ rd_addr \in Seq(Reads) /\ wr_addr \in Seq(Writes)
    /\ f_reqs = <<>> \/ \E req \in Reads \cup Writes : f_reqs = <<req>>
    /\ rg_state \in {"POWER_ON_RESET", "RESET_RELOAD_CACHE", "RELOADING", "READY"}
    /\ f_raw_mem_reqs \in RawRequests
    /\ f_raw_mem_rsps = <<>> \/ \E x \in Line : f_raw_mem_rsps = <<x>>
    /\ rg_cached_clean \in BOOLEAN
    /\ rg_cached_raw_mem_addr \in Words
    /\ rg_cached_raw_mem_word \in Line
    /\ rf \in [Words -> Line]

\* While the controller serves requests, only a write back of the word that
\* is still cached may be on its way, and a clean word is what it brings.
ReadyInv ==
    rg_state = "READY" =>
        /\ f_raw_mem_rsps = <<>>
        /\ \/ f_raw_mem_reqs = <<>>
           \/ \E x \in Line : f_raw_mem_reqs = <<RawWrite(rg_cached_raw_mem_addr, x)>>
        /\ rg_cached_clean => Written[rg_cached_raw_mem_addr] = rg_cached_raw_mem_word

\* A reload is one read, asked or answered.
ReloadInv ==
    rg_state = "RELOADING" =>
        \/ f_raw_mem_reqs = <<RawRead(rg_cached_raw_mem_addr)>> /\ f_raw_mem_rsps = <<>>
        \/ f_raw_mem_reqs = <<>> /\ f_raw_mem_rsps = <<rf[rg_cached_raw_mem_addr]>>

\* Around a reset nothing is on its way.
ResetInv ==
    rg_state \in {"POWER_ON_RESET", "RESET_RELOAD_CACHE"} =>
        f_raw_mem_reqs = <<>> /\ f_raw_mem_rsps = <<>>

IInv == TypeOK /\ ReadyInv /\ ReloadInv /\ ResetInv
-----------------------------------------------------------------------------
(* Requests, and what the raw memory will hold.                             *)

LEMMA RequestTypes ==
    /\ \A req \in Reads : req.op = "RD" /\ (req.ok => req.word \in Words /\ req.lane \in Lanes)
    /\ \A req \in Writes : /\ req.op = "WR"
                           /\ req.ok => /\ req.word \in Words /\ req.lane \in Lanes
                                        /\ req.data \in Value
BY MemPortAssumption DEF MemPortAssumption, RdReq, WrReq

LEMMA RawFields ==
    /\ \A w : RawRead(w).write = FALSE /\ RawRead(w).address = w
    /\ \A w, x : RawWrite(w, x).write = TRUE /\ RawWrite(w, x).address = w
                    /\ RawWrite(w, x).data = x
BY DEF RawRead, RawWrite

LEMMA WrittenIdle ==
    (f_raw_mem_reqs = <<>> \/ \E w : f_raw_mem_reqs = <<RawRead(w)>>) => Written = rf
BY RawFields DEF Written

LEMMA WrittenPosted ==
    ASSUME NEW w, NEW x, f_raw_mem_reqs = <<RawWrite(w, x)>>
    PROVE  Written = [rf EXCEPT ![w] = x]
BY RawFields DEF Written

LEMMA WrittenType == TypeOK => Written \in [Words -> Line]
<1> SUFFICES ASSUME TypeOK PROVE Written \in [Words -> Line]
  OBVIOUS
<1>1. CASE \E w \in Words, x \in Line : f_raw_mem_reqs = <<RawWrite(w, x)>>
  BY <1>1, WrittenPosted DEF TypeOK
<1>2. CASE ~ \E w \in Words, x \in Line : f_raw_mem_reqs = <<RawWrite(w, x)>>
  BY <1>2, WrittenIdle DEF TypeOK, RawRequests
<1>3. QED
  BY <1>1, <1>2

LEMMA CurrentType == TypeOK => Current \in [Words -> Line]
BY WrittenType DEF Current, TypeOK

\* The word that is cached, when it may be served.
LEMMA CurrentCached ==
    IInv /\ rg_state = "READY" => Current[rg_cached_raw_mem_addr] = rg_cached_raw_mem_word
BY WrittenType DEF IInv, TypeOK, ReadyInv, Current

\* Every other word is saved.
LEMMA OthersSaved ==
    ASSUME IInv, NEW w \in Words, rg_state # "READY" \/ w # rg_cached_raw_mem_addr
    PROVE  Current[w] = rf[w]
<1>1. CASE rg_state = "READY"
  <2>1. Written[w] = rf[w]
    BY <1>1, WrittenIdle, WrittenPosted DEF IInv, TypeOK, ReadyInv
  <2>2. QED
    BY <1>1, <2>1, WrittenType DEF IInv, TypeOK, Current
<1>2. CASE rg_state # "READY"
  BY <1>2, WrittenIdle DEF IInv, TypeOK, ReloadInv, ResetInv, Current
<1>3. QED
  BY <1>1, <1>2
-----------------------------------------------------------------------------
(* The invariant is inductive.                                              *)

LEMMA InitIInv == Init => IInv
<1> SUFFICES ASSUME Init PROVE IInv
  OBVIOUS
<1>1. TypeOK
  BY DEF Init, PortInit, TypeOK, RawRequests, Line
<1>2. QED
  BY <1>1 DEF Init, IInv, ReadyInv, ReloadInv, ResetInv

\* Rules of the port: only the transactor and the merged request change.
LEMMA PortStep ==
    ASSUME IInv, PortNext, UNCHANGED <<rg_state, reset, raw, cache, rg_status, rf>>
    PROVE  IInv'
<1>1. /\ rd_addr' \in Seq(Reads) /\ wr_addr' \in Seq(Writes)
      /\ f_reqs' = <<>> \/ \E req \in Reads \cup Writes : f_reqs' = <<req>>
  <2>1. CASE \E req \in Reads : BusRead(req)
    BY <2>1 DEF BusRead, IInv, TypeOK
  <2>2. CASE \E req \in Writes : BusWrite(req)
    BY <2>2 DEF BusWrite, IInv, TypeOK
  <2>3. CASE BusResponse
    BY <2>3 DEF BusResponse, IInv, TypeOK
  <2>4. CASE rl_merge_rd_req
    BY <2>4, HeadTailProperties DEF rl_merge_rd_req, IInv, TypeOK
  <2>5. CASE rl_merge_wr_req
    BY <2>5, HeadTailProperties DEF rl_merge_wr_req, IInv, TypeOK
  <2>6. QED
    BY <2>1, <2>2, <2>3, <2>4, <2>5 DEF PortNext
<1>2. UNCHANGED Written
  BY DEF Written, raw
<1>3. TypeOK'
  BY <1>1 DEF IInv, TypeOK, raw, cache
<1>4. QED
  BY <1>2, <1>3 DEF IInv, ReadyInv, ReloadInv, ResetInv, raw, cache

\* The raw memory writes what was posted, or answers the read.
LEMMA RawMemStep ==
    ASSUME IInv, RawMem
    PROVE  IInv' /\ rf' = Written /\ Written' = Written
<1>1. f_raw_mem_reqs # <<>> /\ f_raw_mem_reqs' = <<>>
  BY DEF RawMem
<1>2. rg_state' = rg_state /\ UNCHANGED <<port, cache>>
  BY DEF RawMem
<1>3. rg_state \in {"READY", "RELOADING"}
  BY <1>1 DEF IInv, TypeOK, ResetInv
<1>4. CASE rg_state = "READY"
  <2>1. PICK x \in Line : f_raw_mem_reqs = <<RawWrite(rg_cached_raw_mem_addr, x)>>
    BY <1>1, <1>4 DEF IInv, ReadyInv
  <2>2. /\ rf' = [rf EXCEPT ![rg_cached_raw_mem_addr] = x]
        /\ f_raw_mem_rsps' = f_raw_mem_rsps
    BY <2>1, RawFields DEF RawMem
  <2>3. rf' = Written /\ Written' = rf'
    BY <1>1, <2>1, <2>2, WrittenPosted DEF Written
  <2>4. TypeOK'
    BY <1>1, <1>2, <2>2 DEF IInv, TypeOK, RawRequests, port, xactor, cache
  <2>5. QED
    BY <1>1, <1>2, <1>4, <2>2, <2>3, <2>4
       DEF IInv, ReadyInv, ReloadInv, ResetInv, cache
<1>5. CASE rg_state = "RELOADING"
  <2>1. f_raw_mem_reqs = <<RawRead(rg_cached_raw_mem_addr)>>
    BY <1>1, <1>5 DEF IInv, ReloadInv
  <2>2. rf' = rf /\ f_raw_mem_rsps' = <<rf[rg_cached_raw_mem_addr]>>
    BY <2>1, RawFields DEF RawMem
  <2>3. Written = rf /\ Written' = rf'
    BY <1>1, <2>1, WrittenIdle DEF Written
  <2>4. TypeOK'
    BY <1>1, <1>2, <2>2 DEF IInv, TypeOK, RawRequests, port, xactor, cache
  <2>5. QED
    BY <1>1, <1>2, <1>5, <2>2, <2>3, <2>4
       DEF IInv, ReadyInv, ReloadInv, ResetInv, cache
<1>6. QED
  BY <1>3, <1>4, <1>5

\* Of a reset the raw memory alone survives.
LEMMA ResetStep ==
    ASSUME IInv, rl_power_on_reset \/ rl_external_reset
    PROVE  IInv' /\ Written' = rf /\ Current' = rf
<1>1. /\ fa_reset_actions /\ UNCHANGED <<cache, rf>>
  BY DEF rl_power_on_reset, rl_external_reset
<1>2. Written' = rf
  BY <1>1 DEF fa_reset_actions, Written
<1>3. TypeOK'
  BY <1>1 DEF fa_reset_actions, XactorReset, IInv, TypeOK, RawRequests, cache
<1>4. QED
  BY <1>1, <1>2, <1>3 DEF fa_reset_actions, IInv, ReadyInv, ReloadInv, ResetInv, Current

\* The word is posted as it is.
LEMMA WriteBackStep ==
    ASSUME IInv, WriteBack, rg_state = "READY", ~rg_cached_clean
    PROVE  IInv' /\ Written' = Current /\ Current' = Current
<1>1. /\ f_raw_mem_reqs = <<>>
      /\ f_raw_mem_reqs' = <<RawWrite(rg_cached_raw_mem_addr, rg_cached_raw_mem_word)>>
      /\ rg_cached_clean' = TRUE
      /\ UNCHANGED <<port, rg_state, f_raw_mem_rsps, rg_cached_raw_mem_addr,
                     rg_cached_raw_mem_word, rf>>
  BY DEF WriteBack, RawRequest
<1>2. Written = rf
  BY <1>1, WrittenIdle
<1>3. Written' = [rf EXCEPT ![rg_cached_raw_mem_addr] = rg_cached_raw_mem_word]
  <2> DEFINE req == RawWrite(rg_cached_raw_mem_addr, rg_cached_raw_mem_word)
  <2>1. /\ req.write = TRUE /\ req.address = rg_cached_raw_mem_addr
        /\ req.data = rg_cached_raw_mem_word
    BY RawFields
  <2>2. f_raw_mem_reqs' # <<>> /\ f_raw_mem_reqs'[1] = req
    BY <1>1
  <2> HIDE DEF req
  <2>3. QED
    BY <1>1, <2>1, <2>2 DEF Written
<1>4. TypeOK'
  BY <1>1 DEF IInv, TypeOK, RawRequests, port, xactor
<1>5. Written'[rg_cached_raw_mem_addr] = rg_cached_raw_mem_word
  BY <1>3 DEF IInv, TypeOK
<1>6. QED
  BY <1>1, <1>2, <1>3, <1>4, <1>5
     DEF IInv, TypeOK, ReadyInv, ReloadInv, ResetInv, Current

\* A reload is asked for when nothing is dirty, or after a reset.
LEMMA AskStep ==
    ASSUME IInv, rl_reset_reload_cache \/ rl_miss_clean_req
    PROVE  IInv' /\ UNCHANGED <<port, Written, Current, rf>>
<1>1. PICK w \in Words :
         /\ RawRequest(RawRead(w))
         /\ rg_cached_raw_mem_addr' = w
         /\ rg_state' = "RELOADING"
         /\ UNCHANGED <<port, reset, f_raw_mem_rsps, rg_cached_clean,
                        rg_cached_raw_mem_word, rg_status, rf>>
  <2>1. CASE rl_reset_reload_cache
    BY <2>1, MemControllerAssumption DEF rl_reset_reload_cache, MemControllerAssumption
  <2>2. CASE rl_miss_clean_req
    <3>1. f_reqs[1].word \in Words
      BY <2>2, RequestTypes DEF rl_miss_clean_req, Miss, IInv, TypeOK
    <3>2. QED
      BY <2>2, <3>1 DEF rl_miss_clean_req
  <2>3. QED
    BY <2>1, <2>2
<1>2. f_raw_mem_reqs = <<>> /\ f_raw_mem_reqs' = <<RawRead(w)>>
  BY <1>1 DEF RawRequest
<1>3. Written = rf /\ Written' = rf'
  BY <1>2, WrittenIdle, RawFields DEF Written
<1>4. Current = Written /\ Current' = Written'
  BY <1>1 DEF Current, rl_reset_reload_cache, rl_miss_clean_req
<1>5. f_raw_mem_rsps' = <<>>
  BY <1>1 DEF IInv, ReadyInv, ResetInv, rl_reset_reload_cache, rl_miss_clean_req
<1>6. TypeOK'
  BY <1>1, <1>2 DEF IInv, TypeOK, RawRequests, port, xactor
<1>7. QED
  BY <1>1, <1>2, <1>3, <1>4, <1>5, <1>6 DEF IInv, ReadyInv, ReloadInv, ResetInv

LEMMA ReloadStep ==
    ASSUME IInv, rl_reload
    PROVE  IInv' /\ UNCHANGED <<port, Written, Current, rf>>
<1>1. /\ f_raw_mem_reqs = <<>> /\ f_raw_mem_rsps = <<rf[rg_cached_raw_mem_addr]>>
      /\ rg_cached_raw_mem_word' = rf[rg_cached_raw_mem_addr]
  BY DEF rl_reload, IInv, ReloadInv
<1>2. /\ UNCHANGED <<port, f_raw_mem_reqs, rg_cached_raw_mem_addr, rf>>
      /\ f_raw_mem_rsps' = <<>> /\ rg_cached_clean' = TRUE
      /\ rg_state = "RELOADING" /\ rg_state' = "READY"
  BY DEF rl_reload
<1>3. Written = rf /\ Written' = rf'
  BY <1>1, <1>2 DEF Written
<1>4. TypeOK'
  BY <1>1, <1>2 DEF IInv, TypeOK, port, xactor
<1>5. QED
  BY <1>1, <1>2, <1>3, <1>4 DEF IInv, ReadyInv, ReloadInv, ResetInv, Current

\* Only the lane that is written changes, in what the fabric reads.
LEMMA WriteStep ==
    ASSUME IInv, rl_process_wr_req
    PROVE  /\ IInv'
           /\ Written' = Written
           /\ Current' = [Current EXCEPT ![f_reqs[1].word][f_reqs[1].lane] = f_reqs[1].data]
<1> DEFINE req == f_reqs[1]
           line == [rg_cached_raw_mem_word EXCEPT ![req.lane] = req.data]
<1>1. /\ rg_state = "READY" /\ req.word = rg_cached_raw_mem_addr
      /\ req.lane \in Lanes /\ req.data \in Value
  BY RequestTypes DEF rl_process_wr_req, Hit, IInv, TypeOK
<1>2. /\ rg_cached_raw_mem_word' = line
      /\ rg_cached_clean' = FALSE
      /\ f_reqs' = <<>>
      /\ UNCHANGED <<rd_addr, wr_addr, rg_state, raw, rg_cached_raw_mem_addr, rf>>
  BY DEF rl_process_wr_req, AnswerWrite
<1>3. line \in Line
  BY <1>1 DEF IInv, TypeOK, Line
<1> HIDE DEF line
<1>4. Written' = Written
  BY <1>2 DEF Written, raw
<1>5. TypeOK'
  BY <1>2, <1>3 DEF IInv, TypeOK, raw
<1>6. IInv'
  BY <1>1, <1>2, <1>5 DEF IInv, ReadyInv, ReloadInv, ResetInv, raw
<1>7. Current' = [Current EXCEPT ![rg_cached_raw_mem_addr] = line]
  BY <1>1, <1>2, <1>4, WrittenType DEF Current, IInv, TypeOK
<1>8. line = [Current[rg_cached_raw_mem_addr] EXCEPT ![req.lane] = req.data]
  BY <1>1, CurrentCached DEF line
<1>9. QED
  BY <1>1, <1>4, <1>6, <1>7, <1>8

\* Answers that change nothing else.
LEMMA AnswerStep ==
    ASSUME IInv, rl_process_rd_req \/ rl_invalid_rd_address \/ rl_invalid_wr_address
    PROVE  IInv' /\ UNCHANGED <<Written, Current, rf>>
<1>1. /\ f_reqs' = <<>>
      /\ UNCHANGED <<rd_addr, wr_addr, rg_state, raw, cache, rf>>
  BY DEF rl_process_rd_req, rl_invalid_rd_address, rl_invalid_wr_address, AnswerRead,
         AnswerWrite
<1>2. UNCHANGED <<Written, Current>>
  BY <1>1 DEF Written, Current, raw, cache
<1>3. TypeOK'
  BY <1>1 DEF IInv, TypeOK, raw, cache
<1>4. QED
  BY <1>1, <1>2, <1>3 DEF IInv, ReadyInv, ReloadInv, ResetInv, raw, cache

LEMMA StutterStep ==
    ASSUME IInv, UNCHANGED <<port, rg_state, raw, cache, rf>>
    PROVE  IInv' /\ UNCHANGED <<port, Written, Current, rf>>
<1>1. UNCHANGED <<Written, Current>>
  BY DEF Written, Current, raw, cache
<1>2. TypeOK'
  BY DEF IInv, TypeOK, port, xactor, raw, cache
<1>3. QED
  BY <1>1, <1>2 DEF IInv, ReadyInv, ReloadInv, ResetInv, raw, cache

LEMMA NextIInv == IInv /\ [Next]_vars => IInv'
<1> SUFFICES ASSUME IInv, [Next]_vars PROVE IInv'
  OBVIOUS
<1>1. CASE PortNext /\ UNCHANGED <<rg_state, reset, raw, cache, rg_status, rf>>
  BY <1>1, PortStep
<1>2. CASE ResetRequest \/ ResetResponse \/ UNCHANGED vars
  BY <1>2, StutterStep DEF ResetRequest, ResetResponse, vars
<1>3. CASE RawMem
  BY <1>3, RawMemStep
<1>4. CASE rl_power_on_reset \/ rl_external_reset
  BY <1>4, ResetStep
<1>5. CASE rl_writeback_dirty_idle \/ rl_writeback_dirty
  BY <1>5, WriteBackStep DEF rl_writeback_dirty_idle, rl_writeback_dirty
<1>6. CASE rl_reset_reload_cache \/ rl_miss_clean_req
  BY <1>6, AskStep
<1>7. CASE rl_reload
  BY <1>7, ReloadStep
<1>8. CASE rl_process_wr_req
  BY <1>8, WriteStep
<1>9. CASE rl_process_rd_req \/ rl_invalid_rd_address \/ rl_invalid_wr_address
  BY <1>9, AnswerStep
<1>10. QED
  BY <1>1, <1>2, <1>3, <1>4, <1>5, <1>6, <1>7, <1>8, <1>9 DEF Next, Handle

\* The phases of the controller hold in every reachable state.
THEOREM Phases == Spec => []IInv
<1>1. Init => IInv
  BY InitIInv
<1>2. IInv /\ [Next]_vars => IInv'
  BY NextIInv
<1>3. QED
  BY <1>1, <1>2, PTL DEF Spec

\* A clean cached word is what the raw memory holds or will hold, and a
\* reload brings the word as it was last written back.
THEOREM CacheIsCoherent == Spec => []CacheCoherent
<1>1. IInv => CacheCoherent
  <2> SUFFICES ASSUME IInv PROVE CacheCoherent
    OBVIOUS
  <2>1. rg_state = "READY" => rg_cached_raw_mem_word = Current[rg_cached_raw_mem_addr]
    BY CurrentCached
  <2>2. rg_state = "RELOADING" => Current[rg_cached_raw_mem_addr] = rf[rg_cached_raw_mem_addr]
    BY OthersSaved DEF IInv, TypeOK
  <2>3. QED
    BY <2>1, <2>2 DEF IInv, ReloadInv, CacheCoherent
<1>2. QED
  BY <1>1, Phases, PTL

\* Whatever was acknowledged, a reset loses at most one word of it.
THEOREM OneWordIsAtRisk == Spec => []OneWordAtRisk
<1>1. IInv => OneWordAtRisk
  BY OthersSaved DEF OneWordAtRisk
<1>2. QED
  BY <1>1, Phases, PTL
-----------------------------------------------------------------------------
(* The controller implements the memory.                                    *)

LEMMA RefinesInit == Init => M!Init
<1> SUFFICES ASSUME Init PROVE M!Init
  OBVIOUS
<1>1. Written = rf /\ Current = rf
  BY DEF Init, Written, Current
<1>2. QED
  BY <1>1 DEF Init, PortInit, M!Init, M!PortInit, Line

LEMMA RefinesPort ==
    ASSUME PortNext, UNCHANGED <<rg_state, reset, raw, cache, rg_status, rf>>
    PROVE  M!Next
<1>1. UNCHANGED <<Current, Written, rf>>
  BY DEF Current, Written, raw, cache
<1>2. M!PortNext
  BY DEF PortNext, M!PortNext, BusRead, M!BusRead, BusWrite, M!BusWrite, BusResponse,
         M!BusResponse, rl_merge_rd_req, M!rl_merge_rd_req, rl_merge_wr_req,
         M!rl_merge_wr_req
<1>3. QED
  BY <1>1, <1>2 DEF M!Next, M!content

LEMMA RefinesWrite ==
    ASSUME IInv, rl_process_wr_req
    PROVE  M!Next
<1>1. PICK req \in Writes : f_reqs = <<req>>
  BY RequestTypes DEF rl_process_wr_req, Hit, IInv, TypeOK
<1>2. req.ok /\ req = f_reqs[1] /\ req.word = rg_cached_raw_mem_addr
  BY <1>1 DEF rl_process_wr_req, Hit
<1>3. \A w \in Words \ {req.word} : rf[w] = Current[w]
  BY <1>2, OthersSaved
<1>4. /\ Current' = [Current EXCEPT ![req.word][req.lane] = req.data]
      /\ Written' = Written
  BY <1>2, WriteStep
<1>5. M!AnswerWrite("OKAY") /\ rf' = rf
  BY DEF rl_process_wr_req, AnswerWrite, M!AnswerWrite
<1>6. M!Write
  BY <1>1, <1>2, <1>3, <1>4, <1>5 DEF M!Write
<1>7. QED
  BY <1>6 DEF M!Next

LEMMA RefinesRead ==
    ASSUME IInv, rl_process_rd_req \/ rl_invalid_rd_address
    PROVE  M!Next
<1>1. UNCHANGED <<Written, Current, rf>>
  BY AnswerStep
<1>2. PICK req \in Reads : f_reqs = <<req>>
  BY RequestTypes DEF rl_process_rd_req, rl_invalid_rd_address, Hit, IInv, TypeOK
<1>3. M!AnswerRead(IF req.ok THEN [resp |-> "OKAY", data |-> Current[req.word][req.lane]]
                   ELSE [resp |-> "SLVERR"])
  <2>1. CASE rl_process_rd_req
    <3>1. Current[req.word] = rg_cached_raw_mem_word /\ req.ok
      BY <1>2, <2>1, CurrentCached DEF rl_process_rd_req, Hit
    <3>2. QED
      BY <1>2, <2>1, <3>1 DEF rl_process_rd_req, AnswerRead, M!AnswerRead
  <2>2. CASE rl_invalid_rd_address
    BY <1>2, <2>2 DEF rl_invalid_rd_address, AnswerRead, M!AnswerRead
  <2>3. QED
    BY <2>1, <2>2
<1>4. QED
  BY <1>1, <1>2, <1>3 DEF M!Read, M!Next, M!content

LEMMA RefinesRefuse ==
    ASSUME IInv, rl_invalid_wr_address
    PROVE  M!Next
<1>1. UNCHANGED <<Written, Current, rf>>
  BY AnswerStep
<1>2. PICK req \in Writes : f_reqs = <<req>>
  BY RequestTypes DEF rl_invalid_wr_address, IInv, TypeOK
<1>3. M!Refuse
  BY <1>1, <1>2 DEF rl_invalid_wr_address, AnswerWrite, M!AnswerWrite, M!Refuse, M!content
<1>4. QED
  BY <1>3 DEF M!Next

LEMMA RefinesReset ==
    ASSUME IInv, rl_power_on_reset \/ rl_external_reset
    PROVE  M!Next
<1>1. Written' = rf /\ Current' = rf /\ rf' = rf
  BY ResetStep DEF rl_power_on_reset, rl_external_reset
<1>2. M!XactorReset
  BY DEF rl_power_on_reset, rl_external_reset, fa_reset_actions, XactorReset, M!XactorReset
<1>3. QED
  BY <1>1, <1>2 DEF M!Reset, M!Next

\* A write back is posted, and saved when the raw memory takes it.
LEMMA RefinesNext == IInv /\ [Next]_vars => [M!Next]_M!vars
<1> SUFFICES ASSUME IInv, [Next]_vars PROVE [M!Next]_M!vars
  OBVIOUS
<1>1. ASSUME UNCHANGED <<port, Written, Current, rf>> PROVE UNCHANGED M!vars
  BY <1>1 DEF M!vars, M!port, M!xactor, M!content, port, xactor
<1>2. CASE PortNext /\ UNCHANGED <<rg_state, reset, raw, cache, rg_status, rf>>
  BY <1>2, RefinesPort
<1>3. CASE ResetRequest \/ ResetResponse \/ UNCHANGED vars
  BY <1>1, <1>3, StutterStep DEF ResetRequest, ResetResponse, vars
<1>4. CASE RawMem
  <2>1. rf' = Written /\ Written' = Written /\ UNCHANGED port
    BY <1>4, RawMemStep DEF RawMem
  <2>2. Current' = Current
    BY <1>4, <2>1 DEF RawMem, Current, cache
  <2>3. QED
    BY <2>1, <2>2 DEF M!Next, M!Save, M!port, M!xactor, port, xactor
<1>5. CASE rl_power_on_reset \/ rl_external_reset
  BY <1>5, RefinesReset
<1>6. CASE rl_writeback_dirty_idle \/ rl_writeback_dirty
  <2>1. Written' = Current /\ Current' = Current /\ UNCHANGED <<port, rf>>
    BY <1>6, WriteBackStep DEF rl_writeback_dirty_idle, rl_writeback_dirty, WriteBack
  <2>2. QED
    BY <2>1 DEF M!Next, M!Post, M!port, M!xactor, port, xactor
<1>7. CASE rl_reset_reload_cache \/ rl_miss_clean_req
  BY <1>1, <1>7, AskStep
<1>8. CASE rl_reload
  BY <1>1, <1>8, ReloadStep
<1>9. CASE rl_process_wr_req
  BY <1>9, RefinesWrite
<1>10. CASE rl_process_rd_req \/ rl_invalid_rd_address
  BY <1>10, RefinesRead
<1>11. CASE rl_invalid_wr_address
  BY <1>11, RefinesRefuse
<1>12. QED
  BY <1>2, <1>3, <1>4, <1>5, <1>6, <1>7, <1>8, <1>9, <1>10, <1>11 DEF Next, Handle

\* To the fabric the cached controller is a memory that answers requests one
\* after the other, in which a reset reverts one word at most.
THEOREM Refinement == Spec => ImplementsMemory
<1>1. Init => M!Init
  BY RefinesInit
<1>2. IInv /\ [Next]_vars => [M!Next]_M!vars
  BY RefinesNext
<1>3. QED
  BY <1>1, <1>2, Phases, PTL DEF Spec, ImplementsMemory, M!Spec
=============================================================================
