--------------------------- MODULE ZipReduceProofs --------------------------
(***************************************************************************)
(* Proofs about the pairwise and the pipelined unit, for every size of     *)
(* their buffers, every depth of their arithmetic and all lengths and      *)
(* numbers of jobs.  First the passes of the pairwise unit: which elements *)
(* they overwrite; then the sums; then the pipelined unit, which delivers  *)
(* the sum of its job.                                                     *)
(***************************************************************************)
EXTENDS MCZipReduce, SequenceTheorems, FiniteSetTheorems, TLAPS

\* What is in flight matters here, not which values they are.
IsSequence(s) == \E S : s \in Seq(S)

LEMMA AppendSequence ==
    ASSUME NEW s, IsSequence(s), NEW x
    PROVE  IsSequence(Append(s, x)) /\ Len(Append(s, x)) = Len(s) + 1
<1>1. PICK S : s \in Seq(S)
  BY DEF IsSequence
<1>2. s \in Seq(S \cup {x}) /\ x \in S \cup {x}
  BY <1>1
<1>3. Append(s, x) \in Seq(S \cup {x}) /\ Len(Append(s, x)) = Len(s) + 1
  BY <1>2
<1>4. QED
  BY <1>3 DEF IsSequence

LEMMA TailSequence ==
    ASSUME NEW s, IsSequence(s), s # <<>>
    PROVE  IsSequence(Tail(s)) /\ Len(s) > 0 /\ Len(Tail(s)) = Len(s) - 1
<1>1. PICK S : s \in Seq(S)
  BY DEF IsSequence
<1>2. Tail(s) \in Seq(S) /\ Len(s) > 0 /\ Len(Tail(s)) = Len(s) - 1
  BY <1>1
<1>3. QED
  BY <1>2 DEF IsSequence

LEMMA LenSequence ==
    ASSUME NEW s, IsSequence(s)
    PROVE  Len(s) \in Nat /\ (Len(s) = 0 <=> s = <<>>)
<1>1. PICK S : s \in Seq(S)
  BY DEF IsSequence
<1>2. QED
  BY <1>1, EmptySeq

LEMMA EmptySequence == IsSequence(<<>>) /\ Len(<<>>) = 0
BY EmptySeq DEF IsSequence
-----------------------------------------------------------------------------
(* The inductive invariant.                                                 *)

CountersOK ==
    /\ state \in {"READY", "MULT", "ADD", "REM", "COMPLETE"}
    /\ m_count \in Nat /\ alloc_size \in Nat
    /\ a_count \in Nat /\ ar_count \in Nat
    /\ a_free \in BOOLEAN /\ rem_free \in BOOLEAN
    /\ IsSequence(fpu_add)

\* Outside the passes the counters are ready for the next one, and the adder
\* holds at most the one addition of a remainder.
Between ==
    /\ state # "ADD" => a_count = 0 /\ ar_count = 0 /\ a_free
    /\ state \in {"READY", "MULT", "COMPLETE"} => fpu_add = <<>>
    /\ state = "REM" => Len(fpu_add) = IF rem_free THEN 0 ELSE 1

\* Inside a pass requests and responses go in pairs of elements, and the pass
\* is closed to further requests exactly when all were made.
InPass ==
    state = "ADD" =>
        /\ m_count >= 1
        /\ ar_count + 2 * Len(fpu_add) = a_count
        /\ a_count % 2 = 0
        /\ a_count <= m_count
        /\ a_count > 0 => m_count % 2 = 0
        /\ a_free <=> a_count # m_count

PassInv == CountersOK /\ Between /\ InPass

LEMMA PassInit == Init => PassInv
<1> SUFFICES ASSUME Init PROVE PassInv
  OBVIOUS
<1>1. IsSequence(fpu_add)
  BY EmptySequence DEF Init
<1>2. CountersOK
  BY <1>1 DEF Init, CountersOK
<1>3. Between /\ InPass
  BY DEF Init, Between, InPass
<1>4. QED
  BY <1>2, <1>3 DEF PassInv

LEMMA PassNext == PassInv /\ [Next]_vars => PassInv'
<1> SUFFICES ASSUME PassInv, [Next]_vars PROVE PassInv'
  OBVIOUS
<1> USE DEF PassInv
<1>1. ASSUME NEW n \in Lens, ClientInit(n) PROVE PassInv'
  <2>1. n \in Nat
    BY PairwiseMAAssumption
  <2>2. QED
    BY <1>1, <2>1 DEF ClientInit, put_Init, CountersOK, Between, InPass
<1>2. CASE ClientReqOp
  BY <1>2 DEF ClientReqOp, put_ReqOp, CountersOK, Between, InPass
<1>3. CASE ClientGet
  BY <1>3 DEF ClientGet, response_get, CountersOK, Between, InPass
<1>4. CASE rl_pipe_response_mult
  BY <1>4, EmptySequence DEF rl_pipe_response_mult, CountersOK, Between, InPass
<1>5. CASE PairwiseRemainder
  <2>1. a_count = 0 /\ m_count >= 2
    BY <1>5 DEF PairwiseRemainder, PairwiseReady, CountersOK, InPass
  <2>2. QED
    BY <1>5, <2>1 DEF PairwiseRemainder, PairwiseReady, CountersOK, Between, InPass
<1>6. CASE PairwiseAdd
  <2>1. IsSequence(fpu_add') /\ Len(fpu_add') = Len(fpu_add) + 1 /\ Len(fpu_add) \in Nat
    BY <1>6, AppendSequence, LenSequence DEF PairwiseAdd, CountersOK
  <2>2. CountersOK'
    <3>1. a_free' \in BOOLEAN
      BY <1>6 DEF PairwiseAdd
    <3>2. a_count' \in Nat
      BY <1>6 DEF PairwiseAdd, CountersOK
    <3>3. QED
      BY <1>6, <2>1, <3>1, <3>2 DEF PairwiseAdd, CountersOK
  <2>3. Between'
    BY <1>6 DEF PairwiseAdd, PairwiseReady, CountersOK, Between
  <2>4. InPass'
    <3>1. /\ m_count' >= 1 /\ m_count' % 2 = 0
          /\ ar_count' + 2 * Len(fpu_add') = a_count'
          /\ a_count' % 2 = 0
          /\ a_count' <= m_count'
          /\ a_count = m_count - 2 <=> a_count' = m_count'
      BY <1>6, <2>1 DEF PairwiseAdd, PairwiseReady, CountersOK, InPass
    <3>2. a_free' <=> a_count' # m_count'
      BY <1>6, <3>1, Zenon DEF PairwiseAdd
    <3>3. QED
      BY <3>1, <3>2, Zenon DEF InPass
  <2>5. QED
    BY <2>2, <2>3, <2>4
<1>7. CASE rl_pairwise_end
  <2>1. a_count = 0 /\ ar_count = 0 /\ Len(fpu_add) = 0
    BY <1>7, LenSequence DEF rl_pairwise_end, CountersOK, InPass
  <2>2. QED
    BY <1>7, <2>1 DEF rl_pairwise_end, CountersOK, Between, InPass
<1>8. CASE rl_pairwise_add_resp
  <2>1. /\ IsSequence(fpu_add') /\ Len(fpu_add') = Len(fpu_add) - 1
        /\ Len(fpu_add) \in Nat /\ Len(fpu_add) > 0
    BY <1>8, TailSequence, LenSequence DEF rl_pairwise_add_resp, CountersOK
  <2>2. CASE ar_count = m_count - 2
    \* The last response of a pass leaves the adder empty.
    <3>1. Len(fpu_add) = 1 /\ m_count >= 2
      BY <1>8, <2>1, <2>2 DEF rl_pairwise_add_resp, CountersOK, InPass
    <3>2. m_count \div 2 \in Nat /\ m_count \div 2 >= 1
      BY <3>1 DEF CountersOK
    <3>3. /\ m_count' = m_count \div 2 /\ a_count' = 0 /\ ar_count' = 0
          /\ a_free' = TRUE
          /\ UNCHANGED <<state, alloc_size, rem_free>>
      BY <1>8, <2>2, Zenon DEF rl_pairwise_add_resp
    <3>4. CountersOK'
      BY <2>1, <3>2, <3>3 DEF CountersOK
    <3>5. Between'
      BY <1>8, <3>3 DEF rl_pairwise_add_resp, Between
    <3>6. InPass'
      BY <2>1, <3>1, <3>2, <3>3 DEF InPass
    <3>7. QED
      BY <3>4, <3>5, <3>6
  <2>3. CASE ar_count # m_count - 2
    <3>1. CountersOK'
      BY <1>8, <2>1, <2>3 DEF rl_pairwise_add_resp, CountersOK
    <3>2. InPass' /\ Between'
      BY <1>8, <2>1, <2>3 DEF rl_pairwise_add_resp, CountersOK, Between, InPass
    <3>3. QED
      BY <3>1, <3>2
  <2>4. QED
    BY <2>2, <2>3
<1>9. CASE rl_rem_add_req
  <2>1. IsSequence(fpu_add') /\ Len(fpu_add') = Len(fpu_add) + 1
    BY <1>9, AppendSequence DEF rl_rem_add_req, CountersOK
  <2>2. CountersOK'
    BY <1>9, <2>1 DEF rl_rem_add_req, CountersOK
  <2>3. Between' /\ InPass'
    BY <1>9, <2>1 DEF rl_rem_add_req, Between, InPass
  <2>4. QED
    BY <2>2, <2>3
<1>10. CASE rl_rem_add_resp
  <2>1. IsSequence(fpu_add') /\ Len(fpu_add') = Len(fpu_add) - 1
    BY <1>10, TailSequence DEF rl_rem_add_resp, CountersOK
  <2>2. Len(fpu_add') = 0 /\ fpu_add' = <<>>
    BY <1>10, <2>1, LenSequence DEF rl_rem_add_resp, Between
  <2>3. QED
    BY <1>10, <2>1, <2>2 DEF rl_rem_add_resp, CountersOK, Between, InPass
<1>11. CASE UNCHANGED vars
  BY <1>11 DEF vars, unit, client, CountersOK, Between, InPass
<1>12. QED
  BY <1>1, <1>2, <1>3, <1>4, <1>5, <1>6, <1>7, <1>8, <1>9, <1>10, <1>11 DEF Next, Rules

LEMMA PassInvImplies == PassInv => PassInPlace
<1> SUFFICES ASSUME PassInv, state = "ADD" PROVE PassInPlace
  BY DEF PassInPlace
<1>1. Len(fpu_add) \in Nat /\ ar_count <= a_count
  BY LenSequence DEF PassInv, CountersOK, InPass
<1>2. a_count > 0 => ar_count \div 2 < a_count
  BY <1>1 DEF PassInv, CountersOK
<1>3. QED
  BY <1>1, <1>2 DEF PassInv, CountersOK, InPass, PassInPlace

\* No response of a pass overwrites an element that the pass has yet to read,
\* and no pass starts while an addition of the one before is in flight: in
\* every job, of every length.
THEOREM PassesStayInPlace == Spec => []PassInPlace
<1>1. Init => PassInv
  BY PassInit
<1>2. PassInv /\ [Next]_vars => PassInv'
  BY PassNext
<1>3. PassInv => PassInPlace
  BY PassInvImplies
<1>4. QED
  BY <1>1, <1>2, <1>3, PTL DEF Spec
-----------------------------------------------------------------------------
(* Values and the places that hold them.                                    *)

Value == [ZR!Terms -> Nat]

LEMMA Values ==
    /\ ZR!NoTerm \in Value
    /\ \A j, k : ZR!Product(j, k) \in Value
    /\ \A x, y \in Value : ZR!Plus(x, y) \in Value
    /\ \A x, y \in Value, t \in ZR!Terms : ZR!Plus(x, y)[t] = x[t] + y[t]
<1>1. ZR!NoTerm \in Value
  BY DEF ZR!NoTerm, Value
<1>2. \A j, k : ZR!Product(j, k) \in Value
  BY DEF ZR!Product, Value
<1>3. ASSUME NEW x \in Value, NEW y \in Value
      PROVE  ZR!Plus(x, y) \in Value /\ \A t \in ZR!Terms : ZR!Plus(x, y)[t] = x[t] + y[t]
  <2>1. \A t \in ZR!Terms : x[t] \in Nat /\ y[t] \in Nat
    BY DEF Value
  <2>2. QED
    BY <2>1 DEF ZR!Plus, Value
<1>4. QED
  BY <1>1, <1>2, <1>3

\* Sums that change their places.
LEMMA Moved ==
    ASSUME NEW S, NEW h, NEW T, NEW g, NEW j, NEW n, EachOnce(S, h, j, n), NEW f,
           \A p \in S : f[p] \in T /\ g[f[p]] = h[p],
           \A p, q \in S : f[p] = f[q] => p = q,
           \A r \in T : \E p \in S : f[p] = r
    PROVE  EachOnce(T, g, j, n)
<1>1. SUFFICES ASSUME NEW t \in ZR!Terms
               PROVE  IF ZR!SumOf(j, n)[t] = 1
                      THEN \E p \in T : g[p][t] = 1 /\ \A q \in T \ {p} : g[q][t] = 0
                      ELSE \A p \in T : g[p][t] = 0
  BY DEF EachOnce
<1>2. CASE ZR!SumOf(j, n)[t] = 1
  <2>1. PICK p \in S : h[p][t] = 1 /\ \A q \in S \ {p} : h[q][t] = 0
    BY <1>2 DEF EachOnce
  <2>2. f[p] \in T /\ g[f[p]][t] = 1
    BY <2>1
  <2>3. ASSUME NEW r \in T \ {f[p]} PROVE g[r][t] = 0
    <3>1. PICK q \in S : f[q] = r
      OBVIOUS
    <3>2. q # p /\ g[r] = h[q]
      BY <3>1
    <3>3. QED
      BY <2>1, <3>2
  <2>4. QED
    BY <1>2, <2>2, <2>3
<1>3. CASE ZR!SumOf(j, n)[t] # 1
  <2>1. \A p \in S : h[p][t] = 0
    BY <1>3 DEF EachOnce
  <2>2. QED
    BY <1>3, <2>1
<1>4. QED
  BY <1>2, <1>3

\* Two sums that become one.
LEMMA Merged ==
    ASSUME NEW S, NEW h, NEW T, NEW g, NEW j, NEW n, EachOnce(S, h, j, n),
           NEW a \in S, NEW b \in S, a # b, NEW c, c \notin S, T = (S \ {a, b}) \cup {c},
           \A p \in S \ {a, b} : g[p] = h[p],
           h[a] \in Value, h[b] \in Value, g[c] = ZR!Plus(h[a], h[b])
    PROVE  EachOnce(T, g, j, n)
<1>1. SUFFICES ASSUME NEW t \in ZR!Terms
               PROVE  IF ZR!SumOf(j, n)[t] = 1
                      THEN \E p \in T : g[p][t] = 1 /\ \A q \in T \ {p} : g[q][t] = 0
                      ELSE \A p \in T : g[p][t] = 0
  BY DEF EachOnce
<1>2. /\ g[c][t] = h[a][t] + h[b][t]
      /\ h[a][t] \in Nat /\ h[b][t] \in Nat
  <2>1. PICK x \in Value, y \in Value : x = h[a] /\ y = h[b]
    OBVIOUS
  <2>2. ZR!Plus(x, y)[t] = x[t] + y[t]
    BY Values
  <2>3. x[t] \in Nat /\ y[t] \in Nat
    BY DEF Value
  <2>4. QED
    BY <2>1, <2>2, <2>3
<1>3. CASE ZR!SumOf(j, n)[t] = 1
  <2>1. PICK p \in S : h[p][t] = 1 /\ \A q \in S \ {p} : h[q][t] = 0
    BY <1>3 DEF EachOnce
  <2>2. CASE p \in {a, b}
    <3>1. g[c][t] = 1
      BY <1>2, <2>1, <2>2
    <3>2. \A q \in T \ {c} : g[q][t] = 0
      BY <2>1, <2>2
    <3>3. QED
      BY <1>3, <3>1, <3>2
  <2>3. CASE p \notin {a, b}
    <3>1. g[c][t] = 0
      BY <1>2, <2>1, <2>3
    <3>2. p \in T /\ g[p][t] = 1
      BY <2>1, <2>3
    <3>3. \A q \in T \ {p} : g[q][t] = 0
      BY <2>1, <3>1
    <3>4. QED
      BY <1>3, <3>2, <3>3
  <2>4. QED
    BY <2>2, <2>3
<1>4. CASE ZR!SumOf(j, n)[t] # 1
  <2>1. \A p \in S : h[p][t] = 0
    BY <1>4 DEF EachOnce
  <2>2. g[c][t] = 0
    BY <1>2, <2>1
  <2>3. QED
    BY <1>4, <2>1, <2>2
<1>5. QED
  BY <1>3, <1>4

\* Places and what they hold, one kind at a time.
Cell(c) == <<"buffer", c>>
Remainder(c) == <<"rem_buf", c>>
Adding(k) == <<"adder", k>>

KindsOfPlaces ==
    /\ \A p : p \in Places <=>
          \/ \E c \in 0 .. m_count - 1 : (c < ar_count \div 2 \/ c >= a_count) /\ p = Cell(c)
          \/ \E c \in 0 .. rem_count - 1 : p = Remainder(c)
          \/ \E k \in 1 .. Len(fpu_add) : p = Adding(k)
    /\ \A c : Cell(c) \in Places => Held[Cell(c)] = buffer[c]
    /\ \A c : Remainder(c) \in Places => Held[Remainder(c)] = rem_buf[c]
    /\ \A k : Adding(k) \in Places => Held[Adding(k)] = fpu_add[k]

LEMMA KindsDiffer ==
    /\ \A c, d : Cell(c) # Remainder(d) /\ Cell(c) # Adding(d) /\ Remainder(c) # Adding(d)
    /\ \A c, d : /\ Cell(c) = Cell(d) => c = d
                 /\ Remainder(c) = Remainder(d) => c = d
                 /\ Adding(c) = Adding(d) => c = d
BY DEF Cell, Remainder, Adding

LEMMA PlacesAre == KindsOfPlaces
<1>1. \A p : p \in Places <=>
          \/ \E c \in 0 .. m_count - 1 : (c < ar_count \div 2 \/ c >= a_count) /\ p = Cell(c)
          \/ \E c \in 0 .. rem_count - 1 : p = Remainder(c)
          \/ \E k \in 1 .. Len(fpu_add) : p = Adding(k)
  <2>1. \A p : p \in {"buffer"} \X {c \in 0 .. m_count - 1 : c < ar_count \div 2 \/ c >= a_count} <=>
           \E c \in 0 .. m_count - 1 : (c < ar_count \div 2 \/ c >= a_count) /\ p = <<"buffer", c>>
    OBVIOUS
  <2>2. \A p : p \in {"rem_buf"} \X (0 .. rem_count - 1) <=> \E c \in 0 .. rem_count - 1 : p = <<"rem_buf", c>>
    OBVIOUS
  <2>3. \A p : p \in {"adder"} \X (1 .. Len(fpu_add)) <=> \E k \in 1 .. Len(fpu_add) : p = <<"adder", k>>
    OBVIOUS
  <2>4. QED
    BY <2>1, <2>2, <2>3 DEF Places, Cell, Remainder, Adding
<1>2. \A p \in Places : Held[p] = CASE p[1] = "buffer" -> buffer[p[2]]
                            [] p[1] = "rem_buf" -> rem_buf[p[2]]
                            [] p[1] = "adder" -> fpu_add[p[2]]
  BY DEF Held
<1>3. \A c : Cell(c)[1] = "buffer" /\ Cell(c)[2] = c
  BY DEF Cell
<1>4. \A c : Remainder(c)[1] = "rem_buf" /\ Remainder(c)[2] = c
  BY DEF Remainder
<1>5. \A c : Adding(c)[1] = "adder" /\ Adding(c)[2] = c
  BY DEF Adding
<1>6. ASSUME NEW c, Cell(c) \in Places PROVE Held[Cell(c)] = buffer[c]
  BY <1>2, <1>3, <1>6
<1>7. ASSUME NEW c, Remainder(c) \in Places PROVE Held[Remainder(c)] = rem_buf[c]
  BY <1>2, <1>4, <1>7
<1>8. ASSUME NEW c, Adding(c) \in Places PROVE Held[Adding(c)] = fpu_add[c]
  BY <1>2, <1>5, <1>8
<1>9. QED
  BY <1>1, <1>6, <1>7, <1>8 DEF KindsOfPlaces
-----------------------------------------------------------------------------
(* Powers of two, counted as subsets: no induction is needed.               *)

LEMMA PowerCounts ==
    ASSUME NEW n \in Nat
    PROVE  /\ IsFiniteSet(SUBSET (1 .. n))
           /\ Cardinality(SUBSET (1 .. n)) = 2 ^ n
           /\ 2 ^ n \in Nat
<1>1. IsFiniteSet(1 .. n) /\ Cardinality(1 .. n) = n
  BY FS_Interval
<1>2. IsFiniteSet(SUBSET (1 .. n)) /\ Cardinality(SUBSET (1 .. n)) = 2 ^ n
  <2>1. Cardinality(SUBSET (1 .. n)) = 2 ^ Cardinality(1 .. n)
    BY <1>1, FS_SUBSET
  <2>2. QED
    BY <1>1, <2>1, FS_SUBSET
<1>3. QED
  BY <1>2, FS_CardinalityType

LEMMA PowerZero == 2 ^ 0 = 1
<1>1. Cardinality(SUBSET (1 .. 0)) = 2 ^ 0
  BY PowerCounts
<1>2. SUBSET (1 .. 0) = {{}}
  OBVIOUS
<1>3. Cardinality({{}}) = 1
  BY FS_Singleton
<1>4. QED
  BY <1>1, <1>2, <1>3

LEMMA PowerGrows ==
    ASSUME NEW m \in Nat, NEW n \in Nat, m <= n
    PROVE  2 ^ m <= 2 ^ n
<1>1. SUBSET (1 .. m) \in SUBSET (SUBSET (1 .. n))
  OBVIOUS
<1>2. Cardinality(SUBSET (1 .. m)) <= Cardinality(SUBSET (1 .. n))
  BY <1>1, PowerCounts, FS_Subset
<1>3. QED
  BY <1>2, PowerCounts

LEMMA PowerDoubles ==
    ASSUME NEW n \in Nat
    PROVE  2 ^ (n + 1) = 2 * 2 ^ n
<1> DEFINE Old == SUBSET (1 .. n)
           New == {s \cup {n + 1} : s \in Old}
           f == [s \in Old |-> s \cup {n + 1}]
<1>1. SUBSET (1 .. n + 1) = Old \cup New
  <2>1. ASSUME NEW s \in SUBSET (1 .. n + 1) PROVE s \in Old \cup New
    <3>1. CASE n + 1 \in s
      <4>1. s \ {n + 1} \in Old /\ s = (s \ {n + 1}) \cup {n + 1}
        BY <3>1
      <4>2. QED
        BY <4>1
    <3>2. CASE n + 1 \notin s
      BY <3>2
    <3>3. QED
      BY <3>1, <3>2
  <2>2. Old \cup New \subseteq SUBSET (1 .. n + 1)
    <3>1. 1 .. n \subseteq 1 .. n + 1 /\ n + 1 \in 1 .. n + 1
      OBVIOUS
    <3>2. \A s \in Old : s \subseteq 1 .. n + 1 /\ s \cup {n + 1} \subseteq 1 .. n + 1
      BY <3>1
    <3>3. QED
      BY <3>2
  <2>3. QED
    BY <2>1, <2>2
<1>2. Old \cap New = {}
  OBVIOUS
<1>3. IsFiniteSet(New) /\ Cardinality(New) = Cardinality(Old)
  <2>1. f \in Bijection(Old, New)
    <3>1. \A s, t \in Old : f[s] = f[t] => s = t
      <4>1. \A s \in Old : f[s] \ {n + 1} = s
        OBVIOUS
      <4>2. QED
        BY <4>1
    <3>2. \A r \in New : \E s \in Old : f[s] = r
      OBVIOUS
    <3>3. f \in [Old -> New]
      OBVIOUS
    <3>4. QED
      <4> HIDE DEF Old, New, f
      <4>1. QED
        BY <3>1, <3>2, <3>3 DEF Bijection, Injection, Surjection, IsInjective
  <2>2. IsFiniteSet(Old)
    BY PowerCounts
  <2>3. QED
    <3> HIDE DEF Old, New, f
    <3>1. QED
      BY <2>1, <2>2, FS_Bijection DEF ExistsBijection
<1>4. Cardinality(Old \cup New) = Cardinality(Old) + Cardinality(New) - 0
  <2>1. IsFiniteSet(Old)
    BY PowerCounts
  <2>2. Cardinality(Old \cap New) = 0
    BY <1>2, FS_EmptySet
  <2>3. QED
    <3> HIDE DEF Old, New, f
    <3>1. QED
      BY <1>3, <2>1, <2>2, FS_Union
<1>5. Cardinality(Old) = 2 ^ n /\ 2 ^ n \in Nat
  BY PowerCounts
<1>6. Cardinality(SUBSET (1 .. n + 1)) = 2 ^ (n + 1)
  BY PowerCounts
<1>7. QED
  <2> HIDE DEF Old, New, f
  <2>1. PICK w \in Nat : w = 2 ^ n
    BY <1>5
  <2>2. Cardinality(Old \cup New) = w + w
    BY <1>3, <1>4, <1>5, <2>1
  <2>3. 2 ^ (n + 1) = w + w
    BY <1>1, <1>6, <2>2
  <2>4. QED
    BY <2>1, <2>3
-----------------------------------------------------------------------------
(* The inductive invariant of the sums.                                     *)

KeepTypes ==
    /\ job \in 0 .. Jobs /\ len \in Nat /\ fed \in Nat /\ busy \in BOOLEAN
    /\ r_count \in Nat /\ rem_count \in Nat
    /\ buffer \in [0 .. BufSize - 1 -> Value]
    /\ rem_buf \in [0 .. RemSize - 1 -> Value]
    /\ fpu_mult \in Seq(Value) /\ fpu_add \in Seq(Value)
    /\ acc \in Value

\* The client feeds the unit while it is READY, and has fed all of the job
\* when it is not.
JobControl ==
    /\ ~busy => state = "READY" /\ fpu_mult = <<>>
    /\ busy => job >= 1 /\ len \in Lens /\ alloc_size = len
    /\ state = "READY" /\ busy => r_count = fed /\ fed < len
    /\ state # "READY" => busy /\ fed = len
    /\ state = "MULT" => m_count < len
    /\ state \in {"ADD", "REM", "COMPLETE"} => fpu_mult = <<>>
    /\ state \in {"READY", "MULT", "COMPLETE"} => rem_count = 0

\* The products in the order they were fed: those received, and those in the
\* multiplier.
Received ==
    state \in {"READY", "MULT"} /\ busy =>
        /\ m_count + Len(fpu_mult) = fed
        /\ \A c \in 0 .. m_count - 1 : buffer[c] = ZR!Product(job, c)
        /\ \A k \in 1 .. Len(fpu_mult) : fpu_mult[k] = ZR!Product(job, m_count + (k - 1))

\* What a pass may still produce has room: the elements left halve for each
\* remainder taken.  An even pass has had its remainder, if there was one.
Room ==
    /\ state = "ADD" =>
        /\ m_count + rem_count <= BufSize
        /\ IF m_count % 2 = 1 THEN (m_count + 1) * 2 ^ rem_count <= BufSize + 1
                              ELSE (m_count + 2) * 2 ^ rem_count <= 2 * (BufSize + 1)
    /\ state = "REM" => rem_count <= BufSize

KeepInv == PassInv /\ KeepTypes /\ JobControl /\ Received /\ Room /\ PassesKeepSum

\* The first job, of a length that is a power of two, has no remainders but
\* the sum itself.
FirstPower == job = 1 /\ \E k \in 0 .. len : len = 2 ^ k

Power(n) == \E k \in Nat : n = 2 ^ k

PowerInv ==
    /\ job = 0 => ~busy
    /\ job = 0 \/ (job = 1 /\ busy /\ state \in {"READY", "MULT"}) => acc = ZR!NoTerm
    /\ FirstPower =>
        /\ state = "ADD" => acc = ZR!NoTerm /\ rem_count = 0 /\ Power(m_count)
        /\ state = "REM" =>
            IF rem_free
            THEN rem_count = 1 /\ acc = ZR!NoTerm /\ buffer[0] = ZR!SumOf(1, len)
            ELSE rem_count = 0 /\ fpu_add[1] = ZR!SumOf(1, len)
        /\ state = "COMPLETE" => acc = ZR!SumOf(1, len)
        /\ ~busy => result = ZR!SumOf(1, len)

KeptInv == KeepInv /\ PowerInv
-----------------------------------------------------------------------------
(* The steps of its parts.                                                  *)

LEMMA KeepInit == Init => KeepInv
<1> SUFFICES ASSUME Init PROVE KeepInv
  OBVIOUS
<1>1. PassInv
  BY PassInit
<1>2. KeepTypes
  <2>1. ZR!NoTerm \in Value /\ <<>> \in Seq(Value) /\ 0 \in 0 .. Jobs
    BY Values, PairwiseMAAssumption
  <2>2. QED
    BY <2>1 DEF Init, ZR!Init, KeepTypes
<1>3. JobControl /\ Received /\ Room /\ PassesKeepSum
  BY DEF Init, ZR!Init, JobControl, Received, Room, PassesKeepSum
<1>4. QED
  BY <1>1, <1>2, <1>3 DEF KeepInv

LEMMA SequenceSteps ==
    ASSUME NEW s \in Seq(Value)
    PROVE  /\ \A x \in Value : Append(s, x) \in Seq(Value)
           /\ s # <<>> => Head(s) \in Value /\ Tail(s) \in Seq(Value)
BY HeadTailProperties, AppendProperties

LEMMA CellStored ==
    ASSUME NEW S, NEW g \in [S -> Value], NEW i, NEW x \in Value
    PROVE  [g EXCEPT ![i] = x] \in [S -> Value]
OBVIOUS

\* The linear part of Room.
LEMMA PassFits ==
    ASSUME KeepInv, state = "ADD"
    PROVE  m_count \in 1 .. BufSize /\ m_count + rem_count <= BufSize /\ BufSize \in Nat
<1>1. m_count + rem_count <= BufSize
  BY DEF KeepInv, Room
<1>2. m_count \in Nat /\ m_count >= 1 /\ rem_count \in Nat
  BY DEF KeepInv, PassInv, CountersOK, InPass, KeepTypes
<1>3. QED
  BY <1>1, <1>2, PairwiseMAAssumption

LEMMA TypesNext == KeepInv /\ [Next]_vars => KeepTypes'
<1> SUFFICES ASSUME KeepInv, [Next]_vars PROVE KeepTypes'
  OBVIOUS
<1>1. KeepTypes /\ CountersOK /\ Between /\ InPass /\ JobControl /\ Room
  BY DEF KeepInv, PassInv
<1>2. /\ \A x \in Value : Append(fpu_mult, x) \in Seq(Value) /\ Append(fpu_add, x) \in Seq(Value)
      /\ fpu_mult # <<>> => Head(fpu_mult) \in Value /\ Tail(fpu_mult) \in Seq(Value)
      /\ fpu_add # <<>> => Head(fpu_add) \in Value /\ Tail(fpu_add) \in Seq(Value)
  BY <1>1, SequenceSteps DEF KeepTypes
<1>3. ASSUME NEW n \in Lens, ClientInit(n) PROVE KeepTypes'
  <2>1. n \in Nat /\ job < Jobs /\ Jobs \in Nat
    BY <1>3, PairwiseMAAssumption DEF ClientInit, ZR!Start
  <2>2. job + 1 \in 0 .. Jobs
    BY <1>1, <2>1 DEF KeepTypes
  <2>3. QED
    BY <1>1, <1>3, <2>1, <2>2 DEF ClientInit, ZR!Start, put_Init, KeepTypes
<1>4. CASE ClientReqOp
  <2>1. ZR!Product(job, fed) \in Value
    BY Values
  <2>2. QED
    BY <1>1, <1>2, <1>4, <2>1 DEF ClientReqOp, ZR!Feed, put_ReqOp, KeepTypes
<1>5. CASE ClientGet
  BY <1>1, <1>5 DEF ClientGet, response_get, KeepTypes
<1>6. CASE rl_pipe_response_mult
  BY <1>1, <1>2, <1>6 DEF rl_pipe_response_mult, client, KeepTypes
<1>7. CASE PairwiseRemainder
  <2>1. m_count - 1 \in 0 .. BufSize - 1
    BY <1>7, PassFits DEF PairwiseRemainder, PairwiseReady
  <2>2. rem_buf' \in [0 .. RemSize - 1 -> Value]
    <3>1. buffer[m_count - 1] \in Value
      BY <1>1, <2>1 DEF KeepTypes
    <3>2. QED
      BY <1>1, <1>7, <3>1, CellStored DEF PairwiseRemainder, KeepTypes
  <2>3. QED
    BY <1>1, <1>7, <2>2 DEF PairwiseRemainder, client, KeepTypes
<1>8. CASE PairwiseAdd
  <2>1. a_count \in 0 .. BufSize - 1 /\ a_count + 1 \in 0 .. BufSize - 1
    BY <1>1, <1>8, PassFits DEF PairwiseAdd, PairwiseReady, CountersOK
  <2>2. ZR!Plus(buffer[a_count], buffer[a_count + 1]) \in Value
    BY <1>1, <2>1, Values DEF KeepTypes
  <2>3. QED
    BY <1>1, <1>2, <1>8, <2>2 DEF PairwiseAdd, client, KeepTypes
<1>9. CASE rl_pairwise_end
  <2>1. buffer[0] \in Value
    BY <1>1, PairwiseMAAssumption DEF KeepTypes
  <2>2. rem_buf' \in [0 .. RemSize - 1 -> Value]
    BY <1>1, <1>9, <2>1, CellStored DEF rl_pairwise_end, KeepTypes
  <2>3. QED
    BY <1>1, <1>9, <2>2 DEF rl_pairwise_end, client, KeepTypes
<1>10. CASE rl_pairwise_add_resp
  BY <1>1, <1>2, <1>10 DEF rl_pairwise_add_resp, client, KeepTypes
<1>11. CASE rl_rem_add_req
  <2>1. rem_count - 1 \in 0 .. BufSize - 1 /\ rem_count - 1 \in Nat
    BY <1>1, <1>11, PairwiseMAAssumption DEF rl_rem_add_req, KeepTypes, Room
  <2>2. ZR!Plus(buffer[rem_count - 1], acc) \in Value
    BY <1>1, <2>1, Values DEF KeepTypes
  <2>3. QED
    BY <1>1, <1>2, <1>11, <2>1, <2>2 DEF rl_rem_add_req, client, KeepTypes
<1>12. CASE rl_rem_add_resp
  BY <1>1, <1>2, <1>12 DEF rl_rem_add_resp, client, KeepTypes
<1>13. CASE UNCHANGED vars
  BY <1>1, <1>13 DEF vars, client, unit, KeepTypes
<1>14. QED
  BY <1>3, <1>4, <1>5, <1>6, <1>7, <1>8, <1>9, <1>10, <1>11, <1>12, <1>13 DEF Next, Rules

LEMMA ControlNext == KeepInv /\ [Next]_vars => JobControl' /\ Received'
<1> SUFFICES ASSUME KeepInv, [Next]_vars PROVE JobControl' /\ Received'
  OBVIOUS
<1>1. KeepTypes /\ CountersOK /\ JobControl /\ Received
  BY DEF KeepInv, PassInv
<1>2. Len(fpu_mult) \in Nat
  BY <1>1 DEF KeepTypes
<1>3. ASSUME NEW n \in Lens, ClientInit(n) PROVE JobControl' /\ Received'
  <2>1. n \in Nat \ {0} /\ job \in Nat
    BY <1>1, PairwiseMAAssumption DEF KeepTypes
  <2>2. ~busy /\ state = "READY" /\ fpu_mult = <<>> /\ rem_count = 0
    BY <1>1, <1>3 DEF ClientInit, ZR!Start, JobControl
  <2>3. /\ state' = "READY" /\ fpu_mult' = <<>> /\ rem_count' = 0
        /\ busy' = TRUE /\ len' = n /\ alloc_size' = n /\ job' = job + 1
        /\ fed' = 0 /\ r_count' = 0 /\ m_count' = 0
    BY <1>3, <2>2 DEF ClientInit, ZR!Start, put_Init
  <2>4. JobControl'
    BY <2>1, <2>3 DEF JobControl
  <2>5. Received'
    BY <2>3, EmptySeq DEF Received
  <2>6. QED
    BY <2>4, <2>5
<1>4. CASE ClientReqOp
  <2>1. /\ busy /\ state = "READY" /\ fed < len /\ fed' = fed + 1
        /\ UNCHANGED <<job, len, busy, m_count, alloc_size, buffer, rem_count>>
        /\ fpu_mult' = Append(fpu_mult, ZR!Product(job, fed))
        /\ state' = IF r_count = alloc_size - 1 THEN "MULT" ELSE state
        /\ r_count' = r_count + 1
    BY <1>4 DEF ClientReqOp, ZR!Feed, put_ReqOp
  <2>2. r_count = fed /\ alloc_size = len /\ rem_count = 0 /\ len \in Lens /\ job >= 1
    BY <1>1, <2>1 DEF JobControl
  <2>3. /\ Len(fpu_mult') = Len(fpu_mult) + 1 /\ fpu_mult'[Len(fpu_mult) + 1] = ZR!Product(job, fed)
        /\ \A k \in 1 .. Len(fpu_mult) : fpu_mult'[k] = fpu_mult[k]
    <3>1. ZR!Product(job, fed) \in Value
      BY Values
    <3>2. QED
      BY <1>1, <2>1, <3>1, AppendProperties DEF KeepTypes
  <2>4. m_count + Len(fpu_mult) = fed
    BY <1>1, <2>1 DEF Received
  <2>5. JobControl'
    <3>1. CASE fed = len - 1
      <4>1. state' = "MULT" /\ fed' = len /\ m_count < len
        BY <1>1, <1>2, <2>1, <2>2, <2>4, <3>1 DEF KeepTypes, CountersOK
      <4>2. QED
        BY <2>1, <2>2, <4>1 DEF JobControl
    <3>2. CASE fed # len - 1
      <4>1. state' = "READY" /\ fed' < len
        BY <1>1, <2>1, <2>2, <3>2 DEF KeepTypes
      <4>2. QED
        BY <1>1, <2>1, <2>2, <4>1 DEF JobControl
    <3>3. QED
      BY <3>1, <3>2
  <2>6. Received'
    <3>1. m_count' + Len(fpu_mult') = fed'
      <4>1. m_count \in Nat /\ fed' = m_count + Len(fpu_mult) + 1
        BY <1>1, <2>1, <2>4 DEF CountersOK
      <4>2. QED
        BY <1>2, <2>1, <2>3, <4>1
    <3>2. \A c \in 0 .. m_count' - 1 : buffer'[c] = ZR!Product(job', c)
      BY <1>1, <2>1 DEF Received
    <3>3. ASSUME NEW k \in 1 .. Len(fpu_mult') PROVE fpu_mult'[k] = ZR!Product(job', m_count' + (k - 1))
      <4>1. CASE k = Len(fpu_mult) + 1
        <5>1. m_count + (k - 1) = fed
          BY <1>1, <1>2, <2>4, <4>1 DEF CountersOK
        <5>2. QED
          BY <2>1, <2>3, <4>1, <5>1
      <4>2. CASE k # Len(fpu_mult) + 1
        <5>1. k \in 1 .. Len(fpu_mult)
          BY <1>2, <2>3, <4>2
        <5>2. QED
          BY <1>1, <2>1, <2>3, <5>1 DEF Received
      <4>3. QED
        BY <4>1, <4>2
    <3>4. QED
      BY <3>1, <3>2, <3>3 DEF Received
  <2>7. QED
    BY <2>5, <2>6
<1>5. CASE ClientGet
  BY <1>1, <1>5 DEF ClientGet, response_get, JobControl, Received
<1>6. CASE rl_pipe_response_mult
  <2>1. /\ state \in {"READY", "MULT"} /\ m_count < alloc_size /\ fpu_mult # <<>>
        /\ buffer' = [buffer EXCEPT ![m_count] = Head(fpu_mult)]
        /\ fpu_mult' = Tail(fpu_mult)
        /\ state' = IF m_count = alloc_size - 1 THEN "ADD" ELSE state
        /\ m_count' = m_count + 1
        /\ UNCHANGED <<job, len, fed, busy, alloc_size, r_count, rem_count>>
    BY <1>6 DEF rl_pipe_response_mult, client
  <2>2. busy /\ alloc_size = len /\ rem_count = 0 /\ len \in Lens /\ job >= 1
    BY <1>1, <2>1 DEF JobControl
  <2>3. /\ Len(fpu_mult) > 0 /\ Len(fpu_mult') = Len(fpu_mult) - 1
        /\ Head(fpu_mult) = fpu_mult[1]
        /\ \A k \in 1 .. Len(fpu_mult') : fpu_mult'[k] = fpu_mult[k + 1]
        /\ Len(fpu_mult') = 0 => fpu_mult' = <<>>
    BY <1>1, <1>2, <2>1, HeadTailProperties, EmptySeq DEF KeepTypes
  <2>4. /\ m_count + Len(fpu_mult) = fed
        /\ fpu_mult[1] = ZR!Product(job, m_count)
    <3>1. m_count + (1 - 1) = m_count
      BY <1>1 DEF CountersOK
    <3>2. QED
      BY <1>1, <1>2, <2>1, <2>2, <2>3, <3>1 DEF Received
  <2>5. JobControl'
    <3>1. CASE m_count = len - 1
      <4>1. state = "MULT" /\ fed = len /\ Len(fpu_mult') = 0
        BY <1>1, <1>2, <2>1, <2>2, <2>3, <2>4, <3>1 DEF JobControl, KeepTypes, CountersOK
      <4>2. state' = "ADD"
        BY <2>1, <2>2, <3>1
      <4>3. QED
        BY <2>1, <2>2, <2>3, <4>1, <4>2 DEF JobControl
    <3>2. CASE m_count # len - 1
      <4>1. state' = state /\ m_count' < len
        BY <1>1, <2>1, <2>2, <3>2 DEF KeepTypes, CountersOK
      <4>2. QED
        BY <1>1, <2>1, <2>2, <4>1 DEF JobControl
    <3>3. QED
      BY <3>1, <3>2
  <2>6. Received'
    <3>1. m_count' + Len(fpu_mult') = fed'
      <4>1. m_count \in Nat /\ fed' = m_count + Len(fpu_mult)
        BY <1>1, <2>1, <2>4 DEF CountersOK
      <4>2. QED
        BY <1>2, <2>1, <2>3, <4>1
    <3>2. ASSUME NEW c \in 0 .. m_count' - 1 PROVE buffer'[c] = ZR!Product(job', c)
      <4>1. CASE c = m_count
        <5>1. m_count \in 0 .. BufSize - 1
          BY <1>1, <2>1, <2>2, PairwiseMAAssumption DEF CountersOK
        <5>2. buffer'[c] = Head(fpu_mult)
          BY <1>1, <2>1, <4>1, <5>1 DEF KeepTypes
        <5>3. QED
          BY <2>1, <2>3, <2>4, <4>1, <5>2
      <4>2. CASE c # m_count
        <5>1. c \in 0 .. m_count - 1
          BY <1>1, <2>1, <4>2 DEF CountersOK
        <5>2. buffer'[c] = buffer[c]
          BY <1>1, <2>1, <2>2, <4>2, <5>1, PairwiseMAAssumption DEF KeepTypes, CountersOK
        <5>3. QED
          BY <1>1, <2>1, <2>2, <5>1, <5>2 DEF Received
      <4>3. QED
        BY <4>1, <4>2
    <3>3. ASSUME NEW k \in 1 .. Len(fpu_mult') PROVE fpu_mult'[k] = ZR!Product(job', m_count' + (k - 1))
      <4>1. k + 1 \in 1 .. Len(fpu_mult) /\ m_count' + (k - 1) = m_count + ((k + 1) - 1)
        BY <1>1, <1>2, <2>1, <2>3 DEF CountersOK
      <4>2. QED
        BY <1>1, <2>1, <2>2, <2>3, <4>1 DEF Received
    <3>4. QED
      BY <3>1, <3>2, <3>3 DEF Received
  <2>7. QED
    BY <2>5, <2>6
<1>7. CASE PairwiseRemainder \/ PairwiseAdd \/ rl_pairwise_add_resp \/ rl_rem_add_req
  <2>1. /\ state \in {"ADD", "REM"} /\ state' = state
        /\ UNCHANGED <<job, len, fed, busy, alloc_size, r_count, fpu_mult>>
    BY <1>7 DEF PairwiseRemainder, PairwiseAdd, PairwiseReady, rl_pairwise_add_resp,
                rl_rem_add_req, client
  <2>2. QED
    BY <1>1, <2>1 DEF JobControl, Received
<1>8. CASE rl_pairwise_end
  BY <1>1, <1>8 DEF rl_pairwise_end, client, JobControl, Received
<1>9. CASE rl_rem_add_resp
  BY <1>1, <1>9 DEF rl_rem_add_resp, client, JobControl, Received
<1>10. CASE UNCHANGED vars
  BY <1>1, <1>10 DEF vars, client, unit, JobControl, Received
<1>11. QED
  BY <1>3, <1>4, <1>5, <1>6, <1>7, <1>8, <1>9, <1>10 DEF Next, Rules
LEMMA RoomNext == KeepInv /\ [Next]_vars => Room'
<1> SUFFICES ASSUME KeepInv, [Next]_vars PROVE Room'
  OBVIOUS
<1>1. KeepTypes /\ CountersOK /\ InPass /\ JobControl /\ Room
  BY DEF KeepInv, PassInv
<1>2. m_count \in Nat /\ rem_count \in Nat /\ BufSize \in Nat
  BY <1>1, PairwiseMAAssumption DEF KeepTypes, CountersOK
<1>3. PICK w \in Nat : w = 2 ^ rem_count
  BY <1>2, PowerCounts
<1>4. CASE rl_pipe_response_mult
  <2>1. CASE m_count = alloc_size - 1
    <3>1. state' = "ADD" /\ m_count' = len /\ rem_count' = 0 /\ len \in 1 .. BufSize
      BY <1>1, <1>4, <2>1, PairwiseMAAssumption
      DEF rl_pipe_response_mult, JobControl, CountersOK, KeepTypes
    <3>2. PICK l \in 1 .. BufSize : l = m_count'
      BY <3>1
    <3>3. 2 ^ rem_count' = 1
      BY <3>1, PowerZero
    <3>4. (l + 1) * 1 <= BufSize + 1 /\ (l + 2) * 1 <= 2 * (BufSize + 1)
      BY <1>2
    <3>5. QED
      BY <1>2, <3>1, <3>2, <3>3, <3>4 DEF Room
  <2>2. CASE m_count # alloc_size - 1
    BY <1>4, <2>2 DEF rl_pipe_response_mult, Room
  <2>3. QED
    BY <2>1, <2>2
<1>5. CASE PairwiseRemainder
  <2>1. state = "ADD" /\ state' = state /\ m_count % 2 = 1 /\ m_count' = m_count - 1 /\ m_count >= 1
        /\ rem_count' = rem_count + 1
    BY <1>1, <1>5 DEF PairwiseRemainder, PairwiseReady, InPass
  <2>2. (m_count + 1) * w <= BufSize + 1 /\ m_count + rem_count <= BufSize
    BY <1>1, <1>3, <2>1 DEF Room
  <2>3. 2 ^ rem_count' = 2 * w
    BY <1>2, <1>3, <2>1, PowerDoubles
  <2>4. m_count' % 2 = 0 /\ m_count' \in Nat /\ m_count' + 2 = m_count + 1
    BY <1>2, <2>1
  <2>5. (m_count + 1) * (2 * w) <= 2 * (BufSize + 1)
    <3>1. PICK p \in Nat : p = (m_count + 1) * w
      BY <1>2
    <3>2. (m_count + 1) * (2 * w) = 2 * p
      BY <1>2, <3>1
    <3>3. QED
      BY <1>2, <2>2, <3>1, <3>2
  <2>6. (m_count' + 2) * 2 ^ rem_count' <= 2 * (BufSize + 1)
    BY <2>3, <2>4, <2>5
  <2>7. m_count' + rem_count' <= BufSize
    BY <1>2, <2>1, <2>2
  <2>8. QED
    BY <2>1, <2>4, <2>6, <2>7 DEF Room
<1>6. CASE rl_pairwise_add_resp
  <2>1. CASE ar_count = m_count - 2
    \* The pass was even: the elements left are half of them.
    <3>1. /\ state = "ADD" /\ state' = state /\ m_count' = m_count \div 2 /\ rem_count' = rem_count
          /\ m_count % 2 = 0
      BY <1>1, <1>2, <1>6, <2>1, LenSequence DEF rl_pairwise_add_resp, CountersOK, InPass
    <3>2. (m_count + 2) * w <= 2 * (BufSize + 1) /\ m_count + rem_count <= BufSize
      BY <1>1, <1>3, <3>1 DEF Room
    <3>3. PICK k \in Nat : k = m_count \div 2
      BY <1>2
    <3>4. m_count = 2 * k
      BY <1>2, <3>1, <3>3
    <3>5. PICK p \in Nat : p = (k + 1) * w
      BY <1>3
    <3>6. (m_count + 2) * w = 2 * p
      BY <1>3, <3>4, <3>5
    <3>7. p <= BufSize + 1
      BY <1>2, <3>2, <3>6
    <3>8. (k + 2) * w <= 2 * (BufSize + 1)
      <4>1. (k + 2) * w = p + w /\ p = k * w + w
        BY <1>3, <3>5
      <4>2. PICK q \in Nat : q = k * w
        BY <1>3
      <4>3. QED
        BY <1>2, <1>3, <3>7, <4>1, <4>2
    <3>9. k + rem_count <= BufSize
      BY <1>2, <3>2, <3>4
    <3>10. QED
      <4>1. /\ m_count' = k /\ rem_count' = rem_count /\ 2 ^ rem_count' = w /\ state' = "ADD"
            /\ (k + 1) * w <= BufSize + 1
        BY <1>3, <3>1, <3>3, <3>5, <3>7
      <4>2. QED
        BY <3>8, <3>9, <4>1 DEF Room
  <2>2. CASE ar_count # m_count - 2
    BY <1>1, <1>6, <2>2 DEF rl_pairwise_add_resp, Room
  <2>3. QED
    BY <2>1, <2>2
<1>7. CASE rl_pairwise_end
  BY <1>1, <1>2, <1>7 DEF rl_pairwise_end, Room
<1>8. CASE rl_rem_add_req
  BY <1>1, <1>2, <1>8 DEF rl_rem_add_req, Room
<1>9. CASE PairwiseAdd \/ rl_rem_add_resp
  <2>1. /\ state' \in {state, "COMPLETE"}
        /\ UNCHANGED <<m_count, rem_count>>
    BY <1>9 DEF PairwiseAdd, PairwiseReady, rl_rem_add_resp
  <2>2. QED
    BY <1>1, <2>1 DEF Room
<1>10. CASE (\E n \in Lens : ClientInit(n)) \/ ClientReqOp \/ ClientGet
  <2>1. state' \in {"READY", "MULT"}
    BY <1>10 DEF ClientInit, put_Init, ClientReqOp, put_ReqOp, ClientGet, response_get
  <2>2. QED
    BY <2>1 DEF Room
<1>11. CASE UNCHANGED vars
  BY <1>1, <1>11 DEF vars, unit, Room
<1>12. QED
  BY <1>4, <1>5, <1>6, <1>7, <1>8, <1>9, <1>10, <1>11 DEF Next, Rules

\* A remainder that is taken while elements are left has a cell.
LEMMA RemainderHasRoom ==
    ASSUME RemRoom, KeepInv, PairwiseReady, m_count % 2 = 1
    PROVE  rem_count \in 0 .. RemSize - 1
<1>1. state = "ADD" /\ m_count \in Nat /\ m_count >= 3 /\ rem_count \in Nat
  BY DEF PairwiseReady, KeepInv, PassInv, CountersOK, KeepTypes
<1>2. PICK w \in Nat : w = 2 ^ rem_count
  BY <1>1, PowerCounts
<1>3. (m_count + 1) * w <= BufSize + 1
  BY <1>1, <1>2 DEF KeepInv, Room
<1>4. 4 * w <= BufSize + 1
  <2>1. PICK k \in Nat : m_count + 1 = 4 + k
    <3>1. m_count - 3 \in Nat /\ m_count + 1 = 4 + (m_count - 3)
      BY <1>1
    <3>2. QED
      BY <3>1
  <2>2. PICK p \in Nat : p = k * w
    BY <1>2
  <2>3. (4 + k) * w = 4 * w + p
    BY <1>2, <2>2
  <2>4. QED
    BY <1>2, <1>3, <2>1, <2>3, PairwiseMAAssumption
<1>5. PICK r \in Nat : r = 2 ^ RemSize
  BY PowerCounts, PairwiseMAAssumption
<1>6. w >= 1
  <2>1. PICK z \in Nat : z = 0
    OBVIOUS
  <2>2. z <= rem_count
    BY <1>1, <2>1
  <2>3. 2 ^ z <= 2 ^ rem_count
    BY <1>1, <2>2, PowerGrows
  <2>4. 2 ^ z = 1
    BY <2>1, PowerZero
  <2>5. QED
    BY <1>2, <2>3, <2>4
<1>7. w < r
  BY <1>2, <1>4, <1>5, <1>6, PairwiseMAAssumption DEF RemRoom
<1>8. ASSUME RemSize <= rem_count PROVE FALSE
  <2>1. r <= w
    BY <1>1, <1>2, <1>5, <1>8, PowerGrows, PairwiseMAAssumption
  <2>2. QED
    BY <1>2, <1>5, <1>7, <2>1
<1>9. QED
  BY <1>1, <1>8, PairwiseMAAssumption
-----------------------------------------------------------------------------
(* The passes keep the sum.                                                 *)

\* An odd element moves to rem_buf.
LEMMA SumRemainder ==
    ASSUME RemRoom, KeepInv, PairwiseRemainder
    PROVE  PassesKeepSum'
<1>1. PICK S, h, T, g : S = Places /\ h = Held /\ T = Places' /\ g = Held'
  OBVIOUS
<1>2. KindsOfPlaces /\ KindsOfPlaces'
  BY PlacesAre, PTL
<1>3. state = "ADD" /\ PairwiseReady /\ m_count % 2 = 1
  BY DEF PairwiseRemainder, PairwiseReady
<1>4. /\ KeepTypes /\ CountersOK /\ InPass /\ EachOnce(S, h, job, len)
  BY <1>1, <1>3 DEF KeepInv, PassInv, PassesKeepSum
<1>5. PICK m \in Nat, r \in 0 .. RemSize - 1 : m = m_count /\ r = rem_count
  BY <1>3, <1>4, RemainderHasRoom DEF CountersOK
<1>6. /\ m_count' = m - 1 /\ rem_count' = r + 1 /\ m >= 2
      /\ UNCHANGED <<buffer, fpu_add, a_count, ar_count, job, len, state>>
      /\ rem_buf' = [rem_buf EXCEPT ![r] = buffer[m - 1]]
  <2>1. m >= 2
    BY <1>3, <1>4, <1>5 DEF PairwiseReady, CountersOK
  <2>2. QED
    BY <1>5, <2>1 DEF PairwiseRemainder, client, PairwiseReady
<1>7. a_count = 0 /\ ar_count \div 2 = 0 /\ Len(fpu_add) = 0
  BY <1>3, <1>4, LenSequence DEF CountersOK, InPass
<1>8. \A p : p \in S <=> \/ \E c \in 0 .. m - 1 : p = Cell(c)
                         \/ \E c \in 0 .. r - 1 : p = Remainder(c)
  BY <1>1, <1>2, <1>5, <1>7 DEF KindsOfPlaces
<1>9. \A p : p \in T <=> \/ \E c \in 0 .. m - 2 : p = Cell(c)
                         \/ \E c \in 0 .. r : p = Remainder(c)
  <2>1. (m - 1) - 1 = m - 2 /\ (r + 1) - 1 = r
    BY <1>5
  <2>2. QED
    BY <1>1, <1>2, <1>5, <1>6, <1>7, <2>1 DEF KindsOfPlaces
<1>10. /\ \A c : Cell(c) \in S => h[Cell(c)] = buffer[c]
       /\ \A c : Remainder(c) \in S => h[Remainder(c)] = rem_buf[c]
       /\ \A c : Cell(c) \in T => g[Cell(c)] = buffer[c]
       /\ \A c : Remainder(c) \in T => g[Remainder(c)] = IF c = r THEN buffer[m - 1] ELSE rem_buf[c]
  <2>1. \A c : rem_buf'[c] = IF c = r THEN buffer[m - 1] ELSE rem_buf[c]
    BY <1>4, <1>5, <1>6 DEF KeepTypes
  <2>2. QED
    BY <1>1, <1>2, <1>6, <2>1 DEF KindsOfPlaces
<1> DEFINE f == [p \in S |-> IF p = Cell(m - 1) THEN Remainder(r) ELSE p]
<1>11. \A p \in S : f[p] \in T /\ g[f[p]] = h[p]
  <2>1. ASSUME NEW c \in 0 .. m - 1 PROVE f[Cell(c)] \in T /\ g[f[Cell(c)]] = h[Cell(c)]
    <3>1. CASE c = m - 1
      BY <1>5, <1>6, <1>8, <1>9, <1>10, <3>1
    <3>2. CASE c # m - 1
      <4>1. c \in 0 .. m - 2 /\ Cell(c) # Cell(m - 1)
        BY <1>5, <3>2, KindsDiffer
      <4>2. QED
        BY <1>8, <1>9, <1>10, <4>1
    <3>3. QED
      BY <3>1, <3>2
  <2>2. ASSUME NEW c \in 0 .. r - 1 PROVE f[Remainder(c)] \in T /\ g[f[Remainder(c)]] = h[Remainder(c)]
    <3>1. c \in 0 .. r /\ c # r /\ Remainder(c) # Cell(m - 1)
      BY <1>5, KindsDiffer
    <3>2. QED
      BY <1>8, <1>9, <1>10, <3>1
  <2>3. QED
    <3> HIDE DEF f
    <3>1. QED
      BY <1>8, <2>1, <2>2
<1>12. \A p, q \in S : f[p] = f[q] => p = q
  <2>1. Remainder(r) \notin S
    BY <1>5, <1>8, KindsDiffer
  <2>2. QED
    BY <2>1
<1>13. \A p \in T : \E q \in S : f[q] = p
  <2>1. ASSUME NEW c \in 0 .. m - 2 PROVE Cell(c) \in S /\ f[Cell(c)] = Cell(c)
    BY <1>5, <1>8, KindsDiffer
  <2>2. ASSUME NEW c \in 0 .. r - 1 PROVE Remainder(c) \in S /\ f[Remainder(c)] = Remainder(c)
    BY <1>8, KindsDiffer
  <2>3. Cell(m - 1) \in S /\ f[Cell(m - 1)] = Remainder(r)
    BY <1>5, <1>6, <1>8
  <2>4. \A c \in 0 .. r : c \in 0 .. r - 1 \/ c = r
    BY <1>5
  <2>5. QED
    <3> HIDE DEF f
    <3>1. QED
      BY <1>9, <2>1, <2>2, <2>3, <2>4
<1>14. EachOnce(T, g, job, len)
  <2>1. PICK j, n : j = job /\ n = len
    OBVIOUS
  <2>2. EachOnce(S, h, j, n)
    BY <1>4, <2>1
  <2>3. EachOnce(T, g, j, n)
    <3> HIDE DEF f
    <3>1. QED
      BY <1>11, <1>12, <1>13, <2>2, Moved
  <2>4. QED
    BY <2>1, <2>3
<1>15. QED
  BY <1>1, <1>6, <1>14 DEF PassesKeepSum

\* Two neighbours go into the adder.
LEMMA SumAdd ==
    ASSUME KeepInv, PairwiseAdd
    PROVE  PassesKeepSum'
<1>1. PICK S, h, T, g : S = Places /\ h = Held /\ T = Places' /\ g = Held'
  OBVIOUS
<1>2. KindsOfPlaces /\ KindsOfPlaces'
  BY PlacesAre, PTL
<1>3. state = "ADD" /\ PairwiseReady
  BY DEF PairwiseAdd, PairwiseReady
<1>4. KeepTypes /\ CountersOK /\ InPass /\ EachOnce(S, h, job, len)
  BY <1>1, <1>3 DEF KeepInv, PassInv, PassesKeepSum
<1>5. PICK m \in Nat, a \in Nat, d \in Nat, r \in Nat, l \in Nat :
          m = m_count /\ a = a_count /\ d = ar_count \div 2 /\ r = rem_count /\ l = Len(fpu_add)
  <2>1. m_count \in Nat /\ a_count \in Nat /\ ar_count \in Nat /\ rem_count \in Nat
    BY <1>4 DEF CountersOK, KeepTypes
  <2>2. Len(fpu_add) \in Nat
    BY <1>4, LenSequence DEF CountersOK
  <2>3. ar_count \div 2 \in Nat
    BY <2>1
  <2>4. QED
    BY <2>1, <2>2, <2>3
<1>6. a + 2 <= m /\ d <= a /\ m <= BufSize
  <2>1. ar_count <= a_count
    BY <1>3, <1>4, <1>5 DEF InPass, CountersOK
  <2>2. ar_count \div 2 <= ar_count
    BY <1>4 DEF CountersOK
  <2>3. QED
    BY <1>3, <1>4, <1>5, <2>1, <2>2, PassFits DEF PairwiseReady, CountersOK
<1>7. PICK x \in Value, y \in Value : x = buffer[a] /\ y = buffer[a + 1]
  <2>1. a \in 0 .. BufSize - 1 /\ a + 1 \in 0 .. BufSize - 1
    BY <1>5, <1>6, PairwiseMAAssumption
  <2>2. QED
    BY <1>4, <2>1 DEF KeepTypes
<1>8. /\ UNCHANGED <<m_count, rem_count, ar_count, buffer, rem_buf, job, len, state>>
      /\ a_count' = a + 2
      /\ fpu_add' = Append(fpu_add, ZR!Plus(x, y))
  BY <1>5, <1>7 DEF PairwiseAdd, client
<1>9. /\ Len(fpu_add') = l + 1 /\ fpu_add'[l + 1] = ZR!Plus(x, y)
      /\ \A k \in 1 .. l : fpu_add'[k] = fpu_add[k]
  BY <1>4, <1>5, <1>7, <1>8, Values, AppendProperties DEF KeepTypes
<1>10. \A p : p \in S <=> \/ \E c \in 0 .. m - 1 : (c < d \/ c >= a) /\ p = Cell(c)
                          \/ \E c \in 0 .. r - 1 : p = Remainder(c)
                          \/ \E k \in 1 .. l : p = Adding(k)
  BY <1>1, <1>2, <1>5 DEF KindsOfPlaces
<1>11. \A p : p \in T <=> \/ \E c \in 0 .. m - 1 : (c < d \/ c >= a + 2) /\ p = Cell(c)
                          \/ \E c \in 0 .. r - 1 : p = Remainder(c)
                          \/ \E k \in 1 .. l + 1 : p = Adding(k)
  BY <1>1, <1>2, <1>5, <1>8, <1>9 DEF KindsOfPlaces
<1>12. /\ \A c : Cell(c) \in S => h[Cell(c)] = buffer[c]
       /\ \A c : Remainder(c) \in S => h[Remainder(c)] = rem_buf[c]
       /\ \A k : Adding(k) \in S => h[Adding(k)] = fpu_add[k]
       /\ \A c : Cell(c) \in T => g[Cell(c)] = buffer[c]
       /\ \A c : Remainder(c) \in T => g[Remainder(c)] = rem_buf[c]
       /\ \A k : Adding(k) \in T => g[Adding(k)] = fpu_add'[k]
  BY <1>1, <1>2, <1>8 DEF KindsOfPlaces
<1>13. /\ Cell(a) \in S /\ Cell(a + 1) \in S /\ Cell(a) # Cell(a + 1)
       /\ Adding(l + 1) \notin S
  <2>1. a \in 0 .. m - 1 /\ a + 1 \in 0 .. m - 1 /\ a >= a /\ a + 1 >= a /\ a # a + 1
    BY <1>5, <1>6
  <2>2. Cell(a) \in S /\ Cell(a + 1) \in S
    BY <1>10, <2>1
  <2>3. Adding(l + 1) \notin S
    <3>1. l + 1 \notin 1 .. l
      BY <1>5
    <3>2. QED
      BY <1>10, <3>1, KindsDiffer
  <2>4. QED
    BY <2>1, <2>2, <2>3, KindsDiffer
<1>14. T = (S \ {Cell(a), Cell(a + 1)}) \cup {Adding(l + 1)}
  <2>1. \A c \in 0 .. m - 1 : c < d \/ c >= a + 2 <=> (c < d \/ c >= a) /\ c # a /\ c # a + 1
    BY <1>5, <1>6
  <2>2. \A k : k \in 1 .. l + 1 <=> k \in 1 .. l \/ k = l + 1
    BY <1>5
  <2>3. \A p : p \in T <=> p \in (S \ {Cell(a), Cell(a + 1)}) \cup {Adding(l + 1)}
    <3>1. ASSUME NEW c
          PROVE  Cell(c) \in T <=> Cell(c) \in (S \ {Cell(a), Cell(a + 1)}) \cup {Adding(l + 1)}
      BY <1>10, <1>11, <2>1, KindsDiffer
    <3>2. ASSUME NEW c
          PROVE  Remainder(c) \in T <=> Remainder(c) \in (S \ {Cell(a), Cell(a + 1)}) \cup {Adding(l + 1)}
      BY <1>10, <1>11, KindsDiffer
    <3>3. ASSUME NEW k
          PROVE  Adding(k) \in T <=> Adding(k) \in (S \ {Cell(a), Cell(a + 1)}) \cup {Adding(l + 1)}
      BY <1>10, <1>11, <2>2, KindsDiffer
    <3>4. \A p : p \in S \cup T \cup {Adding(l + 1)} =>
              \/ \E c : p = Cell(c) \/ p = Remainder(c) \/ p = Adding(c)
      BY <1>10, <1>11
    <3>5. QED
      BY <3>1, <3>2, <3>3, <3>4
  <2>4. QED
    BY <2>3
<1>15. \A p \in S \ {Cell(a), Cell(a + 1)} : g[p] = h[p]
  <2>1. ASSUME NEW p \in S \ {Cell(a), Cell(a + 1)} PROVE g[p] = h[p]
    <3>1. p \in T
      BY <1>14
    <3>2. CASE \E c : p = Cell(c)
      BY <1>12, <3>1, <3>2
    <3>3. CASE \E c : p = Remainder(c)
      BY <1>12, <3>1, <3>3
    <3>4. CASE \E k \in 1 .. l : p = Adding(k)
      BY <1>9, <1>12, <3>1, <3>4
    <3>5. QED
      BY <1>10, <3>2, <3>3, <3>4
  <2>2. QED
    BY <2>1
<1>16. /\ h[Cell(a)] = x /\ h[Cell(a + 1)] = y
       /\ g[Adding(l + 1)] = ZR!Plus(x, y)
  <2>1. Adding(l + 1) \in T
    BY <1>14
  <2>2. QED
    BY <1>7, <1>9, <1>12, <1>13, <2>1
<1>17. EachOnce(T, g, job, len)
  <2> PICK j, n, pc : j = job /\ n = len /\ pc = Adding(l + 1)
    OBVIOUS
  <2>1. PICK pa \in S, pb \in S :
            j = job /\ n = len /\ pa = Cell(a) /\ pb = Cell(a + 1) /\ pc = Adding(l + 1)
    BY <1>13
  <2>2. EachOnce(S, h, j, n)
    BY <1>4, <2>1
  <2>3. pa # pb /\ pc \notin S /\ T = (S \ {pa, pb}) \cup {pc}
    BY <1>13, <1>14, <2>1
  <2>4. \A p \in S \ {pa, pb} : g[p] = h[p]
    BY <1>15, <2>1
  <2>5. h[pa] \in Value /\ h[pb] \in Value /\ g[pc] = ZR!Plus(h[pa], h[pb])
    BY <1>7, <1>16, <2>1
  <2>6. EachOnce(T, g, j, n)
    BY <2>2, <2>3, <2>4, <2>5, Merged
  <2>7. QED
    BY <2>1, <2>6
<1>18. QED
  BY <1>1, <1>8, <1>17 DEF PassesKeepSum

\* A sum comes back to the cell that its pass has for it.
LEMMA SumResponse ==
    ASSUME KeepInv, rl_pairwise_add_resp
    PROVE  PassesKeepSum'
<1>1. PICK S, h, T, g : S = Places /\ h = Held /\ T = Places' /\ g = Held'
  OBVIOUS
<1>2. KindsOfPlaces /\ KindsOfPlaces'
  BY PlacesAre, PTL
<1>3. state = "ADD" /\ fpu_add # <<>>
  BY DEF rl_pairwise_add_resp
<1>4. KeepTypes /\ CountersOK /\ InPass /\ EachOnce(S, h, job, len)
  BY <1>1, <1>3 DEF KeepInv, PassInv, PassesKeepSum
<1>5. PICK m \in Nat, a \in Nat, d \in Nat, r \in Nat, l \in Nat \ {0} :
          m = m_count /\ a = a_count /\ d = ar_count \div 2 /\ r = rem_count /\ l = Len(fpu_add)
  <2>1. m_count \in Nat /\ a_count \in Nat /\ ar_count \in Nat /\ rem_count \in Nat
    BY <1>4 DEF CountersOK, KeepTypes
  <2>2. Len(fpu_add) \in Nat /\ Len(fpu_add) # 0
    BY <1>3, <1>4, LenSequence DEF CountersOK
  <2>3. ar_count \div 2 \in Nat
    BY <2>1
  <2>4. QED
    BY <2>1, <2>2, <2>3
<1>6. /\ ar_count = 2 * d /\ d + l <= a /\ 2 * d + 2 * l = a /\ a <= m /\ m <= BufSize
      /\ m % 2 = 0
  <2>1. ar_count + 2 * l = a /\ a % 2 = 0 /\ a <= m /\ (a > 0 => m % 2 = 0)
    BY <1>3, <1>4, <1>5 DEF InPass
  <2>2. ar_count % 2 = 0
    BY <1>4, <1>5, <2>1 DEF CountersOK
  <2>3. ar_count = 2 * d
    BY <1>4, <1>5, <2>2 DEF CountersOK
  <2>4. m <= BufSize
    BY <1>3, <1>5, PassFits
  <2>5. QED
    BY <1>5, <2>1, <2>3, <2>4
<1>7. PICK x \in Value : x = Head(fpu_add) /\ x = fpu_add[1]
  BY <1>3, <1>4, SequenceSteps, HeadTailProperties DEF KeepTypes
<1>8. /\ UNCHANGED <<rem_count, rem_buf, job, len, state>>
      /\ buffer' = [buffer EXCEPT ![d] = x]
      /\ fpu_add' = Tail(fpu_add)
  BY <1>5, <1>7 DEF rl_pairwise_add_resp, client
<1>9. /\ Len(fpu_add') = l - 1
      /\ \A k \in 1 .. l - 1 : fpu_add'[k] = fpu_add[k + 1]
  BY <1>3, <1>4, <1>5, <1>8, HeadTailProperties DEF KeepTypes
<1>10. \A p : p \in S <=> \/ \E c \in 0 .. m - 1 : (c < d \/ c >= a) /\ p = Cell(c)
                          \/ \E c \in 0 .. r - 1 : p = Remainder(c)
                          \/ \E k \in 1 .. l : p = Adding(k)
  BY <1>1, <1>2, <1>5 DEF KindsOfPlaces
<1>11. \A p : p \in T <=> \/ \E c \in 0 .. m - 1 : (c <= d \/ c >= a) /\ p = Cell(c)
                          \/ \E c \in 0 .. r - 1 : p = Remainder(c)
                          \/ \E k \in 1 .. l - 1 : p = Adding(k)
  <2>1. CASE ar_count = m_count - 2
    <3>1. m_count' = m_count \div 2 /\ a_count' = 0 /\ ar_count' = 0
      BY <2>1 DEF rl_pairwise_add_resp
    <3>2. m_count' = d + 1 /\ ar_count' \div 2 = 0 /\ a = m
      BY <1>5, <1>6, <2>1, <3>1
    <3>3. \A c : c \in 0 .. m_count' - 1 /\ (c < 0 \/ c >= 0) <=>
                 c \in 0 .. m - 1 /\ (c <= d \/ c >= a)
      BY <1>5, <1>6, <3>2
    <3>4. QED
      BY <1>1, <1>2, <1>5, <1>8, <1>9, <3>1, <3>2, <3>3 DEF KindsOfPlaces
  <2>2. CASE ar_count # m_count - 2
    <3>1. m_count' = m /\ a_count' = a /\ ar_count' = 2 * d + 2
      BY <1>5, <1>6, <2>2 DEF rl_pairwise_add_resp
    <3>2. ar_count' \div 2 = d + 1
      BY <1>5, <3>1
    <3>3. \A c \in 0 .. m - 1 : c < d + 1 <=> c <= d
      BY <1>5
    <3>4. QED
      BY <1>1, <1>2, <1>5, <1>8, <1>9, <3>1, <3>2, <3>3 DEF KindsOfPlaces
  <2>3. QED
    BY <2>1, <2>2
<1>12. /\ \A c : Cell(c) \in S => h[Cell(c)] = buffer[c]
       /\ \A c : Remainder(c) \in S => h[Remainder(c)] = rem_buf[c]
       /\ \A k : Adding(k) \in S => h[Adding(k)] = fpu_add[k]
       /\ \A c : Cell(c) \in T => g[Cell(c)] = IF c = d THEN x ELSE buffer[c]
       /\ \A c : Remainder(c) \in T => g[Remainder(c)] = rem_buf[c]
       /\ \A k : Adding(k) \in T => g[Adding(k)] = fpu_add'[k]
  <2>1. d \in 0 .. BufSize - 1
    BY <1>5, <1>6, PairwiseMAAssumption
  <2>2. \A c : buffer'[c] = IF c = d THEN x ELSE buffer[c]
    BY <1>4, <1>8, <2>1 DEF KeepTypes
  <2>3. QED
    BY <1>1, <1>2, <1>8, <2>2 DEF KindsOfPlaces
<1> DEFINE f == [p \in S |-> IF p = Adding(1) THEN Cell(d)
                             ELSE IF \E k \in 2 .. l : p = Adding(k)
                                  THEN Adding((CHOOSE k \in 2 .. l : p = Adding(k)) - 1)
                                  ELSE p]
<1>13. Adding(1) \in S /\ f[Adding(1)] = Cell(d)
  <2>1. 1 \in 1 .. l
    BY <1>5
  <2>2. Adding(1) \in S
    BY <1>10, <2>1
  <2>3. QED
    BY <2>2
<1>14. ASSUME NEW k \in 2 .. l
       PROVE  Adding(k) \in S /\ f[Adding(k)] = Adding(k - 1) /\ k - 1 \in 1 .. l - 1
  <2>1. k \in 1 .. l /\ k # 1 /\ k - 1 \in 1 .. l - 1
    BY <1>5
  <2>2. Adding(k) \in S /\ Adding(k) # Adding(1)
    BY <1>10, <2>1, KindsDiffer
  <2>3. (CHOOSE i \in 2 .. l : Adding(k) = Adding(i)) = k
    BY KindsDiffer
  <2>4. QED
    BY <2>1, <2>2, <2>3
<1>15. ASSUME NEW c, Cell(c) \in S
       PROVE  f[Cell(c)] = Cell(c) /\ c \in 0 .. m - 1 /\ c # d /\ (c < d \/ c >= a)
  <2>1. c \in 0 .. m - 1 /\ (c < d \/ c >= a)
    BY <1>10, <1>15, KindsDiffer
  <2>2. QED
    BY <1>5, <1>6, <1>15, <2>1, KindsDiffer
<1>16. ASSUME NEW c, Remainder(c) \in S
       PROVE  f[Remainder(c)] = Remainder(c) /\ c \in 0 .. r - 1
  BY <1>10, <1>16, KindsDiffer
<1>17. \A p \in S : \/ \E c : p = Cell(c)
                    \/ \E c : p = Remainder(c)
                    \/ p = Adding(1)
                    \/ \E k \in 2 .. l : p = Adding(k)
  <2>1. \A k \in 1 .. l : k = 1 \/ k \in 2 .. l
    BY <1>5
  <2>2. QED
    BY <1>10, <2>1
<1>18. d \in 0 .. m - 1 /\ Cell(d) \in T
  <2>1. d \in 0 .. m - 1 /\ d <= d
    BY <1>5, <1>6
  <2>2. QED
    BY <1>11, <2>1
<1> HIDE DEF f
<1>19. \A p \in S : f[p] \in T /\ g[f[p]] = h[p]
  <2>1. ASSUME NEW c, Cell(c) \in S PROVE f[Cell(c)] \in T /\ g[f[Cell(c)]] = h[Cell(c)]
    <3>1. Cell(c) \in T
      <4>1. c \in 0 .. m - 1 /\ (c <= d \/ c >= a)
        BY <1>5, <1>15, <2>1
      <4>2. QED
        BY <1>11, <4>1
    <3>2. QED
      BY <1>12, <1>15, <2>1, <3>1
  <2>2. ASSUME NEW c, Remainder(c) \in S
        PROVE  f[Remainder(c)] \in T /\ g[f[Remainder(c)]] = h[Remainder(c)]
    BY <1>11, <1>12, <1>16, <2>2
  <2>3. f[Adding(1)] \in T /\ g[f[Adding(1)]] = h[Adding(1)]
    BY <1>7, <1>12, <1>13, <1>18
  <2>4. ASSUME NEW k \in 2 .. l PROVE f[Adding(k)] \in T /\ g[f[Adding(k)]] = h[Adding(k)]
    <3>1. Adding(k - 1) \in T /\ (k - 1) + 1 = k
      BY <1>5, <1>11, <1>14
    <3>2. QED
      BY <1>9, <1>12, <1>14, <3>1
  <2>5. QED
    BY <1>17, <2>1, <2>2, <2>3, <2>4
<1>20. \A p, q \in S : f[p] = f[q] => p = q
  <2>1. ASSUME NEW p \in S, NEW q \in S, f[p] = f[q] PROVE p = q
    <3>1. CASE \E c : p = Cell(c)
      BY <1>13, <1>14, <1>15, <1>16, <1>17, <2>1, <3>1, KindsDiffer
    <3>2. CASE \E c : p = Remainder(c)
      BY <1>13, <1>14, <1>15, <1>16, <1>17, <2>1, <3>2, KindsDiffer
    <3>3. CASE p = Adding(1)
      BY <1>13, <1>14, <1>15, <1>16, <1>17, <2>1, <3>3, KindsDiffer
    <3>4. CASE \E k \in 2 .. l : p = Adding(k)
      <4>1. PICK k \in 2 .. l : p = Adding(k)
        BY <3>4
      <4>2. PICK i \in 2 .. l : q = Adding(i)
        BY <1>13, <1>14, <1>15, <1>16, <1>17, <2>1, <4>1, KindsDiffer
      <4>3. k - 1 = i - 1
        BY <1>14, <2>1, <4>1, <4>2, KindsDiffer
      <4>4. QED
        BY <4>1, <4>2, <4>3
    <3>5. QED
      BY <1>17, <3>1, <3>2, <3>3, <3>4
  <2>2. QED
    BY <2>1
<1>21. \A p \in T : \E q \in S : f[q] = p
  <2>1. ASSUME NEW c \in 0 .. m - 1, c <= d \/ c >= a PROVE \E q \in S : f[q] = Cell(c)
    <3>1. CASE c = d
      BY <1>13, <3>1
    <3>2. CASE c # d
      <4>1. c < d \/ c >= a
        BY <1>5, <2>1, <3>2
      <4>2. Cell(c) \in S
        BY <1>10, <4>1
      <4>3. QED
        BY <1>15, <4>2
    <3>3. QED
      BY <3>1, <3>2
  <2>2. ASSUME NEW c \in 0 .. r - 1 PROVE \E q \in S : f[q] = Remainder(c)
    <3>1. Remainder(c) \in S
      BY <1>10
    <3>2. QED
      BY <1>16, <3>1
  <2>3. ASSUME NEW k \in 1 .. l - 1 PROVE \E q \in S : f[q] = Adding(k)
    <3>1. PICK i \in 2 .. l : i = k + 1 /\ i - 1 = k
      <4>1. k + 1 \in 2 .. l /\ (k + 1) - 1 = k
        BY <1>5
      <4>2. QED
        BY <4>1
    <3>2. QED
      BY <1>14, <3>1
  <2>4. QED
    BY <1>11, <2>1, <2>2, <2>3
<1>22. EachOnce(T, g, job, len)
  <2>1. PICK j, n : j = job /\ n = len
    OBVIOUS
  <2>2. EachOnce(S, h, j, n)
    BY <1>4, <2>1
  <2>3. EachOnce(T, g, j, n)
    BY <1>19, <1>20, <1>21, <2>2, Moved
  <2>4. QED
    BY <2>1, <2>3
<1>23. QED
  BY <1>1, <1>8, <1>22 DEF PassesKeepSum

\* The passes start with each product in a cell of its own.
LEMMA SumStart ==
    ASSUME KeepInv, rl_pipe_response_mult
    PROVE  PassesKeepSum'
<1> SUFFICES ASSUME state' = "ADD" PROVE EachOnce(Places, Held, job, len)'
  BY DEF PassesKeepSum
<1>1. PICK T, g, j, n : T = Places' /\ g = Held' /\ j = job /\ n = len
  OBVIOUS
<1>2. KindsOfPlaces'
  BY PlacesAre, PTL
<1>3. state \in {"READY", "MULT"} /\ KeepTypes /\ CountersOK /\ JobControl /\ Between
  BY DEF KeepInv, PassInv, rl_pipe_response_mult
<1>4. /\ m_count = alloc_size - 1 /\ m_count' = m_count + 1
      /\ UNCHANGED <<job, len, a_count, ar_count, fpu_add, rem_count>>
  BY <1>3 DEF rl_pipe_response_mult, client
<1>5. busy /\ alloc_size = n /\ rem_count = 0 /\ n \in 1 .. BufSize /\ n \in Nat \ {0}
  <2>1. busy
    BY <1>3 DEF JobControl, rl_pipe_response_mult
  <2>2. alloc_size = n /\ rem_count = 0 /\ n \in Lens
    BY <1>1, <1>3, <2>1 DEF JobControl
  <2>3. QED
    BY <2>1, <2>2, PairwiseMAAssumption
<1>6. m_count' = n /\ rem_count' = 0 /\ a_count' = 0 /\ ar_count' = 0 /\ Len(fpu_add') = 0
  BY <1>3, <1>4, <1>5, EmptySeq DEF Between, CountersOK
<1>7. \A c \in 0 .. n - 1 : buffer'[c] = ZR!Product(j, c)
  <2>1. Received'
    BY ControlNext DEF Next, Rules
  <2>2. Received /\ fpu_mult # <<>> /\ buffer' = [buffer EXCEPT ![m_count] = Head(fpu_mult)]
    BY DEF KeepInv, rl_pipe_response_mult
  <2>3. Head(fpu_mult) = fpu_mult[1] /\ Len(fpu_mult) \in Nat \ {0}
    BY <1>3, <2>2, HeadTailProperties, EmptySeq DEF KeepTypes
  <2>4. fpu_mult[1] = ZR!Product(j, m_count)
    <3>1. m_count + (1 - 1) = m_count /\ 1 \in 1 .. Len(fpu_mult)
      BY <1>3, <2>3 DEF CountersOK
    <3>2. QED
      BY <1>1, <1>3, <1>5, <2>2, <3>1 DEF Received
  <2>5. m_count \in 0 .. BufSize - 1 /\ m_count = n - 1 /\ m_count \in Nat
    BY <1>4, <1>5, PairwiseMAAssumption
  <2>6. ASSUME NEW c \in 0 .. n - 1 PROVE buffer'[c] = ZR!Product(j, c)
    <3>1. CASE c = m_count
      BY <1>3, <2>2, <2>3, <2>4, <2>5, <3>1 DEF KeepTypes
    <3>2. CASE c # m_count
      <4>1. c \in 0 .. m_count - 1 /\ c \in 0 .. BufSize - 1
        BY <1>5, <2>5, <3>2, PairwiseMAAssumption
      <4>2. buffer[c] = ZR!Product(j, c)
        BY <1>1, <1>3, <1>5, <2>2, <4>1 DEF Received
      <4>3. QED
        BY <1>3, <2>2, <3>2, <4>1, <4>2 DEF KeepTypes
    <3>3. QED
      BY <3>1, <3>2
  <2>7. QED
    BY <2>6
<1>8. \A p : p \in T <=> \E c \in 0 .. n - 1 : p = Cell(c)
  <2>1. 0 \div 2 = 0
    OBVIOUS
  <2>2. QED
    BY <1>1, <1>2, <1>5, <1>6, <2>1 DEF KindsOfPlaces
<1>9. \A c \in 0 .. n - 1 : Cell(c) \in T /\ g[Cell(c)] = ZR!Product(j, c)
  BY <1>1, <1>2, <1>7, <1>8 DEF KindsOfPlaces
<1>10. ASSUME NEW t \in ZR!Terms
       PROVE  IF ZR!SumOf(j, n)[t] = 1
              THEN \E p \in T : g[p][t] = 1 /\ \A q \in T \ {p} : g[q][t] = 0
              ELSE \A p \in T : g[p][t] = 0
  <2>1. PICK i, k \in Nat : t = <<i, k>> /\ i \in 1 .. Jobs
    <3>1. PICK b \in Lens : t \in (1 .. Jobs) \X (0 .. b - 1)
      BY DEF ZR!Terms
    <3>2. b \in Nat
      BY PairwiseMAAssumption
    <3>3. QED
      BY <3>1, <3>2, PairwiseMAAssumption
  <2>2. ZR!SumOf(j, n)[t] = IF i = j /\ k < n THEN 1 ELSE 0
    BY <2>1 DEF ZR!SumOf
  <2>3. \A c \in 0 .. n - 1 : g[Cell(c)][t] = IF i = j /\ k = c THEN 1 ELSE 0
    <3>1. ASSUME NEW c PROVE ZR!Product(j, c)[t] = IF i = j /\ k = c THEN 1 ELSE 0
      BY <2>1 DEF ZR!Product
    <3>2. QED
      BY <1>9, <3>1
  <2>4. CASE i = j /\ k < n
    <3>1. k \in 0 .. n - 1 /\ Cell(k) \in T /\ g[Cell(k)][t] = 1
      BY <1>5, <1>9, <2>1, <2>3, <2>4
    <3>2. \A q \in T \ {Cell(k)} : g[q][t] = 0
      BY <1>8, <2>3
    <3>3. QED
      BY <2>2, <2>4, <3>1, <3>2
  <2>5. CASE ~(i = j /\ k < n)
    <3>1. \A c \in 0 .. n - 1 : ~(i = j /\ k = c)
      BY <1>5, <2>5
    <3>2. \A p \in T : g[p][t] = 0
      BY <1>8, <2>3, <3>1
    <3>3. QED
      BY <2>2, <2>5, <3>2
  <2>6. QED
    BY <2>4, <2>5
<1>11. EachOnce(T, g, j, n)
  BY <1>10 DEF EachOnce
<1>12. QED
  BY <1>1, <1>4, <1>11

LEMMA SumNext ==
    ASSUME RemRoom, KeepInv, [Next]_vars
    PROVE  PassesKeepSum'
<1>1. KeepInv /\ JobControl /\ PassesKeepSum
  BY DEF KeepInv
<1>2. CASE PairwiseRemainder
  BY <1>2, SumRemainder
<1>3. CASE PairwiseAdd
  BY <1>3, SumAdd
<1>4. CASE rl_pairwise_add_resp
  BY <1>4, SumResponse
<1>5. CASE rl_pipe_response_mult
  BY <1>5, SumStart
<1>6. CASE (\E n \in Lens : ClientInit(n)) \/ ClientReqOp \/ ClientGet
  <2>1. state' \in {"READY", "MULT"}
    BY <1>6 DEF ClientInit, put_Init, ClientReqOp, put_ReqOp, ClientGet, response_get
  <2>2. QED
    BY <2>1 DEF PassesKeepSum
<1>7. CASE rl_pairwise_end \/ rl_rem_add_req \/ rl_rem_add_resp
  <2>1. state' \in {"REM", "COMPLETE"}
    BY <1>7 DEF rl_pairwise_end, rl_rem_add_req, rl_rem_add_resp
  <2>2. QED
    BY <2>1 DEF PassesKeepSum
<1>8. CASE UNCHANGED vars
  <2>1. Places' = Places
    BY <1>8 DEF vars, unit, Places
  <2>2. Held' = Held
    BY <1>8, <2>1 DEF vars, unit, Held
  <2>3. QED
    BY <1>1, <1>8, <2>1, <2>2 DEF vars, unit, client, PassesKeepSum
<1>9. QED
  BY <1>2, <1>3, <1>4, <1>5, <1>6, <1>7, <1>8 DEF Next, Rules

LEMMA KeepNext == RemRoom /\ KeepInv /\ [Next]_vars => KeepInv'
<1> SUFFICES ASSUME RemRoom, KeepInv, [Next]_vars PROVE KeepInv'
  OBVIOUS
<1>1. PassInv'
  BY PassNext DEF KeepInv
<1>2. QED
  BY <1>1, TypesNext, ControlNext, RoomNext, SumNext DEF KeepInv

\* Nothing is lost or added twice on the way to the remainders: during the
\* passes the cells of buffer that count, the adder and rem_buf hold each
\* product of the job once, in every job and for every length.
THEOREM NothingLost ==
    ASSUME RemRoom
    PROVE  Spec => []PassesKeepSum
<1>1. Init => KeepInv
  BY KeepInit
<1>2. KeepInv /\ [Next]_vars => KeepInv'
  BY KeepNext
<1>3. KeepInv => PassesKeepSum
  BY DEF KeepInv
<1>4. QED
  BY <1>1, <1>2, <1>3, PTL DEF Spec
-----------------------------------------------------------------------------
(* The first job of a length that is a power of two.                        *)

LEMMA PowerHalves ==
    ASSUME NEW n \in Nat, n >= 2, Power(n)
    PROVE  n % 2 = 0 /\ Power(n \div 2)
<1>1. PICK k \in Nat : n = 2 ^ k
  BY DEF Power
<1>2. k # 0
  <2>1. k = 0 => 2 ^ k = 1
    BY PowerZero
  <2>2. QED
    BY <1>1, <2>1
<1>3. PICK i \in Nat : k = i + 1
  <2>1. k - 1 \in Nat /\ k = (k - 1) + 1
    BY <1>2
  <2>2. QED
    BY <2>1
<1>4. PICK w \in Nat : w = 2 ^ i
  BY PowerCounts
<1>5. n = 2 * w
  BY <1>1, <1>3, <1>4, PowerDoubles
<1>6. n % 2 = 0 /\ n \div 2 = w
  BY <1>4, <1>5
<1>7. QED
  BY <1>4, <1>6 DEF Power

\* With one element left and no remainders that element is the whole sum.
LEMMA LastElement ==
    ASSUME KeepInv, state = "ADD", m_count = 1, a_free, rem_count = 0
    PROVE  buffer[0] = ZR!SumOf(job, len)
<1>1. PICK S, h, j, n, x : S = Places /\ h = Held /\ j = job /\ n = len /\ x = buffer[0]
  OBVIOUS
<1>2. EachOnce(S, h, j, n) /\ KeepTypes /\ CountersOK /\ InPass
  BY <1>1 DEF KeepInv, PassInv, PassesKeepSum
<1>3. a_count = 0 /\ ar_count = 0 /\ Len(fpu_add) = 0
  BY <1>2, LenSequence DEF CountersOK, InPass
<1>4. KindsOfPlaces
  BY PlacesAre
<1>5. \A p : p \in S <=> p = Cell(0)
  <2>1. \A c : c \in 0 .. 1 - 1 <=> c = 0
    OBVIOUS
  <2>2. \A c : c \notin 0 .. 0 - 1 /\ c \notin 1 .. 0
    OBVIOUS
  <2>3. QED
    BY <1>1, <1>3, <1>4, <2>1, <2>2 DEF KindsOfPlaces
<1>6. h[Cell(0)] = x
  BY <1>1, <1>4, <1>5 DEF KindsOfPlaces
<1>7. x \in Value
  BY <1>1, <1>2, PairwiseMAAssumption DEF KeepTypes
<1>8. ASSUME NEW t \in ZR!Terms PROVE x[t] = ZR!SumOf(j, n)[t]
  <2>1. ZR!SumOf(j, n)[t] \in {0, 1}
    BY DEF ZR!SumOf
  <2>2. IF ZR!SumOf(j, n)[t] = 1
        THEN \E p \in S : h[p][t] = 1 /\ \A q \in S \ {p} : h[q][t] = 0
        ELSE \A p \in S : h[p][t] = 0
    BY <1>2 DEF EachOnce
  <2>3. QED
    BY <1>5, <1>6, <2>1, <2>2
<1>9. x = ZR!SumOf(j, n)
  BY <1>7, <1>8 DEF Value, ZR!SumOf
<1>10. QED
  BY <1>1, <1>9

LEMMA SumPlusNothing ==
    ASSUME NEW j, NEW n
    PROVE  ZR!Plus(ZR!SumOf(j, n), ZR!NoTerm) = ZR!SumOf(j, n)
<1>1. \A t \in ZR!Terms : ZR!SumOf(j, n)[t] \in {0, 1} /\ ZR!NoTerm[t] = 0
  BY DEF ZR!SumOf, ZR!NoTerm
<1>2. \A t \in ZR!Terms : ZR!SumOf(j, n)[t] + ZR!NoTerm[t] = ZR!SumOf(j, n)[t]
  BY <1>1
<1>3. QED
  BY <1>2 DEF ZR!Plus, ZR!SumOf

LEMMA PowerInit == Init => PowerInv
BY DEF Init, ZR!Init, PowerInv, FirstPower

LEMMA PowerNext == KeepInv /\ PowerInv /\ [Next]_vars => PowerInv'
<1> SUFFICES ASSUME KeepInv, PowerInv, [Next]_vars PROVE PowerInv'
  OBVIOUS
<1>1. KeepTypes /\ CountersOK /\ Between /\ InPass /\ JobControl
  BY DEF KeepInv, PassInv
<1>2. job \in Nat /\ len \in Nat
  BY <1>1 DEF KeepTypes
<1>3. ASSUME UNCHANGED <<job, len>> PROVE FirstPower' <=> FirstPower
  BY <1>3 DEF FirstPower
<1>4. ASSUME NEW n \in Lens, ClientInit(n) PROVE PowerInv'
  <2>1. job' = job + 1 /\ state' = "READY" /\ busy' = TRUE /\ acc' = acc
    BY <1>4 DEF ClientInit, ZR!Start, put_Init
  <2>2. CASE job = 0
    <3>1. acc = ZR!NoTerm
      BY <2>2 DEF PowerInv
    <3>2. QED
      BY <2>1, <2>2, <3>1 DEF PowerInv
  <2>3. CASE job # 0
    <3>1. job' # 0 /\ job' # 1
      BY <1>2, <2>1, <2>3
    <3>2. QED
      BY <3>1 DEF PowerInv, FirstPower
  <2>4. QED
    BY <2>2, <2>3
<1>5. CASE ClientReqOp
  <2>1. /\ busy /\ busy' /\ state = "READY" /\ state' \in {"READY", "MULT"} /\ acc' = acc
        /\ UNCHANGED <<job, len>>
    BY <1>5 DEF ClientReqOp, ZR!Feed, put_ReqOp
  <2>2. QED
    BY <1>3, <2>1 DEF PowerInv
<1>6. CASE ClientGet
  <2>1. /\ busy /\ state = "COMPLETE" /\ state' = "READY" /\ result' = acc /\ busy' = FALSE
        /\ UNCHANGED <<job, len, acc>>
    BY <1>6 DEF ClientGet, response_get
  <2>2. QED
    BY <1>3, <2>1 DEF PowerInv
<1>7. CASE rl_pipe_response_mult
  <2>1. /\ state \in {"READY", "MULT"} /\ fpu_mult # <<>>
        /\ state' = IF m_count = alloc_size - 1 THEN "ADD" ELSE state
        /\ m_count' = m_count + 1 /\ UNCHANGED <<job, len, busy, acc, result, rem_count>>
    BY <1>7 DEF rl_pipe_response_mult, client
  <2>2. busy /\ alloc_size = len /\ rem_count = 0
    BY <1>1, <2>1 DEF JobControl
  <2>3. job # 0
    BY <2>2 DEF PowerInv
  <2>4. CASE m_count = alloc_size - 1
    <3>1. state' = "ADD" /\ m_count' = len
      BY <1>1, <1>2, <2>1, <2>2, <2>4 DEF CountersOK
    <3>2. FirstPower => Power(len) /\ job = 1
      <4>1. \A k \in 0 .. len : k \in Nat
        BY <1>2
      <4>2. QED
        BY <4>1 DEF FirstPower, Power
    <3>3. FirstPower => acc = ZR!NoTerm
      BY <2>1, <2>2, <3>2 DEF PowerInv
    <3>4. Power(len) => Power(m_count')
      BY <3>1
    <3>5. FirstPower' => acc' = ZR!NoTerm /\ rem_count' = 0 /\ Power(m_count')
      BY <1>3, <2>1, <2>2, <3>2, <3>3, <3>4
    <3>6. QED
      BY <2>1, <2>2, <2>3, <3>1, <3>5 DEF PowerInv
  <2>5. CASE m_count # alloc_size - 1
    <3>1. state' = state
      BY <2>1, <2>5
    <3>2. QED
      BY <1>3, <2>1, <2>2, <2>3, <3>1 DEF PowerInv
  <2>6. QED
    BY <2>4, <2>5
<1>8. CASE PairwiseRemainder
  \* A power of two leaves no remainder.
  <2>1. /\ state = "ADD" /\ state' = "ADD" /\ m_count % 2 = 1 /\ m_count >= 2 /\ m_count \in Nat
        /\ UNCHANGED <<job, len, busy>>
    BY <1>1, <1>8 DEF PairwiseRemainder, PairwiseReady, CountersOK, client
  <2>2. ~FirstPower
    BY <2>1, PowerHalves DEF PowerInv
  <2>3. busy /\ job # 0
    BY <1>1, <2>1 DEF JobControl, PowerInv
  <2>4. QED
    BY <1>3, <2>1, <2>2, <2>3 DEF PowerInv
<1>9. CASE PairwiseAdd
  <2>1. /\ state = "ADD" /\ UNCHANGED <<state, job, len, busy, acc, rem_count, m_count>>
    BY <1>9 DEF PairwiseAdd, PairwiseReady, client
  <2>2. busy
    BY <1>1, <2>1 DEF JobControl
  <2>3. QED
    BY <1>3, <2>1, <2>2 DEF PowerInv
<1>10. CASE rl_pairwise_end
  <2>1. /\ state = "ADD" /\ a_free /\ m_count = 1
        /\ state' = "REM" /\ rem_count' = rem_count + 1 /\ rem_free' = TRUE
        /\ UNCHANGED <<job, len, busy, acc, buffer>>
    BY <1>10 DEF rl_pairwise_end, client
  <2>2. busy /\ job # 0
    BY <1>1, <2>1 DEF JobControl, PowerInv
  <2>3. FirstPower => job = 1 /\ rem_count = 0 /\ acc = ZR!NoTerm
    BY <2>1 DEF PowerInv, FirstPower
  <2>4. FirstPower => buffer[0] = ZR!SumOf(1, len)
    BY <2>1, <2>3, LastElement
  <2>5. FirstPower' => rem_count' = 1 /\ acc' = ZR!NoTerm /\ buffer'[0] = ZR!SumOf(1, len')
    BY <1>3, <2>1, <2>3, <2>4
  <2>6. QED
    BY <2>1, <2>2, <2>5 DEF PowerInv
<1>11. CASE rl_pairwise_add_resp
  <2>1. /\ state = "ADD" /\ UNCHANGED <<state, job, len, busy, acc, rem_count>>
    BY <1>11 DEF rl_pairwise_add_resp, client
  <2>2. busy /\ job # 0
    BY <1>1, <2>1 DEF JobControl, PowerInv
  <2>3. FirstPower => Power(m_count')
    <3>1. SUFFICES ASSUME FirstPower PROVE Power(m_count')
      OBVIOUS
    <3>2. PICK m \in Nat : m = m_count
      BY <1>1 DEF CountersOK
    <3>3. Power(m)
      BY <2>1, <3>1, <3>2 DEF PowerInv
    <3>4. CASE ar_count = m - 2
      <4>1. m >= 2
        BY <1>1, <3>2, <3>4 DEF CountersOK
      <4>2. PICK i : i = m \div 2
        OBVIOUS
      <4>3. m_count' = i
        BY <1>11, <3>2, <3>4, <4>2 DEF rl_pairwise_add_resp
      <4>4. Power(i)
        BY <3>3, <4>1, <4>2, PowerHalves
      <4>5. QED
        BY <4>3, <4>4
    <3>5. CASE ar_count # m - 2
      <4>1. m_count' = m
        BY <1>11, <3>2, <3>5 DEF rl_pairwise_add_resp
      <4>2. QED
        BY <3>3, <4>1
    <3>6. QED
      BY <3>4, <3>5
  <2>4. QED
    BY <1>3, <2>1, <2>2, <2>3 DEF PowerInv
<1>12. CASE rl_rem_add_req
  <2>1. /\ state = "REM" /\ rem_free
        /\ fpu_add' = Append(fpu_add, ZR!Plus(buffer[rem_count - 1], acc))
        /\ rem_free' = FALSE /\ rem_count' = rem_count - 1
        /\ UNCHANGED <<state, job, len, busy, acc>>
    BY <1>12 DEF rl_rem_add_req, client
  <2>2. busy /\ job # 0
    BY <1>1, <2>1 DEF JobControl, PowerInv
  <2>3. FirstPower => rem_count' = 0 /\ fpu_add'[1] = ZR!SumOf(1, len)
    <3>1. SUFFICES ASSUME FirstPower PROVE rem_count' = 0 /\ fpu_add'[1] = ZR!SumOf(1, len)
      OBVIOUS
    <3>2. rem_count = 1 /\ acc = ZR!NoTerm /\ buffer[0] = ZR!SumOf(1, len)
      BY <2>1, <3>1 DEF PowerInv
    <3>3. fpu_add' = Append(fpu_add, ZR!SumOf(1, len))
      <4>1. ZR!Plus(ZR!SumOf(1, len), ZR!NoTerm) = ZR!SumOf(1, len)
        BY SumPlusNothing
      <4>2. rem_count - 1 = 0
        BY <3>2
      <4>3. QED
        BY <2>1, <3>2, <4>1, <4>2
    <3>4. Len(fpu_add) = 0 /\ ZR!SumOf(1, len) \in Value
      <4>1. Len(fpu_add) = 0
        BY <1>1, <2>1 DEF Between
      <4>2. ZR!SumOf(1, len) \in Value
        BY DEF ZR!SumOf, Value
      <4>3. QED
        BY <4>1, <4>2
    <3>5. fpu_add'[1] = ZR!SumOf(1, len)
      <4>1. PICK x \in Value : x = ZR!SumOf(1, len)
        BY <3>4
      <4>2. Append(fpu_add, x)[Len(fpu_add) + 1] = x
        BY <1>1, AppendProperties DEF KeepTypes
      <4>3. QED
        BY <3>3, <3>4, <4>1, <4>2
    <3>6. QED
      BY <2>1, <3>2, <3>5
  <2>4. QED
    BY <1>3, <2>1, <2>2, <2>3 DEF PowerInv
<1>13. CASE rl_rem_add_resp
  <2>1. /\ state = "REM" /\ ~rem_free /\ fpu_add # <<>> /\ acc' = Head(fpu_add)
        /\ IF rem_count = 0 THEN state' = "COMPLETE" ELSE rem_free' = TRUE /\ state' = state
        /\ UNCHANGED <<job, len, busy, rem_count>>
    BY <1>13 DEF rl_rem_add_resp, client
  <2>2. busy /\ job # 0
    BY <1>1, <2>1 DEF JobControl, PowerInv
  <2>3. FirstPower => state' = "COMPLETE" /\ acc' = ZR!SumOf(1, len)
    <3>1. FirstPower => rem_count = 0 /\ fpu_add[1] = ZR!SumOf(1, len)
      BY <2>1 DEF PowerInv
    <3>2. Head(fpu_add) = fpu_add[1]
      BY <1>1, <2>1, HeadTailProperties DEF KeepTypes
    <3>3. QED
      BY <2>1, <3>1, <3>2
  <2>4. state' \in {"REM", "COMPLETE"}
    BY <2>1
  <2>5. QED
    BY <1>3, <2>1, <2>2, <2>3, <2>4 DEF PowerInv
<1>14. CASE UNCHANGED vars
  BY <1>3, <1>14 DEF vars, unit, client, PowerInv
<1>15. QED
  BY <1>4, <1>5, <1>6, <1>7, <1>8, <1>9, <1>10, <1>11, <1>12, <1>13, <1>14 DEF Next, Rules

\* The first job is delivered right when its length is a power of two, for
\* every such length that buffer can hold, although rem_buf is never read.
THEOREM PowersAreRight ==
    ASSUME RemRoom
    PROVE  Spec => []PowersDelivered
<1>1. Init => KeptInv
  BY KeepInit, PowerInit DEF KeptInv
<1>2. KeptInv /\ [Next]_vars => KeptInv'
  BY KeepNext, PowerNext DEF KeptInv
<1>3. KeptInv => PowersDelivered
  BY DEF KeptInv, PowerInv, FirstPower, PowersDelivered
<1>4. QED
  BY <1>1, <1>2, <1>3, PTL DEF Spec
-----------------------------------------------------------------------------
(* The pipelined unit, the instance P.                                      *)

PipelinedValue == [P!ZR!Terms -> Nat]

LEMMA Products == \A j, k : P!ZR!Product(j, k) \in PipelinedValue
BY DEF P!ZR!Product, PipelinedValue

\* A term is a job and the number of a product.
LEMMA TermsAre ==
    ASSUME NEW t \in P!ZR!Terms
    PROVE  \E j \in Nat, k \in Nat : t = <<j, k>>
<1>1. PICK b \in Lens : t \in (1 .. Jobs) \X (0 .. b - 1)
  BY DEF P!ZR!Terms
<1>2. b \in Nat /\ Jobs \in Nat
  BY PairwiseMAAssumption
<1>3. QED
  BY <1>1, <1>2

LEMMA NoSum == \A j : P!SumsUp(j, 0, P!ZR!NoTerm)
<1>1. ASSUME NEW t \in P!ZR!Terms PROVE P!ZR!NoTerm[t] = 0 /\ ~ (t[2] < 0)
  <2>1. PICK i \in Nat, k \in Nat : t = <<i, k>>
    BY TermsAre
  <2>2. QED
    BY <2>1 DEF P!ZR!NoTerm
<1>2. QED
  BY <1>1 DEF P!SumsUp, P!ZR!NoTerm

\* One more addition: of the next product when it has a register, or else of
\* what some register holds or of nothing.
LEMMA SumsUpNext ==
    ASSUME OutSize \in Nat, NEW j, NEW m \in Nat, NEW x, P!SumsUp(j, m, x), NEW y,
           \/ m < OutSize /\ y = P!ZR!Product(j, m)
           \/ m >= OutSize /\ y = P!ZR!NoTerm
           \/ m >= OutSize /\ \E c \in 0 .. OutSize - 1 : y = P!ZR!Product(j, c)
    PROVE  P!SumsUp(j, m + 1, P!ZR!Plus(x, y))
<1> DEFINE z == P!ZR!Plus(x, y)
<1>1. x \in PipelinedValue /\ y \in PipelinedValue
  BY Products DEF P!SumsUp, PipelinedValue, P!ZR!NoTerm
<1>2. z \in PipelinedValue /\ \A t \in P!ZR!Terms : z[t] = x[t] + y[t]
  BY <1>1 DEF P!ZR!Plus, PipelinedValue
<1>3. P!Beyond(m) \in Nat /\ P!Beyond(m + 1) \in Nat
  BY DEF P!Beyond
<1>4. ASSUME NEW t \in P!ZR!Terms
      PROVE  IF t[1] = j /\ t[2] < m + 1 /\ t[2] < OutSize
             THEN z[t] \in 1 .. 1 + P!Beyond(m + 1)
             ELSE z[t] = 0
  <2>1. PICK i \in Nat, k \in Nat : t = <<i, k>>
    BY TermsAre
  <2>2. t[1] = i /\ t[2] = k
    BY <2>1
  <2>3. IF i = j /\ k < m /\ k < OutSize THEN x[t] \in 1 .. 1 + P!Beyond(m) ELSE x[t] = 0
    BY <2>2 DEF P!SumsUp
  <2>4. z[t] = x[t] + y[t] /\ x[t] \in Nat
    BY <1>1, <1>2 DEF PipelinedValue
  <2>5. CASE m < OutSize /\ y = P!ZR!Product(j, m)
    <3>1. y[t] = IF i = j /\ k = m THEN 1 ELSE 0
      BY <2>1, <2>5 DEF P!ZR!Product
    <3>2. P!Beyond(m) = 0 /\ P!Beyond(m + 1) = 0
      BY <2>5 DEF P!Beyond
    <3>3. QED
      BY <2>2, <2>3, <2>4, <2>5, <3>1, <3>2
  <2>6. CASE m >= OutSize
    <3>1. P!Beyond(m + 1) = P!Beyond(m) + 1
      BY <2>6 DEF P!Beyond
    <3>2. y[t] \in 0 .. 1 /\ (y[t] = 1 => i = j /\ k < OutSize)
      <4>1. CASE y = P!ZR!NoTerm
        BY <4>1 DEF P!ZR!NoTerm
      <4>2. ASSUME NEW c \in 0 .. OutSize - 1, y = P!ZR!Product(j, c)
            PROVE  y[t] \in 0 .. 1 /\ (y[t] = 1 => i = j /\ k < OutSize)
        <5>1. y[t] = IF i = j /\ k = c THEN 1 ELSE 0
          BY <2>1, <4>2 DEF P!ZR!Product
        <5>2. QED
          BY <5>1
      <4>3. y = P!ZR!NoTerm \/ \E c \in 0 .. OutSize - 1 : y = P!ZR!Product(j, c)
        BY <2>6
      <4>4. QED
        BY <4>1, <4>2, <4>3
    <3>3. k < OutSize => k < m /\ k < m + 1
      BY <2>6
    <3>4. QED
      BY <1>3, <2>2, <2>3, <2>4, <3>1, <3>2, <3>3
  <2>7. QED
    BY <2>5, <2>6
<1>5. QED
  BY <1>2, <1>4 DEF P!SumsUp, PipelinedValue
-----------------------------------------------------------------------------
(* The inductive invariant: which products are where in each state.         *)

Types ==
    /\ state \in {"READY", "MULTIPLY", "ACCUMULATE", "ADDING", "COMPLETE"}
    /\ len \in Nat /\ fed \in Nat /\ m_count \in Nat
    /\ fpu_madd \in Seq(PipelinedValue)
    /\ out \in [0 .. OutSize - 1 -> PipelinedValue]

\* put is open while products are in flight, but only for the job at hand.
AtWork ==
    /\ ~busy => state = "READY" /\ fpu_madd = <<>> /\ fpu_add = <<>>
    /\ busy => busy = TRUE /\ state # "READY" /\ len \in Lens /\ alloc_size = len /\ fed <= len
    /\ state \in {"ACCUMULATE", "ADDING", "COMPLETE"} => fed = len /\ fpu_madd = <<>>
    /\ state # "ADDING" => fpu_add = <<>>

Multiplying ==
    state = "MULTIPLY" =>
        /\ m_count + Len(fpu_madd) = fed
        /\ \A c \in 0 .. m_count - 1 : c < OutSize => out[c] = P!ZR!Product(job, c)
        /\ \A k \in 1 .. Len(fpu_madd) : fpu_madd[k] = P!ZR!Product(job, m_count + (k - 1))
        /\ acc = P!ZR!NoTerm

Accumulating ==
    /\ state \in {"ACCUMULATE", "ADDING"} =>
            \A c \in 0 .. len - 1 : c < OutSize => out[c] = P!ZR!Product(job, c)
    /\ state = "ACCUMULATE" => m_count < len /\ P!SumsUp(job, m_count, acc)
    /\ state = "ADDING" =>
            m_count \in 1 .. len /\ (\E x : fpu_add = <<x>> /\ P!SumsUp(job, m_count, x))
    /\ state = "COMPLETE" => P!SumsUp(job, len, acc)

PipelinedInv == Types /\ AtWork /\ Multiplying /\ Accumulating

LEMMA PipelinedInit == P!Init => PipelinedInv
<1> SUFFICES ASSUME P!Init PROVE PipelinedInv
  OBVIOUS
<1>1. P!ZR!NoTerm \in PipelinedValue
  BY DEF P!ZR!NoTerm, PipelinedValue
<1>2. Types
  BY <1>1, EmptySeq DEF P!Init, P!ZR!Init, Types
<1>3. AtWork /\ Multiplying /\ Accumulating
  BY DEF P!Init, P!ZR!Init, AtWork, Multiplying, Accumulating
<1>4. QED
  BY <1>2, <1>3 DEF PipelinedInv

LEMMA PipelinedNext == PipelinedInv /\ [P!Next]_(P!vars) => PipelinedInv'
<1> SUFFICES ASSUME PipelinedInv, [P!Next]_(P!vars) PROVE PipelinedInv'
  OBVIOUS
<1>1. Types /\ AtWork /\ Multiplying /\ Accumulating
  BY DEF PipelinedInv
<1>2. Len(fpu_madd) \in Nat
  BY <1>1 DEF Types
<1>3. OutSize \in Nat /\ \A n \in Lens : n \in Nat \ {0}
  BY OutAssumption, PairwiseMAAssumption
<1>4. ASSUME NEW n \in Lens, P!ClientInit(n) PROVE PipelinedInv'
  <2>1. ~busy
    BY <1>4 DEF P!ClientInit, P!ZR!Start
  <2>2. fpu_madd = <<>> /\ fpu_add = <<>>
    BY <1>1, <2>1 DEF AtWork
  <2>3. /\ busy' = TRUE /\ len' = n /\ fed' = 0 /\ alloc_size' = n /\ m_count' = 0
        /\ state' = "MULTIPLY" /\ acc' = P!ZR!NoTerm /\ fpu_madd' = <<>> /\ fpu_add' = <<>>
        /\ out' = out
    BY <1>4, <2>2 DEF P!ClientInit, P!ZR!Start, P!put_Init
  <2>4. Types'
    BY <1>1, <1>3, <2>3, EmptySeq DEF Types
  <2>5. AtWork'
    BY <1>3, <2>3 DEF AtWork
  <2>6. Multiplying' /\ Accumulating'
    BY <2>3, EmptySeq DEF Multiplying, Accumulating
  <2>7. QED
    BY <2>4, <2>5, <2>6 DEF PipelinedInv
<1>5. CASE P!ClientReqOp
  <2>1. /\ busy /\ fed < len /\ fed' = fed + 1 /\ state \in {"READY", "MULTIPLY"}
        /\ fpu_madd' = Append(fpu_madd, P!ZR!Product(job, fed))
        /\ UNCHANGED <<job, len, busy, state, m_count, alloc_size, acc, out, fpu_add>>
    BY <1>5 DEF P!ClientReqOp, P!ZR!Feed, P!put_ReqOp, P!Accepting
  <2>2. state = "MULTIPLY"
    BY <1>1, <2>1 DEF AtWork
  <2>3. /\ fpu_madd' \in Seq(PipelinedValue) /\ Len(fpu_madd') = Len(fpu_madd) + 1
        /\ fpu_madd'[Len(fpu_madd) + 1] = P!ZR!Product(job, fed)
        /\ \A k \in 1 .. Len(fpu_madd) : fpu_madd'[k] = fpu_madd[k]
    BY <1>1, <2>1, Products, AppendProperties DEF Types
  <2>4. Types'
    BY <1>1, <2>1, <2>3 DEF Types
  <2>5. AtWork' /\ Accumulating'
    <3>1. fed' <= len'
      BY <1>1, <2>1 DEF Types
    <3>2. QED
      BY <1>1, <2>1, <2>2, <3>1 DEF AtWork, Accumulating
  <2>6. Multiplying'
    <3>1. m_count + Len(fpu_madd) = fed /\ m_count \in Nat
      BY <1>1, <2>2 DEF Multiplying, Types
    <3>2. m_count' + Len(fpu_madd') = fed'
      BY <1>2, <2>1, <2>3, <3>1
    <3>3. ASSUME NEW k \in 1 .. Len(fpu_madd') PROVE fpu_madd'[k] = P!ZR!Product(job', m_count' + (k - 1))
      <4>1. CASE k = Len(fpu_madd) + 1
        <5>1. m_count + (k - 1) = fed
          BY <1>2, <3>1, <4>1
        <5>2. QED
          BY <2>1, <2>3, <4>1, <5>1
      <4>2. CASE k # Len(fpu_madd) + 1
        <5>1. k \in 1 .. Len(fpu_madd)
          BY <1>2, <2>3, <4>2
        <5>2. QED
          BY <1>1, <2>1, <2>2, <2>3, <5>1 DEF Multiplying
      <4>3. QED
        BY <4>1, <4>2
    <3>4. QED
      BY <1>1, <2>1, <2>2, <3>2, <3>3 DEF Multiplying
  <2>7. QED
    BY <2>4, <2>5, <2>6 DEF PipelinedInv
<1>6. CASE P!ClientGet
  <2>1. /\ busy' = FALSE /\ state = "COMPLETE" /\ state' = "READY"
        /\ UNCHANGED <<job, len, fed, m_count, alloc_size, acc, out, fpu_madd, fpu_add>>
    BY <1>6 DEF P!ClientGet, P!response_get
  <2>2. QED
    BY <1>1, <2>1 DEF Types, AtWork, Multiplying, Accumulating, PipelinedInv
<1>7. CASE P!rl_pipe_response_mul
  <2>1. /\ state = "MULTIPLY" /\ m_count < alloc_size /\ fpu_madd # <<>>
        /\ out' = [i \in DOMAIN out |-> IF i = m_count THEN Head(fpu_madd) ELSE out[i]]
        /\ fpu_madd' = Tail(fpu_madd) /\ m_count' = m_count + 1
        /\ UNCHANGED <<job, len, fed, busy, state, alloc_size, acc, fpu_add>>
    BY <1>7 DEF P!rl_pipe_response_mul, P!client
  <2>2. /\ fpu_madd' \in Seq(PipelinedValue) /\ Len(fpu_madd) > 0 /\ Len(fpu_madd') = Len(fpu_madd) - 1
        /\ Head(fpu_madd) = fpu_madd[1] /\ Head(fpu_madd) \in PipelinedValue
        /\ \A k \in 1 .. Len(fpu_madd') : fpu_madd'[k] = fpu_madd[k + 1]
    BY <1>1, <2>1, HeadTailProperties, EmptySeq DEF Types
  <2>3. busy /\ len \in Lens /\ alloc_size = len
    BY <1>1, <1>3, <2>1 DEF AtWork, Types
  <2>4. \A c \in 0 .. OutSize - 1 : out'[c] = IF c = m_count THEN Head(fpu_madd) ELSE out[c]
    BY <1>1, <2>1 DEF Types
  <2>5. Types'
    BY <1>1, <2>1, <2>2 DEF Types
  <2>6. AtWork' /\ Accumulating'
    BY <1>1, <2>1, <2>3 DEF AtWork, Accumulating
  <2>7. Multiplying'
    <3>1. m_count + Len(fpu_madd) = fed /\ m_count \in Nat
      BY <1>1, <2>1 DEF Multiplying, Types
    <3>2. m_count' + Len(fpu_madd') = fed'
      BY <1>2, <2>1, <2>2, <3>1
    <3>3. fpu_madd[1] = P!ZR!Product(job, m_count)
      <4>1. m_count + (1 - 1) = m_count /\ 1 \in 1 .. Len(fpu_madd)
        BY <1>2, <2>2, <3>1
      <4>2. QED
        BY <1>1, <2>1, <4>1 DEF Multiplying
    <3>4. ASSUME NEW c \in 0 .. m_count' - 1, c < OutSize PROVE out'[c] = P!ZR!Product(job', c)
      <4>1. c \in 0 .. OutSize - 1
        BY <1>3, <2>1, <3>1, <3>4
      <4>2. CASE c = m_count
        BY <2>1, <2>2, <2>4, <3>3, <4>1, <4>2
      <4>3. CASE c # m_count
        <5>1. c \in 0 .. m_count - 1
          BY <2>1, <3>1, <4>3
        <5>2. QED
          BY <1>1, <2>1, <2>4, <3>4, <4>1, <4>3, <5>1 DEF Multiplying
      <4>4. QED
        BY <4>2, <4>3
    <3>5. ASSUME NEW k \in 1 .. Len(fpu_madd') PROVE fpu_madd'[k] = P!ZR!Product(job', m_count' + (k - 1))
      <4>1. k + 1 \in 1 .. Len(fpu_madd) /\ m_count' + (k - 1) = m_count + ((k + 1) - 1)
        BY <1>2, <2>1, <2>2, <3>1
      <4>2. QED
        BY <1>1, <2>1, <2>2, <4>1 DEF Multiplying
    <3>6. QED
      BY <1>1, <2>1, <3>2, <3>4, <3>5 DEF Multiplying
  <2>8. QED
    BY <2>5, <2>6, <2>7 DEF PipelinedInv
<1>8. CASE P!rl_end_multiply
  <2>1. /\ state = "MULTIPLY" /\ m_count = alloc_size /\ m_count' = 0 /\ state' = "ACCUMULATE"
        /\ UNCHANGED <<job, len, fed, busy, alloc_size, acc, out, fpu_madd, fpu_add>>
    BY <1>8 DEF P!rl_end_multiply, P!client
  <2>2. busy /\ len \in Lens /\ alloc_size = len /\ fed <= len /\ len >= 1
    BY <1>1, <1>3, <2>1 DEF AtWork
  <2>3. fed = len /\ Len(fpu_madd) = 0
    BY <1>1, <1>2, <2>1, <2>2 DEF Multiplying, Types
  <2>4. fpu_madd = <<>>
    BY <1>1, <2>3, EmptySeq DEF Types
  <2>5. P!SumsUp(job', m_count', acc')
    BY <1>1, <2>1, NoSum DEF Multiplying
  <2>6. Types' /\ Multiplying'
    BY <1>1, <2>1 DEF Types, Multiplying
  <2>7. AtWork'
    BY <1>1, <2>1, <2>2, <2>3, <2>4 DEF AtWork
  <2>8. Accumulating'
    <3>1. \A c \in 0 .. len' - 1 : c < OutSize => out'[c] = P!ZR!Product(job', c)
      BY <1>1, <2>1, <2>2 DEF Multiplying
    <3>2. m_count' < len'
      BY <1>1, <2>1, <2>2 DEF Types
    <3>3. QED
      BY <2>1, <2>5, <3>1, <3>2 DEF Accumulating
  <2>9. QED
    BY <2>6, <2>7, <2>8 DEF PipelinedInv
<1>9. CASE P!rl_start_acc
  <2>1. /\ state = "ACCUMULATE" /\ state' = "ADDING" /\ m_count' = m_count + 1
        /\ \E x \in P!OutAt(m_count) : fpu_add' = <<P!ZR!Plus(acc, x)>>
        /\ UNCHANGED <<job, len, fed, busy, alloc_size, acc, out, fpu_madd>>
    BY <1>9 DEF P!rl_start_acc, P!client
  <2>2. /\ m_count \in Nat /\ len \in Nat /\ m_count < len /\ P!SumsUp(job, m_count, acc)
        /\ \A c \in 0 .. len - 1 : c < OutSize => out[c] = P!ZR!Product(job, c)
    BY <1>1, <2>1 DEF Accumulating, Types
  <2>3. PICK x \in P!OutAt(m_count) : fpu_add' = <<P!ZR!Plus(acc, x)>>
    BY <2>1
  <2>4. DOMAIN out = 0 .. OutSize - 1
    BY <1>1 DEF Types
  <2>5. P!SumsUp(job, m_count + 1, P!ZR!Plus(acc, x))
    <3>1. CASE m_count < OutSize
      <4>1. x = out[m_count] /\ m_count \in 0 .. len - 1
        BY <1>3, <2>2, <2>4, <3>1 DEF P!OutAt
      <4>2. x = P!ZR!Product(job, m_count)
        BY <2>2, <3>1, <4>1
      <4>3. QED
        BY <1>3, <2>2, <3>1, <4>2, SumsUpNext
    <3>2. CASE m_count >= OutSize
      <4>1. x = P!ZR!NoTerm \/ \E c \in 0 .. OutSize - 1 : x = out[c]
        BY <1>3, <2>2, <2>4, <3>2 DEF P!OutAt
      <4>2. \A c \in 0 .. OutSize - 1 : out[c] = P!ZR!Product(job, c)
        BY <1>3, <2>2, <3>2
      <4>3. x = P!ZR!NoTerm \/ \E c \in 0 .. OutSize - 1 : x = P!ZR!Product(job, c)
        BY <4>1, <4>2
      <4>4. QED
        BY <1>3, <2>2, <3>2, <4>3, SumsUpNext
    <3>3. QED
      BY <1>3, <2>2, <3>1, <3>2
  <2>6. m_count' \in 1 .. len'
    BY <2>1, <2>2
  <2>7. Types' /\ Multiplying'
    BY <1>1, <2>1 DEF Types, Multiplying
  <2>8. AtWork'
    BY <1>1, <2>1 DEF AtWork
  <2>9. Accumulating'
    BY <1>1, <2>1, <2>3, <2>5, <2>6 DEF Accumulating
  <2>10. QED
    BY <2>7, <2>8, <2>9 DEF PipelinedInv
<1>10. CASE P!rl_pipe_response_add
  <2>1. /\ state = "ADDING" /\ acc' = Head(fpu_add) /\ fpu_add' = <<>>
        /\ IF m_count = alloc_size THEN state' = "COMPLETE" /\ m_count' = 0
           ELSE state' = "ACCUMULATE" /\ m_count' = m_count
        /\ UNCHANGED <<job, len, fed, busy, alloc_size, out, fpu_madd>>
    BY <1>10 DEF P!rl_pipe_response_add, P!client
  <2>2. /\ m_count \in 1 .. len /\ len \in Nat
        /\ \E x : fpu_add = <<x>> /\ P!SumsUp(job, m_count, x)
        /\ busy /\ alloc_size = len /\ len \in Lens
    BY <1>1, <2>1 DEF Accumulating, AtWork, Types
  <2>3. P!SumsUp(job, m_count, acc')
    BY <2>1, <2>2
  <2>4. Types' /\ Multiplying'
    BY <1>1, <2>1 DEF Types, Multiplying
  <2>5. AtWork'
    BY <1>1, <2>1 DEF AtWork
  <2>6. Accumulating'
    <3>1. CASE m_count = alloc_size
      BY <2>1, <2>2, <2>3, <3>1 DEF Accumulating
    <3>2. CASE m_count # alloc_size
      <4>1. state' = "ACCUMULATE" /\ m_count' = m_count /\ m_count < len
        BY <2>1, <2>2, <3>2
      <4>2. QED
        BY <1>1, <2>1, <2>3, <4>1 DEF Accumulating
    <3>3. QED
      BY <3>1, <3>2
  <2>7. QED
    BY <2>4, <2>5, <2>6 DEF PipelinedInv
<1>11. CASE UNCHANGED P!vars
  BY <1>1, <1>11 DEF P!vars, P!unit, P!client, Types, AtWork, Multiplying, Accumulating, PipelinedInv
<1>12. QED
  BY <1>4, <1>5, <1>6, <1>7, <1>8, <1>9, <1>10, <1>11 DEF P!Next, P!Rules

\* Each step of the unit is a step of the promise, or none.
LEMMA PipelinedStep == PipelinedInv /\ [P!Next]_(P!vars) => [P!Promised]_(P!client)
<1> SUFFICES ASSUME PipelinedInv, [P!Next]_(P!vars) PROVE [P!Promised]_(P!client)
  OBVIOUS
<1>1. ASSUME NEW n \in Lens, P!ClientInit(n) PROVE P!Promised
  BY <1>1 DEF P!ClientInit, P!Promised
<1>2. CASE P!ClientReqOp
  BY <1>2 DEF P!ClientReqOp, P!Promised
<1>3. CASE P!ClientGet
  <2>1. busy /\ state = "COMPLETE" /\ result' = acc /\ busy' = FALSE /\ UNCHANGED <<job, len, fed>>
    BY <1>3 DEF P!ClientGet, P!response_get
  <2>2. fed = len /\ P!SumsUp(job, len, acc)
    BY <2>1 DEF PipelinedInv, AtWork, Accumulating
  <2>3. QED
    BY <2>1, <2>2 DEF P!Promised, P!Deliver
<1>4. CASE P!Rules \/ UNCHANGED P!vars
  BY <1>4 DEF P!Rules, P!rl_pipe_response_mul, P!rl_end_multiply, P!rl_start_acc,
              P!rl_pipe_response_add, P!vars, P!client
<1>5. QED
  BY <1>1, <1>2, <1>3, <1>4 DEF P!Next

\* The pipelined unit keeps its promise, for jobs of every length and any
\* number of registers: it delivers each product with a register, loses the
\* others, repeats at most as many as it lost, and adds nothing of the job
\* before.
THEOREM PipelinedImplements == P!Spec => P!Promise
<1>1. P!Init => PipelinedInv
  BY PipelinedInit
<1>2. PipelinedInv /\ [P!Next]_(P!vars) => PipelinedInv'
  BY PipelinedNext
<1>3. P!Init => P!ZR!Init
  BY DEF P!Init
<1>4. QED
  BY <1>1, <1>2, <1>3, PipelinedStep, PTL DEF P!Spec, P!Promise

\* The promise is that of every functional unit, to add each product once,
\* for just the jobs that fit the registers: of a longer one the last
\* product, as any other without a register, is in no sum it may deliver.
THEOREM PromiseWhenRegistersDo ==
    ASSUME NEW j \in 1 .. Jobs, NEW n \in Lens, NEW x, P!SumsUp(j, n, x)
    PROVE  x = P!ZR!SumOf(j, n) <=> n <= OutSize
<1>1. OutSize \in Nat /\ n \in Nat \ {0} /\ Jobs \in Nat
  BY OutAssumption, PairwiseMAAssumption
<1>2. CASE n <= OutSize
  <2>1. P!Beyond(n) = 0
    BY <1>1, <1>2 DEF P!Beyond
  <2>2. ASSUME NEW t \in P!ZR!Terms PROVE x[t] = IF t[1] = j /\ t[2] < n THEN 1 ELSE 0
    <3>1. PICK i \in Nat, k \in Nat : t = <<i, k>>
      BY TermsAre
    <3>2. t[1] = i /\ t[2] = k
      BY <3>1
    <3>3. IF i = j /\ k < n /\ k < OutSize THEN x[t] \in 1 .. 1 + P!Beyond(n) ELSE x[t] = 0
      BY <3>2 DEF P!SumsUp
    <3>4. k < n => k < OutSize
      BY <1>1, <1>2
    <3>5. QED
      BY <2>1, <3>2, <3>3, <3>4
  <2>3. x = [t \in P!ZR!Terms |-> x[t]]
    BY DEF P!SumsUp
  <2>4. QED
    BY <1>2, <2>2, <2>3 DEF P!ZR!SumOf
<1>3. CASE ~ (n <= OutSize)
  <2> DEFINE t == <<j, n - 1>>
  <2>1. t \in P!ZR!Terms
    BY <1>1 DEF P!ZR!Terms
  <2>2. ~ (n - 1 < OutSize) /\ n - 1 < n
    BY <1>1, <1>3
  <2>3. x[t] = 0
    BY <2>1, <2>2 DEF P!SumsUp
  <2>4. P!ZR!SumOf(j, n)[t] = 1
    BY <2>1, <2>2 DEF P!ZR!SumOf
  <2>5. QED
    BY <1>3, <2>3, <2>4
<1>4. QED
  BY <1>2, <1>3
-----------------------------------------------------------------------------
(* The property that the runs check, where either unit is connected.        *)

\* What the pipelined unit does where it is connected is what it promises,
\* for any number of jobs of any lengths.
THEOREM PipelinedKeepsPromise == MCSpec => PipelinedDelivers
<1> DEFINE Inv == connected = "pipelined" => PipelinedInv
<1>1. MCInit => Inv /\ (connected = "pipelined" => ZR!Init)
  <2>1. P!ZR!Init => ZR!Init
    BY DEF P!ZR!Init, ZR!Init, P!ZR!NoTerm, ZR!NoTerm, P!ZR!Terms, ZR!Terms
  <2>2. QED
    BY <2>1, PipelinedInit DEF MCInit, P!Init
<1>2. [With(Next, P!Next)]_allVars => UNCHANGED connected
  BY DEF With, allVars
<1>3. [With(Next, P!Next)]_allVars /\ connected = "pipelined" => [P!Next]_(P!vars)
  BY DEF With, allVars, vars, unit, client, pipelinedOnly, P!vars, P!unit, P!client
<1>4. Inv /\ [With(Next, P!Next)]_allVars => Inv'
  BY <1>2, <1>3, PipelinedNext
<1>5. Inv /\ [With(Next, P!Next)]_allVars => [connected = "pipelined" => P!Promised]_client
  <2> SUFFICES ASSUME Inv, [With(Next, P!Next)]_allVars, connected = "pipelined"
               PROVE  [P!Promised]_client
    OBVIOUS
  <2>1. [P!Next]_(P!vars)
    BY <1>3
  <2>2. QED
    BY <2>1, PipelinedStep DEF client, P!client
<1>6. QED
  BY <1>1, <1>4, <1>5, PTL DEF MCSpec, PipelinedDelivers
=============================================================================
