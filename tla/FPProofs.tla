------------------------------ MODULE FPProofs ------------------------------
(***************************************************************************)
(* The floating-point units answer in order: what comes out of a unit is   *)
(* what its stages make of the requests, one after another, in the order   *)
(* they were put, for every format, client and program.  Requests are told *)
(* apart by their number: who[i] is the number of the one in queue i.      *)
(***************************************************************************)
EXTENDS MCFPUnits, SequenceTheorems, FiniteSetTheorems, Induction, TLAPS

-----------------------------------------------------------------------------
(* A pipeline p of queues 0 .. last.                                       *)

\* It holds, from its last queue to its first, the items n + 1 .. L.
Order(p, last, who, n, L) ==
    /\ n <= L
    /\ \A i \in 0 .. last : p[i] # Empty => who[i] \in n + 1 .. L
    /\ \A i, j \in 0 .. last :
            i < j /\ p[i] # Empty /\ p[j] # Empty => who[j] < who[i]
    /\ \A k \in n + 1 .. L : \E i \in 0 .. last : p[i] # Empty /\ who[i] = k

\* Rules fire on an item, into a queue that is or gets empty.
Flows(p, last, fired, taken) ==
    /\ fired \subseteq 1 .. last
    /\ \A i \in fired : p[i - 1] # Empty
    /\ \A i \in fired : p[i] = Empty \/ i + 1 \in fired \/ (i = last /\ taken)
    /\ taken => p[last] # Empty

Enters(p, fired, in) == in # Empty => p[0] = Empty \/ 1 \in fired

\* The numbers after a cycle.
Numbers(last, who, fired, in, L) ==
    [i \in 0 .. last |-> IF i = 0 /\ in # Empty THEN L + 1
                         ELSE IF i \in fired THEN who[i - 1] ELSE who[i]]

\* Where the item of queue j was before the cycle.
Before(fired, j) == IF j \in fired THEN j - 1 ELSE j

\* The item in the last queue is the next to be answered.
LEMMA LastIsNext ==
    ASSUME NEW p, NEW last \in Nat, NEW who, NEW n \in Nat, NEW L \in Nat,
           Order(p, last, who, n, L), p[last] # Empty
    PROVE  n + 1 \in 1 .. L /\ who[last] = n + 1
<1>1. last \in 0 .. last
  OBVIOUS
<1>2. who[last] \in n + 1 .. L
  BY <1>1 DEF Order
<1>3. n + 1 \in n + 1 .. L
  BY <1>2
<1>4. PICK i \in 0 .. last : p[i] # Empty /\ who[i] = n + 1
  BY <1>3 DEF Order
<1>5. CASE i = last
  BY <1>3, <1>4, <1>5
<1>6. CASE i # last
  <2>1. i < last
    BY <1>6
  <2>2. who[last] < who[i]
    BY <1>1, <1>4, <2>1 DEF Order
  <2> QED
    BY <1>2, <1>4, <2>2
<1> QED
  BY <1>5, <1>6

\* What is in queue j after a cycle that was not put into it in this cycle.
LEMMA OldItem ==
    ASSUME NEW p, NEW last \in Nat \ {0}, NEW fired, NEW made, NEW taken \in BOOLEAN, NEW in,
           Flows(p, last, fired, taken), NEW j \in 0 .. last,
           After(p, last, fired, made, taken, in)[j] # Empty, ~ (j = 0 /\ in # Empty)
    PROVE  /\ Before(fired, j) \in 0 .. last
           /\ p[Before(fired, j)] # Empty
           /\ taken => Before(fired, j) # last
           /\ j \notin fired => j + 1 \notin fired
<1>1. fired \subseteq 1 .. last
  BY DEF Flows
<1>2. CASE j \in fired
  <2>1. j - 1 \in 0 .. last /\ j - 1 # last
    BY <1>1, <1>2
  <2> QED
    BY <1>2, <2>1 DEF Flows, Before
<1>3. CASE j \notin fired
  <2>1. j + 1 \notin fired /\ ~ (j = last /\ taken) /\ p[j] # Empty
    BY <1>3 DEF After
  <2> QED
    BY <1>3, <2>1 DEF Before
<1> QED
  BY <1>2, <1>3

\* A cycle keeps the order: the taken item leaves, a new one comes last.
LEMMA OrderNext ==
    ASSUME NEW p, NEW last \in Nat \ {0}, NEW who, NEW n \in Nat, NEW L \in Nat,
           Order(p, last, who, n, L),
           NEW fired, NEW made, NEW taken \in BOOLEAN, NEW in,
           Flows(p, last, fired, taken), Enters(p, fired, in),
           \A i \in fired : made[i] # Empty
    PROVE  Order(After(p, last, fired, made, taken, in), last,
                 Numbers(last, who, fired, in, L),
                 IF taken THEN n + 1 ELSE n, IF in # Empty THEN L + 1 ELSE L)
<1> DEFINE q == After(p, last, fired, made, taken, in)
           new == Numbers(last, who, fired, in, L)
           m == IF taken THEN n + 1 ELSE n
           M == IF in # Empty THEN L + 1 ELSE L
           b(j) == Before(fired, j)
<1>1. fired \subseteq 1 .. last
  BY DEF Flows
<1>2. ASSUME taken PROVE n + 1 \in 1 .. L /\ who[last] = n + 1
  <2>1. p[last] # Empty
    BY <1>2 DEF Flows
  <2> HIDE DEF q, new, m, M, b
  <2> QED
    BY <2>1, LastIsNext
<1>3. m \in Nat /\ M \in Nat /\ m <= M
  <2>1. n <= L
    BY DEF Order
  <2>2. m \in Nat /\ m <= L
    BY <1>2, <2>1
  <2> HIDE DEF m
  <2> QED
    BY <2>2
<1>4. in # Empty => q[0] = in /\ new[0] = L + 1
  BY DEF After, Numbers
<1>5. ASSUME NEW j \in 0 .. last, q[j] # Empty, ~ (j = 0 /\ in # Empty)
      PROVE  /\ b(j) \in 0 .. last /\ p[b(j)] # Empty /\ new[j] = who[b(j)]
             /\ b(j) <= j /\ j <= b(j) + 1
             /\ who[b(j)] \in m + 1 .. L
             /\ j \notin fired => j + 1 \notin fired
  <2>1. /\ b(j) \in 0 .. last /\ p[b(j)] # Empty /\ (taken => b(j) # last)
        /\ j \notin fired => j + 1 \notin fired
    BY <1>5, OldItem
  <2>2. new[j] = who[b(j)] /\ b(j) <= j /\ j <= b(j) + 1
    BY <1>5 DEF Numbers, Before
  <2>3. who[b(j)] \in n + 1 .. L
    BY <2>1 DEF Order
  <2>4. CASE taken
    <3>1. b(j) < last /\ last \in 0 .. last /\ p[last] # Empty
      BY <2>1, <2>4 DEF Flows
    <3>2. who[last] < who[b(j)]
      BY <2>1, <3>1 DEF Order
    <3> HIDE DEF b
    <3> QED
      BY <1>2, <2>1, <2>2, <2>3, <2>4, <3>2
  <2> QED
    BY <2>1, <2>2, <2>3, <2>4
<1>6. ASSUME NEW j \in 0 .. last, q[j] # Empty
      PROVE  new[j] \in m + 1 .. M
  <2>1. CASE j = 0 /\ in # Empty
    BY <1>3, <1>4, <2>1, <1>2 DEF Order
  <2>2. CASE ~ (j = 0 /\ in # Empty)
    <3>1. new[j] \in m + 1 .. L
      BY <1>5, <1>6, <2>2
    <3> HIDE DEF new
    <3> QED
      BY <1>3, <3>1
  <2> QED
    BY <2>1, <2>2
<1>7. ASSUME NEW i \in 0 .. last, NEW j \in 0 .. last, i < j, q[i] # Empty, q[j] # Empty
      PROVE  new[j] < new[i]
  <2>1. ~ (j = 0 /\ in # Empty)
    BY <1>7
  <2>2. new[j] = who[b(j)] /\ who[b(j)] \in m + 1 .. L
    BY <1>5, <1>7, <2>1
  <2>3. CASE i = 0 /\ in # Empty
    <3> HIDE DEF new, b, m
    <3> QED
      BY <1>3, <1>4, <2>2, <2>3
  <2>4. CASE ~ (i = 0 /\ in # Empty)
    <3>1. b(i) < b(j)
      <4>1. b(i) \in 0 .. last /\ b(j) \in 0 .. last /\ b(i) <= i /\ j <= b(j) + 1
        BY <1>5, <1>7, <2>1, <2>4
      <4>2. CASE i \in fired
        BY <1>7, <4>1, <4>2 DEF Before
      <4>3. CASE i \notin fired
        <5>1. i + 1 \notin fired /\ b(i) = i
          BY <1>5, <1>7, <2>4, <4>3 DEF Before
        <5>2. j = i + 1 => b(j) = j
          BY <5>1 DEF Before
        <5> HIDE DEF b
        <5> QED
          BY <1>7, <4>1, <5>1, <5>2
      <4> QED
        BY <4>2, <4>3
    <3>2. /\ new[i] = who[b(i)] /\ new[j] = who[b(j)] /\ p[b(i)] # Empty /\ p[b(j)] # Empty
          /\ b(i) \in 0 .. last /\ b(j) \in 0 .. last
      BY <1>5, <1>7, <2>1, <2>4
    <3>3. who[b(j)] < who[b(i)]
      BY <3>1, <3>2 DEF Order
    <3> QED
      BY <3>2, <3>3
  <2> QED
    BY <2>3, <2>4
<1>8. ASSUME NEW k \in m + 1 .. M
      PROVE  \E j \in 0 .. last : q[j] # Empty /\ new[j] = k
  <2>1. CASE k = L + 1
    <3>1. in # Empty /\ 0 \in 0 .. last
      BY <1>8, <2>1, <1>3
    <3> QED
      BY <1>4, <2>1, <3>1
  <2>2. CASE k # L + 1
    <3>1. k \in n + 1 .. L
      BY <1>8, <2>2, <1>3
    <3>2. PICK i \in 0 .. last : p[i] # Empty /\ who[i] = k
      BY <3>1 DEF Order
    <3>3. ~ (i = last /\ taken)
      BY <1>2, <1>8, <3>2
    <3>4. CASE i + 1 \in fired
      <4>1. i + 1 \in 1 .. last /\ i + 1 \in 0 .. last
        BY <1>1, <3>4
      <4>2. q[i + 1] = made[i + 1] /\ new[i + 1] = who[i]
        BY <3>4, <4>1 DEF After, Numbers
      <4> QED
        BY <3>2, <3>4, <4>1, <4>2
    <3>5. CASE i + 1 \notin fired
      <4>1. i \notin fired
        BY <3>2, <3>3, <3>5 DEF Flows
      <4>2. ~ (i = 0 /\ in # Empty)
        BY <3>2, <3>5 DEF Enters
      <4>3. q[i] = p[i] /\ new[i] = who[i]
        BY <3>3, <3>5, <4>1, <4>2 DEF After, Numbers
      <4> QED
        BY <3>2, <4>3
    <3> QED
      BY <3>4, <3>5
  <2> QED
    BY <2>1, <2>2
<1> HIDE DEF q, new, m, M
<1>9. Order(q, last, new, m, M)
  BY <1>3, <1>6, <1>7, <1>8 DEF Order
<1> QED
  BY <1>9 DEF q, new, m, M

\* The rules that fire in an elastic pipeline.
Fired(p, last, taken) == {i \in 1 .. last : Moves(p, last, i, taken)}

\* The rules of an elastic pipeline flow, and it accepts what may enter.
LEMMA MovesFlow ==
    ASSUME NEW p, NEW last \in Nat \ {0}, NEW taken \in BOOLEAN, taken => p[last] # Empty,
           NEW fired, fired = Fired(p, last, taken)
    PROVE  Flows(p, last, fired, taken) /\ (Accepts(p, last, taken) => p[0] = Empty \/ 1 \in fired)
<1>1. ASSUME NEW i \in fired, p[i] # Empty, ~ (i = last /\ taken)
      PROVE  i + 1 \in fired
  <2>1. i \in 1 .. last /\ Moves(p, last, i, taken)
    BY DEF Fired
  <2>2. i + 1 \in 1 .. last /\ (taken \/ \E j \in i + 1 .. last : p[j] = Empty)
    <3>1. CASE taken
      BY <1>1, <2>1, <3>1
    <3>2. CASE ~ taken
      <4>1. PICK j \in i .. last : p[j] = Empty
        BY <2>1, <3>2 DEF Moves
      <4>2. j \in i + 1 .. last
        BY <1>1, <2>1, <4>1
      <4> QED
        BY <2>1, <4>1, <4>2
    <3> QED
      BY <3>1, <3>2
  <2>3. (i + 1) - 1 = i
    BY <2>1
  <2>4. Moves(p, last, i + 1, taken)
    BY <1>1, <2>2, <2>3 DEF Moves
  <2> QED
    BY <2>2, <2>4 DEF Fired
<1>2. \A i \in fired : p[i - 1] # Empty
  BY DEF Moves, Fired
<1>3. Flows(p, last, fired, taken)
  BY <1>1, <1>2 DEF Flows, Fired
<1>4. Accepts(p, last, taken) => p[0] = Empty \/ 1 \in fired
  BY DEF Accepts, Fired
<1> QED
  BY <1>3, <1>4
\* And what it holds of an item is what the stages have made of it.
Holds(p, last, who, items, n, L) ==
    /\ Order(p, last, who, n, L)
    /\ \A i \in 0 .. last : p[i] # Empty => p[i] = items[who[i]][i]

\* In a cycle rules fired on items, and put into queues what stages make of them.
Cycle(p, last, who, items, n, L, fired, made, taken, in) ==
    /\ last \in Nat \ {0} /\ n \in Nat /\ L \in Nat /\ taken \in BOOLEAN
    /\ Holds(p, last, who, items, n, L)
    /\ Flows(p, last, fired, taken)
    /\ Enters(p, fired, in)
    /\ \A k \in 1 .. L : \A i \in 0 .. last : items[k][i] # Empty
    /\ \A i \in fired : made[i] = items[who[i - 1]][i]
    /\ in # Empty => in = items[L + 1][0]

\* A cycle keeps that, and what is taken is the next item, finished.
LEMMA PipelineNext ==
    ASSUME NEW p, NEW last, NEW who, NEW items, NEW n, NEW L,
           NEW fired, NEW made, NEW taken, NEW in,
           Cycle(p, last, who, items, n, L, fired, made, taken, in)
    PROVE  /\ Holds(After(p, last, fired, made, taken, in), last,
                     Numbers(last, who, fired, in, L), items,
                     IF taken THEN n + 1 ELSE n, IF in # Empty THEN L + 1 ELSE L)
           /\ taken => n + 1 \in 1 .. L /\ p[last] = items[n + 1][last]
<1> USE DEF Cycle
<1> DEFINE q == After(p, last, fired, made, taken, in)
           new == Numbers(last, who, fired, in, L)
<1>1. fired \subseteq 1 .. last
  BY DEF Flows
<1>2. \A i \in fired : made[i] # Empty
  <2> SUFFICES ASSUME NEW i \in fired PROVE made[i] # Empty
    OBVIOUS
  <2>0. i \in 1 .. last /\ p[i - 1] # Empty
    BY <1>1 DEF Flows
  <2>1. i - 1 \in 0 .. last /\ i \in 0 .. last /\ p[i - 1] # Empty
    BY <2>0
  <2>2. who[i - 1] \in n + 1 .. L
    BY <2>1 DEF Holds, Order
  <2>3. who[i - 1] \in 1 .. L
    BY <2>2
  <2> QED
    BY <2>1, <2>3
<1>3. Order(q, last, new, IF taken THEN n + 1 ELSE n, IF in # Empty THEN L + 1 ELSE L)
  BY <1>2, OrderNext DEF Holds
<1>4. ASSUME NEW i \in 0 .. last, q[i] # Empty PROVE q[i] = items[new[i]][i]
  <2>1. CASE i = 0 /\ in # Empty
    BY <2>1 DEF After, Numbers
  <2>2. CASE ~ (i = 0 /\ in # Empty) /\ i \in fired
    BY <2>2 DEF After, Numbers
  <2>3. CASE ~ (i = 0 /\ in # Empty) /\ i \notin fired
    BY <1>4, <2>3 DEF After, Numbers, Holds
  <2> QED
    BY <2>1, <2>2, <2>3
<1>5. ASSUME taken PROVE n + 1 \in 1 .. L /\ p[last] = items[n + 1][last]
  <2>1. p[last] # Empty /\ last \in 0 .. last
    BY <1>5 DEF Flows
  <2>2. n + 1 \in 1 .. L /\ who[last] = n + 1
    <3> HIDE DEF q, new
    <3> QED
      BY <2>1, LastIsNext DEF Holds
  <2> QED
    BY <2>1, <2>2 DEF Holds
<1> HIDE DEF q, new
<1>6. Holds(q, last, new, items, IF taken THEN n + 1 ELSE n, IF in # Empty THEN L + 1 ELSE L)
  BY <1>3, <1>4 DEF Holds
<1> QED
  BY <1>5, <1>6 DEF q, new

\* Only the items it holds matter.
LEMMA HoldsMore ==
    ASSUME NEW p, NEW last, NEW who, NEW items, NEW more, NEW n \in Nat, NEW L \in Nat,
           Holds(p, last, who, items, n, L), \A k \in 1 .. L : more[k] = items[k]
    PROVE  Holds(p, last, who, more, n, L)
<1> SUFFICES ASSUME NEW i \in 0 .. last, p[i] # Empty PROVE p[i] = more[who[i]][i]
  BY DEF Holds
<1>1. who[i] \in n + 1 .. L
  BY DEF Holds, Order
<1>2. who[i] \in 1 .. L
  BY <1>1
<1> QED
  BY <1>2 DEF Holds

\* An empty pipeline holds nothing.
LEMMA EmptyHolds ==
    ASSUME NEW last, NEW p, \A i \in 0 .. last : p[i] = Empty, NEW items
    PROVE  Holds(p, last, p, items, 0, 0)
BY DEF Holds, Order

-----------------------------------------------------------------------------
(* What the stages make of a request.                                       *)

\* The stages of the multiply-add unit and those of the integer divider.
StageOf(u, i, x) == IF u = "madd" THEN MaddStage(i, x) ELSE CoreStage(i, x)
Staged(f, u, last, r) ==
    f = [i \in 0 .. last |-> IF i = 0 THEN r ELSE StageOf(u, i, f[i - 1])]

\* A function may be defined by stages one after another.
LEMMA StagesExist ==
    ASSUME NEW u, NEW r, NEW last \in Nat
    PROVE  \E f : Staged(f, u, last, r)
<1> DEFINE S == {k \in 0 .. last : \E f : Staged(f, u, k, r)}
<1>1. 0 \in S
  <2>1. Staged([i \in 0 .. 0 |-> r], u, 0, r)
    BY DEF Staged
  <2> QED
    BY <2>1
<1>2. ASSUME NEW k \in 1 .. last, k - 1 \in S PROVE k \in S
  <2>1. PICK f : Staged(f, u, k - 1, r)
    BY <1>2
  <2> DEFINE g == [i \in 0 .. k |-> IF i = 0 THEN r ELSE StageOf(u, i, f[i - 1])]
  <2>2. ASSUME NEW i \in 0 .. k - 1 PROVE g[i] = f[i]
    <3>1. i \in 0 .. k
      BY <1>2, <2>2
    <3>2. g[i] = IF i = 0 THEN r ELSE StageOf(u, i, f[i - 1])
      BY <3>1
    <3> HIDE DEF g
    <3> QED
      BY <2>1, <3>2 DEF Staged
  <2>3. ASSUME NEW i \in 0 .. k, i # 0 PROVE g[i - 1] = f[i - 1]
    <3>1. i - 1 \in 0 .. k - 1
      BY <1>2, <2>3
    <3> QED
      BY <2>2, <3>1
  <2>4. g = [i \in 0 .. k |-> IF i = 0 THEN r ELSE StageOf(u, i, g[i - 1])]
    <3> HIDE DEF g
    <3>1. g = [i \in 0 .. k |-> IF i = 0 THEN r ELSE StageOf(u, i, f[i - 1])]
      BY DEF g
    <3> QED
      BY <2>3, <3>1
  <2>5. Staged(g, u, k, r)
    BY <2>4 DEF Staged
  <2> HIDE DEF g
  <2> QED
    BY <1>2, <2>5
<1> HIDE DEF S
<1>3. 0 .. last \subseteq S
  BY <1>1, <1>2, IntervalInduction
<1> QED
  BY <1>3 DEF S

\* What such a function is.
LEMMA StagesAre ==
    ASSUME NEW u, NEW r, NEW last \in Nat, NEW f, Staged(f, u, last, r)
    PROVE  f[0] = r /\ \A i \in 1 .. last : f[i] = StageOf(u, i, f[i - 1])
<1>1. f = [i \in 0 .. last |-> IF i = 0 THEN r ELSE StageOf(u, i, f[i - 1])]
  BY DEF Staged
<1>2. 0 \in 0 .. last /\ \A i \in 1 .. last : i \in 0 .. last /\ i # 0
  OBVIOUS
<1> QED
  BY <1>1, <1>2

LEMMA MaddItemsAre ==
    ASSUME NEW r
    PROVE  /\ MaddItems(r)[0] = r
           /\ \A i \in 1 .. MaddLast : MaddItems(r)[i] = MaddStage(i, MaddItems(r)[i - 1])
<1>1. MaddItems(r) = CHOOSE g : Staged(g, "madd", MaddLast, r)
  BY DEF MaddItems, Staged, StageOf
<1>2. MaddLast \in Nat
  BY DEF MaddLast
<1> DEFINE f == MaddItems(r)
<1> HIDE DEF f
<1>3. Staged(f, "madd", MaddLast, r)
  BY <1>1, <1>2, StagesExist DEF f
<1>4. f[0] = r /\ \A i \in 1 .. MaddLast : f[i] = StageOf("madd", i, f[i - 1])
  BY <1>2, <1>3, StagesAre
<1> QED
  BY <1>4 DEF StageOf, f

LEMMA CoreLastNat == CoreLast \in Nat /\ CoreLast > 2
BY FormatAssumption DEF CoreLast, QuotientBits

LEMMA CoreItemsAre ==
    ASSUME NEW s
    PROVE  /\ CoreItems(s)[0] = s
           /\ \A i \in 1 .. CoreLast : CoreItems(s)[i] = CoreStage(i, CoreItems(s)[i - 1])
<1>1. CoreItems(s) = CHOOSE g : Staged(g, "div", CoreLast, s)
  BY DEF CoreItems, Staged, StageOf
<1> DEFINE f == CoreItems(s)
<1> HIDE DEF f
<1>2. Staged(f, "div", CoreLast, s)
  BY <1>1, CoreLastNat, StagesExist DEF f
<1>3. f[0] = s /\ \A i \in 1 .. CoreLast : f[i] = StageOf("div", i, f[i - 1])
  BY <1>2, CoreLastNat, StagesAre
<1> QED
  BY <1>3 DEF StageOf, f

LEMMA DivItemsAre ==
    ASSUME NEW r
    PROVE  /\ DivItems(r)[0] = r
           /\ DivItems(r)[1] = div_s1(r)
           /\ DivItems(r)[2] = div_s2(DivItems(r)[1])
           /\ DivItems(r)[2].special = DivItems(r)[1].special
           /\ DivItems(r)[3] = div_s3(DivItems(r)[2], Answered(DivItems(r)[1]))
           /\ DivItems(r)[4] = div_s4(DivItems(r)[3])
           /\ DivItems(r)[5] = div_s5(DivItems(r)[4])
<1> DEFINE s1 == div_s1(r)
           s2 == div_s2(s1)
           s3 == div_s3(s2, Answered(s1))
           s4 == div_s4(s3)
           s5 == div_s5(s4)
<1>1. DivItems(r) = [i \in 0 .. DivLast |-> <<r, s1, s2, s3, s4, s5>>[i + 1]]
  BY DEF DivItems
<1>2. s2.special = s1.special
  BY DEF div_s2
<1> HIDE DEF s1, s2, s3, s4, s5
<1>3. /\ DivItems(r)[0] = r /\ DivItems(r)[1] = s1 /\ DivItems(r)[2] = s2
      /\ DivItems(r)[3] = s3 /\ DivItems(r)[4] = s4 /\ DivItems(r)[5] = s5
  BY <1>1 DEF DivLast
<1> QED
  BY <1>2, <1>3 DEF s1, s2, s3, s4, s5
-----------------------------------------------------------------------------
(* The client.                                                              *)

Requests(u) == {c.req : c \in {d \in Calls : d.unit = u}}
Items(u, r) == IF u = "madd" THEN MaddItems(r) ELSE DivItems(r)
Last(u) == IF u = "madd" THEN MaddLast ELSE DivLast
Answer(u, r) == Items(u, r)[Last(u)]
AllItems(u, s) == [k \in 1 .. Len(s) |-> Items(u, s[k])]

\* The answers taken are those of the first requests put.
Served(u) ==
    /\ asked[u] \in Seq(Requests(u))
    /\ answers[u] \in Seq({Answer(u, r) : r \in Requests(u)})
    /\ Len(answers[u]) <= Len(asked[u])
    /\ \A k \in 1 .. Len(answers[u]) : answers[u][k] = Answer(u, asked[u][k])

LEMMA Appending ==
    ASSUME NEW S, NEW s \in Seq(S), NEW c \in BOOLEAN, NEW e, c => e \in S,
           NEW t, t = IF c THEN Append(s, e) ELSE s
    PROVE  /\ t \in Seq(S) /\ Len(s) \in Nat
           /\ Len(t) = IF c THEN Len(s) + 1 ELSE Len(s)
           /\ \A k \in 1 .. Len(s) : t[k] = s[k]
           /\ c => t[Len(s) + 1] = e
<1>1. CASE c
  BY <1>1, AppendProperties
<1>2. CASE ~ c
  BY <1>2
<1> QED
  BY <1>1, <1>2

\* A cycle in which unit u is asked e, if put, and answers x, if taken.
Serving(u, put, e, taken, x) ==
    /\ put \in BOOLEAN /\ taken \in BOOLEAN
    /\ put => e \in Requests(u)
    /\ taken => /\ Len(answers[u]) + 1 \in 1 .. Len(asked[u])
                /\ x = Answer(u, asked[u][Len(answers[u]) + 1])
    /\ asked'[u] = IF put THEN Append(asked[u], e) ELSE asked[u]
    /\ answers'[u] = IF taken THEN Append(answers[u], x) ELSE answers[u]

LEMMA ServedNext ==
    ASSUME NEW u, Served(u), NEW put, NEW e, NEW taken, NEW x, Serving(u, put, e, taken, x)
    PROVE  /\ Served(u)'
           /\ Len(asked'[u]) = IF put THEN Len(asked[u]) + 1 ELSE Len(asked[u])
           /\ Len(answers'[u]) = IF taken THEN Len(answers[u]) + 1 ELSE Len(answers[u])
<1> USE DEF Serving
<1> DEFINE a == asked[u]
           b == answers[u]
           a2 == asked'[u]
           b2 == answers'[u]
           A == {Answer(u, r) : r \in Requests(u)}
<1>1. a \in Seq(Requests(u)) /\ b \in Seq(A) /\ Len(b) <= Len(a)
      /\ \A k \in 1 .. Len(b) : b[k] = Answer(u, a[k])
  BY DEF Served
<1>2. taken => Len(b) + 1 \in 1 .. Len(a) /\ x = Answer(u, a[Len(b) + 1])
  OBVIOUS
<1>3. taken => a[Len(b) + 1] \in Requests(u)
  <2> HIDE DEF a, b
  <2> QED
    BY <1>1, <1>2
<1>4. taken => x \in A
  BY <1>2, <1>3
<1> HIDE DEF A
<1>5. /\ a2 \in Seq(Requests(u)) /\ Len(a) \in Nat
      /\ Len(a2) = IF put THEN Len(a) + 1 ELSE Len(a)
      /\ \A k \in 1 .. Len(a) : a2[k] = a[k]
      /\ put => a2[Len(a) + 1] = e
  BY <1>1, Appending
<1>6. /\ b2 \in Seq(A) /\ Len(b) \in Nat
      /\ Len(b2) = IF taken THEN Len(b) + 1 ELSE Len(b)
      /\ \A k \in 1 .. Len(b) : b2[k] = b[k]
      /\ taken => b2[Len(b) + 1] = x
  BY <1>1, <1>4, Appending
<1> HIDE DEF a, b, a2, b2
<1>7. Len(b2) <= Len(a2)
  BY <1>1, <1>2, <1>5, <1>6
<1>8. ASSUME NEW k \in 1 .. Len(b2) PROVE b2[k] = Answer(u, a2[k])
  <2>1. CASE k \in 1 .. Len(b)
    <3>1. k \in 1 .. Len(a)
      BY <1>1, <1>5, <1>6, <2>1
    <3> QED
      BY <1>1, <1>5, <1>6, <2>1, <3>1
  <2>2. CASE k \notin 1 .. Len(b)
    <3>1. taken /\ k = Len(b) + 1
      BY <1>6, <1>8, <2>2
    <3> QED
      BY <1>2, <1>5, <1>6, <3>1
  <2> QED
    BY <2>1, <2>2
<1> QED
  BY <1>5, <1>6, <1>7, <1>8 DEF Served, a, b, a2, b2, A
LEMMA ItemsAre ==
    ASSUME NEW u \in Units, Something, NEW r \in Requests(u)
    PROVE  /\ Last(u) \in Nat \ {0}
           /\ Items(u, r)[0] = r /\ r # Empty
           /\ \A i \in 0 .. Last(u) : Items(u, r)[i] # Empty
<1>1. PICK c \in Calls : c.unit = u /\ r = c.req
  BY DEF Requests
<1>2. 0 \in 0 .. Last(u) /\ Last(u) \in Nat \ {0}
  BY DEF Last, MaddLast, DivLast
<1>3. Items(u, r)[0] = r
  BY MaddItemsAre, DivItemsAre DEF Items
<1>4. \A i \in 0 .. Last(u) : Items(u, r)[i] # Empty
  BY <1>1 DEF Something, Items, Last, Units
<1> QED
  BY <1>2, <1>3, <1>4

\* Unit u with queues p in such a cycle.
UnitCycle(u, p, who, put, e, fired, made, taken, in) ==
    /\ Served(u) /\ put \in BOOLEAN /\ taken \in BOOLEAN
    /\ Holds(p, Last(u), who, AllItems(u, asked[u]), Len(answers[u]), Len(asked[u]))
    /\ Flows(p, Last(u), fired, taken)
    /\ put => e \in Requests(u) /\ (p[0] = Empty \/ 1 \in fired)
    /\ in = IF put THEN e ELSE Empty
    /\ \A i \in fired : made[i] = AllItems(u, asked[u])[who[i - 1]][i]
    /\ asked'[u] = IF put THEN Append(asked[u], e) ELSE asked[u]
    /\ answers'[u] = IF taken THEN Append(answers[u], p[Last(u)]) ELSE answers[u]

LEMMA UnitNext ==
    ASSUME NEW u \in Units, Something,
           NEW p, NEW who, NEW put, NEW e, NEW fired, NEW made, NEW taken, NEW in,
           UnitCycle(u, p, who, put, e, fired, made, taken, in)
    PROVE  /\ Served(u)'
           /\ Holds(After(p, Last(u), fired, made, taken, in), Last(u),
                    Numbers(Last(u), who, fired, in, Len(asked[u])),
                    AllItems(u, asked'[u]), Len(answers'[u]), Len(asked'[u]))
<1> USE DEF UnitCycle
<1> DEFINE a == asked[u]
           last == Last(u)
           n == Len(answers[u])
           L == Len(a)
           t == IF put THEN Append(a, e) ELSE a
           items == AllItems(u, a)
           more == AllItems(u, t)
<1>1. last \in Nat \ {0}
  BY DEF Last, MaddLast, DivLast
<1>2. a \in Seq(Requests(u)) /\ n \in Nat /\ L \in Nat /\ n <= L
  BY DEF Served
<1>3. in # Empty <=> put
  BY ItemsAre
<1>4. /\ t \in Seq(Requests(u)) /\ Len(t) = IF put THEN L + 1 ELSE L
      /\ \A k \in 1 .. L : t[k] = a[k]
      /\ put => t[L + 1] = e
  BY <1>2, Appending
<1>5. \A k \in 1 .. L : more[k] = items[k]
  BY <1>2, <1>4 DEF AllItems
<1>6. \A k \in 1 .. L : items[k] = Items(u, a[k]) /\ a[k] \in Requests(u)
  BY <1>2 DEF AllItems
<1>7. \A k \in 1 .. L : \A i \in 0 .. last : more[k][i] # Empty
  BY <1>5, <1>6, ItemsAre
<1>8. in # Empty => in = more[L + 1][0]
  <2> SUFFICES ASSUME put PROVE e = more[L + 1][0]
    BY <1>3
  <2>1. L + 1 \in 1 .. Len(t) /\ t[L + 1] = e
    BY <1>2, <1>4
  <2>2. more[L + 1] = Items(u, e)
    BY <2>1 DEF AllItems
  <2> QED
    BY <2>2, ItemsAre
<1>9. Holds(p, last, who, more, n, L)
  <2> HIDE DEF items, more, n, L, last
  <2>1. Holds(p, last, who, items, n, L)
    BY DEF items, n, L, last
  <2> QED
    BY <1>2, <1>5, <2>1, HoldsMore
<1>10. \A i \in fired : made[i] = more[who[i - 1]][i]
  <2> SUFFICES ASSUME NEW i \in fired PROVE made[i] = more[who[i - 1]][i]
    OBVIOUS
  <2>1. made[i] = items[who[i - 1]][i]
    OBVIOUS
  <2>2. i - 1 \in 0 .. last /\ p[i - 1] # Empty
    BY <1>1 DEF Flows
  <2>3. who[i - 1] \in n + 1 .. L
    BY <2>2 DEF Holds, Order
  <2>4. who[i - 1] \in 1 .. L
    BY <1>2, <2>3
  <2> QED
    BY <1>5, <2>1, <2>4
<1>11. Enters(p, fired, in)
  BY <1>3 DEF Enters
<1> HIDE DEF items, more, t, n, L, last
<1>12. Cycle(p, last, who, more, n, L, fired, made, taken, in)
  <2>1. Flows(p, last, fired, taken)
    BY DEF last
  <2> QED
    BY <1>1, <1>2, <1>7, <1>8, <1>9, <1>10, <1>11, <2>1 DEF Cycle
<1>13. /\ Holds(After(p, last, fired, made, taken, in), last,
                Numbers(last, who, fired, in, L), more,
                IF taken THEN n + 1 ELSE n, IF in # Empty THEN L + 1 ELSE L)
       /\ taken => n + 1 \in 1 .. L /\ p[last] = more[n + 1][last]
  BY <1>12, PipelineNext
<1>14. taken => /\ n + 1 \in 1 .. L
                /\ p[last] = Answer(u, a[n + 1])
  <2> SUFFICES ASSUME taken PROVE p[last] = Answer(u, a[n + 1])
    BY <1>13
  <2>1. more[n + 1] = Items(u, a[n + 1])
    BY <1>5, <1>6, <1>13
  <2> QED
    BY <1>13, <2>1 DEF Answer, last
<1>15. /\ Served(u)'
       /\ Len(asked'[u]) = IF put THEN L + 1 ELSE L
       /\ Len(answers'[u]) = IF taken THEN n + 1 ELSE n
  <2>1. Serving(u, put, e, taken, p[last])
    BY <1>14 DEF Serving, n, L, last
  <2> QED
    BY <2>1, ServedNext DEF n, L
<1>16. asked'[u] = t
  BY DEF t
<1> HIDE DEF a
<1> QED
  BY <1>3, <1>13, <1>15, <1>16 DEF more, last, L, a
-----------------------------------------------------------------------------
(* The multiply-add unit.                                                   *)

LEMMA RequestPut ==
    ASSUME NEW u, todo \in Seq(Calls), NEW get, NEW put, Puts(u, get, put)
    PROVE  Head(todo).req \in Requests(u)
<1>1. Head(todo) \in Calls /\ Head(todo).unit = u
  BY HeadTailProperties DEF Puts
<1> QED
  BY <1>1 DEF Requests

LEMMA TodoNext ==
    ASSUME todo \in Seq(Calls), NEW get, NEW put, ServerCycle(get, put)
    PROVE  todo' \in Seq(Calls)
BY HeadTailProperties DEF ServerCycle, Puts

LEMMA TakenBoolean ==
    ASSUME NEW u, NEW get \in BOOLEAN, NEW put \in BOOLEAN
    PROVE  Taken(u, get) \in BOOLEAN /\ Puts(u, get, put) \in BOOLEAN
BY DEF Taken, Puts

MaddInv ==
    /\ Served("madd")
    /\ \E who : Holds(madd, MaddLast, who, AllItems("madd", asked["madd"]),
                     Len(answers["madd"]), Len(asked["madd"]))

LEMMA MaddNext ==
    ASSUME Something, todo \in Seq(Calls), MaddInv,
           NEW get \in BOOLEAN, NEW put \in BOOLEAN, ServerCycle(get, put)
    PROVE  MaddInv'
<1> DEFINE u == "madd"
           taken == Taken(u, get)
           puts == Puts(u, get, put)
           e == Head(todo).req
           in == IF puts THEN e ELSE Empty
           fired == Fired(madd, MaddLast, taken)
           made == [i \in fired |-> MaddStage(i, madd[i - 1])]
<1>1. PICK who : Holds(madd, MaddLast, who, AllItems(u, asked[u]), Len(answers[u]), Len(asked[u]))
  BY DEF MaddInv
<1>2. Last(u) = MaddLast /\ MaddLast \in Nat \ {0} /\ u \in Units
  BY DEF Last, MaddLast, Units
<1>3. /\ madd' = After(madd, MaddLast, fired, made, taken, in)
      /\ asked'[u] = IF puts THEN Append(asked[u], e) ELSE asked[u]
      /\ answers'[u] = IF taken THEN Append(answers[u], madd[MaddLast]) ELSE answers[u]
  BY <1>2 DEF ServerCycle, MaddCycle, Fired
<1>4. taken \in BOOLEAN /\ puts \in BOOLEAN
  BY TakenBoolean
<1>5. taken => madd[MaddLast] # Empty
  BY DEF Taken
<1>6. puts => Accepts(madd, MaddLast, taken)
  BY DEF Puts, MaddAccepts
<1>7. puts => e \in Requests(u)
  BY RequestPut
<1> HIDE DEF taken, puts, e
<1>8. Flows(madd, MaddLast, fired, taken) /\ (puts => madd[0] = Empty \/ 1 \in fired)
  BY <1>2, <1>4, <1>5, <1>6, MovesFlow
<1>9. \A i \in fired : made[i] = AllItems(u, asked[u])[who[i - 1]][i]
  <2> SUFFICES ASSUME NEW i \in fired
               PROVE  MaddStage(i, madd[i - 1]) = AllItems(u, asked[u])[who[i - 1]][i]
    OBVIOUS
  <2>1. i \in 1 .. MaddLast /\ i - 1 \in 0 .. MaddLast /\ madd[i - 1] # Empty
    BY <1>2 DEF Moves, Fired
  <2> DEFINE k == who[i - 1]
  <2>2. k \in 1 .. Len(asked[u]) /\ madd[i - 1] = AllItems(u, asked[u])[k][i - 1]
    <3>1. k \in Len(answers[u]) + 1 .. Len(asked[u])
      BY <1>1, <2>1 DEF Holds, Order
    <3>2. Len(answers[u]) \in Nat /\ Len(asked[u]) \in Nat
      BY DEF MaddInv, Served
    <3> HIDE DEF k
    <3>3. k \in 1 .. Len(asked[u])
      BY <3>1, <3>2
    <3> QED
      BY <1>1, <2>1, <3>3 DEF Holds, k
  <2>3. AllItems(u, asked[u])[k] = MaddItems(asked[u][k])
    BY <2>2 DEF AllItems, Items
  <2> HIDE DEF k
  <2>4. MaddItems(asked[u][k])[i] = MaddStage(i, MaddItems(asked[u][k])[i - 1])
    BY <2>1, MaddItemsAre
  <2> QED
    BY <2>2, <2>3, <2>4 DEF k
<1>10. in = IF puts THEN e ELSE Empty
  OBVIOUS
<1> HIDE DEF u, in, fired, made
<1>11. UnitCycle(u, madd, who, puts, e, fired, made, taken, in)
  BY <1>1, <1>2, <1>3, <1>4, <1>7, <1>8, <1>9, <1>10 DEF UnitCycle, MaddInv, u
<1>12. /\ Served(u)'
       /\ Holds(madd', MaddLast, Numbers(MaddLast, who, fired, in, Len(asked[u])),
                AllItems(u, asked'[u]), Len(answers'[u]), Len(asked'[u]))
  BY <1>2, <1>3, <1>11, UnitNext
<1> QED
  BY <1>12 DEF MaddInv, u
-----------------------------------------------------------------------------
(* A pipeline with one item at most.                                        *)

OneIn(p, last, items) ==
    \E i \in 0 .. last : /\ p[i] = items[i]
                        /\ \A j \in 0 .. last : p[j] # Empty <=> j = i
NoneIn(p, last) == \A j \in 0 .. last : p[j] = Empty

\* A rule moves the item on, or it is in the last queue.
LEMMA OneMoves ==
    ASSUME NEW p, NEW last \in Nat \ {0}, NEW items, OneIn(p, last, items),
           \A i \in 0 .. last : items[i] # Empty,
           NEW fired, fired = Fired(p, last, FALSE),
           NEW made, \A i \in fired : p[i - 1] = items[i - 1] => made[i] = items[i]
    PROVE  OneIn(After(p, last, fired, made, FALSE, Empty), last, items)
<1> DEFINE q == After(p, last, fired, made, FALSE, Empty)
<1> SUFFICES OneIn(q, last, items)
  OBVIOUS
<1>1. PICK i \in 0 .. last : p[i] = items[i] /\ \A j \in 0 .. last : p[j] # Empty <=> j = i
  BY DEF OneIn
<1>2. \A j \in 0 .. last :
        q[j] = IF j \in fired THEN made[j] ELSE IF j + 1 \in fired THEN Empty ELSE p[j]
  BY DEF After
<1>3. \A j \in fired : j - 1 = i
  <2> SUFFICES ASSUME NEW j \in fired PROVE j - 1 = i
    OBVIOUS
  <2>1. j \in 1 .. last /\ p[j - 1] # Empty
    BY DEF Moves, Fired
  <2>2. j - 1 \in 0 .. last
    BY <2>1
  <2> QED
    BY <1>1, <2>1, <2>2
<1> HIDE DEF q
<1>4. CASE i = last
  <2>1. ASSUME NEW j \in fired PROVE FALSE
    <3>1. j \in 1 .. last
      BY DEF Fired
    <3>2. j - 1 = i
      BY <1>3
    <3> QED
      BY <1>4, <3>1, <3>2
  <2>2. \A j \in 0 .. last : q[j] = p[j]
    BY <1>2, <2>1
  <2> QED
    BY <1>1, <2>2 DEF OneIn
<1>5. CASE i < last
  <2>1. i + 1 \in 1 .. last /\ i + 1 \in 0 .. last /\ (i + 1) - 1 = i
    BY <1>5
  <2>2. p[i + 1] = Empty /\ i + 1 \in i + 1 .. last
    BY <1>1, <2>1
  <2>3. i + 1 \in fired
    BY <1>1, <2>1, <2>2 DEF Moves, Fired
  <2>4. q[i + 1] = items[i + 1]
    BY <1>1, <1>2, <2>1, <2>3
  <2>5. ASSUME NEW j \in 0 .. last, j # i + 1 PROVE q[j] = Empty
    <3>1. j \notin fired
      <4> SUFFICES ASSUME j \in fired PROVE FALSE
        OBVIOUS
      <4>1. j - 1 = i
        BY <1>3
      <4> QED
        BY <2>5, <4>1
    <3>2. CASE j = i
      BY <1>2, <2>3, <3>1, <3>2
    <3>3. CASE j # i
      <4>1. q[j] = Empty \/ q[j] = p[j]
        BY <1>2, <3>1
      <4> QED
        BY <1>1, <3>3, <4>1
    <3> QED
      BY <3>2, <3>3
  <2> QED
    BY <2>1, <2>4, <2>5 DEF OneIn
<1>6. i = last \/ i < last
  BY <1>1
<1> QED
  BY <1>4, <1>5, <1>6

\* When it holds nothing that stays, all it holds next is what enters.
LEMMA OnlyEntered ==
    ASSUME NEW p, NEW last \in Nat \ {0}, NEW taken \in BOOLEAN,
           \A j \in 0 .. last : p[j] # Empty => j = last /\ taken,
           NEW fired, fired = Fired(p, last, taken),
           NEW made, NEW in
    PROVE  \A j \in 0 .. last :
              After(p, last, fired, made, taken, in)[j] = IF j = 0 THEN in ELSE Empty
<1>1. ASSUME NEW i \in fired PROVE FALSE
  <2>1. i \in 1 .. last /\ p[i - 1] # Empty
    BY DEF Moves, Fired
  <2>2. i - 1 \in 0 .. last /\ i - 1 # last
    BY <2>1
  <2> QED
    BY <2>1, <2>2
<1> QED
  BY <1>1 DEF After
-----------------------------------------------------------------------------
(* The divider.                                                             *)

\* The integer divider works on what stage 2 left in queue 2, if anything.
Working == div[2] # Empty /\ ~ div[2].special
CoreHolds(who) ==
    IF Working
    THEN OneIn(core, CoreLast, CoreItems(Operands(DivItems(asked["div"][who[2]])[1])))
    ELSE NoneIn(core, CoreLast)

DivHolds(who) ==
    /\ Holds(div, DivLast, who, AllItems("div", asked["div"]),
             Len(answers["div"]), Len(asked["div"]))
    /\ CoreHolds(who)
DivInv == Served("div") /\ \E who : DivHolds(who)

\* What is in a queue of the divider.
LEMMA DivHolding ==
    ASSUME Something, Served("div"), NEW who, DivHolds(who),
           NEW i \in 0 .. DivLast, div[i] # Empty
    PROVE  /\ who[i] \in 1 .. Len(asked["div"])
           /\ asked["div"][who[i]] \in Requests("div")
           /\ AllItems("div", asked["div"])[who[i]] = DivItems(asked["div"][who[i]])
           /\ div[i] = DivItems(asked["div"][who[i]])[i]
<1> DEFINE k == who[i]
           a == asked["div"]
<1>1. k \in Len(answers["div"]) + 1 .. Len(a)
  BY DEF DivHolds, Holds, Order
<1>2. Len(answers["div"]) \in Nat /\ Len(a) \in Nat /\ a \in Seq(Requests("div"))
  BY DEF Served
<1>3. div[i] = AllItems("div", a)[k][i]
  BY DEF DivHolds, Holds
<1> HIDE DEF k, a
<1>4. k \in 1 .. Len(a)
  BY <1>1, <1>2
<1>5. AllItems("div", a)[k] = DivItems(a[k])
  BY <1>4 DEF AllItems, Items
<1> QED
  BY <1>2, <1>3, <1>4, <1>5 DEF k, a

\* What the integer divider makes of a request is something.
LEMMA CoreItemsReal ==
    ASSUME Something, NEW r \in Requests("div")
    PROVE  \A i \in 0 .. CoreLast : CoreItems(Operands(DivItems(r)[1]))[i] # Empty
<1>1. PICK c \in Calls : c.unit = "div" /\ r = c.req
  BY DEF Requests
<1> QED
  BY <1>1 DEF Something

DivFired(taken) == {i \in 1 .. DivLast : DivFires(i, taken)}

LEMMA DivFlows ==
    ASSUME NEW taken \in BOOLEAN, taken => div[DivLast] # Empty,
           NEW fired, fired = DivFired(taken)
    PROVE  /\ Flows(div, DivLast, fired, taken)
           /\ DivAccepts(taken) => div[0] = Empty \/ 1 \in fired
           /\ 3 \in fired => div[2] # Empty /\ (div[2].special \/ core[CoreLast] # Empty)
<1>1. DivLast = 5 /\ fired \subseteq 1 .. 5
  BY DEF DivLast, DivFired
<1>2. /\ 1 \in fired <=> DivFires(1, taken)
      /\ 2 \in fired <=> DivFires(2, taken)
      /\ 3 \in fired <=> DivFires(3, taken)
      /\ 4 \in fired <=> DivFires(4, taken)
      /\ 5 \in fired <=> DivFires(5, taken)
  BY DEF DivLast, DivFired
<1>3. /\ 1 \in fired => div[0] # Empty /\ (div[1] = Empty \/ 2 \in fired)
      /\ 2 \in fired => div[1] # Empty /\ (div[2] = Empty \/ 3 \in fired)
      /\ 3 \in fired => div[2] # Empty /\ (div[3] = Empty \/ 4 \in fired)
      /\ 4 \in fired => div[3] # Empty /\ (div[4] = Empty \/ 5 \in fired)
      /\ 5 \in fired => div[4] # Empty /\ (div[5] = Empty \/ taken)
  <2>1. /\ DivFires(5, taken) => div[4] # Empty /\ (div[5] = Empty \/ taken)
        /\ DivFires(4, taken) => div[3] # Empty /\ (div[4] = Empty \/ DivFires(5, taken))
        /\ DivFires(3, taken) => div[2] # Empty /\ (div[3] = Empty \/ DivFires(4, taken))
        /\ DivFires(2, taken) => div[1] # Empty /\ (div[2] = Empty \/ DivFires(3, taken))
        /\ DivFires(1, taken) => div[0] # Empty /\ (div[1] = Empty \/ DivFires(2, taken))
    BY DEF DivFires
  <2> QED
    BY <1>2, <2>1
<1>4. ASSUME NEW i \in fired
      PROVE  div[i - 1] # Empty /\ (div[i] = Empty \/ i + 1 \in fired \/ (i = 5 /\ taken))
  <2>1. i = 1 \/ i = 2 \/ i = 3 \/ i = 4 \/ i = 5
    BY <1>1
  <2> QED
    BY <1>3, <2>1
<1>5. Flows(div, DivLast, fired, taken)
  BY <1>1, <1>4 DEF Flows
<1>6. 3 \in fired => div[2] # Empty /\ (div[2].special \/ core[CoreLast] # Empty)
  <2>1. DivFires(3, taken) => div[2] # Empty /\ (div[2].special \/ core[CoreLast] # Empty)
    BY DEF DivFires
  <2> QED
    BY <1>2, <2>1
<1> QED
  BY <1>2, <1>5, <1>6 DEF DivAccepts
\* What the stages put into the queues of the divider.
LEMMA DivMakes ==
    ASSUME Something, Served("div"), NEW who, DivHolds(who),
           NEW fired, NEW taken, Flows(div, DivLast, fired, taken),
           3 \in fired => div[2] # Empty /\ (div[2].special \/ core[CoreLast] # Empty),
           NEW i \in fired
    PROVE  DivMade(i) = DivItems(asked["div"][who[i - 1]])[i]
<1> DEFINE r == asked["div"][who[i - 1]]
<1>1. i \in 1 .. DivLast /\ DivLast = 5 /\ div[i - 1] # Empty
  BY DEF Flows, DivLast
<1>2. i - 1 \in 0 .. DivLast
  BY <1>1
<1>3. div[i - 1] = DivItems(r)[i - 1] /\ r \in Requests("div")
  BY <1>1, <1>2, DivHolding
<1>4. CASE i = 3
  <2>1. div[2] # Empty /\ (div[2].special \/ core[CoreLast] # Empty)
    BY <1>4
  <2>2. div[2] = DivItems(r)[2] /\ r = asked["div"][who[2]]
    BY <1>3, <1>4
  <2>3. div[2].special = DivItems(r)[1].special
    BY <2>2, DivItemsAre
  <2>4. CASE div[2].special
    <3>1. Answered(DivItems(r)[1]) = [q |-> 0, rem |-> 0]
      BY <2>3, <2>4 DEF Answered
    <3>2. DivMade(3) = div_s3(div[2], [q |-> 0, rem |-> 0])
      BY <2>4 DEF DivMade
    <3> QED
      BY <1>4, <2>2, <3>1, <3>2, DivItemsAre
  <2>5. CASE ~ div[2].special
    <3> DEFINE items == CoreItems(Operands(DivItems(r)[1]))
    <3>1. OneIn(core, CoreLast, items)
      BY <2>1, <2>2, <2>5 DEF DivHolds, CoreHolds, Working
    <3> HIDE DEF items
    <3>2. CoreLast \in 0 .. CoreLast
      BY CoreLastNat
    <3>3. core[CoreLast] = items[CoreLast]
      BY <2>1, <2>5, <3>1, <3>2 DEF OneIn
    <3>4. Answered(DivItems(r)[1]) = core[CoreLast]
      BY <2>3, <2>5, <3>3 DEF Answered, items
    <3>5. DivMade(3) = div_s3(div[2], core[CoreLast])
      BY <2>5 DEF DivMade
    <3> QED
      BY <1>4, <2>2, <3>4, <3>5, DivItemsAre
  <2> QED
    BY <2>4, <2>5
<1>5. CASE i = 1
  BY <1>3, <1>5, DivItemsAre DEF DivMade
<1>6. CASE i = 2
  BY <1>3, <1>6, DivItemsAre DEF DivMade
<1>7. CASE i = 4
  BY <1>3, <1>7, DivItemsAre DEF DivMade
<1>8. CASE i = 5
  BY <1>3, <1>8, DivItemsAre DEF DivMade
<1> QED
  BY <1>1, <1>4, <1>5, <1>6, <1>7, <1>8

\* The integer divider when it holds nothing that stays, and when it goes on.
LEMMA CoreEntered ==
    ASSUME NEW in, NEW answered \in BOOLEAN, CoreCycle(in, answered),
           \A j \in 0 .. CoreLast : core[j] # Empty => j = CoreLast /\ answered
    PROVE  \A j \in 0 .. CoreLast : core'[j] = IF j = 0 THEN in ELSE Empty
<1> DEFINE fired == Fired(core, CoreLast, answered)
           made == [i \in fired |-> CoreStage(i, core[i - 1])]
<1>1. core' = After(core, CoreLast, fired, made, answered, in)
  BY DEF CoreCycle, Fired
<1>2. CoreLast \in Nat \ {0} /\ fired = Fired(core, CoreLast, answered)
  BY CoreLastNat
<1> HIDE DEF fired, made
<1> QED
  BY <1>1, <1>2, OnlyEntered

LEMMA CoreMoves ==
    ASSUME CoreCycle(Empty, FALSE),
           NEW s, OneIn(core, CoreLast, CoreItems(s)),
           \A i \in 0 .. CoreLast : CoreItems(s)[i] # Empty
    PROVE  OneIn(core', CoreLast, CoreItems(s))
<1> DEFINE fired == Fired(core, CoreLast, FALSE)
           made == [i \in fired |-> CoreStage(i, core[i - 1])]
<1>1. core' = After(core, CoreLast, fired, made, FALSE, Empty)
  BY DEF CoreCycle, Fired
<1>2. CoreLast \in Nat \ {0} /\ fired = Fired(core, CoreLast, FALSE)
  BY CoreLastNat
<1>3. \A i \in fired : core[i - 1] = CoreItems(s)[i - 1] => made[i] = CoreItems(s)[i]
  <2> SUFFICES ASSUME NEW i \in fired, core[i - 1] = CoreItems(s)[i - 1]
               PROVE  CoreStage(i, core[i - 1]) = CoreItems(s)[i]
    OBVIOUS
  <2>1. i \in 1 .. CoreLast
    BY DEF Fired
  <2> QED
    BY <2>1, CoreItemsAre
<1> HIDE DEF fired, made
<1> QED
  BY <1>1, <1>2, <1>3, OneMoves
LEMMA DivNext ==
    ASSUME Something, todo \in Seq(Calls), DivInv,
           NEW get \in BOOLEAN, NEW put \in BOOLEAN, ServerCycle(get, put)
    PROVE  DivInv'
<1> DEFINE u == "div"
           taken == Taken(u, get)
           puts == Puts(u, get, put)
           e == Head(todo).req
           in == IF puts THEN e ELSE Empty
           fired == DivFired(taken)
           made == [i \in fired |-> DivMade(i)]
           answered == 3 \in fired /\ ~ div[2].special
           asks == IF 2 \in fired /\ ~ div[1].special THEN Operands(div[1]) ELSE Empty
<1>1. PICK who : DivHolds(who)
  BY DEF DivInv
<1>2. Last(u) = DivLast /\ DivLast = 5 /\ u \in Units /\ Served(u)
  BY DEF Last, DivLast, Units, DivInv
<1>3. /\ div' = After(div, DivLast, fired, made, taken, in)
      /\ CoreCycle(asks, answered)
      /\ asked'[u] = IF puts THEN Append(asked[u], e) ELSE asked[u]
      /\ answers'[u] = IF taken THEN Append(answers[u], div[DivLast]) ELSE answers[u]
  BY <1>2 DEF ServerCycle, DivCycle, DivFired
<1>4. taken \in BOOLEAN /\ puts \in BOOLEAN /\ answered \in BOOLEAN
  BY TakenBoolean
<1>5. taken => div[DivLast] # Empty
  BY DEF Taken
<1>6. puts => DivAccepts(taken)
  BY DEF Puts
<1>7. puts => e \in Requests(u)
  BY RequestPut
<1>8. in = IF puts THEN e ELSE Empty
  OBVIOUS
<1> HIDE DEF taken, puts, e, in
<1>9. /\ Flows(div, DivLast, fired, taken) /\ (puts => div[0] = Empty \/ 1 \in fired)
      /\ 3 \in fired => div[2] # Empty /\ (div[2].special \/ core[CoreLast] # Empty)
  BY <1>4, <1>5, <1>6, DivFlows
<1>10. \A i \in fired : made[i] = DivMade(i)
  OBVIOUS
<1>11. answered = (3 \in fired /\ ~ div[2].special)
  OBVIOUS
<1>12. asks = IF 2 \in fired /\ ~ div[1].special THEN Operands(div[1]) ELSE Empty
  OBVIOUS
<1> HIDE DEF fired, made, answered, asks
<1> DEFINE a == asked[u]
<1>0. PICK new : new = Numbers(DivLast, who, fired, in, Len(a))
  OBVIOUS
<1>13. \A i \in fired : made[i] = AllItems(u, a)[who[i - 1]][i]
  <2> SUFFICES ASSUME NEW i \in fired PROVE made[i] = AllItems(u, a)[who[i - 1]][i]
    OBVIOUS
  <2>1. i - 1 \in 0 .. DivLast /\ div[i - 1] # Empty
    BY <1>2, <1>9 DEF Flows
  <2>2. AllItems(u, a)[who[i - 1]] = DivItems(a[who[i - 1]])
    BY <1>1, <1>2, <2>1, DivHolding
  <2>3. DivMade(i) = DivItems(a[who[i - 1]])[i]
    BY <1>1, <1>2, <1>9, DivMakes
  <2> QED
    BY <1>10, <2>2, <2>3
<1>14. Holds(div, Last(u), who, AllItems(u, a), Len(answers[u]), Len(a))
  BY <1>1, <1>2 DEF DivHolds
<1> HIDE DEF a
<1>15. UnitCycle(u, div, who, puts, e, fired, made, taken, in)
  BY <1>2, <1>3, <1>4, <1>7, <1>8, <1>9, <1>13, <1>14 DEF UnitCycle, a
<1>16. /\ Served(u)'
       /\ Holds(div', DivLast, new, AllItems(u, asked'[u]), Len(answers'[u]), Len(asked'[u]))
  BY <1>0, <1>2, <1>3, <1>15, UnitNext DEF a
<1>17. \A k \in 1 .. Len(a) : asked'[u][k] = a[k]
  BY <1>2, <1>3, <1>4, <1>7, Appending DEF Served, a
<1>18. CoreHolds(new)'
  <2> DEFINE Asked(k) == CoreItems(Operands(DivItems(a[k])[1]))
  <2>1. 1 \in 0 .. DivLast /\ 2 \in 0 .. DivLast /\ 2 # 0 /\ 2 # DivLast /\ 2 - 1 = 1 /\ 2 + 1 = 3
    BY <1>2
  <2>2. /\ div'[2] = IF 2 \in fired THEN made[2] ELSE IF 3 \in fired THEN Empty ELSE div[2]
        /\ new[2] = IF 2 \in fired THEN who[1] ELSE who[2]
    BY <1>0, <1>3, <2>1 DEF After, Numbers
  <2>3. 2 \in fired => div[1] # Empty /\ (div[2] = Empty \/ 3 \in fired)
    BY <1>9, <2>1 DEF Flows
  <2>4. ASSUME 2 \in fired \/ 3 \in fired
        PROVE  \A j \in 0 .. CoreLast : core'[j] = IF j = 0 THEN asks ELSE Empty
    <3>1. ASSUME NEW j \in 0 .. CoreLast, core[j] # Empty PROVE j = CoreLast /\ answered
      <4>1. CASE Working
        <5>1. answered /\ core[CoreLast] # Empty
          BY <1>9, <1>11, <2>3, <2>4, <4>1 DEF Working
        <5>2. CoreLast \in 0 .. CoreLast
          BY CoreLastNat
        <5> QED
          BY <1>1, <3>1, <4>1, <5>1, <5>2 DEF DivHolds, CoreHolds, OneIn
      <4>2. CASE ~ Working
        BY <1>1, <3>1, <4>2 DEF DivHolds, CoreHolds, NoneIn
      <4> QED
        BY <4>1, <4>2
    <3> QED
      BY <1>3, <1>4, <3>1, CoreEntered
  <2>5. CASE 2 \in fired
    <3> DEFINE k == who[1]
               r == a[k]
    <3>1. k \in 1 .. Len(a) /\ r \in Requests(u) /\ div[1] = DivItems(r)[1]
      BY <1>1, <1>2, <2>1, <2>3, <2>5, DivHolding DEF a
    <3>2. div'[2] = DivItems(r)[2]
      <4>1. DivMade(2) = DivItems(r)[2]
        BY <1>1, <1>2, <1>9, <2>1, <2>5, DivMakes DEF a
      <4> QED
        BY <1>10, <2>2, <2>5, <4>1
    <3>3. div'[2] # Empty /\ div'[2].special = div[1].special
      <4>1. DivItems(r)[2] # Empty
        BY <1>2, <2>1, <3>1, ItemsAre DEF Items
      <4> QED
        BY <3>1, <3>2, <4>1, DivItemsAre
    <3>4. asked'[u][new[2]] = r
      BY <1>17, <2>2, <2>5, <3>1
    <3> HIDE DEF k, r
    <3>5. CASE div[1].special
      <4>1. asks = Empty
        BY <1>12, <3>5
      <4> QED
        BY <2>4, <2>5, <3>3, <3>5, <4>1 DEF CoreHolds, Working, NoneIn
    <3>6. CASE ~ div[1].special
      <4> DEFINE items == CoreItems(Operands(DivItems(r)[1]))
      <4>1. asks = items[0]
        BY <1>12, <2>5, <3>1, <3>6, CoreItemsAre
      <4>2. 0 \in 0 .. CoreLast
        BY CoreLastNat
      <4>3. items[0] # Empty
        BY <3>1, <4>2, CoreItemsReal
      <4> HIDE DEF items
      <4>4. OneIn(core', CoreLast, items)
        BY <2>4, <2>5, <4>1, <4>2, <4>3 DEF OneIn
      <4> QED
        BY <3>3, <3>4, <3>6, <4>4 DEF CoreHolds, Working, items
    <3> QED
      BY <3>5, <3>6
  <2>6. CASE 2 \notin fired /\ 3 \in fired
    <3>1. asks = Empty /\ div'[2] = Empty
      BY <1>12, <2>2, <2>6
    <3> QED
      BY <2>4, <2>6, <3>1 DEF CoreHolds, Working, NoneIn
  <2>7. CASE 2 \notin fired /\ 3 \notin fired
    <3>1. asks = Empty /\ answered = FALSE /\ div'[2] = div[2] /\ new[2] = who[2]
      BY <1>11, <1>12, <2>2, <2>7
    <3>2. CoreCycle(Empty, FALSE)
      BY <1>3, <3>1
    <3>3. CASE Working
      <4> DEFINE r == a[who[2]]
                 s == Operands(DivItems(r)[1])
      <4>1. who[2] \in 1 .. Len(a) /\ r \in Requests(u)
        BY <1>1, <1>2, <2>1, <3>3, DivHolding DEF Working, a
      <4>2. OneIn(core, CoreLast, CoreItems(s))
        BY <1>1, <3>3 DEF DivHolds, CoreHolds, a
      <4>3. \A i \in 0 .. CoreLast : CoreItems(s)[i] # Empty
        BY <4>1, CoreItemsReal
      <4>4. asked'[u][new[2]] = r
        BY <1>17, <3>1, <4>1
      <4> HIDE DEF r, s
      <4>5. OneIn(core', CoreLast, CoreItems(s))
        BY <3>2, <4>2, <4>3, CoreMoves
      <4> QED
        BY <3>1, <3>3, <4>4, <4>5 DEF CoreHolds, Working, s
    <3>4. CASE ~ Working
      <4>1. \A j \in 0 .. CoreLast : core[j] # Empty => j = CoreLast /\ FALSE
        BY <1>1, <3>4 DEF DivHolds, CoreHolds, NoneIn
      <4>2. \A j \in 0 .. CoreLast : core'[j] = IF j = 0 THEN Empty ELSE Empty
        BY <3>2, <4>1, CoreEntered
      <4> QED
        BY <3>1, <3>4, <4>2 DEF CoreHolds, Working, NoneIn
    <3> QED
      BY <3>3, <3>4
  <2> QED
    BY <2>5, <2>6, <2>7
<1> QED
  BY <1>2, <1>16, <1>18 DEF DivInv, DivHolds
-----------------------------------------------------------------------------
(* The units with any client.                                               *)

ServerInv == todo \in Seq(Calls) /\ MaddInv /\ DivInv

LEMMA ServerStarts ==
    ASSUME Callable, ServerInit
    PROVE  ServerInv
<1>1. todo \in Seq(Calls)
  BY DEF Callable, ServerInit
<1>2. \A u \in Units : asked[u] = <<>> /\ answers[u] = <<>>
  BY DEF ServerInit
<1>3. \A u \in Units : Served(u) /\ Len(asked[u]) = 0 /\ Len(answers[u]) = 0
  <2> SUFFICES ASSUME NEW u \in Units PROVE Served(u) /\ Len(asked[u]) = 0 /\ Len(answers[u]) = 0
    OBVIOUS
  <2> DEFINE A == {Answer(u, r) : r \in Requests(u)}
  <2>1. asked[u] = <<>> /\ answers[u] = <<>>
    BY <1>2
  <2> HIDE DEF A
  <2>2. asked[u] \in Seq(Requests(u)) /\ answers[u] \in Seq(A)
    BY <2>1, EmptySeq
  <2>3. Len(asked[u]) = 0 /\ Len(answers[u]) = 0
    BY <2>1, EmptySeq
  <2>4. \A k \in 1 .. Len(answers[u]) : answers[u][k] = Answer(u, asked[u][k])
    BY <2>3
  <2> QED
    BY <2>2, <2>3, <2>4 DEF Served, A
<1>4. "madd" \in Units /\ "div" \in Units
  BY DEF Units
<1>5. /\ \A i \in 0 .. MaddLast : madd[i] = Empty
      /\ \A i \in 0 .. DivLast : div[i] = Empty
      /\ \A i \in 0 .. CoreLast : core[i] = Empty
  BY DEF ServerInit, UnitsInit
<1>6. Holds(madd, MaddLast, madd, AllItems("madd", asked["madd"]), 0, 0)
  BY <1>5, EmptyHolds
<1>7. Holds(div, DivLast, div, AllItems("div", asked["div"]), 0, 0)
  BY <1>5, EmptyHolds
<1>8. CoreHolds(div)
  <2>1. 2 \in 0 .. DivLast
    BY DEF DivLast
  <2> QED
    BY <1>5, <2>1 DEF CoreHolds, Working, NoneIn
<1>9. MaddInv
  BY <1>3, <1>4, <1>6 DEF MaddInv
<1>10. DivInv
  BY <1>3, <1>4, <1>7, <1>8 DEF DivInv, DivHolds
<1> QED
  BY <1>1, <1>9, <1>10 DEF ServerInv

LEMMA ServerGoesOn ==
    ASSUME Something, ServerInv, [ServerNext]_serverVars
    PROVE  ServerInv'
<1>1. CASE ServerNext
  <2>1. PICK get \in BOOLEAN, put \in BOOLEAN : ServerCycle(get, put)
    BY <1>1 DEF ServerNext
  <2> QED
    BY <2>1, TodoNext, MaddNext, DivNext DEF ServerInv
<1>2. CASE UNCHANGED serverVars
  BY <1>2 DEF serverVars, ServerInv, MaddInv, DivInv, DivHolds, CoreHolds, Working, Served
<1> QED
  BY <1>1, <1>2

\* The k-th answer of a unit is what its stages make of its k-th request.
InRequestOrder ==
    \A u \in Units : \A k \in DOMAIN answers[u] :
        /\ k \in DOMAIN asked[u]
        /\ asked[u][k] \in Requests(u)
        /\ answers[u][k] = Answer(u, asked[u][k])

LEMMA InvInOrder ==
    ASSUME ServerInv PROVE InRequestOrder
<1> SUFFICES ASSUME NEW u \in Units, Served(u), NEW k \in DOMAIN answers[u]
             PROVE  k \in DOMAIN asked[u] /\ asked[u][k] \in Requests(u)
                    /\ answers[u][k] = Answer(u, asked[u][k])
  BY DEF InRequestOrder, ServerInv, MaddInv, DivInv, Units
<1>1. /\ asked[u] \in Seq(Requests(u)) /\ Len(answers[u]) <= Len(asked[u])
      /\ answers[u] \in Seq({Answer(u, r) : r \in Requests(u)})
      /\ \A i \in 1 .. Len(answers[u]) : answers[u][i] = Answer(u, asked[u][i])
  BY DEF Served
<1>2. k \in 1 .. Len(answers[u]) /\ Len(answers[u]) \in Nat /\ Len(asked[u]) \in Nat
  BY <1>1
<1>3. k \in 1 .. Len(asked[u])
  BY <1>1, <1>2
<1> QED
  BY <1>1, <1>2, <1>3

(***************************************************************************)
(* The k-th answer of each unit is what its stages make of its k-th        *)
(* request, one after another, whatever else is in the pipelines, whenever *)
(* the client puts and takes, and although answers known at once do not    *)
(* pass through the integer divider.                                       *)
(***************************************************************************)
THEOREM UnitsInOrder ==
    ASSUME Callable, Something
    PROVE  ServerSpec => []InRequestOrder
<1>1. ServerInit => ServerInv
  BY ServerStarts
<1>2. ServerInv /\ [ServerNext]_serverVars => ServerInv'
  BY ServerGoesOn
<1>3. ServerInv => InRequestOrder
  BY InvInOrder
<1> QED
  BY <1>1, <1>2, <1>3, PTL DEF ServerSpec

LEMMA OrderRounds ==
    ASSUME StagesRound, InRequestOrder
    PROVE  MaddRounds /\ DivRounds
<1>1. ASSUME NEW r \in Requests("madd") PROVE MaddAnswers(r, Answer("madd", r))
  BY <1>1 DEF StagesRound, Requests, Answer, Items, Last
<1>2. ASSUME NEW r \in Requests("div") PROVE DivAnswers(r, Answer("div", r))
  BY <1>2 DEF StagesRound, Requests, Answer, Items, Last
<1>3. "madd" \in Units /\ "div" \in Units
  BY DEF Units
<1> QED
  BY <1>1, <1>2, <1>3 DEF InRequestOrder, MaddRounds, DivRounds

(***************************************************************************)
(* Where the stages alone round a request as they should, the pipelined    *)
(* multiply-add unit answers every client with the rounded sum of its      *)
(* request.                                                                *)
(***************************************************************************)
THEOREM SumsAreRounded ==
    ASSUME Callable, Something, StagesRound
    PROVE  ServerSpec => []MaddRounds
<1>1. InRequestOrder => MaddRounds
  BY OrderRounds
<1> QED
  BY <1>1, UnitsInOrder, PTL

\* And the divider with the rounded quotient.
THEOREM QuotientsAreRounded ==
    ASSUME Callable, Something, StagesRound
    PROVE  ServerSpec => []DivRounds
<1>1. InRequestOrder => DivRounds
  BY OrderRounds
<1> QED
  BY <1>1, UnitsInOrder, PTL
-----------------------------------------------------------------------------
(* The multiply-add unit with the test bench, which has one sum in it at    *)
(* most.                                                                    *)

LEMMA MaddEntered ==
    ASSUME NEW in, NEW taken \in BOOLEAN, MaddCycle(in, taken),
           \A j \in 0 .. MaddLast : madd[j] # Empty => j = MaddLast /\ taken
    PROVE  \A j \in 0 .. MaddLast : madd'[j] = IF j = 0 THEN in ELSE Empty
<1> DEFINE fired == Fired(madd, MaddLast, taken)
           made == [i \in fired |-> MaddStage(i, madd[i - 1])]
<1>1. madd' = After(madd, MaddLast, fired, made, taken, in)
  BY DEF MaddCycle, Fired
<1>2. MaddLast \in Nat \ {0} /\ fired = Fired(madd, MaddLast, taken)
  BY DEF MaddLast
<1> HIDE DEF fired, made
<1> QED
  BY <1>1, <1>2, OnlyEntered

LEMMA MaddMoves ==
    ASSUME MaddCycle(Empty, FALSE),
           NEW s, OneIn(madd, MaddLast, MaddItems(s)),
           \A i \in 0 .. MaddLast : MaddItems(s)[i] # Empty
    PROVE  OneIn(madd', MaddLast, MaddItems(s))
<1> DEFINE fired == Fired(madd, MaddLast, FALSE)
           made == [i \in fired |-> MaddStage(i, madd[i - 1])]
<1>1. madd' = After(madd, MaddLast, fired, made, FALSE, Empty)
  BY DEF MaddCycle, Fired
<1>2. MaddLast \in Nat \ {0} /\ fired = Fired(madd, MaddLast, FALSE)
  BY DEF MaddLast
<1>3. \A i \in fired : madd[i - 1] = MaddItems(s)[i - 1] => made[i] = MaddItems(s)[i]
  <2> SUFFICES ASSUME NEW i \in fired, madd[i - 1] = MaddItems(s)[i - 1]
               PROVE  MaddStage(i, madd[i - 1]) = MaddItems(s)[i]
    OBVIOUS
  <2>1. i \in 1 .. MaddLast
    BY DEF Fired
  <2> QED
    BY <2>1, MaddItemsAre
<1> HIDE DEF fired, made
<1> QED
  BY <1>1, <1>2, <1>3, OneMoves

\* One sum enters an empty unit.
LEMMA SumEnters ==
    ASSUME NEW s, MaddCycle(s, FALSE), NoneIn(madd, MaddLast), MaddItems(s)[0] # Empty
    PROVE  OneIn(madd', MaddLast, MaddItems(s))
<1>1. 0 \in 0 .. MaddLast
  BY DEF MaddLast
<1>2. \A j \in 0 .. MaddLast : madd[j] # Empty => j = MaddLast /\ FALSE
  BY DEF NoneIn
<1>3. \A j \in 0 .. MaddLast : madd'[j] = IF j = 0 THEN s ELSE Empty
  BY <1>2, MaddEntered
<1>4. MaddItems(s)[0] = s
  BY MaddItemsAre
<1> QED
  BY <1>1, <1>3, <1>4 DEF OneIn

\* A sum in the last queue is taken, and is what the stages make of it.
LEMMA SumLeaves ==
    ASSUME NEW s, MaddCycle(Empty, TRUE), OneIn(madd, MaddLast, MaddItems(s)),
           madd[MaddLast] # Empty
    PROVE  NoneIn(madd', MaddLast) /\ madd[MaddLast] = MaddItems(s)[MaddLast]
<1>1. MaddLast \in 0 .. MaddLast
  BY DEF MaddLast
<1>2. /\ madd[MaddLast] = MaddItems(s)[MaddLast]
      /\ \A j \in 0 .. MaddLast : madd[j] # Empty => j = MaddLast /\ TRUE
  BY <1>1 DEF OneIn
<1>3. \A j \in 0 .. MaddLast : madd'[j] = IF j = 0 THEN Empty ELSE Empty
  BY <1>2, MaddEntered
<1> QED
  BY <1>2, <1>3 DEF NoneIn

(***************************************************************************)
(* The states of the bench: before the first sum is asked, while it is in  *)
(* the unit, when it is taken, while the second is in the unit, and after. *)
(***************************************************************************)
First == Sum(Zero(0))
Second == Sum(PowerOf2(1, 1))
BenchInv ==
    /\ r_count \in 0 .. 255 /\ (r_count = 0 => m_count = 0)
    /\ m_count = 0 /\ r_count = 0 =>
            acc = Zero(0) /\ NoneIn(madd, MaddLast) /\ div[0] = Empty
    /\ m_count = 0 /\ r_count > 0 =>
            acc = Zero(0) /\ OneIn(madd, MaddLast, MaddItems(First))
    /\ m_count = 1 => acc = PowerOf2(1, 1) /\ NoneIn(madd, MaddLast)
    /\ m_count = 2 => acc = PowerOf2(1, 1) /\ OneIn(madd, MaddLast, MaddItems(Second))
    /\ m_count = 3 => acc = PowerOf2(1, 2) /\ NoneIn(madd, MaddLast)
    /\ m_count \in 0 .. 3

LEMMA BenchStarts ==
    ASSUME UnitsInit, acc = Zero(0), m_count = 0, r_count = 0
    PROVE  BenchInv
<1>1. 0 \in 0 .. DivLast /\ 0 \in 0 .. 255
  BY DEF DivLast
<1> QED
  BY <1>1 DEF UnitsInit, BenchInv, NoneIn

LEMMA BenchSteps ==
    ASSUME BenchAdds, BenchInv, schedule_posedge_CLK
    PROVE  BenchInv'
<1> DEFINE taken == pipe_response_mul
           asks == start_1 \/ pipe_response_mul_2
<1>1. MaddCycle(IF asks THEN Sum(acc) ELSE Empty, taken)
  BY DEF schedule_posedge_CLK
<1>2. /\ taken \in BOOLEAN /\ taken <=> madd[MaddLast] # Empty
      /\ MaddLast \in 0 .. MaddLast /\ 0 \in 0 .. MaddLast
  BY DEF pipe_response_mul, MaddLast
<1>0. taken = TRUE \/ taken = FALSE
  BY DEF pipe_response_mul
<1>3. r_count \in 0 .. 255 /\ r_count' \in 1 .. 255
  BY DEF BenchInv, schedule_posedge_CLK
<1>4. /\ m_count' = IF taken \/ pipe_response_mul_2 THEN (m_count + 1) % 256 ELSE m_count
      /\ acc' = IF taken THEN madd[MaddLast].val ELSE acc
  BY DEF schedule_posedge_CLK
<1>5. /\ \A i \in 0 .. MaddLast : MaddItems(First)[i] # Empty /\ MaddItems(Second)[i] # Empty
      /\ MaddItems(First)[MaddLast].val = PowerOf2(1, 1)
      /\ MaddItems(Second)[MaddLast].val = PowerOf2(1, 2)
  BY DEF BenchAdds, First, Second
<1>6. m_count \in 0 .. 3
  BY DEF BenchInv
<1>7. NoneIn(madd, MaddLast) =>
            taken = FALSE /\ MaddAccepts(pipe_response_mul) /\ ~ pipe_response_mul
  <2> SUFFICES ASSUME NoneIn(madd, MaddLast)
               PROVE  ~ pipe_response_mul /\ MaddAccepts(pipe_response_mul)
    BY <1>2
  <2>1. madd[0] = Empty /\ madd[MaddLast] = Empty
    BY <1>2 DEF NoneIn
  <2> QED
    BY <2>1 DEF MaddAccepts, Accepts, pipe_response_mul
<1> HIDE DEF taken
<1>8. CASE m_count = 0 /\ r_count = 0
  <2>1. acc = Zero(0) /\ NoneIn(madd, MaddLast) /\ div[0] = Empty
    BY <1>8 DEF BenchInv
  <2>2. ~ pipe_response_mul_2
    BY <1>8 DEF pipe_response_mul_2
  <2>3. start_1
    BY <1>7, <1>8, <2>1, <2>2 DEF start_1, DivAccepts
  <2>4. MaddCycle(First, FALSE)
    BY <1>1, <1>7, <2>1, <2>3 DEF First
  <2>5. OneIn(madd', MaddLast, MaddItems(First))
    BY <1>2, <1>5, <2>1, <2>4, SumEnters
  <2>6. m_count' = 0 /\ acc' = Zero(0)
    BY <1>4, <1>7, <1>8, <2>1, <2>2
  <2> QED
    BY <1>3, <2>5, <2>6 DEF BenchInv
<1>9. CASE m_count = 1
  <2>1. acc = PowerOf2(1, 1) /\ NoneIn(madd, MaddLast)
    BY <1>9 DEF BenchInv
  <2>2. pipe_response_mul_2
    BY <1>7, <1>9, <2>1 DEF pipe_response_mul_2
  <2>3. MaddCycle(Second, FALSE)
    BY <1>1, <1>7, <2>1, <2>2 DEF Second
  <2>4. OneIn(madd', MaddLast, MaddItems(Second))
    BY <1>2, <1>5, <2>1, <2>3, SumEnters
  <2>5. m_count' = 2 /\ acc' = PowerOf2(1, 1)
    BY <1>4, <1>7, <1>9, <2>1, <2>2
  <2> QED
    BY <1>3, <2>4, <2>5 DEF BenchInv
<1>10. CASE ~ (m_count = 0 /\ r_count = 0) /\ m_count # 1
  <2>1. r_count # 0
    BY <1>10 DEF BenchInv
  <2>2. ~ pipe_response_mul_2 /\ ~ start_1
    BY <1>10, <2>1 DEF pipe_response_mul_2, start_1
  <2>3. MaddCycle(Empty, taken)
    BY <1>1, <2>2
  <2>4. CASE m_count = 0
    <3>1. acc = Zero(0) /\ OneIn(madd, MaddLast, MaddItems(First))
      BY <1>3, <2>1, <2>4 DEF BenchInv
    <3>2. CASE taken = TRUE
      <4>1. NoneIn(madd', MaddLast) /\ madd[MaddLast] = MaddItems(First)[MaddLast]
        BY <1>2, <2>3, <3>1, <3>2, SumLeaves
      <4>2. m_count' = 1 /\ acc' = PowerOf2(1, 1)
        BY <1>4, <1>5, <2>4, <3>2, <4>1
      <4> QED
        BY <1>3, <4>1, <4>2 DEF BenchInv
    <3>3. CASE taken = FALSE
      <4>1. OneIn(madd', MaddLast, MaddItems(First))
        BY <1>2, <1>5, <2>3, <3>1, <3>3, MaddMoves
      <4>2. m_count' = 0 /\ acc' = Zero(0)
        BY <1>4, <2>2, <2>4, <3>1, <3>3
      <4> QED
        BY <1>3, <4>1, <4>2 DEF BenchInv
    <3> QED
      BY <1>0, <3>2, <3>3
  <2>5. CASE m_count = 2
    <3>1. acc = PowerOf2(1, 1) /\ OneIn(madd, MaddLast, MaddItems(Second))
      BY <2>5 DEF BenchInv
    <3>2. CASE taken = TRUE
      <4>1. NoneIn(madd', MaddLast) /\ madd[MaddLast] = MaddItems(Second)[MaddLast]
        BY <1>2, <2>3, <3>1, <3>2, SumLeaves
      <4>2. m_count' = 3 /\ acc' = PowerOf2(1, 2)
        BY <1>4, <1>5, <2>5, <3>2, <4>1
      <4> QED
        BY <1>3, <4>1, <4>2 DEF BenchInv
    <3>3. CASE taken = FALSE
      <4>1. OneIn(madd', MaddLast, MaddItems(Second))
        BY <1>2, <1>5, <2>3, <3>1, <3>3, MaddMoves
      <4>2. m_count' = 2 /\ acc' = PowerOf2(1, 1)
        BY <1>4, <2>2, <2>5, <3>1, <3>3
      <4> QED
        BY <1>3, <4>1, <4>2 DEF BenchInv
    <3> QED
      BY <1>0, <3>2, <3>3
  <2>6. CASE m_count = 3
    <3>1. acc = PowerOf2(1, 2) /\ NoneIn(madd, MaddLast)
      BY <2>6 DEF BenchInv
    <3>2. MaddCycle(Empty, FALSE) /\ \A j \in 0 .. MaddLast : madd[j] # Empty => j = MaddLast /\ FALSE
      BY <1>7, <2>3, <3>1 DEF NoneIn
    <3>3. \A j \in 0 .. MaddLast : madd'[j] = IF j = 0 THEN Empty ELSE Empty
      BY <3>2, MaddEntered
    <3>4. NoneIn(madd', MaddLast)
      BY <3>3 DEF NoneIn
    <3>5. m_count' = 3 /\ acc' = PowerOf2(1, 2)
      BY <1>4, <1>7, <2>2, <2>6, <3>1
    <3> QED
      BY <1>3, <3>4, <3>5 DEF BenchInv
  <2> QED
    BY <1>6, <1>10, <2>4, <2>5, <2>6
<1> QED
  BY <1>8, <1>9, <1>10
LEMMA BenchGoesOn ==
    ASSUME BenchAdds, BenchInv, [BenchNext]_benchVars
    PROVE  BenchInv'
<1>1. CASE schedule_posedge_CLK
  BY <1>1, BenchSteps
<1>2. CASE reset_RST_N
  <2>1. UnitsInit' /\ acc' = Zero(0) /\ m_count' = 0 /\ r_count' = 0
    BY <1>2 DEF reset_RST_N, ResetUnits, UnitsInit
  <2>2. 0 \in 0 .. DivLast /\ 0 \in 0 .. 255
    BY DEF DivLast
  <2> QED
    BY <2>1, <2>2 DEF UnitsInit, BenchInv, NoneIn
<1>3. CASE UNCHANGED benchVars
  BY <1>3 DEF benchVars, BenchInv, NoneIn, OneIn
<1> QED
  BY <1>1, <1>2, <1>3 DEF BenchNext

LEMMA InvSums ==
    ASSUME BenchInv PROVE RunningSum
<1>1. /\ NoneIn(madd, MaddLast) => InPipeline = 0
      /\ \A items : OneIn(madd, MaddLast, items) => InPipeline = 1
  <2> DEFINE full == {i \in 0 .. MaddLast : madd[i] # Empty}
  <2>1. NoneIn(madd, MaddLast) => full = {}
    BY DEF NoneIn
  <2>2. ASSUME NEW items, OneIn(madd, MaddLast, items) PROVE Cardinality(full) = 1
    <3>1. PICK i \in 0 .. MaddLast : \A j \in 0 .. MaddLast : madd[j] # Empty <=> j = i
      BY <2>2 DEF OneIn
    <3>2. full = {i}
      BY <3>1
    <3> HIDE DEF full
    <3> QED
      BY <3>2, FS_Singleton
  <2> HIDE DEF full
  <2>3. Cardinality({}) = 0
    BY FS_EmptySet
  <2> QED
    BY <2>1, <2>2, <2>3 DEF InPipeline, full
<1>2. r_count \in 0 .. 255 /\ (r_count = 0 => m_count = 0) /\ m_count \in 0 .. 3
  BY DEF BenchInv
<1>3. CASE m_count = 0 /\ r_count = 0
  <2>1. acc = Zero(0) /\ InPipeline = 0
    BY <1>1, <1>3 DEF BenchInv
  <2>2. SumsTaken = 0 /\ SumsAsked = 0
    BY <1>3 DEF SumsTaken, SumsAsked
  <2> QED
    BY <2>1, <2>2 DEF RunningSum
<1>4. CASE m_count = 0 /\ r_count > 0
  <2>1. acc = Zero(0) /\ InPipeline = 1
    BY <1>1, <1>4 DEF BenchInv
  <2>2. SumsTaken = 0 /\ SumsAsked = 1
    BY <1>4 DEF SumsTaken, SumsAsked
  <2> QED
    BY <2>1, <2>2 DEF RunningSum
<1>5. CASE m_count = 1
  <2>1. acc = PowerOf2(1, 1) /\ InPipeline = 0
    BY <1>1, <1>5 DEF BenchInv
  <2>2. SumsTaken = 1 /\ SumsAsked = 1
    BY <1>2, <1>5 DEF SumsTaken, SumsAsked
  <2> QED
    BY <2>1, <2>2 DEF RunningSum
<1>6. CASE m_count = 2
  <2>1. acc = PowerOf2(1, 1) /\ InPipeline = 1
    BY <1>1, <1>6 DEF BenchInv
  <2>2. SumsTaken = 1 /\ SumsAsked = 2
    BY <1>2, <1>6 DEF SumsTaken, SumsAsked
  <2> QED
    BY <2>1, <2>2 DEF RunningSum
<1>7. CASE m_count = 3
  <2>1. acc = PowerOf2(1, 2) /\ InPipeline = 0
    BY <1>1, <1>7 DEF BenchInv
  <2>2. SumsTaken = 2 /\ SumsAsked = 2
    BY <1>2, <1>7 DEF SumsTaken, SumsAsked
  <2> QED
    BY <2>1, <2>2 DEF RunningSum
<1> QED
  BY <1>2, <1>3, <1>4, <1>5, <1>6, <1>7

(***************************************************************************)
(* With the bench as the only client, its accumulator, its counter and the *)
(* queues agree after any number of resets at any time.                    *)
(***************************************************************************)
THEOREM BenchIsRight ==
    ASSUME BenchAdds
    PROVE  BenchSpec => []RunningSum
<1>1. BenchInit => BenchInv
  BY BenchStarts DEF BenchInit
<1>2. BenchInv /\ [BenchNext]_benchVars => BenchInv'
  BY BenchGoesOn
<1>3. BenchInv => RunningSum
  BY InvSums
<1> QED
  BY <1>1, <1>2, <1>3, PTL DEF BenchSpec

(***************************************************************************)
(* The same where either client may run: the one that runs at first does   *)
(* so for ever.                                                            *)
(***************************************************************************)
MCInv ==
    /\ asked = [u \in Units |-> asked[u]]
    /\ IF Serves THEN ServerInv
       ELSE BenchInv /\ \A u \in Units : answers[u] = <<>>

LEMMA ServesOn ==
    ASSUME ServerInv, asked = [u \in Units |-> asked[u]], Serves,
           NEW get \in BOOLEAN, NEW put \in BOOLEAN, ServerCycle(get, put)
    PROVE  asked' = [u \in Units |-> asked'[u]] /\ Serves'
<1> DEFINE Next(u) == IF Puts(u, get, put) THEN Append(asked[u], Head(todo).req) ELSE asked[u]
<1>1. /\ asked' = [u \in Units |-> Next(u)]
      /\ todo' = IF \E u \in Units : Puts(u, get, put) THEN Tail(todo) ELSE todo
  BY DEF ServerCycle
<1>2. asked' = [u \in Units |-> asked'[u]] /\ \A u \in Units : asked'[u] = Next(u)
  BY <1>1
<1>3. ASSUME NEW u \in Units, asked'[u] # <<>> PROVE Serves'
  BY <1>3 DEF Serves
<1>4. CASE \E u \in Units : asked[u] # <<>> \/ Puts(u, get, put)
  <2>1. PICK u \in Units : asked[u] # <<>> \/ Puts(u, get, put)
    BY <1>4
  <2>2. asked[u] \in Seq(Requests(u))
    BY <2>1 DEF ServerInv, MaddInv, DivInv, Served, Units
  <2>3. Puts(u, get, put) => Append(asked[u], Head(todo).req) # <<>>
    BY <2>2, RequestPut, AppendProperties DEF ServerInv
  <2>4. asked'[u] # <<>>
    BY <1>2, <2>1, <2>3
  <2> QED
    BY <1>2, <1>3, <2>4
<1>5. CASE \A u \in Units : asked[u] = <<>> /\ ~ Puts(u, get, put)
  <2>1. asked = [u \in Units |-> <<>>]
    BY <1>5
  <2>2. todo # <<>> /\ todo' = todo
    BY <1>1, <1>5, <2>1 DEF Serves
  <2>3. Serves'
    BY <2>2 DEF Serves
  <2> QED
    BY <1>2, <2>3
<1> QED
  BY <1>2, <1>4, <1>5

LEMMA MCGoesOn ==
    ASSUME Something, BenchAdds, MCInv, [MCNext]_vars
    PROVE  MCInv'
<1>1. CASE Serves /\ ServerNext /\ UNCHANGED bench
  <2>1. ServerInv'
    BY <1>1, ServerGoesOn DEF MCInv
  <2>2. asked' = [u \in Units |-> asked'[u]] /\ Serves'
    <3>1. PICK get \in BOOLEAN, put \in BOOLEAN : ServerCycle(get, put)
      BY <1>1 DEF ServerNext
    <3> QED
      BY <1>1, <3>1, ServesOn DEF MCInv
  <2> QED
    BY <2>1, <2>2 DEF MCInv
<1>2. CASE ~ Serves /\ BenchNext /\ UNCHANGED client
  <2>1. BenchInv'
    BY <1>2, BenchGoesOn DEF MCInv
  <2>2. ~ Serves' /\ answers' = answers /\ asked' = asked
    BY <1>2 DEF Serves, client
  <2> QED
    BY <1>2, <2>1, <2>2 DEF MCInv
<1>3. CASE UNCHANGED vars
  <2>1. UNCHANGED serverVars /\ UNCHANGED benchVars /\ UNCHANGED answers /\ UNCHANGED asked
    BY <1>3 DEF vars, units, client, bench, serverVars, benchVars
  <2>2. Serves' = Serves
    BY <2>1 DEF Serves, serverVars
  <2>3. ServerInv => ServerInv'
    BY <2>1, ServerGoesOn
  <2>4. BenchInv => BenchInv'
    BY <2>1, BenchGoesOn
  <2> QED
    BY <2>1, <2>2, <2>3, <2>4 DEF MCInv
<1> QED
  BY <1>1, <1>2, <1>3 DEF MCNext

LEMMA MCStarts ==
    ASSUME Callable, MCInit
    PROVE  MCInv
<1>1. CASE ServerInit /\ acc = Zero(0) /\ m_count = 0 /\ r_count = 0
  <2>1. ServerInv
    BY <1>1, ServerStarts
  <2>2. BenchInv
    BY <1>1, BenchStarts DEF ServerInit
  <2>3. \A u \in Units : answers[u] = <<>>
    BY <1>1 DEF ServerInit
  <2>4. asked = [u \in Units |-> asked[u]]
    BY <1>1 DEF ServerInit
  <2> QED
    BY <2>1, <2>2, <2>3, <2>4 DEF MCInv
<1>2. CASE BenchInit /\ Idle
  <2>1. ~ Serves /\ \A u \in Units : answers[u] = <<>>
    BY <1>2 DEF Serves, Idle
  <2>2. BenchInv
    BY <1>2, BenchStarts DEF BenchInit
  <2>3. asked = [u \in Units |-> asked[u]]
    BY <1>2 DEF Idle
  <2> QED
    BY <2>1, <2>2, <2>3 DEF MCInv
<1> QED
  BY <1>1, <1>2 DEF MCInit

THEOREM BenchSumsAreRight ==
    ASSUME Callable, Something, BenchAdds
    PROVE  MCSpec => []BenchSums
<1>1. MCInit => MCInv
  BY MCStarts
<1>2. MCInv /\ [MCNext]_vars => MCInv'
  BY MCGoesOn
<1>3. MCInv => BenchSums
  BY InvSums DEF MCInv, BenchSums
<1> QED
  BY <1>1, <1>2, <1>3, PTL DEF MCSpec
=============================================================================
