---------------------------- MODULE FabricProofs ----------------------------
(***************************************************************************)
(* Proofs about Fabric for any number of masters and slaves, any bursts    *)
(* and any capacities of the FIFOs.                                        *)
(***************************************************************************)
EXTENDS Fabric, Induction, SequenceTheorems, FiniteSetTheorems, TLAPS

-----------------------------------------------------------------------------
(* Queues.                                                                  *)

LEMMA Appended ==
    ASSUME NEW S, NEW q \in Seq(S), NEW x \in S
    PROVE  /\ Append(q, x) \in Seq(S) /\ Append(q, x) # <<>>
           /\ Len(q) \in Nat /\ Len(Append(q, x)) = Len(q) + 1
           /\ \A i \in 1 .. Len(q) : Append(q, x)[i] = q[i]
           /\ Append(q, x)[Len(q) + 1] = x
BY AppendProperties

LEMMA Popped ==
    ASSUME NEW S, NEW q \in Seq(S), q # <<>>
    PROVE  /\ Tail(q) \in Seq(S) /\ Head(q) \in S /\ Head(q) = q[1]
           /\ Len(q) \in Nat /\ Len(q) > 0 /\ Len(Tail(q)) = Len(q) - 1
           /\ \A i \in 1 .. Len(q) - 1 : Tail(q)[i] = q[i + 1]
BY HeadTailProperties, EmptySeq

LEMMA AppendHead ==
    ASSUME NEW S, NEW q \in Seq(S), q # <<>>, NEW x \in S
    PROVE  Append(q, x) # <<>> /\ Head(Append(q, x)) = Head(q)
<1>1. Append(q, x) \in Seq(S) /\ Append(q, x) # <<>> /\ \A i \in 1 .. Len(q) : Append(q, x)[i] = q[i]
  BY Appended
<1>2. Head(q) = q[1] /\ Len(q) \in Nat /\ Len(q) > 0
  BY Popped
<1>3. Head(Append(q, x)) = Append(q, x)[1]
  BY <1>1, Popped
<1>4. QED
  BY <1>1, <1>2, <1>3

LEMMA PushType ==
    ASSUME NEW S, NEW T, NEW f \in [S -> Seq(T)], NEW k \in S, NEW x \in T
    PROVE  Push(f, k, x) \in [S -> Seq(T)]
<1>1. Append(f[k], x) \in Seq(T)
  BY Appended
<1>2. QED
  BY <1>1 DEF Push

LEMMA PopType ==
    ASSUME NEW S, NEW T, NEW f \in [S -> Seq(T)], NEW k \in S, f[k] # <<>>
    PROVE  Pop(f, k) \in [S -> Seq(T)]
<1>1. Tail(f[k]) \in Seq(T)
  BY Popped
<1>2. QED
  BY <1>1 DEF Pop

LEMMA EmptyType ==
    ASSUME NEW S, NEW T
    PROVE  EmptyPer(S) \in [S -> Seq(T)]
<1>1. <<>> \in Seq(T)
  BY EmptySeq
<1>2. QED
  BY <1>1 DEF EmptyPer

LEMMA CountType ==
    ASSUME NEW S, NEW f \in [S -> Nat], NEW k, NEW n \in Nat
    PROVE  Count(f, k, n) \in [S -> Nat] /\ ZeroPer(S) \in [S -> Nat]
BY DEF Count, ZeroPer
-----------------------------------------------------------------------------
(* Notes.  at is what a slave has of all masters, sent what a master has    *)
(* sent to all slaves; both hold the bursts from m to s in the same order.  *)

\* f takes the place in at of a burst from m to its place in sent.
Places(f, at, sent, m, s) ==
    /\ \A i \in 1 .. Len(at) : at[i].master = m =>
          f[i] \in 1 .. Len(sent) /\ sent[f[i]] = at[i]
    /\ \A i, j \in 1 .. Len(at) : i < j /\ at[i].master = m /\ at[j].master = m => f[i] < f[j]
    /\ \A k \in 1 .. Len(sent) : sent[k].to = s =>
          \E i \in 1 .. Len(at) : at[i].master = m /\ f[i] = k

Match(at, sent, m, s) == \E f \in [1 .. Len(at) -> Int] : Places(f, at, sent, m, s)

LEMMA MatchEmpty == \A m, s : Match(<<>>, <<>>, m, s)
<1> SUFFICES ASSUME NEW m, NEW s PROVE Match(<<>>, <<>>, m, s)
  OBVIOUS
<1> DEFINE f == [i \in 1 .. Len(<<>>) |-> 0]
<1>1. Len(<<>>) = 0
  BY EmptySeq
<1>2. Places(f, <<>>, <<>>, m, s) /\ f \in [1 .. Len(<<>>) -> Int]
  BY <1>1 DEF Places
<1> HIDE DEF f
<1>3. QED
  BY <1>2 DEF Match

\* A burst from m to s is noted on both sides.
LEMMA MatchAppend ==
    ASSUME NEW at \in Seq(Bursts), NEW sent \in Seq(Bursts), NEW b \in Bursts,
           NEW s, Match(at, sent, b.master, s)
    PROVE  Match(Append(at, b), Append(sent, b), b.master, s)
<1> DEFINE a2 == Append(at, b)
           s2 == Append(sent, b)
           m == b.master
<1>1. PICK f \in [1 .. Len(at) -> Int] : Places(f, at, sent, m, s)
  BY DEF Match
<1>2. /\ Len(at) \in Nat /\ Len(a2) = Len(at) + 1
      /\ \A i \in 1 .. Len(at) : a2[i] = at[i]
      /\ a2[Len(at) + 1] = b
  BY Appended
<1>3. /\ Len(sent) \in Nat /\ Len(s2) = Len(sent) + 1
      /\ \A i \in 1 .. Len(sent) : s2[i] = sent[i]
      /\ s2[Len(sent) + 1] = b
  BY Appended
<1> DEFINE g == [i \in 1 .. Len(at) + 1 |-> IF i = Len(at) + 1 THEN Len(sent) + 1 ELSE f[i]]
<1> HIDE DEF a2, s2, m
<1>4. /\ g \in [1 .. Len(a2) -> Int]
      /\ \A i \in 1 .. Len(at) : g[i] = f[i]
      /\ g[Len(at) + 1] = Len(sent) + 1
  BY <1>2, <1>3
<1> HIDE DEF g
<1>5. Places(g, a2, s2, m, s)
  <2>1. ASSUME NEW i \in 1 .. Len(a2), a2[i].master = m
        PROVE  g[i] \in 1 .. Len(s2) /\ s2[g[i]] = a2[i]
    <3>1. CASE i = Len(at) + 1
      BY <1>2, <1>3, <1>4, <3>1
    <3>2. CASE i \in 1 .. Len(at)
      BY <1>1, <1>2, <1>3, <1>4, <2>1, <3>2 DEF Places
    <3>3. QED
      BY <1>2, <3>1, <3>2
  <2>2. ASSUME NEW i \in 1 .. Len(a2), NEW j \in 1 .. Len(a2), i < j,
               a2[i].master = m, a2[j].master = m
        PROVE  g[i] < g[j]
    <3>1. i \in 1 .. Len(at) /\ g[i] = f[i] /\ f[i] \in 1 .. Len(sent)
      BY <1>1, <1>2, <1>4, <2>2 DEF Places
    <3>2. CASE j = Len(at) + 1
      BY <1>3, <1>4, <3>1, <3>2
    <3>3. CASE j \in 1 .. Len(at)
      BY <1>1, <1>2, <1>4, <2>2, <3>1, <3>3 DEF Places
    <3>4. QED
      BY <1>2, <3>2, <3>3
  <2>3. ASSUME NEW k \in 1 .. Len(s2), s2[k].to = s
        PROVE  \E i \in 1 .. Len(a2) : a2[i].master = m /\ g[i] = k
    <3>1. CASE k = Len(sent) + 1
      <4>1. a2[Len(at) + 1].master = m /\ Len(at) + 1 \in 1 .. Len(a2)
        BY <1>2 DEF m
      <4>2. QED
        BY <1>4, <3>1, <4>1
    <3>2. CASE k \in 1 .. Len(sent)
      <4>1. PICK i \in 1 .. Len(at) : at[i].master = m /\ f[i] = k
        BY <1>1, <1>3, <2>3, <3>2 DEF Places
      <4>2. i \in 1 .. Len(a2) /\ a2[i].master = m /\ g[i] = k
        BY <1>2, <1>4, <4>1
      <4>3. QED
        BY <4>2
    <3>3. QED
      BY <1>3, <3>1, <3>2
  <2>4. QED
    BY <2>1, <2>2, <2>3 DEF Places
<1>6. QED
  BY <1>4, <1>5 DEF Match, a2, s2, m

\* The slave gets a burst from elsewhere.
LEMMA MatchAppendAt ==
    ASSUME NEW at \in Seq(Bursts), NEW sent \in Seq(Bursts), NEW b \in Bursts,
           NEW m, NEW s, Match(at, sent, m, s), b.master # m
    PROVE  Match(Append(at, b), sent, m, s)
<1> DEFINE a2 == Append(at, b)
<1>1. PICK f \in [1 .. Len(at) -> Int] : Places(f, at, sent, m, s)
  BY DEF Match
<1>2. /\ Len(at) \in Nat /\ Len(a2) = Len(at) + 1
      /\ \A i \in 1 .. Len(at) : a2[i] = at[i]
      /\ a2[Len(at) + 1] = b
  BY Appended
<1> DEFINE g == [i \in 1 .. Len(at) + 1 |-> IF i = Len(at) + 1 THEN 0 ELSE f[i]]
<1> HIDE DEF a2
<1>3. /\ g \in [1 .. Len(a2) -> Int]
      /\ \A i \in 1 .. Len(at) : g[i] = f[i]
  BY <1>2
<1> HIDE DEF g
<1>4. \A i \in 1 .. Len(a2) : a2[i].master = m => i \in 1 .. Len(at) /\ at[i].master = m
  BY <1>2
<1>5. Places(g, a2, sent, m, s)
  <2>1. ASSUME NEW i \in 1 .. Len(a2), a2[i].master = m
        PROVE  g[i] \in 1 .. Len(sent) /\ sent[g[i]] = a2[i]
    BY <1>1, <1>2, <1>3, <1>4, <2>1 DEF Places
  <2>2. ASSUME NEW i \in 1 .. Len(a2), NEW j \in 1 .. Len(a2), i < j,
               a2[i].master = m, a2[j].master = m
        PROVE  g[i] < g[j]
    BY <1>1, <1>2, <1>3, <1>4, <2>2 DEF Places
  <2>3. ASSUME NEW k \in 1 .. Len(sent), sent[k].to = s
        PROVE  \E i \in 1 .. Len(a2) : a2[i].master = m /\ g[i] = k
    <3>1. PICK i \in 1 .. Len(at) : at[i].master = m /\ f[i] = k
      BY <1>1, <2>3 DEF Places
    <3>2. i \in 1 .. Len(a2) /\ a2[i].master = m /\ g[i] = k
      BY <1>2, <1>3, <3>1
    <3>3. QED
      BY <3>2
  <2>4. QED
    BY <2>1, <2>2, <2>3 DEF Places
<1>6. QED
  BY <1>3, <1>5 DEF Match, a2

\* The master sends a burst elsewhere.
LEMMA MatchAppendSent ==
    ASSUME NEW at \in Seq(Bursts), NEW sent \in Seq(Bursts), NEW b \in Bursts,
           NEW m, NEW s, Match(at, sent, m, s), b.to # s
    PROVE  Match(at, Append(sent, b), m, s)
<1> DEFINE s2 == Append(sent, b)
<1>1. PICK f \in [1 .. Len(at) -> Int] : Places(f, at, sent, m, s)
  BY DEF Match
<1>2. /\ Len(sent) \in Nat /\ Len(s2) = Len(sent) + 1
      /\ \A i \in 1 .. Len(sent) : s2[i] = sent[i]
      /\ s2[Len(sent) + 1] = b
  BY Appended
<1> HIDE DEF s2
<1>3. \A k \in 1 .. Len(s2) : s2[k].to = s => k \in 1 .. Len(sent) /\ sent[k].to = s
  BY <1>2
<1>4. Places(f, at, s2, m, s)
  BY <1>1, <1>2, <1>3 DEF Places
<1>5. QED
  BY <1>4 DEF Match, s2

\* The first burst at s, if it is of m, is the first one m sent if that went
\* to s; both sides strike it out.
LEMMA MatchPop ==
    ASSUME NEW at \in Seq(Bursts), NEW sent \in Seq(Bursts), NEW m, NEW s,
           Match(at, sent, m, s), at # <<>>, sent # <<>>,
           at[1].master = m, sent[1].to = s
    PROVE  at[1] = sent[1] /\ Match(Tail(at), Tail(sent), m, s)
<1> DEFINE a2 == Tail(at)
           s2 == Tail(sent)
<1>1. PICK f \in [1 .. Len(at) -> Int] : Places(f, at, sent, m, s)
  BY DEF Match
<1>2. /\ Len(at) \in Nat \ {0} /\ Len(a2) = Len(at) - 1
      /\ \A i \in 1 .. Len(at) - 1 : a2[i] = at[i + 1]
  BY Popped
<1>3. /\ Len(sent) \in Nat \ {0} /\ Len(s2) = Len(sent) - 1
      /\ \A i \in 1 .. Len(sent) - 1 : s2[i] = sent[i + 1]
  BY Popped
<1> HIDE DEF a2, s2
<1>4. f[1] = 1
  <2>1. PICK i \in 1 .. Len(at) : at[i].master = m /\ f[i] = 1
    BY <1>1, <1>3 DEF Places
  <2>2. f[1] \in 1 .. Len(sent) /\ (1 < i => f[1] < f[i])
    BY <1>1, <1>2, <2>1 DEF Places
  <2>3. QED
    BY <1>3, <2>1, <2>2
<1>5. at[1] = sent[1]
  BY <1>1, <1>2, <1>4 DEF Places
<1> DEFINE g == [i \in 1 .. Len(at) - 1 |-> f[i + 1] - 1]
<1>6. /\ g \in [1 .. Len(a2) -> Int]
      /\ \A i \in 1 .. Len(a2) : i + 1 \in 1 .. Len(at) /\ a2[i] = at[i + 1] /\ g[i] = f[i + 1] - 1
  BY <1>2
<1> HIDE DEF g
<1>7. Places(g, a2, s2, m, s)
  <2>1. ASSUME NEW i \in 1 .. Len(a2), a2[i].master = m
        PROVE  g[i] \in 1 .. Len(s2) /\ s2[g[i]] = a2[i]
    <3>1. f[i + 1] \in 1 .. Len(sent) /\ sent[f[i + 1]] = at[i + 1] /\ f[1] < f[i + 1]
      BY <1>1, <1>2, <1>6, <2>1 DEF Places
    <3>2. g[i] \in 1 .. Len(sent) - 1 /\ g[i] + 1 = f[i + 1]
      BY <1>3, <1>4, <1>6, <3>1
    <3>3. QED
      BY <1>3, <1>6, <3>1, <3>2
  <2>2. ASSUME NEW i \in 1 .. Len(a2), NEW j \in 1 .. Len(a2), i < j,
               a2[i].master = m, a2[j].master = m
        PROVE  g[i] < g[j]
    <3>1. /\ i + 1 \in 1 .. Len(at) /\ j + 1 \in 1 .. Len(at) /\ i + 1 < j + 1
          /\ at[i + 1].master = m /\ at[j + 1].master = m
      BY <1>2, <1>6, <2>2
    <3>2. f[i + 1] < f[j + 1] /\ f[i + 1] \in Int /\ f[j + 1] \in Int
      BY <1>1, <3>1 DEF Places
    <3>3. QED
      BY <1>6, <3>2
  <2>3. ASSUME NEW k \in 1 .. Len(s2), s2[k].to = s
        PROVE  \E i \in 1 .. Len(a2) : a2[i].master = m /\ g[i] = k
    <3>1. PICK i \in 1 .. Len(at) : at[i].master = m /\ f[i] = k + 1
      BY <1>1, <1>3, <2>3 DEF Places
    <3>2. i # 1 /\ i - 1 \in 1 .. Len(a2) /\ (i - 1) + 1 = i
      BY <1>2, <1>4, <3>1
    <3>3. a2[i - 1] = at[(i - 1) + 1] /\ g[i - 1] = f[(i - 1) + 1] - 1
      BY <1>6, <3>2
    <3>4. a2[i - 1].master = m /\ g[i - 1] = k
      BY <3>1, <3>2, <3>3
    <3>5. QED
      BY <3>2, <3>4
  <2>4. QED
    BY <2>1, <2>2, <2>3 DEF Places
<1>8. QED
  BY <1>5, <1>6, <1>7 DEF Match, a2, s2

\* The slave strikes out a burst of another master.
LEMMA MatchPopAt ==
    ASSUME NEW at \in Seq(Bursts), NEW sent \in Seq(Bursts), NEW m, NEW s,
           Match(at, sent, m, s), at # <<>>, at[1].master # m
    PROVE  Match(Tail(at), sent, m, s)
<1> DEFINE a2 == Tail(at)
<1>1. PICK f \in [1 .. Len(at) -> Int] : Places(f, at, sent, m, s)
  BY DEF Match
<1>2. /\ Len(at) \in Nat \ {0} /\ Len(a2) = Len(at) - 1
      /\ \A i \in 1 .. Len(at) - 1 : a2[i] = at[i + 1]
  BY Popped
<1> HIDE DEF a2
<1> DEFINE g == [i \in 1 .. Len(at) - 1 |-> f[i + 1]]
<1>3. /\ g \in [1 .. Len(a2) -> Int]
      /\ \A i \in 1 .. Len(a2) : i + 1 \in 1 .. Len(at) /\ a2[i] = at[i + 1] /\ g[i] = f[i + 1]
  BY <1>2
<1> HIDE DEF g
<1>4. Places(g, a2, sent, m, s)
  <2>1. ASSUME NEW i \in 1 .. Len(a2), a2[i].master = m
        PROVE  g[i] \in 1 .. Len(sent) /\ sent[g[i]] = a2[i]
    BY <1>1, <1>3, <2>1 DEF Places
  <2>2. ASSUME NEW i \in 1 .. Len(a2), NEW j \in 1 .. Len(a2), i < j,
               a2[i].master = m, a2[j].master = m
        PROVE  g[i] < g[j]
    <3>1. /\ i + 1 \in 1 .. Len(at) /\ j + 1 \in 1 .. Len(at) /\ i + 1 < j + 1
          /\ at[i + 1].master = m /\ at[j + 1].master = m
      BY <1>2, <1>3, <2>2
    <3>2. f[i + 1] < f[j + 1]
      BY <1>1, <3>1 DEF Places
    <3>3. QED
      BY <1>3, <3>2
  <2>3. ASSUME NEW k \in 1 .. Len(sent), sent[k].to = s
        PROVE  \E i \in 1 .. Len(a2) : a2[i].master = m /\ g[i] = k
    <3>1. PICK i \in 1 .. Len(at) : at[i].master = m /\ f[i] = k
      BY <1>1, <2>3 DEF Places
    <3>2. i # 1 /\ i - 1 \in 1 .. Len(a2) /\ (i - 1) + 1 = i
      BY <1>2, <3>1
    <3>3. a2[i - 1].master = m /\ g[i - 1] = k
      BY <1>3, <3>1, <3>2
    <3>4. QED
      BY <3>2, <3>3
  <2>4. QED
    BY <2>1, <2>2, <2>3 DEF Places
<1>5. QED
  BY <1>3, <1>4 DEF Match, a2

\* The master strikes out a burst to another slave.
LEMMA MatchPopSent ==
    ASSUME NEW at \in Seq(Bursts), NEW sent \in Seq(Bursts), NEW m, NEW s,
           Match(at, sent, m, s), sent # <<>>, sent[1].to # s,
           \A i \in 1 .. Len(at) : at[i].to = s
    PROVE  Match(at, Tail(sent), m, s)
<1> DEFINE s2 == Tail(sent)
<1>1. PICK f \in [1 .. Len(at) -> Int] : Places(f, at, sent, m, s)
  BY DEF Match
<1>2. Len(at) \in Nat
  BY LenProperties
<1>3. /\ Len(sent) \in Nat \ {0} /\ Len(s2) = Len(sent) - 1
      /\ \A i \in 1 .. Len(sent) - 1 : s2[i] = sent[i + 1]
  BY Popped
<1> HIDE DEF s2
<1> DEFINE g == [i \in 1 .. Len(at) |-> f[i] - 1]
<1>4. g \in [1 .. Len(at) -> Int] /\ \A i \in 1 .. Len(at) : g[i] = f[i] - 1 /\ f[i] \in Int
  BY <1>2
<1> HIDE DEF g
<1>5. Places(g, at, s2, m, s)
  <2>1. ASSUME NEW i \in 1 .. Len(at), at[i].master = m
        PROVE  g[i] \in 1 .. Len(s2) /\ s2[g[i]] = at[i]
    <3>1. f[i] \in 1 .. Len(sent) /\ sent[f[i]] = at[i] /\ f[i] # 1
      BY <1>1, <2>1 DEF Places
    <3>2. g[i] \in 1 .. Len(sent) - 1 /\ g[i] + 1 = f[i]
      BY <1>3, <1>4, <3>1
    <3>3. QED
      BY <1>3, <3>1, <3>2
  <2>2. ASSUME NEW i \in 1 .. Len(at), NEW j \in 1 .. Len(at), i < j,
               at[i].master = m, at[j].master = m
        PROVE  g[i] < g[j]
    <3>1. f[i] < f[j]
      BY <1>1, <2>2 DEF Places
    <3>2. QED
      BY <1>4, <3>1
  <2>3. ASSUME NEW k \in 1 .. Len(s2), s2[k].to = s
        PROVE  \E i \in 1 .. Len(at) : at[i].master = m /\ g[i] = k
    <3>1. k + 1 \in 1 .. Len(sent) /\ sent[k + 1].to = s
      BY <1>3, <2>3
    <3>2. PICK i \in 1 .. Len(at) : at[i].master = m /\ f[i] = k + 1
      BY <1>1, <3>1 DEF Places
    <3>3. g[i] = k
      BY <1>4, <3>2
    <3>4. QED
      BY <3>2, <3>3
  <2>4. QED
    BY <2>1, <2>2, <2>3 DEF Places
<1>6. QED
  BY <1>4, <1>5 DEF Match, s2
-----------------------------------------------------------------------------
(* Streams of beats.  The beats in q are of the bursts in bs, in order; of  *)
(* the first one p0 beats went before, of the burst after the last one that *)
(* ends in q, bs[n + 1], p1 beats are gone.                                 *)

\* Beat i is beat pos[i] of burst idx[i].
Beats(idx, pos, q, bs, p0, p1, n) ==
    /\ idx[1] = 1 /\ pos[1] = p0
    /\ idx[Len(q) + 1] = n + 1 /\ pos[Len(q) + 1] = p1
    /\ \A i, j \in 1 .. Len(q) + 1 : i <= j => idx[i] <= idx[j]
    /\ \A i \in 1 .. Len(q) :
          /\ idx[i] <= Len(bs) /\ q[i].burst = bs[idx[i]]
          /\ q[i].last <=> pos[i] = bs[idx[i]].len
          /\ idx[i + 1] = IF q[i].last THEN idx[i] + 1 ELSE idx[i]
          /\ pos[i + 1] = IF q[i].last THEN 0 ELSE pos[i] + 1

Stream(q, bs, p0, p1, n) ==
    /\ n \in 0 .. Len(bs) /\ p0 \in Nat /\ p1 \in Nat
    /\ p0 <= IF bs = <<>> THEN 0 ELSE bs[1].len
    /\ n < Len(bs) => p1 <= bs[n + 1].len
    /\ n = Len(bs) => p1 = 0
    /\ \E idx, pos \in [1 .. Len(q) + 1 -> Int] : Beats(idx, pos, q, bs, p0, p1, n)

LEMMA BurstFields ==
    ASSUME NEW b \in Bursts
    PROVE  b.master \in Masters /\ b.to \in 0 .. NumSlaves /\ b.len \in Nat /\ b.tag \in Tags
BY FabricAssumption DEF Bursts, Tagged

\* A burst that a master asks for.
LEMMA AskedBurst ==
    ASSUME NEW asked \in Seq(Bursts), NEW c \in WrBursts \cup RdBursts
    PROVE  /\ Tagged(c, NextTag(asked)) \in Bursts
           /\ Tagged(c, NextTag(asked)).master = c.master /\ c.master \in Masters
<1>1. NextTag(asked) \in Tags
  <2>1. CASE asked = <<>>
    BY <2>1 DEF NextTag, Tags
  <2>2. CASE asked # <<>>
    <3>1. Len(asked) \in Nat /\ Len(asked) > 0
      BY <2>2, Popped
    <3>2. asked[Len(asked)] \in Bursts
      BY <3>1, ElementOfSeq
    <3>3. PICK d \in WrBursts \cup RdBursts, t \in Tags : asked[Len(asked)] = Tagged(d, t)
      BY <3>2 DEF Bursts
    <3>4. Last(asked).tag = t
      BY <3>3 DEF Last, Tagged
    <3>5. QED
      BY <2>2, <3>4 DEF NextTag, Tags
  <2>3. QED
    BY <2>1, <2>2
<1>2. Tagged(c, NextTag(asked)) \in Bursts
  BY <1>1 DEF Bursts
<1>3. c.master \in Masters
  BY FabricAssumption
<1>4. QED
  BY <1>2, <1>3 DEF Tagged

LEMMA StreamEmpty ==
    ASSUME NEW bs \in Seq(Bursts)
    PROVE  Stream(<<>>, bs, 0, 0, 0)
<1> DEFINE idx == [i \in 1 .. 1 |-> 1]
           pos == [i \in 1 .. 1 |-> 0]
<1>1. Len(<<>>) = 0 /\ Len(bs) \in Nat
  BY EmptySeq, LenProperties
<1>2. idx \in [1 .. 0 + 1 -> Int] /\ pos \in [1 .. 0 + 1 -> Int]
  OBVIOUS
<1>3. Beats(idx, pos, <<>>, bs, 0, 0, 0)
  BY <1>1 DEF Beats
<1>4. 0 < Len(bs) => bs[1].len \in Nat
  BY <1>1, BurstFields
<1> HIDE DEF idx, pos
<1>5. \E i, p \in [1 .. Len(<<>>) + 1 -> Int] : Beats(i, p, <<>>, bs, 0, 0, 0)
  BY <1>1, <1>2, <1>3
<1>6. QED
  BY <1>1, <1>4, <1>5 DEF Stream

\* The next burst is announced.
LEMMA StreamMore ==
    ASSUME NEW q, NEW bs \in Seq(Bursts), NEW b \in Bursts, NEW p0, NEW p1, NEW n,
           Len(q) \in Nat, Stream(q, bs, p0, p1, n)
    PROVE  Stream(q, Append(bs, b), p0, p1, n)
<1> DEFINE b2 == Append(bs, b)
<1>1. /\ Len(bs) \in Nat /\ Len(b2) = Len(bs) + 1
      /\ \A i \in 1 .. Len(bs) : b2[i] = bs[i]
      /\ b2[Len(bs) + 1] = b /\ b.len \in Nat
  BY Appended, BurstFields
<1> HIDE DEF b2
<1>2. PICK idx \in [1 .. Len(q) + 1 -> Int], pos \in [1 .. Len(q) + 1 -> Int] :
          Beats(idx, pos, q, bs, p0, p1, n)
  BY DEF Stream
<1>3. Beats(idx, pos, q, b2, p0, p1, n)
  <2>1. ASSUME NEW i \in 1 .. Len(q) PROVE idx[i] \in 1 .. Len(bs) /\ idx[i] <= Len(b2)
    <3>1. 1 \in 1 .. Len(q) + 1 /\ i \in 1 .. Len(q) + 1 /\ 1 <= i
      OBVIOUS
    <3>2. idx[1] <= idx[i] /\ idx[i] <= Len(bs) /\ idx[1] = 1 /\ idx[i] \in Int
      BY <1>2, <3>1 DEF Beats
    <3>3. QED
      BY <1>1, <3>2
  <2>2. QED
    BY <1>1, <1>2, <2>1 DEF Beats
<1>4a. p0 <= IF b2 = <<>> THEN 0 ELSE b2[1].len
  <2>1. b2 # <<>>
    BY Appended DEF b2
  <2>2. CASE bs = <<>>
    BY <1>1, <2>1, <2>2, EmptySeq DEF Stream
  <2>3. CASE bs # <<>>
    <3>1. 1 \in 1 .. Len(bs)
      BY <1>1, <2>3, EmptySeq
    <3>2. QED
      BY <1>1, <2>1, <2>3, <3>1 DEF Stream
  <2>4. QED
    BY <2>2, <2>3
<1>4. /\ n \in 0 .. Len(b2) /\ p0 \in Nat /\ p1 \in Nat
      /\ n < Len(b2) => p1 <= b2[n + 1].len
      /\ n = Len(b2) => p1 = 0
  <2>1. CASE n < Len(bs)
    BY <1>1, <2>1 DEF Stream
  <2>2. CASE n = Len(bs)
    BY <1>1, <2>2 DEF Stream
  <2>3. QED
    BY <1>1, <2>1, <2>2 DEF Stream
<1>5. QED
  BY <1>3, <1>4, <1>4a DEF Stream, b2

\* A beat follows.
LEMMA StreamAppend ==
    ASSUME NEW S, NEW q \in Seq(S), NEW x \in S, x.last \in BOOLEAN,
           NEW bs \in Seq(Bursts), NEW p0, NEW p1, NEW n, Stream(q, bs, p0, p1, n),
           n < Len(bs), x.burst = bs[n + 1], x.last <=> p1 = bs[n + 1].len
    PROVE  Stream(Append(q, x), bs, p0, IF x.last THEN 0 ELSE p1 + 1, IF x.last THEN n + 1 ELSE n)
<1> DEFINE q2 == Append(q, x)
           p2 == IF x.last THEN 0 ELSE p1 + 1
           n2 == IF x.last THEN n + 1 ELSE n
           k == Len(q)
<1>1. /\ k \in Nat /\ Len(q2) = k + 1
      /\ \A i \in 1 .. k : q2[i] = q[i]
      /\ q2[k + 1] = x
  BY Appended
<1>2. PICK idx \in [1 .. k + 1 -> Int], pos \in [1 .. k + 1 -> Int] :
          Beats(idx, pos, q, bs, p0, p1, n)
  BY DEF Stream
<1>3. /\ n \in Nat /\ Len(bs) \in Nat /\ p1 \in Nat /\ p0 \in Nat /\ p1 <= bs[n + 1].len
      /\ bs[n + 1].len \in Nat
      /\ n + 1 < Len(bs) => bs[n + 2].len \in Nat
  BY LenProperties, BurstFields DEF Stream
<1>4. p2 \in Nat /\ n2 \in 0 .. Len(bs) /\ (n2 < Len(bs) => p2 <= bs[n2 + 1].len)
      /\ (n2 = Len(bs) => p2 = 0)
  <2>1. CASE x.last
    BY <1>3, <2>1
  <2>2. CASE ~x.last
    BY <1>3, <2>2
  <2>3. QED
    BY <2>1, <2>2
<1> DEFINE jdx == [i \in 1 .. k + 2 |-> IF i = k + 2 THEN n2 + 1 ELSE idx[i]]
           qos == [i \in 1 .. k + 2 |-> IF i = k + 2 THEN p2 ELSE pos[i]]
<1> HIDE DEF q2, p2, n2, k
<1>5. /\ jdx \in [1 .. k + 2 -> Int] /\ qos \in [1 .. k + 2 -> Int]
      /\ jdx[k + 2] = n2 + 1 /\ qos[k + 2] = p2
      /\ \A i \in 1 .. k + 1 : jdx[i] = idx[i] /\ qos[i] = pos[i]
  BY <1>1, <1>3, <1>4
<1>6. /\ idx[1] = 1 /\ pos[1] = p0 /\ idx[k + 1] = n + 1 /\ pos[k + 1] = p1
      /\ \A i, j \in 1 .. k + 1 : i <= j => idx[i] <= idx[j]
      /\ \A i \in 1 .. k :
            /\ idx[i] <= Len(bs) /\ q[i].burst = bs[idx[i]]
            /\ q[i].last <=> pos[i] = bs[idx[i]].len
            /\ idx[i + 1] = IF q[i].last THEN idx[i] + 1 ELSE idx[i]
            /\ pos[i + 1] = IF q[i].last THEN 0 ELSE pos[i] + 1
  BY <1>2 DEF Beats, k
<1> HIDE DEF jdx, qos
<1>7. jdx[1] = 1 /\ qos[1] = p0
  BY <1>1, <1>5, <1>6
<1>8. ASSUME NEW i \in 1 .. k + 2, NEW j \in 1 .. k + 2, i <= j
      PROVE  jdx[i] <= jdx[j]
  <2>1. CASE j \in 1 .. k + 1
    BY <1>1, <1>5, <1>6, <1>8, <2>1
  <2>2. CASE j = k + 2 /\ i \in 1 .. k + 1
    <3>1. k + 1 \in 1 .. k + 1 /\ i <= k + 1
      BY <1>1, <2>2
    <3>2. idx[i] <= idx[k + 1] /\ idx[i] \in Int
      BY <1>6, <2>2, <3>1
    <3>3. n + 1 <= n2 + 1 /\ n2 \in Int
      BY <1>3, <1>4 DEF n2
    <3>4. QED
      BY <1>3, <1>5, <1>6, <2>2, <3>2, <3>3
  <2>3. CASE j = k + 2 /\ i = k + 2
    BY <1>4, <1>5, <2>3
  <2>4. QED
    BY <1>1, <2>1, <2>2, <2>3
<1>9. ASSUME NEW i \in 1 .. k + 1
      PROVE  /\ jdx[i] <= Len(bs) /\ q2[i].burst = bs[jdx[i]]
             /\ q2[i].last <=> qos[i] = bs[jdx[i]].len
             /\ jdx[i + 1] = IF q2[i].last THEN jdx[i] + 1 ELSE jdx[i]
             /\ qos[i + 1] = IF q2[i].last THEN 0 ELSE qos[i] + 1
  <2>1. CASE i \in 1 .. k
    <3>1. i + 1 \in 1 .. k + 1
      BY <1>1, <2>1
    <3>2. /\ q2[i] = q[i] /\ jdx[i] = idx[i] /\ qos[i] = pos[i]
          /\ jdx[i + 1] = idx[i + 1] /\ qos[i + 1] = pos[i + 1]
      BY <1>1, <1>5, <2>1, <3>1
    <3>3. /\ idx[i] <= Len(bs) /\ q[i].burst = bs[idx[i]]
          /\ q[i].last <=> pos[i] = bs[idx[i]].len
          /\ idx[i + 1] = IF q[i].last THEN idx[i] + 1 ELSE idx[i]
          /\ pos[i + 1] = IF q[i].last THEN 0 ELSE pos[i] + 1
      BY <1>6, <2>1
    <3>4. QED
      BY <3>2, <3>3
  <2>2. CASE i = k + 1
    <3>1. q2[i] = x /\ jdx[i] = n + 1 /\ qos[i] = p1 /\ i + 1 = k + 2
      BY <1>1, <1>5, <1>6, <2>2
    <3>2. jdx[i + 1] = n2 + 1 /\ qos[i + 1] = p2
      BY <1>5, <3>1
    <3>3. n2 + 1 = (IF x.last THEN jdx[i] + 1 ELSE jdx[i])
      BY <1>3, <3>1 DEF n2
    <3>4. p2 = IF x.last THEN 0 ELSE qos[i] + 1
      BY <3>1 DEF p2
    <3>5. QED
      BY <1>3, <3>1, <3>2, <3>3, <3>4
  <2>3. QED
    BY <1>1, <2>1, <2>2
<1>10. Len(q2) + 1 = k + 2
  BY <1>1
<1>11. Beats(jdx, qos, q2, bs, p0, p2, n2)
  BY <1>1, <1>5, <1>7, <1>8, <1>9, <1>10 DEF Beats
<1>12. Stream(q2, bs, p0, p2, n2)
  <2>1. p0 <= IF bs = <<>> THEN 0 ELSE bs[1].len
    BY DEF Stream
  <2>2. QED
    BY <1>3, <1>4, <1>5, <1>10, <1>11, <2>1 DEF Stream
<1>13. QED
  BY <1>12 DEF q2, p2, n2

\* The first beat goes.
LEMMA StreamTail ==
    ASSUME NEW S, NEW q \in Seq(S), q # <<>>,
           NEW bs \in Seq(Bursts), NEW p0, NEW p1, NEW n, Stream(q, bs, p0, p1, n)
    PROVE  /\ bs # <<>> /\ q[1].burst = bs[1] /\ (q[1].last <=> p0 = bs[1].len)
           /\ q[1].last => n > 0 /\ Stream(Tail(q), Tail(bs), 0, p1, n - 1)
           /\ ~q[1].last => p0 < bs[1].len /\ Stream(Tail(q), bs, p0 + 1, p1, n)
<1> DEFINE q2 == Tail(q)
           b2 == Tail(bs)
           k == Len(q)
<1>1. /\ k \in Nat \ {0} /\ Len(q2) = k - 1
      /\ \A i \in 1 .. k - 1 : q2[i] = q[i + 1]
  BY Popped
<1>2. PICK idx \in [1 .. k + 1 -> Int], pos \in [1 .. k + 1 -> Int] :
          Beats(idx, pos, q, bs, p0, p1, n)
  BY DEF Stream
<1>3. /\ n \in 0 .. Len(bs) /\ p0 \in Nat /\ p1 \in Nat /\ Len(bs) \in Nat
      /\ n < Len(bs) => p1 <= bs[n + 1].len
      /\ n = Len(bs) => p1 = 0
  BY LenProperties DEF Stream
<1>4. /\ idx[1] = 1 /\ pos[1] = p0 /\ idx[k + 1] = n + 1 /\ pos[k + 1] = p1
      /\ \A i, j \in 1 .. k + 1 : i <= j => idx[i] <= idx[j]
      /\ \A i \in 1 .. k :
            /\ idx[i] <= Len(bs) /\ q[i].burst = bs[idx[i]]
            /\ q[i].last <=> pos[i] = bs[idx[i]].len
            /\ idx[i + 1] = IF q[i].last THEN idx[i] + 1 ELSE idx[i]
            /\ pos[i + 1] = IF q[i].last THEN 0 ELSE pos[i] + 1
  BY <1>2 DEF Beats, k
<1>5. /\ 1 \in 1 .. k /\ 1 <= Len(bs) /\ q[1].burst = bs[1] /\ (q[1].last <=> p0 = bs[1].len)
      /\ idx[2] = (IF q[1].last THEN 2 ELSE 1) /\ pos[2] = (IF q[1].last THEN 0 ELSE p0 + 1)
  BY <1>1, <1>4
<1>6. bs # <<>>
  BY <1>3, <1>5, EmptySeq
<1>7. /\ Len(b2) = Len(bs) - 1
      /\ \A i \in 1 .. Len(bs) - 1 : b2[i] = bs[i + 1]
  BY <1>6, Popped
<1>8. ASSUME NEW i \in 1 .. k PROVE idx[2] <= idx[i + 1] /\ idx[i + 1] \in Int
  <2>1. 2 \in 1 .. k + 1 /\ i + 1 \in 1 .. k + 1 /\ 2 <= i + 1
    BY <1>1
  <2>2. QED
    BY <1>4, <2>1
<1>9a. \A i \in 1 .. k : i + 1 \in 1 .. k + 1 /\ idx[i + 1] \in Int /\ pos[i + 1] \in Int
  BY <1>1
<1> DEFINE j0 == [i \in 1 .. k |-> idx[i + 1]]
           j1 == [i \in 1 .. k |-> idx[i + 1] - 1]
           qos == [i \in 1 .. k |-> pos[i + 1]]
<1> HIDE DEF q2, b2
<1>9. /\ Len(q2) + 1 = k /\ k \in 1 .. k
      /\ j0 \in [1 .. k -> Int] /\ j1 \in [1 .. k -> Int] /\ qos \in [1 .. k -> Int]
      /\ \A i \in 1 .. k :
            /\ i + 1 \in 1 .. k + 1 /\ idx[i + 1] \in Int
            /\ j0[i] = idx[i + 1] /\ j1[i] = idx[i + 1] - 1 /\ qos[i] = pos[i + 1]
  BY <1>1, <1>9a
<1> HIDE DEF j0, j1, qos, k
<1>10. ASSUME NEW i \in 1 .. k - 1
       PROVE  /\ i \in 1 .. k /\ i + 1 \in 1 .. k /\ (i + 1) + 1 \in 1 .. k + 1 /\ q2[i] = q[i + 1]
              /\ idx[i + 1] <= Len(bs) /\ q2[i].burst = bs[idx[i + 1]]
              /\ q2[i].last <=> pos[i + 1] = bs[idx[i + 1]].len
              /\ idx[(i + 1) + 1] = IF q2[i].last THEN idx[i + 1] + 1 ELSE idx[i + 1]
              /\ pos[(i + 1) + 1] = IF q2[i].last THEN 0 ELSE pos[i + 1] + 1
  <2>1. i \in 1 .. k /\ i + 1 \in 1 .. k /\ (i + 1) + 1 \in 1 .. k + 1 /\ q2[i] = q[i + 1]
    BY <1>1
  <2>2. /\ idx[i + 1] <= Len(bs) /\ q[i + 1].burst = bs[idx[i + 1]]
        /\ q[i + 1].last <=> pos[i + 1] = bs[idx[i + 1]].len
        /\ idx[(i + 1) + 1] = IF q[i + 1].last THEN idx[i + 1] + 1 ELSE idx[i + 1]
        /\ pos[(i + 1) + 1] = IF q[i + 1].last THEN 0 ELSE pos[i + 1] + 1
    BY <1>4, <2>1
  <2>3. QED
    BY <2>1, <2>2
<1>11. ASSUME NEW i \in 1 .. k, NEW j \in 1 .. k, i <= j
       PROVE  j0[i] <= j0[j] /\ j1[i] <= j1[j]
  <2>1. i + 1 \in 1 .. k + 1 /\ j + 1 \in 1 .. k + 1 /\ i + 1 <= j + 1
    BY <1>1, <1>11
  <2>2. idx[i + 1] <= idx[j + 1] /\ idx[i + 1] \in Int /\ idx[j + 1] \in Int
    BY <1>4, <2>1
  <2>3. QED
    BY <1>9, <2>2
<1>12. ASSUME ~q[1].last PROVE p0 < bs[1].len /\ Stream(q2, bs, p0 + 1, p1, n)
  <2>1. j0[1] = 1 /\ qos[1] = p0 + 1 /\ j0[k] = n + 1 /\ qos[k] = p1
    <3>1. j0[1] = idx[1 + 1] /\ qos[1] = pos[1 + 1] /\ j0[k] = idx[k + 1] /\ qos[k] = pos[k + 1]
      BY <1>5, <1>9
    <3>2. QED
      BY <1>4, <1>5, <1>12, <3>1
  <2>2. ASSUME NEW i \in 1 .. k - 1
        PROVE  /\ j0[i] <= Len(bs) /\ q2[i].burst = bs[j0[i]]
               /\ q2[i].last <=> qos[i] = bs[j0[i]].len
               /\ j0[i + 1] = IF q2[i].last THEN j0[i] + 1 ELSE j0[i]
               /\ qos[i + 1] = IF q2[i].last THEN 0 ELSE qos[i] + 1
    <3>1. /\ j0[i] = idx[i + 1] /\ qos[i] = pos[i + 1]
          /\ j0[i + 1] = idx[(i + 1) + 1] /\ qos[i + 1] = pos[(i + 1) + 1]
      BY <1>9, <1>10
    <3>2. QED
      BY <1>10, <3>1
  <2>3. Beats(j0, qos, q2, bs, p0 + 1, p1, n)
    BY <1>1, <1>9, <1>11, <2>1, <2>2 DEF Beats
  <2>4. p0 + 1 \in Nat /\ j0 \in [1 .. Len(q2) + 1 -> Int] /\ qos \in [1 .. Len(q2) + 1 -> Int]
    BY <1>3, <1>9
  <2>5. \E ix, po \in [1 .. Len(q2) + 1 -> Int] : Beats(ix, po, q2, bs, p0 + 1, p1, n)
    BY <2>3, <2>4, Zenon
  <2>6. bs[1].len \in Nat
    BY <1>3, <1>5, BurstFields
  <2>7. p0 <= bs[1].len
    BY <1>6 DEF Stream
  <2>8. p0 < bs[1].len /\ p0 + 1 <= bs[1].len
    BY <1>3, <1>5, <1>12, <2>6, <2>7
  <2>9. QED
    BY <1>3, <1>6, <2>4, <2>5, <2>8 DEF Stream
<1>13. ASSUME q[1].last PROVE n > 0 /\ Stream(q2, b2, 0, p1, n - 1)
  <2>1. n > 0
    <3>1. idx[2] = 2 /\ idx[2] <= idx[k + 1]
      BY <1>5, <1>8, <1>9, <1>13
    <3>2. QED
      BY <1>3, <1>4, <3>1
  <2>2. j1[1] = 1 /\ qos[1] = 0 /\ j1[k] = (n - 1) + 1 /\ qos[k] = p1
    <3>1. j1[1] = idx[1 + 1] - 1 /\ qos[1] = pos[1 + 1] /\ j1[k] = idx[k + 1] - 1 /\ qos[k] = pos[k + 1]
      BY <1>5, <1>9
    <3>2. QED
      BY <1>3, <1>4, <1>5, <1>13, <3>1
  <2>3. ASSUME NEW i \in 1 .. k - 1
        PROVE  /\ j1[i] <= Len(b2) /\ q2[i].burst = b2[j1[i]]
               /\ q2[i].last <=> qos[i] = b2[j1[i]].len
               /\ j1[i + 1] = IF q2[i].last THEN j1[i] + 1 ELSE j1[i]
               /\ qos[i + 1] = IF q2[i].last THEN 0 ELSE qos[i] + 1
    <3>1. /\ j1[i] = idx[i + 1] - 1 /\ qos[i] = pos[i + 1]
          /\ j1[i + 1] = idx[(i + 1) + 1] - 1 /\ qos[i + 1] = pos[(i + 1) + 1]
      BY <1>9, <1>10
    <3>2. idx[2] = 2 /\ i \in 1 .. k
      BY <1>5, <1>10, <1>13
    <3>3. 2 <= idx[i + 1] /\ idx[i + 1] \in Int
      BY <1>8, <3>2
    <3>4. j1[i] \in 1 .. Len(bs) - 1 /\ j1[i] + 1 = idx[i + 1]
      <4>1. idx[i + 1] <= Len(bs)
        BY <1>10
      <4>2. PICK v \in Int : v = idx[i + 1]
        BY <3>3
      <4>3. 2 <= v /\ v <= Len(bs) /\ j1[i] = v - 1 /\ Len(bs) \in Nat
        BY <1>3, <3>1, <3>3, <4>1, <4>2
      <4>4. v - 1 \in 1 .. Len(bs) - 1 /\ (v - 1) + 1 = v
        BY <4>3
      <4>5. QED
        BY <4>2, <4>3, <4>4
    <3>5. b2[j1[i]] = bs[idx[i + 1]]
      BY <1>7, <3>4
    <3>6. QED
      BY <1>3, <1>7, <1>10, <3>1, <3>3, <3>4, <3>5
  <2>4. Beats(j1, qos, q2, b2, 0, p1, n - 1)
    BY <1>1, <1>9, <1>11, <2>2, <2>3 DEF Beats
  <2>5. /\ n - 1 \in 0 .. Len(b2)
        /\ n - 1 < Len(b2) => p1 <= b2[(n - 1) + 1].len
        /\ n - 1 = Len(b2) => p1 = 0
    <3>1. CASE n < Len(bs)
      <4>1. n \in 1 .. Len(bs) - 1 /\ (n - 1) + 1 = n
        BY <1>3, <2>1, <3>1
      <4>2. b2[n] = bs[n + 1] /\ p1 <= bs[n + 1].len
        BY <1>3, <1>7, <3>1, <4>1
      <4>3. QED
        BY <1>3, <1>7, <3>1, <4>1, <4>2
    <3>2. CASE n = Len(bs)
      BY <1>3, <1>7, <2>1, <3>2
    <3>3. QED
      BY <1>3, <3>1, <3>2
  <2>6. \E ix, po \in [1 .. Len(q2) + 1 -> Int] : Beats(ix, po, q2, b2, 0, p1, n - 1)
    BY <1>9, <2>4
  <2>7. 0 <= IF b2 = <<>> THEN 0 ELSE b2[1].len
    <3>1. CASE b2 # <<>>
      <4>1. Len(b2) > 0
        BY <1>6, <3>1, EmptySeq, LenProperties DEF b2
      <4>2. b2[1] = bs[1 + 1] /\ 1 + 1 \in 1 .. Len(bs)
        BY <1>3, <1>7, <4>1
      <4>3. QED
        BY <4>2, BurstFields
    <3>2. QED
      BY <3>1
  <2>8. QED
    BY <1>3, <2>1, <2>5, <2>6, <2>7 DEF Stream
<1>14. QED
  BY <1>5, <1>6, <1>12, <1>13 DEF q2, b2

\* The smaller one of two numbers.
LEMMA MinOfTwo ==
    ASSUME NEW a \in Nat, NEW b \in Nat, a <= b
    PROVE  Min({a, b}) = a
<1>1. PICK x : x = Min({a, b})
  OBVIOUS
<1>2. x \in {a, b} /\ \A y \in {a, b} : x <= y
  <2>1. \E z \in {a, b} : \A y \in {a, b} : z <= y
    OBVIOUS
  <2>2. QED
    BY <1>1, <2>1 DEF Min
<1>3. x = a
  BY <1>2
<1>4. QED
  BY <1>1, <1>3

\* As many beats before a beat end a burst as bursts come before its own.
LEMMA BurstOfBeat ==
    ASSUME NEW S, NEW q \in Seq(S), NEW bs, NEW p0, NEW p1, NEW n, Stream(q, bs, p0, p1, n),
           NEW i \in 1 .. Len(q)
    PROVE  q[i].burst = bs[Cardinality({k \in 1 .. i - 1 : q[k].last}) + 1]
<1> DEFINE Ends(j) == {k \in 1 .. j : q[k].last}
<1>1. PICK idx \in [1 .. Len(q) + 1 -> Int], pos \in [1 .. Len(q) + 1 -> Int] :
          Beats(idx, pos, q, bs, p0, p1, n)
  BY DEF Stream
<1>2. Len(q) \in Nat
  BY LenProperties
<1> DEFINE Good == {j \in 0 .. Len(q) : IsFiniteSet(Ends(j)) /\ Cardinality(Ends(j)) = idx[j + 1] - 1}
<1>3. 0 \in Good
  <2>1. Ends(0) = {}
    OBVIOUS
  <2>2. idx[0 + 1] - 1 = 0
    BY <1>1 DEF Beats
  <2> HIDE DEF Ends
  <2>3. IsFiniteSet(Ends(0)) /\ Cardinality(Ends(0)) = 0
    BY <2>1, FS_EmptySet, Zenon
  <2>4. QED
    BY <1>2, <2>2, <2>3
<1>4. ASSUME NEW j \in 1 .. Len(q), j - 1 \in Good PROVE j \in Good
  <2>1. /\ idx[j + 1] = IF q[j].last THEN idx[j] + 1 ELSE idx[j]
        /\ idx[j] \in Int /\ (j - 1) + 1 = j
    BY <1>1, <1>2 DEF Beats
  <2>2. IsFiniteSet(Ends(j - 1)) /\ Cardinality(Ends(j - 1)) = idx[j] - 1
    BY <1>4, <2>1
  <2>3. CASE q[j].last
    <3>1. Ends(j) = Ends(j - 1) \cup {j} /\ j \notin Ends(j - 1)
      BY <1>2, <2>3
    <3> HIDE DEF Ends
    <3>2. IsFiniteSet(Ends(j)) /\ Cardinality(Ends(j)) = Cardinality(Ends(j - 1)) + 1
      <4>1. PICK E : E = Ends(j - 1)
        OBVIOUS
      <4>2. IsFiniteSet(E \cup {j}) /\ Cardinality(E \cup {j}) = Cardinality(E) + 1
        BY <2>2, <3>1, <4>1, FS_AddElement
      <4>3. QED
        BY <3>1, <4>1, <4>2
    <3>3. Cardinality(Ends(j)) = idx[j + 1] - 1
      BY <2>1, <2>2, <2>3, <3>2
    <3>4. QED
      BY <1>2, <3>2, <3>3
  <2>4. CASE ~q[j].last
    <3>1. Ends(j) = Ends(j - 1)
      BY <1>2, <2>4
    <3> HIDE DEF Ends
    <3>2. QED
      BY <1>2, <2>1, <2>2, <2>4, <3>1
  <2>5. QED
    BY <2>3, <2>4
<1>5. i - 1 \in Good
  <2> HIDE DEF Good
  <2>1. 0 .. Len(q) \subseteq Good
    BY <1>2, <1>3, <1>4, IntervalInduction
  <2>2. QED
    BY <1>2, <2>1
<1>6. Cardinality(Ends(i - 1)) + 1 = idx[i]
  <2>1. (i - 1) + 1 = i /\ idx[i] \in Int
    BY <1>1, <1>2
  <2> HIDE DEF Ends
  <2>2. QED
    BY <1>5, <2>1
<1>7. q[i].burst = bs[idx[i]]
  BY <1>1 DEF Beats
<1>8. QED
  BY <1>6, <1>7
-----------------------------------------------------------------------------
(* What a queue ends with: of asked, the first ones are done, then come     *)
(* those in sent, then those in rest.                                       *)

Done(asked, sent, rest) == Len(asked) - Len(sent) - Len(rest)

Split(asked, sent, rest) ==
    LET d == Done(asked, sent, rest)
    IN  /\ d >= 0
        /\ \A i \in 1 .. Len(sent) : asked[d + i] = sent[i]
        /\ \A i \in 1 .. Len(rest) : asked[d + Len(sent) + i] = rest[i]

LEMMA SplitAsk ==
    ASSUME NEW S, NEW asked \in Seq(S), NEW sent \in Seq(S), NEW rest \in Seq(S), NEW b \in S,
           Split(asked, sent, rest)
    PROVE  /\ Split(Append(asked, b), sent, Append(rest, b))
           /\ Done(Append(asked, b), sent, Append(rest, b)) = Done(asked, sent, rest)
<1> DEFINE a2 == Append(asked, b)
           r2 == Append(rest, b)
           d == Done(asked, sent, rest)
<1>1. /\ Len(asked) \in Nat /\ Len(a2) = Len(asked) + 1
      /\ \A i \in 1 .. Len(asked) : a2[i] = asked[i]
      /\ a2[Len(asked) + 1] = b
  BY Appended
<1>2. /\ Len(rest) \in Nat /\ Len(r2) = Len(rest) + 1
      /\ \A i \in 1 .. Len(rest) : r2[i] = rest[i]
      /\ r2[Len(rest) + 1] = b
  BY Appended
<1>3. Len(sent) \in Nat
  BY LenProperties
<1> HIDE DEF a2, r2
<1>4. d \in Nat /\ Len(asked) = d + Len(sent) + Len(rest) /\ Done(a2, sent, r2) = d
  BY <1>1, <1>2, <1>3 DEF Split, Done
<1>5. ASSUME NEW i \in 1 .. Len(sent) PROVE a2[d + i] = sent[i]
  <2>1. asked[d + i] = sent[i]
    BY DEF Split
  <2>2. d + i \in 1 .. Len(asked)
    BY <1>2, <1>3, <1>4
  <2>3. QED
    BY <1>1, <2>1, <2>2
<1>6. ASSUME NEW i \in 1 .. Len(r2) PROVE a2[d + Len(sent) + i] = r2[i]
  <2>1. CASE i = Len(rest) + 1
    BY <1>1, <1>2, <1>3, <1>4, <2>1
  <2>2. CASE i \in 1 .. Len(rest)
    <3>1. asked[d + Len(sent) + i] = rest[i]
      BY <2>2 DEF Split
    <3>2. d + Len(sent) + i \in 1 .. Len(asked)
      BY <1>2, <1>3, <1>4, <2>2
    <3>3. QED
      BY <1>1, <1>2, <2>2, <3>1, <3>2
  <2>3. QED
    BY <1>2, <2>1, <2>2
<1>7. Split(a2, sent, r2)
  BY <1>4, <1>5, <1>6 DEF Split
<1>8. QED
  BY <1>4, <1>7 DEF a2, r2

LEMMA SplitPass ==
    ASSUME NEW S, NEW asked \in Seq(S), NEW sent \in Seq(S), NEW rest \in Seq(S),
           Split(asked, sent, rest), rest # <<>>
    PROVE  /\ Split(asked, Append(sent, Head(rest)), Tail(rest))
           /\ Done(asked, Append(sent, Head(rest)), Tail(rest)) = Done(asked, sent, rest)
<1> DEFINE b == Head(rest)
           s2 == Append(sent, b)
           r2 == Tail(rest)
           d == Done(asked, sent, rest)
<1>1. /\ b \in S /\ b = rest[1] /\ Len(rest) \in Nat \ {0} /\ Len(r2) = Len(rest) - 1
      /\ \A i \in 1 .. Len(rest) - 1 : r2[i] = rest[i + 1]
  BY Popped
<1>2. /\ Len(sent) \in Nat /\ Len(s2) = Len(sent) + 1
      /\ \A i \in 1 .. Len(sent) : s2[i] = sent[i]
      /\ s2[Len(sent) + 1] = b
  BY <1>1, Appended
<1>3. Len(asked) \in Nat
  BY LenProperties
<1> HIDE DEF s2, r2, b
<1>4. d \in Nat /\ Done(asked, s2, r2) = d
  BY <1>1, <1>2, <1>3 DEF Split, Done
<1>5. ASSUME NEW i \in 1 .. Len(s2) PROVE asked[d + i] = s2[i]
  <2>1. CASE i = Len(sent) + 1
    <3>1. asked[d + Len(sent) + 1] = rest[1]
      BY <1>1 DEF Split
    <3>2. d + Len(sent) + 1 = d + i
      BY <1>2, <1>4, <2>1
    <3>3. QED
      BY <1>1, <1>2, <2>1, <3>1, <3>2
  <2>2. CASE i \in 1 .. Len(sent)
    BY <1>2, <2>2 DEF Split
  <2>3. QED
    BY <1>2, <2>1, <2>2
<1>6. ASSUME NEW i \in 1 .. Len(r2) PROVE asked[d + Len(s2) + i] = r2[i]
  <2>1. i + 1 \in 1 .. Len(rest) /\ d + Len(s2) + i = d + Len(sent) + (i + 1)
    <3>1. PICK e \in Nat : e = d
      BY <1>4
    <3>2. i \in Nat /\ i + 1 \in 1 .. Len(rest)
      BY <1>1
    <3>3. e + Len(s2) + i = e + Len(sent) + (i + 1)
      BY <1>2, <3>2
    <3>4. QED
      BY <3>1, <3>2, <3>3
  <2>2. asked[d + Len(sent) + (i + 1)] = rest[i + 1]
    BY <2>1 DEF Split
  <2>3. QED
    BY <1>1, <2>1, <2>2
<1>7. Split(asked, s2, r2)
  BY <1>4, <1>5, <1>6 DEF Split
<1>8. QED
  BY <1>4, <1>7 DEF s2, r2, b

LEMMA SplitDone ==
    ASSUME NEW S, NEW asked \in Seq(S), NEW sent \in Seq(S), NEW rest \in Seq(S),
           Split(asked, sent, rest), sent # <<>>
    PROVE  /\ Done(asked, sent, rest) < Len(asked)
           /\ asked[Done(asked, sent, rest) + 1] = sent[1]
           /\ Split(asked, Tail(sent), rest)
           /\ Done(asked, Tail(sent), rest) = Done(asked, sent, rest) + 1
<1> DEFINE s2 == Tail(sent)
           d == Done(asked, sent, rest)
<1>1. /\ Len(sent) \in Nat \ {0} /\ Len(s2) = Len(sent) - 1
      /\ \A i \in 1 .. Len(sent) - 1 : s2[i] = sent[i + 1]
  BY Popped
<1>2. Len(asked) \in Nat /\ Len(rest) \in Nat
  BY LenProperties
<1> HIDE DEF s2
<1>3. d \in Nat /\ Done(asked, s2, rest) = d + 1 /\ d < Len(asked)
  BY <1>1, <1>2 DEF Split, Done
<1>4. asked[d + 1] = sent[1]
  BY <1>1 DEF Split
<1>5. ASSUME NEW i \in 1 .. Len(s2) PROVE asked[(d + 1) + i] = s2[i]
  <2>1. i + 1 \in 1 .. Len(sent) /\ (d + 1) + i = d + (i + 1)
    BY <1>1, <1>3
  <2>2. QED
    BY <1>1, <2>1 DEF Split
<1>6. ASSUME NEW i \in 1 .. Len(rest) PROVE asked[(d + 1) + Len(s2) + i] = rest[i]
  <2>1. (d + 1) + Len(s2) + i = d + Len(sent) + i
    BY <1>1, <1>2, <1>3
  <2>2. QED
    BY <2>1 DEF Split
<1>7. Split(asked, s2, rest)
  BY <1>3, <1>5, <1>6 DEF Split
<1>8. QED
  BY <1>3, <1>4, <1>7 DEF s2

LEMMA SplitTake ==
    ASSUME NEW S, NEW asked \in Seq(S), NEW sent \in Seq(S), NEW rest \in Seq(S),
           Split(asked, sent, rest), Done(asked, sent, rest) > 0
    PROVE  /\ asked # <<>>
           /\ Split(Tail(asked), sent, rest)
           /\ Done(Tail(asked), sent, rest) = Done(asked, sent, rest) - 1
<1> DEFINE a2 == Tail(asked)
           d == Done(asked, sent, rest)
<1>1. Len(asked) \in Nat /\ Len(sent) \in Nat /\ Len(rest) \in Nat
  BY LenProperties
<1>2. asked # <<>>
  BY <1>1, EmptySeq DEF Done
<1>3. /\ Len(a2) = Len(asked) - 1
      /\ \A i \in 1 .. Len(asked) - 1 : a2[i] = asked[i + 1]
  BY <1>2, Popped
<1> HIDE DEF a2
<1>4. d \in Nat \ {0} /\ Len(asked) = d + Len(sent) + Len(rest) /\ Done(a2, sent, rest) = d - 1
  BY <1>1, <1>3 DEF Done
<1>5. ASSUME NEW i \in 1 .. Len(sent) PROVE a2[(d - 1) + i] = sent[i]
  <2>1. (d - 1) + i \in 1 .. Len(asked) - 1 /\ ((d - 1) + i) + 1 = d + i
    BY <1>1, <1>4
  <2>2. QED
    BY <1>3, <2>1 DEF Split
<1>6. ASSUME NEW i \in 1 .. Len(rest) PROVE a2[(d - 1) + Len(sent) + i] = rest[i]
  <2>1. /\ (d - 1) + Len(sent) + i \in 1 .. Len(asked) - 1
        /\ ((d - 1) + Len(sent) + i) + 1 = d + Len(sent) + i
    BY <1>1, <1>4
  <2>2. QED
    BY <1>3, <2>1 DEF Split
<1>7. Split(a2, sent, rest)
  BY <1>4, <1>5, <1>6 DEF Split
<1>8. QED
  BY <1>2, <1>4, <1>7 DEF a2

LEMMA SplitAskNone ==
    ASSUME NEW S, NEW asked \in Seq(S), NEW rest \in Seq(S), NEW b \in S,
           Split(asked, <<>>, rest)
    PROVE  /\ Split(Append(asked, b), <<>>, Append(rest, b))
           /\ Done(Append(asked, b), <<>>, Append(rest, b)) = Done(asked, <<>>, rest)
<1>1. PICK e : e = <<>>
  OBVIOUS
<1>2. e \in Seq(S) /\ Split(asked, e, rest)
  BY <1>1, EmptySeq
<1>3. /\ Split(Append(asked, b), e, Append(rest, b))
      /\ Done(Append(asked, b), e, Append(rest, b)) = Done(asked, e, rest)
  BY <1>2, SplitAsk
<1>4. QED
  BY <1>1, <1>3

LEMMA SplitTakeNone ==
    ASSUME NEW S, NEW asked \in Seq(S), NEW rest \in Seq(S),
           Split(asked, <<>>, rest), Done(asked, <<>>, rest) > 0
    PROVE  /\ Split(Tail(asked), <<>>, rest)
           /\ Done(Tail(asked), <<>>, rest) = Done(asked, <<>>, rest) - 1
<1>1. PICK e : e = <<>>
  OBVIOUS
<1>2. e \in Seq(S) /\ Split(asked, e, rest) /\ Done(asked, e, rest) > 0
  BY <1>1, EmptySeq
<1>3. Split(Tail(asked), e, rest) /\ Done(Tail(asked), e, rest) = Done(asked, e, rest) - 1
  BY <1>2, SplitTake
<1>4. QED
  BY <1>1, <1>3

\* The first one of the rest is done.
LEMMA SplitRest ==
    ASSUME NEW S, NEW asked \in Seq(S), NEW rest \in Seq(S),
           Split(asked, <<>>, rest), rest # <<>>
    PROVE  /\ Done(asked, <<>>, rest) < Len(asked)
           /\ asked[Done(asked, <<>>, rest) + 1] = Head(rest)
           /\ Split(asked, <<>>, Tail(rest))
           /\ Done(asked, <<>>, Tail(rest)) = Done(asked, <<>>, rest) + 1
<1> DEFINE r2 == Tail(rest)
           d == Done(asked, <<>>, rest)
<1>1. /\ Head(rest) = rest[1] /\ Len(rest) \in Nat \ {0} /\ Len(r2) = Len(rest) - 1
      /\ \A i \in 1 .. Len(rest) - 1 : r2[i] = rest[i + 1]
  BY Popped
<1>2. Len(asked) \in Nat /\ Len(<<>>) = 0
  BY LenProperties, EmptySeq
<1> HIDE DEF r2
<1>3. d \in Nat /\ Done(asked, <<>>, r2) = d + 1 /\ d < Len(asked)
  BY <1>1, <1>2 DEF Split, Done
<1>4. ASSUME NEW i \in 1 .. Len(rest) PROVE asked[d + i] = rest[i]
  <2>1. d + Len(<<>>) + i = d + i
    BY <1>2, <1>3
  <2>2. QED
    BY <2>1 DEF Split
<1>5. asked[d + 1] = Head(rest)
  BY <1>1, <1>4
<1>6. ASSUME NEW i \in 1 .. Len(r2) PROVE asked[(d + 1) + Len(<<>>) + i] = r2[i]
  <2>1. i + 1 \in 1 .. Len(rest) /\ (d + 1) + Len(<<>>) + i = d + (i + 1)
    BY <1>1, <1>2, <1>3
  <2>2. asked[d + (i + 1)] = rest[i + 1]
    BY <1>4, <2>1
  <2>3. QED
    BY <1>1, <2>1, <2>2
<1>7. Split(asked, <<>>, r2)
  BY <1>2, <1>3, <1>6 DEF Split
<1>8. QED
  BY <1>3, <1>5, <1>7 DEF r2

LEMMA SplitEmpty == Split(<<>>, <<>>, <<>>) /\ Done(<<>>, <<>>, <<>>) = 0
<1>1. Len(<<>>) = 0
  BY EmptySeq
<1>2. Done(<<>>, <<>>, <<>>) = 0
  <2>1. \A n \in Nat : n = 0 => n - n - n = 0
    OBVIOUS
  <2>2. Len(<<>>) \in Nat /\ Len(<<>>) = 0
    BY <1>1
  <2>3. Len(<<>>) - Len(<<>>) - Len(<<>>) = 0
    BY <2>1, <2>2, Zenon
  <2>4. QED
    BY <2>3 DEF Done
<1>3. QED
  BY <1>1, <1>2 DEF Split
-----------------------------------------------------------------------------
(* Notes of the fabric.  sent[m] are the bursts that the notes of master m  *)
(* stand for (f_wr_sjs, f_rd_sjs), at[s] those that the notes of slave s    *)
(* stand for (f_wr_mis, f_rd_mis).                                          *)

Linked(at, sent) ==
    /\ at \in [Slaves -> Seq(Bursts)] /\ sent \in [Masters -> Seq(Bursts)]
    /\ \A s \in Slaves : \A i \in 1 .. Len(at[s]) : at[s][i].to = s
    /\ \A m \in Masters, s \in Slaves : Match(at[s], sent[m], m, s)

LEMMA SlaveNumbers == NoSlave \notin Slaves /\ Slaves \subseteq 0 .. NumSlaves /\ NoSlave \in 0 .. NumSlaves
BY FabricAssumption DEF Slaves, NoSlave

LEMMA LinkedEmpty == Linked(EmptyPer(Slaves), EmptyPer(Masters))
<1>1. <<>> \in Seq(Bursts) /\ Len(<<>>) = 0
  BY EmptySeq
<1>2. QED
  BY <1>1, MatchEmpty DEF Linked, EmptyPer

LEMMA LinkPass ==
    ASSUME NEW at, NEW sent, Linked(at, sent), NEW b \in Bursts,
           NEW m \in Masters, NEW s \in Slaves, b.master = m, b.to = s
    PROVE  Linked(Push(at, s, b), Push(sent, m, b))
<1> DEFINE a2 == Push(at, s, b)
           s2 == Push(sent, m, b)
<1>0. at \in [Slaves -> Seq(Bursts)] /\ sent \in [Masters -> Seq(Bursts)]
  BY DEF Linked
<1>1. /\ a2 \in [Slaves -> Seq(Bursts)] /\ a2[s] = Append(at[s], b)
      /\ \A j \in Slaves \ {s} : a2[j] = at[j]
  <2>1. Append(at[s], b) \in Seq(Bursts)
    BY <1>0, Appended
  <2>2. QED
    BY <1>0, <2>1 DEF Push
<1>2. /\ s2 \in [Masters -> Seq(Bursts)] /\ s2[m] = Append(sent[m], b)
      /\ \A j \in Masters \ {m} : s2[j] = sent[j]
  <2>1. Append(sent[m], b) \in Seq(Bursts)
    BY <1>0, Appended
  <2>2. QED
    BY <1>0, <2>1 DEF Push
<1> HIDE DEF a2, s2
<1>3. ASSUME NEW j \in Slaves, NEW i \in 1 .. Len(a2[j]) PROVE a2[j][i].to = j
  <2>1. CASE j = s
    <3>1. at[s] \in Seq(Bursts)
      BY DEF Linked
    <3>2. /\ Len(at[s]) \in Nat /\ Len(a2[s]) = Len(at[s]) + 1
          /\ \A k \in 1 .. Len(at[s]) : a2[s][k] = at[s][k]
          /\ a2[s][Len(at[s]) + 1] = b
      BY <1>1, <3>1, Appended
    <3>3. QED
      BY <2>1, <3>2 DEF Linked
  <2>2. CASE j # s
    BY <1>1, <2>2 DEF Linked
  <2>3. QED
    BY <2>1, <2>2
<1>4. ASSUME NEW m2 \in Masters, NEW s3 \in Slaves PROVE Match(a2[s3], s2[m2], m2, s3)
  <2>1. Match(at[s3], sent[m2], m2, s3) /\ at[s3] \in Seq(Bursts) /\ sent[m2] \in Seq(Bursts)
    BY DEF Linked
  <2>2. CASE s3 = s /\ m2 = m
    <3>1. at[s] \in Seq(Bursts) /\ sent[m] \in Seq(Bursts) /\ Match(at[s], sent[m], b.master, s)
      BY <2>1, <2>2
    <3>2. Match(Append(at[s], b), Append(sent[m], b), b.master, s)
      BY <3>1, MatchAppend
    <3>3. QED
      BY <1>1, <1>2, <2>2, <3>2
  <2>3. CASE s3 = s /\ m2 # m
    <3>1. Match(Append(at[s], b), sent[m2], m2, s)
      BY <2>1, <2>3, MatchAppendAt
    <3>2. QED
      BY <1>1, <1>2, <2>3, <3>1
  <2>4. CASE s3 # s /\ m2 = m
    <3>1. Match(at[s3], Append(sent[m], b), m, s3)
      BY <2>1, <2>4, MatchAppendSent
    <3>2. QED
      BY <1>1, <1>2, <2>4, <3>1
  <2>5. CASE s3 # s /\ m2 # m
    BY <1>1, <1>2, <2>1, <2>5
  <2>6. QED
    BY <2>2, <2>3, <2>4, <2>5
<1>5. QED
  BY <1>1, <1>2, <1>3, <1>4 DEF Linked, a2, s2

LEMMA LinkNone ==
    ASSUME NEW at, NEW sent, Linked(at, sent), NEW b \in Bursts,
           NEW m \in Masters, b.to = NoSlave
    PROVE  Linked(at, Push(sent, m, b))
<1> DEFINE s2 == Push(sent, m, b)
<1>0. at \in [Slaves -> Seq(Bursts)] /\ sent \in [Masters -> Seq(Bursts)]
  BY DEF Linked
<1>1. /\ s2 \in [Masters -> Seq(Bursts)] /\ s2[m] = Append(sent[m], b)
      /\ \A j \in Masters \ {m} : s2[j] = sent[j]
  <2>1. Append(sent[m], b) \in Seq(Bursts)
    BY <1>0, Appended
  <2>2. QED
    BY <1>0, <2>1 DEF Push
<1> HIDE DEF s2
<1>2. ASSUME NEW m2 \in Masters, NEW s \in Slaves PROVE Match(at[s], s2[m2], m2, s)
  <2>1. Match(at[s], sent[m2], m2, s) /\ at[s] \in Seq(Bursts) /\ sent[m2] \in Seq(Bursts)
    BY DEF Linked
  <2>2. b.to # s
    BY SlaveNumbers
  <2>3. CASE m2 = m
    BY <1>1, <2>1, <2>2, <2>3, MatchAppendSent
  <2>4. CASE m2 # m
    BY <1>1, <2>1, <2>4
  <2>5. QED
    BY <2>3, <2>4
<1>3. QED
  BY <1>1, <1>2 DEF Linked, s2

LEMMA LinkReturn ==
    ASSUME NEW at, NEW sent, Linked(at, sent), NEW m \in Masters, NEW s \in Slaves,
           at[s] # <<>>, at[s][1].master = m, sent[m] # <<>>, sent[m][1].to = s
    PROVE  at[s][1] = sent[m][1] /\ Linked(Pop(at, s), Pop(sent, m))
<1> DEFINE a2 == Pop(at, s)
           s2 == Pop(sent, m)
<1>0. at \in [Slaves -> Seq(Bursts)] /\ sent \in [Masters -> Seq(Bursts)]
  BY DEF Linked
<1>1. /\ a2 \in [Slaves -> Seq(Bursts)] /\ a2[s] = Tail(at[s])
      /\ \A j \in Slaves \ {s} : a2[j] = at[j]
  <2>1. Tail(at[s]) \in Seq(Bursts)
    BY <1>0, Popped
  <2>2. QED
    BY <1>0, <2>1 DEF Pop
<1>2. /\ s2 \in [Masters -> Seq(Bursts)] /\ s2[m] = Tail(sent[m])
      /\ \A j \in Masters \ {m} : s2[j] = sent[j]
  <2>1. Tail(sent[m]) \in Seq(Bursts)
    BY <1>0, Popped
  <2>2. QED
    BY <1>0, <2>1 DEF Pop
<1> HIDE DEF a2, s2
<1>3. ASSUME NEW j \in Slaves, NEW i \in 1 .. Len(a2[j]) PROVE a2[j][i].to = j
  <2>1. CASE j = s
    <3>1. at[s] \in Seq(Bursts)
      BY DEF Linked
    <3>2. /\ Len(at[s]) \in Nat /\ Len(a2[s]) = Len(at[s]) - 1
          /\ \A k \in 1 .. Len(at[s]) - 1 : a2[s][k] = at[s][k + 1]
      BY <1>1, <3>1, Popped
    <3>3. i + 1 \in 1 .. Len(at[s]) /\ a2[s][i] = at[s][i + 1]
      BY <2>1, <3>2
    <3>4. QED
      BY <2>1, <3>3 DEF Linked
  <2>2. CASE j # s
    BY <1>1, <2>2 DEF Linked
  <2>3. QED
    BY <2>1, <2>2
<1>4. ASSUME NEW m2 \in Masters, NEW s3 \in Slaves PROVE Match(a2[s3], s2[m2], m2, s3)
  <2>1. /\ Match(at[s3], sent[m2], m2, s3) /\ at[s3] \in Seq(Bursts) /\ sent[m2] \in Seq(Bursts)
        /\ \A i \in 1 .. Len(at[s3]) : at[s3][i].to = s3
    BY DEF Linked
  <2>2. CASE s3 = s /\ m2 = m
    <3>1. Match(Tail(at[s]), Tail(sent[m]), m, s)
      BY <2>1, <2>2, MatchPop
    <3>2. QED
      BY <1>1, <1>2, <2>2, <3>1
  <2>3. CASE s3 = s /\ m2 # m
    BY <1>1, <1>2, <2>1, <2>3, MatchPopAt
  <2>4. CASE s3 # s /\ m2 = m
    BY <1>1, <1>2, <2>1, <2>4, MatchPopSent
  <2>5. CASE s3 # s /\ m2 # m
    BY <1>1, <1>2, <2>1, <2>5
  <2>6. QED
    BY <2>2, <2>3, <2>4, <2>5
<1>5. at[s][1] = sent[m][1]
  <2>1. Match(at[s], sent[m], m, s) /\ at[s] \in Seq(Bursts) /\ sent[m] \in Seq(Bursts)
    BY DEF Linked
  <2>2. QED
    BY <2>1, MatchPop
<1>6. QED
  BY <1>1, <1>2, <1>3, <1>4, <1>5 DEF Linked, a2, s2

LEMMA LinkError ==
    ASSUME NEW at, NEW sent, Linked(at, sent), NEW m \in Masters,
           sent[m] # <<>>, sent[m][1].to = NoSlave
    PROVE  Linked(at, Pop(sent, m))
<1> DEFINE s2 == Pop(sent, m)
<1>0. at \in [Slaves -> Seq(Bursts)] /\ sent \in [Masters -> Seq(Bursts)]
  BY DEF Linked
<1>1. /\ s2 \in [Masters -> Seq(Bursts)] /\ s2[m] = Tail(sent[m])
      /\ \A j \in Masters \ {m} : s2[j] = sent[j]
  <2>1. Tail(sent[m]) \in Seq(Bursts)
    BY <1>0, Popped
  <2>2. QED
    BY <1>0, <2>1 DEF Pop
<1> HIDE DEF s2
<1>2. ASSUME NEW m2 \in Masters, NEW s \in Slaves PROVE Match(at[s], s2[m2], m2, s)
  <2>1. /\ Match(at[s], sent[m2], m2, s) /\ at[s] \in Seq(Bursts) /\ sent[m2] \in Seq(Bursts)
        /\ \A i \in 1 .. Len(at[s]) : at[s][i].to = s
    BY DEF Linked
  <2>2. NoSlave # s
    BY SlaveNumbers
  <2>3. CASE m2 = m
    BY <1>1, <2>1, <2>2, <2>3, MatchPopSent
  <2>4. CASE m2 # m
    BY <1>1, <2>1, <2>4
  <2>5. QED
    BY <2>3, <2>4
<1>3. QED
  BY <1>1, <1>2 DEF Linked, s2
-----------------------------------------------------------------------------
(* One master: asked are its bursts that are not answered, rest those still *)
(* in its address channel, sjs and err its notes.                           *)

MasterNotes(asked, sent, rest, sjs, err, m) ==
    /\ asked \in Seq(Bursts) /\ sent \in Seq(Bursts) /\ rest \in Seq(Bursts)
    /\ err \in Seq(Bursts) /\ sjs \in Seq(0 .. NumSlaves)
    /\ Split(asked, sent, rest)
    /\ \A i \in 1 .. Len(asked) : asked[i].master = m
    /\ Len(sjs) = Len(sent) /\ \A i \in 1 .. Len(sent) : sjs[i] = sent[i].to
    /\ \A i \in 1 .. Len(err) : err[i].master = m /\ err[i].to = NoSlave
    /\ Match(err, sent, m, NoSlave)

LEMMA NotesEmpty == \A m : MasterNotes(<<>>, <<>>, <<>>, <<>>, <<>>, m)
<1>1. Len(<<>>) = 0 /\ <<>> \in Seq(Bursts) /\ <<>> \in Seq(0 .. NumSlaves)
  BY EmptySeq
<1>2. QED
  BY <1>1, SplitEmpty, MatchEmpty DEF MasterNotes

LEMMA NotesAsk ==
    ASSUME NEW m, NEW asked, NEW sent, NEW rest, NEW sjs, NEW err,
           MasterNotes(asked, sent, rest, sjs, err, m), NEW b \in Bursts, b.master = m
    PROVE  /\ MasterNotes(Append(asked, b), sent, Append(rest, b), sjs, err, m)
           /\ Done(Append(asked, b), sent, Append(rest, b)) = Done(asked, sent, rest)
<1> DEFINE a2 == Append(asked, b)
           r2 == Append(rest, b)
<1>1. asked \in Seq(Bursts) /\ sent \in Seq(Bursts) /\ rest \in Seq(Bursts) /\ Split(asked, sent, rest)
  BY DEF MasterNotes
<1>2. Split(a2, sent, r2) /\ Done(a2, sent, r2) = Done(asked, sent, rest)
  BY <1>1, SplitAsk
<1>3. /\ a2 \in Seq(Bursts) /\ Len(asked) \in Nat /\ Len(a2) = Len(asked) + 1
      /\ \A i \in 1 .. Len(asked) : a2[i] = asked[i]
      /\ a2[Len(asked) + 1] = b
  BY <1>1, Appended
<1>4. r2 \in Seq(Bursts)
  BY <1>1, Appended
<1> HIDE DEF a2, r2
<1>5. \A i \in 1 .. Len(a2) : a2[i].master = m
  BY <1>3 DEF MasterNotes
<1>6. QED
  BY <1>2, <1>3, <1>4, <1>5 DEF MasterNotes, a2, r2

\* What is at the head of the address channel.
LEMMA NotesHead ==
    ASSUME NEW m, NEW asked, NEW sent, NEW rest, NEW sjs, NEW err,
           MasterNotes(asked, sent, rest, sjs, err, m), rest # <<>>
    PROVE  Head(rest) \in Bursts /\ Head(rest).master = m
<1>1. /\ asked \in Seq(Bursts) /\ sent \in Seq(Bursts) /\ rest \in Seq(Bursts)
      /\ Split(asked, sent, rest)
  BY DEF MasterNotes
<1>2. Head(rest) \in Bursts /\ Head(rest) = rest[1] /\ Len(rest) \in Nat \ {0}
  BY <1>1, Popped
<1>3. Len(asked) \in Nat /\ Len(sent) \in Nat
  BY <1>1, LenProperties
<1> DEFINE i == Done(asked, sent, rest) + Len(sent) + 1
<1>4. i \in 1 .. Len(asked)
  BY <1>1, <1>2, <1>3 DEF Split, Done
<1>5. asked[i] = rest[1]
  BY <1>1, <1>2 DEF Split
<1> HIDE DEF i
<1>6. QED
  BY <1>2, <1>4, <1>5 DEF MasterNotes

LEMMA NotesPass ==
    ASSUME NEW m, NEW asked, NEW sent, NEW rest, NEW sjs, NEW err,
           MasterNotes(asked, sent, rest, sjs, err, m), rest # <<>>,
           NEW s \in Slaves, Head(rest).to = s
    PROVE  /\ MasterNotes(asked, Append(sent, Head(rest)), Tail(rest), Append(sjs, s), err, m)
           /\ Done(asked, Append(sent, Head(rest)), Tail(rest)) = Done(asked, sent, rest)
<1> DEFINE b == Head(rest)
           s2 == Append(sent, b)
           r2 == Tail(rest)
           j2 == Append(sjs, s)
<1>1. /\ asked \in Seq(Bursts) /\ sent \in Seq(Bursts) /\ rest \in Seq(Bursts)
      /\ Split(asked, sent, rest) /\ sjs \in Seq(0 .. NumSlaves) /\ err \in Seq(Bursts)
      /\ Match(err, sent, m, NoSlave)
  BY DEF MasterNotes
<1>2. b \in Bursts /\ r2 \in Seq(Bursts)
  BY <1>1, Popped
<1>3. Split(asked, s2, r2) /\ Done(asked, s2, r2) = Done(asked, sent, rest)
  BY <1>1, SplitPass
<1>4. /\ s2 \in Seq(Bursts) /\ Len(sent) \in Nat /\ Len(s2) = Len(sent) + 1
      /\ \A i \in 1 .. Len(sent) : s2[i] = sent[i]
      /\ s2[Len(sent) + 1] = b
  BY <1>1, <1>2, Appended
<1>5. s \in 0 .. NumSlaves /\ s # NoSlave
  BY SlaveNumbers
<1>6. /\ j2 \in Seq(0 .. NumSlaves) /\ Len(sjs) \in Nat /\ Len(j2) = Len(sjs) + 1
      /\ \A i \in 1 .. Len(sjs) : j2[i] = sjs[i]
      /\ j2[Len(sjs) + 1] = s
  BY <1>1, <1>5, Appended
<1>7. Match(err, s2, m, NoSlave)
  BY <1>1, <1>2, <1>5, MatchAppendSent
<1> HIDE DEF s2, r2, j2
<1>8. Len(j2) = Len(s2) /\ \A i \in 1 .. Len(s2) : j2[i] = s2[i].to
  BY <1>4, <1>6 DEF MasterNotes
<1>9. QED
  BY <1>2, <1>3, <1>4, <1>6, <1>7, <1>8 DEF MasterNotes, s2, r2, j2

LEMMA NotesNone ==
    ASSUME NEW m, NEW asked, NEW sent, NEW rest, NEW sjs, NEW err,
           MasterNotes(asked, sent, rest, sjs, err, m), rest # <<>>, Head(rest).to = NoSlave
    PROVE  /\ MasterNotes(asked, Append(sent, Head(rest)), Tail(rest), Append(sjs, NoSlave),
                          Append(err, Head(rest)), m)
           /\ Done(asked, Append(sent, Head(rest)), Tail(rest)) = Done(asked, sent, rest)
<1> DEFINE b == Head(rest)
           s2 == Append(sent, b)
           r2 == Tail(rest)
           j2 == Append(sjs, NoSlave)
           e2 == Append(err, b)
<1>1. /\ asked \in Seq(Bursts) /\ sent \in Seq(Bursts) /\ rest \in Seq(Bursts)
      /\ Split(asked, sent, rest) /\ sjs \in Seq(0 .. NumSlaves) /\ err \in Seq(Bursts)
      /\ Match(err, sent, m, NoSlave)
  BY DEF MasterNotes
<1>2. b \in Bursts /\ r2 \in Seq(Bursts)
  BY <1>1, Popped
<1>3. Split(asked, s2, r2) /\ Done(asked, s2, r2) = Done(asked, sent, rest)
  BY <1>1, SplitPass
<1>4. /\ s2 \in Seq(Bursts) /\ Len(sent) \in Nat /\ Len(s2) = Len(sent) + 1
      /\ \A i \in 1 .. Len(sent) : s2[i] = sent[i]
      /\ s2[Len(sent) + 1] = b
  BY <1>1, <1>2, Appended
<1>5. /\ e2 \in Seq(Bursts) /\ Len(err) \in Nat /\ Len(e2) = Len(err) + 1
      /\ \A i \in 1 .. Len(err) : e2[i] = err[i]
      /\ e2[Len(err) + 1] = b
  BY <1>1, <1>2, Appended
<1>6. /\ j2 \in Seq(0 .. NumSlaves) /\ Len(sjs) \in Nat /\ Len(j2) = Len(sjs) + 1
      /\ \A i \in 1 .. Len(sjs) : j2[i] = sjs[i]
      /\ j2[Len(sjs) + 1] = NoSlave
  BY <1>1, SlaveNumbers, Appended
<1>7. b.master = m
  BY NotesHead
<1>8. Match(e2, s2, m, NoSlave)
  BY <1>1, <1>2, <1>7, MatchAppend
<1> HIDE DEF s2, r2, j2, e2, b
<1>9. Len(j2) = Len(s2) /\ \A i \in 1 .. Len(s2) : j2[i] = s2[i].to
  BY <1>4, <1>6 DEF MasterNotes, b
<1>10. ASSUME NEW i \in 1 .. Len(e2) PROVE e2[i].master = m /\ e2[i].to = NoSlave
  <2>1. CASE i = Len(err) + 1
    <3>1. b.to = NoSlave
      BY DEF b
    <3>2. QED
      BY <1>5, <1>7, <2>1, <3>1
  <2>2. CASE i \in 1 .. Len(err)
    BY <1>5, <2>2 DEF MasterNotes
  <2>3. QED
    BY <1>5, <2>1, <2>2
<1>11. QED
  BY <1>2, <1>3, <1>4, <1>5, <1>6, <1>8, <1>9, <1>10 DEF MasterNotes, s2, r2, j2, e2, b

\* The next one to be done is the first one of sent, and went where the first
\* note says.
OldestSent(asked, sent, rest, sjs) ==
    LET d == Done(asked, sent, rest)
    IN  /\ sent # <<>> /\ sent[1] \in Bursts /\ sent[1].to = Head(sjs)
        /\ d < Len(asked) /\ asked[d + 1] = sent[1]
        /\ Done(asked, Tail(sent), rest) = d + 1

\* The answer to the oldest burst, which went to a slave ...
LEMMA NotesReturn ==
    ASSUME NEW m, NEW asked, NEW sent, NEW rest, NEW sjs, NEW err,
           MasterNotes(asked, sent, rest, sjs, err, m), sjs # <<>>
    PROVE  /\ OldestSent(asked, sent, rest, sjs)
           /\ Head(sjs) \in Slaves => MasterNotes(asked, Tail(sent), rest, Tail(sjs), err, m)
<1> DEFINE s2 == Tail(sent)
           j2 == Tail(sjs)
<1>1. /\ asked \in Seq(Bursts) /\ sent \in Seq(Bursts) /\ rest \in Seq(Bursts)
      /\ Split(asked, sent, rest) /\ sjs \in Seq(0 .. NumSlaves) /\ err \in Seq(Bursts)
      /\ Match(err, sent, m, NoSlave)
      /\ Len(sjs) = Len(sent) /\ \A i \in 1 .. Len(sent) : sjs[i] = sent[i].to
      /\ \A i \in 1 .. Len(err) : err[i].to = NoSlave
  BY DEF MasterNotes
<1>2. /\ j2 \in Seq(0 .. NumSlaves) /\ Len(sjs) \in Nat \ {0} /\ Len(j2) = Len(sjs) - 1
      /\ \A i \in 1 .. Len(sjs) - 1 : j2[i] = sjs[i + 1]
      /\ Head(sjs) = sjs[1]
  BY <1>1, Popped
<1>3. sent # <<>>
  BY <1>1, <1>2, EmptySeq
<1>4. /\ s2 \in Seq(Bursts) /\ Len(s2) = Len(sent) - 1
      /\ \A i \in 1 .. Len(sent) - 1 : s2[i] = sent[i + 1]
      /\ sent[1] \in Bursts
  BY <1>1, <1>3, Popped
<1>5. sent[1].to = Head(sjs)
  BY <1>1, <1>2
<1>6. /\ Split(asked, s2, rest) /\ Done(asked, s2, rest) = Done(asked, sent, rest) + 1
      /\ Done(asked, sent, rest) < Len(asked)
      /\ asked[Done(asked, sent, rest) + 1] = sent[1]
  BY <1>1, <1>3, SplitDone
<1>7. Head(sjs) \in Slaves => Match(err, s2, m, NoSlave)
  BY <1>1, <1>3, <1>5, SlaveNumbers, MatchPopSent
<1> HIDE DEF s2, j2
<1>8. ASSUME NEW i \in 1 .. Len(s2) PROVE j2[i] = s2[i].to
  <2>1. i \in 1 .. Len(sent) - 1 /\ i + 1 \in 1 .. Len(sent)
    BY <1>1, <1>2, <1>4
  <2>2. QED
    BY <1>1, <1>2, <1>4, <2>1
<1>9. Len(j2) = Len(s2)
  BY <1>1, <1>2, <1>4
<1>10. ASSUME Head(sjs) \in Slaves PROVE MasterNotes(asked, s2, rest, j2, err, m)
  BY <1>2, <1>4, <1>6, <1>7, <1>8, <1>9, <1>10 DEF MasterNotes
<1>11. QED
  BY <1>3, <1>4, <1>5, <1>6, <1>10 DEF s2, j2, OldestSent

\* ... or to none.
ErrorNoted(asked, sent, rest, sjs, err, m) ==
    /\ Head(err) = sent[1]
    /\ MasterNotes(asked, Tail(sent), rest, Tail(sjs), Tail(err), m)

LEMMA NotesError ==
    ASSUME NEW m, NEW asked, NEW sent, NEW rest, NEW sjs, NEW err,
           MasterNotes(asked, sent, rest, sjs, err, m), sjs # <<>>, Head(sjs) = NoSlave, err # <<>>
    PROVE  ErrorNoted(asked, sent, rest, sjs, err, m)
<1> DEFINE s2 == Tail(sent)
           j2 == Tail(sjs)
           e2 == Tail(err)
<1>1. /\ asked \in Seq(Bursts) /\ sent \in Seq(Bursts) /\ rest \in Seq(Bursts)
      /\ Split(asked, sent, rest) /\ sjs \in Seq(0 .. NumSlaves) /\ err \in Seq(Bursts)
      /\ Match(err, sent, m, NoSlave)
      /\ Len(sjs) = Len(sent) /\ \A i \in 1 .. Len(sent) : sjs[i] = sent[i].to
      /\ \A i \in 1 .. Len(err) : err[i].to = NoSlave /\ err[i].master = m
  BY DEF MasterNotes
<1>2. /\ j2 \in Seq(0 .. NumSlaves) /\ Len(sjs) \in Nat \ {0} /\ Len(j2) = Len(sjs) - 1
      /\ \A i \in 1 .. Len(sjs) - 1 : j2[i] = sjs[i + 1]
      /\ Head(sjs) = sjs[1]
  BY <1>1, Popped
<1>3. sent # <<>> /\ sent[1].to = NoSlave
  BY <1>1, <1>2, EmptySeq
<1>4. /\ s2 \in Seq(Bursts) /\ Len(s2) = Len(sent) - 1
      /\ \A i \in 1 .. Len(sent) - 1 : s2[i] = sent[i + 1]
  BY <1>1, <1>3, Popped
<1>5. /\ e2 \in Seq(Bursts) /\ Head(err) = err[1] /\ Len(err) \in Nat \ {0} /\ Len(e2) = Len(err) - 1
      /\ \A i \in 1 .. Len(err) - 1 : e2[i] = err[i + 1]
  BY <1>1, Popped
<1>6. Split(asked, s2, rest)
  BY <1>1, <1>3, SplitDone
<1>7. err[1] = sent[1] /\ Match(e2, s2, m, NoSlave)
  <2>1. err[1].master = m
    BY <1>1, <1>5
  <2>2. QED
    BY <1>1, <1>3, <2>1, MatchPop
<1> HIDE DEF s2, j2, e2
<1>8. ASSUME NEW i \in 1 .. Len(s2) PROVE j2[i] = s2[i].to
  <2>1. i \in 1 .. Len(sent) - 1 /\ i + 1 \in 1 .. Len(sent)
    BY <1>1, <1>2, <1>4
  <2>2. QED
    BY <1>1, <1>2, <1>4, <2>1
<1>9. Len(j2) = Len(s2)
  BY <1>1, <1>2, <1>4
<1>10. ASSUME NEW i \in 1 .. Len(e2) PROVE e2[i].to = NoSlave /\ e2[i].master = m
  <2>1. i \in 1 .. Len(err) - 1 /\ i + 1 \in 1 .. Len(err)
    BY <1>5
  <2>2. QED
    BY <1>1, <1>5, <2>1
<1>11. MasterNotes(asked, s2, rest, j2, e2, m)
  BY <1>2, <1>4, <1>5, <1>6, <1>7, <1>8, <1>9, <1>10 DEF MasterNotes
<1>12. QED
  BY <1>5, <1>7, <1>11 DEF s2, j2, e2, ErrorNoted

\* The master takes an answer.
LEMMA NotesTake ==
    ASSUME NEW m, NEW asked, NEW sent, NEW rest, NEW sjs, NEW err,
           MasterNotes(asked, sent, rest, sjs, err, m), Done(asked, sent, rest) > 0
    PROVE  /\ MasterNotes(Tail(asked), sent, rest, sjs, err, m)
           /\ Done(Tail(asked), sent, rest) = Done(asked, sent, rest) - 1
<1> DEFINE a2 == Tail(asked)
<1>1. asked \in Seq(Bursts) /\ sent \in Seq(Bursts) /\ rest \in Seq(Bursts) /\ Split(asked, sent, rest)
  BY DEF MasterNotes
<1>2. /\ asked # <<>> /\ Split(a2, sent, rest)
      /\ Done(a2, sent, rest) = Done(asked, sent, rest) - 1
  BY <1>1, SplitTake
<1>3. /\ a2 \in Seq(Bursts) /\ Len(asked) \in Nat \ {0} /\ Len(a2) = Len(asked) - 1
      /\ \A i \in 1 .. Len(asked) - 1 : a2[i] = asked[i + 1]
  BY <1>1, <1>2, Popped
<1> HIDE DEF a2
<1>4. ASSUME NEW i \in 1 .. Len(a2) PROVE a2[i].master = m
  <2>1. i \in 1 .. Len(asked) - 1 /\ i + 1 \in 1 .. Len(asked)
    BY <1>3
  <2>2. QED
    BY <1>3, <2>1 DEF MasterNotes
<1>5. QED
  BY <1>2, <1>3, <1>4 DEF MasterNotes, a2
-----------------------------------------------------------------------------
(* Queues of answers: those in q are for the first n bursts of bs.          *)

Answers(q, bs, n) ==
    /\ n \in 0 .. Len(bs) /\ Len(q) = n
    /\ \A i \in 1 .. n : q[i].burst = bs[i]

LEMMA AnswersMore ==
    ASSUME NEW q, NEW bs \in Seq(Bursts), NEW n, Answers(q, bs, n), NEW b \in Bursts
    PROVE  Answers(q, Append(bs, b), n)
<1>1. /\ Len(bs) \in Nat /\ Len(Append(bs, b)) = Len(bs) + 1
      /\ \A i \in 1 .. Len(bs) : Append(bs, b)[i] = bs[i]
  BY Appended
<1>2. QED
  BY <1>1 DEF Answers

LEMMA AnswersAppend ==
    ASSUME NEW S, NEW q \in Seq(S), NEW x \in S, NEW bs \in Seq(Bursts), NEW n,
           Answers(q, bs, n), n < Len(bs), x.burst = bs[n + 1]
    PROVE  Answers(Append(q, x), bs, n + 1)
<1>1. /\ Len(q) \in Nat /\ Len(Append(q, x)) = Len(q) + 1
      /\ \A i \in 1 .. Len(q) : Append(q, x)[i] = q[i]
      /\ Append(q, x)[Len(q) + 1] = x
  BY Appended
<1>2. n = Len(q) /\ n + 1 \in 0 .. Len(bs)
  BY <1>1, LenProperties DEF Answers
<1>3. ASSUME NEW i \in 1 .. n + 1 PROVE Append(q, x)[i].burst = bs[i]
  <2>1. CASE i = n + 1
    BY <1>1, <1>2, <2>1
  <2>2. CASE i \in 1 .. n
    BY <1>1, <1>2, <2>2 DEF Answers
  <2>3. QED
    BY <1>1, <1>2, <2>1, <2>2
<1>4. QED
  BY <1>1, <1>2, <1>3 DEF Answers

LEMMA AnswersTail ==
    ASSUME NEW S, NEW q \in Seq(S), q # <<>>, NEW bs \in Seq(Bursts), NEW n, Answers(q, bs, n)
    PROVE  bs # <<>> /\ n > 0 /\ Head(q).burst = bs[1] /\ Answers(Tail(q), Tail(bs), n - 1)
<1>1. /\ Head(q) = q[1] /\ Len(q) \in Nat \ {0} /\ Len(Tail(q)) = Len(q) - 1
      /\ \A i \in 1 .. Len(q) - 1 : Tail(q)[i] = q[i + 1]
  BY Popped
<1>2. n = Len(q) /\ n \in 0 .. Len(bs) /\ Len(bs) \in Nat
  BY LenProperties DEF Answers
<1>3. bs # <<>>
  BY <1>1, <1>2, EmptySeq
<1>4. /\ Len(Tail(bs)) = Len(bs) - 1
      /\ \A i \in 1 .. Len(bs) - 1 : Tail(bs)[i] = bs[i + 1]
  BY <1>3, Popped
<1>5. ASSUME NEW i \in 1 .. n - 1 PROVE Tail(q)[i].burst = Tail(bs)[i]
  <2>1. i \in 1 .. Len(q) - 1 /\ i \in 1 .. Len(bs) - 1 /\ i + 1 \in 1 .. n
    BY <1>1, <1>2
  <2>2. q[i + 1].burst = bs[i + 1]
    BY <2>1 DEF Answers
  <2>3. QED
    BY <1>1, <1>4, <2>1, <2>2
<1>6. n > 0 /\ Head(q).burst = bs[1] /\ n - 1 \in 0 .. Len(Tail(bs)) /\ Len(Tail(q)) = n - 1
  BY <1>1, <1>2, <1>4 DEF Answers
<1>7. QED
  BY <1>3, <1>5, <1>6 DEF Answers
-----------------------------------------------------------------------------
(* The invariant of reads.                                                  *)

ReadBeats == [burst : Bursts, last : BOOLEAN, resp : {"OKAY", "DECERR", "SLVERR"}]
ReadNotes == [from : Masters, len : Nat]

ReadTypes ==
    /\ rg_reset \in BOOLEAN
    /\ asked_rd \in [Masters -> Seq(Bursts)] /\ rd_addr \in [Masters -> Seq(Bursts)]
    /\ rd_data \in [Masters -> Seq(ReadBeats)] /\ taken_rd \in [Masters -> Nat]
    /\ f_rd_sjs \in [Masters -> Seq(0 .. NumSlaves)] /\ f_rd_err_info \in [Masters -> Seq(Bursts)]
    /\ rg_r_err_beat_count \in [Masters -> Nat]
    /\ s_rd_addr \in [Slaves -> Seq(Bursts)] /\ s_rd_data \in [Slaves -> Seq(ReadBeats)]
    /\ s_rd_served \in [Slaves -> Nat] /\ f_rd_mis \in [Slaves -> Seq(ReadNotes)]
    /\ rg_r_beat_count \in [Slaves -> Nat]

ReadsEmpty ==
    /\ asked_rd = EmptyPer(Masters) /\ rd_addr = EmptyPer(Masters)
    /\ rd_data = EmptyPer(Masters) /\ taken_rd = ZeroPer(Masters)
    /\ f_rd_sjs = EmptyPer(Masters) /\ f_rd_err_info = EmptyPer(Masters)
    /\ rg_r_err_beat_count = ZeroPer(Masters)
    /\ s_rd_addr = EmptyPer(Slaves) /\ s_rd_data = EmptyPer(Slaves)
    /\ s_rd_served = ZeroPer(Slaves) /\ f_rd_mis = EmptyPer(Slaves)
    /\ rg_r_beat_count = ZeroPer(Slaves)

\* Of the first burst that its notes stand for, the master was given pos beats.
MasterReads(m, sent, pos) ==
    /\ MasterNotes(asked_rd[m], sent, rd_addr[m], f_rd_sjs[m], f_rd_err_info[m], m)
    /\ Stream(rd_data[m], asked_rd[m], taken_rd[m], pos, Done(asked_rd[m], sent, rd_addr[m]))
    /\ \A i \in 1 .. Len(rd_data[m]) : RightResp(rd_data[m][i])

SlaveReads(s, at) ==
    /\ Split(at, <<>>, s_rd_addr[s])
    /\ Len(f_rd_mis[s]) = Len(at)
    /\ \A i \in 1 .. Len(at) : f_rd_mis[s][i] = [from |-> at[i].master, len |-> at[i].len]
    /\ Stream(s_rd_data[s], at, rg_r_beat_count[s], s_rd_served[s], Done(at, <<>>, s_rd_addr[s]))
    /\ \A i \in 1 .. Len(s_rd_data[s]) : s_rd_data[s][i].resp = "OKAY"

\* pos is in the counter of whoever answers the master now.
Positions(pos) ==
    /\ pos \in [Masters -> Nat]
    /\ \A s \in Slaves : rg_r_beat_count[s] # 0 => \E m \in Masters : ReadReturns(s, m)
    /\ \A s \in Slaves, m \in Masters : ReadReturns(s, m) => pos[m] = rg_r_beat_count[s]
    /\ \A m \in Masters : f_rd_sjs[m] # <<>> /\ Head(f_rd_sjs[m]) = NoSlave =>
          pos[m] = rg_r_err_beat_count[m]
    /\ \A m \in Masters : rg_r_err_beat_count[m] # 0 =>
          f_rd_sjs[m] # <<>> /\ Head(f_rd_sjs[m]) = NoSlave
    /\ \A m \in Masters : pos[m] # 0 => f_rd_sjs[m] # <<>>
    /\ \A s \in Slaves, m \in Masters :
          pos[m] # 0 /\ Head(f_rd_sjs[m]) = s => ReadReturns(s, m)

Reads(at, sent, pos) ==
    /\ Linked(at, sent)
    /\ \A m \in Masters : MasterReads(m, sent[m], pos[m])
    /\ \A s \in Slaves : SlaveReads(s, at[s])
    /\ Positions(pos)

ReadInv ==
    /\ ReadTypes
    /\ rg_reset => ReadsEmpty
    /\ \E at, sent, pos : Reads(at, sent, pos)

LEMMA ReadsStart ==
    ASSUME ReadsEmpty
    PROVE  Reads(EmptyPer(Slaves), EmptyPer(Masters), ZeroPer(Masters))
<1>1. Len(<<>>) = 0 /\ <<>> \in Seq(Bursts)
  BY EmptySeq
<1>2. Stream(<<>>, <<>>, 0, 0, 0)
  BY <1>1, StreamEmpty
<1>3. ASSUME NEW m \in Masters PROVE MasterReads(m, EmptyPer(Masters)[m], ZeroPer(Masters)[m])
  <2>1. /\ asked_rd[m] = <<>> /\ rd_addr[m] = <<>> /\ rd_data[m] = <<>> /\ taken_rd[m] = 0
        /\ f_rd_sjs[m] = <<>> /\ f_rd_err_info[m] = <<>>
        /\ EmptyPer(Masters)[m] = <<>> /\ ZeroPer(Masters)[m] = 0
    BY DEF ReadsEmpty, EmptyPer, ZeroPer
  <2>2. MasterReads(m, <<>>, 0)
    BY <1>1, <1>2, <2>1, NotesEmpty, SplitEmpty DEF MasterReads
  <2>3. QED
    BY <2>1, <2>2
<1>4. ASSUME NEW s \in Slaves PROVE SlaveReads(s, EmptyPer(Slaves)[s])
  <2>1. /\ s_rd_addr[s] = <<>> /\ s_rd_data[s] = <<>> /\ s_rd_served[s] = 0
        /\ f_rd_mis[s] = <<>> /\ rg_r_beat_count[s] = 0 /\ EmptyPer(Slaves)[s] = <<>>
    BY DEF ReadsEmpty, EmptyPer, ZeroPer
  <2>2. SlaveReads(s, <<>>)
    BY <1>1, <1>2, <2>1, SplitEmpty DEF SlaveReads
  <2>3. QED
    BY <2>1, <2>2
<1>5. Positions(ZeroPer(Masters))
  BY DEF Positions, ReadsEmpty, ReadReturns, EmptyPer, ZeroPer
<1>6. QED
  BY <1>3, <1>4, <1>5, LinkedEmpty DEF Reads

\* New notes come last.
LEMMA PositionsGrow ==
    ASSUME NEW pos, Positions(pos),
           \A m \in Masters : f_rd_sjs[m] # <<>> =>
              f_rd_sjs'[m] # <<>> /\ Head(f_rd_sjs'[m]) = Head(f_rd_sjs[m]),
           \A s \in Slaves : f_rd_mis[s] # <<>> =>
              f_rd_mis'[s] # <<>> /\ Head(f_rd_mis'[s]) = Head(f_rd_mis[s]),
           UNCHANGED <<rg_r_beat_count, rg_r_err_beat_count>>
    PROVE  Positions(pos)'
<1>1. \A s \in Slaves, m \in Masters : ReadReturns(s, m) => ReadReturns(s, m)'
  BY DEF ReadReturns
<1>2. ASSUME NEW s \in Slaves, rg_r_beat_count[s] # 0
      PROVE  \E m \in Masters : ReadReturns(s, m)'
  BY <1>1, <1>2 DEF Positions
<1>3. ASSUME NEW s \in Slaves, NEW m \in Masters, ReadReturns(s, m)'
      PROVE  pos[m] = rg_r_beat_count[s]
  <2>1. CASE rg_r_beat_count[s] # 0
    <3>1. PICK n \in Masters : ReadReturns(s, n)
      BY <2>1 DEF Positions
    <3>2. n = m
      BY <1>3, <3>1 DEF ReadReturns
    <3>3. QED
      BY <3>1, <3>2 DEF Positions
  <2>2. CASE pos[m] # 0
    <3>1. f_rd_sjs[m] # <<>>
      BY <2>2 DEF Positions
    <3>2. Head(f_rd_sjs[m]) = s
      BY <1>3, <3>1 DEF ReadReturns
    <3>3. QED
      BY <2>2, <3>2 DEF Positions
  <2>3. QED
    BY <2>1, <2>2
<1>4. ASSUME NEW m \in Masters, f_rd_sjs'[m] # <<>>, Head(f_rd_sjs'[m]) = NoSlave
      PROVE  pos[m] = rg_r_err_beat_count[m]
  <2>1. CASE f_rd_sjs[m] # <<>>
    BY <1>4, <2>1 DEF Positions
  <2>2. CASE f_rd_sjs[m] = <<>>
    BY <2>2 DEF Positions
  <2>3. QED
    BY <2>1, <2>2
<1>5. ASSUME NEW s \in Slaves, NEW m \in Masters, pos[m] # 0, Head(f_rd_sjs'[m]) = s
      PROVE  ReadReturns(s, m)'
  BY <1>1, <1>5 DEF Positions
<1>6. \A m \in Masters :
          /\ rg_r_err_beat_count'[m] # 0 => f_rd_sjs'[m] # <<>> /\ Head(f_rd_sjs'[m]) = NoSlave
          /\ pos[m] # 0 => f_rd_sjs'[m] # <<>>
  BY DEF Positions
<1>7. QED
  BY <1>2, <1>3, <1>4, <1>5, <1>6 DEF Positions

\* What the master and the slave of a channel see when nothing of theirs changes.
LEMMA OtherMaster ==
    ASSUME NEW m, NEW sent, NEW pos, MasterReads(m, sent, pos),
           asked_rd'[m] = asked_rd[m], rd_addr'[m] = rd_addr[m], rd_data'[m] = rd_data[m],
           taken_rd'[m] = taken_rd[m], f_rd_sjs'[m] = f_rd_sjs[m],
           f_rd_err_info'[m] = f_rd_err_info[m]
    PROVE  MasterReads(m, sent, pos)'
BY DEF MasterReads, RightResp

LEMMA OtherSlave ==
    ASSUME NEW s, NEW at, SlaveReads(s, at),
           s_rd_addr'[s] = s_rd_addr[s], s_rd_data'[s] = s_rd_data[s],
           s_rd_served'[s] = s_rd_served[s], f_rd_mis'[s] = f_rd_mis[s],
           rg_r_beat_count'[s] = rg_r_beat_count[s]
    PROVE  SlaveReads(s, at)'
BY DEF SlaveReads

LEMMA ReadPass ==
    ASSUME ReadTypes, NEW at, NEW sent, NEW pos, Reads(at, sent, pos),
           NEW m \in Masters, NEW s \in Slaves, rl_rd_xaction_master_to_slave(m, s)
    PROVE  \E a, t, p : Reads(a, t, p)'
<1>0. PICK b : b = Head(rd_addr[m])
  OBVIOUS
<1>1. /\ rd_addr[m] # <<>> /\ b.to = s
      /\ s_rd_addr' = Push(s_rd_addr, s, b) /\ rd_addr' = Pop(rd_addr, m)
      /\ f_rd_mis' = Push(f_rd_mis, s, [from |-> m, len |-> b.len])
      /\ f_rd_sjs' = Push(f_rd_sjs, m, s)
      /\ UNCHANGED <<asked_rd, taken_rd, rd_data, s_rd_data, s_rd_served,
                     rg_r_beat_count, f_rd_err_info, rg_r_err_beat_count>>
  BY <1>0 DEF rl_rd_xaction_master_to_slave, HasRead
<1>2. /\ Linked(at, sent) /\ MasterReads(m, sent[m], pos[m]) /\ SlaveReads(s, at[s])
      /\ at \in [Slaves -> Seq(Bursts)] /\ sent \in [Masters -> Seq(Bursts)]
      /\ at[s] \in Seq(Bursts) /\ sent[m] \in Seq(Bursts)
  BY DEF Reads, Linked
<1>3. MasterNotes(asked_rd[m], sent[m], rd_addr[m], f_rd_sjs[m], f_rd_err_info[m], m)
  BY <1>2 DEF MasterReads
<1>4. b \in Bursts /\ b.master = m /\ b.len \in Nat
  BY <1>0, <1>1, <1>3, NotesHead, BurstFields
<1>4a. PICK a2, s2 : a2 = Push(at, s, b) /\ s2 = Push(sent, m, b)
  OBVIOUS
<1>5. Linked(a2, s2)
  BY <1>1, <1>2, <1>4, <1>4a, LinkPass
<1>6. /\ a2[s] = Append(at[s], b) /\ \A j \in Slaves \ {s} : a2[j] = at[j]
      /\ s2[m] = Append(sent[m], b) /\ \A j \in Masters \ {m} : s2[j] = sent[j]
  BY <1>2, <1>4a DEF Push
<1>7. /\ rd_addr'[m] = Tail(rd_addr[m]) /\ f_rd_sjs'[m] = Append(f_rd_sjs[m], s)
      /\ s_rd_addr'[s] = Append(s_rd_addr[s], b)
      /\ f_rd_mis'[s] = Append(f_rd_mis[s], [from |-> m, len |-> b.len])
      /\ \A j \in Masters \ {m} : rd_addr'[j] = rd_addr[j] /\ f_rd_sjs'[j] = f_rd_sjs[j]
      /\ \A j \in Slaves \ {s} : s_rd_addr'[j] = s_rd_addr[j] /\ f_rd_mis'[j] = f_rd_mis[j]
  BY <1>1 DEF ReadTypes, Push, Pop
<1>8. MasterReads(m, s2[m], pos[m])'
  <2>1. /\ MasterNotes(asked_rd[m], Append(sent[m], b), Tail(rd_addr[m]), Append(f_rd_sjs[m], s),
                       f_rd_err_info[m], m)
        /\ Done(asked_rd[m], Append(sent[m], b), Tail(rd_addr[m]))
              = Done(asked_rd[m], sent[m], rd_addr[m])
    BY <1>0, <1>1, <1>3, NotesPass
  <2>2. MasterNotes(asked_rd[m], s2[m], rd_addr[m], f_rd_sjs[m], f_rd_err_info[m], m)'
    BY <1>1, <1>6, <1>7, <2>1
  <2>3. Done(asked_rd[m], s2[m], rd_addr[m])' = Done(asked_rd[m], sent[m], rd_addr[m])
    BY <1>1, <1>6, <1>7, <2>1
  <2>4. Stream(rd_data[m], asked_rd[m], taken_rd[m], pos[m], Done(asked_rd[m], s2[m], rd_addr[m]))'
    BY <1>1, <1>2, <2>3 DEF MasterReads
  <2>5. QED
    BY <1>1, <1>2, <2>2, <2>4 DEF MasterReads, RightResp
<1>9. SlaveReads(s, a2[s])'
  <2> DEFINE q == Append(at[s], b)
             mis == Append(f_rd_mis[s], [from |-> m, len |-> b.len])
  <2>1. s_rd_addr[s] \in Seq(Bursts) /\ Split(at[s], <<>>, s_rd_addr[s])
    BY <1>2 DEF SlaveReads, ReadTypes
  <2>2. /\ Split(q, <<>>, Append(s_rd_addr[s], b))
        /\ Done(q, <<>>, Append(s_rd_addr[s], b)) = Done(at[s], <<>>, s_rd_addr[s])
    BY <1>2, <1>4, <2>1, SplitAskNone
  <2>3. Len(s_rd_data[s]) \in Nat
    BY LenProperties DEF ReadTypes
  <2>4. Stream(s_rd_data[s], q, rg_r_beat_count[s], s_rd_served[s], Done(at[s], <<>>, s_rd_addr[s]))
    BY <1>2, <1>4, <2>3, StreamMore DEF SlaveReads
  <2>5. /\ Len(at[s]) \in Nat /\ Len(q) = Len(at[s]) + 1
        /\ \A i \in 1 .. Len(at[s]) : q[i] = at[s][i]
        /\ q[Len(at[s]) + 1] = b
    BY <1>2, <1>4, Appended
  <2>6. [from |-> m, len |-> b.len] \in ReadNotes /\ f_rd_mis[s] \in Seq(ReadNotes)
    BY <1>4 DEF ReadNotes, ReadTypes
  <2>7. /\ Len(f_rd_mis[s]) = Len(at[s]) /\ Len(mis) = Len(at[s]) + 1
        /\ \A i \in 1 .. Len(at[s]) : mis[i] = f_rd_mis[s][i]
        /\ mis[Len(at[s]) + 1] = [from |-> m, len |-> b.len]
    BY <1>2, <2>6, Appended DEF SlaveReads
  <2> HIDE DEF q, mis
  <2>8. ASSUME NEW i \in 1 .. Len(q) PROVE mis[i] = [from |-> q[i].master, len |-> q[i].len]
    <3>1. CASE i = Len(at[s]) + 1
      BY <1>4, <2>5, <2>7, <3>1
    <3>2. CASE i \in 1 .. Len(at[s])
      <4>1. f_rd_mis[s][i] = [from |-> at[s][i].master, len |-> at[s][i].len]
        BY <1>2, <3>2 DEF SlaveReads
      <4>2. QED
        BY <2>5, <2>7, <3>2, <4>1
    <3>3. QED
      BY <2>5, <3>1, <3>2
  <2>9. a2[s] = q /\ f_rd_mis'[s] = mis /\ s_rd_addr'[s] = Append(s_rd_addr[s], b)
    BY <1>6, <1>7 DEF q, mis
  <2>10. Stream(s_rd_data[s], q, rg_r_beat_count[s], s_rd_served[s], Done(q, <<>>, s_rd_addr[s]))'
    BY <1>1, <2>2, <2>4, <2>9
  <2>11. QED
    BY <1>1, <1>2, <2>2, <2>5, <2>7, <2>8, <2>9, <2>10 DEF SlaveReads
<1>10. ASSUME NEW j \in Masters PROVE MasterReads(j, s2[j], pos[j])'
  <2>1. CASE j # m
    <3>1. MasterReads(j, sent[j], pos[j]) /\ s2[j] = sent[j]
      BY <1>6, <2>1 DEF Reads
    <3>2. MasterReads(j, sent[j], pos[j])'
      BY <1>1, <1>7, <2>1, <3>1, OtherMaster
    <3>3. QED
      BY <3>1, <3>2
  <2>2. QED
    BY <1>8, <2>1
<1>11. ASSUME NEW j \in Slaves PROVE SlaveReads(j, a2[j])'
  <2>1. CASE j # s
    <3>1. SlaveReads(j, at[j]) /\ a2[j] = at[j]
      BY <1>6, <2>1 DEF Reads
    <3>2. SlaveReads(j, at[j])'
      BY <1>1, <1>7, <2>1, <3>1, OtherSlave
    <3>3. QED
      BY <3>1, <3>2
  <2>2. QED
    BY <1>9, <2>1
<1>12. Positions(pos)'
  <2>1. ASSUME NEW j \in Masters, f_rd_sjs[j] # <<>>
        PROVE  f_rd_sjs'[j] # <<>> /\ Head(f_rd_sjs'[j]) = Head(f_rd_sjs[j])
    <3>1. f_rd_sjs[j] \in Seq(0 .. NumSlaves) /\ s \in 0 .. NumSlaves
      BY SlaveNumbers DEF ReadTypes
    <3>2. CASE j = m
      BY <1>7, <2>1, <3>1, <3>2, AppendHead
    <3>3. QED
      BY <1>7, <2>1, <3>2
  <2>2. ASSUME NEW j \in Slaves, f_rd_mis[j] # <<>>
        PROVE  f_rd_mis'[j] # <<>> /\ Head(f_rd_mis'[j]) = Head(f_rd_mis[j])
    <3>1. f_rd_mis[j] \in Seq(ReadNotes) /\ [from |-> m, len |-> b.len] \in ReadNotes
      BY <1>4 DEF ReadTypes, ReadNotes
    <3>2. CASE j = s
      BY <1>7, <2>2, <3>1, <3>2, AppendHead
    <3>3. QED
      BY <1>7, <2>2, <3>2
  <2>3. QED
    BY <1>1, <2>1, <2>2, PositionsGrow DEF Reads
<1>13. Reads(a2, s2, pos)'
  BY <1>5, <1>10, <1>11, <1>12 DEF Reads, Linked
<1>14. QED
  BY <1>13

LEMMA ReadNone ==
    ASSUME ReadTypes, NEW at, NEW sent, NEW pos, Reads(at, sent, pos),
           NEW m \in Masters, rl_rd_xaction_no_such_slave(m)
    PROVE  \E a, t, p : Reads(a, t, p)'
<1>1. PICK b : b = Head(rd_addr[m])
  OBVIOUS
<1>2. /\ rd_addr[m] # <<>> /\ b.to = NoSlave
      /\ rd_addr' = Pop(rd_addr, m) /\ f_rd_sjs' = Push(f_rd_sjs, m, NoSlave)
      /\ f_rd_err_info' = Push(f_rd_err_info, m, b)
      /\ UNCHANGED <<asked_rd, taken_rd, rd_data, s_rd_addr, s_rd_data, s_rd_served,
                     f_rd_mis, rg_r_beat_count, rg_r_err_beat_count>>
  BY <1>1 DEF rl_rd_xaction_no_such_slave, HasRead
<1>3. /\ Linked(at, sent) /\ MasterReads(m, sent[m], pos[m]) /\ sent \in [Masters -> Seq(Bursts)]
  BY DEF Reads, Linked
<1>4. MasterNotes(asked_rd[m], sent[m], rd_addr[m], f_rd_sjs[m], f_rd_err_info[m], m)
  BY <1>3 DEF MasterReads
<1>5. b \in Bursts
  BY <1>1, <1>2, <1>4, NotesHead
<1>6. PICK s2 : s2 = Push(sent, m, b)
  OBVIOUS
<1>7. Linked(at, s2)
  BY <1>2, <1>3, <1>5, <1>6, LinkNone
<1>8. /\ s2[m] = Append(sent[m], b) /\ \A j \in Masters \ {m} : s2[j] = sent[j]
      /\ rd_addr'[m] = Tail(rd_addr[m]) /\ f_rd_sjs'[m] = Append(f_rd_sjs[m], NoSlave)
      /\ f_rd_err_info'[m] = Append(f_rd_err_info[m], b)
      /\ \A j \in Masters \ {m} : /\ rd_addr'[j] = rd_addr[j] /\ f_rd_sjs'[j] = f_rd_sjs[j]
                                  /\ f_rd_err_info'[j] = f_rd_err_info[j]
  BY <1>2, <1>3, <1>6 DEF ReadTypes, Push, Pop
<1>9. MasterReads(m, s2[m], pos[m])'
  <2>1. /\ MasterNotes(asked_rd[m], Append(sent[m], b), Tail(rd_addr[m]),
                       Append(f_rd_sjs[m], NoSlave), Append(f_rd_err_info[m], b), m)
        /\ Done(asked_rd[m], Append(sent[m], b), Tail(rd_addr[m]))
              = Done(asked_rd[m], sent[m], rd_addr[m])
    BY <1>1, <1>2, <1>4, NotesNone
  <2>2. MasterNotes(asked_rd[m], s2[m], rd_addr[m], f_rd_sjs[m], f_rd_err_info[m], m)'
    BY <1>2, <1>8, <2>1
  <2>3. Done(asked_rd[m], s2[m], rd_addr[m])' = Done(asked_rd[m], sent[m], rd_addr[m])
    BY <1>2, <1>8, <2>1
  <2>4. Stream(rd_data[m], asked_rd[m], taken_rd[m], pos[m], Done(asked_rd[m], s2[m], rd_addr[m]))'
    BY <1>2, <1>3, <2>3 DEF MasterReads
  <2>5. QED
    BY <1>2, <1>3, <2>2, <2>4 DEF MasterReads, RightResp
<1>10. ASSUME NEW j \in Masters PROVE MasterReads(j, s2[j], pos[j])'
  <2>1. CASE j # m
    <3>1. MasterReads(j, sent[j], pos[j]) /\ s2[j] = sent[j]
      BY <1>8, <2>1 DEF Reads
    <3>2. MasterReads(j, sent[j], pos[j])'
      BY <1>2, <1>8, <2>1, <3>1, OtherMaster
    <3>3. QED
      BY <3>1, <3>2
  <2>2. QED
    BY <1>9, <2>1
<1>11. ASSUME NEW j \in Slaves PROVE SlaveReads(j, at[j])'
  <2>1. SlaveReads(j, at[j])
    BY DEF Reads
  <2>2. QED
    BY <1>2, <2>1, OtherSlave
<1>12. Positions(pos)'
  <2>1. ASSUME NEW j \in Masters, f_rd_sjs[j] # <<>>
        PROVE  f_rd_sjs'[j] # <<>> /\ Head(f_rd_sjs'[j]) = Head(f_rd_sjs[j])
    <3>1. f_rd_sjs[j] \in Seq(0 .. NumSlaves) /\ NoSlave \in 0 .. NumSlaves
      BY SlaveNumbers DEF ReadTypes
    <3>2. CASE j = m
      <4>1. /\ Append(f_rd_sjs[m], NoSlave) # <<>>
            /\ Head(Append(f_rd_sjs[m], NoSlave)) = Head(f_rd_sjs[m])
        BY <2>1, <3>1, <3>2, AppendHead
      <4>2. QED
        BY <1>8, <3>2, <4>1
    <3>3. QED
      BY <1>8, <2>1, <3>2
  <2>2. QED
    BY <1>2, <2>1, PositionsGrow DEF Reads
<1>13. Reads(at, s2, pos)'
  BY <1>7, <1>10, <1>11, <1>12 DEF Reads, Linked
<1>14. QED
  BY <1>13

LEMMA ReadReturn ==
    ASSUME ReadTypes, NEW at, NEW sent, NEW pos, Reads(at, sent, pos),
           NEW m \in Masters, NEW s \in Slaves, rl_rd_resp_slave_to_master(m, s)
    PROVE  \E a, t, p : Reads(a, t, p)'
<1>1. PICK r : r = Head(s_rd_data[s])
  OBVIOUS
<1>2. /\ ReadReturns(s, m) /\ s_rd_data[s] # <<>>
      /\ f_rd_mis[s] # <<>> /\ Head(f_rd_mis[s]).from = m
      /\ f_rd_sjs[m] # <<>> /\ Head(f_rd_sjs[m]) = s
      /\ s_rd_data' = Pop(s_rd_data, s)
      /\ UNCHANGED <<asked_rd, taken_rd, rd_addr, s_rd_addr, s_rd_served,
                     f_rd_err_info, rg_r_err_beat_count>>
  BY DEF rl_rd_resp_slave_to_master, ReadReturns
<1>3. /\ rg_r_beat_count[s] = Head(f_rd_mis[s]).len =>
            /\ f_rd_mis' = Pop(f_rd_mis, s) /\ f_rd_sjs' = Pop(f_rd_sjs, m)
            /\ rg_r_beat_count' = Count(rg_r_beat_count, s, 0)
            /\ rd_data' = Push(rd_data, m, IF r.last THEN r ELSE [r EXCEPT !.resp = "SLVERR"])
      /\ rg_r_beat_count[s] # Head(f_rd_mis[s]).len =>
            /\ rg_r_beat_count' = Count(rg_r_beat_count, s, rg_r_beat_count[s] + 1)
            /\ rd_data' = Push(rd_data, m, r)
            /\ UNCHANGED <<f_rd_mis, f_rd_sjs>>
  BY <1>1 DEF rl_rd_resp_slave_to_master
<1>4. /\ Linked(at, sent) /\ MasterReads(m, sent[m], pos[m]) /\ SlaveReads(s, at[s])
      /\ at \in [Slaves -> Seq(Bursts)] /\ sent \in [Masters -> Seq(Bursts)]
      /\ at[s] \in Seq(Bursts) /\ sent[m] \in Seq(Bursts)
      /\ Positions(pos) /\ pos \in [Masters -> Nat]
  BY DEF Reads, Linked, Positions
<1>5. /\ s_rd_data[s] \in Seq(ReadBeats) /\ f_rd_mis[s] \in Seq(ReadNotes)
      /\ f_rd_sjs[m] \in Seq(0 .. NumSlaves) /\ rd_data[m] \in Seq(ReadBeats)
      /\ asked_rd[m] \in Seq(Bursts) /\ rg_r_beat_count[s] \in Nat
  BY DEF ReadTypes
<1>6. MasterNotes(asked_rd[m], sent[m], rd_addr[m], f_rd_sjs[m], f_rd_err_info[m], m)
  BY <1>4 DEF MasterReads
<1>7. PICK d : d = Done(asked_rd[m], sent[m], rd_addr[m])
  OBVIOUS
<1>8. /\ sent[m] # <<>> /\ sent[m][1].to = s /\ sent[m][1] \in Bursts
      /\ d < Len(asked_rd[m]) /\ asked_rd[m][d + 1] = sent[m][1]
      /\ Done(asked_rd[m], Tail(sent[m]), rd_addr[m]) = d + 1
  <2>1. OldestSent(asked_rd[m], sent[m], rd_addr[m], f_rd_sjs[m])
    BY <1>2, <1>6, NotesReturn
  <2>2. QED
    BY <1>2, <1>7, <2>1 DEF OldestSent
<1>9. /\ at[s] # <<>> /\ at[s][1].master = m /\ Head(f_rd_mis[s]).len = at[s][1].len
  <2>1. Len(f_rd_mis[s]) \in Nat /\ Len(f_rd_mis[s]) > 0 /\ Head(f_rd_mis[s]) = f_rd_mis[s][1]
    BY <1>2, <1>5, Popped
  <2>2. Len(at[s]) = Len(f_rd_mis[s])
    BY <1>4 DEF SlaveReads
  <2>3. f_rd_mis[s][1] = [from |-> at[s][1].master, len |-> at[s][1].len]
    BY <1>4, <2>1, <2>2 DEF SlaveReads
  <2>4. at[s] # <<>>
    BY <2>1, <2>2, EmptySeq
  <2>5. QED
    BY <1>2, <2>1, <2>3, <2>4
<1>10. at[s][1] = sent[m][1] /\ Linked(Pop(at, s), Pop(sent, m))
  BY <1>4, <1>8, <1>9, LinkReturn
<1>11. /\ r \in ReadBeats /\ r = s_rd_data[s][1] /\ r.resp = "OKAY" /\ r.last \in BOOLEAN
       /\ Tail(s_rd_data[s]) \in Seq(ReadBeats)
       /\ Len(s_rd_data[s]) \in Nat /\ Len(Tail(s_rd_data[s])) = Len(s_rd_data[s]) - 1
       /\ \A i \in 1 .. Len(s_rd_data[s]) - 1 : Tail(s_rd_data[s])[i] = s_rd_data[s][i + 1]
  <2>1. /\ r \in ReadBeats /\ r = s_rd_data[s][1] /\ Tail(s_rd_data[s]) \in Seq(ReadBeats)
        /\ Len(s_rd_data[s]) \in Nat /\ Len(s_rd_data[s]) > 0
        /\ Len(Tail(s_rd_data[s])) = Len(s_rd_data[s]) - 1
        /\ \A i \in 1 .. Len(s_rd_data[s]) - 1 : Tail(s_rd_data[s])[i] = s_rd_data[s][i + 1]
    BY <1>1, <1>2, <1>5, Popped
  <2>2. 1 \in 1 .. Len(s_rd_data[s])
    BY <2>1
  <2>3. r.resp = "OKAY"
    BY <1>4, <2>1, <2>2 DEF SlaveReads
  <2>4. r.last \in BOOLEAN
    BY <2>1 DEF ReadBeats
  <2>5. QED
    BY <2>1, <2>3, <2>4
<1>12. PICK n : n = Done(at[s], <<>>, s_rd_addr[s])
  OBVIOUS
<1>13. Stream(s_rd_data[s], at[s], rg_r_beat_count[s], s_rd_served[s], n)
  BY <1>4, <1>12 DEF SlaveReads
<1>14. /\ r.burst = at[s][1] /\ (r.last <=> rg_r_beat_count[s] = at[s][1].len)
       /\ r.last => n > 0 /\ Stream(Tail(s_rd_data[s]), Tail(at[s]), 0, s_rd_served[s], n - 1)
       /\ ~r.last => Stream(Tail(s_rd_data[s]), at[s], rg_r_beat_count[s] + 1, s_rd_served[s], n)
  BY <1>2, <1>4, <1>5, <1>11, <1>13, StreamTail
<1>15. pos[m] = rg_r_beat_count[s]
  BY <1>2, <1>4 DEF Positions
<1>16. rd_data' = Push(rd_data, m, r)
  BY <1>3, <1>9, <1>14
<1>17. /\ Stream(Append(rd_data[m], r), asked_rd[m], taken_rd[m],
                 IF r.last THEN 0 ELSE pos[m] + 1, IF r.last THEN d + 1 ELSE d)
       /\ rd_data'[m] = Append(rd_data[m], r)
       /\ \A i \in 1 .. Len(Append(rd_data[m], r)) : RightResp(Append(rd_data[m], r)[i])
  <2>1. Stream(rd_data[m], asked_rd[m], taken_rd[m], pos[m], d)
    BY <1>4, <1>7 DEF MasterReads
  <2>2. r.burst = asked_rd[m][d + 1] /\ (r.last <=> pos[m] = asked_rd[m][d + 1].len)
    BY <1>8, <1>10, <1>14, <1>15
  <2>3. Stream(Append(rd_data[m], r), asked_rd[m], taken_rd[m],
               IF r.last THEN 0 ELSE pos[m] + 1, IF r.last THEN d + 1 ELSE d)
    BY <1>5, <1>8, <1>11, <2>1, <2>2, StreamAppend
  <2>4. RightResp(r)
    BY <1>8, <1>10, <1>11, <1>14, SlaveNumbers DEF RightResp
  <2>5. /\ Len(rd_data[m]) \in Nat /\ Len(Append(rd_data[m], r)) = Len(rd_data[m]) + 1
        /\ \A i \in 1 .. Len(rd_data[m]) : Append(rd_data[m], r)[i] = rd_data[m][i]
        /\ Append(rd_data[m], r)[Len(rd_data[m]) + 1] = r
    BY <1>5, <1>11, Appended
  <2>6. \A i \in 1 .. Len(rd_data[m]) : RightResp(rd_data[m][i])
    BY <1>4 DEF MasterReads
  <2>7. ASSUME NEW i \in 1 .. Len(Append(rd_data[m], r)) PROVE RightResp(Append(rd_data[m], r)[i])
    <3>1. CASE i = Len(rd_data[m]) + 1
      BY <2>4, <2>5, <3>1
    <3>2. CASE i \in 1 .. Len(rd_data[m])
      BY <2>5, <2>6, <3>2
    <3>3. QED
      BY <2>5, <3>1, <3>2
  <2>8. QED
    BY <1>16, <2>3, <2>7 DEF ReadTypes, Push
<1>18. /\ s_rd_data'[s] = Tail(s_rd_data[s])
       /\ \A j \in Slaves \ {s} : s_rd_data'[j] = s_rd_data[j]
       /\ \A j \in Masters \ {m} : rd_data'[j] = rd_data[j]
  BY <1>2, <1>16 DEF ReadTypes, Push, Pop
<1>19. \A i \in 1 .. Len(Tail(s_rd_data[s])) : Tail(s_rd_data[s])[i].resp = "OKAY"
  <2>1. ASSUME NEW i \in 1 .. Len(Tail(s_rd_data[s]))
        PROVE  Tail(s_rd_data[s])[i].resp = "OKAY"
    <3>1. i \in 1 .. Len(s_rd_data[s]) - 1 /\ i + 1 \in 1 .. Len(s_rd_data[s])
      BY <1>11
    <3>2. QED
      BY <1>4, <1>11, <3>1 DEF SlaveReads
  <2>2. QED
    BY <2>1
<1>20. CASE ~r.last
  <2>1. /\ rg_r_beat_count' = Count(rg_r_beat_count, s, rg_r_beat_count[s] + 1)
        /\ UNCHANGED <<f_rd_mis, f_rd_sjs>>
    BY <1>3, <1>9, <1>14, <1>20
  <2>2. /\ rg_r_beat_count'[s] = rg_r_beat_count[s] + 1
        /\ \A j \in Slaves \ {s} : rg_r_beat_count'[j] = rg_r_beat_count[j]
    BY <2>1 DEF ReadTypes, Count
  <2>3. PICK p2 : p2 = [pos EXCEPT ![m] = pos[m] + 1]
    OBVIOUS
  <2>4. /\ p2 \in [Masters -> Nat] /\ p2[m] = pos[m] + 1
        /\ \A j \in Masters \ {m} : p2[j] = pos[j]
    BY <1>4, <2>3
  <2>5. MasterReads(m, sent[m], p2[m])'
    <3>1. Stream(Append(rd_data[m], r), asked_rd[m], taken_rd[m], p2[m], d)
      BY <1>17, <1>20, <2>4
    <3>2. Stream(rd_data[m], asked_rd[m], taken_rd[m], p2[m],
                 Done(asked_rd[m], sent[m], rd_addr[m]))'
      BY <1>2, <1>7, <1>17, <3>1
    <3>3. QED
      BY <1>2, <1>6, <1>17, <2>1, <3>2 DEF MasterReads, RightResp
  <2>6. SlaveReads(s, at[s])'
    <3>1. Stream(s_rd_data[s], at[s], rg_r_beat_count[s], s_rd_served[s],
                 Done(at[s], <<>>, s_rd_addr[s]))'
      BY <1>2, <1>12, <1>14, <1>18, <1>20, <2>2
    <3>2. QED
      BY <1>2, <1>4, <1>18, <1>19, <2>1, <3>1 DEF SlaveReads
  <2>7. ASSUME NEW j \in Masters PROVE MasterReads(j, sent[j], p2[j])'
    <3>1. CASE j # m
      <4>1. MasterReads(j, sent[j], pos[j]) /\ p2[j] = pos[j]
        BY <2>4, <3>1 DEF Reads
      <4>2. MasterReads(j, sent[j], pos[j])'
        BY <1>2, <1>18, <2>1, <3>1, <4>1, OtherMaster
      <4>3. QED
        BY <4>1, <4>2
    <3>2. QED
      BY <2>5, <3>1
  <2>8. ASSUME NEW j \in Slaves PROVE SlaveReads(j, at[j])'
    <3>1. CASE j # s
      <4>1. SlaveReads(j, at[j])
        BY DEF Reads
      <4>2. QED
        BY <1>2, <1>18, <2>1, <2>2, <3>1, <4>1, OtherSlave
    <3>2. QED
      BY <2>6, <3>1
  <2>9. \A i \in Slaves, j \in Masters : ReadReturns(i, j)' <=> ReadReturns(i, j)
    BY <2>1 DEF ReadReturns
  <2>10. \A i \in Slaves, j \in Masters : ReadReturns(i, j) => (i = s <=> j = m)
    BY <1>2 DEF ReadReturns
  <2>11. Positions(p2)'
    <3>1. ASSUME NEW j \in Slaves, rg_r_beat_count'[j] # 0
          PROVE  \E k \in Masters : ReadReturns(j, k)'
      <4>1. CASE j = s
        BY <1>2, <2>9, <4>1
      <4>2. CASE j # s
        <5>1. PICK k \in Masters : ReadReturns(j, k)
          BY <1>4, <2>2, <3>1, <4>2 DEF Positions
        <5>2. QED
          BY <2>9, <5>1
      <4>3. QED
        BY <4>1, <4>2
    <3>2. \A i \in Slaves, j \in Masters : ReadReturns(i, j)' => p2[j] = rg_r_beat_count'[i]
      BY <1>4, <1>15, <2>2, <2>4, <2>9, <2>10 DEF Positions
    <3>3. \A j \in Masters : f_rd_sjs[j] # <<>> /\ Head(f_rd_sjs[j]) = NoSlave =>
             p2[j] = rg_r_err_beat_count[j]
      BY <1>2, <1>4, <2>4, SlaveNumbers DEF Positions
    <3>4. \A i \in Slaves, j \in Masters : p2[j] # 0 /\ Head(f_rd_sjs[j]) = i => ReadReturns(i, j)'
      BY <1>2, <1>4, <2>4, <2>9 DEF Positions
    <3>5. \A j \in Masters : p2[j] # 0 => f_rd_sjs[j] # <<>>
      BY <1>2, <1>4, <2>4 DEF Positions
    <3>6. \A j \in Masters : rg_r_err_beat_count[j] # 0 =>
             f_rd_sjs[j] # <<>> /\ Head(f_rd_sjs[j]) = NoSlave
      BY <1>4 DEF Positions
    <3>7. QED
      BY <1>2, <2>1, <2>4, <3>1, <3>2, <3>3, <3>4, <3>5, <3>6 DEF Positions
  <2>12. Reads(at, sent, p2)'
    BY <1>4, <2>7, <2>8, <2>11 DEF Reads, Linked
  <2>13. QED
    BY <2>12
<1>21. CASE r.last
  <2>1. /\ f_rd_mis' = Pop(f_rd_mis, s) /\ f_rd_sjs' = Pop(f_rd_sjs, m)
        /\ rg_r_beat_count' = Count(rg_r_beat_count, s, 0)
    BY <1>3, <1>9, <1>14, <1>21
  <2>2. /\ rg_r_beat_count'[s] = 0 /\ f_rd_mis'[s] = Tail(f_rd_mis[s])
        /\ f_rd_sjs'[m] = Tail(f_rd_sjs[m])
        /\ \A j \in Slaves \ {s} : rg_r_beat_count'[j] = rg_r_beat_count[j] /\ f_rd_mis'[j] = f_rd_mis[j]
        /\ \A j \in Masters \ {m} : f_rd_sjs'[j] = f_rd_sjs[j]
    BY <2>1 DEF ReadTypes, Count, Pop
  <2>3. PICK p2, a2, s2 : p2 = [pos EXCEPT ![m] = 0] /\ a2 = Pop(at, s) /\ s2 = Pop(sent, m)
    OBVIOUS
  <2>4. /\ p2 \in [Masters -> Nat] /\ p2[m] = 0 /\ \A j \in Masters \ {m} : p2[j] = pos[j]
        /\ a2[s] = Tail(at[s]) /\ \A j \in Slaves \ {s} : a2[j] = at[j]
        /\ s2[m] = Tail(sent[m]) /\ \A j \in Masters \ {m} : s2[j] = sent[j]
    BY <1>4, <2>3 DEF Pop
  <2>5. MasterReads(m, s2[m], p2[m])'
    <3>1. Stream(Append(rd_data[m], r), asked_rd[m], taken_rd[m], 0, d + 1)
      BY <1>17, <1>21
    <3>2. MasterNotes(asked_rd[m], Tail(sent[m]), rd_addr[m], Tail(f_rd_sjs[m]),
                      f_rd_err_info[m], m)
      BY <1>2, <1>6, NotesReturn
    <3>3. MasterNotes(asked_rd[m], s2[m], rd_addr[m], f_rd_sjs[m], f_rd_err_info[m], m)'
      BY <1>2, <2>2, <2>4, <3>2
    <3>4. Stream(rd_data[m], asked_rd[m], taken_rd[m], p2[m],
                 Done(asked_rd[m], s2[m], rd_addr[m]))'
      BY <1>2, <1>8, <1>17, <2>4, <3>1
    <3>5. QED
      BY <1>17, <3>3, <3>4 DEF MasterReads, RightResp
  <2>6. SlaveReads(s, a2[s])'
    <3>1. Split(at[s], <<>>, s_rd_addr[s]) /\ s_rd_addr[s] \in Seq(Bursts)
      BY <1>4 DEF SlaveReads, ReadTypes
    <3>2. /\ Split(Tail(at[s]), <<>>, s_rd_addr[s])
          /\ Done(Tail(at[s]), <<>>, s_rd_addr[s]) = n - 1
      BY <1>4, <1>12, <1>14, <1>21, <3>1, SplitTakeNone
    <3>3. Stream(s_rd_data[s], a2[s], rg_r_beat_count[s], s_rd_served[s],
                 Done(a2[s], <<>>, s_rd_addr[s]))'
      BY <1>2, <1>14, <1>18, <1>21, <2>2, <2>4, <3>2
    <3>4. /\ Len(at[s]) \in Nat /\ Len(Tail(at[s])) = Len(at[s]) - 1
          /\ \A i \in 1 .. Len(at[s]) - 1 : Tail(at[s])[i] = at[s][i + 1]
      BY <1>4, <1>9, Popped
    <3>5. /\ Len(f_rd_mis[s]) = Len(at[s]) /\ Len(Tail(f_rd_mis[s])) = Len(at[s]) - 1
          /\ \A i \in 1 .. Len(at[s]) - 1 : Tail(f_rd_mis[s])[i] = f_rd_mis[s][i + 1]
      BY <1>2, <1>4, <1>5, Popped DEF SlaveReads
    <3>6. ASSUME NEW i \in 1 .. Len(Tail(at[s]))
          PROVE  Tail(f_rd_mis[s])[i]
                    = [from |-> Tail(at[s])[i].master, len |-> Tail(at[s])[i].len]
      <4>1. i \in 1 .. Len(at[s]) - 1 /\ i + 1 \in 1 .. Len(at[s])
        BY <3>4
      <4>2. f_rd_mis[s][i + 1] = [from |-> at[s][i + 1].master, len |-> at[s][i + 1].len]
        BY <1>4, <4>1 DEF SlaveReads
      <4>3. QED
        BY <3>4, <3>5, <4>1, <4>2
    <3>7. QED
      BY <1>2, <1>18, <1>19, <2>2, <2>4, <3>2, <3>3, <3>4, <3>5, <3>6 DEF SlaveReads
  <2>7. ASSUME NEW j \in Masters PROVE MasterReads(j, s2[j], p2[j])'
    <3>1. CASE j # m
      <4>1. MasterReads(j, sent[j], pos[j]) /\ p2[j] = pos[j] /\ s2[j] = sent[j]
        BY <2>4, <3>1 DEF Reads
      <4>2. MasterReads(j, sent[j], pos[j])'
        BY <1>2, <1>18, <2>2, <3>1, <4>1, OtherMaster
      <4>3. QED
        BY <4>1, <4>2
    <3>2. QED
      BY <2>5, <3>1
  <2>8. ASSUME NEW j \in Slaves PROVE SlaveReads(j, a2[j])'
    <3>1. CASE j # s
      <4>1. SlaveReads(j, at[j]) /\ a2[j] = at[j]
        BY <2>4, <3>1 DEF Reads
      <4>2. SlaveReads(j, at[j])'
        BY <1>2, <1>18, <2>2, <3>1, <4>1, OtherSlave
      <4>3. QED
        BY <4>1, <4>2
    <3>2. QED
      BY <2>6, <3>1
  <2>9. \A i \in Slaves \ {s}, j \in Masters \ {m} : ReadReturns(i, j)' <=> ReadReturns(i, j)
    BY <2>2 DEF ReadReturns
  <2>10. \A i \in Slaves, j \in Masters : ReadReturns(i, j) => (i = s <=> j = m)
    BY <1>2 DEF ReadReturns
  <2>11. \A j \in Slaves \ {s} : rg_r_beat_count[j] # 0 =>
            \E k \in Masters \ {m} : ReadReturns(j, k)
    BY <1>4, <2>10 DEF Positions
  <2>12. Positions(p2)'
    <3>1. \A j \in Slaves : rg_r_beat_count'[j] # 0 => \E k \in Masters : ReadReturns(j, k)'
      BY <2>2, <2>9, <2>11
    <3>2. ASSUME NEW i \in Slaves, NEW j \in Masters, ReadReturns(i, j)'
          PROVE  p2[j] = rg_r_beat_count'[i]
      <4>1. CASE i # s /\ j # m
        <5>1. ReadReturns(i, j)
          BY <2>9, <3>2, <4>1
        <5>2. pos[j] = rg_r_beat_count[i]
          BY <1>4, <5>1 DEF Positions
        <5>3. QED
          BY <2>2, <2>4, <4>1, <5>2
      <4>2. CASE i = s /\ j = m
        BY <2>2, <2>4, <4>2
      <4>3. CASE i = s /\ j # m
        <5>1. f_rd_sjs[j] # <<>> /\ Head(f_rd_sjs[j]) = s
          BY <2>2, <3>2, <4>3 DEF ReadReturns
        <5>2. pos[j] = 0
          BY <1>4, <2>10, <4>3, <5>1 DEF Positions
        <5>3. QED
          BY <2>2, <2>4, <4>3, <5>2
      <4>4. CASE i # s /\ j = m
        <5>1. f_rd_mis[i] # <<>> /\ Head(f_rd_mis[i]).from = m
          BY <2>2, <3>2, <4>4 DEF ReadReturns
        <5>2. rg_r_beat_count[i] = 0
          BY <2>11, <4>4, <5>1 DEF ReadReturns
        <5>3. QED
          BY <2>2, <2>4, <4>4, <5>2
      <4>5. QED
        BY <4>1, <4>2, <4>3, <4>4
    <3>3. \A j \in Masters : f_rd_sjs'[j] # <<>> /\ Head(f_rd_sjs'[j]) = NoSlave =>
             p2[j] = rg_r_err_beat_count[j]
      <4>1. rg_r_err_beat_count[m] = 0
        BY <1>2, <1>4, SlaveNumbers DEF Positions
      <4>2. QED
        BY <1>4, <2>2, <2>4, <4>1 DEF Positions
    <3>4. ASSUME NEW i \in Slaves, NEW j \in Masters, p2[j] # 0, Head(f_rd_sjs'[j]) = i
          PROVE  ReadReturns(i, j)'
      <4>1. j # m /\ f_rd_sjs'[j] = f_rd_sjs[j] /\ pos[j] # 0
        BY <2>2, <2>4, <3>4
      <4>2. ReadReturns(i, j)
        BY <1>4, <3>4, <4>1 DEF Positions
      <4>3. QED
        BY <2>9, <2>10, <4>1, <4>2
    <3>5. \A j \in Masters : p2[j] # 0 => f_rd_sjs'[j] # <<>>
      BY <1>4, <2>2, <2>4 DEF Positions
    <3>6. \A j \in Masters : rg_r_err_beat_count'[j] # 0 =>
             f_rd_sjs'[j] # <<>> /\ Head(f_rd_sjs'[j]) = NoSlave
      BY <1>2, <1>4, <2>2, SlaveNumbers DEF Positions
    <3>7. QED
      BY <1>2, <2>4, <3>1, <3>2, <3>3, <3>4, <3>5, <3>6 DEF Positions
  <2>13. Reads(a2, s2, p2)'
    BY <1>10, <2>3, <2>7, <2>8, <2>12 DEF Reads, Linked
  <2>14. QED
    BY <2>13
<1>22. QED
  BY <1>11, <1>20, <1>21

LEMMA ReadError ==
    ASSUME ReadTypes, NEW at, NEW sent, NEW pos, Reads(at, sent, pos),
           NEW m \in Masters, rl_rd_resp_err_to_master(m)
    PROVE  \E a, t, p : Reads(a, t, p)'
<1>1. PICK b, r : /\ b = Head(f_rd_err_info[m])
                  /\ r = [burst |-> b, last |-> rg_r_err_beat_count[m] = b.len, resp |-> "DECERR"]
  OBVIOUS
<1>2. /\ f_rd_sjs[m] # <<>> /\ Head(f_rd_sjs[m]) = NoSlave /\ f_rd_err_info[m] # <<>>
      /\ rd_data' = Push(rd_data, m, r)
      /\ UNCHANGED <<asked_rd, taken_rd, rd_addr, s_rd_addr, s_rd_data, s_rd_served,
                     f_rd_mis, rg_r_beat_count>>
  BY <1>1 DEF rl_rd_resp_err_to_master
<1>3. /\ rg_r_err_beat_count[m] = b.len =>
            /\ f_rd_sjs' = Pop(f_rd_sjs, m) /\ f_rd_err_info' = Pop(f_rd_err_info, m)
            /\ rg_r_err_beat_count' = Count(rg_r_err_beat_count, m, 0)
      /\ rg_r_err_beat_count[m] # b.len =>
            /\ rg_r_err_beat_count' = Count(rg_r_err_beat_count, m, rg_r_err_beat_count[m] + 1)
            /\ UNCHANGED <<f_rd_sjs, f_rd_err_info>>
  BY <1>1 DEF rl_rd_resp_err_to_master, NextErrBeat
<1>4. /\ Linked(at, sent) /\ MasterReads(m, sent[m], pos[m])
      /\ sent \in [Masters -> Seq(Bursts)] /\ sent[m] \in Seq(Bursts)
      /\ Positions(pos) /\ pos \in [Masters -> Nat]
  BY DEF Reads, Linked, Positions
<1>5. /\ f_rd_sjs[m] \in Seq(0 .. NumSlaves) /\ rd_data[m] \in Seq(ReadBeats)
      /\ asked_rd[m] \in Seq(Bursts) /\ rg_r_err_beat_count[m] \in Nat
  BY DEF ReadTypes
<1>6. MasterNotes(asked_rd[m], sent[m], rd_addr[m], f_rd_sjs[m], f_rd_err_info[m], m)
  BY <1>4 DEF MasterReads
<1>7. PICK d : d = Done(asked_rd[m], sent[m], rd_addr[m])
  OBVIOUS
<1>8. /\ sent[m] # <<>> /\ sent[m][1].to = NoSlave /\ sent[m][1] \in Bursts
      /\ d < Len(asked_rd[m]) /\ asked_rd[m][d + 1] = sent[m][1]
      /\ Done(asked_rd[m], Tail(sent[m]), rd_addr[m]) = d + 1
  <2>1. OldestSent(asked_rd[m], sent[m], rd_addr[m], f_rd_sjs[m])
    BY <1>2, <1>6, NotesReturn
  <2>2. QED
    BY <1>2, <1>7, <2>1 DEF OldestSent
<1>9. /\ b = sent[m][1]
      /\ MasterNotes(asked_rd[m], Tail(sent[m]), rd_addr[m], Tail(f_rd_sjs[m]),
                     Tail(f_rd_err_info[m]), m)
  <2>1. ErrorNoted(asked_rd[m], sent[m], rd_addr[m], f_rd_sjs[m], f_rd_err_info[m], m)
    BY <1>2, <1>6, NotesError
  <2>2. QED
    BY <1>1, <2>1 DEF ErrorNoted
<1>10. /\ r \in ReadBeats /\ r.burst = b /\ r.resp = "DECERR" /\ r.last \in BOOLEAN
       /\ r.last <=> rg_r_err_beat_count[m] = b.len
  BY <1>1, <1>8, <1>9 DEF ReadBeats
<1>11. pos[m] = rg_r_err_beat_count[m]
  BY <1>2, <1>4 DEF Positions
<1>12. /\ Stream(Append(rd_data[m], r), asked_rd[m], taken_rd[m],
                 IF r.last THEN 0 ELSE pos[m] + 1, IF r.last THEN d + 1 ELSE d)
       /\ rd_data'[m] = Append(rd_data[m], r)
       /\ \A i \in 1 .. Len(Append(rd_data[m], r)) : RightResp(Append(rd_data[m], r)[i])
       /\ \A j \in Masters \ {m} : rd_data'[j] = rd_data[j]
  <2>1. Stream(rd_data[m], asked_rd[m], taken_rd[m], pos[m], d)
    BY <1>4, <1>7 DEF MasterReads
  <2>2. r.burst = asked_rd[m][d + 1] /\ (r.last <=> pos[m] = asked_rd[m][d + 1].len)
    BY <1>8, <1>9, <1>10, <1>11
  <2>3. Stream(Append(rd_data[m], r), asked_rd[m], taken_rd[m],
               IF r.last THEN 0 ELSE pos[m] + 1, IF r.last THEN d + 1 ELSE d)
    BY <1>5, <1>8, <1>10, <2>1, <2>2, StreamAppend
  <2>4. RightResp(r)
    BY <1>8, <1>9, <1>10 DEF RightResp
  <2>5. /\ Len(rd_data[m]) \in Nat /\ Len(Append(rd_data[m], r)) = Len(rd_data[m]) + 1
        /\ \A i \in 1 .. Len(rd_data[m]) : Append(rd_data[m], r)[i] = rd_data[m][i]
        /\ Append(rd_data[m], r)[Len(rd_data[m]) + 1] = r
    BY <1>5, <1>10, Appended
  <2>6. \A i \in 1 .. Len(rd_data[m]) : RightResp(rd_data[m][i])
    BY <1>4 DEF MasterReads
  <2>7. ASSUME NEW i \in 1 .. Len(Append(rd_data[m], r)) PROVE RightResp(Append(rd_data[m], r)[i])
    <3>1. CASE i = Len(rd_data[m]) + 1
      BY <2>4, <2>5, <3>1
    <3>2. CASE i \in 1 .. Len(rd_data[m])
      BY <2>5, <2>6, <3>2
    <3>3. QED
      BY <2>5, <3>1, <3>2
  <2>8. QED
    BY <1>2, <2>3, <2>7 DEF ReadTypes, Push
<1>13. ASSUME NEW j \in Slaves PROVE SlaveReads(j, at[j])'
  <2>1. SlaveReads(j, at[j])
    BY DEF Reads
  <2>2. QED
    BY <1>2, <2>1, OtherSlave
<1>14. \A i \in Slaves : ~ReadReturns(i, m)
  BY <1>2, SlaveNumbers DEF ReadReturns
<1>15. CASE ~r.last
  <2>1. /\ rg_r_err_beat_count' = Count(rg_r_err_beat_count, m, rg_r_err_beat_count[m] + 1)
        /\ UNCHANGED <<f_rd_sjs, f_rd_err_info>>
    BY <1>3, <1>10, <1>15
  <2>2. /\ rg_r_err_beat_count'[m] = rg_r_err_beat_count[m] + 1
        /\ \A j \in Masters \ {m} : rg_r_err_beat_count'[j] = rg_r_err_beat_count[j]
    BY <2>1 DEF ReadTypes, Count
  <2>3. PICK p2 : p2 = [pos EXCEPT ![m] = pos[m] + 1]
    OBVIOUS
  <2>4. /\ p2 \in [Masters -> Nat] /\ p2[m] = pos[m] + 1
        /\ \A j \in Masters \ {m} : p2[j] = pos[j]
    BY <1>4, <2>3
  <2>5. MasterReads(m, sent[m], p2[m])'
    <3>1. Stream(Append(rd_data[m], r), asked_rd[m], taken_rd[m], p2[m], d)
      BY <1>12, <1>15, <2>4
    <3>2. Stream(rd_data[m], asked_rd[m], taken_rd[m], p2[m],
                 Done(asked_rd[m], sent[m], rd_addr[m]))'
      BY <1>2, <1>7, <1>12, <3>1
    <3>3. QED
      BY <1>2, <1>6, <1>12, <2>1, <3>2 DEF MasterReads, RightResp
  <2>6. ASSUME NEW j \in Masters PROVE MasterReads(j, sent[j], p2[j])'
    <3>1. CASE j # m
      <4>1. MasterReads(j, sent[j], pos[j]) /\ p2[j] = pos[j]
        BY <2>4, <3>1 DEF Reads
      <4>2. MasterReads(j, sent[j], pos[j])'
        BY <1>2, <1>12, <2>1, <3>1, <4>1, OtherMaster
      <4>3. QED
        BY <4>1, <4>2
    <3>2. QED
      BY <2>5, <3>1
  <2>7. \A i \in Slaves, j \in Masters : ReadReturns(i, j)' <=> ReadReturns(i, j)
    BY <1>2, <2>1 DEF ReadReturns
  <2>8. Positions(p2)'
    <3>1. ASSUME NEW j \in Slaves, rg_r_beat_count'[j] # 0
          PROVE  \E k \in Masters : ReadReturns(j, k)'
      <4>1. PICK k \in Masters : ReadReturns(j, k)
        BY <1>2, <1>4, <3>1 DEF Positions
      <4>2. QED
        BY <2>7, <4>1
    <3>2. ASSUME NEW i \in Slaves, NEW j \in Masters, ReadReturns(i, j)'
          PROVE  p2[j] = rg_r_beat_count'[i]
      <4>1. ReadReturns(i, j) /\ j # m
        BY <1>14, <2>7, <3>2
      <4>2. pos[j] = rg_r_beat_count[i]
        BY <1>4, <4>1 DEF Positions
      <4>3. QED
        BY <1>2, <2>4, <4>1, <4>2
    <3>3. \A j \in Masters : f_rd_sjs[j] # <<>> /\ Head(f_rd_sjs[j]) = NoSlave =>
             p2[j] = rg_r_err_beat_count'[j]
      BY <1>4, <1>11, <2>2, <2>4 DEF Positions
    <3>4. \A j \in Masters : rg_r_err_beat_count'[j] # 0 =>
             f_rd_sjs[j] # <<>> /\ Head(f_rd_sjs[j]) = NoSlave
      BY <1>2, <1>4, <2>2 DEF Positions
    <3>5. \A j \in Masters : p2[j] # 0 => f_rd_sjs[j] # <<>>
      BY <1>2, <1>4, <2>4 DEF Positions
    <3>6. ASSUME NEW i \in Slaves, NEW j \in Masters, p2[j] # 0, Head(f_rd_sjs[j]) = i
          PROVE  ReadReturns(i, j)'
      <4>1. j # m
        BY <1>2, <3>6, SlaveNumbers
      <4>2. ReadReturns(i, j)
        BY <1>4, <2>4, <3>6, <4>1 DEF Positions
      <4>3. QED
        BY <2>7, <4>2
    <3>7. QED
      BY <2>1, <2>4, <3>1, <3>2, <3>3, <3>4, <3>5, <3>6 DEF Positions
  <2>9. Reads(at, sent, p2)'
    BY <1>4, <1>13, <2>6, <2>8 DEF Reads, Linked
  <2>10. QED
    BY <2>9
<1>16. CASE r.last
  <2>1. /\ f_rd_sjs' = Pop(f_rd_sjs, m) /\ f_rd_err_info' = Pop(f_rd_err_info, m)
        /\ rg_r_err_beat_count' = Count(rg_r_err_beat_count, m, 0)
    BY <1>3, <1>10, <1>16
  <2>2. /\ rg_r_err_beat_count'[m] = 0 /\ f_rd_sjs'[m] = Tail(f_rd_sjs[m])
        /\ f_rd_err_info'[m] = Tail(f_rd_err_info[m])
        /\ \A j \in Masters \ {m} :
              /\ rg_r_err_beat_count'[j] = rg_r_err_beat_count[j]
              /\ f_rd_sjs'[j] = f_rd_sjs[j] /\ f_rd_err_info'[j] = f_rd_err_info[j]
    BY <2>1 DEF ReadTypes, Count, Pop
  <2>3. PICK p2, s2 : p2 = [pos EXCEPT ![m] = 0] /\ s2 = Pop(sent, m)
    OBVIOUS
  <2>4. /\ p2 \in [Masters -> Nat] /\ p2[m] = 0 /\ \A j \in Masters \ {m} : p2[j] = pos[j]
        /\ s2[m] = Tail(sent[m]) /\ \A j \in Masters \ {m} : s2[j] = sent[j]
    BY <1>4, <2>3 DEF Pop
  <2>5. Linked(at, s2)
    BY <1>4, <1>8, <2>3, LinkError
  <2>6. MasterReads(m, s2[m], p2[m])'
    <3>1. Stream(Append(rd_data[m], r), asked_rd[m], taken_rd[m], 0, d + 1)
      BY <1>12, <1>16
    <3>2. MasterNotes(asked_rd[m], s2[m], rd_addr[m], f_rd_sjs[m], f_rd_err_info[m], m)'
      BY <1>2, <1>9, <2>2, <2>4
    <3>3. Stream(rd_data[m], asked_rd[m], taken_rd[m], p2[m],
                 Done(asked_rd[m], s2[m], rd_addr[m]))'
      BY <1>2, <1>8, <1>12, <2>4, <3>1
    <3>4. QED
      BY <1>12, <3>2, <3>3 DEF MasterReads, RightResp
  <2>7. ASSUME NEW j \in Masters PROVE MasterReads(j, s2[j], p2[j])'
    <3>1. CASE j # m
      <4>1. MasterReads(j, sent[j], pos[j]) /\ p2[j] = pos[j] /\ s2[j] = sent[j]
        BY <2>4, <3>1 DEF Reads
      <4>2. MasterReads(j, sent[j], pos[j])'
        BY <1>2, <1>12, <2>2, <3>1, <4>1, OtherMaster
      <4>3. QED
        BY <4>1, <4>2
    <3>2. QED
      BY <2>6, <3>1
  <2>8. \A i \in Slaves, j \in Masters \ {m} : ReadReturns(i, j)' <=> ReadReturns(i, j)
    BY <1>2, <2>2 DEF ReadReturns
  <2>9. Positions(p2)'
    <3>1. ASSUME NEW j \in Slaves, rg_r_beat_count'[j] # 0
          PROVE  \E k \in Masters : ReadReturns(j, k)'
      <4>1. PICK k \in Masters : ReadReturns(j, k)
        BY <1>2, <1>4, <3>1 DEF Positions
      <4>2. QED
        BY <1>14, <2>8, <4>1
    <3>2. ASSUME NEW i \in Slaves, NEW j \in Masters, ReadReturns(i, j)'
          PROVE  p2[j] = rg_r_beat_count'[i]
      <4>1. CASE j # m
        <5>1. ReadReturns(i, j)
          BY <2>8, <3>2, <4>1
        <5>2. pos[j] = rg_r_beat_count[i]
          BY <1>4, <5>1 DEF Positions
        <5>3. QED
          BY <1>2, <2>4, <4>1, <5>2
      <4>2. CASE j = m
        <5>1. f_rd_mis[i] # <<>> /\ Head(f_rd_mis[i]).from = m
          BY <1>2, <3>2, <4>2 DEF ReadReturns
        <5>2. rg_r_beat_count[i] = 0
          <6>1. ASSUME rg_r_beat_count[i] # 0 PROVE FALSE
            <7>1. PICK k \in Masters : ReadReturns(i, k)
              BY <1>4, <6>1 DEF Positions
            <7>2. k = m
              BY <5>1, <7>1 DEF ReadReturns
            <7>3. QED
              BY <1>14, <7>1, <7>2
          <6>2. QED
            BY <6>1
        <5>3. QED
          BY <1>2, <2>4, <4>2, <5>2
      <4>3. QED
        BY <4>1, <4>2
    <3>3. \A j \in Masters : f_rd_sjs'[j] # <<>> /\ Head(f_rd_sjs'[j]) = NoSlave =>
             p2[j] = rg_r_err_beat_count'[j]
      BY <1>4, <2>2, <2>4 DEF Positions
    <3>4. \A j \in Masters : rg_r_err_beat_count'[j] # 0 =>
             f_rd_sjs'[j] # <<>> /\ Head(f_rd_sjs'[j]) = NoSlave
      BY <1>4, <2>2 DEF Positions
    <3>5. \A j \in Masters : p2[j] # 0 => f_rd_sjs'[j] # <<>>
      BY <1>4, <2>2, <2>4 DEF Positions
    <3>6. ASSUME NEW i \in Slaves, NEW j \in Masters, p2[j] # 0, Head(f_rd_sjs'[j]) = i
          PROVE  ReadReturns(i, j)'
      <4>1. j # m /\ f_rd_sjs'[j] = f_rd_sjs[j] /\ pos[j] # 0
        BY <2>2, <2>4, <3>6
      <4>2. ReadReturns(i, j)
        BY <1>4, <3>6, <4>1 DEF Positions
      <4>3. QED
        BY <2>8, <4>1, <4>2
    <3>7. QED
      BY <2>4, <3>1, <3>2, <3>3, <3>4, <3>5, <3>6 DEF Positions
  <2>10. Reads(at, s2, p2)'
    BY <1>13, <2>5, <2>7, <2>9 DEF Reads, Linked
  <2>11. QED
    BY <2>10
<1>17. QED
  BY <1>10, <1>15, <1>16

LEMMA ReadAsk ==
    ASSUME ReadTypes, NEW at, NEW sent, NEW pos, Reads(at, sent, pos),
           NEW c \in RdBursts, MasterRead(c)
    PROVE  \E a, t, p : Reads(a, t, p)'
<1>1. PICK m, b : m = c.master /\ b = Tagged(c, NextTag(asked_rd[m]))
  OBVIOUS
<1>2. /\ rd_addr' = Push(rd_addr, m, b) /\ asked_rd' = Push(asked_rd, m, b)
      /\ UNCHANGED <<taken_rd, rd_data, s_rd_addr, s_rd_data, s_rd_served,
                     f_rd_sjs, f_rd_mis, rg_r_beat_count, f_rd_err_info, rg_r_err_beat_count>>
  BY <1>1 DEF MasterRead
<1>3. m \in Masters /\ b \in Bursts /\ b.master = m
  <2>1. m \in Masters
    BY <1>1, FabricAssumption
  <2>2. asked_rd[m] \in Seq(Bursts)
    BY <2>1 DEF ReadTypes
  <2>3. QED
    BY <1>1, <2>1, <2>2, AskedBurst
<1>4. /\ Linked(at, sent) /\ MasterReads(m, sent[m], pos[m])
      /\ sent \in [Masters -> Seq(Bursts)] /\ Positions(pos)
  BY <1>3 DEF Reads, Linked
<1>5. asked_rd[m] \in Seq(Bursts) /\ rd_addr[m] \in Seq(Bursts) /\ Len(rd_data[m]) \in Nat
  BY <1>3, LenProperties DEF ReadTypes
<1>6. /\ rd_addr'[m] = Append(rd_addr[m], b) /\ asked_rd'[m] = Append(asked_rd[m], b)
      /\ \A j \in Masters \ {m} : rd_addr'[j] = rd_addr[j] /\ asked_rd'[j] = asked_rd[j]
  BY <1>2, <1>3 DEF ReadTypes, Push
<1>7. MasterReads(m, sent[m], pos[m])'
  <2>1. MasterNotes(asked_rd[m], sent[m], rd_addr[m], f_rd_sjs[m], f_rd_err_info[m], m)
    BY <1>4 DEF MasterReads
  <2>2. /\ MasterNotes(Append(asked_rd[m], b), sent[m], Append(rd_addr[m], b), f_rd_sjs[m],
                       f_rd_err_info[m], m)
        /\ Done(Append(asked_rd[m], b), sent[m], Append(rd_addr[m], b))
              = Done(asked_rd[m], sent[m], rd_addr[m])
    BY <1>3, <2>1, NotesAsk
  <2>3. Stream(rd_data[m], Append(asked_rd[m], b), taken_rd[m], pos[m],
               Done(asked_rd[m], sent[m], rd_addr[m]))
    BY <1>3, <1>4, <1>5, StreamMore DEF MasterReads
  <2>4. Stream(rd_data[m], asked_rd[m], taken_rd[m], pos[m], Done(asked_rd[m], sent[m], rd_addr[m]))'
    BY <1>2, <1>6, <2>2, <2>3
  <2>5. MasterNotes(asked_rd[m], sent[m], rd_addr[m], f_rd_sjs[m], f_rd_err_info[m], m)'
    BY <1>2, <1>6, <2>2
  <2>6. QED
    BY <1>2, <1>4, <2>4, <2>5 DEF MasterReads, RightResp
<1>8. ASSUME NEW j \in Masters PROVE MasterReads(j, sent[j], pos[j])'
  <2>1. CASE j # m
    BY <1>2, <1>6, <2>1, OtherMaster DEF Reads
  <2>2. QED
    BY <1>7, <2>1
<1>9. ASSUME NEW j \in Slaves PROVE SlaveReads(j, at[j])'
  BY <1>2, OtherSlave DEF Reads
<1>10. Positions(pos)'
  BY <1>2, <1>4 DEF Positions, ReadReturns
<1>11. Reads(at, sent, pos)'
  BY <1>4, <1>8, <1>9, <1>10 DEF Reads, Linked
<1>12. QED
  BY <1>11

LEMMA ReadTake ==
    ASSUME ReadTypes, NEW at, NEW sent, NEW pos, Reads(at, sent, pos),
           NEW m \in Masters, MasterTakesData(m)
    PROVE  \E a, t, p : Reads(a, t, p)'
<1>1. /\ rd_data[m] # <<>> /\ rd_data' = Pop(rd_data, m)
      /\ UNCHANGED <<rd_addr, s_rd_addr, s_rd_data, s_rd_served, f_rd_sjs,
                     f_rd_mis, rg_r_beat_count, f_rd_err_info, rg_r_err_beat_count>>
      /\ Head(rd_data[m]).last => asked_rd' = Pop(asked_rd, m) /\ taken_rd' = Count(taken_rd, m, 0)
      /\ ~Head(rd_data[m]).last =>
            /\ taken_rd' = Count(taken_rd, m, Min({taken_rd[m], Head(asked_rd[m]).len}) + 1)
            /\ asked_rd' = asked_rd
  BY DEF MasterTakesData
<1>2. /\ Linked(at, sent) /\ MasterReads(m, sent[m], pos[m])
      /\ sent \in [Masters -> Seq(Bursts)] /\ Positions(pos)
  BY DEF Reads, Linked
<1>3. /\ asked_rd[m] \in Seq(Bursts) /\ rd_data[m] \in Seq(ReadBeats) /\ taken_rd[m] \in Nat
      /\ asked_rd \in [Masters -> Seq(Bursts)] /\ taken_rd \in [Masters -> Nat]
      /\ rd_data \in [Masters -> Seq(ReadBeats)]
  BY DEF ReadTypes
<1>4. PICK d : d = Done(asked_rd[m], sent[m], rd_addr[m])
  OBVIOUS
<1>5. MasterNotes(asked_rd[m], sent[m], rd_addr[m], f_rd_sjs[m], f_rd_err_info[m], m)
  BY <1>2 DEF MasterReads
<1>6. /\ Head(rd_data[m]) = rd_data[m][1] /\ Len(rd_data[m]) \in Nat
      /\ Len(Tail(rd_data[m])) = Len(rd_data[m]) - 1
      /\ \A i \in 1 .. Len(rd_data[m]) - 1 : Tail(rd_data[m])[i] = rd_data[m][i + 1]
  BY <1>1, <1>3, Popped
<1>7. PICK r : r = rd_data[m][1]
  OBVIOUS
<1>8. /\ asked_rd[m] # <<>> /\ r.burst = asked_rd[m][1] /\ (r.last <=> taken_rd[m] = asked_rd[m][1].len)
      /\ r.last => d > 0 /\ Stream(Tail(rd_data[m]), Tail(asked_rd[m]), 0, pos[m], d - 1)
      /\ ~r.last => /\ taken_rd[m] < asked_rd[m][1].len
                    /\ Stream(Tail(rd_data[m]), asked_rd[m], taken_rd[m] + 1, pos[m], d)
  <2>1. Stream(rd_data[m], asked_rd[m], taken_rd[m], pos[m], d)
    BY <1>2, <1>4 DEF MasterReads
  <2>2. QED
    BY <1>1, <1>3, <1>7, <2>1, StreamTail
<1>9. /\ rd_data'[m] = Tail(rd_data[m]) /\ \A j \in Masters \ {m} : rd_data'[j] = rd_data[j]
  BY <1>1, <1>3 DEF Pop
<1>10. \A i \in 1 .. Len(Tail(rd_data[m])) : RightResp(Tail(rd_data[m])[i])
  <2>1. ASSUME NEW i \in 1 .. Len(rd_data[m]) - 1 PROVE RightResp(Tail(rd_data[m])[i])
    <3>1. i + 1 \in 1 .. Len(rd_data[m])
      BY <1>6
    <3>2. RightResp(rd_data[m][i + 1])
      BY <1>2, <3>1 DEF MasterReads
    <3>3. QED
      BY <1>6, <3>2
  <2>2. QED
    BY <1>6, <2>1
<1>11. /\ MasterReads(m, sent[m], pos[m])'
       /\ \A j \in Masters \ {m} : asked_rd'[j] = asked_rd[j] /\ taken_rd'[j] = taken_rd[j]
  <2>1. CASE r.last
    <3>1. asked_rd' = Pop(asked_rd, m) /\ taken_rd' = Count(taken_rd, m, 0)
      BY <1>1, <1>6, <1>7, <2>1
    <3>2. /\ asked_rd'[m] = Tail(asked_rd[m]) /\ taken_rd'[m] = 0
          /\ \A j \in Masters \ {m} : asked_rd'[j] = asked_rd[j] /\ taken_rd'[j] = taken_rd[j]
      BY <1>3, <3>1 DEF Pop, Count
    <3>3. /\ MasterNotes(Tail(asked_rd[m]), sent[m], rd_addr[m], f_rd_sjs[m], f_rd_err_info[m], m)
          /\ Done(Tail(asked_rd[m]), sent[m], rd_addr[m]) = d - 1
      BY <1>4, <1>5, <1>8, <2>1, NotesTake
    <3>4. Stream(Tail(rd_data[m]), Tail(asked_rd[m]), 0, pos[m], d - 1)
      BY <1>8, <2>1
    <3>5. Stream(rd_data[m], asked_rd[m], taken_rd[m], pos[m],
                 Done(asked_rd[m], sent[m], rd_addr[m]))'
      BY <1>1, <1>9, <3>2, <3>3, <3>4
    <3>6. MasterNotes(asked_rd[m], sent[m], rd_addr[m], f_rd_sjs[m], f_rd_err_info[m], m)'
      BY <1>1, <3>2, <3>3
    <3>7. QED
      BY <1>9, <1>10, <3>2, <3>5, <3>6 DEF MasterReads, RightResp
  <2>2. CASE ~r.last
    <3>1. Head(asked_rd[m]) = asked_rd[m][1] /\ asked_rd[m][1] \in Bursts
      BY <1>3, <1>8, Popped
    <3>2. asked_rd[m][1].len \in Nat
      BY <3>1, BurstFields
    <3>3. Min({taken_rd[m], asked_rd[m][1].len}) = taken_rd[m]
      <4>1. PICK x \in Nat, y \in Nat : x = taken_rd[m] /\ y = asked_rd[m][1].len
        BY <1>3, <3>2
      <4>2. x <= y
        BY <1>8, <2>2, <4>1
      <4>3. QED
        BY <4>1, <4>2, MinOfTwo
    <3>4. asked_rd' = asked_rd /\ taken_rd' = Count(taken_rd, m, taken_rd[m] + 1)
      BY <1>1, <1>6, <1>7, <2>2, <3>1, <3>3
    <3>5. taken_rd'[m] = taken_rd[m] + 1 /\ \A j \in Masters \ {m} : taken_rd'[j] = taken_rd[j]
      BY <1>3, <3>4 DEF Count
    <3>6. Stream(Tail(rd_data[m]), asked_rd[m], taken_rd[m] + 1, pos[m], d)
      BY <1>8, <2>2
    <3>7. Stream(rd_data[m], asked_rd[m], taken_rd[m], pos[m],
                 Done(asked_rd[m], sent[m], rd_addr[m]))'
      BY <1>1, <1>4, <1>9, <3>4, <3>5, <3>6
    <3>8. QED
      BY <1>1, <1>5, <1>9, <1>10, <3>4, <3>5, <3>7 DEF MasterReads, RightResp
  <2>3. QED
    BY <2>1, <2>2
<1>12. ASSUME NEW j \in Masters PROVE MasterReads(j, sent[j], pos[j])'
  <2>1. CASE j # m
    BY <1>1, <1>9, <1>11, <2>1, OtherMaster DEF Reads
  <2>2. QED
    BY <1>11, <2>1
<1>13. ASSUME NEW j \in Slaves PROVE SlaveReads(j, at[j])'
  BY <1>1, OtherSlave DEF Reads
<1>14. Positions(pos)'
  BY <1>1, <1>2 DEF Positions, ReadReturns
<1>15. Reads(at, sent, pos)'
  BY <1>2, <1>12, <1>13, <1>14 DEF Reads, Linked
<1>16. QED
  BY <1>15

LEMMA ReadServe ==
    ASSUME ReadTypes, NEW at, NEW sent, NEW pos, Reads(at, sent, pos),
           NEW s \in Slaves, SlaveRead(s)
    PROVE  \E a, t, p : Reads(a, t, p)'
<1>1. PICK b, r : /\ b = Head(s_rd_addr[s])
                  /\ r = [burst |-> b, last |-> s_rd_served[s] = b.len, resp |-> "OKAY"]
  OBVIOUS
<1>2. /\ s_rd_addr[s] # <<>> /\ s_rd_data' = Push(s_rd_data, s, r)
      /\ s_rd_addr' = (IF s_rd_served[s] = b.len THEN Pop(s_rd_addr, s) ELSE s_rd_addr)
      /\ s_rd_served' = Count(s_rd_served, s, IF s_rd_served[s] = b.len THEN 0 ELSE s_rd_served[s] + 1)
      /\ UNCHANGED <<asked_rd, taken_rd, rd_addr, rd_data, f_rd_sjs, f_rd_mis,
                     rg_r_beat_count, f_rd_err_info, rg_r_err_beat_count>>
  BY <1>1 DEF SlaveRead
<1>3. /\ Linked(at, sent) /\ SlaveReads(s, at[s]) /\ Positions(pos) /\ at[s] \in Seq(Bursts)
  BY DEF Reads, Linked
<1>4. /\ s_rd_addr[s] \in Seq(Bursts) /\ s_rd_data[s] \in Seq(ReadBeats) /\ s_rd_served[s] \in Nat
      /\ s_rd_addr \in [Slaves -> Seq(Bursts)] /\ s_rd_data \in [Slaves -> Seq(ReadBeats)]
      /\ s_rd_served \in [Slaves -> Nat]
  BY DEF ReadTypes
<1>5. PICK d : d = Done(at[s], <<>>, s_rd_addr[s])
  OBVIOUS
<1>6. /\ d < Len(at[s]) /\ at[s][d + 1] = b /\ Split(at[s], <<>>, Tail(s_rd_addr[s]))
      /\ Done(at[s], <<>>, Tail(s_rd_addr[s])) = d + 1
  <2>1. Split(at[s], <<>>, s_rd_addr[s])
    BY <1>3 DEF SlaveReads
  <2>2. QED
    BY <1>1, <1>2, <1>3, <1>4, <1>5, <2>1, SplitRest
<1>7. b \in Bursts
  BY <1>1, <1>2, <1>4, Popped
<1>8. /\ r \in ReadBeats /\ r.burst = b /\ r.resp = "OKAY" /\ r.last \in BOOLEAN
      /\ r.last <=> s_rd_served[s] = b.len
  BY <1>1, <1>7 DEF ReadBeats
<1>9. /\ s_rd_data'[s] = Append(s_rd_data[s], r)
      /\ s_rd_addr'[s] = IF r.last THEN Tail(s_rd_addr[s]) ELSE s_rd_addr[s]
      /\ s_rd_served'[s] = IF r.last THEN 0 ELSE s_rd_served[s] + 1
      /\ \A j \in Slaves \ {s} : /\ s_rd_data'[j] = s_rd_data[j] /\ s_rd_addr'[j] = s_rd_addr[j]
                                 /\ s_rd_served'[j] = s_rd_served[j]
  BY <1>2, <1>4, <1>8 DEF Push, Pop, Count
<1>10. Stream(Append(s_rd_data[s], r), at[s], rg_r_beat_count[s],
              IF r.last THEN 0 ELSE s_rd_served[s] + 1, IF r.last THEN d + 1 ELSE d)
  <2>1. Stream(s_rd_data[s], at[s], rg_r_beat_count[s], s_rd_served[s], d)
    BY <1>3, <1>5 DEF SlaveReads
  <2>2. r.burst = at[s][d + 1] /\ (r.last <=> s_rd_served[s] = at[s][d + 1].len)
    BY <1>6, <1>8
  <2>3. QED
    BY <1>3, <1>4, <1>6, <1>8, <2>1, <2>2, StreamAppend
<1>11. SlaveReads(s, at[s])'
  <2>1. /\ Split(at[s], <<>>, s_rd_addr[s])'
        /\ Done(at[s], <<>>, s_rd_addr[s])' = IF r.last THEN d + 1 ELSE d
    <3>1. CASE r.last
      BY <1>6, <1>9, <3>1
    <3>2. CASE ~r.last
      BY <1>3, <1>5, <1>9, <3>2 DEF SlaveReads
    <3>3. QED
      BY <3>1, <3>2
  <2>2. Stream(s_rd_data[s], at[s], rg_r_beat_count[s], s_rd_served[s],
               Done(at[s], <<>>, s_rd_addr[s]))'
    BY <1>2, <1>9, <1>10, <2>1
  <2>3. /\ Len(s_rd_data[s]) \in Nat /\ Len(Append(s_rd_data[s], r)) = Len(s_rd_data[s]) + 1
        /\ \A i \in 1 .. Len(s_rd_data[s]) : Append(s_rd_data[s], r)[i] = s_rd_data[s][i]
        /\ Append(s_rd_data[s], r)[Len(s_rd_data[s]) + 1] = r
    BY <1>4, <1>8, Appended
  <2>4. ASSUME NEW i \in 1 .. Len(Append(s_rd_data[s], r))
        PROVE  Append(s_rd_data[s], r)[i].resp = "OKAY"
    <3>1. CASE i = Len(s_rd_data[s]) + 1
      BY <1>8, <2>3, <3>1
    <3>2. CASE i \in 1 .. Len(s_rd_data[s])
      <4>1. s_rd_data[s][i].resp = "OKAY"
        BY <1>3, <3>2 DEF SlaveReads
      <4>2. QED
        BY <2>3, <3>2, <4>1
    <3>3. QED
      BY <2>3, <3>1, <3>2
  <2>5. \A i \in 1 .. Len(s_rd_data'[s]) : s_rd_data'[s][i].resp = "OKAY"
    BY <1>9, <2>4
  <2>6. /\ Len(f_rd_mis'[s]) = Len(at[s])
        /\ \A i \in 1 .. Len(at[s]) : f_rd_mis'[s][i] = [from |-> at[s][i].master, len |-> at[s][i].len]
    BY <1>2, <1>3 DEF SlaveReads
  <2>7. QED
    BY <2>1, <2>2, <2>5, <2>6 DEF SlaveReads
<1>12. ASSUME NEW j \in Slaves PROVE SlaveReads(j, at[j])'
  <2>1. CASE j # s
    BY <1>2, <1>9, <2>1, OtherSlave DEF Reads
  <2>2. QED
    BY <1>11, <2>1
<1>13. ASSUME NEW j \in Masters PROVE MasterReads(j, sent[j], pos[j])'
  BY <1>2, OtherMaster DEF Reads
<1>14. Positions(pos)'
  BY <1>2, <1>3 DEF Positions, ReadReturns
<1>15. Reads(at, sent, pos)'
  BY <1>3, <1>12, <1>13, <1>14 DEF Reads, Linked
<1>16. QED
  BY <1>15

LEMMA ReadsUnchanged ==
    ASSUME NEW at, NEW sent, NEW pos, Reads(at, sent, pos), UNCHANGED rdVars
    PROVE  Reads(at, sent, pos)'
<1>1. UNCHANGED <<asked_rd, taken_rd, rd_addr, rd_data, s_rd_addr, s_rd_data, s_rd_served,
                  f_rd_sjs, f_rd_mis, rg_r_beat_count, f_rd_err_info, rg_r_err_beat_count>>
  BY DEF rdVars
<1>2. ASSUME NEW m \in Masters PROVE MasterReads(m, sent[m], pos[m])'
  BY <1>1, OtherMaster DEF Reads
<1>3. ASSUME NEW s \in Slaves PROVE SlaveReads(s, at[s])'
  BY <1>1, OtherSlave DEF Reads
<1>4. Positions(pos)'
  BY <1>1 DEF Reads, Positions, ReadReturns
<1>5. QED
  BY <1>2, <1>3, <1>4 DEF Reads, Linked
-----------------------------------------------------------------------------
(* The types of reads.                                                      *)

\* What a step does to the reads.
LEMMA StepsOfReads ==
    ASSUME [Next]_vars
    PROVE  \/ UNCHANGED <<rg_reset, rdVars>>
           \/ rl_reset
           \/ \E m \in Masters, s \in Slaves : rl_rd_xaction_master_to_slave(m, s)
           \/ \E m \in Masters : rl_rd_xaction_no_such_slave(m)
           \/ \E m \in Masters, s \in Slaves : rl_rd_resp_slave_to_master(m, s)
           \/ \E m \in Masters : rl_rd_resp_err_to_master(m)
           \/ \E c \in RdBursts : MasterRead(c)
           \/ \E m \in Masters : MasterTakesData(m)
           \/ \E s \in Slaves : SlaveRead(s)
<1>1. CASE UNCHANGED vars
  BY <1>1 DEF vars
<1>2. ASSUME NEW m \in Masters, WriteRules(m) PROVE UNCHANGED <<rg_reset, rdVars>>
  BY <1>2 DEF WriteRules, rl_wr_xaction_master_to_slave, rl_wr_xaction_no_such_slave,
              rl_wr_xaction_master_to_slave_data, rl_wr_resp_slave_to_master,
              rl_wr_resp_err_to_master
<1>3. ASSUME NEW c \in WrBursts, MasterWrite(c) PROVE UNCHANGED <<rg_reset, rdVars>>
  BY <1>3 DEF MasterWrite
<1>4. ASSUME NEW m \in Masters, MasterData(m) \/ MasterTakesResp(m)
      PROVE  UNCHANGED <<rg_reset, rdVars>>
  BY <1>4 DEF MasterData, MasterTakesResp
<1>5. ASSUME NEW s \in Slaves, SlaveWrite(s) PROVE UNCHANGED <<rg_reset, rdVars>>
  BY <1>5 DEF SlaveWrite
<1>6. QED
  BY <1>1, <1>2, <1>3, <1>4, <1>5 DEF Next, ReadRules

LEMMA ReadTypesStep ==
    ASSUME ReadTypes, NEW at, NEW sent, NEW pos, Reads(at, sent, pos), [Next]_vars
    PROVE  ReadTypes'
<1> USE DEF ReadTypes
<1>1. CASE UNCHANGED <<rg_reset, rdVars>>
  BY <1>1 DEF rdVars
<1>2. CASE rl_reset
  BY <1>2, EmptyType, CountType DEF rl_reset
<1>3. ASSUME NEW m \in Masters, NEW s \in Slaves, rl_rd_xaction_master_to_slave(m, s)
      PROVE  ReadTypes'
  <2>1. PICK b : b = Head(rd_addr[m])
    OBVIOUS
  <2>2. /\ s_rd_addr' = Push(s_rd_addr, s, b) /\ rd_addr' = Pop(rd_addr, m) /\ rd_addr[m] # <<>>
        /\ f_rd_mis' = Push(f_rd_mis, s, [from |-> m, len |-> b.len])
        /\ f_rd_sjs' = Push(f_rd_sjs, m, s)
        /\ UNCHANGED <<rg_reset, asked_rd, taken_rd, rd_data, s_rd_data, s_rd_served,
                       rg_r_beat_count, f_rd_err_info, rg_r_err_beat_count>>
    BY <1>3, <2>1 DEF rl_rd_xaction_master_to_slave, HasRead
  <2>3. b \in Bursts
    BY <2>1, <2>2, Popped
  <2>4. [from |-> m, len |-> b.len] \in ReadNotes /\ s \in 0 .. NumSlaves
    BY <2>3, BurstFields, SlaveNumbers DEF ReadNotes
  <2>5. f_rd_mis' \in [Slaves -> Seq(ReadNotes)]
    BY <2>2, <2>4, PushType
  <2>6. f_rd_sjs' \in [Masters -> Seq(0 .. NumSlaves)]
    BY <2>2, <2>4, PushType
  <2>7. s_rd_addr' \in [Slaves -> Seq(Bursts)]
    BY <2>2, <2>3, PushType
  <2>8. rd_addr' \in [Masters -> Seq(Bursts)]
    BY <2>2, PopType
  <2>9. QED
    BY <2>2, <2>5, <2>6, <2>7, <2>8
<1>4. ASSUME NEW m \in Masters, rl_rd_xaction_no_such_slave(m)
      PROVE  ReadTypes'
  <2>1. PICK b : b = Head(rd_addr[m])
    OBVIOUS
  <2>2. /\ rd_addr' = Pop(rd_addr, m) /\ rd_addr[m] # <<>>
        /\ f_rd_sjs' = Push(f_rd_sjs, m, NoSlave)
        /\ f_rd_err_info' = Push(f_rd_err_info, m, b)
        /\ UNCHANGED <<rg_reset, asked_rd, taken_rd, rd_data, s_rd_addr, s_rd_data, s_rd_served,
                       f_rd_mis, rg_r_beat_count, rg_r_err_beat_count>>
    BY <1>4, <2>1 DEF rl_rd_xaction_no_such_slave, HasRead
  <2>3. b \in Bursts
    BY <2>1, <2>2, Popped
  <2>4. f_rd_sjs' \in [Masters -> Seq(0 .. NumSlaves)]
    BY <2>2, SlaveNumbers, PushType
  <2>5. f_rd_err_info' \in [Masters -> Seq(Bursts)]
    BY <2>2, <2>3, PushType
  <2>6. rd_addr' \in [Masters -> Seq(Bursts)]
    BY <2>2, PopType
  <2>7. QED
    BY <2>2, <2>4, <2>5, <2>6
<1>5. ASSUME NEW m \in Masters, NEW s \in Slaves, rl_rd_resp_slave_to_master(m, s)
      PROVE  ReadTypes'
  <2>1. PICK r, x : /\ r = Head(s_rd_data[s])
                    /\ x = IF rg_r_beat_count[s] = Head(f_rd_mis[s]).len
                           THEN IF r.last THEN r ELSE [r EXCEPT !.resp = "SLVERR"] ELSE r
    OBVIOUS
  <2>2. /\ s_rd_data[s] # <<>> /\ f_rd_mis[s] # <<>> /\ f_rd_sjs[m] # <<>>
        /\ s_rd_data' = Pop(s_rd_data, s) /\ rd_data' = Push(rd_data, m, x)
        /\ f_rd_mis' = Pop(f_rd_mis, s) \/ f_rd_mis' = f_rd_mis
        /\ f_rd_sjs' = Pop(f_rd_sjs, m) \/ f_rd_sjs' = f_rd_sjs
        /\ \/ rg_r_beat_count' = Count(rg_r_beat_count, s, 0)
           \/ rg_r_beat_count' = Count(rg_r_beat_count, s, rg_r_beat_count[s] + 1)
        /\ UNCHANGED <<rg_reset, asked_rd, taken_rd, rd_addr, s_rd_addr, s_rd_served,
                       f_rd_err_info, rg_r_err_beat_count>>
    BY <1>5, <2>1 DEF rl_rd_resp_slave_to_master, ReadReturns
  <2>3. r \in ReadBeats
    BY <2>1, <2>2, Popped
  <2>4. x \in ReadBeats
    BY <2>1, <2>3 DEF ReadBeats
  <2>5. rd_data' \in [Masters -> Seq(ReadBeats)]
    BY <2>2, <2>4, PushType
  <2>6. s_rd_data' \in [Slaves -> Seq(ReadBeats)]
    BY <2>2, PopType
  <2>7. f_rd_mis' \in [Slaves -> Seq(ReadNotes)]
    <3>1. Pop(f_rd_mis, s) \in [Slaves -> Seq(ReadNotes)]
      BY <2>2, PopType
    <3>2. QED
      BY <2>2, <3>1
  <2>8. f_rd_sjs' \in [Masters -> Seq(0 .. NumSlaves)]
    <3>1. Pop(f_rd_sjs, m) \in [Masters -> Seq(0 .. NumSlaves)]
      BY <2>2, PopType
    <3>2. QED
      BY <2>2, <3>1
  <2>9. rg_r_beat_count' \in [Slaves -> Nat]
    <3>1. /\ Count(rg_r_beat_count, s, 0) \in [Slaves -> Nat]
            /\ Count(rg_r_beat_count, s, rg_r_beat_count[s] + 1) \in [Slaves -> Nat]
      BY <2>2 DEF Count
    <3>2. QED
      BY <2>2, <3>1
  <2>10. QED
    BY <2>2, <2>5, <2>6, <2>7, <2>8, <2>9
<1>6. ASSUME NEW m \in Masters, rl_rd_resp_err_to_master(m)
      PROVE  ReadTypes'
  <2>1. PICK b, r : /\ b = Head(f_rd_err_info[m])
                    /\ r = [burst |-> b, last |-> rg_r_err_beat_count[m] = b.len, resp |-> "DECERR"]
    OBVIOUS
  <2>2. /\ f_rd_sjs[m] # <<>> /\ f_rd_err_info[m] # <<>> /\ rd_data' = Push(rd_data, m, r)
        /\ f_rd_sjs' = Pop(f_rd_sjs, m) \/ f_rd_sjs' = f_rd_sjs
        /\ f_rd_err_info' = Pop(f_rd_err_info, m) \/ f_rd_err_info' = f_rd_err_info
        /\ \/ rg_r_err_beat_count' = Count(rg_r_err_beat_count, m, 0)
           \/ rg_r_err_beat_count' = Count(rg_r_err_beat_count, m, rg_r_err_beat_count[m] + 1)
        /\ UNCHANGED <<rg_reset, asked_rd, taken_rd, rd_addr, s_rd_addr, s_rd_data, s_rd_served,
                       f_rd_mis, rg_r_beat_count>>
    BY <1>6, <2>1 DEF rl_rd_resp_err_to_master, NextErrBeat
  <2>3. b \in Bursts
    BY <2>1, <2>2, Popped
  <2>4. r \in ReadBeats
    BY <2>1, <2>3 DEF ReadBeats
  <2>5. rd_data' \in [Masters -> Seq(ReadBeats)]
    BY <2>2, <2>4, PushType
  <2>6. f_rd_sjs' \in [Masters -> Seq(0 .. NumSlaves)]
    <3>1. Pop(f_rd_sjs, m) \in [Masters -> Seq(0 .. NumSlaves)]
      BY <2>2, PopType
    <3>2. QED
      BY <2>2, <3>1
  <2>7. f_rd_err_info' \in [Masters -> Seq(Bursts)]
    <3>1. Pop(f_rd_err_info, m) \in [Masters -> Seq(Bursts)]
      BY <2>2, PopType
    <3>2. QED
      BY <2>2, <3>1
  <2>8. rg_r_err_beat_count' \in [Masters -> Nat]
    <3>1. /\ Count(rg_r_err_beat_count, m, 0) \in [Masters -> Nat]
            /\ Count(rg_r_err_beat_count, m, rg_r_err_beat_count[m] + 1) \in [Masters -> Nat]
      BY <2>2 DEF Count
    <3>2. QED
      BY <2>2, <3>1
  <2>9. QED
    BY <2>2, <2>5, <2>6, <2>7, <2>8
<1>7. ASSUME NEW c \in RdBursts, MasterRead(c)
      PROVE  ReadTypes'
  <2>1. PICK m, b : m = c.master /\ b = Tagged(c, NextTag(asked_rd[m]))
    OBVIOUS
  <2>2. /\ rd_addr' = Push(rd_addr, m, b) /\ asked_rd' = Push(asked_rd, m, b)
        /\ UNCHANGED <<rg_reset, taken_rd, rd_data, s_rd_addr, s_rd_data, s_rd_served,
                       f_rd_sjs, f_rd_mis, rg_r_beat_count, f_rd_err_info, rg_r_err_beat_count>>
    BY <1>7, <2>1 DEF MasterRead
  <2>3. m \in Masters
    BY <2>1, FabricAssumption
  <2>4. b \in Bursts
    BY <2>1, <2>3, AskedBurst
  <2>5. rd_addr' \in [Masters -> Seq(Bursts)] /\ asked_rd' \in [Masters -> Seq(Bursts)]
    BY <2>2, <2>3, <2>4, PushType
  <2>6. QED
    BY <2>2, <2>5
<1>8. ASSUME NEW m \in Masters, MasterTakesData(m)
      PROVE  ReadTypes'
  <2>1. /\ rd_data[m] # <<>> /\ rd_data' = Pop(rd_data, m)
        /\ asked_rd' = Pop(asked_rd, m) \/ asked_rd' = asked_rd
        /\ \/ taken_rd' = Count(taken_rd, m, 0)
           \/ taken_rd' = Count(taken_rd, m, Min({taken_rd[m], Head(asked_rd[m]).len}) + 1)
        /\ UNCHANGED <<rg_reset, rd_addr, s_rd_addr, s_rd_data, s_rd_served, f_rd_sjs,
                       f_rd_mis, rg_r_beat_count, f_rd_err_info, rg_r_err_beat_count>>
    BY <1>8 DEF MasterTakesData
  <2>2. /\ asked_rd[m] # <<>> /\ taken_rd[m] \in Nat
        /\ taken_rd[m] <= asked_rd[m][1].len
    <3>1. PICK d : Stream(rd_data[m], asked_rd[m], taken_rd[m], pos[m], d)
      BY DEF Reads, MasterReads
    <3>2. asked_rd[m] # <<>>
      BY <2>1, <3>1, StreamTail
    <3>3. QED
      BY <3>1, <3>2 DEF Stream
  <2>3. Min({taken_rd[m], Head(asked_rd[m]).len}) \in Nat
    <3>1. Head(asked_rd[m]) = asked_rd[m][1] /\ asked_rd[m][1] \in Bursts
      BY <2>2, Popped
    <3>2. PICK x \in Nat, y \in Nat : x = taken_rd[m] /\ y = Head(asked_rd[m]).len
      BY <2>2, <3>1, BurstFields
    <3>3. x <= y
      BY <2>2, <3>1, <3>2
    <3>4. QED
      BY <3>2, <3>3, MinOfTwo
  <2>4. rd_data' \in [Masters -> Seq(ReadBeats)]
    BY <2>1, PopType
  <2>5. asked_rd' \in [Masters -> Seq(Bursts)]
    <3>1. Pop(asked_rd, m) \in [Masters -> Seq(Bursts)]
      BY <2>1, <2>2, PopType
    <3>2. QED
      BY <2>1, <3>1
  <2>6. taken_rd' \in [Masters -> Nat]
    <3>1. /\ Count(taken_rd, m, 0) \in [Masters -> Nat]
            /\ Count(taken_rd, m, Min({taken_rd[m], Head(asked_rd[m]).len}) + 1) \in [Masters -> Nat]
      BY <2>1, <2>3 DEF Count
    <3>2. QED
      BY <2>1, <3>1
  <2>7. QED
    BY <2>1, <2>4, <2>5, <2>6
<1>9. ASSUME NEW s \in Slaves, SlaveRead(s)
      PROVE  ReadTypes'
  <2>1. PICK b, r : /\ b = Head(s_rd_addr[s])
                    /\ r = [burst |-> b, last |-> s_rd_served[s] = b.len, resp |-> "OKAY"]
    OBVIOUS
  <2>2. /\ s_rd_addr[s] # <<>> /\ s_rd_data' = Push(s_rd_data, s, r)
        /\ s_rd_addr' = Pop(s_rd_addr, s) \/ s_rd_addr' = s_rd_addr
        /\ \/ s_rd_served' = Count(s_rd_served, s, 0)
           \/ s_rd_served' = Count(s_rd_served, s, s_rd_served[s] + 1)
        /\ UNCHANGED <<rg_reset, asked_rd, taken_rd, rd_addr, rd_data, f_rd_sjs, f_rd_mis,
                       rg_r_beat_count, f_rd_err_info, rg_r_err_beat_count>>
    BY <1>9, <2>1 DEF SlaveRead
  <2>3. b \in Bursts
    BY <2>1, <2>2, Popped
  <2>4. r \in ReadBeats
    BY <2>1, <2>3 DEF ReadBeats
  <2>5. s_rd_data' \in [Slaves -> Seq(ReadBeats)]
    BY <2>2, <2>4, PushType
  <2>6. s_rd_addr' \in [Slaves -> Seq(Bursts)]
    <3>1. Pop(s_rd_addr, s) \in [Slaves -> Seq(Bursts)]
      BY <2>2, PopType
    <3>2. QED
      BY <2>2, <3>1
  <2>7. s_rd_served' \in [Slaves -> Nat]
    <3>1. /\ Count(s_rd_served, s, 0) \in [Slaves -> Nat]
            /\ Count(s_rd_served, s, s_rd_served[s] + 1) \in [Slaves -> Nat]
      BY <2>2 DEF Count
    <3>2. QED
      BY <2>2, <3>1
  <2>8. QED
    BY <2>2, <2>5, <2>6, <2>7
<1>10. QED
  BY <1>1, <1>2, <1>3, <1>4, <1>5, <1>6, <1>7, <1>8, <1>9, StepsOfReads
-----------------------------------------------------------------------------
(* The invariant of reads holds.                                            *)

\* Before the reset nothing is asked, and the reset finds nothing to clear.
LEMMA ReadsWait ==
    ASSUME [Next]_vars, rg_reset, ReadsEmpty
    PROVE  UNCHANGED rdVars
<1> USE DEF ReadsEmpty, EmptyPer, ZeroPer
<1>1. CASE rl_reset
  BY <1>1 DEF rl_reset, rdVars
<1>2. ASSUME NEW m \in Masters, NEW s \in Slaves, rl_rd_xaction_master_to_slave(m, s)
      PROVE  FALSE
  BY <1>2 DEF rl_rd_xaction_master_to_slave, HasRead
<1>3. ASSUME NEW m \in Masters, rl_rd_xaction_no_such_slave(m) PROVE FALSE
  BY <1>3 DEF rl_rd_xaction_no_such_slave, HasRead
<1>4. ASSUME NEW m \in Masters, NEW s \in Slaves, rl_rd_resp_slave_to_master(m, s) PROVE FALSE
  BY <1>4 DEF rl_rd_resp_slave_to_master
<1>5. ASSUME NEW m \in Masters, rl_rd_resp_err_to_master(m) PROVE FALSE
  BY <1>5 DEF rl_rd_resp_err_to_master
<1>6. ASSUME NEW c \in RdBursts, MasterRead(c) PROVE FALSE
  BY <1>6 DEF MasterRead
<1>7. ASSUME NEW m \in Masters, MasterTakesData(m) PROVE FALSE
  BY <1>7 DEF MasterTakesData
<1>8. ASSUME NEW s \in Slaves, SlaveRead(s) PROVE FALSE
  BY <1>8 DEF SlaveRead
<1>9. QED
  BY <1>1, <1>2, <1>3, <1>4, <1>5, <1>6, <1>7, <1>8, StepsOfReads

LEMMA ResetOnce ==
    ASSUME [Next]_vars, rg_reset'
    PROVE  rg_reset
<1>1. ~rl_reset
  BY DEF rl_reset
<1>2. rg_reset' = rg_reset
  BY <1>1, StepsOfReads DEF rl_rd_xaction_master_to_slave, rl_rd_xaction_no_such_slave,
     rl_rd_resp_slave_to_master, rl_rd_resp_err_to_master, MasterRead, MasterTakesData, SlaveRead
<1>3. QED
  BY <1>2

LEMMA ReadInvInit == Init => ReadInv
<1> SUFFICES ASSUME Init PROVE ReadInv
  OBVIOUS
<1>1. ReadsEmpty
  BY DEF Init, ReadsEmpty
<1>2. ReadTypes
  <2>1. \A S, T : EmptyPer(S) \in [S -> Seq(T)]
    BY EmptyType
  <2>2. ZeroPer(Masters) \in [Masters -> Nat] /\ ZeroPer(Slaves) \in [Slaves -> Nat]
    BY DEF ZeroPer
  <2>3. rg_reset \in BOOLEAN
    BY DEF Init
  <2>4. QED
    BY <1>1, <2>1, <2>2, <2>3 DEF ReadTypes, ReadsEmpty
<1>3. QED
  BY <1>1, <1>2, ReadsStart DEF ReadInv

LEMMA ReadInvStep == ReadInv /\ [Next]_vars => ReadInv'
<1> SUFFICES ASSUME ReadInv, [Next]_vars PROVE ReadInv'
  OBVIOUS
<1>1. PICK at, sent, pos : Reads(at, sent, pos)
  BY DEF ReadInv
<1>2. ReadTypes
  BY DEF ReadInv
<1>3. ReadTypes'
  BY <1>1, <1>2, ReadTypesStep
<1>4. rg_reset' => ReadsEmpty'
  <2>1. ASSUME rg_reset' PROVE ReadsEmpty'
    <3>1. rg_reset /\ ReadsEmpty
      BY <2>1, ResetOnce DEF ReadInv
    <3>2. UNCHANGED rdVars
      BY <3>1, ReadsWait
    <3>3. QED
      BY <3>1, <3>2 DEF rdVars, ReadsEmpty
  <2>2. QED
    BY <2>1
<1>5. \E a, t, p : Reads(a, t, p)'
  <2>1. CASE UNCHANGED <<rg_reset, rdVars>>
    BY <1>1, <2>1, ReadsUnchanged
  <2>2. CASE rl_reset
    <3>1. rg_reset /\ ReadsEmpty
      BY <2>2 DEF rl_reset, ReadInv
    <3>2. UNCHANGED rdVars
      BY <3>1, ReadsWait
    <3>3. QED
      BY <1>1, <3>2, ReadsUnchanged
  <2>3. ASSUME NEW m \in Masters, NEW s \in Slaves, rl_rd_xaction_master_to_slave(m, s)
        PROVE  \E a, t, p : Reads(a, t, p)'
    BY <1>1, <1>2, <2>3, ReadPass
  <2>4. ASSUME NEW m \in Masters, rl_rd_xaction_no_such_slave(m)
        PROVE  \E a, t, p : Reads(a, t, p)'
    BY <1>1, <1>2, <2>4, ReadNone
  <2>5. ASSUME NEW m \in Masters, NEW s \in Slaves, rl_rd_resp_slave_to_master(m, s)
        PROVE  \E a, t, p : Reads(a, t, p)'
    BY <1>1, <1>2, <2>5, ReadReturn
  <2>6. ASSUME NEW m \in Masters, rl_rd_resp_err_to_master(m)
        PROVE  \E a, t, p : Reads(a, t, p)'
    BY <1>1, <1>2, <2>6, ReadError
  <2>7. ASSUME NEW c \in RdBursts, MasterRead(c)
        PROVE  \E a, t, p : Reads(a, t, p)'
    BY <1>1, <1>2, <2>7, ReadAsk
  <2>8. ASSUME NEW m \in Masters, MasterTakesData(m)
        PROVE  \E a, t, p : Reads(a, t, p)'
    BY <1>1, <1>2, <2>8, ReadTake
  <2>9. ASSUME NEW s \in Slaves, SlaveRead(s)
        PROVE  \E a, t, p : Reads(a, t, p)'
    BY <1>1, <1>2, <2>9, ReadServe
  <2>10. QED
    BY <2>1, <2>2, <2>3, <2>4, <2>5, <2>6, <2>7, <2>8, <2>9, StepsOfReads
<1>6. QED
  BY <1>3, <1>4, <1>5 DEF ReadInv

\* The invariant of reads: whatever way the bursts take through the fabric, the
\* notes of masters and slaves stand for the same bursts, and each channel of
\* data holds the beats of the bursts that come next in it.
THEOREM ReadsMatch == Spec => []ReadInv
<1>1. Init => ReadInv
  BY ReadInvInit
<1>2. ReadInv /\ [Next]_vars => ReadInv'
  BY ReadInvStep
<1>3. QED
  BY <1>1, <1>2, PTL DEF Spec
-----------------------------------------------------------------------------
(* Answers to reads.                                                        *)

\* The half of AnswersInOrder that is about reads.
ReadsInOrder ==
    \A m \in Masters :
        /\ \A i \in DOMAIN rd_data[m] :
              LET before == Cardinality({k \in 1 .. i - 1 : rd_data[m][k].last})
              IN  rd_data[m][i].burst = asked_rd[m][before + 1] /\ RightResp(rd_data[m][i])
        /\ rd_data[m] # <<>> =>
              (Head(rd_data[m]).last <=> taken_rd[m] = Head(asked_rd[m]).len)

LEMMA ReadsAnswered == ReadInv => ReadsInOrder
<1> SUFFICES ASSUME ReadInv, NEW m \in Masters
             PROVE  /\ \A i \in DOMAIN rd_data[m] :
                          LET before == Cardinality({k \in 1 .. i - 1 : rd_data[m][k].last})
                          IN  /\ rd_data[m][i].burst = asked_rd[m][before + 1]
                              /\ RightResp(rd_data[m][i])
                    /\ rd_data[m] # <<>> =>
                          (Head(rd_data[m]).last <=> taken_rd[m] = Head(asked_rd[m]).len)
  BY DEF ReadsInOrder
<1>1. PICK at, sent, pos : Reads(at, sent, pos)
  BY DEF ReadInv
<1>2. rd_data[m] \in Seq(ReadBeats) /\ asked_rd[m] \in Seq(Bursts)
  BY DEF ReadInv, ReadTypes
<1>3. PICK d : Stream(rd_data[m], asked_rd[m], taken_rd[m], pos[m], d)
  BY <1>1 DEF Reads, MasterReads
<1>4. \A i \in 1 .. Len(rd_data[m]) : RightResp(rd_data[m][i])
  BY <1>1 DEF Reads, MasterReads
<1>5. DOMAIN rd_data[m] = 1 .. Len(rd_data[m])
  BY <1>2, LenProperties
<1>6. ASSUME NEW i \in DOMAIN rd_data[m]
      PROVE  rd_data[m][i].burst = asked_rd[m][Cardinality({k \in 1 .. i - 1 : rd_data[m][k].last}) + 1]
  BY <1>2, <1>3, <1>5, BurstOfBeat
<1>7. ASSUME rd_data[m] # <<>>
      PROVE  Head(rd_data[m]).last <=> taken_rd[m] = Head(asked_rd[m]).len
  <2>1. asked_rd[m] # <<>> /\ (rd_data[m][1].last <=> taken_rd[m] = asked_rd[m][1].len)
    BY <1>2, <1>3, <1>7, StreamTail
  <2>2. Head(rd_data[m]) = rd_data[m][1] /\ Head(asked_rd[m]) = asked_rd[m][1]
    BY <1>2, <1>7, <2>1, Popped
  <2>3. QED
    BY <2>1, <2>2
<1>8. QED
  BY <1>4, <1>5, <1>6, <1>7
-----------------------------------------------------------------------------
(* The invariant of writes, which have one answer each.                     *)

WriteResps == [burst : Bursts, resp : {"OKAY", "DECERR"}]

WriteTypes ==
    /\ asked_wr \in [Masters -> Seq(Bursts)] /\ wr_addr \in [Masters -> Seq(Bursts)]
    /\ wr_resp \in [Masters -> Seq(WriteResps)]
    /\ f_wr_sjs \in [Masters -> Seq(0 .. NumSlaves)] /\ f_wr_err_info \in [Masters -> Seq(Bursts)]
    /\ s_wr_addr \in [Slaves -> Seq(Bursts)] /\ s_wr_resp \in [Slaves -> Seq(WriteResps)]
    /\ f_wr_mis \in [Slaves -> Seq(Masters)]

writeVars == <<asked_wr, wr_addr, wr_resp, s_wr_addr, s_wr_resp, f_wr_sjs, f_wr_mis, f_wr_err_info>>

WritesEmpty ==
    /\ asked_wr = EmptyPer(Masters) /\ wr_addr = EmptyPer(Masters)
    /\ wr_resp = EmptyPer(Masters)
    /\ f_wr_sjs = EmptyPer(Masters) /\ f_wr_err_info = EmptyPer(Masters)
    /\ s_wr_addr = EmptyPer(Slaves) /\ s_wr_resp = EmptyPer(Slaves)
    /\ f_wr_mis = EmptyPer(Slaves)

MasterWrites(m, sent) ==
    /\ MasterNotes(asked_wr[m], sent, wr_addr[m], f_wr_sjs[m], f_wr_err_info[m], m)
    /\ Answers(wr_resp[m], asked_wr[m], Done(asked_wr[m], sent, wr_addr[m]))
    /\ \A i \in 1 .. Len(wr_resp[m]) : RightResp(wr_resp[m][i])

SlaveWrites(s, at) ==
    /\ Split(at, <<>>, s_wr_addr[s])
    /\ Len(f_wr_mis[s]) = Len(at) /\ \A i \in 1 .. Len(at) : f_wr_mis[s][i] = at[i].master
    /\ Answers(s_wr_resp[s], at, Done(at, <<>>, s_wr_addr[s]))
    /\ \A i \in 1 .. Len(s_wr_resp[s]) : s_wr_resp[s][i].resp = "OKAY"

Writes(at, sent) ==
    /\ Linked(at, sent)
    /\ \A m \in Masters : MasterWrites(m, sent[m])
    /\ \A s \in Slaves : SlaveWrites(s, at[s])

WriteInv ==
    /\ WriteTypes
    /\ rg_reset => WritesEmpty
    /\ \E at, sent : Writes(at, sent)

LEMMA WritesStart ==
    ASSUME WritesEmpty
    PROVE  Writes(EmptyPer(Slaves), EmptyPer(Masters))
<1>1. Len(<<>>) = 0
  BY EmptySeq
<1>2. Answers(<<>>, <<>>, 0)
  BY <1>1 DEF Answers
<1>3. ASSUME NEW m \in Masters PROVE MasterWrites(m, EmptyPer(Masters)[m])
  <2>1. /\ asked_wr[m] = <<>> /\ wr_addr[m] = <<>> /\ wr_resp[m] = <<>>
        /\ f_wr_sjs[m] = <<>> /\ f_wr_err_info[m] = <<>> /\ EmptyPer(Masters)[m] = <<>>
    BY DEF WritesEmpty, EmptyPer
  <2>2. MasterWrites(m, <<>>)
    BY <1>1, <1>2, <2>1, NotesEmpty, SplitEmpty DEF MasterWrites
  <2>3. QED
    BY <2>1, <2>2
<1>4. ASSUME NEW s \in Slaves PROVE SlaveWrites(s, EmptyPer(Slaves)[s])
  <2>1. s_wr_addr[s] = <<>> /\ s_wr_resp[s] = <<>> /\ f_wr_mis[s] = <<>> /\ EmptyPer(Slaves)[s] = <<>>
    BY DEF WritesEmpty, EmptyPer
  <2>2. SlaveWrites(s, <<>>)
    BY <1>1, <1>2, <2>1, SplitEmpty DEF SlaveWrites
  <2>3. QED
    BY <2>1, <2>2
<1>5. QED
  BY <1>3, <1>4, LinkedEmpty DEF Writes

LEMMA OtherMasterWrites ==
    ASSUME NEW m, NEW sent, MasterWrites(m, sent),
           asked_wr'[m] = asked_wr[m], wr_addr'[m] = wr_addr[m], wr_resp'[m] = wr_resp[m],
           f_wr_sjs'[m] = f_wr_sjs[m], f_wr_err_info'[m] = f_wr_err_info[m]
    PROVE  MasterWrites(m, sent)'
BY DEF MasterWrites, RightResp

LEMMA OtherSlaveWrites ==
    ASSUME NEW s, NEW at, SlaveWrites(s, at), s_wr_addr'[s] = s_wr_addr[s],
           s_wr_resp'[s] = s_wr_resp[s], f_wr_mis'[s] = f_wr_mis[s]
    PROVE  SlaveWrites(s, at)'
BY DEF SlaveWrites

LEMMA WritePass ==
    ASSUME WriteTypes, NEW at, NEW sent, Writes(at, sent),
           NEW m \in Masters, NEW s \in Slaves, rl_wr_xaction_master_to_slave(m, s)
    PROVE  \E a, t : Writes(a, t)'
<1>1. PICK b : b = Head(wr_addr[m])
  OBVIOUS
<1>2. /\ wr_addr[m] # <<>> /\ b.to = s
      /\ s_wr_addr' = Push(s_wr_addr, s, b) /\ wr_addr' = Pop(wr_addr, m)
      /\ f_wr_mis' = Push(f_wr_mis, s, m) /\ f_wr_sjs' = Push(f_wr_sjs, m, s)
      /\ UNCHANGED <<asked_wr, wr_resp, s_wr_resp, f_wr_err_info>>
  BY <1>1 DEF rl_wr_xaction_master_to_slave, HasWrite
<1>3. /\ Linked(at, sent) /\ MasterWrites(m, sent[m]) /\ SlaveWrites(s, at[s])
      /\ at \in [Slaves -> Seq(Bursts)] /\ sent \in [Masters -> Seq(Bursts)]
      /\ at[s] \in Seq(Bursts)
  BY DEF Writes, Linked
<1>4. MasterNotes(asked_wr[m], sent[m], wr_addr[m], f_wr_sjs[m], f_wr_err_info[m], m)
  BY <1>3 DEF MasterWrites
<1>5. b \in Bursts /\ b.master = m
  BY <1>1, <1>2, <1>4, NotesHead
<1>6. PICK a2, s2 : a2 = Push(at, s, b) /\ s2 = Push(sent, m, b)
  OBVIOUS
<1>7. Linked(a2, s2)
  BY <1>2, <1>3, <1>5, <1>6, LinkPass
<1>8. /\ a2[s] = Append(at[s], b) /\ \A j \in Slaves \ {s} : a2[j] = at[j]
      /\ s2[m] = Append(sent[m], b) /\ \A j \in Masters \ {m} : s2[j] = sent[j]
  BY <1>3, <1>6 DEF Push
<1>9. /\ wr_addr'[m] = Tail(wr_addr[m]) /\ f_wr_sjs'[m] = Append(f_wr_sjs[m], s)
      /\ s_wr_addr'[s] = Append(s_wr_addr[s], b)
      /\ f_wr_mis'[s] = Append(f_wr_mis[s], m)
      /\ \A j \in Masters \ {m} : wr_addr'[j] = wr_addr[j] /\ f_wr_sjs'[j] = f_wr_sjs[j]
      /\ \A j \in Slaves \ {s} : s_wr_addr'[j] = s_wr_addr[j] /\ f_wr_mis'[j] = f_wr_mis[j]
  BY <1>2 DEF WriteTypes, Push, Pop
<1>10. MasterWrites(m, s2[m])'
  <2>1. /\ MasterNotes(asked_wr[m], Append(sent[m], b), Tail(wr_addr[m]), Append(f_wr_sjs[m], s),
                       f_wr_err_info[m], m)
        /\ Done(asked_wr[m], Append(sent[m], b), Tail(wr_addr[m]))
              = Done(asked_wr[m], sent[m], wr_addr[m])
    BY <1>1, <1>2, <1>4, NotesPass
  <2>2. MasterNotes(asked_wr[m], s2[m], wr_addr[m], f_wr_sjs[m], f_wr_err_info[m], m)'
    BY <1>2, <1>8, <1>9, <2>1
  <2>3. Done(asked_wr[m], s2[m], wr_addr[m])' = Done(asked_wr[m], sent[m], wr_addr[m])
    BY <1>2, <1>8, <1>9, <2>1
  <2>4. Answers(wr_resp[m], asked_wr[m], Done(asked_wr[m], s2[m], wr_addr[m]))'
    BY <1>2, <1>3, <2>3 DEF MasterWrites
  <2>5. QED
    BY <1>2, <1>3, <2>2, <2>4 DEF MasterWrites, RightResp
<1>11. SlaveWrites(s, a2[s])'
  <2> DEFINE q == Append(at[s], b)
             mis == Append(f_wr_mis[s], m)
  <2>1. s_wr_addr[s] \in Seq(Bursts) /\ Split(at[s], <<>>, s_wr_addr[s])
    BY <1>3 DEF SlaveWrites, WriteTypes
  <2>2. /\ Split(q, <<>>, Append(s_wr_addr[s], b))
        /\ Done(q, <<>>, Append(s_wr_addr[s], b)) = Done(at[s], <<>>, s_wr_addr[s])
    BY <1>3, <1>5, <2>1, SplitAskNone
  <2>3. Answers(s_wr_resp[s], q, Done(at[s], <<>>, s_wr_addr[s]))
    BY <1>3, <1>5, AnswersMore DEF SlaveWrites
  <2>4. /\ Len(at[s]) \in Nat /\ Len(q) = Len(at[s]) + 1
        /\ \A i \in 1 .. Len(at[s]) : q[i] = at[s][i]
        /\ q[Len(at[s]) + 1] = b
    BY <1>3, <1>5, Appended
  <2>5. /\ Len(f_wr_mis[s]) = Len(at[s]) /\ Len(mis) = Len(at[s]) + 1
        /\ \A i \in 1 .. Len(at[s]) : mis[i] = f_wr_mis[s][i]
        /\ mis[Len(at[s]) + 1] = m
    <3>1. f_wr_mis[s] \in Seq(Masters) /\ Len(f_wr_mis[s]) = Len(at[s])
      BY <1>3 DEF SlaveWrites, WriteTypes
    <3>2. QED
      BY <3>1, Appended
  <2> HIDE DEF q, mis
  <2>6. ASSUME NEW i \in 1 .. Len(q) PROVE mis[i] = q[i].master
    <3>1. CASE i = Len(at[s]) + 1
      BY <1>5, <2>4, <2>5, <3>1
    <3>2. CASE i \in 1 .. Len(at[s])
      BY <1>3, <2>4, <2>5, <3>2 DEF SlaveWrites
    <3>3. QED
      BY <2>4, <3>1, <3>2
  <2>7. a2[s] = q /\ f_wr_mis'[s] = mis /\ s_wr_addr'[s] = Append(s_wr_addr[s], b)
    BY <1>8, <1>9 DEF q, mis
  <2>8. Answers(s_wr_resp[s], q, Done(q, <<>>, s_wr_addr[s]))'
    BY <1>2, <2>2, <2>3, <2>7
  <2>9. QED
    BY <1>2, <1>3, <2>2, <2>4, <2>5, <2>6, <2>7, <2>8 DEF SlaveWrites
<1>12. ASSUME NEW j \in Masters PROVE MasterWrites(j, s2[j])'
  <2>1. CASE j # m
    <3>1. MasterWrites(j, sent[j]) /\ s2[j] = sent[j]
      BY <1>8, <2>1 DEF Writes
    <3>2. MasterWrites(j, sent[j])'
      BY <1>2, <1>9, <2>1, <3>1, OtherMasterWrites
    <3>3. QED
      BY <3>1, <3>2
  <2>2. QED
    BY <1>10, <2>1
<1>13. ASSUME NEW j \in Slaves PROVE SlaveWrites(j, a2[j])'
  <2>1. CASE j # s
    <3>1. SlaveWrites(j, at[j]) /\ a2[j] = at[j]
      BY <1>8, <2>1 DEF Writes
    <3>2. SlaveWrites(j, at[j])'
      BY <1>2, <1>9, <2>1, <3>1, OtherSlaveWrites
    <3>3. QED
      BY <3>1, <3>2
  <2>2. QED
    BY <1>11, <2>1
<1>14. Writes(a2, s2)'
  BY <1>7, <1>12, <1>13 DEF Writes, Linked
<1>15. QED
  BY <1>14

LEMMA WriteNone ==
    ASSUME WriteTypes, NEW at, NEW sent, Writes(at, sent),
           NEW m \in Masters, rl_wr_xaction_no_such_slave(m)
    PROVE  \E a, t : Writes(a, t)'
<1>1. PICK b : b = Head(wr_addr[m])
  OBVIOUS
<1>2. /\ wr_addr[m] # <<>> /\ b.to = NoSlave
      /\ wr_addr' = Pop(wr_addr, m) /\ f_wr_sjs' = Push(f_wr_sjs, m, NoSlave)
      /\ f_wr_err_info' = Push(f_wr_err_info, m, b)
      /\ UNCHANGED <<asked_wr, wr_resp, s_wr_addr, s_wr_resp, f_wr_mis>>
  BY <1>1 DEF rl_wr_xaction_no_such_slave, HasWrite
<1>3. /\ Linked(at, sent) /\ MasterWrites(m, sent[m]) /\ sent \in [Masters -> Seq(Bursts)]
  BY DEF Writes, Linked
<1>4. MasterNotes(asked_wr[m], sent[m], wr_addr[m], f_wr_sjs[m], f_wr_err_info[m], m)
  BY <1>3 DEF MasterWrites
<1>5. b \in Bursts
  BY <1>1, <1>2, <1>4, NotesHead
<1>6. PICK s2 : s2 = Push(sent, m, b)
  OBVIOUS
<1>7. Linked(at, s2)
  BY <1>2, <1>3, <1>5, <1>6, LinkNone
<1>8. s2[m] = Append(sent[m], b) /\ \A j \in Masters \ {m} : s2[j] = sent[j]
  BY <1>3, <1>6 DEF Push
<1>9. /\ wr_addr'[m] = Tail(wr_addr[m]) /\ f_wr_sjs'[m] = Append(f_wr_sjs[m], NoSlave)
      /\ f_wr_err_info'[m] = Append(f_wr_err_info[m], b)
      /\ \A j \in Masters \ {m} : /\ wr_addr'[j] = wr_addr[j] /\ f_wr_sjs'[j] = f_wr_sjs[j]
                                  /\ f_wr_err_info'[j] = f_wr_err_info[j]
  BY <1>2 DEF WriteTypes, Push, Pop
<1>10. MasterWrites(m, s2[m])'
  <2>1. /\ MasterNotes(asked_wr[m], Append(sent[m], b), Tail(wr_addr[m]),
                       Append(f_wr_sjs[m], NoSlave), Append(f_wr_err_info[m], b), m)
        /\ Done(asked_wr[m], Append(sent[m], b), Tail(wr_addr[m]))
              = Done(asked_wr[m], sent[m], wr_addr[m])
    BY <1>1, <1>2, <1>4, NotesNone
  <2>2. MasterNotes(asked_wr[m], s2[m], wr_addr[m], f_wr_sjs[m], f_wr_err_info[m], m)'
    BY <1>2, <1>8, <1>9, <2>1
  <2>3. Answers(wr_resp[m], asked_wr[m], Done(asked_wr[m], s2[m], wr_addr[m]))'
    BY <1>2, <1>3, <1>8, <1>9, <2>1 DEF MasterWrites
  <2>4. QED
    BY <1>2, <1>3, <2>2, <2>3 DEF MasterWrites, RightResp
<1>11. ASSUME NEW j \in Masters PROVE MasterWrites(j, s2[j])'
  <2>1. CASE j # m
    <3>1. MasterWrites(j, sent[j]) /\ s2[j] = sent[j]
      BY <1>8, <2>1 DEF Writes
    <3>2. MasterWrites(j, sent[j])'
      BY <1>2, <1>9, <2>1, <3>1, OtherMasterWrites
    <3>3. QED
      BY <3>1, <3>2
  <2>2. QED
    BY <1>10, <2>1
<1>12. ASSUME NEW j \in Slaves PROVE SlaveWrites(j, at[j])'
  BY <1>2, OtherSlaveWrites DEF Writes
<1>13. Writes(at, s2)'
  BY <1>7, <1>11, <1>12 DEF Writes, Linked
<1>14. QED
  BY <1>13

\* A master's queue of answers grows by one that fits.
LEMMA RespAppend ==
    ASSUME NEW q \in Seq(WriteResps), \A i \in 1 .. Len(q) : RightResp(q[i]),
           NEW x \in WriteResps, RightResp(x)
    PROVE  \A i \in 1 .. Len(Append(q, x)) : RightResp(Append(q, x)[i])
<1>1. /\ Len(q) \in Nat /\ Len(Append(q, x)) = Len(q) + 1
      /\ \A i \in 1 .. Len(q) : Append(q, x)[i] = q[i]
      /\ Append(q, x)[Len(q) + 1] = x
  BY Appended
<1>2. ASSUME NEW i \in 1 .. Len(Append(q, x)) PROVE RightResp(Append(q, x)[i])
  <2>1. CASE i = Len(q) + 1
    BY <1>1, <2>1
  <2>2. CASE i \in 1 .. Len(q)
    BY <1>1, <2>2
  <2>3. QED
    BY <1>1, <2>1, <2>2
<1>3. QED
  BY <1>2

LEMMA WriteReturn ==
    ASSUME WriteTypes, NEW at, NEW sent, Writes(at, sent),
           NEW m \in Masters, NEW s \in Slaves, rl_wr_resp_slave_to_master(m, s)
    PROVE  \E a, t : Writes(a, t)'
<1>1. PICK r : r = Head(s_wr_resp[s])
  OBVIOUS
<1>2. /\ f_wr_mis[s] # <<>> /\ Head(f_wr_mis[s]) = m
      /\ f_wr_sjs[m] # <<>> /\ Head(f_wr_sjs[m]) = s /\ s_wr_resp[s] # <<>>
      /\ f_wr_mis' = Pop(f_wr_mis, s) /\ f_wr_sjs' = Pop(f_wr_sjs, m)
      /\ s_wr_resp' = Pop(s_wr_resp, s) /\ wr_resp' = Push(wr_resp, m, r)
      /\ UNCHANGED <<asked_wr, wr_addr, s_wr_addr, f_wr_err_info>>
  BY <1>1 DEF rl_wr_resp_slave_to_master, WriteReturns
<1>3. /\ Linked(at, sent) /\ MasterWrites(m, sent[m]) /\ SlaveWrites(s, at[s])
      /\ at \in [Slaves -> Seq(Bursts)] /\ sent \in [Masters -> Seq(Bursts)]
      /\ at[s] \in Seq(Bursts)
  BY DEF Writes, Linked
<1>4. /\ s_wr_resp[s] \in Seq(WriteResps) /\ f_wr_mis[s] \in Seq(Masters)
      /\ f_wr_sjs[m] \in Seq(0 .. NumSlaves) /\ wr_resp[m] \in Seq(WriteResps)
      /\ asked_wr[m] \in Seq(Bursts) /\ s_wr_addr[s] \in Seq(Bursts)
  BY DEF WriteTypes
<1>5. MasterNotes(asked_wr[m], sent[m], wr_addr[m], f_wr_sjs[m], f_wr_err_info[m], m)
  BY <1>3 DEF MasterWrites
<1>6. PICK d : d = Done(asked_wr[m], sent[m], wr_addr[m])
  OBVIOUS
<1>7. /\ sent[m] # <<>> /\ sent[m][1].to = s
      /\ d < Len(asked_wr[m]) /\ asked_wr[m][d + 1] = sent[m][1]
      /\ Done(asked_wr[m], Tail(sent[m]), wr_addr[m]) = d + 1
      /\ MasterNotes(asked_wr[m], Tail(sent[m]), wr_addr[m], Tail(f_wr_sjs[m]), f_wr_err_info[m], m)
  <2>1. /\ OldestSent(asked_wr[m], sent[m], wr_addr[m], f_wr_sjs[m])
        /\ MasterNotes(asked_wr[m], Tail(sent[m]), wr_addr[m], Tail(f_wr_sjs[m]), f_wr_err_info[m], m)
    BY <1>2, <1>5, NotesReturn
  <2>2. QED
    BY <1>2, <1>6, <2>1 DEF OldestSent
<1>8. /\ at[s] # <<>> /\ at[s][1].master = m
      /\ Len(Tail(f_wr_mis[s])) = Len(Tail(at[s]))
      /\ \A i \in 1 .. Len(Tail(at[s])) : Tail(f_wr_mis[s])[i] = Tail(at[s])[i].master
  <2>1. /\ Len(f_wr_mis[s]) \in Nat \ {0} /\ Head(f_wr_mis[s]) = f_wr_mis[s][1]
        /\ Len(Tail(f_wr_mis[s])) = Len(f_wr_mis[s]) - 1
        /\ \A i \in 1 .. Len(f_wr_mis[s]) - 1 : Tail(f_wr_mis[s])[i] = f_wr_mis[s][i + 1]
    BY <1>2, <1>4, Popped
  <2>2. Len(at[s]) = Len(f_wr_mis[s]) /\ \A i \in 1 .. Len(at[s]) : f_wr_mis[s][i] = at[s][i].master
    BY <1>3 DEF SlaveWrites
  <2>3. at[s] # <<>>
    BY <2>1, <2>2, EmptySeq
  <2>4. /\ Len(Tail(at[s])) = Len(at[s]) - 1
        /\ \A i \in 1 .. Len(at[s]) - 1 : Tail(at[s])[i] = at[s][i + 1]
    BY <1>3, <2>3, Popped
  <2>5. ASSUME NEW i \in 1 .. Len(Tail(at[s]))
        PROVE  Tail(f_wr_mis[s])[i] = Tail(at[s])[i].master
    <3>1. i \in 1 .. Len(at[s]) - 1 /\ i + 1 \in 1 .. Len(at[s])
      BY <2>1, <2>2, <2>4
    <3>2. QED
      BY <2>1, <2>2, <2>4, <3>1
  <2>6. QED
    BY <1>2, <2>1, <2>2, <2>3, <2>4, <2>5
<1>9. at[s][1] = sent[m][1] /\ Linked(Pop(at, s), Pop(sent, m))
  BY <1>3, <1>7, <1>8, LinkReturn
<1>10. PICK n : n = Done(at[s], <<>>, s_wr_addr[s])
  OBVIOUS
<1>11. n > 0 /\ r.burst = at[s][1] /\ Answers(Tail(s_wr_resp[s]), Tail(at[s]), n - 1)
  <2>1. Answers(s_wr_resp[s], at[s], n)
    BY <1>3, <1>10 DEF SlaveWrites
  <2>2. QED
    BY <1>1, <1>2, <1>3, <1>4, <2>1, AnswersTail
<1>12. /\ r \in WriteResps /\ r.resp = "OKAY"
       /\ \A i \in 1 .. Len(Tail(s_wr_resp[s])) : Tail(s_wr_resp[s])[i].resp = "OKAY"
  <2>1. /\ r \in WriteResps /\ r = s_wr_resp[s][1] /\ Len(s_wr_resp[s]) \in Nat \ {0}
        /\ Len(Tail(s_wr_resp[s])) = Len(s_wr_resp[s]) - 1
        /\ \A i \in 1 .. Len(s_wr_resp[s]) - 1 : Tail(s_wr_resp[s])[i] = s_wr_resp[s][i + 1]
    BY <1>1, <1>2, <1>4, Popped
  <2>2. \A i \in 1 .. Len(s_wr_resp[s]) : s_wr_resp[s][i].resp = "OKAY"
    BY <1>3 DEF SlaveWrites
  <2>3. ASSUME NEW i \in 1 .. Len(Tail(s_wr_resp[s])) PROVE Tail(s_wr_resp[s])[i].resp = "OKAY"
    <3>1. i \in 1 .. Len(s_wr_resp[s]) - 1 /\ i + 1 \in 1 .. Len(s_wr_resp[s])
      BY <2>1
    <3>2. QED
      BY <2>1, <2>2, <3>1
  <2>4. QED
    BY <2>1, <2>2, <2>3
<1>13. /\ Answers(Append(wr_resp[m], r), asked_wr[m], d + 1)
       /\ \A i \in 1 .. Len(Append(wr_resp[m], r)) : RightResp(Append(wr_resp[m], r)[i])
  <2>1. Answers(wr_resp[m], asked_wr[m], d) /\ \A i \in 1 .. Len(wr_resp[m]) : RightResp(wr_resp[m][i])
    BY <1>3, <1>6 DEF MasterWrites
  <2>2. r.burst = asked_wr[m][d + 1] /\ RightResp(r)
    BY <1>7, <1>9, <1>11, <1>12, SlaveNumbers DEF RightResp
  <2>3. Answers(Append(wr_resp[m], r), asked_wr[m], d + 1)
    BY <1>4, <1>7, <1>12, <2>1, <2>2, AnswersAppend
  <2>4. QED
    BY <1>4, <1>12, <2>1, <2>2, <2>3, RespAppend
<1>14. PICK a2, s2 : a2 = Pop(at, s) /\ s2 = Pop(sent, m)
  OBVIOUS
<1>15. /\ a2[s] = Tail(at[s]) /\ \A j \in Slaves \ {s} : a2[j] = at[j]
       /\ s2[m] = Tail(sent[m]) /\ \A j \in Masters \ {m} : s2[j] = sent[j]
  BY <1>3, <1>14 DEF Pop
<1>16. /\ wr_resp'[m] = Append(wr_resp[m], r) /\ f_wr_sjs'[m] = Tail(f_wr_sjs[m])
       /\ s_wr_resp'[s] = Tail(s_wr_resp[s]) /\ f_wr_mis'[s] = Tail(f_wr_mis[s])
       /\ \A j \in Masters \ {m} : wr_resp'[j] = wr_resp[j] /\ f_wr_sjs'[j] = f_wr_sjs[j]
       /\ \A j \in Slaves \ {s} : s_wr_resp'[j] = s_wr_resp[j] /\ f_wr_mis'[j] = f_wr_mis[j]
  BY <1>2 DEF WriteTypes, Push, Pop
<1>17. MasterWrites(m, s2[m])'
  <2>1. MasterNotes(asked_wr[m], s2[m], wr_addr[m], f_wr_sjs[m], f_wr_err_info[m], m)'
    BY <1>2, <1>7, <1>15, <1>16
  <2>2. Answers(wr_resp[m], asked_wr[m], Done(asked_wr[m], s2[m], wr_addr[m]))'
    BY <1>2, <1>7, <1>13, <1>15, <1>16
  <2>3. QED
    BY <1>13, <1>16, <2>1, <2>2 DEF MasterWrites, RightResp
<1>18. SlaveWrites(s, a2[s])'
  <2>1. Split(Tail(at[s]), <<>>, s_wr_addr[s]) /\ Done(Tail(at[s]), <<>>, s_wr_addr[s]) = n - 1
    <3>1. Split(at[s], <<>>, s_wr_addr[s]) /\ Done(at[s], <<>>, s_wr_addr[s]) > 0
      BY <1>3, <1>10, <1>11 DEF SlaveWrites
    <3>2. QED
      BY <1>3, <1>4, <1>10, <3>1, SplitTakeNone
  <2>2. Answers(s_wr_resp[s], a2[s], Done(a2[s], <<>>, s_wr_addr[s]))'
    BY <1>2, <1>11, <1>15, <1>16, <2>1
  <2>3. QED
    BY <1>2, <1>8, <1>12, <1>15, <1>16, <2>1, <2>2 DEF SlaveWrites
<1>19. ASSUME NEW j \in Masters PROVE MasterWrites(j, s2[j])'
  <2>1. CASE j # m
    <3>1. MasterWrites(j, sent[j]) /\ s2[j] = sent[j]
      BY <1>15, <2>1 DEF Writes
    <3>2. MasterWrites(j, sent[j])'
      BY <1>2, <1>16, <2>1, <3>1, OtherMasterWrites
    <3>3. QED
      BY <3>1, <3>2
  <2>2. QED
    BY <1>17, <2>1
<1>20. ASSUME NEW j \in Slaves PROVE SlaveWrites(j, a2[j])'
  <2>1. CASE j # s
    <3>1. SlaveWrites(j, at[j]) /\ a2[j] = at[j]
      BY <1>15, <2>1 DEF Writes
    <3>2. SlaveWrites(j, at[j])'
      BY <1>2, <1>16, <2>1, <3>1, OtherSlaveWrites
    <3>3. QED
      BY <3>1, <3>2
  <2>2. QED
    BY <1>18, <2>1
<1>21. Writes(a2, s2)'
  BY <1>9, <1>14, <1>19, <1>20 DEF Writes, Linked
<1>22. QED
  BY <1>21

LEMMA WriteError ==
    ASSUME WriteTypes, NEW at, NEW sent, Writes(at, sent),
           NEW m \in Masters, rl_wr_resp_err_to_master(m)
    PROVE  \E a, t : Writes(a, t)'
<1>1. PICK b, r : b = Head(f_wr_err_info[m]) /\ r = [burst |-> b, resp |-> "DECERR"]
  OBVIOUS
<1>2. /\ f_wr_sjs[m] # <<>> /\ Head(f_wr_sjs[m]) = NoSlave /\ f_wr_err_info[m] # <<>>
      /\ f_wr_sjs' = Pop(f_wr_sjs, m) /\ f_wr_err_info' = Pop(f_wr_err_info, m)
      /\ wr_resp' = Push(wr_resp, m, r)
      /\ UNCHANGED <<asked_wr, wr_addr, s_wr_addr, s_wr_resp, f_wr_mis>>
  BY <1>1 DEF rl_wr_resp_err_to_master
<1>3. Linked(at, sent) /\ MasterWrites(m, sent[m]) /\ sent \in [Masters -> Seq(Bursts)]
  BY DEF Writes, Linked
<1>4. wr_resp[m] \in Seq(WriteResps) /\ asked_wr[m] \in Seq(Bursts)
  BY DEF WriteTypes
<1>5. MasterNotes(asked_wr[m], sent[m], wr_addr[m], f_wr_sjs[m], f_wr_err_info[m], m)
  BY <1>3 DEF MasterWrites
<1>6. PICK d : d = Done(asked_wr[m], sent[m], wr_addr[m])
  OBVIOUS
<1>7. /\ sent[m] # <<>> /\ sent[m][1].to = NoSlave /\ sent[m][1] \in Bursts
      /\ d < Len(asked_wr[m]) /\ asked_wr[m][d + 1] = sent[m][1]
      /\ Done(asked_wr[m], Tail(sent[m]), wr_addr[m]) = d + 1
  <2>1. OldestSent(asked_wr[m], sent[m], wr_addr[m], f_wr_sjs[m])
    BY <1>2, <1>5, NotesReturn
  <2>2. QED
    BY <1>2, <1>6, <2>1 DEF OldestSent
<1>8. /\ b = sent[m][1]
      /\ MasterNotes(asked_wr[m], Tail(sent[m]), wr_addr[m], Tail(f_wr_sjs[m]),
                     Tail(f_wr_err_info[m]), m)
  <2>1. ErrorNoted(asked_wr[m], sent[m], wr_addr[m], f_wr_sjs[m], f_wr_err_info[m], m)
    BY <1>2, <1>5, NotesError
  <2>2. QED
    BY <1>1, <2>1 DEF ErrorNoted
<1>9. r \in WriteResps /\ r.burst = b /\ RightResp(r)
  BY <1>1, <1>7, <1>8 DEF WriteResps, RightResp
<1>10. /\ Answers(Append(wr_resp[m], r), asked_wr[m], d + 1)
       /\ \A i \in 1 .. Len(Append(wr_resp[m], r)) : RightResp(Append(wr_resp[m], r)[i])
  <2>1. Answers(wr_resp[m], asked_wr[m], d) /\ \A i \in 1 .. Len(wr_resp[m]) : RightResp(wr_resp[m][i])
    BY <1>3, <1>6 DEF MasterWrites
  <2>2. Answers(Append(wr_resp[m], r), asked_wr[m], d + 1)
    BY <1>4, <1>7, <1>8, <1>9, <2>1, AnswersAppend
  <2>3. QED
    BY <1>4, <1>9, <2>1, <2>2, RespAppend
<1>11. PICK s2 : s2 = Pop(sent, m)
  OBVIOUS
<1>12. s2[m] = Tail(sent[m]) /\ \A j \in Masters \ {m} : s2[j] = sent[j]
  BY <1>3, <1>11 DEF Pop
<1>13. /\ wr_resp'[m] = Append(wr_resp[m], r) /\ f_wr_sjs'[m] = Tail(f_wr_sjs[m])
       /\ f_wr_err_info'[m] = Tail(f_wr_err_info[m])
       /\ \A j \in Masters \ {m} : /\ wr_resp'[j] = wr_resp[j] /\ f_wr_sjs'[j] = f_wr_sjs[j]
                                   /\ f_wr_err_info'[j] = f_wr_err_info[j]
  BY <1>2 DEF WriteTypes, Push, Pop
<1>14. MasterWrites(m, s2[m])'
  <2>1. MasterNotes(asked_wr[m], s2[m], wr_addr[m], f_wr_sjs[m], f_wr_err_info[m], m)'
    BY <1>2, <1>8, <1>12, <1>13
  <2>2. Answers(wr_resp[m], asked_wr[m], Done(asked_wr[m], s2[m], wr_addr[m]))'
    BY <1>2, <1>7, <1>10, <1>12, <1>13
  <2>3. QED
    BY <1>10, <1>13, <2>1, <2>2 DEF MasterWrites, RightResp
<1>15. ASSUME NEW j \in Masters PROVE MasterWrites(j, s2[j])'
  <2>1. CASE j # m
    <3>1. MasterWrites(j, sent[j]) /\ s2[j] = sent[j]
      BY <1>12, <2>1 DEF Writes
    <3>2. MasterWrites(j, sent[j])'
      BY <1>2, <1>13, <2>1, <3>1, OtherMasterWrites
    <3>3. QED
      BY <3>1, <3>2
  <2>2. QED
    BY <1>14, <2>1
<1>16. ASSUME NEW j \in Slaves PROVE SlaveWrites(j, at[j])'
  BY <1>2, OtherSlaveWrites DEF Writes
<1>17. Linked(at, s2)
  BY <1>3, <1>7, <1>11, LinkError
<1>18. Writes(at, s2)'
  BY <1>15, <1>16, <1>17 DEF Writes, Linked
<1>19. QED
  BY <1>18

LEMMA WriteAsk ==
    ASSUME WriteTypes, NEW at, NEW sent, Writes(at, sent),
           NEW c \in WrBursts, MasterWrite(c)
    PROVE  \E a, t : Writes(a, t)'
<1>1. PICK m, b : m = c.master /\ b = Tagged(c, NextTag(asked_wr[m]))
  OBVIOUS
<1>2. /\ wr_addr' = Push(wr_addr, m, b) /\ asked_wr' = Push(asked_wr, m, b)
      /\ UNCHANGED <<wr_resp, s_wr_addr, s_wr_resp, f_wr_sjs, f_wr_mis, f_wr_err_info>>
  BY <1>1 DEF MasterWrite
<1>3. m \in Masters /\ b \in Bursts /\ b.master = m
  <2>1. m \in Masters
    BY <1>1, FabricAssumption
  <2>2. asked_wr[m] \in Seq(Bursts)
    BY <2>1 DEF WriteTypes
  <2>3. QED
    BY <1>1, <2>1, <2>2, AskedBurst
<1>4. MasterWrites(m, sent[m]) /\ asked_wr[m] \in Seq(Bursts)
  BY <1>3 DEF Writes, WriteTypes
<1>5. /\ wr_addr'[m] = Append(wr_addr[m], b) /\ asked_wr'[m] = Append(asked_wr[m], b)
      /\ \A j \in Masters \ {m} : wr_addr'[j] = wr_addr[j] /\ asked_wr'[j] = asked_wr[j]
  BY <1>2, <1>3 DEF WriteTypes, Push
<1>6. MasterWrites(m, sent[m])'
  <2>1. MasterNotes(asked_wr[m], sent[m], wr_addr[m], f_wr_sjs[m], f_wr_err_info[m], m)
    BY <1>4 DEF MasterWrites
  <2>2. /\ MasterNotes(Append(asked_wr[m], b), sent[m], Append(wr_addr[m], b), f_wr_sjs[m],
                       f_wr_err_info[m], m)
        /\ Done(Append(asked_wr[m], b), sent[m], Append(wr_addr[m], b))
              = Done(asked_wr[m], sent[m], wr_addr[m])
    BY <1>3, <2>1, NotesAsk
  <2>3. Answers(wr_resp[m], Append(asked_wr[m], b), Done(asked_wr[m], sent[m], wr_addr[m]))
    BY <1>3, <1>4, AnswersMore DEF MasterWrites
  <2>4. Answers(wr_resp[m], asked_wr[m], Done(asked_wr[m], sent[m], wr_addr[m]))'
    BY <1>2, <1>5, <2>2, <2>3
  <2>5. MasterNotes(asked_wr[m], sent[m], wr_addr[m], f_wr_sjs[m], f_wr_err_info[m], m)'
    BY <1>2, <1>5, <2>2
  <2>6. QED
    BY <1>2, <1>4, <2>4, <2>5 DEF MasterWrites, RightResp
<1>7. ASSUME NEW j \in Masters PROVE MasterWrites(j, sent[j])'
  <2>1. CASE j # m
    BY <1>2, <1>5, <2>1, OtherMasterWrites DEF Writes
  <2>2. QED
    BY <1>6, <2>1
<1>8. ASSUME NEW j \in Slaves PROVE SlaveWrites(j, at[j])'
  BY <1>2, OtherSlaveWrites DEF Writes
<1>9. Writes(at, sent)'
  BY <1>7, <1>8 DEF Writes, Linked
<1>10. QED
  BY <1>9

LEMMA WriteTake ==
    ASSUME WriteTypes, NEW at, NEW sent, Writes(at, sent),
           NEW m \in Masters, MasterTakesResp(m)
    PROVE  (\E a, t : Writes(a, t)') /\ asked_wr[m] # <<>>
<1>1. /\ wr_resp[m] # <<>> /\ wr_resp' = Pop(wr_resp, m) /\ asked_wr' = Pop(asked_wr, m)
      /\ UNCHANGED <<wr_addr, s_wr_addr, s_wr_resp, f_wr_sjs, f_wr_mis, f_wr_err_info>>
  BY DEF MasterTakesResp
<1>2. /\ MasterWrites(m, sent[m]) /\ asked_wr[m] \in Seq(Bursts) /\ wr_resp[m] \in Seq(WriteResps)
  BY DEF Writes, WriteTypes
<1>3. PICK d : d = Done(asked_wr[m], sent[m], wr_addr[m])
  OBVIOUS
<1>4. MasterNotes(asked_wr[m], sent[m], wr_addr[m], f_wr_sjs[m], f_wr_err_info[m], m)
  BY <1>2 DEF MasterWrites
<1>5. /\ asked_wr[m] # <<>> /\ d > 0
      /\ Answers(Tail(wr_resp[m]), Tail(asked_wr[m]), d - 1)
  <2>1. Answers(wr_resp[m], asked_wr[m], d)
    BY <1>2, <1>3 DEF MasterWrites
  <2>2. QED
    BY <1>1, <1>2, <2>1, AnswersTail
<1>6. /\ MasterNotes(Tail(asked_wr[m]), sent[m], wr_addr[m], f_wr_sjs[m], f_wr_err_info[m], m)
      /\ Done(Tail(asked_wr[m]), sent[m], wr_addr[m]) = d - 1
  BY <1>3, <1>4, <1>5, NotesTake
<1>7. \A i \in 1 .. Len(Tail(wr_resp[m])) : RightResp(Tail(wr_resp[m])[i])
  <2>1. /\ Len(wr_resp[m]) \in Nat \ {0} /\ Len(Tail(wr_resp[m])) = Len(wr_resp[m]) - 1
        /\ \A i \in 1 .. Len(wr_resp[m]) - 1 : Tail(wr_resp[m])[i] = wr_resp[m][i + 1]
    BY <1>1, <1>2, Popped
  <2>2. ASSUME NEW i \in 1 .. Len(Tail(wr_resp[m])) PROVE RightResp(Tail(wr_resp[m])[i])
    <3>1. i \in 1 .. Len(wr_resp[m]) - 1 /\ i + 1 \in 1 .. Len(wr_resp[m])
      BY <2>1
    <3>2. RightResp(wr_resp[m][i + 1])
      BY <1>2, <3>1 DEF MasterWrites
    <3>3. QED
      BY <2>1, <3>1, <3>2
  <2>3. QED
    BY <2>2
<1>8. /\ asked_wr'[m] = Tail(asked_wr[m]) /\ wr_resp'[m] = Tail(wr_resp[m])
      /\ \A j \in Masters \ {m} : asked_wr'[j] = asked_wr[j] /\ wr_resp'[j] = wr_resp[j]
  BY <1>1 DEF WriteTypes, Pop
<1>9. MasterWrites(m, sent[m])'
  <2>1. MasterNotes(asked_wr[m], sent[m], wr_addr[m], f_wr_sjs[m], f_wr_err_info[m], m)'
    BY <1>1, <1>6, <1>8
  <2>2. Answers(wr_resp[m], asked_wr[m], Done(asked_wr[m], sent[m], wr_addr[m]))'
    BY <1>1, <1>5, <1>6, <1>8
  <2>3. QED
    BY <1>7, <1>8, <2>1, <2>2 DEF MasterWrites, RightResp
<1>10. ASSUME NEW j \in Masters PROVE MasterWrites(j, sent[j])'
  <2>1. CASE j # m
    BY <1>1, <1>8, <2>1, OtherMasterWrites DEF Writes
  <2>2. QED
    BY <1>9, <2>1
<1>11. ASSUME NEW j \in Slaves PROVE SlaveWrites(j, at[j])'
  BY <1>1, OtherSlaveWrites DEF Writes
<1>12. Writes(at, sent)'
  BY <1>10, <1>11 DEF Writes, Linked
<1>13. QED
  BY <1>5, <1>12

LEMMA WriteServe ==
    ASSUME WriteTypes, NEW at, NEW sent, Writes(at, sent),
           NEW s \in Slaves, SlaveWrite(s), s_wr_addr' # s_wr_addr \/ s_wr_resp' # s_wr_resp
    PROVE  \E a, t : Writes(a, t)'
<1>1. PICK r : r = [burst |-> Head(s_wr_addr[s]), resp |-> "OKAY"]
  OBVIOUS
<1>2. /\ s_wr_addr[s] # <<>>
      /\ s_wr_resp' = Push(s_wr_resp, s, r) /\ s_wr_addr' = Pop(s_wr_addr, s)
      /\ UNCHANGED <<asked_wr, wr_addr, wr_resp, f_wr_sjs, f_wr_mis, f_wr_err_info>>
  BY <1>1 DEF SlaveWrite
<1>3. SlaveWrites(s, at[s]) /\ at[s] \in Seq(Bursts)
  BY DEF Writes, Linked
<1>4. s_wr_addr[s] \in Seq(Bursts) /\ s_wr_resp[s] \in Seq(WriteResps)
  BY DEF WriteTypes
<1>5. PICK d : d = Done(at[s], <<>>, s_wr_addr[s])
  OBVIOUS
<1>6. /\ d < Len(at[s]) /\ at[s][d + 1] = r.burst /\ Split(at[s], <<>>, Tail(s_wr_addr[s]))
      /\ Done(at[s], <<>>, Tail(s_wr_addr[s])) = d + 1
  <2>1. Split(at[s], <<>>, s_wr_addr[s])
    BY <1>3 DEF SlaveWrites
  <2>2. QED
    BY <1>1, <1>2, <1>3, <1>4, <1>5, <2>1, SplitRest
<1>7. r \in WriteResps /\ r.resp = "OKAY"
  <2>1. Head(s_wr_addr[s]) \in Bursts
    BY <1>2, <1>4, Popped
  <2>2. QED
    BY <1>1, <2>1 DEF WriteResps
<1>8. Answers(Append(s_wr_resp[s], r), at[s], d + 1)
  <2>1. Answers(s_wr_resp[s], at[s], d)
    BY <1>3, <1>5 DEF SlaveWrites
  <2>2. QED
    BY <1>3, <1>4, <1>6, <1>7, <2>1, AnswersAppend
<1>9. ASSUME NEW i \in 1 .. Len(Append(s_wr_resp[s], r)) PROVE Append(s_wr_resp[s], r)[i].resp = "OKAY"
  <2>1. /\ Len(s_wr_resp[s]) \in Nat /\ Len(Append(s_wr_resp[s], r)) = Len(s_wr_resp[s]) + 1
        /\ \A j \in 1 .. Len(s_wr_resp[s]) : Append(s_wr_resp[s], r)[j] = s_wr_resp[s][j]
        /\ Append(s_wr_resp[s], r)[Len(s_wr_resp[s]) + 1] = r
    BY <1>4, <1>7, Appended
  <2>2. CASE i = Len(s_wr_resp[s]) + 1
    BY <1>7, <2>1, <2>2
  <2>3. CASE i \in 1 .. Len(s_wr_resp[s])
    <3>1. s_wr_resp[s][i].resp = "OKAY"
      BY <1>3, <2>3 DEF SlaveWrites
    <3>2. QED
      BY <2>1, <2>3, <3>1
  <2>4. QED
    BY <2>1, <2>2, <2>3
<1>10. /\ s_wr_resp'[s] = Append(s_wr_resp[s], r) /\ s_wr_addr'[s] = Tail(s_wr_addr[s])
       /\ \A j \in Slaves \ {s} : s_wr_resp'[j] = s_wr_resp[j] /\ s_wr_addr'[j] = s_wr_addr[j]
  BY <1>2 DEF WriteTypes, Push, Pop
<1>11. SlaveWrites(s, at[s])'
  <2>1. Answers(s_wr_resp[s], at[s], Done(at[s], <<>>, s_wr_addr[s]))'
    BY <1>6, <1>8, <1>10
  <2>2. Len(f_wr_mis'[s]) = Len(at[s]) /\ \A i \in 1 .. Len(at[s]) : f_wr_mis'[s][i] = at[s][i].master
    BY <1>2, <1>3 DEF SlaveWrites
  <2>3. QED
    BY <1>6, <1>9, <1>10, <2>1, <2>2 DEF SlaveWrites
<1>12. ASSUME NEW j \in Slaves PROVE SlaveWrites(j, at[j])'
  <2>1. CASE j # s
    BY <1>2, <1>10, <2>1, OtherSlaveWrites DEF Writes
  <2>2. QED
    BY <1>11, <2>1
<1>13. ASSUME NEW j \in Masters PROVE MasterWrites(j, sent[j])'
  BY <1>2, OtherMasterWrites DEF Writes
<1>14. Writes(at, sent)'
  BY <1>12, <1>13 DEF Writes, Linked
<1>15. QED
  BY <1>14

LEMMA WritesUnchanged ==
    ASSUME NEW at, NEW sent, Writes(at, sent), UNCHANGED writeVars
    PROVE  Writes(at, sent)'
<1>1. UNCHANGED <<asked_wr, wr_addr, wr_resp, s_wr_addr, s_wr_resp, f_wr_sjs, f_wr_mis, f_wr_err_info>>
  BY DEF writeVars
<1>2. ASSUME NEW m \in Masters PROVE MasterWrites(m, sent[m])'
  BY <1>1, OtherMasterWrites DEF Writes
<1>3. ASSUME NEW s \in Slaves PROVE SlaveWrites(s, at[s])'
  BY <1>1, OtherSlaveWrites DEF Writes
<1>4. QED
  BY <1>2, <1>3 DEF Writes, Linked

\* What a step does to the writes.
LEMMA StepsOfWrites ==
    ASSUME [Next]_vars
    PROVE  \/ UNCHANGED <<rg_reset, writeVars>>
           \/ rl_reset
           \/ \E m \in Masters, s \in Slaves : rl_wr_xaction_master_to_slave(m, s)
           \/ \E m \in Masters : rl_wr_xaction_no_such_slave(m)
           \/ \E m \in Masters, s \in Slaves : rl_wr_resp_slave_to_master(m, s)
           \/ \E m \in Masters : rl_wr_resp_err_to_master(m)
           \/ \E c \in WrBursts : MasterWrite(c)
           \/ \E m \in Masters : MasterTakesResp(m)
           \/ \E s \in Slaves : SlaveWrite(s) /\ (s_wr_addr' # s_wr_addr \/ s_wr_resp' # s_wr_resp)
<1>1. CASE UNCHANGED vars
  BY <1>1 DEF vars, wrVars, writeVars
<1>2. ASSUME NEW m \in Masters, ReadRules(m) PROVE UNCHANGED <<rg_reset, writeVars>>
  BY <1>2 DEF ReadRules, rl_rd_xaction_master_to_slave, rl_rd_xaction_no_such_slave,
              rl_rd_resp_slave_to_master, rl_rd_resp_err_to_master, wrVars, writeVars
<1>3. ASSUME NEW c \in RdBursts, MasterRead(c) PROVE UNCHANGED <<rg_reset, writeVars>>
  BY <1>3 DEF MasterRead, wrVars, writeVars
<1>4. ASSUME NEW m \in Masters, MasterData(m) \/ MasterTakesData(m)
      PROVE  UNCHANGED <<rg_reset, writeVars>>
  BY <1>4 DEF MasterData, MasterTakesData, wrVars, writeVars
<1>5. ASSUME NEW s \in Slaves, SlaveRead(s) PROVE UNCHANGED <<rg_reset, writeVars>>
  BY <1>5 DEF SlaveRead, wrVars, writeVars
<1>6. ASSUME NEW s \in Slaves, SlaveWrite(s), s_wr_addr' = s_wr_addr, s_wr_resp' = s_wr_resp
      PROVE  UNCHANGED <<rg_reset, writeVars>>
  BY <1>6 DEF SlaveWrite, writeVars
<1>7. ASSUME NEW m \in Masters, rl_wr_xaction_master_to_slave_data(m)
      PROVE  UNCHANGED <<rg_reset, writeVars>>
  BY <1>7 DEF rl_wr_xaction_master_to_slave_data, writeVars
<1>8. QED
  BY <1>1, <1>2, <1>3, <1>4, <1>5, <1>6, <1>7 DEF Next, WriteRules

LEMMA WriteTypesStep ==
    ASSUME WriteTypes, NEW at, NEW sent, Writes(at, sent), [Next]_vars
    PROVE  WriteTypes'
<1> USE DEF WriteTypes
<1>1. CASE UNCHANGED <<rg_reset, writeVars>>
  BY <1>1 DEF writeVars
<1>2. CASE rl_reset
  BY <1>2, EmptyType DEF rl_reset
<1>3. ASSUME NEW m \in Masters, NEW s \in Slaves, rl_wr_xaction_master_to_slave(m, s)
      PROVE  WriteTypes'
  <2>1. PICK b : b = Head(wr_addr[m])
    OBVIOUS
  <2>2. /\ s_wr_addr' = Push(s_wr_addr, s, b) /\ wr_addr' = Pop(wr_addr, m) /\ wr_addr[m] # <<>>
        /\ f_wr_mis' = Push(f_wr_mis, s, m) /\ f_wr_sjs' = Push(f_wr_sjs, m, s)
        /\ UNCHANGED <<asked_wr, wr_resp, s_wr_resp, f_wr_err_info>>
    BY <1>3, <2>1 DEF rl_wr_xaction_master_to_slave, HasWrite
  <2>3. b \in Bursts /\ s \in 0 .. NumSlaves
    BY <2>1, <2>2, Popped, SlaveNumbers
  <2>4. f_wr_mis' \in [Slaves -> Seq(Masters)]
    BY <2>2, PushType
  <2>5. f_wr_sjs' \in [Masters -> Seq(0 .. NumSlaves)]
    BY <2>2, <2>3, PushType
  <2>6. s_wr_addr' \in [Slaves -> Seq(Bursts)]
    BY <2>2, <2>3, PushType
  <2>7. wr_addr' \in [Masters -> Seq(Bursts)]
    BY <2>2, PopType
  <2>8. QED
    BY <2>2, <2>4, <2>5, <2>6, <2>7
<1>4. ASSUME NEW m \in Masters, rl_wr_xaction_no_such_slave(m)
      PROVE  WriteTypes'
  <2>1. PICK b : b = Head(wr_addr[m])
    OBVIOUS
  <2>2. /\ wr_addr' = Pop(wr_addr, m) /\ wr_addr[m] # <<>>
        /\ f_wr_sjs' = Push(f_wr_sjs, m, NoSlave) /\ f_wr_err_info' = Push(f_wr_err_info, m, b)
        /\ UNCHANGED <<asked_wr, wr_resp, s_wr_addr, s_wr_resp, f_wr_mis>>
    BY <1>4, <2>1 DEF rl_wr_xaction_no_such_slave, HasWrite
  <2>3. b \in Bursts
    BY <2>1, <2>2, Popped
  <2>4. f_wr_sjs' \in [Masters -> Seq(0 .. NumSlaves)]
    BY <2>2, SlaveNumbers, PushType
  <2>5. f_wr_err_info' \in [Masters -> Seq(Bursts)]
    BY <2>2, <2>3, PushType
  <2>6. wr_addr' \in [Masters -> Seq(Bursts)]
    BY <2>2, PopType
  <2>7. QED
    BY <2>2, <2>4, <2>5, <2>6
<1>5. ASSUME NEW m \in Masters, NEW s \in Slaves, rl_wr_resp_slave_to_master(m, s)
      PROVE  WriteTypes'
  <2>1. PICK r : r = Head(s_wr_resp[s])
    OBVIOUS
  <2>2. /\ f_wr_mis[s] # <<>> /\ f_wr_sjs[m] # <<>> /\ s_wr_resp[s] # <<>>
        /\ f_wr_mis' = Pop(f_wr_mis, s) /\ f_wr_sjs' = Pop(f_wr_sjs, m)
        /\ s_wr_resp' = Pop(s_wr_resp, s) /\ wr_resp' = Push(wr_resp, m, r)
        /\ UNCHANGED <<asked_wr, wr_addr, s_wr_addr, f_wr_err_info>>
    BY <1>5, <2>1 DEF rl_wr_resp_slave_to_master, WriteReturns
  <2>3. r \in WriteResps
    BY <2>1, <2>2, Popped
  <2>4. wr_resp' \in [Masters -> Seq(WriteResps)]
    BY <2>2, <2>3, PushType
  <2>5. s_wr_resp' \in [Slaves -> Seq(WriteResps)]
    BY <2>2, PopType
  <2>6. f_wr_mis' \in [Slaves -> Seq(Masters)]
    BY <2>2, PopType
  <2>7. f_wr_sjs' \in [Masters -> Seq(0 .. NumSlaves)]
    BY <2>2, PopType
  <2>8. QED
    BY <2>2, <2>4, <2>5, <2>6, <2>7
<1>6. ASSUME NEW m \in Masters, rl_wr_resp_err_to_master(m)
      PROVE  WriteTypes'
  <2>1. PICK r : r = [burst |-> Head(f_wr_err_info[m]), resp |-> "DECERR"]
    OBVIOUS
  <2>2. /\ f_wr_sjs[m] # <<>> /\ f_wr_err_info[m] # <<>>
        /\ f_wr_sjs' = Pop(f_wr_sjs, m) /\ f_wr_err_info' = Pop(f_wr_err_info, m)
        /\ wr_resp' = Push(wr_resp, m, r)
        /\ UNCHANGED <<asked_wr, wr_addr, s_wr_addr, s_wr_resp, f_wr_mis>>
    BY <1>6, <2>1 DEF rl_wr_resp_err_to_master
  <2>3. Head(f_wr_err_info[m]) \in Bursts
    BY <2>2, Popped
  <2>4. r \in WriteResps
    BY <2>1, <2>3 DEF WriteResps
  <2>5. wr_resp' \in [Masters -> Seq(WriteResps)]
    BY <2>2, <2>4, PushType
  <2>6. f_wr_sjs' \in [Masters -> Seq(0 .. NumSlaves)]
    BY <2>2, PopType
  <2>7. f_wr_err_info' \in [Masters -> Seq(Bursts)]
    BY <2>2, PopType
  <2>8. QED
    BY <2>2, <2>5, <2>6, <2>7
<1>7. ASSUME NEW c \in WrBursts, MasterWrite(c)
      PROVE  WriteTypes'
  <2>1. PICK m, b : m = c.master /\ b = Tagged(c, NextTag(asked_wr[m]))
    OBVIOUS
  <2>2. /\ wr_addr' = Push(wr_addr, m, b) /\ asked_wr' = Push(asked_wr, m, b)
        /\ UNCHANGED <<wr_resp, s_wr_addr, s_wr_resp, f_wr_sjs, f_wr_mis, f_wr_err_info>>
    BY <1>7, <2>1 DEF MasterWrite
  <2>3. m \in Masters
    BY <2>1, FabricAssumption
  <2>4. b \in Bursts
    BY <2>1, <2>3, AskedBurst
  <2>5. wr_addr' \in [Masters -> Seq(Bursts)] /\ asked_wr' \in [Masters -> Seq(Bursts)]
    BY <2>2, <2>3, <2>4, PushType
  <2>6. QED
    BY <2>2, <2>5
<1>8. ASSUME NEW m \in Masters, MasterTakesResp(m)
      PROVE  WriteTypes'
  <2>1. /\ wr_resp[m] # <<>> /\ wr_resp' = Pop(wr_resp, m) /\ asked_wr' = Pop(asked_wr, m)
        /\ UNCHANGED <<wr_addr, s_wr_addr, s_wr_resp, f_wr_sjs, f_wr_mis, f_wr_err_info>>
    BY <1>8 DEF MasterTakesResp
  <2>2. asked_wr[m] # <<>>
    BY <1>8, WriteTake
  <2>3. wr_resp' \in [Masters -> Seq(WriteResps)]
    BY <2>1, PopType
  <2>4. asked_wr' \in [Masters -> Seq(Bursts)]
    BY <2>1, <2>2, PopType
  <2>5. QED
    BY <2>1, <2>3, <2>4
<1>9. ASSUME NEW s \in Slaves, SlaveWrite(s), s_wr_addr' # s_wr_addr \/ s_wr_resp' # s_wr_resp
      PROVE  WriteTypes'
  <2>1. PICK r : r = [burst |-> Head(s_wr_addr[s]), resp |-> "OKAY"]
    OBVIOUS
  <2>2. /\ s_wr_addr[s] # <<>>
        /\ s_wr_resp' = Push(s_wr_resp, s, r) /\ s_wr_addr' = Pop(s_wr_addr, s)
        /\ UNCHANGED <<asked_wr, wr_addr, wr_resp, f_wr_sjs, f_wr_mis, f_wr_err_info>>
    BY <1>9, <2>1 DEF SlaveWrite
  <2>3. Head(s_wr_addr[s]) \in Bursts
    BY <2>2, Popped
  <2>4. r \in WriteResps
    BY <2>1, <2>3 DEF WriteResps
  <2>5. s_wr_resp' \in [Slaves -> Seq(WriteResps)]
    BY <2>2, <2>4, PushType
  <2>6. s_wr_addr' \in [Slaves -> Seq(Bursts)]
    BY <2>2, PopType
  <2>7. QED
    BY <2>2, <2>5, <2>6
<1>10. QED
  BY <1>1, <1>2, <1>3, <1>4, <1>5, <1>6, <1>7, <1>8, <1>9, StepsOfWrites
-----------------------------------------------------------------------------
(* The invariant of writes holds.                                           *)

\* Before the reset nothing is asked, and the reset finds nothing to clear.
LEMMA WritesWait ==
    ASSUME [Next]_vars, rg_reset, WritesEmpty
    PROVE  UNCHANGED writeVars
<1> USE DEF WritesEmpty, EmptyPer
<1>1. CASE rl_reset
  BY <1>1 DEF rl_reset, writeVars
<1>2. ASSUME NEW m \in Masters, NEW s \in Slaves, rl_wr_xaction_master_to_slave(m, s)
      PROVE  FALSE
  BY <1>2 DEF rl_wr_xaction_master_to_slave, HasWrite
<1>3. ASSUME NEW m \in Masters, rl_wr_xaction_no_such_slave(m) PROVE FALSE
  BY <1>3 DEF rl_wr_xaction_no_such_slave, HasWrite
<1>4. ASSUME NEW m \in Masters, NEW s \in Slaves, rl_wr_resp_slave_to_master(m, s) PROVE FALSE
  BY <1>4 DEF rl_wr_resp_slave_to_master
<1>5. ASSUME NEW m \in Masters, rl_wr_resp_err_to_master(m) PROVE FALSE
  BY <1>5 DEF rl_wr_resp_err_to_master
<1>6. ASSUME NEW c \in WrBursts, MasterWrite(c) PROVE FALSE
  BY <1>6 DEF MasterWrite
<1>7. ASSUME NEW m \in Masters, MasterTakesResp(m) PROVE FALSE
  BY <1>7 DEF MasterTakesResp
<1>8. ASSUME NEW s \in Slaves, SlaveWrite(s) PROVE FALSE
  BY <1>8 DEF SlaveWrite
<1>9. QED
  BY <1>1, <1>2, <1>3, <1>4, <1>5, <1>6, <1>7, <1>8, StepsOfWrites

LEMMA WriteInvInit == Init => WriteInv
<1> SUFFICES ASSUME Init PROVE WriteInv
  OBVIOUS
<1>1. WritesEmpty
  BY DEF Init, WritesEmpty
<1>2. WriteTypes
  <2>1. \A S, T : EmptyPer(S) \in [S -> Seq(T)]
    BY EmptyType
  <2>2. QED
    BY <1>1, <2>1 DEF WriteTypes, WritesEmpty
<1>3. QED
  BY <1>1, <1>2, WritesStart DEF WriteInv

LEMMA WriteInvStep == WriteInv /\ [Next]_vars => WriteInv'
<1> SUFFICES ASSUME WriteInv, [Next]_vars PROVE WriteInv'
  OBVIOUS
<1>1. PICK at, sent : Writes(at, sent)
  BY DEF WriteInv
<1>2. WriteTypes
  BY DEF WriteInv
<1>3. WriteTypes'
  BY <1>1, <1>2, WriteTypesStep
<1>4. rg_reset' => WritesEmpty'
  <2>1. ASSUME rg_reset' PROVE WritesEmpty'
    <3>1. rg_reset /\ WritesEmpty
      BY <2>1, ResetOnce DEF WriteInv
    <3>2. UNCHANGED writeVars
      BY <3>1, WritesWait
    <3>3. QED
      BY <3>1, <3>2 DEF writeVars, WritesEmpty
  <2>2. QED
    BY <2>1
<1>5. \E a, t : Writes(a, t)'
  <2>1. CASE UNCHANGED <<rg_reset, writeVars>>
    BY <1>1, <2>1, WritesUnchanged
  <2>2. CASE rl_reset
    <3>1. rg_reset /\ WritesEmpty
      BY <2>2 DEF rl_reset, WriteInv
    <3>2. UNCHANGED writeVars
      BY <3>1, WritesWait
    <3>3. QED
      BY <1>1, <3>2, WritesUnchanged
  <2>3. ASSUME NEW m \in Masters, NEW s \in Slaves, rl_wr_xaction_master_to_slave(m, s)
        PROVE  \E a, t : Writes(a, t)'
    BY <1>1, <1>2, <2>3, WritePass
  <2>4. ASSUME NEW m \in Masters, rl_wr_xaction_no_such_slave(m)
        PROVE  \E a, t : Writes(a, t)'
    BY <1>1, <1>2, <2>4, WriteNone
  <2>5. ASSUME NEW m \in Masters, NEW s \in Slaves, rl_wr_resp_slave_to_master(m, s)
        PROVE  \E a, t : Writes(a, t)'
    BY <1>1, <1>2, <2>5, WriteReturn
  <2>6. ASSUME NEW m \in Masters, rl_wr_resp_err_to_master(m)
        PROVE  \E a, t : Writes(a, t)'
    BY <1>1, <1>2, <2>6, WriteError
  <2>7. ASSUME NEW c \in WrBursts, MasterWrite(c)
        PROVE  \E a, t : Writes(a, t)'
    BY <1>1, <1>2, <2>7, WriteAsk
  <2>8. ASSUME NEW m \in Masters, MasterTakesResp(m)
        PROVE  \E a, t : Writes(a, t)'
    BY <1>1, <1>2, <2>8, WriteTake
  <2>9. ASSUME NEW s \in Slaves, SlaveWrite(s), s_wr_addr' # s_wr_addr \/ s_wr_resp' # s_wr_resp
        PROVE  \E a, t : Writes(a, t)'
    BY <1>1, <1>2, <2>9, WriteServe
  <2>10. QED
    BY <2>1, <2>2, <2>3, <2>4, <2>5, <2>6, <2>7, <2>8, <2>9, StepsOfWrites
<1>6. QED
  BY <1>3, <1>4, <1>5 DEF WriteInv

\* The half of AnswersInOrder that is about writes.
WritesInOrder ==
    \A m \in Masters : \A i \in DOMAIN wr_resp[m] :
        wr_resp[m][i].burst = asked_wr[m][i] /\ RightResp(wr_resp[m][i])

LEMMA WritesAnswered == WriteInv => WritesInOrder
<1> SUFFICES ASSUME WriteInv, NEW m \in Masters, NEW i \in DOMAIN wr_resp[m]
             PROVE  wr_resp[m][i].burst = asked_wr[m][i] /\ RightResp(wr_resp[m][i])
  BY DEF WritesInOrder
<1>1. PICK at, sent : Writes(at, sent)
  BY DEF WriteInv
<1>2. wr_resp[m] \in Seq(WriteResps)
  BY DEF WriteInv, WriteTypes
<1>3. MasterWrites(m, sent[m])
  BY <1>1 DEF Writes
<1>4. i \in 1 .. Len(wr_resp[m])
  BY <1>2, LenProperties
<1>5. QED
  BY <1>3, <1>4 DEF MasterWrites, Answers

\* The invariant of writes: the notes of masters and slaves stand for the same
\* bursts, and each queue of answers holds those that come next in it.
THEOREM WritesMatch == Spec => []WriteInv
<1>1. QED
  BY WriteInvInit, WriteInvStep, PTL DEF Spec

\* A master gets its answers in the order in which it asked, from the slave it
\* asked, and of a read as many beats as it asked for, whatever way the rules
\* of mkAXI4_Fabric (AXI4_Fabric.bsv) pass on what masters and slaves say.
THEOREM MastersAnswered == Spec => []AnswersInOrder
<1>1. ReadsInOrder /\ WritesInOrder => AnswersInOrder
  BY DEF ReadsInOrder, WritesInOrder, AnswersInOrder
<1>2. ReadInv /\ WriteInv => AnswersInOrder
  BY <1>1, ReadsAnswered, WritesAnswered
<1>3. QED
  BY <1>2, ReadsMatch, WritesMatch, PTL
-----------------------------------------------------------------------------
(* Write data.  Of each burst that a master asks for, as many beats follow  *)
(* as its length says; due are the bursts of a master whose data has not    *)
(* passed the fabric, tasks those of them whose address has (f_wd_tasks),   *)
(* owed those that a slave has addresses of.                                *)

DataBeats == [burst : Bursts, last : BOOLEAN]
Tasks == [to : 0 .. NumSlaves, len : Nat]
Writing == {Tagged(b, t) : b \in WrBursts, t \in Tags}
BurstBeats(b) == [k \in 1 .. b.len + 1 |-> [burst |-> b, last |-> k = b.len + 1]]

Due(m, due, tasks, addr, fwd, data, count) ==
    /\ due \in Seq(Bursts) /\ tasks \in Seq(Bursts) /\ addr \in Seq(Bursts)
    /\ fwd \in Seq(Tasks) /\ data \in Seq(DataBeats)
    /\ \A i \in 1 .. Len(due) : due[i] \in Writing /\ due[i].master = m
    /\ Split(due, tasks, addr) /\ Done(due, tasks, addr) = 0
    /\ Len(fwd) = Len(tasks)
    /\ \A i \in 1 .. Len(tasks) : fwd[i].to = tasks[i].to /\ fwd[i].len = tasks[i].len
    /\ Stream(data, due, count, 0, Len(due))
    /\ tasks = <<>> => count = 0

Owed(s, owed, addr, data, taken, pos) ==
    /\ owed \in Seq(Bursts) /\ addr \in Seq(Bursts) /\ data \in Seq(DataBeats)
    /\ \A i \in 1 .. Len(owed) : owed[i] \in Writing
    /\ Split(addr, <<>>, owed)
    /\ Stream(data, addr, taken, pos, Done(addr, <<>>, owed))

LEMMA WritingBursts == Writing \subseteq Bursts
BY DEF Writing, Bursts

LEMMA DueEmpty == \A m : Due(m, <<>>, <<>>, <<>>, <<>>, <<>>, 0)
<1>1. /\ Len(<<>>) = 0 /\ <<>> \in Seq(Bursts) /\ <<>> \in Seq(Tasks) /\ <<>> \in Seq(DataBeats)
  BY EmptySeq
<1>2. Stream(<<>>, <<>>, 0, 0, 0)
  BY <1>1, StreamEmpty
<1>3. QED
  BY <1>1, <1>2, SplitEmpty DEF Due

LEMMA OwedEmpty == \A s : Owed(s, <<>>, <<>>, <<>>, 0, 0)
<1>1. Len(<<>>) = 0 /\ <<>> \in Seq(Bursts) /\ <<>> \in Seq(DataBeats)
  BY EmptySeq
<1>2. Stream(<<>>, <<>>, 0, 0, 0)
  BY <1>1, StreamEmpty
<1>3. QED
  BY <1>1, <1>2, SplitEmpty DEF Owed

LEMMA BeatType ==
    ASSUME NEW b \in Bursts
    PROVE  BurstBeats(b) \in Seq(DataBeats)
<1>1. PICK n \in Nat : n = b.len
  BY BurstFields
<1> DEFINE beats == [k \in 1 .. n + 1 |-> [burst |-> b, last |-> k = n + 1]]
<1>2. \A k \in 1 .. n + 1 : [burst |-> b, last |-> k = n + 1] \in DataBeats
  BY DEF DataBeats
<1>3. beats \in [1 .. n + 1 -> DataBeats]
  BY <1>2
<1>4. beats \in Seq(DataBeats)
  <2> HIDE DEF beats
  <2>1. n + 1 \in Nat
    OBVIOUS
  <2>2. QED
    BY <1>3, <2>1, SeqDef
<1>5. QED
  BY <1>1, <1>4 DEF BurstBeats

\* A whole burst follows.
LEMMA StreamBurst ==
    ASSUME NEW q \in Seq(DataBeats), NEW bs \in Seq(Bursts), NEW b \in Bursts, NEW p0,
           Stream(q, bs, p0, 0, Len(bs))
    PROVE  Stream(q \o BurstBeats(b), Append(bs, b), p0, 0, Len(bs) + 1)
<1>1. PICK n \in Nat : n = b.len
  BY BurstFields
<1>2. PICK b2 \in Seq(Bursts) : b2 = Append(bs, b)
  BY Appended
<1>3. /\ Len(bs) \in Nat /\ Len(b2) = Len(bs) + 1 /\ b2[Len(bs) + 1] = b
  BY <1>2, Appended
<1> DEFINE First(k) == [j \in 1 .. k |-> [burst |-> b, last |-> j = n + 1]]
           S == {k \in 0 .. n : Stream(q \o First(k), b2, p0, k, Len(bs))}
<1>4. \A k \in Nat : First(k) \in Seq(DataBeats)
  <2> SUFFICES ASSUME NEW k \in Nat PROVE First(k) \in Seq(DataBeats)
    OBVIOUS
  <2>1. \A j \in 1 .. k : [burst |-> b, last |-> j = n + 1] \in DataBeats
    BY DEF DataBeats
  <2>2. First(k) \in [1 .. k -> DataBeats]
    BY <2>1
  <2> HIDE DEF First
  <2>3. QED
    BY <2>2, SeqDef
<1>5. ASSUME NEW k \in Nat
      PROVE  First(k + 1) = Append(First(k), [burst |-> b, last |-> k = n])
  <2>1. PICK f \in Seq(DataBeats) : f = First(k)
    BY <1>4
  <2>2. Len(f) = k /\ \A j \in 1 .. k : f[j] = [burst |-> b, last |-> j = n + 1]
    BY <2>1
  <2>3. PICK x : x = [burst |-> b, last |-> k = n]
    OBVIOUS
  <2>4. x \in DataBeats
    BY <2>3 DEF DataBeats
  <2>5. PICK g \in Seq(DataBeats) : g = Append(f, x)
    BY <2>4, Appended
  <2>6. Len(g) = k + 1 /\ g[k + 1] = x /\ \A j \in 1 .. k : g[j] = f[j]
    BY <2>2, <2>4, <2>5, Appended
  <2>7. PICK h : h = First(k + 1)
    OBVIOUS
  <2>7a. h \in Seq(DataBeats)
    <3>1. k + 1 \in Nat
      OBVIOUS
    <3> HIDE DEF First
    <3>2. QED
      BY <1>4, <2>7, <3>1
  <2>8. Len(h) = k + 1 /\ \A j \in 1 .. k + 1 : h[j] = [burst |-> b, last |-> j = n + 1]
    BY <2>7
  <2>9. ASSUME NEW j \in 1 .. k + 1 PROVE h[j] = g[j]
    <3>1. CASE j = k + 1
      BY <3>1, <2>3, <2>6, <2>8
    <3>2. CASE j # k + 1
      <4>1. j \in 1 .. k
        BY <3>2
      <4>2. QED
        BY <4>1, <2>2, <2>6, <2>8
    <3>3. QED
      BY <3>1, <3>2
  <2>10. h = g
    BY <2>6, <2>7a, <2>8, <2>9, SeqEqual
  <2>11. QED
    BY <2>1, <2>3, <2>5, <2>7, <2>10
<1>6. 0 \in S
  <2>1. First(0) = <<>>
    OBVIOUS
  <2>2. q \o <<>> = q
    BY ConcatEmptySeq
  <2>3. Len(q) \in Nat
    BY LenProperties
  <2>4. Stream(q, Append(bs, b), p0, 0, Len(bs))
    BY <2>3, StreamMore
  <2>5. 0 \in 0 .. n
    OBVIOUS
  <2> HIDE DEF First
  <2>6. Stream(q \o First(0), b2, p0, 0, Len(bs))
    <3>1. q \o First(0) = q
      BY <2>1, <2>2
    <3>2. QED
      BY <1>2, <2>4, <3>1
  <2>7. QED
    BY <2>5, <2>6
<1>7. ASSUME NEW k \in 0 .. n, Stream(q \o First(k), b2, p0, k, Len(bs))
      PROVE  Stream(q \o First(k + 1), b2, p0, IF k = n THEN 0 ELSE k + 1,
                    IF k = n THEN Len(bs) + 1 ELSE Len(bs))
  <2>1. PICK x : x = [burst |-> b, last |-> k = n]
    OBVIOUS
  <2>2. x \in DataBeats /\ x.burst = b /\ (x.last <=> k = n) /\ x.last \in BOOLEAN
    BY <2>1 DEF DataBeats
  <2> HIDE DEF First, S
  <2>3. k \in Nat /\ k + 1 \in Nat
    OBVIOUS
  <2>4. PICK f : f = First(k)
    OBVIOUS
  <2>4a. f \in Seq(DataBeats) /\ First(k + 1) = Append(f, x)
    BY <1>4, <1>5, <2>1, <2>3, <2>4
  <2>5. q \o Append(f, x) = Append(q \o f, x)
    BY <2>2, <2>4a
  <2>6. PICK p \in Seq(DataBeats) : p = q \o f
    BY <2>4a, ConcatProperties
  <2>7. Stream(p, b2, p0, k, Len(bs))
    BY <1>7, <2>4, <2>6
  <2>8. Stream(Append(p, x), b2, p0, IF x.last THEN 0 ELSE k + 1,
               IF x.last THEN Len(bs) + 1 ELSE Len(bs))
    <3>1. PICK l : l = Len(bs)
      OBVIOUS
    <3>2. l \in Nat /\ l < Len(b2) /\ x.burst = b2[l + 1] /\ (x.last <=> k = b2[l + 1].len)
      BY <1>1, <1>3, <2>2, <3>1
    <3>3. Stream(p, b2, p0, k, l)
      BY <2>7, <3>1
    <3>4. Stream(Append(p, x), b2, p0, IF x.last THEN 0 ELSE k + 1, IF x.last THEN l + 1 ELSE l)
      BY <2>2, <3>2, <3>3, StreamAppend
    <3>5. QED
      BY <3>1, <3>4
  <2>9. QED
    BY <2>2, <2>4, <2>4a, <2>5, <2>6, <2>8
<1>8. 0 .. n \subseteq S
  <2>1. ASSUME NEW i \in 1 .. n, i - 1 \in S PROVE i \in S
    <3>1. PICK k \in 0 .. n : k = i - 1
      OBVIOUS
    <3>2. k + 1 = i /\ k # n /\ i \in 0 .. n
      BY <3>1
    <3>3. Stream(q \o First(k), b2, p0, k, Len(bs))
      BY <2>1, <3>1
    <3> HIDE DEF First
    <3>4. Stream(q \o First(k + 1), b2, p0, IF k = n THEN 0 ELSE k + 1,
                    IF k = n THEN Len(bs) + 1 ELSE Len(bs))
      BY <1>7, <3>3
    <3>5. QED
      BY <3>2, <3>4
  <2> HIDE DEF S
  <2>2. QED
    BY <1>6, <2>1, IntervalInduction
<1>9. Stream(q \o First(n), b2, p0, n, Len(bs))
  <2> HIDE DEF First
  <2>1. n \in S
    BY <1>8
  <2>2. QED
    BY <2>1
<1>10. First(n + 1) = BurstBeats(b)
  BY <1>1 DEF BurstBeats
<1> HIDE DEF First
<1>11. QED
  BY <1>2, <1>7, <1>9, <1>10
-----------------------------------------------------------------------------
\* A master asks for a burst.
LEMMA DueAsk ==
    ASSUME NEW m, NEW due, NEW tasks, NEW addr, NEW fwd, NEW data, NEW count,
           Due(m, due, tasks, addr, fwd, data, count), NEW b \in Writing, b.master = m
    PROVE  Due(m, Append(due, b), tasks, Append(addr, b), fwd, data \o BurstBeats(b), count)
<1>1. b \in Bursts
  BY WritingBursts
<1>2. /\ due \in Seq(Bursts) /\ tasks \in Seq(Bursts) /\ addr \in Seq(Bursts)
      /\ fwd \in Seq(Tasks) /\ data \in Seq(DataBeats)
      /\ Split(due, tasks, addr) /\ Done(due, tasks, addr) = 0
      /\ Stream(data, due, count, 0, Len(due))
      /\ \A i \in 1 .. Len(due) : due[i] \in Writing /\ due[i].master = m
  BY DEF Due
<1>3. PICK d2 : d2 = Append(due, b)
  OBVIOUS
<1>4. /\ d2 \in Seq(Bursts) /\ Len(due) \in Nat /\ Len(d2) = Len(due) + 1
      /\ \A i \in 1 .. Len(due) : d2[i] = due[i]
      /\ d2[Len(due) + 1] = b
  BY <1>1, <1>2, <1>3, Appended
<1>5. ASSUME NEW i \in 1 .. Len(d2) PROVE d2[i] \in Writing /\ d2[i].master = m
  <2>1. CASE i \in 1 .. Len(due)
    BY <1>2, <1>4, <2>1
  <2>2. CASE i = Len(due) + 1
    BY <1>4, <2>2
  <2>3. QED
    BY <1>4, <2>1, <2>2
<1>6. PICK a2 : a2 = Append(addr, b)
  OBVIOUS
<1>7. a2 \in Seq(Bursts) /\ Split(d2, tasks, a2) /\ Done(d2, tasks, a2) = 0
  BY <1>1, <1>2, <1>3, <1>6, Appended, SplitAsk
<1>8. PICK q : q = data \o BurstBeats(b)
  OBVIOUS
<1>9. q \in Seq(DataBeats)
  BY <1>1, <1>2, <1>8, BeatType, ConcatProperties
<1>10. Stream(q, d2, count, 0, Len(due) + 1)
  BY <1>1, <1>2, <1>3, <1>8, StreamBurst
<1>11. Due(m, d2, tasks, a2, fwd, q, count)
  BY <1>4, <1>5, <1>7, <1>9, <1>10 DEF Due
<1>12. QED
  BY <1>3, <1>6, <1>8, <1>11

\* The fabric passes an address on, and makes a task of it.
LEMMA DuePass ==
    ASSUME NEW m, NEW due, NEW tasks, NEW addr, NEW fwd, NEW data, NEW count,
           Due(m, due, tasks, addr, fwd, data, count), NEW b, addr # <<>>, b = Head(addr)
    PROVE  /\ b \in Writing /\ b.master = m
           /\ Due(m, due, Append(tasks, b), Tail(addr), Append(fwd, [to |-> b.to, len |-> b.len]),
                  data, count)
<1>1. /\ due \in Seq(Bursts) /\ tasks \in Seq(Bursts) /\ addr \in Seq(Bursts)
      /\ fwd \in Seq(Tasks) /\ data \in Seq(DataBeats)
      /\ Split(due, tasks, addr) /\ Done(due, tasks, addr) = 0
      /\ Stream(data, due, count, 0, Len(due))
      /\ \A i \in 1 .. Len(due) : due[i] \in Writing /\ due[i].master = m
      /\ Len(fwd) = Len(tasks)
      /\ \A i \in 1 .. Len(tasks) : fwd[i].to = tasks[i].to /\ fwd[i].len = tasks[i].len
      /\ tasks = <<>> => count = 0
  BY DEF Due
<1>2. b \in Bursts /\ b = addr[1] /\ Tail(addr) \in Seq(Bursts) /\ Len(addr) \in Nat /\ Len(addr) > 0
  BY <1>1, Popped
<1>3. b \in Writing /\ b.master = m
  <2>1. Len(due) \in Nat /\ Len(tasks) \in Nat
    BY <1>1, LenProperties
  <2>2. due[0 + Len(tasks) + 1] = addr[1] /\ Len(due) = Len(tasks) + Len(addr)
    <3>1. 1 \in 1 .. Len(addr)
      BY <1>2
    <3>2. due[Done(due, tasks, addr) + Len(tasks) + 1] = addr[1]
      BY <1>1, <3>1 DEF Split
    <3>3. Len(due) - Len(tasks) - Len(addr) = 0
      BY <1>1 DEF Done
    <3>4. QED
      BY <1>1, <1>2, <2>1, <3>2, <3>3
  <2>3. due[Len(tasks) + 1] = b /\ Len(tasks) + 1 \in 1 .. Len(due)
    BY <1>1, <1>2, <2>1, <2>2
  <2>4. QED
    BY <1>1, <2>3
<1>4. PICK t2, a2 : t2 = Append(tasks, b) /\ a2 = Tail(addr)
  OBVIOUS
<1>5. Split(due, t2, a2) /\ Done(due, t2, a2) = 0
  BY <1>1, <1>4, SplitPass
<1>6. /\ t2 \in Seq(Bursts) /\ t2 # <<>> /\ Len(t2) = Len(tasks) + 1 /\ Len(tasks) \in Nat
      /\ \A i \in 1 .. Len(tasks) : t2[i] = tasks[i]
      /\ t2[Len(tasks) + 1] = b
  <2>1. t2 = Append(tasks, b) /\ tasks \in Seq(Bursts) /\ b \in Bursts
    BY <1>1, <1>2, <1>4
  <2>2. QED
    BY <2>1, Appended
<1>7. PICK task : task = [to |-> b.to, len |-> b.len]
  OBVIOUS
<1>8. task \in Tasks /\ task.to = b.to /\ task.len = b.len
  BY <1>2, <1>7, BurstFields DEF Tasks
<1>9. PICK f2 : f2 = Append(fwd, task)
  OBVIOUS
<1>10. /\ f2 \in Seq(Tasks) /\ Len(f2) = Len(fwd) + 1
       /\ \A i \in 1 .. Len(fwd) : f2[i] = fwd[i]
       /\ f2[Len(fwd) + 1] = task
  BY <1>1, <1>8, <1>9, Appended
<1>11. ASSUME NEW i \in 1 .. Len(t2) PROVE f2[i].to = t2[i].to /\ f2[i].len = t2[i].len
  <2>1. CASE i \in 1 .. Len(tasks)
    BY <1>1, <1>6, <1>10, <2>1
  <2>2. CASE i = Len(tasks) + 1
    BY <1>1, <1>6, <1>8, <1>10, <2>2
  <2>3. QED
    BY <1>6, <2>1, <2>2
<1>12. a2 \in Seq(Bursts) /\ Len(f2) = Len(t2)
  BY <1>1, <1>2, <1>4, <1>6, <1>10
<1>13. Due(m, due, t2, a2, f2, data, count)
  BY <1>1, <1>5, <1>6, <1>10, <1>11, <1>12 DEF Due
<1>14. QED
  BY <1>3, <1>4, <1>7, <1>9, <1>13

\* What the fabric knows of the first beat, and what is left behind it.
DueNext(m, due, tasks, addr, fwd, data, count) ==
    LET b == tasks[1]
        x == Head(data)
    IN  /\ b \in Writing /\ b.master = m
        /\ x \in DataBeats /\ x.burst = b
        /\ Head(fwd).to = b.to /\ Head(fwd).len = b.len
        /\ x.last <=> count = b.len
        /\ x.last => Due(m, Tail(due), Tail(tasks), addr, Tail(fwd), Tail(data), 0)
        /\ ~x.last => Due(m, due, tasks, addr, fwd, Tail(data), count + 1)

LEMMA DueBeat ==
    ASSUME NEW m, NEW due, NEW tasks, NEW addr, NEW fwd, NEW data, NEW count,
           Due(m, due, tasks, addr, fwd, data, count), fwd # <<>>, data # <<>>
    PROVE  tasks # <<>> /\ DueNext(m, due, tasks, addr, fwd, data, count)
<1>1. /\ due \in Seq(Bursts) /\ tasks \in Seq(Bursts) /\ addr \in Seq(Bursts)
      /\ fwd \in Seq(Tasks) /\ data \in Seq(DataBeats)
      /\ Split(due, tasks, addr) /\ Done(due, tasks, addr) = 0
      /\ Stream(data, due, count, 0, Len(due))
      /\ \A i \in 1 .. Len(due) : due[i] \in Writing /\ due[i].master = m
      /\ Len(fwd) = Len(tasks)
      /\ \A i \in 1 .. Len(tasks) : fwd[i].to = tasks[i].to /\ fwd[i].len = tasks[i].len
  BY DEF Due
<1>2. /\ Tail(fwd) \in Seq(Tasks) /\ Head(fwd) = fwd[1] /\ Len(fwd) \in Nat /\ Len(fwd) > 0
      /\ Len(Tail(fwd)) = Len(fwd) - 1
      /\ \A i \in 1 .. Len(fwd) - 1 : Tail(fwd)[i] = fwd[i + 1]
  BY <1>1, Popped
<1>3. tasks # <<>>
  <2>1. Len(<<>>) = 0
    BY EmptySeq
  <2>2. QED
    BY <1>1, <1>2, <2>1
<1>4. PICK b, x : b = tasks[1] /\ x = Head(data)
  OBVIOUS
<1>5. x \in DataBeats /\ x = data[1] /\ Tail(data) \in Seq(DataBeats)
  BY <1>1, <1>4, Popped
<1>6. b = due[1] /\ due # <<>> /\ b \in Writing /\ b.master = m
  <2>1. due[0 + 1] = b /\ 0 < Len(due)
    BY <1>1, <1>3, <1>4, SplitDone
  <2>2. Len(due) \in Nat /\ Len(<<>>) = 0
    BY <1>1, LenProperties, EmptySeq
  <2>3. 1 \in 1 .. Len(due) /\ 0 + 1 = 1
    BY <2>1, <2>2
  <2>4. QED
    BY <1>1, <2>1, <2>2, <2>3
<1>7. /\ x.burst = b /\ (x.last <=> count = b.len)
      /\ x.last => Len(due) > 0 /\ Stream(Tail(data), Tail(due), 0, 0, Len(due) - 1)
      /\ ~x.last => count < b.len /\ Stream(Tail(data), due, count + 1, 0, Len(due))
  BY <1>1, <1>4, <1>5, <1>6, StreamTail
<1>8. Head(fwd).to = b.to /\ Head(fwd).len = b.len
  BY <1>1, <1>2, <1>4
<1>9. ASSUME x.last PROVE Due(m, Tail(due), Tail(tasks), addr, Tail(fwd), Tail(data), 0)
  <2>1. Split(due, Tail(tasks), addr) /\ Done(due, Tail(tasks), addr) = 0 + 1
    BY <1>1, <1>3, SplitDone
  <2>2. PICK t2 : t2 = Tail(tasks)
    OBVIOUS
  <2>3. /\ t2 \in Seq(Bursts) /\ Len(t2) = Len(tasks) - 1 /\ Len(tasks) \in Nat
        /\ \A i \in 1 .. Len(tasks) - 1 : t2[i] = tasks[i + 1]
    BY <1>1, <1>3, <2>2, Popped
  <2>4. Done(due, t2, addr) > 0 /\ Done(due, t2, addr) - 1 = 0
    BY <2>1, <2>2
  <2>5. Split(Tail(due), t2, addr) /\ Done(Tail(due), t2, addr) = 0
    <3>1. due \in Seq(Bursts) /\ addr \in Seq(Bursts) /\ Split(due, t2, addr)
      BY <1>1, <2>1, <2>2
    <3>2. /\ Split(Tail(due), t2, addr)
          /\ Done(Tail(due), t2, addr) = Done(due, t2, addr) - 1
      BY <2>3, <2>4, <3>1, SplitTake
    <3>3. QED
      BY <2>4, <3>2
  <2>6. PICK d2 : d2 = Tail(due)
    OBVIOUS
  <2>7. /\ d2 \in Seq(Bursts) /\ Len(d2) = Len(due) - 1 /\ Len(due) \in Nat
        /\ \A i \in 1 .. Len(due) - 1 : d2[i] = due[i + 1]
    BY <1>1, <1>6, <2>6, Popped
  <2>8. ASSUME NEW i \in 1 .. Len(d2) PROVE d2[i] \in Writing /\ d2[i].master = m
    <3>1. i \in 1 .. Len(due) - 1 /\ i + 1 \in 1 .. Len(due)
      BY <2>7
    <3>2. QED
      BY <1>1, <2>7, <3>1
  <2>9. PICK f2 : f2 = Tail(fwd)
    OBVIOUS
  <2>10. Len(f2) = Len(t2) /\ f2 \in Seq(Tasks)
    BY <1>1, <1>2, <2>3, <2>9
  <2>11. ASSUME NEW i \in 1 .. Len(t2) PROVE f2[i].to = t2[i].to /\ f2[i].len = t2[i].len
    <3>1. i \in 1 .. Len(tasks) - 1 /\ i + 1 \in 1 .. Len(tasks)
      BY <2>3
    <3>2. f2[i] = fwd[i + 1] /\ t2[i] = tasks[i + 1]
      BY <1>1, <1>2, <2>3, <2>9, <3>1
    <3>3. QED
      BY <1>1, <3>1, <3>2
  <2>12. Stream(Tail(data), d2, 0, 0, Len(d2))
    BY <1>7, <1>9, <2>6, <2>7
  <2>13. Due(m, d2, t2, addr, f2, Tail(data), 0)
    BY <1>1, <1>5, <2>3, <2>5, <2>6, <2>7, <2>8, <2>10, <2>11, <2>12 DEF Due
  <2>14. QED
    BY <2>2, <2>6, <2>9, <2>13
<1>10. ASSUME ~x.last PROVE Due(m, due, tasks, addr, fwd, Tail(data), count + 1)
  BY <1>1, <1>3, <1>5, <1>7, <1>10 DEF Due
<1>11. QED
  BY <1>3, <1>4, <1>5, <1>6, <1>7, <1>8, <1>9, <1>10 DEF DueNext

\* An address comes to a slave.
LEMMA OwedPass ==
    ASSUME NEW s, NEW owed, NEW addr, NEW data, NEW taken, NEW pos,
           Owed(s, owed, addr, data, taken, pos), NEW b \in Writing
    PROVE  Owed(s, Append(owed, b), Append(addr, b), data, taken, pos)
<1>1. b \in Bursts
  BY WritingBursts
<1>2. /\ owed \in Seq(Bursts) /\ addr \in Seq(Bursts) /\ data \in Seq(DataBeats)
      /\ Split(addr, <<>>, owed)
      /\ Stream(data, addr, taken, pos, Done(addr, <<>>, owed))
      /\ \A i \in 1 .. Len(owed) : owed[i] \in Writing
  BY DEF Owed
<1>3. PICK o2, a2 : o2 = Append(owed, b) /\ a2 = Append(addr, b)
  OBVIOUS
<1>4. /\ o2 \in Seq(Bursts) /\ a2 \in Seq(Bursts) /\ Len(owed) \in Nat /\ Len(o2) = Len(owed) + 1
      /\ \A i \in 1 .. Len(owed) : o2[i] = owed[i]
      /\ o2[Len(owed) + 1] = b
  BY <1>1, <1>2, <1>3, Appended
<1>5. ASSUME NEW i \in 1 .. Len(o2) PROVE o2[i] \in Writing
  <2>1. CASE i \in 1 .. Len(owed)
    BY <1>2, <1>4, <2>1
  <2>2. CASE i = Len(owed) + 1
    BY <1>4, <2>2
  <2>3. QED
    BY <1>4, <2>1, <2>2
<1>6. Split(a2, <<>>, o2) /\ Done(a2, <<>>, o2) = Done(addr, <<>>, owed)
  BY <1>1, <1>2, <1>3, SplitAskNone
<1>7. PICK d : d = Done(addr, <<>>, owed)
  OBVIOUS
<1>8. Stream(data, a2, taken, pos, d)
  <2>1. Len(data) \in Nat /\ Stream(data, addr, taken, pos, d)
    BY <1>2, <1>7, LenProperties
  <2>2. QED
    BY <1>1, <1>2, <1>3, <2>1, StreamMore
<1>9. Owed(s, o2, a2, data, taken, pos)
  BY <1>2, <1>4, <1>5, <1>6, <1>7, <1>8 DEF Owed
<1>10. QED
  BY <1>3, <1>9

\* A beat of the first burst owed comes.
LEMMA OwedBeat ==
    ASSUME NEW s, NEW owed, NEW addr, NEW data, NEW taken, NEW pos,
           Owed(s, owed, addr, data, taken, pos), owed # <<>>,
           NEW x \in DataBeats, x.burst = owed[1], x.last <=> pos = owed[1].len
    PROVE  /\ x.last => Owed(s, Tail(owed), addr, Append(data, x), taken, 0)
           /\ ~x.last => Owed(s, owed, addr, Append(data, x), taken, pos + 1)
<1>1. /\ owed \in Seq(Bursts) /\ addr \in Seq(Bursts) /\ data \in Seq(DataBeats)
      /\ Split(addr, <<>>, owed)
      /\ Stream(data, addr, taken, pos, Done(addr, <<>>, owed))
      /\ \A i \in 1 .. Len(owed) : owed[i] \in Writing
  BY DEF Owed
<1>2. PICK d : d = Done(addr, <<>>, owed)
  OBVIOUS
<1>3. /\ Tail(owed) \in Seq(Bursts) /\ Head(owed) = owed[1]
      /\ Len(owed) \in Nat /\ Len(Tail(owed)) = Len(owed) - 1
      /\ \A i \in 1 .. Len(owed) - 1 : Tail(owed)[i] = owed[i + 1]
  BY <1>1, Popped
<1>4. /\ d < Len(addr) /\ addr[d + 1] = owed[1]
      /\ Split(addr, <<>>, Tail(owed)) /\ Done(addr, <<>>, Tail(owed)) = d + 1
  BY <1>1, <1>2, <1>3, SplitRest
<1>5. Append(data, x) \in Seq(DataBeats) /\ x.last \in BOOLEAN
  BY <1>1, Appended DEF DataBeats
<1>6. Stream(Append(data, x), addr, taken, IF x.last THEN 0 ELSE pos + 1, IF x.last THEN d + 1 ELSE d)
  <2>1. Stream(data, addr, taken, pos, d) /\ x.burst = addr[d + 1] /\ (x.last <=> pos = addr[d + 1].len)
    BY <1>1, <1>2, <1>4
  <2>2. QED
    BY <1>1, <1>4, <1>5, <2>1, StreamAppend
<1>7. ASSUME x.last PROVE Owed(s, Tail(owed), addr, Append(data, x), taken, 0)
  <2>1. ASSUME NEW i \in 1 .. Len(Tail(owed)) PROVE Tail(owed)[i] \in Writing
    <3>1. i \in 1 .. Len(owed) - 1 /\ i + 1 \in 1 .. Len(owed)
      BY <1>3
    <3>2. QED
      BY <1>1, <1>3, <3>1
  <2>2. Stream(Append(data, x), addr, taken, 0, d + 1)
    BY <1>6, <1>7
  <2>3. QED
    BY <1>1, <1>3, <1>4, <1>5, <2>1, <2>2 DEF Owed
<1>8. ASSUME ~x.last PROVE Owed(s, owed, addr, Append(data, x), taken, pos + 1)
  <2>1. Stream(Append(data, x), addr, taken, pos + 1, d)
    BY <1>6, <1>8
  <2>2. QED
    BY <1>1, <1>2, <1>5, <2>1 DEF Owed
<1>9. QED
  BY <1>7, <1>8

\* What a slave takes, and what is left behind it.
OwedNext(s, owed, addr, data, taken, pos) ==
    /\ Head(data).burst = Head(addr) /\ (Head(data).last <=> taken = Head(addr).len)
    /\ taken = Head(addr).len => Owed(s, owed, Tail(addr), Tail(data), 0, pos)
    /\ taken # Head(addr).len => Owed(s, owed, addr, Tail(data), taken + 1, pos)

LEMMA OwedTake ==
    ASSUME NEW s, NEW owed, NEW addr, NEW data, NEW taken, NEW pos,
           Owed(s, owed, addr, data, taken, pos), addr # <<>>, data # <<>>
    PROVE  OwedNext(s, owed, addr, data, taken, pos)
<1>1. /\ owed \in Seq(Bursts) /\ addr \in Seq(Bursts) /\ data \in Seq(DataBeats)
      /\ Split(addr, <<>>, owed)
      /\ Stream(data, addr, taken, pos, Done(addr, <<>>, owed))
      /\ \A i \in 1 .. Len(owed) : owed[i] \in Writing
  BY DEF Owed
<1>2. PICK d : d = Done(addr, <<>>, owed)
  OBVIOUS
<1>3. Head(data) = data[1] /\ Head(addr) = addr[1] /\ Tail(data) \in Seq(DataBeats) /\ Tail(addr) \in Seq(Bursts)
  BY <1>1, Popped
<1>4. Stream(data, addr, taken, pos, d)
  BY <1>1, <1>2
<1>5. /\ data[1].burst = addr[1] /\ (data[1].last <=> taken = addr[1].len)
      /\ data[1].last => d > 0 /\ Stream(Tail(data), Tail(addr), 0, pos, d - 1)
      /\ ~data[1].last => Stream(Tail(data), addr, taken + 1, pos, d)
  BY <1>1, <1>4, StreamTail
<1>6. ASSUME taken = addr[1].len PROVE Owed(s, owed, Tail(addr), Tail(data), 0, pos)
  <2>1. Done(addr, <<>>, owed) > 0
    BY <1>2, <1>5, <1>6
  <2>2. Split(Tail(addr), <<>>, owed) /\ Done(Tail(addr), <<>>, owed) = d - 1
    BY <1>1, <1>2, <2>1, SplitTakeNone
  <2>3. QED
    BY <1>1, <1>3, <1>5, <1>6, <2>2 DEF Owed
<1>7. ASSUME taken # addr[1].len PROVE Owed(s, owed, addr, Tail(data), taken + 1, pos)
  BY <1>1, <1>2, <1>3, <1>5, <1>7 DEF Owed
<1>8. QED
  BY <1>3, <1>5, <1>6, <1>7 DEF OwedNext
-----------------------------------------------------------------------------
(* Which burst has a master's data for a slave: pos are the beats of it     *)
(* that the slave was sent, count the beats of its task a master has sent.  *)

Heads(q, s) == q # <<>> /\ q[1].to = s

Writers(tasks) == \A m \in Masters : \A i \in 1 .. Len(tasks[m]) :
                      tasks[m][i] \in Writing /\ tasks[m][i].master = m

Counts(tasks, pos, count) ==
    /\ pos \in [Slaves -> Nat]
    /\ \A m \in Masters, s \in Slaves : Heads(tasks[m], s) => pos[s] = count[m]
    /\ \A s \in Slaves : pos[s] # 0 => \E m \in Masters : Heads(tasks[m], s)

LEMMA OnlyWriter ==
    ASSUME OneWriter, NEW b \in Writing, NEW c \in Writing, b.to = c.to, b.to \in Slaves
    PROVE  b.master = c.master
<1>1. PICK d \in WrBursts, t \in Tags : b = Tagged(d, t)
  BY DEF Writing
<1>2. PICK e \in WrBursts, u \in Tags : c = Tagged(e, u)
  BY DEF Writing
<1>3. d.to = b.to /\ d.master = b.master /\ e.to = c.to /\ e.master = c.master
  BY <1>1, <1>2 DEF Tagged
<1>4. QED
  BY <1>3, SlaveNumbers DEF OneWriter

LEMMA DueTasks ==
    ASSUME NEW m, NEW due, NEW tasks, NEW addr, NEW fwd, NEW data, NEW count,
           Due(m, due, tasks, addr, fwd, data, count)
    PROVE  \A i \in 1 .. Len(tasks) : tasks[i] \in Writing /\ tasks[i].master = m
<1> SUFFICES ASSUME NEW i \in 1 .. Len(tasks) PROVE tasks[i] \in Writing /\ tasks[i].master = m
  OBVIOUS
<1>1. /\ due \in Seq(Bursts) /\ tasks \in Seq(Bursts) /\ addr \in Seq(Bursts)
      /\ Split(due, tasks, addr) /\ Done(due, tasks, addr) = 0
      /\ \A j \in 1 .. Len(due) : due[j] \in Writing /\ due[j].master = m
  BY DEF Due
<1>2. Len(due) \in Nat /\ Len(tasks) \in Nat /\ Len(addr) \in Nat
  BY <1>1, LenProperties
<1>3. due[0 + i] = tasks[i]
  BY <1>1 DEF Split
<1>4. Len(due) - Len(tasks) - Len(addr) = 0
  BY <1>1 DEF Done
<1>5. i \in 1 .. Len(due) /\ 0 + i = i
  BY <1>2, <1>4
<1>6. QED
  BY <1>1, <1>3, <1>5

\* The first task of a master.
FirstOf(tasks) == \A m \in Masters : \A s : Heads(tasks[m], s) =>
                      tasks[m][1] \in Writing /\ tasks[m][1].master = m /\ tasks[m][1].to = s

LEMMA FirstTask ==
    ASSUME NEW tasks \in [Masters -> Seq(Bursts)], Writers(tasks)
    PROVE  FirstOf(tasks)
<1> SUFFICES ASSUME NEW m \in Masters, NEW s, Heads(tasks[m], s)
             PROVE  tasks[m][1] \in Writing /\ tasks[m][1].master = m /\ tasks[m][1].to = s
  BY DEF FirstOf
<1>1. Len(tasks[m]) \in Nat /\ Len(tasks[m]) > 0
  BY Popped DEF Heads
<1>2. QED
  BY <1>1 DEF Heads, Writers

LEMMA CountsPush ==
    ASSUME OneWriter, NEW tasks \in [Masters -> Seq(Bursts)], Writers(tasks), NEW pos, NEW count,
           Counts(tasks, pos, count), NEW m \in Masters, NEW b \in Writing, b.master = m,
           tasks[m] = <<>> => count[m] = 0
    PROVE  Counts(Push(tasks, m, b), pos, count)
<1>0. FirstOf(tasks)
  BY FirstTask
<1>1. PICK t2 : t2 = Push(tasks, m, b)
  OBVIOUS
<1>2. b \in Bursts
  BY WritingBursts
<1>3. t2[m] = Append(tasks[m], b) /\ \A n \in Masters \ {m} : t2[n] = tasks[n]
  BY <1>1 DEF Push
<1>4. ASSUME NEW n \in Masters, NEW s \in Slaves, Heads(tasks[n], s) PROVE Heads(t2[n], s)
  <2>1. CASE n = m
    <3>1. /\ tasks[m] # <<>> /\ Len(tasks[m]) \in Nat /\ Len(tasks[m]) > 0
          /\ \A i \in 1 .. Len(tasks[m]) : t2[m][i] = tasks[m][i]
          /\ t2[m] # <<>>
      BY <1>2, <1>3, <1>4, <2>1, Appended, Popped DEF Heads
    <3>2. t2[m][1] = tasks[m][1]
      BY <3>1
    <3>3. QED
      BY <1>4, <2>1, <3>1, <3>2 DEF Heads
  <2>2. CASE n # m
    BY <1>3, <1>4, <2>2
  <2>3. QED
    BY <2>1, <2>2
<1>5. ASSUME NEW n \in Masters, NEW s \in Slaves, Heads(t2[n], s) PROVE pos[s] = count[n]
  <2>1. CASE n # m
    BY <1>3, <1>5, <2>1 DEF Counts
  <2>2. CASE n = m /\ tasks[m] # <<>>
    <3>1. /\ Len(tasks[m]) \in Nat /\ Len(tasks[m]) > 0
          /\ \A i \in 1 .. Len(tasks[m]) : t2[m][i] = tasks[m][i]
      BY <1>2, <1>3, <2>2, Appended, Popped
    <3>2. t2[m][1] = tasks[m][1]
      BY <3>1
    <3>3. Heads(tasks[m], s)
      BY <1>5, <2>2, <3>2 DEF Heads
    <3>4. QED
      BY <2>2, <3>3 DEF Counts
  <2>3. CASE n = m /\ tasks[m] = <<>>
    <3>1. t2[m][1] = b
      BY <1>3, <2>3
    <3>2. b.to = s
      BY <1>5, <2>3, <3>1 DEF Heads
    <3>3. ASSUME pos[s] # 0 PROVE FALSE
      <4>1. PICK k \in Masters : Heads(tasks[k], s)
        BY <3>3 DEF Counts
      <4>2. tasks[k][1] \in Writing /\ tasks[k][1].master = k /\ tasks[k][1].to = s
        BY <1>0, <4>1 DEF FirstOf
      <4>3. k = m
        BY <3>2, <4>2, OnlyWriter
      <4>4. QED
        BY <2>3, <4>1, <4>3 DEF Heads
    <3>4. QED
      BY <2>3, <3>3
  <2>4. QED
    BY <2>1, <2>2, <2>3
<1>6. Counts(t2, pos, count)
  BY <1>4, <1>5 DEF Counts
<1>7. QED
  BY <1>1, <1>6

\* The master has sent one beat more of a task that goes to s.
Sent(pos, s, n) == [t \in Slaves |-> IF t = s THEN n ELSE pos[t]]

LEMMA CountsMore ==
    ASSUME OneWriter, NEW tasks \in [Masters -> Seq(Bursts)], Writers(tasks), NEW pos,
           NEW count \in [Masters -> Nat],
           Counts(tasks, pos, count), NEW m \in Masters, NEW s, Heads(tasks[m], s), NEW n \in Nat
    PROVE  Counts(tasks, Sent(pos, s, n), Count(count, m, n))
<1>0. FirstOf(tasks)
  BY FirstTask
<1>1. PICK p2, c2 : p2 = Sent(pos, s, n) /\ c2 = Count(count, m, n)
  OBVIOUS
<1>2. p2 \in [Slaves -> Nat] /\ \A t \in Slaves : p2[t] = IF t = s THEN n ELSE pos[t]
  BY <1>1 DEF Sent, Counts
<1>3. c2[m] = n /\ \A k \in Masters \ {m} : c2[k] = count[k]
  BY <1>1 DEF Count
<1>4. ASSUME NEW k \in Masters, NEW t \in Slaves, Heads(tasks[k], t) PROVE p2[t] = c2[k]
  <2>1. CASE k = m
    BY <1>2, <1>3, <1>4, <2>1 DEF Heads
  <2>2. CASE k # m
    <3>1. /\ tasks[k][1] \in Writing /\ tasks[k][1].master = k /\ tasks[k][1].to = t
          /\ tasks[m][1] \in Writing /\ tasks[m][1].master = m /\ tasks[m][1].to = s
      BY <1>0, <1>4 DEF FirstOf
    <3>2. t # s
      BY <2>2, <3>1, OnlyWriter
    <3>3. QED
      BY <1>2, <1>3, <1>4, <2>2, <3>2 DEF Counts
  <2>3. QED
    BY <2>1, <2>2
<1>5. ASSUME NEW t \in Slaves, p2[t] # 0 PROVE \E k \in Masters : Heads(tasks[k], t)
  BY <1>2, <1>5 DEF Counts
<1>6. QED
  BY <1>1, <1>2, <1>4, <1>5 DEF Counts

\* The master has sent the last beat of a task that goes to s.
LEMMA CountsEnd ==
    ASSUME OneWriter, NEW tasks \in [Masters -> Seq(Bursts)], Writers(tasks), NEW pos,
           NEW count \in [Masters -> Nat],
           Counts(tasks, pos, count), NEW m \in Masters, NEW s, Heads(tasks[m], s)
    PROVE  Counts(Pop(tasks, m), Sent(pos, s, 0), Count(count, m, 0))
<1>0. FirstOf(tasks)
  BY FirstTask
<1>1. PICK t2, p2, c2 : t2 = Pop(tasks, m) /\ p2 = Sent(pos, s, 0) /\ c2 = Count(count, m, 0)
  OBVIOUS
<1>2. p2 \in [Slaves -> Nat] /\ \A t \in Slaves : p2[t] = IF t = s THEN 0 ELSE pos[t]
  BY <1>1 DEF Sent, Counts
<1>3. c2[m] = 0 /\ \A k \in Masters \ {m} : c2[k] = count[k]
  BY <1>1 DEF Count
<1>4. t2[m] = Tail(tasks[m]) /\ \A k \in Masters \ {m} : t2[k] = tasks[k]
  BY <1>1 DEF Pop
<1>5. tasks[m][1] \in Writing /\ tasks[m][1].master = m /\ tasks[m][1].to = s
  BY <1>0 DEF FirstOf
<1>6. ASSUME NEW k \in Masters, NEW t \in Slaves, Heads(t2[k], t) PROVE p2[t] = c2[k]
  <2>1. CASE k = m
    <3>1. SUFFICES ASSUME t # s, pos[t] # 0 PROVE FALSE
      BY <1>2, <1>3, <2>1
    <3>2. PICK l \in Masters : Heads(tasks[l], t)
      BY <3>1 DEF Counts
    <3>3. tasks[l][1] \in Writing /\ tasks[l][1].master = l /\ tasks[l][1].to = t
      BY <1>0, <3>2 DEF FirstOf
    <3>4. l # m
      BY <1>5, <3>1, <3>3
    <3>5. tasks[m][2] \in Writing /\ tasks[m][2].master = m /\ tasks[m][2].to = t
      <4>1. tasks[m] # <<>> /\ t2[m] # <<>> /\ t2[m][1].to = t
        BY <1>6, <2>1 DEF Heads
      <4>2. /\ Len(tasks[m]) \in Nat /\ Len(t2[m]) = Len(tasks[m]) - 1
            /\ \A i \in 1 .. Len(tasks[m]) - 1 : t2[m][i] = tasks[m][i + 1]
            /\ t2[m] \in Seq(Bursts)
        BY <1>4, <4>1, Popped
      <4>3. Len(t2[m]) > 0
        BY <4>1, <4>2, Popped
      <4>4. 1 \in 1 .. Len(tasks[m]) - 1 /\ 2 \in 1 .. Len(tasks[m]) /\ 1 + 1 = 2
        BY <4>2, <4>3
      <4>5. t2[m][1] = tasks[m][2]
        BY <4>2, <4>4
      <4>6. QED
        BY <4>1, <4>4, <4>5 DEF Writers
    <3>6. QED
      BY <3>3, <3>4, <3>5, OnlyWriter
  <2>2. CASE k # m
    <3>1. Heads(tasks[k], t)
      BY <1>4, <1>6, <2>2
    <3>2. tasks[k][1] \in Writing /\ tasks[k][1].master = k /\ tasks[k][1].to = t
      BY <1>0, <3>1 DEF FirstOf
    <3>3. t # s
      BY <1>5, <2>2, <3>2, OnlyWriter
    <3>4. QED
      BY <1>2, <1>3, <2>2, <3>1, <3>3 DEF Counts
  <2>3. QED
    BY <2>1, <2>2
<1>7. ASSUME NEW t \in Slaves, p2[t] # 0 PROVE \E k \in Masters : Heads(t2[k], t)
  <2>1. t # s /\ pos[t] # 0
    BY <1>2, <1>7
  <2>2. PICK k \in Masters : Heads(tasks[k], t)
    BY <2>1 DEF Counts
  <2>3. k # m
    BY <1>5, <2>1, <2>2 DEF Heads
  <2>4. QED
    BY <1>4, <2>2, <2>3
<1>8. QED
  BY <1>1, <1>2, <1>6, <1>7 DEF Counts
-----------------------------------------------------------------------------
(* The invariant of write data.                                             *)

DataTypes ==
    /\ to_send \in [Masters -> Seq(DataBeats)] /\ wr_data \in [Masters -> Seq(DataBeats)]
    /\ wr_addr \in [Masters -> Seq(Bursts)] /\ s_wr_addr \in [Slaves -> Seq(Bursts)]
    /\ s_wr_data \in [Slaves -> Seq(DataBeats)] /\ s_wr_taken \in [Slaves -> Nat]
    /\ f_wd_tasks \in [Masters -> Seq(Tasks)] /\ rg_wd_beat_count \in [Masters -> Nat]

dataVars == <<to_send, wr_addr, wr_data, s_wr_addr, s_wr_data, s_wr_taken, f_wd_tasks,
              rg_wd_beat_count>>

DataEmpty ==
    /\ to_send = EmptyPer(Masters) /\ wr_addr = EmptyPer(Masters) /\ wr_data = EmptyPer(Masters)
    /\ s_wr_addr = EmptyPer(Slaves) /\ s_wr_data = EmptyPer(Slaves)
    /\ s_wr_taken = ZeroPer(Slaves)
    /\ f_wd_tasks = EmptyPer(Masters) /\ rg_wd_beat_count = ZeroPer(Masters)

MasterFlow(m, due, tasks) ==
    Due(m, due, tasks, wr_addr[m], f_wd_tasks[m], wr_data[m] \o to_send[m], rg_wd_beat_count[m])

SlaveFlow(s, owed, pos) == Owed(s, owed, s_wr_addr[s], s_wr_data[s], s_wr_taken[s], pos)

Flow(owed, tasks, due, pos) ==
    /\ Linked(owed, tasks) /\ due \in [Masters -> Seq(Bursts)]
    /\ Counts(tasks, pos, rg_wd_beat_count)
    /\ \A m \in Masters : MasterFlow(m, due[m], tasks[m])
    /\ \A s \in Slaves : SlaveFlow(s, owed[s], pos[s])

DataInv ==
    /\ DataTypes
    /\ rg_reset => DataEmpty
    /\ \E owed, tasks, due, pos : Flow(owed, tasks, due, pos)

LEMMA FlowStart ==
    ASSUME DataEmpty
    PROVE  Flow(EmptyPer(Slaves), EmptyPer(Masters), EmptyPer(Masters), ZeroPer(Slaves))
<1>1. ASSUME NEW m \in Masters PROVE MasterFlow(m, EmptyPer(Masters)[m], EmptyPer(Masters)[m])
  <2>1. /\ to_send[m] = <<>> /\ wr_addr[m] = <<>> /\ wr_data[m] = <<>>
        /\ f_wd_tasks[m] = <<>> /\ rg_wd_beat_count[m] = 0 /\ EmptyPer(Masters)[m] = <<>>
    BY DEF DataEmpty, EmptyPer, ZeroPer
  <2>2. <<>> \o <<>> = <<>>
    BY ConcatEmptySeq
  <2>3. MasterFlow(m, <<>>, <<>>)
    BY <2>1, <2>2, DueEmpty DEF MasterFlow
  <2>4. QED
    BY <2>1, <2>3
<1>2. ASSUME NEW s \in Slaves PROVE SlaveFlow(s, EmptyPer(Slaves)[s], ZeroPer(Slaves)[s])
  <2>1. /\ s_wr_addr[s] = <<>> /\ s_wr_data[s] = <<>> /\ s_wr_taken[s] = 0
        /\ EmptyPer(Slaves)[s] = <<>> /\ ZeroPer(Slaves)[s] = 0
    BY DEF DataEmpty, EmptyPer, ZeroPer
  <2>2. SlaveFlow(s, <<>>, 0)
    BY <2>1, OwedEmpty DEF SlaveFlow
  <2>3. QED
    BY <2>1, <2>2
<1>3. Counts(EmptyPer(Masters), ZeroPer(Slaves), rg_wd_beat_count)
  BY DEF Counts, Heads, EmptyPer, ZeroPer
<1>4. EmptyPer(Masters) \in [Masters -> Seq(Bursts)]
  BY EmptyType
<1>5. QED
  BY <1>1, <1>2, <1>3, <1>4, LinkedEmpty DEF Flow

LEMMA OtherMasterFlow ==
    ASSUME NEW m, NEW due, NEW tasks, MasterFlow(m, due, tasks),
           wr_addr'[m] = wr_addr[m], f_wd_tasks'[m] = f_wd_tasks[m], wr_data'[m] = wr_data[m],
           to_send'[m] = to_send[m], rg_wd_beat_count'[m] = rg_wd_beat_count[m]
    PROVE  MasterFlow(m, due, tasks)'
BY DEF MasterFlow

LEMMA OtherSlaveFlow ==
    ASSUME NEW s, NEW owed, NEW pos, SlaveFlow(s, owed, pos), s_wr_addr'[s] = s_wr_addr[s],
           s_wr_data'[s] = s_wr_data[s], s_wr_taken'[s] = s_wr_taken[s]
    PROVE  SlaveFlow(s, owed, pos)'
BY DEF SlaveFlow

LEMMA FlowWriters ==
    ASSUME NEW owed, NEW tasks, NEW due, NEW pos, Flow(owed, tasks, due, pos)
    PROVE  Writers(tasks) /\ tasks \in [Masters -> Seq(Bursts)] /\ owed \in [Slaves -> Seq(Bursts)]
<1>1. ASSUME NEW m \in Masters
      PROVE  \A i \in 1 .. Len(tasks[m]) : tasks[m][i] \in Writing /\ tasks[m][i].master = m
  <2>1. Due(m, due[m], tasks[m], wr_addr[m], f_wd_tasks[m], wr_data[m] \o to_send[m],
            rg_wd_beat_count[m])
    BY DEF Flow, MasterFlow
  <2>2. QED
    BY <2>1, DueTasks
<1>2. QED
  BY <1>1 DEF Writers, Flow, Linked

LEMMA FlowPass ==
    ASSUME OneWriter, DataTypes, NEW owed, NEW tasks, NEW due, NEW pos, Flow(owed, tasks, due, pos),
           NEW m \in Masters, NEW s \in Slaves, rl_wr_xaction_master_to_slave(m, s)
    PROVE  \E o, t, d, p : Flow(o, t, d, p)'
<1>1. PICK b, task : b = Head(wr_addr[m]) /\ task = [to |-> s, len |-> b.len]
  OBVIOUS
<1>2. /\ wr_addr[m] # <<>> /\ b.to = s
      /\ s_wr_addr' = Push(s_wr_addr, s, b) /\ wr_addr' = Pop(wr_addr, m)
      /\ f_wd_tasks' = Push(f_wd_tasks, m, task)
      /\ UNCHANGED <<to_send, wr_data, s_wr_data, s_wr_taken, rg_wd_beat_count>>
  BY <1>1 DEF rl_wr_xaction_master_to_slave, HasWrite
<1>3. /\ Linked(owed, tasks) /\ due \in [Masters -> Seq(Bursts)]
      /\ Counts(tasks, pos, rg_wd_beat_count)
      /\ MasterFlow(m, due[m], tasks[m]) /\ SlaveFlow(s, owed[s], pos[s])
  BY DEF Flow
<1>4. /\ Writers(tasks) /\ tasks \in [Masters -> Seq(Bursts)] /\ owed \in [Slaves -> Seq(Bursts)]
  BY FlowWriters
<1>5. /\ b \in Writing /\ b.master = m
      /\ Due(m, due[m], Append(tasks[m], b), Tail(wr_addr[m]), Append(f_wd_tasks[m], task),
             wr_data[m] \o to_send[m], rg_wd_beat_count[m])
      /\ tasks[m] = <<>> => rg_wd_beat_count[m] = 0
  <2>1. Due(m, due[m], tasks[m], wr_addr[m], f_wd_tasks[m], wr_data[m] \o to_send[m],
            rg_wd_beat_count[m])
    BY <1>3 DEF MasterFlow
  <2>2. /\ b \in Writing /\ b.master = m
        /\ Due(m, due[m], Append(tasks[m], b), Tail(wr_addr[m]),
               Append(f_wd_tasks[m], [to |-> b.to, len |-> b.len]),
               wr_data[m] \o to_send[m], rg_wd_beat_count[m])
    BY <1>1, <1>2, <2>1, DuePass
  <2>3. tasks[m] = <<>> => rg_wd_beat_count[m] = 0
    BY <2>1 DEF Due
  <2>4. QED
    BY <1>1, <1>2, <2>2, <2>3
<1>6. b \in Bursts
  BY <1>5, WritingBursts
<1>7. PICK o2, t2 : o2 = Push(owed, s, b) /\ t2 = Push(tasks, m, b)
  OBVIOUS
<1>8. Linked(o2, t2)
  BY <1>2, <1>3, <1>5, <1>6, <1>7, LinkPass
<1>9. Counts(t2, pos, rg_wd_beat_count)
  BY <1>3, <1>4, <1>5, <1>7, CountsPush
<1>10. /\ o2[s] = Append(owed[s], b) /\ \A j \in Slaves \ {s} : o2[j] = owed[j]
       /\ t2[m] = Append(tasks[m], b) /\ \A j \in Masters \ {m} : t2[j] = tasks[j]
  BY <1>4, <1>7 DEF Push
<1>11. /\ wr_addr'[m] = Tail(wr_addr[m]) /\ f_wd_tasks'[m] = Append(f_wd_tasks[m], task)
       /\ s_wr_addr'[s] = Append(s_wr_addr[s], b)
       /\ \A j \in Masters \ {m} : wr_addr'[j] = wr_addr[j] /\ f_wd_tasks'[j] = f_wd_tasks[j]
       /\ \A j \in Slaves \ {s} : s_wr_addr'[j] = s_wr_addr[j]
  BY <1>2 DEF DataTypes, Push, Pop
<1>12. ASSUME NEW j \in Masters PROVE MasterFlow(j, due[j], t2[j])'
  <2>1. CASE j = m
    <3>1. MasterFlow(m, due[m], t2[m])'
      BY <1>2, <1>5, <1>10, <1>11 DEF MasterFlow
    <3>2. QED
      BY <2>1, <3>1
  <2>2. CASE j # m
    <3>1. MasterFlow(j, due[j], tasks[j]) /\ t2[j] = tasks[j]
      BY <1>10, <2>2 DEF Flow
    <3>2. MasterFlow(j, due[j], tasks[j])'
      BY <1>2, <1>11, <2>2, <3>1, OtherMasterFlow
    <3>3. QED
      BY <3>1, <3>2
  <2>3. QED
    BY <2>1, <2>2
<1>13. ASSUME NEW j \in Slaves PROVE SlaveFlow(j, o2[j], pos[j])'
  <2>1. CASE j = s
    <3>1. Owed(s, owed[s], s_wr_addr[s], s_wr_data[s], s_wr_taken[s], pos[s])
      BY <1>3 DEF SlaveFlow
    <3>2. Owed(s, Append(owed[s], b), Append(s_wr_addr[s], b), s_wr_data[s], s_wr_taken[s], pos[s])
      BY <1>5, <3>1, OwedPass
    <3>3. SlaveFlow(s, o2[s], pos[s])'
      BY <1>2, <1>10, <1>11, <3>2 DEF SlaveFlow
    <3>4. QED
      BY <2>1, <3>3
  <2>2. CASE j # s
    <3>1. SlaveFlow(j, owed[j], pos[j]) /\ o2[j] = owed[j]
      BY <1>10, <2>2 DEF Flow
    <3>2. SlaveFlow(j, owed[j], pos[j])'
      BY <1>2, <1>11, <2>2, <3>1, OtherSlaveFlow
    <3>3. QED
      BY <3>1, <3>2
  <2>3. QED
    BY <2>1, <2>2
<1>14. Counts(t2, pos, rg_wd_beat_count)'
  BY <1>2, <1>9
<1>15. Flow(o2, t2, due, pos)'
  BY <1>3, <1>8, <1>12, <1>13, <1>14 DEF Flow
<1>16. QED
  BY <1>15

LEMMA FlowNone ==
    ASSUME OneWriter, DataTypes, NEW owed, NEW tasks, NEW due, NEW pos, Flow(owed, tasks, due, pos),
           NEW m \in Masters, rl_wr_xaction_no_such_slave(m)
    PROVE  \E o, t, d, p : Flow(o, t, d, p)'
<1>1. PICK b, task : b = Head(wr_addr[m]) /\ task = [to |-> NoSlave, len |-> b.len]
  OBVIOUS
<1>2. /\ wr_addr[m] # <<>> /\ b.to = NoSlave /\ wr_addr' = Pop(wr_addr, m)
      /\ f_wd_tasks' = Push(f_wd_tasks, m, task)
      /\ UNCHANGED <<to_send, wr_data, s_wr_addr, s_wr_data, s_wr_taken, rg_wd_beat_count>>
  BY <1>1 DEF rl_wr_xaction_no_such_slave, HasWrite
<1>3. /\ Linked(owed, tasks) /\ due \in [Masters -> Seq(Bursts)]
      /\ Counts(tasks, pos, rg_wd_beat_count) /\ MasterFlow(m, due[m], tasks[m])
  BY DEF Flow
<1>4. Writers(tasks) /\ tasks \in [Masters -> Seq(Bursts)]
  BY FlowWriters
<1>5. /\ b \in Writing /\ b.master = m
      /\ Due(m, due[m], Append(tasks[m], b), Tail(wr_addr[m]), Append(f_wd_tasks[m], task),
             wr_data[m] \o to_send[m], rg_wd_beat_count[m])
      /\ tasks[m] = <<>> => rg_wd_beat_count[m] = 0
  <2>1. Due(m, due[m], tasks[m], wr_addr[m], f_wd_tasks[m], wr_data[m] \o to_send[m],
            rg_wd_beat_count[m])
    BY <1>3 DEF MasterFlow
  <2>2. /\ b \in Writing /\ b.master = m
        /\ Due(m, due[m], Append(tasks[m], b), Tail(wr_addr[m]),
               Append(f_wd_tasks[m], [to |-> b.to, len |-> b.len]),
               wr_data[m] \o to_send[m], rg_wd_beat_count[m])
    BY <1>1, <1>2, <2>1, DuePass
  <2>3. tasks[m] = <<>> => rg_wd_beat_count[m] = 0
    BY <2>1 DEF Due
  <2>4. QED
    BY <1>1, <1>2, <2>2, <2>3
<1>6. b \in Bursts
  BY <1>5, WritingBursts
<1>7. PICK t2 : t2 = Push(tasks, m, b)
  OBVIOUS
<1>8. Linked(owed, t2)
  BY <1>2, <1>3, <1>6, <1>7, LinkNone
<1>9. Counts(t2, pos, rg_wd_beat_count)
  BY <1>3, <1>4, <1>5, <1>7, CountsPush
<1>10. t2[m] = Append(tasks[m], b) /\ \A j \in Masters \ {m} : t2[j] = tasks[j]
  BY <1>4, <1>7 DEF Push
<1>11. /\ wr_addr'[m] = Tail(wr_addr[m]) /\ f_wd_tasks'[m] = Append(f_wd_tasks[m], task)
       /\ \A j \in Masters \ {m} : wr_addr'[j] = wr_addr[j] /\ f_wd_tasks'[j] = f_wd_tasks[j]
  BY <1>2 DEF DataTypes, Push, Pop
<1>12. ASSUME NEW j \in Masters PROVE MasterFlow(j, due[j], t2[j])'
  <2>1. CASE j = m
    <3>1. MasterFlow(m, due[m], t2[m])'
      BY <1>2, <1>5, <1>10, <1>11 DEF MasterFlow
    <3>2. QED
      BY <2>1, <3>1
  <2>2. CASE j # m
    <3>1. MasterFlow(j, due[j], tasks[j]) /\ t2[j] = tasks[j]
      BY <1>10, <2>2 DEF Flow
    <3>2. MasterFlow(j, due[j], tasks[j])'
      BY <1>2, <1>11, <2>2, <3>1, OtherMasterFlow
    <3>3. QED
      BY <3>1, <3>2
  <2>3. QED
    BY <2>1, <2>2
<1>13. ASSUME NEW j \in Slaves PROVE SlaveFlow(j, owed[j], pos[j])'
  BY <1>2, OtherSlaveFlow DEF Flow
<1>14. Counts(t2, pos, rg_wd_beat_count)'
  BY <1>2, <1>9
<1>15. Flow(owed, t2, due, pos)'
  BY <1>3, <1>8, <1>12, <1>13, <1>14 DEF Flow
<1>16. QED
  BY <1>15

LEMMA FlowAsk ==
    ASSUME DataTypes, WriteTypes, NEW owed, NEW tasks, NEW due, NEW pos,
           Flow(owed, tasks, due, pos), NEW c \in WrBursts, MasterWrite(c)
    PROVE  (\E o, t, d, p : Flow(o, t, d, p)') /\ DataTypes'
<1>1. PICK m, b : m = c.master /\ b = Tagged(c, NextTag(asked_wr[m]))
  OBVIOUS
<1>2. /\ wr_addr' = Push(wr_addr, m, b)
      /\ to_send' = [to_send EXCEPT ![m] = @ \o BurstBeats(b)]
      /\ UNCHANGED <<wr_data, s_wr_addr, s_wr_data, s_wr_taken, f_wd_tasks, rg_wd_beat_count>>
  BY <1>1 DEF MasterWrite, BurstBeats
<1>3. m \in Masters /\ b \in Bursts /\ b.master = m /\ b \in Writing
  <2>1. m \in Masters
    BY <1>1, FabricAssumption
  <2>2. asked_wr[m] \in Seq(Bursts)
    BY <2>1 DEF WriteTypes
  <2>3. b \in Bursts /\ b.master = m
    BY <1>1, <2>1, <2>2, AskedBurst
  <2>4. NextTag(asked_wr[m]) \in Tags
    <3>1. PICK t : t = NextTag(asked_wr[m])
      OBVIOUS
    <3>2. PICK d \in WrBursts \cup RdBursts, u \in Tags : Tagged(c, t) = Tagged(d, u)
      BY <1>1, <2>3, <3>1 DEF Bursts
    <3>3. Tagged(c, t).tag = t /\ Tagged(d, u).tag = u
      BY DEF Tagged
    <3>4. QED
      BY <3>1, <3>2, <3>3
  <2>5. QED
    BY <1>1, <2>1, <2>3, <2>4 DEF Writing
<1>4. Flow(owed, tasks, due, pos) /\ due \in [Masters -> Seq(Bursts)] /\ MasterFlow(m, due[m], tasks[m])
  BY <1>3 DEF Flow
<1>5. PICK q, r, e : q = wr_data[m] /\ r = to_send[m] /\ e = BurstBeats(b)
  OBVIOUS
<1>6. q \in Seq(DataBeats) /\ r \in Seq(DataBeats) /\ e \in Seq(DataBeats)
  BY <1>3, <1>5, BeatType DEF DataTypes
<1>7. PICK d2 : d2 = Push(due, m, b)
  OBVIOUS
<1>8. d2[m] = Append(due[m], b) /\ \A j \in Masters \ {m} : d2[j] = due[j]
  BY <1>3, <1>4, <1>7 DEF Push
<1>9. d2 \in [Masters -> Seq(Bursts)]
  BY <1>3, <1>4, <1>7, PushType
<1>10. /\ wr_addr'[m] = Append(wr_addr[m], b) /\ to_send'[m] = r \o e
       /\ \A j \in Masters \ {m} : wr_addr'[j] = wr_addr[j] /\ to_send'[j] = to_send[j]
  BY <1>2, <1>3, <1>5 DEF DataTypes, Push
<1>11. ASSUME NEW j \in Masters PROVE MasterFlow(j, d2[j], tasks[j])'
  <2>1. CASE j = m
    <3>1. Due(m, due[m], tasks[m], wr_addr[m], f_wd_tasks[m], q \o r, rg_wd_beat_count[m])
      BY <1>4, <1>5 DEF MasterFlow
    <3>2. Due(m, Append(due[m], b), tasks[m], Append(wr_addr[m], b), f_wd_tasks[m],
              (q \o r) \o e, rg_wd_beat_count[m])
      BY <1>3, <1>5, <3>1, DueAsk
    <3>3. (q \o r) \o e = q \o (r \o e)
      BY <1>6, ConcatAssociative
    <3>4. Due(m, d2[m], tasks[m], wr_addr'[m], f_wd_tasks[m], wr_data[m] \o to_send'[m],
              rg_wd_beat_count[m])
      BY <1>5, <1>8, <1>10, <3>2, <3>3
    <3>5. MasterFlow(m, d2[m], tasks[m])'
      BY <1>2, <3>4 DEF MasterFlow
    <3>6. QED
      BY <2>1, <3>5
  <2>2. CASE j # m
    <3>1. MasterFlow(j, due[j], tasks[j]) /\ d2[j] = due[j]
      BY <1>8, <2>2 DEF Flow
    <3>2. MasterFlow(j, due[j], tasks[j])'
      BY <1>2, <1>10, <2>2, <3>1, OtherMasterFlow
    <3>3. QED
      BY <3>1, <3>2
  <2>3. QED
    BY <2>1, <2>2
<1>12. ASSUME NEW j \in Slaves PROVE SlaveFlow(j, owed[j], pos[j])'
  BY <1>2, OtherSlaveFlow DEF Flow
<1>13. Flow(owed, tasks, d2, pos)'
  BY <1>2, <1>9, <1>11, <1>12 DEF Flow
<1>14. DataTypes'
  <2>1. wr_addr' \in [Masters -> Seq(Bursts)]
    BY <1>2, <1>3, PushType DEF DataTypes
  <2>2. r \o e \in Seq(DataBeats)
    BY <1>6, ConcatProperties
  <2>3. to_send' \in [Masters -> Seq(DataBeats)]
    BY <1>2, <1>3, <1>5, <2>2 DEF DataTypes
  <2>4. QED
    BY <1>2, <2>1, <2>3 DEF DataTypes
<1>15. QED
  BY <1>13, <1>14

LEMMA FlowSend ==
    ASSUME DataTypes, NEW owed, NEW tasks, NEW due, NEW pos, Flow(owed, tasks, due, pos),
           NEW m \in Masters, MasterData(m)
    PROVE  \E o, t, d, p : Flow(o, t, d, p)'
<1>1. /\ to_send[m] # <<>>
      /\ wr_data' = Push(wr_data, m, Head(to_send[m])) /\ to_send' = Pop(to_send, m)
      /\ UNCHANGED <<wr_addr, s_wr_addr, s_wr_data, s_wr_taken, f_wd_tasks, rg_wd_beat_count>>
  BY DEF MasterData
<1>2. /\ wr_data'[m] = Append(wr_data[m], Head(to_send[m])) /\ to_send'[m] = Tail(to_send[m])
      /\ \A j \in Masters \ {m} : wr_data'[j] = wr_data[j] /\ to_send'[j] = to_send[j]
  BY <1>1 DEF DataTypes, Push, Pop
<1>3. wr_data'[m] \o to_send'[m] = wr_data[m] \o to_send[m]
  <2>1. wr_data[m] \in Seq(DataBeats) /\ to_send[m] \in Seq(DataBeats)
    BY DEF DataTypes
  <2>2. QED
    BY <1>1, <1>2, <2>1, MoveOne
<1>4. ASSUME NEW j \in Masters PROVE MasterFlow(j, due[j], tasks[j])'
  <2>1. MasterFlow(j, due[j], tasks[j])
    BY DEF Flow
  <2>2. CASE j = m
    BY <1>1, <1>3, <2>1, <2>2 DEF MasterFlow
  <2>3. CASE j # m
    BY <1>1, <1>2, <2>1, <2>3, OtherMasterFlow
  <2>4. QED
    BY <2>2, <2>3
<1>5. ASSUME NEW j \in Slaves PROVE SlaveFlow(j, owed[j], pos[j])'
  BY <1>1, OtherSlaveFlow DEF Flow
<1>6. Flow(owed, tasks, due, pos)'
  BY <1>1, <1>4, <1>5 DEF Flow
<1>7. QED
  BY <1>6

LEMMA FlowTake ==
    ASSUME DataTypes, NEW owed, NEW tasks, NEW due, NEW pos, Flow(owed, tasks, due, pos),
           NEW s \in Slaves, SlaveWrite(s)
    PROVE  \E o, t, d, p : Flow(o, t, d, p)'
<1>1. /\ s_wr_addr[s] # <<>> /\ s_wr_data[s] # <<>> /\ s_wr_data' = Pop(s_wr_data, s)
      /\ UNCHANGED <<to_send, wr_addr, wr_data, f_wd_tasks, rg_wd_beat_count>>
      /\ IF s_wr_taken[s] = Head(s_wr_addr[s]).len
         THEN s_wr_addr' = Pop(s_wr_addr, s) /\ s_wr_taken' = Count(s_wr_taken, s, 0)
         ELSE s_wr_taken' = Count(s_wr_taken, s, s_wr_taken[s] + 1) /\ s_wr_addr' = s_wr_addr
  BY DEF SlaveWrite
<1>2. Owed(s, owed[s], s_wr_addr[s], s_wr_data[s], s_wr_taken[s], pos[s])
  BY DEF Flow, SlaveFlow
<1>3. /\ s_wr_taken[s] = Head(s_wr_addr[s]).len =>
            Owed(s, owed[s], Tail(s_wr_addr[s]), Tail(s_wr_data[s]), 0, pos[s])
      /\ s_wr_taken[s] # Head(s_wr_addr[s]).len =>
            Owed(s, owed[s], s_wr_addr[s], Tail(s_wr_data[s]), s_wr_taken[s] + 1, pos[s])
  <2>1. OwedNext(s, owed[s], s_wr_addr[s], s_wr_data[s], s_wr_taken[s], pos[s])
    BY <1>1, <1>2, OwedTake
  <2>2. QED
    BY <2>1 DEF OwedNext
<1>4. SlaveFlow(s, owed[s], pos[s])'
  <2>1. s_wr_data'[s] = Tail(s_wr_data[s])
    BY <1>1 DEF DataTypes, Pop
  <2>2. CASE s_wr_taken[s] = Head(s_wr_addr[s]).len
    <3>1. s_wr_addr'[s] = Tail(s_wr_addr[s]) /\ s_wr_taken'[s] = 0
      BY <1>1, <2>2 DEF DataTypes, Pop, Count
    <3>2. QED
      BY <1>3, <2>1, <2>2, <3>1 DEF SlaveFlow
  <2>3. CASE s_wr_taken[s] # Head(s_wr_addr[s]).len
    <3>1. s_wr_addr'[s] = s_wr_addr[s] /\ s_wr_taken'[s] = s_wr_taken[s] + 1
      BY <1>1, <2>3 DEF DataTypes, Count
    <3>2. QED
      BY <1>3, <2>1, <2>3, <3>1 DEF SlaveFlow
  <2>4. QED
    BY <2>2, <2>3
<1>5. ASSUME NEW j \in Slaves PROVE SlaveFlow(j, owed[j], pos[j])'
  <2>1. CASE j # s
    <3>1. s_wr_addr'[j] = s_wr_addr[j] /\ s_wr_data'[j] = s_wr_data[j] /\ s_wr_taken'[j] = s_wr_taken[j]
      BY <1>1, <2>1 DEF DataTypes, Pop, Count
    <3>2. QED
      BY <3>1, OtherSlaveFlow DEF Flow
  <2>2. QED
    BY <1>4, <2>1
<1>6. ASSUME NEW j \in Masters PROVE MasterFlow(j, due[j], tasks[j])'
  BY <1>1, OtherMasterFlow DEF Flow
<1>7. Flow(owed, tasks, due, pos)'
  BY <1>1, <1>5, <1>6 DEF Flow
<1>8. QED
  BY <1>7

\* A slave has the address of what a master is to send it first.
LEMMA FlowOwed ==
    ASSUME OneWriter, NEW owed, NEW tasks, NEW due, NEW pos, Flow(owed, tasks, due, pos),
           NEW m \in Masters, NEW s \in Slaves, Heads(tasks[m], s)
    PROVE  /\ owed[s] # <<>> /\ owed[s][1] = tasks[m][1]
           /\ Linked(Pop(owed, s), Pop(tasks, m)) /\ pos[s] = rg_wd_beat_count[m]
<1>1. Linked(owed, tasks) /\ Counts(tasks, pos, rg_wd_beat_count) /\ SlaveFlow(s, owed[s], pos[s])
  BY DEF Flow
<1>2. Writers(tasks) /\ tasks \in [Masters -> Seq(Bursts)] /\ owed \in [Slaves -> Seq(Bursts)]
  BY FlowWriters
<1>3. tasks[m] # <<>> /\ tasks[m][1].to = s /\ Len(tasks[m]) \in Nat /\ Len(tasks[m]) > 0
  BY <1>2, Popped DEF Heads
<1>4. FirstOf(tasks)
  BY <1>2, FirstTask
<1>5. tasks[m][1] \in Writing /\ tasks[m][1].master = m
  BY <1>4 DEF FirstOf
<1>6. owed[s] # <<>> /\ 1 \in 1 .. Len(owed[s])
  <2>1. Match(owed[s], tasks[m], m, s)
    BY <1>1 DEF Linked
  <2>2. PICK f \in [1 .. Len(owed[s]) -> Int] : Places(f, owed[s], tasks[m], m, s)
    BY <2>1 DEF Match
  <2>3. 1 \in 1 .. Len(tasks[m])
    BY <1>3
  <2>4. PICK i \in 1 .. Len(owed[s]) : f[i] = 1
    BY <1>3, <2>2, <2>3 DEF Places
  <2>5. Len(owed[s]) \in Nat /\ owed[s] \in Seq(Bursts)
    BY <1>2, LenProperties
  <2>6. Len(owed[s]) > 0
    BY <2>4, <2>5
  <2>7. QED
    BY <2>5, <2>6, EmptySeq
<1>7. owed[s][1] \in Writing /\ owed[s][1].to = s
  BY <1>1, <1>6 DEF SlaveFlow, Owed, Linked
<1>8. owed[s][1].master = m
  <2>1. PICK b, c : b = owed[s][1] /\ c = tasks[m][1]
    OBVIOUS
  <2>2. b \in Writing /\ c \in Writing /\ b.to = s /\ c.to = s /\ c.master = m
    BY <1>3, <1>5, <1>7, <2>1
  <2>3. b.master = c.master
    BY <2>2, OnlyWriter
  <2>4. QED
    BY <2>1, <2>2, <2>3
<1>9. owed[s][1] = tasks[m][1] /\ Linked(Pop(owed, s), Pop(tasks, m))
  BY <1>1, <1>3, <1>6, <1>8, LinkReturn
<1>10. pos[s] = rg_wd_beat_count[m]
  BY <1>1 DEF Counts
<1>11. QED
  BY <1>6, <1>9, <1>10

LEMMA FlowBeat ==
    ASSUME OneWriter, DataTypes, NEW owed, NEW tasks, NEW due, NEW pos, Flow(owed, tasks, due, pos),
           NEW m \in Masters, rl_wr_xaction_master_to_slave_data(m)
    PROVE  (\E o, t, d, p : Flow(o, t, d, p)') /\ DataTypes'
<1>1. PICK x, s, b, n : /\ x = Head(wr_data[m]) /\ s = Head(f_wd_tasks[m]).to
                        /\ b = tasks[m][1] /\ n = rg_wd_beat_count[m]
  OBVIOUS
<1>2. /\ f_wd_tasks[m] # <<>> /\ wr_data[m] # <<>>
      /\ s \in Slaves => s_wr_data' = Push(s_wr_data, s, x)
      /\ s \notin Slaves => s_wr_data' = s_wr_data
      /\ wr_data' = Pop(wr_data, m)
      /\ n = Head(f_wd_tasks[m]).len =>
            f_wd_tasks' = Pop(f_wd_tasks, m) /\ rg_wd_beat_count' = Count(rg_wd_beat_count, m, 0)
      /\ n # Head(f_wd_tasks[m]).len =>
            f_wd_tasks' = f_wd_tasks /\ rg_wd_beat_count' = Count(rg_wd_beat_count, m, n + 1)
      /\ UNCHANGED <<to_send, wr_addr, s_wr_addr, s_wr_taken>>
  BY <1>1 DEF rl_wr_xaction_master_to_slave_data, EndOfBurst
<1>3. /\ Linked(owed, tasks) /\ due \in [Masters -> Seq(Bursts)]
      /\ Counts(tasks, pos, rg_wd_beat_count) /\ MasterFlow(m, due[m], tasks[m])
  BY DEF Flow
<1>4. Writers(tasks) /\ tasks \in [Masters -> Seq(Bursts)] /\ owed \in [Slaves -> Seq(Bursts)]
  BY FlowWriters
<1>5. /\ n \in Nat /\ wr_data[m] \in Seq(DataBeats) /\ to_send[m] \in Seq(DataBeats)
      /\ rg_wd_beat_count \in [Masters -> Nat]
  BY <1>1 DEF DataTypes
<1>6. PICK q : q = wr_data[m] \o to_send[m]
  OBVIOUS
<1>7. q # <<>> /\ Head(q) = x /\ Tail(q) = Tail(wr_data[m]) \o to_send[m]
  BY <1>1, <1>2, <1>5, <1>6, HeadOfTwo
<1>8. tasks[m] # <<>> /\ DueNext(m, due[m], tasks[m], wr_addr[m], f_wd_tasks[m], q, n)
  <2>1. Due(m, due[m], tasks[m], wr_addr[m], f_wd_tasks[m], q, n)
    BY <1>1, <1>3, <1>6 DEF MasterFlow
  <2>2. QED
    BY <1>2, <1>7, <2>1, DueBeat
<1>9. /\ b \in Writing /\ b.master = m /\ x \in DataBeats /\ x.burst = b
      /\ b.to = s /\ Head(f_wd_tasks[m]).len = b.len
      /\ x.last <=> n = b.len
      /\ x.last => Due(m, Tail(due[m]), Tail(tasks[m]), wr_addr[m], Tail(f_wd_tasks[m]),
                       Tail(wr_data[m]) \o to_send[m], 0)
      /\ ~x.last => Due(m, due[m], tasks[m], wr_addr[m], f_wd_tasks[m],
                        Tail(wr_data[m]) \o to_send[m], n + 1)
  BY <1>1, <1>7, <1>8 DEF DueNext
<1>10. Heads(tasks[m], s)
  BY <1>1, <1>8, <1>9 DEF Heads
<1>11. s \notin Slaves => s = NoSlave
  <2>1. b \in Bursts
    BY <1>9, WritingBursts
  <2>2. b.to \in 0 .. NumSlaves
    BY <2>1, BurstFields
  <2>3. QED
    BY <1>9, <2>2, FabricAssumption DEF Slaves, NoSlave
<1>12. PICK k : k = IF x.last THEN 0 ELSE n + 1
  OBVIOUS
<1>13. k \in Nat /\ rg_wd_beat_count' = Count(rg_wd_beat_count, m, k)
  BY <1>2, <1>5, <1>9, <1>12
<1>14. PICK o2, t2, d2, p2 :
          /\ o2 = IF x.last /\ s \in Slaves THEN Pop(owed, s) ELSE owed
          /\ t2 = IF x.last THEN Pop(tasks, m) ELSE tasks
          /\ d2 = IF x.last THEN Pop(due, m) ELSE due
          /\ p2 = Sent(pos, s, k)
  OBVIOUS
<1>15. Counts(t2, p2, rg_wd_beat_count')
  <2>1. CASE x.last
    BY <1>3, <1>4, <1>5, <1>10, <1>12, <1>13, <1>14, <2>1, CountsEnd
  <2>2. CASE ~x.last
    BY <1>3, <1>4, <1>5, <1>10, <1>13, <1>14, <2>2, CountsMore
  <2>3. QED
    BY <2>1, <2>2
<1>16. ASSUME s \in Slaves
       PROVE  /\ owed[s] # <<>> /\ owed[s][1] = b
              /\ Linked(Pop(owed, s), Pop(tasks, m)) /\ pos[s] = n
  BY <1>1, <1>10, <1>16, FlowOwed
<1>17. Linked(o2, t2)
  <2>1. CASE ~x.last
    BY <1>3, <1>14, <2>1
  <2>2. CASE x.last /\ s \in Slaves
    BY <1>14, <1>16, <2>2
  <2>3. CASE x.last /\ s \notin Slaves
    BY <1>1, <1>3, <1>8, <1>9, <1>11, <1>14, <2>3, LinkError
  <2>4. QED
    BY <2>1, <2>2, <2>3
<1>18. /\ wr_data'[m] = Tail(wr_data[m]) /\ rg_wd_beat_count'[m] = k
       /\ f_wd_tasks'[m] = IF x.last THEN Tail(f_wd_tasks[m]) ELSE f_wd_tasks[m]
       /\ \A j \in Masters \ {m} : /\ wr_data'[j] = wr_data[j] /\ f_wd_tasks'[j] = f_wd_tasks[j]
                                   /\ rg_wd_beat_count'[j] = rg_wd_beat_count[j]
  BY <1>2, <1>9, <1>13 DEF DataTypes, Pop, Count
<1>19. /\ t2[m] = IF x.last THEN Tail(tasks[m]) ELSE tasks[m]
       /\ d2[m] = IF x.last THEN Tail(due[m]) ELSE due[m]
       /\ \A j \in Masters \ {m} : t2[j] = tasks[j] /\ d2[j] = due[j]
  BY <1>3, <1>4, <1>14 DEF Pop
<1>20. d2 \in [Masters -> Seq(Bursts)]
  <2>1. CASE x.last
    <3>1. Due(m, due[m], tasks[m], wr_addr[m], f_wd_tasks[m], q, n)
      BY <1>1, <1>3, <1>6 DEF MasterFlow
    <3>2. Tail(due[m]) \in Seq(Bursts)
      BY <1>9, <2>1 DEF Due
    <3>3. QED
      BY <1>3, <1>14, <2>1, <3>2 DEF Pop
  <2>2. CASE ~x.last
    BY <1>3, <1>14, <2>2
  <2>3. QED
    BY <2>1, <2>2
<1>21. ASSUME NEW j \in Masters PROVE MasterFlow(j, d2[j], t2[j])'
  <2>1. CASE j = m
    <3>1. MasterFlow(m, d2[m], t2[m])'
      <4>1. CASE x.last
        BY <1>2, <1>9, <1>12, <1>18, <1>19, <4>1 DEF MasterFlow
      <4>2. CASE ~x.last
        BY <1>2, <1>9, <1>12, <1>18, <1>19, <4>2 DEF MasterFlow
      <4>3. QED
        BY <4>1, <4>2
    <3>2. QED
      BY <2>1, <3>1
  <2>2. CASE j # m
    <3>1. MasterFlow(j, due[j], tasks[j]) /\ t2[j] = tasks[j] /\ d2[j] = due[j]
      BY <1>19, <2>2 DEF Flow
    <3>2. MasterFlow(j, due[j], tasks[j])'
      BY <1>2, <1>18, <2>2, <3>1, OtherMasterFlow
    <3>3. QED
      BY <3>1, <3>2
  <2>3. QED
    BY <2>1, <2>2
<1>22. ASSUME NEW j \in Slaves PROVE SlaveFlow(j, o2[j], p2[j])'
  <2>1. SlaveFlow(j, owed[j], pos[j])
    BY DEF Flow
  <2>2. CASE j = s
    <3>1. s_wr_data'[s] = Append(s_wr_data[s], x) /\ p2[s] = k
      BY <1>2, <1>14, <2>2 DEF DataTypes, Push, Sent
    <3>2. o2[s] = IF x.last THEN Tail(owed[s]) ELSE owed[s]
      BY <1>4, <1>14, <2>2 DEF Pop
    <3>3. PICK y : y = pos[s]
      OBVIOUS
    <3>4. /\ Owed(s, owed[s], s_wr_addr[s], s_wr_data[s], s_wr_taken[s], n)
          /\ owed[s] # <<>> /\ x.burst = owed[s][1] /\ (x.last <=> n = owed[s][1].len)
      BY <1>9, <1>16, <2>1, <2>2 DEF SlaveFlow
    <3>5. /\ x.last => Owed(s, Tail(owed[s]), s_wr_addr[s], Append(s_wr_data[s], x), s_wr_taken[s], 0)
          /\ ~x.last => Owed(s, owed[s], s_wr_addr[s], Append(s_wr_data[s], x), s_wr_taken[s], n + 1)
      BY <1>9, <3>4, OwedBeat
    <3>6. Owed(s, o2[s], s_wr_addr[s], s_wr_data'[s], s_wr_taken[s], p2[s])
      <4>1. CASE x.last
        BY <1>12, <3>1, <3>2, <3>5, <4>1
      <4>2. CASE ~x.last
        BY <1>12, <3>1, <3>2, <3>5, <4>2
      <4>3. QED
        BY <4>1, <4>2
    <3>7. SlaveFlow(s, o2[s], p2[s])'
      BY <1>2, <3>6 DEF SlaveFlow
    <3>8. QED
      BY <2>2, <3>7
  <2>3. CASE j # s
    <3>1. o2[j] = owed[j] /\ p2[j] = pos[j]
      BY <1>4, <1>14, <2>3 DEF Pop, Sent
    <3>2. s_wr_data'[j] = s_wr_data[j]
      BY <1>2, <2>3 DEF DataTypes, Push
    <3>3. SlaveFlow(j, owed[j], pos[j])'
      BY <1>2, <2>1, <3>2, OtherSlaveFlow
    <3>4. QED
      BY <3>1, <3>3
  <2>4. QED
    BY <2>2, <2>3
<1>23. Flow(o2, t2, d2, p2)'
  BY <1>15, <1>17, <1>20, <1>21, <1>22 DEF Flow
<1>24. DataTypes'
  <2>1. wr_data' \in [Masters -> Seq(DataBeats)]
    BY <1>2, PopType DEF DataTypes
  <2>2. s_wr_data' \in [Slaves -> Seq(DataBeats)]
    <3>1. s_wr_data \in [Slaves -> Seq(DataBeats)] /\ x \in DataBeats
      BY <1>9 DEF DataTypes
    <3>2. CASE s \in Slaves
      BY <1>2, <3>1, <3>2, PushType
    <3>3. CASE s \notin Slaves
      BY <1>2, <3>1, <3>3
    <3>4. QED
      BY <3>2, <3>3
  <2>3. f_wd_tasks' \in [Masters -> Seq(Tasks)]
    BY <1>2, PopType DEF DataTypes
  <2>4. rg_wd_beat_count' \in [Masters -> Nat]
    BY <1>5, <1>13, CountType
  <2>5. QED
    BY <1>2, <2>1, <2>2, <2>3, <2>4 DEF DataTypes
<1>25. QED
  BY <1>23, <1>24
-----------------------------------------------------------------------------
(* The invariant of write data holds.                                       *)

LEMMA FlowUnchanged ==
    ASSUME NEW owed, NEW tasks, NEW due, NEW pos, Flow(owed, tasks, due, pos), UNCHANGED dataVars
    PROVE  Flow(owed, tasks, due, pos)'
<1>1. UNCHANGED <<to_send, wr_addr, wr_data, s_wr_addr, s_wr_data, s_wr_taken, f_wd_tasks,
                  rg_wd_beat_count>>
  BY DEF dataVars
<1>2. ASSUME NEW m \in Masters PROVE MasterFlow(m, due[m], tasks[m])'
  BY <1>1, OtherMasterFlow DEF Flow
<1>3. ASSUME NEW s \in Slaves PROVE SlaveFlow(s, owed[s], pos[s])'
  BY <1>1, OtherSlaveFlow DEF Flow
<1>4. QED
  BY <1>1, <1>2, <1>3 DEF Flow

\* What a step does to the data of writes.
LEMMA StepsOfData ==
    ASSUME [Next]_vars
    PROVE  \/ UNCHANGED <<rg_reset, dataVars>>
           \/ rl_reset
           \/ \E m \in Masters, s \in Slaves : rl_wr_xaction_master_to_slave(m, s)
           \/ \E m \in Masters : rl_wr_xaction_no_such_slave(m)
           \/ \E m \in Masters : rl_wr_xaction_master_to_slave_data(m)
           \/ \E c \in WrBursts : MasterWrite(c)
           \/ \E m \in Masters : MasterData(m)
           \/ \E s \in Slaves : SlaveWrite(s)
<1>1. CASE UNCHANGED vars
  BY <1>1 DEF vars, wrVars, dataVars
<1>2. ASSUME NEW m \in Masters, ReadRules(m) PROVE UNCHANGED <<rg_reset, dataVars>>
  <2>1. ASSUME NEW s \in Slaves, rl_rd_xaction_master_to_slave(m, s) PROVE UNCHANGED <<rg_reset, wrVars>>
    BY <2>1 DEF rl_rd_xaction_master_to_slave
  <2>2. ASSUME rl_rd_xaction_no_such_slave(m) PROVE UNCHANGED <<rg_reset, wrVars>>
    BY <2>2 DEF rl_rd_xaction_no_such_slave
  <2>3. ASSUME NEW s \in Slaves, rl_rd_resp_slave_to_master(m, s) PROVE UNCHANGED <<rg_reset, wrVars>>
    BY <2>3 DEF rl_rd_resp_slave_to_master
  <2>4. ASSUME rl_rd_resp_err_to_master(m) PROVE UNCHANGED <<rg_reset, wrVars>>
    BY <2>4 DEF rl_rd_resp_err_to_master
  <2>5. UNCHANGED <<rg_reset, wrVars>>
    BY <1>2, <2>1, <2>2, <2>3, <2>4 DEF ReadRules
  <2>6. QED
    BY <2>5 DEF wrVars, dataVars
<1>3. ASSUME NEW c \in RdBursts, MasterRead(c) PROVE UNCHANGED <<rg_reset, dataVars>>
  BY <1>3 DEF MasterRead, wrVars, dataVars
<1>4. ASSUME NEW m \in Masters, MasterTakesData(m) \/ MasterTakesResp(m)
      PROVE  UNCHANGED <<rg_reset, dataVars>>
  BY <1>4 DEF MasterTakesData, MasterTakesResp, wrVars, dataVars
<1>5. ASSUME NEW s \in Slaves, SlaveRead(s) PROVE UNCHANGED <<rg_reset, dataVars>>
  BY <1>5 DEF SlaveRead, wrVars, dataVars
<1>6. ASSUME NEW m \in Masters, NEW s \in Slaves, rl_wr_resp_slave_to_master(m, s)
      PROVE  UNCHANGED <<rg_reset, dataVars>>
  BY <1>6 DEF rl_wr_resp_slave_to_master, dataVars
<1>7. ASSUME NEW m \in Masters, rl_wr_resp_err_to_master(m)
      PROVE  UNCHANGED <<rg_reset, dataVars>>
  BY <1>7 DEF rl_wr_resp_err_to_master, dataVars
<1>8. QED
  BY <1>1, <1>2, <1>3, <1>4, <1>5, <1>6, <1>7 DEF Next, WriteRules

LEMMA DataTypesStep ==
    ASSUME OneWriter, DataTypes, WriteTypes, NEW owed, NEW tasks, NEW due, NEW pos,
           Flow(owed, tasks, due, pos), [Next]_vars
    PROVE  DataTypes'
<1>1. CASE UNCHANGED <<rg_reset, dataVars>>
  BY <1>1 DEF dataVars, DataTypes
<1>2. CASE rl_reset
  BY <1>2, EmptyType, CountType DEF rl_reset, DataTypes, ZeroPer
<1>3. ASSUME NEW m \in Masters, NEW s \in Slaves, rl_wr_xaction_master_to_slave(m, s)
      PROVE  DataTypes'
  <2>1. PICK b, task : b = Head(wr_addr[m]) /\ task = [to |-> s, len |-> b.len]
    OBVIOUS
  <2>2. /\ wr_addr[m] # <<>>
        /\ s_wr_addr' = Push(s_wr_addr, s, b) /\ wr_addr' = Pop(wr_addr, m)
        /\ f_wd_tasks' = Push(f_wd_tasks, m, task)
        /\ UNCHANGED <<to_send, wr_data, s_wr_data, s_wr_taken, rg_wd_beat_count>>
    BY <1>3, <2>1 DEF rl_wr_xaction_master_to_slave, HasWrite
  <2>3. b \in Bursts
    BY <2>1, <2>2, Popped DEF DataTypes
  <2>4. task \in Tasks
    BY <2>1, <2>3, BurstFields, SlaveNumbers DEF Tasks
  <2>5. s_wr_addr' \in [Slaves -> Seq(Bursts)]
    BY <2>2, <2>3, PushType DEF DataTypes
  <2>6. wr_addr' \in [Masters -> Seq(Bursts)]
    BY <2>2, PopType DEF DataTypes
  <2>7. f_wd_tasks' \in [Masters -> Seq(Tasks)]
    BY <2>2, <2>4, PushType DEF DataTypes
  <2>8. QED
    BY <2>2, <2>5, <2>6, <2>7 DEF DataTypes
<1>4. ASSUME NEW m \in Masters, rl_wr_xaction_no_such_slave(m)
      PROVE  DataTypes'
  <2>1. PICK b, task : b = Head(wr_addr[m]) /\ task = [to |-> NoSlave, len |-> b.len]
    OBVIOUS
  <2>2. /\ wr_addr[m] # <<>> /\ wr_addr' = Pop(wr_addr, m)
        /\ f_wd_tasks' = Push(f_wd_tasks, m, task)
        /\ UNCHANGED <<to_send, wr_data, s_wr_addr, s_wr_data, s_wr_taken, rg_wd_beat_count>>
    BY <1>4, <2>1 DEF rl_wr_xaction_no_such_slave, HasWrite
  <2>3. b \in Bursts
    BY <2>1, <2>2, Popped DEF DataTypes
  <2>4. task \in Tasks
    BY <2>1, <2>3, BurstFields, SlaveNumbers DEF Tasks
  <2>5. wr_addr' \in [Masters -> Seq(Bursts)]
    BY <2>2, PopType DEF DataTypes
  <2>6. f_wd_tasks' \in [Masters -> Seq(Tasks)]
    BY <2>2, <2>4, PushType DEF DataTypes
  <2>7. QED
    BY <2>2, <2>5, <2>6 DEF DataTypes
<1>5. ASSUME NEW m \in Masters, rl_wr_xaction_master_to_slave_data(m) PROVE DataTypes'
  BY <1>5, FlowBeat
<1>6. ASSUME NEW c \in WrBursts, MasterWrite(c) PROVE DataTypes'
  BY <1>6, FlowAsk
<1>7. ASSUME NEW m \in Masters, MasterData(m) PROVE DataTypes'
  <2>1. PICK x : x = Head(to_send[m])
    OBVIOUS
  <2>2. /\ to_send[m] # <<>> /\ wr_data' = Push(wr_data, m, x) /\ to_send' = Pop(to_send, m)
        /\ UNCHANGED <<wr_addr, s_wr_addr, s_wr_data, s_wr_taken, f_wd_tasks, rg_wd_beat_count>>
    BY <1>7, <2>1 DEF MasterData
  <2>3. x \in DataBeats
    BY <2>1, <2>2, Popped DEF DataTypes
  <2>4. wr_data' \in [Masters -> Seq(DataBeats)]
    BY <2>2, <2>3, PushType DEF DataTypes
  <2>5. to_send' \in [Masters -> Seq(DataBeats)]
    BY <2>2, PopType DEF DataTypes
  <2>6. QED
    BY <2>2, <2>4, <2>5 DEF DataTypes
<1>8. ASSUME NEW s \in Slaves, SlaveWrite(s) PROVE DataTypes'
  <2>1. /\ s_wr_addr[s] # <<>> /\ s_wr_data[s] # <<>> /\ s_wr_data' = Pop(s_wr_data, s)
        /\ UNCHANGED <<to_send, wr_addr, wr_data, f_wd_tasks, rg_wd_beat_count>>
        /\ \/ s_wr_addr' = Pop(s_wr_addr, s) /\ s_wr_taken' = Count(s_wr_taken, s, 0)
           \/ s_wr_taken' = Count(s_wr_taken, s, s_wr_taken[s] + 1) /\ s_wr_addr' = s_wr_addr
    BY <1>8 DEF SlaveWrite
  <2>2. s_wr_data' \in [Slaves -> Seq(DataBeats)]
    BY <2>1, PopType DEF DataTypes
  <2>3. s_wr_addr' \in [Slaves -> Seq(Bursts)]
    <3>1. Pop(s_wr_addr, s) \in [Slaves -> Seq(Bursts)] /\ s_wr_addr \in [Slaves -> Seq(Bursts)]
      BY <2>1, PopType DEF DataTypes
    <3>2. QED
      BY <2>1, <3>1
  <2>4. s_wr_taken' \in [Slaves -> Nat]
    <3>1. s_wr_taken[s] + 1 \in Nat /\ 0 \in Nat /\ s_wr_taken \in [Slaves -> Nat]
      BY DEF DataTypes
    <3>2. QED
      BY <2>1, <3>1, CountType
  <2>5. QED
    BY <2>1, <2>2, <2>3, <2>4 DEF DataTypes
<1>9. QED
  BY <1>1, <1>2, <1>3, <1>4, <1>5, <1>6, <1>7, <1>8, StepsOfData

\* Before the reset no data is there, and the reset finds none to clear.
LEMMA DataWaits ==
    ASSUME [Next]_vars, rg_reset, DataEmpty
    PROVE  UNCHANGED dataVars
<1> USE DEF DataEmpty, EmptyPer
<1>1. CASE rl_reset
  BY <1>1 DEF rl_reset, dataVars
<1>2. ASSUME NEW m \in Masters, NEW s \in Slaves, rl_wr_xaction_master_to_slave(m, s)
      PROVE  FALSE
  BY <1>2 DEF rl_wr_xaction_master_to_slave, HasWrite
<1>3. ASSUME NEW m \in Masters, rl_wr_xaction_no_such_slave(m) PROVE FALSE
  BY <1>3 DEF rl_wr_xaction_no_such_slave, HasWrite
<1>4. ASSUME NEW m \in Masters, rl_wr_xaction_master_to_slave_data(m) PROVE FALSE
  BY <1>4 DEF rl_wr_xaction_master_to_slave_data
<1>5. ASSUME NEW c \in WrBursts, MasterWrite(c) PROVE FALSE
  BY <1>5 DEF MasterWrite
<1>6. ASSUME NEW m \in Masters, MasterData(m) PROVE FALSE
  BY <1>6 DEF MasterData
<1>7. ASSUME NEW s \in Slaves, SlaveWrite(s) PROVE FALSE
  BY <1>7 DEF SlaveWrite
<1>8. QED
  BY <1>1, <1>2, <1>3, <1>4, <1>5, <1>6, <1>7, StepsOfData

LEMMA DataInvInit == Init => DataInv
<1> SUFFICES ASSUME Init PROVE DataInv
  OBVIOUS
<1>1. DataEmpty
  BY DEF Init, DataEmpty
<1>2. DataTypes
  <2>1. \A S, T : EmptyPer(S) \in [S -> Seq(T)]
    BY EmptyType
  <2>2. \A S : ZeroPer(S) \in [S -> Nat]
    BY DEF ZeroPer
  <2>3. QED
    BY <1>1, <2>1, <2>2 DEF DataTypes, DataEmpty
<1>3. QED
  BY <1>1, <1>2, FlowStart DEF DataInv

LEMMA DataInvStep ==
    ASSUME OneWriter, WriteTypes, DataInv, [Next]_vars
    PROVE  DataInv'
<1>1. PICK owed, tasks, due, pos : Flow(owed, tasks, due, pos)
  BY DEF DataInv
<1>2. DataTypes
  BY DEF DataInv
<1>3. DataTypes'
  BY <1>1, <1>2, DataTypesStep
<1>4. rg_reset' => DataEmpty'
  <2>1. ASSUME rg_reset' PROVE DataEmpty'
    <3>1. rg_reset /\ DataEmpty
      BY <2>1, ResetOnce DEF DataInv
    <3>2. UNCHANGED dataVars
      BY <3>1, DataWaits
    <3>3. QED
      BY <3>1, <3>2 DEF dataVars, DataEmpty
  <2>2. QED
    BY <2>1
<1>5. \E o, t, d, p : Flow(o, t, d, p)'
  <2>1. CASE UNCHANGED <<rg_reset, dataVars>>
    BY <1>1, <2>1, FlowUnchanged
  <2>2. CASE rl_reset
    <3>1. rg_reset /\ DataEmpty
      BY <2>2 DEF rl_reset, DataInv
    <3>2. UNCHANGED dataVars
      BY <3>1, DataWaits
    <3>3. QED
      BY <1>1, <3>2, FlowUnchanged
  <2>3. ASSUME NEW m \in Masters, NEW s \in Slaves, rl_wr_xaction_master_to_slave(m, s)
        PROVE  \E o, t, d, p : Flow(o, t, d, p)'
    BY <1>1, <1>2, <2>3, FlowPass
  <2>4. ASSUME NEW m \in Masters, rl_wr_xaction_no_such_slave(m)
        PROVE  \E o, t, d, p : Flow(o, t, d, p)'
    BY <1>1, <1>2, <2>4, FlowNone
  <2>5. ASSUME NEW m \in Masters, rl_wr_xaction_master_to_slave_data(m)
        PROVE  \E o, t, d, p : Flow(o, t, d, p)'
    BY <1>1, <1>2, <2>5, FlowBeat
  <2>6. ASSUME NEW c \in WrBursts, MasterWrite(c)
        PROVE  \E o, t, d, p : Flow(o, t, d, p)'
    BY <1>1, <1>2, <2>6, FlowAsk
  <2>7. ASSUME NEW m \in Masters, MasterData(m)
        PROVE  \E o, t, d, p : Flow(o, t, d, p)'
    BY <1>1, <1>2, <2>7, FlowSend
  <2>8. ASSUME NEW s \in Slaves, SlaveWrite(s)
        PROVE  \E o, t, d, p : Flow(o, t, d, p)'
    BY <1>1, <1>2, <2>8, FlowTake
  <2>9. QED
    BY <2>1, <2>2, <2>3, <2>4, <2>5, <2>6, <2>7, <2>8, StepsOfData
<1>6. QED
  BY <1>3, <1>4, <1>5 DEF DataInv

LEMMA DataTaken == DataInv => DataFollowsAddress
<1> SUFFICES ASSUME DataInv, NEW s \in Slaves, s_wr_addr[s] # <<>>, s_wr_data[s] # <<>>
             PROVE  /\ Head(s_wr_data[s]).burst = Head(s_wr_addr[s])
                    /\ Head(s_wr_data[s]).last <=> s_wr_taken[s] = Head(s_wr_addr[s]).len
  BY DEF DataFollowsAddress
<1>1. PICK owed, tasks, due, pos : Flow(owed, tasks, due, pos)
  BY DEF DataInv
<1>2. Owed(s, owed[s], s_wr_addr[s], s_wr_data[s], s_wr_taken[s], pos[s])
      /\ s_wr_addr[s] # <<>> /\ s_wr_data[s] # <<>>
  BY <1>1 DEF Flow, SlaveFlow
<1>3. OwedNext(s, owed[s], s_wr_addr[s], s_wr_data[s], s_wr_taken[s], pos[s])
  BY <1>2, OwedTake
<1>4. QED
  BY <1>3 DEF OwedNext

\* The data that a slave takes belongs to the address it takes with it, and
\* its last beat is the one the address counts to, whatever way the rules of
\* mkAXI4_Fabric interleave.  Beats carry no name of their master: the fabric
\* takes for granted that one master writes to a slave (f_wd_tasks is kept per
\* master alone, AXI4_Fabric.bsv), and so does the theorem.
THEOREM DataStaysWithAddress ==
    ASSUME OneWriter
    PROVE  Spec => []DataFollowsAddress
<1>1. Init => DataInv
  BY DataInvInit
<1>2. WriteInv /\ DataInv /\ [Next]_vars => DataInv'
  <2>1. WriteInv => WriteTypes
    BY DEF WriteInv
  <2>2. QED
    BY <2>1, DataInvStep
<1>3. QED
  BY <1>1, <1>2, DataTaken, WritesMatch, PTL DEF Spec
=============================================================================
