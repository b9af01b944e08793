-------------------------- MODULE DebursterProofs --------------------------
(***************************************************************************)
(* The deburster for all bursts, data and depths of its queues: the counts *)
(* of its request side and of its response side agree, and the single      *)
(* accesses it makes are those the bursts mean.                            *)
(***************************************************************************)
EXTENDS Deburster, Induction, SequenceTheorems
-----------------------------------------------------------------------------
(* Sequences of sequences.                                                  *)

\* FlattenSeq is well defined.
LEMMA FlattenDef ==
    ASSUME NEW T, NEW ss \in Seq(Seq(T)), ss # <<>>
    PROVE  \E f \in [1 .. Len(ss) -> Seq(T)] :
              /\ f[1] = ss[1]
              /\ \A i \in 2 .. Len(ss) : f[i] = f[i - 1] \o ss[i]
              /\ FlattenSeq(ss) = f[Len(ss)]
<1> DEFINE n == Len(ss)
           step == [p \in (1 .. n - 1) \X Seq(T) |-> p[2] \o ss[p[1] + 1]]
           Def(f) == [i \in 1 .. n |-> IF i = 1 THEN ss[i] ELSE f[i - 1] \o ss[i]]
<1>1. n \in Nat /\ n >= 1 /\ \A i \in 1 .. n : ss[i] \in Seq(T)
  <2>1. n \in Nat /\ n # 0
    BY EmptySeq
  <2>2. \A i \in 1 .. n : ss[i] \in Seq(T)
    BY ElementOfSeq
  <2>3. QED
    BY <2>1, <2>2
<1>2. PICK g \in [0 .. n - 1 -> Seq(T)] : Follows(g, n - 1, ss[1], step)
  <2>1. step \in [(1 .. n - 1) \X Seq(T) -> Seq(T)]
    <3>1. ASSUME NEW p \in (1 .. n - 1) \X Seq(T) PROVE p[2] \o ss[p[1] + 1] \in Seq(T)
      <4>1. p[1] + 1 \in 1 .. n /\ p[2] \in Seq(T)
        BY <1>1
      <4>2. ss[p[1] + 1] \in Seq(T)
        BY <4>1, <1>1
      <4>3. QED
        BY <4>1, <4>2, ConcatProperties
    <3>2. QED
      BY <3>1
  <2>2. n - 1 \in Nat /\ ss[1] \in Seq(T)
    BY <1>1
  <2> HIDE DEF step, n
  <2>3. QED
    BY <2>1, <2>2, RecursiveFunction
<1>3. PICK f \in [1 .. n -> Seq(T)] : f[1] = ss[1] /\ \A i \in 2 .. n : f[i] = f[i - 1] \o ss[i]
  <2> DEFINE h == [i \in 1 .. n |-> g[i - 1]]
  <2>1. h \in [1 .. n -> Seq(T)] /\ h[1] = ss[1]
    BY <1>1, <1>2 DEF Follows
  <2>2. ASSUME NEW i \in 2 .. n PROVE h[i] = h[i - 1] \o ss[i]
    <3>1. i - 1 \in 1 .. n - 1 /\ i - 1 - 1 \in 0 .. n - 1 /\ i - 1 + 1 = i /\ i - 1 \in 1 .. n
      BY <1>1
    <3>2. g[i - 1] = step[<<i - 1, g[i - 1 - 1]>>]
      BY <3>1, <1>2 DEF Follows
    <3>3. <<i - 1, g[i - 1 - 1]>> \in (1 .. n - 1) \X Seq(T)
      BY <3>1, <1>2
    <3>4. step[<<i - 1, g[i - 1 - 1]>>] = g[i - 1 - 1] \o ss[i]
      BY <3>1, <3>3
    <3>5. h[i] = g[i - 1] /\ h[i - 1] = g[i - 1 - 1]
      BY <3>1
    <3> HIDE DEF h, step
    <3>6. QED
      BY <3>2, <3>4, <3>5
  <2> HIDE DEF h
  <2>3. QED
    BY <2>1, <2>2
<1>4. f = Def(f)
  <2>1. ASSUME NEW i \in 1 .. n PROVE f[i] = IF i = 1 THEN ss[i] ELSE f[i - 1] \o ss[i]
    <3>1. i # 1 => i \in 2 .. n
      OBVIOUS
    <3>2. QED
      BY <3>1, <1>3
  <2>2. QED
    BY <2>1, <1>3
<1>5. FlattenSeq(ss) = (CHOOSE d : d = Def(d))[n]
  BY <1>1 DEF FlattenSeq
<1> DEFINE d == CHOOSE x : x = Def(x)
<1>6. d = Def(d)
  <2> HIDE DEF Def
  <2>1. QED
    BY <1>4
<1>7. d \in [1 .. n -> Seq(T)]
  <2> DEFINE S == {i \in 0 .. n : i = 0 \/ d[i] \in Seq(T)}
  <2> HIDE DEF d
  <2>1. ASSUME NEW i \in 1 .. n, i - 1 \in S PROVE i \in S
    <3>1. d[i] = IF i = 1 THEN ss[i] ELSE d[i - 1] \o ss[i]
      BY <1>6
    <3>2. i # 1 => d[i - 1] \in Seq(T)
      BY <2>1
    <3>3. d[i] \in Seq(T)
      BY <3>1, <3>2, <1>1, ConcatProperties
    <3>4. QED
      BY <3>3
  <2>2. 0 \in S
    BY <1>1
  <2>3. 0 .. n \subseteq S
    <3> HIDE DEF S, n
    <3>1. QED
      BY <1>1, <2>1, <2>2, IntervalInduction
  <2>4. ASSUME NEW i \in 1 .. n PROVE d[i] \in Seq(T)
    <3>1. i \in 0 .. n /\ i # 0
      OBVIOUS
    <3>2. QED
      BY <3>1, <2>3
  <2>5. d = [i \in 1 .. n |-> d[i]]
    BY <1>6
  <2>6. QED
    BY <2>4, <2>5
<1>8. d[1] = ss[1] /\ \A i \in 2 .. n : d[i] = d[i - 1] \o ss[i]
  <2> HIDE DEF d
  <2>1. \A i \in 1 .. n : d[i] = IF i = 1 THEN ss[i] ELSE d[i - 1] \o ss[i]
    BY <1>6
  <2>2. 1 \in 1 .. n /\ \A i \in 2 .. n : i \in 1 .. n /\ i # 1
    BY <1>1
  <2>3. QED
    BY <2>1, <2>2
<1>9. QED
  <2> HIDE DEF d, Def
  <2>1. FlattenSeq(ss) = d[n]
    BY <1>5 DEF d
  <2>2. QED
    BY <2>1, <1>7, <1>8

\* Flattening goes on with each sequence.
LEMMA FlattenAppend ==
    ASSUME NEW T, NEW ss \in Seq(Seq(T)), NEW s \in Seq(T)
    PROVE  /\ FlattenSeq(ss) \in Seq(T)
           /\ FlattenSeq(Append(ss, s)) = FlattenSeq(ss) \o s
<1> DEFINE n == Len(ss)
           ts == Append(ss, s)
<1>1. n \in Nat /\ ts \in Seq(Seq(T)) /\ ts # <<>> /\ Len(ts) = n + 1
      /\ ts[n + 1] = s /\ \A i \in 1 .. n : ts[i] = ss[i]
  BY AppendProperties
<1>2. PICK g \in [1 .. n + 1 -> Seq(T)] :
          /\ g[1] = ts[1]
          /\ \A i \in 2 .. n + 1 : g[i] = g[i - 1] \o ts[i]
          /\ FlattenSeq(ts) = g[n + 1]
  <2> HIDE DEF ts, n
  <2>1. \E g \in [1 .. Len(ts) -> Seq(T)] :
            /\ g[1] = ts[1]
            /\ \A i \in 2 .. Len(ts) : g[i] = g[i - 1] \o ts[i]
            /\ FlattenSeq(ts) = g[Len(ts)]
    BY <1>1, FlattenDef
  <2>2. Len(ts) = n + 1
    BY <1>1
  <2>3. QED
    BY <2>1, <2>2
<1>3. CASE ss = <<>>
  <2>1. n = 0 /\ FlattenSeq(ss) = <<>>
    BY <1>3 DEF FlattenSeq
  <2>2. FlattenSeq(ts) = s
    BY <2>1, <1>1, <1>2
  <2>3. QED
    BY <2>1, <2>2, EmptySeq, ConcatEmptySeq
<1>4. CASE ss # <<>>
  <2>1. PICK f \in [1 .. n -> Seq(T)] :
            /\ f[1] = ss[1]
            /\ \A i \in 2 .. n : f[i] = f[i - 1] \o ss[i]
            /\ FlattenSeq(ss) = f[n]
    BY <1>4, FlattenDef
  <2>2. n >= 1
    BY <1>1, <1>4, EmptySeq
  <2> DEFINE S == {i \in 0 .. n : i = 0 \/ g[i] = f[i]}
  <2>3. ASSUME NEW i \in 1 .. n, i - 1 \in S PROVE i \in S
    <3>1. CASE i = 1
      <4>1. g[1] = f[1]
        BY <1>1, <1>2, <2>1, <2>2
      <4>2. QED
        BY <4>1, <3>1
    <3>2. CASE i # 1
      <4>1. i \in 2 .. n /\ i \in 2 .. n + 1 /\ i - 1 # 0
        BY <3>2, <1>1
      <4>2. g[i - 1] = f[i - 1]
        BY <4>1, <2>3
      <4>3. g[i] = f[i]
        <5> HIDE DEF ts, S
        <5>1. g[i] = g[i - 1] \o ts[i] /\ f[i] = f[i - 1] \o ss[i] /\ ts[i] = ss[i]
          BY <4>1, <1>1, <1>2, <2>1
        <5>2. QED
          BY <5>1, <4>2
      <4>4. QED
        BY <4>3
    <3>3. QED
      BY <3>1, <3>2
  <2>4. 0 \in S
    BY <1>1
  <2>5. 0 .. n \subseteq S
    <3> HIDE DEF S, n
    <3>1. QED
      BY <1>1, <2>3, <2>4, IntervalInduction
  <2>6. g[n] = f[n]
    <3>1. n \in 0 .. n /\ n # 0
      BY <1>1, <2>2
    <3>2. QED
      BY <3>1, <2>5
  <2>7. g[n + 1] = g[n] \o s
    <3> HIDE DEF ts, n
    <3>1. n + 1 \in 2 .. n + 1 /\ n + 1 - 1 = n
      BY <1>1, <2>2
    <3>2. \A i \in 2 .. n + 1 : g[i] = g[i - 1] \o ts[i]
      BY <1>2
    <3>3. PICK k : k = n + 1
      OBVIOUS
    <3>4. k \in 2 .. n + 1 /\ k - 1 = n
      BY <1>1, <3>1, <3>3
    <3>5. g[k] = g[k - 1] \o ts[k]
      BY <3>2, <3>4
    <3>6. QED
      BY <3>3, <3>4, <3>5, <1>1
  <2>8. f[n] \in Seq(T)
    <3> HIDE DEF S, ts, n
    <3>1. n \in 1 .. n
      BY <1>1, <2>2
    <3>2. f \in [1 .. n -> Seq(T)]
      BY <2>1
    <3>3. QED
      BY <3>1, <3>2
  <2>9. QED
    BY <2>1, <2>6, <2>7, <2>8, <1>2
<1>5. QED
  BY <1>3, <1>4

\* Flattening begins with the first sequence.
LEMMA FlattenHead ==
    ASSUME NEW T, NEW ss \in Seq(Seq(T)), ss # <<>>
    PROVE  FlattenSeq(ss) = Head(ss) \o FlattenSeq(Tail(ss))
<1> DEFINE First(k) == \A ts \in Seq(Seq(T)) :
               Len(ts) = k /\ k # 0 => FlattenSeq(ts) = Head(ts) \o FlattenSeq(Tail(ts))
           n == Len(ss)
           S == {k \in 0 .. n : First(k)}
<1>1. n \in Nat /\ n # 0
  BY EmptySeq
<1>2. ASSUME NEW k \in 1 .. n, First(k - 1) PROVE First(k)
  <2> SUFFICES ASSUME NEW ts \in Seq(Seq(T)), Len(ts) = k
               PROVE  FlattenSeq(ts) = Head(ts) \o FlattenSeq(Tail(ts))
    OBVIOUS
  <2>1. ts # <<>>
    BY EmptySeq
  <2>2. PICK us \in Seq(Seq(T)), u \in Seq(T) : ts = Append(us, u)
    BY <2>1, SequenceEmptyOrAppend
  <2>3. Len(us) = k - 1 /\ Len(us) \in Nat
    <3>1. Len(us) \in Nat /\ Len(ts) = Len(us) + 1
      BY <2>2, AppendProperties
    <3>2. QED
      BY <3>1
  <2>4. FlattenSeq(us) \in Seq(T) /\ FlattenSeq(ts) = FlattenSeq(us) \o u
    BY <2>2, FlattenAppend
  <2>5. CASE us = <<>>
    <3>1. Head(ts) = u /\ Tail(ts) = <<>>
      BY <2>2, <2>5
    <3>2. FlattenSeq(<<>>) = <<>>
      BY DEF FlattenSeq
    <3>3. QED
      BY <2>4, <2>5, <3>1, <3>2, ConcatEmptySeq
  <2>6. CASE us # <<>>
    <3>1. Head(ts) = Head(us) /\ Tail(ts) = Append(Tail(us), u)
      BY <2>2, <2>6, HeadTailAppend
    <3>2. Head(us) \in Seq(T) /\ Tail(us) \in Seq(Seq(T))
      BY <2>6, HeadTailProperties
    <3>3. FlattenSeq(us) = Head(us) \o FlattenSeq(Tail(us))
      <4>1. Len(us) # 0
        BY <2>6, EmptySeq
      <4>2. QED
        BY <1>2, <2>3, <4>1
    <3>4. FlattenSeq(Tail(us)) \in Seq(T)
          /\ FlattenSeq(Tail(ts)) = FlattenSeq(Tail(us)) \o u
      BY <3>1, <3>2, FlattenAppend
    <3>5. (Head(us) \o FlattenSeq(Tail(us))) \o u = Head(us) \o (FlattenSeq(Tail(us)) \o u)
      <4>1. PICK h \in Seq(T), r \in Seq(T) : h = Head(us) /\ r = FlattenSeq(Tail(us))
        BY <3>2, <3>4
      <4>2. (h \o r) \o u = h \o (r \o u)
        OBVIOUS
      <4>3. QED
        BY <4>1, <4>2
    <3>6. QED
      BY <2>4, <3>1, <3>3, <3>4, <3>5
  <2>7. QED
    BY <2>5, <2>6
<1>3. n \in S
  <2>1. 0 \in S
    BY <1>1
  <2>2. ASSUME NEW k \in 1 .. n, k - 1 \in S PROVE k \in S
    <3>1. First(k - 1)
      BY <2>2
    <3> HIDE DEF First
    <3>2. First(k)
      BY <3>1, <1>2
    <3>3. QED
      BY <3>2
  <2>3. 0 .. n \subseteq S
    <3> HIDE DEF S, n
    <3>1. QED
      BY <1>1, <2>1, <2>2, IntervalInduction
  <2>4. n \in 0 .. n
    BY <1>1
  <2> HIDE DEF S, n
  <2>5. QED
    BY <2>3, <2>4
<1>4. QED
  BY <1>1, <1>3

\* The pieces F of the elements of xs, joined.
Joint(F, xs) == FlattenSeq([i \in DOMAIN xs |-> F[xs[i]]])

\* Nothing for no element, and one piece more for one element more, at the end
\* as at the beginning.
Joins(E, T, F, es) ==
    /\ Joint(F, es) \in Seq(T)
    /\ es = <<>> => Joint(F, es) = <<>>
    /\ \A e \in E : Joint(F, Append(es, e)) = Joint(F, es) \o F[e]
    /\ es # <<>> => Joint(F, es) = F[Head(es)] \o Joint(F, Tail(es))

\* The pieces of the elements of a sequence are joined so.
LEMMA Pieces ==
    ASSUME NEW E, NEW T, NEW F \in [E -> Seq(T)], NEW es \in Seq(E)
    PROVE  Joins(E, T, F, es)
<1> DEFINE mapped(xs) == [i \in DOMAIN xs |-> F[xs[i]]]
<1>1. ASSUME NEW xs \in Seq(E)
      PROVE  mapped(xs) \in Seq(Seq(T)) /\ Len(mapped(xs)) = Len(xs)
  <2>1. DOMAIN xs = 1 .. Len(xs) /\ Len(xs) \in Nat /\ \A i \in 1 .. Len(xs) : xs[i] \in E
    BY LenProperties, ElementOfSeq
  <2>2. \A i \in 1 .. Len(xs) : F[xs[i]] \in Seq(T)
    BY <2>1
  <2>3. QED
    BY <2>1, <2>2, IsASeq
<1>2. ASSUME NEW e \in E PROVE mapped(Append(es, e)) = Append(mapped(es), F[e])
  <2>1. /\ Append(es, e) \in Seq(E) /\ Len(es) \in Nat /\ DOMAIN es = 1 .. Len(es)
        /\ Len(Append(es, e)) = Len(es) + 1 /\ DOMAIN Append(es, e) = 1 .. Len(es) + 1
        /\ Append(es, e)[Len(es) + 1] = e
        /\ \A i \in 1 .. Len(es) : Append(es, e)[i] = es[i]
    BY AppendProperties, LenProperties
  <2>2. F[e] \in Seq(T)
    OBVIOUS
  <2> DEFINE left == mapped(Append(es, e))
             right == Append(mapped(es), F[e])
  <2>3. /\ left \in Seq(Seq(T)) /\ Len(left) = Len(es) + 1
        /\ mapped(es) \in Seq(Seq(T)) /\ Len(mapped(es)) = Len(es)
    BY <1>1, <2>1
  <2>4. /\ right \in Seq(Seq(T)) /\ Len(right) = Len(es) + 1
        /\ right[Len(es) + 1] = F[e]
        /\ \A i \in 1 .. Len(es) : right[i] = mapped(es)[i]
    <3> HIDE DEF mapped
    <3>1. QED
      BY <2>2, <2>3, AppendProperties
  <2>5. ASSUME NEW i \in 1 .. Len(es) + 1 PROVE left[i] = right[i]
    <3>1. left[i] = F[Append(es, e)[i]]
      BY <2>1
    <3>2. CASE i = Len(es) + 1
      BY <3>1, <3>2, <2>1, <2>4
    <3>3. CASE i # Len(es) + 1
      <4>1. i \in 1 .. Len(es)
        BY <3>3, <2>1
      <4>2. mapped(es)[i] = F[es[i]]
        BY <4>1, <2>1
      <4> HIDE DEF left, right, mapped
      <4>3. QED
        BY <4>1, <4>2, <3>1, <2>1, <2>4
    <3>4. QED
      BY <3>2, <3>3
  <2> HIDE DEF left, right
  <2>6. left = right
    BY <2>3, <2>4, <2>5, SeqEqual
  <2>7. QED
    BY <2>6 DEF left, right
<1>3. ASSUME es # <<>>
      PROVE  /\ mapped(es) # <<>> /\ Head(mapped(es)) = F[Head(es)]
             /\ Tail(mapped(es)) = mapped(Tail(es))
  <2>1. /\ Len(es) \in Nat /\ Len(es) >= 1 /\ DOMAIN es = 1 .. Len(es)
        /\ Tail(es) \in Seq(E) /\ Len(Tail(es)) = Len(es) - 1 /\ Head(es) = es[1]
        /\ \A i \in 1 .. Len(es) - 1 : Tail(es)[i] = es[i + 1]
    BY <1>3, HeadTailProperties, LenProperties, EmptySeq
  <2>2. /\ mapped(es) \in Seq(Seq(T)) /\ Len(mapped(es)) = Len(es)
        /\ mapped(Tail(es)) \in Seq(Seq(T)) /\ Len(mapped(Tail(es))) = Len(es) - 1
    BY <1>1, <2>1
  <2>3. /\ mapped(es) # <<>> /\ Head(mapped(es)) = mapped(es)[1]
        /\ Tail(mapped(es)) \in Seq(Seq(T)) /\ Len(Tail(mapped(es))) = Len(es) - 1
        /\ \A i \in 1 .. Len(es) - 1 : Tail(mapped(es))[i] = mapped(es)[i + 1]
    <3> HIDE DEF mapped
    <3>1. mapped(es) # <<>>
      BY <2>1, <2>2, EmptySeq
    <3>2. QED
      BY <2>1, <2>2, <3>1, HeadTailProperties
  <2>4. ASSUME NEW i \in 1 .. Len(es) - 1 PROVE Tail(mapped(es))[i] = mapped(Tail(es))[i]
    <3>1. i + 1 \in 1 .. Len(es) /\ DOMAIN Tail(es) = 1 .. Len(es) - 1
      BY <2>1, LenProperties
    <3>2. mapped(es)[i + 1] = F[es[i + 1]] /\ mapped(Tail(es))[i] = F[Tail(es)[i]]
      BY <3>1, <2>1
    <3>3. Tail(es)[i] = es[i + 1]
      BY <2>1
    <3> HIDE DEF mapped
    <3>4. QED
      BY <3>2, <3>3, <2>3
  <2>5. mapped(es)[1] = F[es[1]]
    BY <2>1
  <2> HIDE DEF mapped
  <2>6. Tail(mapped(es)) = mapped(Tail(es))
    <3> DEFINE left == Tail(mapped(es))
               right == mapped(Tail(es))
    <3> HIDE DEF left, right
    <3>1. /\ left \in Seq(Seq(T)) /\ right \in Seq(Seq(T))
          /\ Len(left) = Len(es) - 1 /\ Len(right) = Len(es) - 1
          /\ \A i \in 1 .. Len(es) - 1 : left[i] = right[i]
      BY <2>2, <2>3, <2>4 DEF left, right
    <3>2. left = right
      BY <3>1, SeqEqual
    <3>3. QED
      BY <3>2 DEF left, right
  <2>7. QED
    BY <2>1, <2>3, <2>5, <2>6
<1>4. mapped(es) \in Seq(Seq(T))
  BY <1>1
<1>5. FlattenSeq(mapped(es)) \in Seq(T)
  <2> HIDE DEF mapped
  <2>1. PICK s \in Seq(T) : s = <<>>
    BY EmptySeq
  <2>2. QED
    BY <1>4, <2>1, FlattenAppend
<1>6. es = <<>> => FlattenSeq(mapped(es)) = <<>>
  BY DEF FlattenSeq
<1>7. ASSUME NEW e \in E
      PROVE  FlattenSeq(mapped(Append(es, e))) = FlattenSeq(mapped(es)) \o F[e]
  <2>1. F[e] \in Seq(T)
    OBVIOUS
  <2> HIDE DEF mapped
  <2>2. QED
    BY <2>1, <1>2, <1>4, FlattenAppend
<1>8. ASSUME es # <<>>
      PROVE  FlattenSeq(mapped(es)) = F[Head(es)] \o FlattenSeq(mapped(Tail(es)))
  <2> HIDE DEF mapped
  <2>1. QED
    BY <1>3, <1>4, <1>8, FlattenHead
<1>9. QED
  BY <1>5, <1>6, <1>7, <1>8 DEF Joint, Joins
-----------------------------------------------------------------------------
(* The inductive invariant.                                                 *)

AllBursts == WrBursts \cup RdBursts
BeatSet == [addr : Addrs, last : BOOLEAN]

TypeOK ==
    /\ rg_reset \in BOOLEAN
    /\ wr_addr \in Seq(AllBursts) /\ wr_data \in Seq(Data) /\ wr_resp \in Seq(Resp)
    /\ f_w_awlen \in Seq(Nat) /\ rg_b_resp \in Resp
    /\ s_wr_addr \in Seq(Addrs) /\ s_wr_data \in Seq(Data) /\ s_wr_resp \in Seq(Resp)
    /\ rd_addr \in Seq(AllBursts) /\ rd_data \in Seq([data : Data, last : BOOLEAN])
    /\ f_r_arlen \in Seq(Nat)
    /\ s_rd_addr \in Seq(Addrs) /\ s_rd_data \in Seq(Data)
    /\ mem \in [Addrs -> Data]

\* Where the request side stands in its burst: the length of that burst was
\* the last one noted, and last is the address of the beat before.
RequestSide(bursts, beat, last, lens) ==
    /\ beat \in Nat
    /\ beat # 0 => /\ bursts # <<>> /\ beat <= Head(bursts).len
                   /\ last = Addresses(Head(bursts))[beat - 1]
                   /\ lens # <<>> /\ lens[Len(lens)] = Head(bursts).len

\* Where the response side stands in its burst.
ResponseSide(lens, beat) ==
    beat \in Nat /\ IF lens = <<>> THEN beat = 0 ELSE beat <= Head(lens)

\* The two sides and the n accesses between them: each beat that was noted is
\* answered, under way, or not yet sent.
Sides(bursts, beat, last, lens, answered, n) ==
    /\ RequestSide(bursts, beat, last, lens)
    /\ ResponseSide(lens, answered)
    /\ BeatsIn(lens) = answered + n + Unsent(bursts, beat)

WrSides == Sides(wr_addr, rg_w_beat_count, rg_last_beat_waddr, f_w_awlen, rg_b_beat_count,
                 Len(s_wr_resp) + Len(s_wr_addr))
RdSides == Sides(rd_addr, rg_ar_beat_count, rg_last_beat_raddr, f_r_arlen, rg_r_beat_count,
                 Len(s_rd_data) + Len(s_rd_addr))

\* The slave gets address and data together, and at the reset nothing is there.
Paired == Len(s_wr_addr) = Len(s_wr_data)
AtReset ==
    rg_reset => /\ wr_addr = <<>> /\ wr_data = <<>> /\ wr_resp = <<>>
                /\ s_wr_addr = <<>> /\ s_wr_data = <<>> /\ s_wr_resp = <<>>
                /\ f_w_awlen = <<>> /\ rg_w_beat_count = 0
                /\ rg_b_beat_count = 0 /\ rg_b_resp = "OKAY"
                /\ rd_addr = <<>> /\ rd_data = <<>> /\ s_rd_addr = <<>> /\ s_rd_data = <<>>
                /\ f_r_arlen = <<>> /\ rg_ar_beat_count = 0 /\ rg_r_beat_count = 0

IInv == TypeOK /\ WrSides /\ RdSides /\ Paired /\ AtReset
-----------------------------------------------------------------------------
(* The flags of the beats that the queue of lengths stands for.             *)

BurstFlags(l) == [k \in 1 .. l + 1 |-> k = l + 1]

LEMMA BurstFlag ==
    ASSUME NEW l \in Nat
    PROVE  /\ BurstFlags(l) \in Seq(BOOLEAN) /\ Len(BurstFlags(l)) = l + 1
           /\ \A k \in 1 .. l + 1 : BurstFlags(l)[k] = (k = l + 1)
BY DEF BurstFlags

LEMMA Flags ==
    ASSUME NEW lens \in Seq(Nat)
    PROVE  /\ LastFlags(lens) \in Seq(BOOLEAN)
           /\ lens = <<>> => LastFlags(lens) = <<>>
           /\ \A l \in Nat : LastFlags(Append(lens, l)) = LastFlags(lens) \o BurstFlags(l)
           /\ lens # <<>> => LastFlags(lens) = BurstFlags(Head(lens)) \o LastFlags(Tail(lens))
<1>1. PICK F \in [Nat -> Seq(BOOLEAN)] : \A l \in Nat : F[l] = BurstFlags(l)
  <2>1. [l \in Nat |-> BurstFlags(l)] \in [Nat -> Seq(BOOLEAN)]
    BY BurstFlag
  <2>2. QED
    BY <2>1
<1>2. ASSUME NEW xs \in Seq(Nat) PROVE LastFlags(xs) = Joint(F, xs)
  <2>1. \A i \in DOMAIN xs : xs[i] \in Nat
    BY LenProperties, ElementOfSeq
  <2>2. \A i \in DOMAIN xs : F[xs[i]] = [k \in 1 .. xs[i] + 1 |-> k = xs[i] + 1]
    BY <1>1, <2>1 DEF BurstFlags
  <2>3. [i \in DOMAIN xs |-> F[xs[i]]]
            = [i \in DOMAIN xs |-> [k \in 1 .. xs[i] + 1 |-> k = xs[i] + 1]]
    BY <2>2
  <2>4. QED
    BY <2>3 DEF LastFlags, Joint
<1>3. /\ Joint(F, lens) \in Seq(BOOLEAN)
      /\ lens = <<>> => Joint(F, lens) = <<>>
      /\ \A l \in Nat : Joint(F, Append(lens, l)) = Joint(F, lens) \o F[l]
      /\ lens # <<>> => Joint(F, lens) = F[Head(lens)] \o Joint(F, Tail(lens))
  <2>1. Joins(Nat, BOOLEAN, F, lens)
    BY Pieces
  <2>2. QED
    BY <2>1 DEF Joins
<1>4. \A l \in Nat : Append(lens, l) \in Seq(Nat)
  BY AppendProperties
<1>5. lens # <<>> => Head(lens) \in Nat /\ Tail(lens) \in Seq(Nat)
  BY HeadTailProperties
<1>6. QED
  BY <1>1, <1>2, <1>3, <1>4, <1>5

\* A length more at the end.
LEMMA FlagsAppend ==
    ASSUME NEW lens \in Seq(Nat), NEW l \in Nat
    PROVE  /\ BeatsIn(lens) \in Nat /\ BeatsIn(Append(lens, l)) = BeatsIn(lens) + l + 1
           /\ \A i \in 1 .. BeatsIn(lens) : LastFlags(Append(lens, l))[i] = LastFlags(lens)[i]
           /\ \A k \in 1 .. l + 1 :
                 LastFlags(Append(lens, l))[BeatsIn(lens) + k] = (k = l + 1)
<1>1. PICK f \in Seq(BOOLEAN), g \in Seq(BOOLEAN) : f = LastFlags(lens) /\ g = BurstFlags(l)
  BY Flags, BurstFlag
<1>2. LastFlags(Append(lens, l)) = f \o g /\ BeatsIn(lens) = Len(f)
      /\ BeatsIn(Append(lens, l)) = Len(f \o g)
  BY <1>1, Flags DEF BeatsIn
<1>3. Len(g) = l + 1 /\ \A k \in 1 .. l + 1 : g[k] = (k = l + 1)
  BY <1>1, BurstFlag
<1>4. /\ Len(f) \in Nat /\ Len(f \o g) = Len(f) + Len(g)
      /\ \A i \in 1 .. Len(f) + Len(g) : (f \o g)[i] = IF i <= Len(f) THEN f[i] ELSE g[i - Len(f)]
  BY ConcatProperties, LenProperties
<1>5. ASSUME NEW i \in 1 .. Len(f) PROVE (f \o g)[i] = f[i]
  <2>1. i \in 1 .. Len(f) + Len(g) /\ i <= Len(f)
    BY <1>3, <1>4
  <2>2. QED
    BY <2>1, <1>4
<1>6. ASSUME NEW k \in 1 .. l + 1 PROVE (f \o g)[Len(f) + k] = (k = l + 1)
  <2>1. /\ Len(f) + k \in 1 .. Len(f) + Len(g) /\ ~(Len(f) + k <= Len(f))
        /\ Len(f) + k - Len(f) = k
    BY <1>3, <1>4
  <2>2. (f \o g)[Len(f) + k] = g[k]
    BY <2>1, <1>4
  <2>3. QED
    BY <2>2, <1>3
<1>7. QED
  BY <1>1, <1>2, <1>3, <1>4, <1>5, <1>6

\* A length less at the beginning.
LEMMA FlagsHead ==
    ASSUME NEW lens \in Seq(Nat), lens # <<>>, NEW l \in Nat, l = Head(lens)
    PROVE  /\ Tail(lens) \in Seq(Nat) /\ BeatsIn(Tail(lens)) \in Nat
           /\ BeatsIn(lens) = l + 1 + BeatsIn(Tail(lens))
           /\ \A k \in 1 .. l + 1 : LastFlags(lens)[k] = (k = l + 1)
           /\ \A i \in 1 .. BeatsIn(Tail(lens)) :
                 LastFlags(lens)[l + 1 + i] = LastFlags(Tail(lens))[i]
<1>2. Tail(lens) \in Seq(Nat)
  BY HeadTailProperties
<1>3. PICK f \in Seq(BOOLEAN), g \in Seq(BOOLEAN) : f = BurstFlags(l) /\ g = LastFlags(Tail(lens))
  BY <1>2, Flags, BurstFlag
<1>4. LastFlags(lens) = f \o g /\ BeatsIn(Tail(lens)) = Len(g) /\ BeatsIn(lens) = Len(f \o g)
  BY <1>3, Flags DEF BeatsIn
<1>5. Len(f) = l + 1 /\ \A k \in 1 .. l + 1 : f[k] = (k = l + 1)
  BY <1>3, BurstFlag
<1>6. /\ Len(g) \in Nat /\ Len(f \o g) = Len(f) + Len(g)
      /\ \A i \in 1 .. Len(f) + Len(g) : (f \o g)[i] = IF i <= Len(f) THEN f[i] ELSE g[i - Len(f)]
  BY ConcatProperties, LenProperties
<1>7. ASSUME NEW k \in 1 .. l + 1 PROVE (f \o g)[k] = (k = l + 1)
  <2>1. k \in 1 .. Len(f) + Len(g) /\ k <= Len(f)
    BY <1>5, <1>6
  <2>2. QED
    BY <2>1, <1>5, <1>6
<1>8. ASSUME NEW i \in 1 .. Len(g) PROVE (f \o g)[l + 1 + i] = g[i]
  <2>1. /\ l + 1 + i \in 1 .. Len(f) + Len(g) /\ ~(l + 1 + i <= Len(f))
        /\ l + 1 + i - Len(f) = i
    BY <1>5, <1>6
  <2>2. PICK j : j = l + 1 + i
    OBVIOUS
  <2>3. j \in 1 .. Len(f) + Len(g) /\ ~(j <= Len(f)) /\ j - Len(f) = i
    BY <2>1, <2>2
  <2>4. (f \o g)[j] = g[j - Len(f)]
    BY <2>3, <1>6
  <2>5. QED
    BY <2>2, <2>3, <2>4
<1>9. \A k \in 1 .. l + 1 : LastFlags(lens)[k] = (k = l + 1)
  BY <1>4, <1>7
<1>10. \A i \in 1 .. BeatsIn(Tail(lens)) : LastFlags(lens)[l + 1 + i] = LastFlags(Tail(lens))[i]
  BY <1>3, <1>4, <1>8
<1>11. BeatsIn(lens) = l + 1 + BeatsIn(Tail(lens)) /\ BeatsIn(Tail(lens)) \in Nat
  BY <1>4, <1>5, <1>6
<1>12. QED
  BY <1>2, <1>9, <1>10, <1>11

\* The beats of the last length, counted from the end.
LEMMA FlagsLast ==
    ASSUME NEW lens \in Seq(Nat), lens # <<>>, NEW u \in 0 .. lens[Len(lens)]
    PROVE  BeatsIn(lens) - u >= 1 /\ LastFlags(lens)[BeatsIn(lens) - u] = (u = 0)
<1>1. PICK us \in Seq(Nat), l \in Nat : lens = Append(us, l)
  BY SequenceEmptyOrAppend
<1>2. lens[Len(lens)] = l
  BY <1>1, AppendProperties
<1>3. /\ BeatsIn(us) \in Nat /\ BeatsIn(lens) = BeatsIn(us) + l + 1
      /\ \A k \in 1 .. l + 1 : LastFlags(lens)[BeatsIn(us) + k] = (k = l + 1)
  <2>1. /\ BeatsIn(us) \in Nat /\ BeatsIn(Append(us, l)) = BeatsIn(us) + l + 1
        /\ \A k \in 1 .. l + 1 : LastFlags(Append(us, l))[BeatsIn(us) + k] = (k = l + 1)
    BY FlagsAppend
  <2>2. QED
    BY <1>1, <2>1
<1>4. l + 1 - u \in 1 .. l + 1 /\ (l + 1 - u = l + 1) = (u = 0)
      /\ BeatsIn(us) + (l + 1 - u) = BeatsIn(lens) - u
  BY <1>2, <1>3
<1>5. LastFlags(lens)[BeatsIn(us) + (l + 1 - u)] = (l + 1 - u = l + 1)
  BY <1>3, <1>4
<1>6. QED
  BY <1>3, <1>4, <1>5
-----------------------------------------------------------------------------
(* The two sides of a channel.                                              *)

LEMMA BurstFields ==
    ASSUME NEW b \in AllBursts
    PROVE  /\ b.addr \in Nat /\ b.size \in Nat \ {0} /\ b.len \in Nat
           /\ b.type \in {"incr", "wrap"}
BY DebursterAssumption DEF DebursterAssumption, AllBursts

\* What a beat of the request side does to the bursts, its count and the
\* lengths; addr is the address of the access.
Requested(b, bursts, beat, last, lens, addr, bursts2, beat2, lens2) ==
    /\ bursts # <<>> /\ b = Head(bursts)
    /\ addr = IF beat = 0 THEN b.addr ELSE fv_addr_for_beat(last, b)
    /\ lens2 = IF beat = 0 THEN Append(lens, b.len) ELSE lens
    /\ IF beat < b.len THEN beat2 = beat + 1 /\ bursts2 = bursts
                       ELSE beat2 = 0 /\ bursts2 = Tail(bursts)

\* What a response does to the lengths and the count.
Answered(lens, beat, lens2, beat2) ==
    /\ lens # <<>>
    /\ IF beat < Head(lens) THEN beat2 = beat + 1 /\ lens2 = lens
                            ELSE beat2 = 0 /\ lens2 = Tail(lens)

\* The addresses of a burst are the recursion of its definition.
AddressesFrom(b) ==
    /\ Addresses(b)[0] = b.addr
    /\ \A k \in 1 .. b.len : Addresses(b)[k] = fv_addr_for_beat(Addresses(b)[k - 1], b)

\* A beat of the request side keeps the sides in step.
LEMMA SidesRequest ==
    ASSUME NEW b \in AllBursts, NEW bursts \in Seq(AllBursts), NEW beat, NEW last,
           NEW lens \in Seq(Nat), NEW answered, NEW n \in Nat,
           NEW addr, NEW bursts2, NEW beat2, NEW lens2,
           Requested(b, bursts, beat, last, lens, addr, bursts2, beat2, lens2),
           Sides(bursts, beat, last, lens, answered, n),
           AddressesFrom(b)
    PROVE  /\ Sides(bursts2, beat2, addr, lens2, answered, n + 1)
           /\ bursts2 \in Seq(AllBursts) /\ lens2 \in Seq(Nat)
           /\ beat \in 0 .. b.len /\ addr = Addresses(b)[beat]
<1>1. PICK l \in Nat : l = b.len
  BY BurstFields
<1>2. /\ bursts # <<>> /\ b = Head(bursts) /\ beat \in Nat /\ answered \in Nat
      /\ beat # 0 => /\ beat <= l /\ last = Addresses(b)[beat - 1]
                     /\ lens # <<>> /\ lens[Len(lens)] = l
      /\ BeatsIn(lens) = answered + n + Unsent(bursts, beat)
  BY <1>1 DEF Requested, Sides, RequestSide, ResponseSide
<1>3. beat \in 0 .. b.len /\ addr = Addresses(b)[beat]
  <2>1. CASE beat = 0
    BY <1>1, <1>2, <2>1 DEF Requested, AddressesFrom
  <2>2. CASE beat # 0
    <3>1. beat \in 1 .. b.len /\ beat \in 0 .. b.len
      BY <1>1, <1>2, <2>2
    <3>2. addr = fv_addr_for_beat(last, b) /\ last = Addresses(b)[beat - 1]
      BY <1>2, <2>2 DEF Requested
    <3>3. Addresses(b)[beat] = fv_addr_for_beat(Addresses(b)[beat - 1], b)
      BY <3>1 DEF AddressesFrom
    <3>4. QED
      BY <3>1, <3>2, <3>3
  <2>3. QED
    BY <2>1, <2>2
<1>4. bursts2 \in Seq(AllBursts)
  BY <1>2, HeadTailProperties DEF Requested
<1>5. /\ lens2 \in Seq(Nat) /\ lens2 # <<>> /\ lens2[Len(lens2)] = l
      /\ lens # <<>> => Head(lens2) = Head(lens)
      /\ lens = <<>> => beat = 0 /\ Head(lens2) = l
      /\ BeatsIn(lens) \in Nat
      /\ BeatsIn(lens2) = IF beat = 0 THEN BeatsIn(lens) + l + 1 ELSE BeatsIn(lens)
  <2>1. CASE beat = 0
    <3>1. lens2 = Append(lens, l)
      BY <1>1, <2>1 DEF Requested
    <3>2. lens2 \in Seq(Nat) /\ lens2 # <<>> /\ lens2[Len(lens2)] = l
      BY <3>1, AppendProperties
    <3>3. (lens # <<>> => Head(lens2) = Head(lens)) /\ (lens = <<>> => Head(lens2) = l)
      BY <3>1, HeadTailAppend
    <3>4. BeatsIn(lens) \in Nat /\ BeatsIn(lens2) = BeatsIn(lens) + l + 1
      BY <3>1, FlagsAppend
    <3>5. QED
      BY <2>1, <3>2, <3>3, <3>4
  <2>2. CASE beat # 0
    <3>1. lens2 = lens /\ lens # <<>> /\ lens[Len(lens)] = l
      BY <1>2, <2>2 DEF Requested
    <3>2. BeatsIn(lens) \in Nat
      BY FlagsAppend
    <3>3. QED
      BY <2>2, <3>1, <3>2
  <2>3. QED
    BY <2>1, <2>2
<1>6. RequestSide(bursts2, beat2, addr, lens2)
  <2>1. CASE beat < l
    <3>1. beat2 = beat + 1 /\ bursts2 = bursts
      BY <1>1, <2>1 DEF Requested
    <3>2. beat2 \in Nat /\ beat2 <= l /\ beat2 - 1 = beat
      BY <1>2, <2>1, <3>1
    <3>3. QED
      BY <1>1, <1>2, <1>3, <1>5, <3>1, <3>2 DEF RequestSide
  <2>2. CASE ~(beat < l)
    BY <1>1, <2>2 DEF Requested, RequestSide
  <2>3. QED
    BY <2>1, <2>2
<1>7. ResponseSide(lens2, answered)
  <2>1. lens = <<>> => answered = 0
    BY DEF Sides, ResponseSide
  <2>2. lens # <<>> => answered <= Head(lens)
    BY DEF Sides, ResponseSide
  <2>3. QED
    BY <1>2, <1>5, <2>1, <2>2 DEF ResponseSide
<1>8. BeatsIn(lens2) = answered + (n + 1) + Unsent(bursts2, beat2)
  <2>1. Unsent(bursts, beat) = IF beat = 0 THEN 0 ELSE l + 1 - beat
    BY <1>1, <1>2 DEF Unsent
  <2>2. CASE beat < l
    <3>1. beat2 = beat + 1 /\ bursts2 = bursts
      BY <1>1, <2>2 DEF Requested
    <3>2. Unsent(bursts2, beat2) = l + 1 - (beat + 1)
      BY <1>1, <1>2, <3>1 DEF Unsent
    <3>3. QED
      BY <1>2, <1>5, <2>1, <3>2
  <2>3. CASE ~(beat < l)
    <3>1. beat2 = 0 /\ beat = l
      <4>1. beat <= l
        BY <1>1, <1>2
      <4>2. QED
        BY <1>1, <1>2, <2>3, <4>1 DEF Requested
    <3>2. Unsent(bursts2, beat2) = 0
      BY <3>1 DEF Unsent
    <3>3. QED
      BY <1>2, <1>5, <2>1, <3>1, <3>2
  <2>4. QED
    BY <2>2, <2>3
<1>9. QED
  BY <1>3, <1>4, <1>5, <1>6, <1>7, <1>8 DEF Sides

\* So does a response.
LEMMA SidesResponse ==
    ASSUME NEW bursts \in Seq(AllBursts), NEW beat, NEW last,
           NEW lens \in Seq(Nat), NEW answered, NEW n \in Nat \ {0},
           NEW lens2, NEW answered2,
           Answered(lens, answered, lens2, answered2),
           Sides(bursts, beat, last, lens, answered, n)
    PROVE  Sides(bursts, beat, last, lens2, answered2, n - 1) /\ lens2 \in Seq(Nat)
<1>1. PICK l \in Nat : l = Head(lens)
  BY HeadTailProperties DEF Answered
<1>2. /\ lens # <<>> /\ answered \in Nat /\ answered <= l
      /\ RequestSide(bursts, beat, last, lens)
      /\ BeatsIn(lens) = answered + n + Unsent(bursts, beat)
  BY <1>1 DEF Answered, Sides, ResponseSide
<1>3. Unsent(bursts, beat) \in Nat /\ (beat # 0 => Unsent(bursts, beat) # 0)
  <2>1. CASE beat = 0
    BY <2>1 DEF Unsent
  <2>2. CASE beat # 0
    <3>1. bursts # <<>> /\ beat \in Nat /\ beat <= Head(bursts).len
      BY <1>2, <2>2 DEF RequestSide
    <3>2. Head(bursts).len \in Nat
      BY <3>1, HeadTailProperties, BurstFields
    <3>3. QED
      BY <2>2, <3>1, <3>2 DEF Unsent
  <2>3. QED
    BY <2>1, <2>2
<1>4. CASE answered < l
  <2>1. answered2 = answered + 1 /\ lens2 = lens
    BY <1>1, <1>4 DEF Answered
  <2>2. ResponseSide(lens2, answered2)
    BY <1>1, <1>2, <1>4, <2>1 DEF ResponseSide
  <2>3. BeatsIn(lens) = answered + 1 + (n - 1) + Unsent(bursts, beat)
    BY <1>2, <1>3
  <2>4. QED
    BY <1>2, <2>1, <2>2, <2>3 DEF Sides
<1>5. CASE ~(answered < l)
  <2>1. answered2 = 0 /\ lens2 = Tail(lens) /\ answered = l
    BY <1>1, <1>2, <1>5 DEF Answered
  <2>2. lens2 \in Seq(Nat) /\ BeatsIn(lens2) \in Nat /\ BeatsIn(lens) = l + 1 + BeatsIn(lens2)
    BY <1>1, <1>2, <2>1, FlagsHead
  <2>3. BeatsIn(lens2) = 0 + (n - 1) + Unsent(bursts, beat)
    <3>1. PICK u \in Nat, m \in Nat : u = Unsent(bursts, beat) /\ m = BeatsIn(lens2)
      BY <1>3, <2>2
    <3>2. l + 1 + m = l + n + u
      BY <1>2, <2>1, <2>2, <3>1
    <3>3. m = 0 + (n - 1) + u
      BY <3>2
    <3>4. QED
      BY <3>1, <3>3
  <2>4. ResponseSide(lens2, answered2)
    <3>1. lens2 # <<>> => Head(lens2) \in Nat
      BY <2>2, HeadTailProperties
    <3>2. QED
      BY <2>1, <3>1 DEF ResponseSide
  <2>5. RequestSide(bursts, beat, last, lens2)
    <3>1. ASSUME beat # 0 PROVE lens2 # <<>> /\ lens2[Len(lens2)] = lens[Len(lens)]
      <4>1. BeatsIn(lens2) # 0
        BY <1>3, <2>3, <3>1
      <4>2. lens2 # <<>>
        BY <4>1, Flags, EmptySeq DEF BeatsIn
      <4>3. /\ Len(lens2) \in Nat /\ Len(lens2) # 0 /\ Len(lens2) = Len(lens) - 1
            /\ \A i \in 1 .. Len(lens2) : lens2[i] = lens[i + 1]
        BY <1>2, <2>1, <2>2, <4>2, HeadTailProperties, EmptySeq, LenProperties
      <4>4. Len(lens2) \in 1 .. Len(lens2) /\ Len(lens2) + 1 = Len(lens)
        BY <4>3, LenProperties
      <4>5. QED
        BY <4>2, <4>3, <4>4
    <3>2. QED
      BY <1>2, <3>1 DEF RequestSide
  <2>6. QED
    BY <2>1, <2>2, <2>3, <2>4, <2>5 DEF Sides
<1>6. QED
  BY <1>4, <1>5

\* A burst more waits behind the others.
LEMMA SidesAsk ==
    ASSUME NEW bursts \in Seq(AllBursts), NEW b \in AllBursts, NEW beat, NEW last,
           NEW lens, NEW answered, NEW n,
           Sides(bursts, beat, last, lens, answered, n)
    PROVE  Sides(Append(bursts, b), beat, last, lens, answered, n)
<1>1. bursts # <<>> => Head(Append(bursts, b)) = Head(bursts)
  BY HeadTailAppend
<1>2. Append(bursts, b) # <<>>
  BY AppendProperties
<1>3. beat # 0 => bursts # <<>>
  BY DEF Sides, RequestSide
<1>4. RequestSide(Append(bursts, b), beat, last, lens)
  BY <1>1, <1>2, <1>3 DEF Sides, RequestSide
<1>5. Unsent(Append(bursts, b), beat) = Unsent(bursts, beat)
  BY <1>1, <1>3 DEF Unsent
<1>6. QED
  BY <1>4, <1>5 DEF Sides

LEMMA SidesEmpty == \A last : Sides(<<>>, 0, last, <<>>, 0, 0)
<1>1. BeatsIn(<<>>) = 0
  BY Flags, EmptySeq DEF BeatsIn
<1>2. QED
  BY <1>1 DEF Sides, RequestSide, ResponseSide, Unsent
-----------------------------------------------------------------------------
(* The addresses of a burst.                                                *)

\* Adding before or after taking the remainder is the same.
LEMMA RemainderOfSum ==
    ASSUME NEW n \in Nat \ {0}, NEW q \in Nat, NEW x \in Nat, NEW y \in Nat
    PROVE  (q * n + (x % n) + y) % n = (x + y) % n
<1>1. PICK p \in Nat, s \in 0 .. n - 1 : x = p * n + s /\ s = x % n
  BY Division
<1>2. PICK p2 \in Nat, s2 \in 0 .. n - 1 : s + y = p2 * n + s2
  <2>1. s + y \in Nat
    OBVIOUS
  <2>2. QED
    BY <2>1, Division
<1>3. ((q + p2) * n + s2) % n = s2 /\ ((p + p2) * n + s2) % n = s2
  <2>1. q + p2 \in Nat /\ p + p2 \in Nat
    OBVIOUS
  <2>2. QED
    BY <2>1, Remainder
<1>4. (q + p2) * n + s2 = q * n + (x % n) + y
  <2>1. (q + p2) * n = q * n + p2 * n
    OBVIOUS
  <2>2. QED
    BY <1>1, <1>2, <2>1
<1>5. (p + p2) * n + s2 = x + y
  <2>1. (p + p2) * n = p * n + p2 * n
    OBVIOUS
  <2>2. QED
    BY <1>1, <1>2, <2>1
<1>6. QED
  BY <1>3, <1>4, <1>5

\* The bytes of a burst.
LEMMA Total ==
    ASSUME NEW b \in AllBursts
    PROVE  (b.len + 1) * b.size \in Nat \ {0}
<1>1. PICK l \in Nat, z \in Nat \ {0} : l = b.len /\ z = b.size
  BY BurstFields
<1>2. (l + 1) * z = l * z + z
  OBVIOUS
<1>3. l * z \in Nat
  OBVIOUS
<1>4. QED
  BY <1>1, <1>2, <1>3

LEMMA NextAddress ==
    ASSUME NEW b \in AllBursts, NEW start \in Nat
    PROVE  fv_addr_for_beat(start, b) \in Nat
<1>1. PICK n \in Nat \ {0} : n = (b.len + 1) * b.size
  BY Total
<1>2. PICK addr \in Nat : addr = start + b.size
  BY BurstFields
<1>3. addr % n \in Nat /\ start - (start % n) \in Nat
  BY Division
<1>4. fv_addr_for_beat(start, b) =
          IF b.type = "wrap" THEN (start - (start % n)) + (addr % n) ELSE addr
  BY <1>1, <1>2 DEF fv_addr_for_beat
<1>5. QED
  BY <1>2, <1>3, <1>4

LEMMA AddressesDef ==
    ASSUME NEW b \in AllBursts
    PROVE  AddressesFrom(b)
<1>1. PICK l \in Nat : l = b.len /\ b.addr \in Nat
  BY BurstFields
<1> DEFINE step == [p \in (1 .. l) \X Nat |-> fv_addr_for_beat(p[2], b)]
           Def(a) == [k \in 0 .. b.len |-> IF k = 0 THEN b.addr ELSE fv_addr_for_beat(a[k - 1], b)]
<1>2. step \in [(1 .. l) \X Nat -> Nat]
  BY NextAddress
<1>3. PICK f \in [0 .. l -> Nat] : Follows(f, l, b.addr, step)
  <2> HIDE DEF step
  <2>1. QED
    BY <1>1, <1>2, RecursiveFunction
<1>4. f = Def(f)
  <2>1. ASSUME NEW k \in 1 .. l PROVE f[k] = fv_addr_for_beat(f[k - 1], b)
    <3>1. k - 1 \in 0 .. l /\ f[k - 1] \in Nat
      BY <1>1
    <3>2. <<k, f[k - 1]>> \in (1 .. l) \X Nat
      BY <3>1
    <3>3. f[k] = step[<<k, f[k - 1]>>]
      BY <1>3 DEF Follows
    <3>4. QED
      BY <3>2, <3>3
  <2>2. \A k \in 0 .. l : k # 0 => k \in 1 .. l
    BY <1>1
  <2>3. f[0] = b.addr
    BY <1>3 DEF Follows
  <2>4. \A k \in 0 .. l : f[k] = IF k = 0 THEN b.addr ELSE fv_addr_for_beat(f[k - 1], b)
    BY <2>1, <2>2, <2>3
  <2>5. f = [k \in 0 .. l |-> f[k]]
    BY <1>3
  <2>6. QED
    BY <1>1, <2>4, <2>5
<1>5. Addresses(b) = CHOOSE a : a = Def(a)
  BY DEF Addresses
<1>6. Addresses(b) = Def(Addresses(b))
  <2> HIDE DEF Def
  <2>1. QED
    BY <1>4, <1>5
<1>7. \A k \in 0 .. l : Addresses(b)[k] =
          IF k = 0 THEN b.addr ELSE fv_addr_for_beat(Addresses(b)[k - 1], b)
  <2> DEFINE a == Addresses(b)
  <2>1. a = Def(a)
    BY <1>6
  <2> HIDE DEF a
  <2>2. \A k \in 0 .. l : a[k] = IF k = 0 THEN b.addr ELSE fv_addr_for_beat(a[k - 1], b)
    BY <1>1, <2>1
  <2>3. QED
    BY <2>2 DEF a
<1>8. 0 \in 0 .. l /\ \A k \in 1 .. l : k \in 0 .. l /\ k # 0
  BY <1>1
<1>9. QED
  BY <1>1, <1>7, <1>8 DEF AddressesFrom

\* The addresses of the beats are those AXI4 names.
LEMMA BeatAddresses ==
    ASSUME NEW b \in AllBursts, NEW k \in 0 .. b.len
    PROVE  Addresses(b)[k] = B!BeatAddr(b, k)
<1>1. PICK l \in Nat, z \in Nat \ {0}, addr \in Nat : l = b.len /\ z = b.size /\ addr = b.addr
  BY BurstFields
<1>2. PICK n \in Nat \ {0} : n = (b.len + 1) * b.size
  BY Total
<1>3. PICK q \in Nat, r \in 0 .. n - 1 : addr = q * n + r /\ r = addr % n
  BY Division
<1>4. q * n \in Nat /\ addr - (addr % n) = q * n
  BY <1>3
<1>5. ASSUME NEW i \in Nat
      PROVE  B!BeatAddr(b, i) = IF b.type = "wrap" THEN q * n + ((r + i * z) % n)
                                                   ELSE addr + i * z
  <2>1. b.addr - (b.addr % n) = q * n
    BY <1>1, <1>4
  <2>2. b.addr - (b.addr - (b.addr % n)) + i * b.size = r + i * z
    BY <1>1, <1>3, <1>4
  <2>3. CASE b.type = "wrap"
    BY <1>2, <2>1, <2>2, <2>3 DEF B!BeatAddr
  <2>4. CASE b.type # "wrap"
    <3>1. b.type = "incr"
      BY <2>4, BurstFields
    <3>2. QED
      BY <1>1, <3>1 DEF B!BeatAddr
  <2>5. QED
    BY <2>3, <2>4
<1>6. ASSUME NEW start \in Nat
      PROVE  fv_addr_for_beat(start, b) = IF b.type = "wrap"
                 THEN (start - (start % n)) + ((start + z) % n) ELSE start + z
  BY <1>1, <1>2 DEF fv_addr_for_beat
<1> DEFINE S == {i \in 0 .. l : Addresses(b)[i] = B!BeatAddr(b, i)}
<1>7. 0 \in S
  <2>1. Addresses(b)[0] = addr
    BY <1>1, AddressesDef DEF AddressesFrom
  <2>2. r % n = r
    BY Remainder
  <2>3. 0 * z = 0 /\ r + 0 = r
    OBVIOUS
  <2>4. B!BeatAddr(b, 0) = addr
    BY <1>3, <1>5, <2>2, <2>3
  <2>5. QED
    BY <2>1, <2>4
<1>8. ASSUME NEW i \in 1 .. l, i - 1 \in S PROVE i \in S
  <2>1. i - 1 \in Nat /\ i * z = (i - 1) * z + z /\ (i - 1) * z \in Nat
    OBVIOUS
  <2>2. Addresses(b)[i] = fv_addr_for_beat(B!BeatAddr(b, i - 1), b)
    BY <1>1, <1>8, AddressesDef DEF AddressesFrom
  <2>3. CASE b.type = "wrap"
    <3>1. PICK x \in Nat : x = r + (i - 1) * z
      BY <2>1
    <3>2. PICK s \in 0 .. n - 1 : s = x % n
      BY Division
    <3>3. PICK start \in Nat : start = q * n + s /\ start = B!BeatAddr(b, i - 1)
      BY <1>4, <1>5, <2>1, <2>3, <3>1, <3>2
    <3>4. start % n = s
      <4>1. (q * n + s) % n = s
        BY Remainder
      <4>2. QED
        BY <3>3, <4>1
    <3>5. fv_addr_for_beat(start, b) = q * n + ((start + z) % n)
      BY <1>4, <1>6, <2>3, <3>3, <3>4
    <3>6. (start + z) % n = (x + z) % n
      <4>1. start + z = q * n + (x % n) + z
        BY <3>2, <3>3
      <4>2. \A y \in Nat : (q * n + (x % n) + y) % n = (x + y) % n
        BY RemainderOfSum
      <4>3. (q * n + (x % n) + z) % n = (x + z) % n
        BY <4>2
      <4>4. QED
        BY <4>1, <4>3
    <3>7. x + z = r + i * z
      BY <2>1, <3>1
    <3>8. i \in Nat
      OBVIOUS
    <3>9. B!BeatAddr(b, i) = q * n + ((r + i * z) % n)
      BY <1>5, <2>3, <3>8
    <3>10. Addresses(b)[i] = B!BeatAddr(b, i)
      BY <2>2, <3>3, <3>5, <3>6, <3>7, <3>9
    <3>11. QED
      BY <3>10
  <2>4. CASE b.type # "wrap"
    <3>1. B!BeatAddr(b, i - 1) = addr + (i - 1) * z
      BY <1>5, <2>1, <2>4
    <3>2. addr + (i - 1) * z \in Nat
      BY <2>1
    <3>3. fv_addr_for_beat(addr + (i - 1) * z, b) = addr + (i - 1) * z + z
      BY <1>6, <2>4, <3>2
    <3>4. B!BeatAddr(b, i) = addr + i * z
      BY <1>5, <2>4
    <3>5. QED
      BY <2>1, <2>2, <3>1, <3>2, <3>3, <3>4
  <2>5. QED
    BY <2>3, <2>4
<1>9. 0 .. l \subseteq S
  <2> HIDE DEF S
  <2>1. QED
    BY <1>7, <1>8, IntervalInduction
<1>10. QED
  BY <1>1, <1>9
-----------------------------------------------------------------------------
(* The invariant.                                                           *)

JoinState == [awlen : Seq(Nat), beat : Nat, resp : Resp, out : Seq(Resp)]
MarkState == [arlen : Seq(Nat), beat : Nat, out : Seq([data : Data, last : BOOLEAN])]

LEMMA JoinStep ==
    ASSUME NEW st \in JoinState, st.awlen # <<>>, NEW r \in Resp
    PROVE  /\ JoinResp(st, r) \in JoinState
           /\ Answered(st.awlen, st.beat, JoinResp(st, r).awlen, JoinResp(st, r).beat)
<1>1. st.awlen \in Seq(Nat) /\ st.beat \in Nat /\ st.resp \in Resp /\ st.out \in Seq(Resp)
  BY DEF JoinState
<1>2. CASE st.beat < Head(st.awlen)
  <2>1. JoinResp(st, r) = [st EXCEPT !.beat = @ + 1, !.resp = IF @ = "OKAY" THEN r ELSE @]
    BY <1>2 DEF JoinResp
  <2>2. JoinResp(st, r) = [awlen |-> st.awlen, beat |-> st.beat + 1,
                           resp |-> IF st.resp = "OKAY" THEN r ELSE st.resp, out |-> st.out]
    BY <2>1 DEF JoinState
  <2>3. QED
    BY <1>1, <1>2, <2>2 DEF JoinState, Answered
<1>3. CASE ~(st.beat < Head(st.awlen))
  <2>1. JoinResp(st, r) = [awlen |-> Tail(st.awlen), beat |-> 0, resp |-> "OKAY",
                           out |-> Append(st.out, IF st.resp = "OKAY" THEN r ELSE st.resp)]
    BY <1>3 DEF JoinResp
  <2>2. Tail(st.awlen) \in Seq(Nat)
    BY <1>1, HeadTailProperties
  <2>3. Append(st.out, IF st.resp = "OKAY" THEN r ELSE st.resp) \in Seq(Resp)
    BY <1>1, AppendProperties
  <2>4. QED
    BY <1>1, <1>3, <2>1, <2>2, <2>3 DEF JoinState, Answered, Resp
<1>4. QED
  BY <1>2, <1>3

LEMMA MarkStep ==
    ASSUME NEW st \in MarkState, st.arlen # <<>>, NEW d \in Data
    PROVE  /\ MarkLast(st, d) \in MarkState
           /\ Answered(st.arlen, st.beat, MarkLast(st, d).arlen, MarkLast(st, d).beat)
           /\ st.beat < Head(st.arlen) =>
                 MarkLast(st, d).out = Append(st.out, [data |-> d, last |-> FALSE])
           /\ ~(st.beat < Head(st.arlen)) =>
                 MarkLast(st, d).out = Append(st.out, [data |-> d, last |-> TRUE])
<1>1. st.arlen \in Seq(Nat) /\ st.beat \in Nat /\ st.out \in Seq([data : Data, last : BOOLEAN])
  BY DEF MarkState
<1>2. CASE st.beat < Head(st.arlen)
  <2>1. MarkLast(st, d) = [st EXCEPT !.beat = @ + 1,
                                     !.out = Append(@, [data |-> d, last |-> FALSE])]
    BY <1>2 DEF MarkLast
  <2>2. MarkLast(st, d) = [arlen |-> st.arlen, beat |-> st.beat + 1,
                           out |-> Append(st.out, [data |-> d, last |-> FALSE])]
    BY <2>1 DEF MarkState
  <2>3. Append(st.out, [data |-> d, last |-> FALSE]) \in Seq([data : Data, last : BOOLEAN])
    BY <1>1, AppendProperties
  <2>4. MarkLast(st, d) \in MarkState
    BY <1>1, <2>2, <2>3 DEF MarkState
  <2>5. Answered(st.arlen, st.beat, MarkLast(st, d).arlen, MarkLast(st, d).beat)
    BY <1>2, <2>2 DEF Answered
  <2>6. MarkLast(st, d).out = Append(st.out, [data |-> d, last |-> FALSE])
    BY <2>2
  <2>7. QED
    BY <1>2, <2>4, <2>5, <2>6
<1>3. CASE ~(st.beat < Head(st.arlen))
  <2>1. MarkLast(st, d) = [arlen |-> Tail(st.arlen), beat |-> 0,
                           out |-> Append(st.out, [data |-> d, last |-> TRUE])]
    BY <1>3 DEF MarkLast
  <2>2. Tail(st.arlen) \in Seq(Nat)
    BY <1>1, HeadTailProperties
  <2>3. Append(st.out, [data |-> d, last |-> TRUE]) \in Seq([data : Data, last : BOOLEAN])
    BY <1>1, AppendProperties
  <2>4. MarkLast(st, d) \in MarkState
    BY <1>1, <2>1, <2>2, <2>3 DEF MarkState
  <2>5. Answered(st.arlen, st.beat, MarkLast(st, d).arlen, MarkLast(st, d).beat)
    BY <1>3, <2>1 DEF Answered
  <2>6. MarkLast(st, d).out = Append(st.out, [data |-> d, last |-> TRUE])
    BY <2>1
  <2>7. QED
    BY <1>3, <2>4, <2>5, <2>6
<1>4. QED
  BY <1>2, <1>3

LEMMA States ==
    IInv => /\ Joining \in JoinState /\ Marking \in MarkState
            /\ Joining.awlen = f_w_awlen /\ Joining.beat = rg_b_beat_count
            /\ Joining.resp = rg_b_resp /\ Joining.out = wr_resp
            /\ Marking.arlen = f_r_arlen /\ Marking.beat = rg_r_beat_count
            /\ Marking.out = rd_data
<1> SUFFICES ASSUME IInv
    PROVE  Joining \in JoinState /\ Marking \in MarkState
  BY DEF Joining, Marking
<1>1. rg_b_beat_count \in Nat /\ rg_r_beat_count \in Nat
  BY DEF IInv, WrSides, RdSides, Sides, ResponseSide
<1>2. QED
  BY <1>1 DEF IInv, TypeOK, Joining, Marking, JoinState, MarkState

LEMMA Lengths ==
    TypeOK => /\ Len(s_wr_resp) \in Nat /\ Len(s_wr_addr) \in Nat
              /\ Len(s_rd_data) \in Nat /\ Len(s_rd_addr) \in Nat
BY LenProperties DEF TypeOK

LEMMA InitInv == Init => IInv
<1> SUFFICES ASSUME Init PROVE IInv
  OBVIOUS
<1>1. TypeOK
  <2>1. "OKAY" \in Resp
    BY DEF Resp
  <2>2. QED
    BY <2>1 DEF Init, TypeOK
<1>2. Len(s_wr_resp) + Len(s_wr_addr) = 0 /\ Len(s_rd_data) + Len(s_rd_addr) = 0
  BY DEF Init
<1>3. WrSides /\ RdSides
  BY <1>2, SidesEmpty DEF Init, WrSides, RdSides
<1>4. Paired /\ AtReset
  BY DEF Init, Paired, AtReset
<1>5. QED
  BY <1>1, <1>3, <1>4 DEF IInv

LEMMA ResetInv == IInv /\ rl_reset => IInv'
<1> SUFFICES ASSUME IInv, rl_reset PROVE IInv'
  OBVIOUS
<1>1. TypeOK'
  <2>1. "OKAY" \in Resp
    BY DEF Resp
  <2>2. rg_reset' \in BOOLEAN /\ mem' \in [Addrs -> Data]
    BY DEF rl_reset, IInv, TypeOK
  <2>3. QED
    BY <2>1, <2>2 DEF rl_reset, TypeOK
<1>2. (Len(s_wr_resp) + Len(s_wr_addr))' = 0 /\ (Len(s_rd_data) + Len(s_rd_addr))' = 0
  BY DEF rl_reset
<1>3. WrSides' /\ RdSides'
  BY <1>2, SidesEmpty DEF rl_reset, WrSides, RdSides
<1>4. Paired' /\ AtReset'
  BY DEF rl_reset, Paired, AtReset
<1>5. QED
  BY <1>1, <1>3, <1>4 DEF IInv

LEMMA WrRequestInv == IInv /\ rl_wr_xaction_master_to_slave => IInv'
<1> SUFFICES ASSUME IInv, rl_wr_xaction_master_to_slave PROVE IInv'
  OBVIOUS
<1>1. /\ wr_addr \in Seq(AllBursts) /\ wr_addr # <<>> /\ wr_data \in Seq(Data) /\ wr_data # <<>>
      /\ f_w_awlen \in Seq(Nat) /\ s_wr_addr \in Seq(Addrs) /\ s_wr_data \in Seq(Data)
      /\ Len(s_wr_resp) \in Nat /\ Len(s_wr_addr) \in Nat
  BY Lengths DEF rl_wr_xaction_master_to_slave, IInv, TypeOK
<1>2. PICK b \in AllBursts : b = Head(wr_addr)
  BY <1>1, HeadTailProperties
<1>3. Requested(b, wr_addr, rg_w_beat_count, rg_last_beat_waddr, f_w_awlen,
                rg_last_beat_waddr', wr_addr', rg_w_beat_count', f_w_awlen')
  BY <1>1, <1>2 DEF rl_wr_xaction_master_to_slave, Requested
<1>4. PICK n \in Nat : n = Len(s_wr_resp) + Len(s_wr_addr)
  BY <1>1
<1>5. /\ Sides(wr_addr', rg_w_beat_count', rg_last_beat_waddr', f_w_awlen', rg_b_beat_count, n + 1)
      /\ wr_addr' \in Seq(AllBursts) /\ f_w_awlen' \in Seq(Nat)
      /\ rg_w_beat_count \in 0 .. b.len /\ rg_last_beat_waddr' = Addresses(b)[rg_w_beat_count]
  <2>1. Sides(wr_addr, rg_w_beat_count, rg_last_beat_waddr, f_w_awlen, rg_b_beat_count, n)
    BY <1>4 DEF IInv, WrSides
  <2>2. AddressesFrom(b)
    BY AddressesDef
  <2>3. QED
    BY <1>1, <1>3, <2>1, <2>2, SidesRequest
<1>6. rg_last_beat_waddr' \in Addrs
  BY <1>5 DEF Addrs, AllBursts
<1>7. PICK d \in Data : d = Head(wr_data)
  BY <1>1, HeadTailProperties
<1>8. s_wr_addr' = Append(s_wr_addr, rg_last_beat_waddr') /\ s_wr_data' = Append(s_wr_data, d)
      /\ wr_data' = Tail(wr_data)
  BY <1>7 DEF rl_wr_xaction_master_to_slave
<1>9. /\ s_wr_addr' \in Seq(Addrs) /\ Len(s_wr_addr') = Len(s_wr_addr) + 1
      /\ s_wr_data' \in Seq(Data) /\ Len(s_wr_data') = Len(s_wr_data) + 1
      /\ wr_data' \in Seq(Data)
  BY <1>1, <1>6, <1>8, AppendProperties, HeadTailProperties
<1>10. UNCHANGED <<rg_reset, wr_resp, rg_b_beat_count, rg_b_resp, s_wr_resp, rdVars, mem>>
  BY DEF rl_wr_xaction_master_to_slave
<1>11. TypeOK'
  BY <1>5, <1>9, <1>10 DEF IInv, TypeOK, rdVars
<1>12. WrSides'
  <2>1. Len(s_wr_resp') + Len(s_wr_addr') = n + 1
    BY <1>1, <1>4, <1>9, <1>10
  <2>2. QED
    BY <1>5, <1>10, <2>1 DEF WrSides
<1>13. RdSides'
  BY <1>10 DEF IInv, RdSides, rdVars
<1>14. Paired' /\ AtReset'
  BY <1>1, <1>9, <1>10 DEF IInv, Paired, AtReset
<1>15. QED
  BY <1>11, <1>12, <1>13, <1>14 DEF IInv

LEMMA WrResponseInv == IInv /\ rl_wr_resp_slave_to_master => IInv'
<1> SUFFICES ASSUME IInv, rl_wr_resp_slave_to_master PROVE IInv'
  OBVIOUS
<1>1. /\ wr_addr \in Seq(AllBursts) /\ f_w_awlen \in Seq(Nat) /\ f_w_awlen # <<>>
      /\ s_wr_resp \in Seq(Resp) /\ s_wr_resp # <<>>
      /\ Len(s_wr_resp) \in Nat /\ Len(s_wr_addr) \in Nat
  BY Lengths DEF rl_wr_resp_slave_to_master, IInv, TypeOK
<1>2. PICK r \in Resp : r = Head(s_wr_resp)
  BY <1>1, HeadTailProperties
<1>3. PICK st \in JoinState :
          /\ st = JoinResp(Joining, r)
          /\ Answered(f_w_awlen, rg_b_beat_count, st.awlen, st.beat)
  BY <1>1, States, JoinStep
<1>4. /\ f_w_awlen' = st.awlen /\ rg_b_beat_count' = st.beat /\ rg_b_resp' = st.resp
      /\ wr_resp' = st.out /\ s_wr_resp' = Tail(s_wr_resp)
      /\ UNCHANGED <<rg_reset, wr_addr, wr_data, rg_w_beat_count, rg_last_beat_waddr,
                     s_wr_addr, s_wr_data, rdVars, mem>>
  BY <1>2, <1>3 DEF rl_wr_resp_slave_to_master
<1>5. s_wr_resp' \in Seq(Resp) /\ Len(s_wr_resp') = Len(s_wr_resp) - 1 /\ Len(s_wr_resp) # 0
  BY <1>1, <1>4, HeadTailProperties, EmptySeq
<1>6. PICK n \in Nat \ {0} : n = Len(s_wr_resp) + Len(s_wr_addr)
  BY <1>1, <1>5
<1>7. /\ Sides(wr_addr, rg_w_beat_count, rg_last_beat_waddr, st.awlen, st.beat, n - 1)
      /\ st.awlen \in Seq(Nat)
  <2>1. Sides(wr_addr, rg_w_beat_count, rg_last_beat_waddr, f_w_awlen, rg_b_beat_count, n)
    BY <1>6 DEF IInv, WrSides
  <2>2. QED
    BY <1>1, <1>3, <2>1, SidesResponse
<1>8. TypeOK'
  BY <1>4, <1>5, <1>7 DEF IInv, TypeOK, rdVars, JoinState
<1>9. WrSides'
  <2>1. Len(s_wr_resp') + Len(s_wr_addr') = n - 1
    BY <1>1, <1>4, <1>5, <1>6
  <2>2. QED
    BY <1>4, <1>7, <2>1 DEF WrSides
<1>10. RdSides'
  BY <1>4 DEF IInv, RdSides, rdVars
<1>11. Paired' /\ AtReset'
  BY <1>1, <1>4 DEF IInv, Paired, AtReset
<1>12. QED
  BY <1>8, <1>9, <1>10, <1>11 DEF IInv

LEMMA RdRequestInv == IInv /\ rl_rd_xaction_master_to_slave => IInv'
<1> SUFFICES ASSUME IInv, rl_rd_xaction_master_to_slave PROVE IInv'
  OBVIOUS
<1>1. /\ rd_addr \in Seq(AllBursts) /\ rd_addr # <<>>
      /\ f_r_arlen \in Seq(Nat) /\ s_rd_addr \in Seq(Addrs)
      /\ Len(s_rd_data) \in Nat /\ Len(s_rd_addr) \in Nat
  BY Lengths DEF rl_rd_xaction_master_to_slave, IInv, TypeOK
<1>2. PICK b \in AllBursts : b = Head(rd_addr)
  BY <1>1, HeadTailProperties
<1>3. Requested(b, rd_addr, rg_ar_beat_count, rg_last_beat_raddr, f_r_arlen,
                rg_last_beat_raddr', rd_addr', rg_ar_beat_count', f_r_arlen')
  BY <1>1, <1>2 DEF rl_rd_xaction_master_to_slave, Requested
<1>4. PICK n \in Nat : n = Len(s_rd_data) + Len(s_rd_addr)
  BY <1>1
<1>5. /\ Sides(rd_addr', rg_ar_beat_count', rg_last_beat_raddr', f_r_arlen', rg_r_beat_count, n + 1)
      /\ rd_addr' \in Seq(AllBursts) /\ f_r_arlen' \in Seq(Nat)
      /\ rg_ar_beat_count \in 0 .. b.len /\ rg_last_beat_raddr' = Addresses(b)[rg_ar_beat_count]
  <2>1. Sides(rd_addr, rg_ar_beat_count, rg_last_beat_raddr, f_r_arlen, rg_r_beat_count, n)
    BY <1>4 DEF IInv, RdSides
  <2>2. AddressesFrom(b)
    BY AddressesDef
  <2>3. QED
    BY <1>1, <1>3, <2>1, <2>2, SidesRequest
<1>6. rg_last_beat_raddr' \in Addrs
  BY <1>5 DEF Addrs, AllBursts
<1>7. s_rd_addr' = Append(s_rd_addr, rg_last_beat_raddr')
  BY DEF rl_rd_xaction_master_to_slave
<1>8. s_rd_addr' \in Seq(Addrs) /\ Len(s_rd_addr') = Len(s_rd_addr) + 1
  BY <1>1, <1>6, <1>7, AppendProperties
<1>9. UNCHANGED <<rg_reset, wrVars, rd_data, rg_r_beat_count, s_rd_data, mem>>
  BY DEF rl_rd_xaction_master_to_slave
<1>10. TypeOK'
  BY <1>5, <1>8, <1>9 DEF IInv, TypeOK, wrVars
<1>11. RdSides'
  <2>1. Len(s_rd_data') + Len(s_rd_addr') = n + 1
    BY <1>1, <1>4, <1>8, <1>9
  <2>2. QED
    BY <1>5, <1>9, <2>1 DEF RdSides
<1>12. WrSides'
  BY <1>9 DEF IInv, WrSides, wrVars
<1>13. Paired' /\ AtReset'
  BY <1>1, <1>9 DEF IInv, Paired, AtReset, wrVars
<1>14. QED
  BY <1>10, <1>11, <1>12, <1>13 DEF IInv

LEMMA RdResponseInv == IInv /\ rl_rd_resp_slave_to_master => IInv'
<1> SUFFICES ASSUME IInv, rl_rd_resp_slave_to_master PROVE IInv'
  OBVIOUS
<1>1. /\ rd_addr \in Seq(AllBursts) /\ f_r_arlen \in Seq(Nat) /\ f_r_arlen # <<>>
      /\ s_rd_data \in Seq(Data) /\ s_rd_data # <<>>
      /\ Len(s_rd_data) \in Nat /\ Len(s_rd_addr) \in Nat
  BY Lengths DEF rl_rd_resp_slave_to_master, IInv, TypeOK
<1>2. PICK d \in Data : d = Head(s_rd_data)
  BY <1>1, HeadTailProperties
<1>3. PICK st \in MarkState :
          /\ st = MarkLast(Marking, d)
          /\ Answered(f_r_arlen, rg_r_beat_count, st.arlen, st.beat)
  BY <1>1, States, MarkStep
<1>4. /\ f_r_arlen' = st.arlen /\ rg_r_beat_count' = st.beat /\ rd_data' = st.out
      /\ s_rd_data' = Tail(s_rd_data)
      /\ UNCHANGED <<rg_reset, wrVars, rd_addr, rg_ar_beat_count, rg_last_beat_raddr,
                     s_rd_addr, mem>>
  BY <1>2, <1>3 DEF rl_rd_resp_slave_to_master
<1>5. s_rd_data' \in Seq(Data) /\ Len(s_rd_data') = Len(s_rd_data) - 1 /\ Len(s_rd_data) # 0
  BY <1>1, <1>4, HeadTailProperties, EmptySeq
<1>6. PICK n \in Nat \ {0} : n = Len(s_rd_data) + Len(s_rd_addr)
  BY <1>1, <1>5
<1>7. /\ Sides(rd_addr, rg_ar_beat_count, rg_last_beat_raddr, st.arlen, st.beat, n - 1)
      /\ st.arlen \in Seq(Nat)
  <2>1. Sides(rd_addr, rg_ar_beat_count, rg_last_beat_raddr, f_r_arlen, rg_r_beat_count, n)
    BY <1>6 DEF IInv, RdSides
  <2>2. QED
    BY <1>1, <1>3, <2>1, SidesResponse
<1>8. TypeOK'
  BY <1>4, <1>5, <1>7 DEF IInv, TypeOK, wrVars, MarkState
<1>9. RdSides'
  <2>1. Len(s_rd_data') + Len(s_rd_addr') = n - 1
    BY <1>1, <1>4, <1>5, <1>6
  <2>2. QED
    BY <1>4, <1>7, <2>1 DEF RdSides
<1>10. WrSides'
  BY <1>4 DEF IInv, WrSides, wrVars
<1>11. Paired' /\ AtReset'
  BY <1>1, <1>4 DEF IInv, Paired, AtReset, wrVars
<1>12. QED
  BY <1>8, <1>9, <1>10, <1>11 DEF IInv

LEMMA MasterWriteInv == IInv /\ (\E b \in WrBursts : MasterWrite(b)) => IInv'
<1> SUFFICES ASSUME IInv, NEW b \in WrBursts, MasterWrite(b) PROVE IInv'
  OBVIOUS
<1>1. wr_addr \in Seq(AllBursts) /\ b \in AllBursts
  BY DEF IInv, TypeOK, AllBursts
<1>2. /\ wr_addr' = Append(wr_addr, b)
      /\ UNCHANGED <<rg_reset, wr_data, wr_resp, rg_w_beat_count, rg_last_beat_waddr, f_w_awlen,
                     rg_b_beat_count, rg_b_resp, s_wr_addr, s_wr_data, s_wr_resp, rdVars, mem>>
  BY DEF MasterWrite
<1>3. wr_addr' \in Seq(AllBursts)
  BY <1>1, <1>2, AppendProperties
<1>4. TypeOK'
  BY <1>2, <1>3 DEF IInv, TypeOK, rdVars
<1>5. WrSides'
  BY <1>1, <1>2, SidesAsk DEF IInv, WrSides
<1>6. RdSides' /\ Paired'
  BY <1>2 DEF IInv, RdSides, Paired, rdVars
<1>7. AtReset'
  BY <1>2 DEF MasterWrite, AtReset
<1>8. QED
  BY <1>4, <1>5, <1>6, <1>7 DEF IInv

LEMMA MasterReadInv == IInv /\ (\E b \in RdBursts : MasterRead(b)) => IInv'
<1> SUFFICES ASSUME IInv, NEW b \in RdBursts, MasterRead(b) PROVE IInv'
  OBVIOUS
<1>1. rd_addr \in Seq(AllBursts) /\ b \in AllBursts
  BY DEF IInv, TypeOK, AllBursts
<1>2. /\ rd_addr' = Append(rd_addr, b)
      /\ UNCHANGED <<rg_reset, wrVars, rd_data, rg_ar_beat_count, rg_last_beat_raddr, f_r_arlen,
                     rg_r_beat_count, s_rd_addr, s_rd_data, mem>>
  BY DEF MasterRead
<1>3. rd_addr' \in Seq(AllBursts)
  BY <1>1, <1>2, AppendProperties
<1>4. TypeOK'
  BY <1>2, <1>3 DEF IInv, TypeOK, wrVars
<1>5. RdSides'
  BY <1>1, <1>2, SidesAsk DEF IInv, RdSides
<1>6. WrSides' /\ Paired'
  BY <1>2 DEF IInv, WrSides, Paired, wrVars
<1>7. AtReset'
  BY <1>2 DEF MasterRead, AtReset
<1>8. QED
  BY <1>4, <1>5, <1>6, <1>7 DEF IInv

LEMMA MasterDataInv == IInv /\ (\E d \in Data : MasterData(d)) => IInv'
<1> SUFFICES ASSUME IInv, NEW d \in Data, MasterData(d) PROVE IInv'
  OBVIOUS
<1>1. wr_data' = Append(wr_data, d) /\ wr_data' \in Seq(Data)
  BY AppendProperties DEF MasterData, IInv, TypeOK
<1>2. UNCHANGED <<rg_reset, wr_addr, wr_resp, rg_w_beat_count, rg_last_beat_waddr, f_w_awlen,
                  rg_b_beat_count, rg_b_resp, s_wr_addr, s_wr_data, s_wr_resp, rdVars, mem>>
  BY DEF MasterData
<1>3. TypeOK'
  BY <1>1, <1>2 DEF IInv, TypeOK, rdVars
<1>4. WrSides' /\ RdSides' /\ Paired'
  BY <1>2 DEF IInv, WrSides, RdSides, Paired, rdVars
<1>5. ~rg_reset
  <2> SUFFICES ASSUME rg_reset PROVE FALSE
    OBVIOUS
  <2>1. wr_addr = <<>> /\ wr_data = <<>> /\ rg_w_beat_count = 0
    BY DEF IInv, AtReset
  <2>2. ToSend(<<>>, 0) = <<>>
    <3>1. FlattenSeq([i \in DOMAIN <<>> |-> BeatsOf(<<>>[i])]) = <<>>
      BY DEF FlattenSeq
    <3>2. QED
      BY <3>1 DEF ToSend
  <2>3. Missing = 0
    BY <2>1, <2>2 DEF Missing
  <2>4. QED
    BY <2>3 DEF MasterData
<1>6. AtReset'
  BY <1>2, <1>5 DEF AtReset
<1>7. QED
  BY <1>3, <1>4, <1>6 DEF IInv

LEMMA MasterTakesInv == IInv /\ (MasterTakesResp \/ MasterTakesData) => IInv'
<1>1. ASSUME IInv, MasterTakesResp PROVE IInv'
  <2>1. wr_resp' = Tail(wr_resp) /\ wr_resp' \in Seq(Resp) /\ wr_resp # <<>>
    BY <1>1, HeadTailProperties DEF MasterTakesResp, IInv, TypeOK
  <2>2. UNCHANGED <<rg_reset, wr_addr, wr_data, rg_w_beat_count, rg_last_beat_waddr, f_w_awlen,
                    rg_b_beat_count, rg_b_resp, s_wr_addr, s_wr_data, s_wr_resp, rdVars, mem>>
    BY <1>1 DEF MasterTakesResp
  <2>3. TypeOK'
    BY <1>1, <2>1, <2>2 DEF IInv, TypeOK, rdVars
  <2>4. WrSides' /\ RdSides' /\ Paired'
    BY <1>1, <2>2 DEF IInv, WrSides, RdSides, Paired, rdVars
  <2>5. AtReset'
    BY <1>1, <2>1, <2>2 DEF IInv, AtReset
  <2>6. QED
    BY <2>3, <2>4, <2>5 DEF IInv
<1>2. ASSUME IInv, MasterTakesData PROVE IInv'
  <2>1. /\ rd_data' = Tail(rd_data) /\ rd_data' \in Seq([data : Data, last : BOOLEAN])
        /\ rd_data # <<>>
    BY <1>2, HeadTailProperties DEF MasterTakesData, IInv, TypeOK
  <2>2. UNCHANGED <<rg_reset, wrVars, rd_addr, rg_ar_beat_count, rg_last_beat_raddr, f_r_arlen,
                    rg_r_beat_count, s_rd_addr, s_rd_data, mem>>
    BY <1>2 DEF MasterTakesData
  <2>3. TypeOK'
    BY <1>2, <2>1, <2>2 DEF IInv, TypeOK, wrVars
  <2>4. WrSides' /\ RdSides' /\ Paired'
    BY <1>2, <2>2 DEF IInv, WrSides, RdSides, Paired, wrVars
  <2>5. AtReset'
    BY <1>2, <2>1, <2>2 DEF IInv, AtReset
  <2>6. QED
    BY <2>3, <2>4, <2>5 DEF IInv
<1>3. QED
  BY <1>1, <1>2

LEMMA SlaveWriteInv == IInv /\ (\E r \in Resp : SlaveWrite(r)) => IInv'
<1> SUFFICES ASSUME IInv, NEW r \in Resp, SlaveWrite(r) PROVE IInv'
  OBVIOUS
<1>1. /\ s_wr_addr \in Seq(Addrs) /\ s_wr_addr # <<>> /\ s_wr_data \in Seq(Data)
      /\ s_wr_data # <<>> /\ s_wr_resp \in Seq(Resp) /\ mem \in [Addrs -> Data]
      /\ Len(s_wr_resp) \in Nat /\ Len(s_wr_addr) \in Nat
  BY Lengths DEF SlaveWrite, IInv, TypeOK
<1>2. /\ s_wr_addr' = Tail(s_wr_addr) /\ s_wr_data' = Tail(s_wr_data)
      /\ s_wr_resp' = Append(s_wr_resp, r)
      /\ UNCHANGED <<rg_reset, wr_addr, wr_data, wr_resp, rg_w_beat_count, rg_last_beat_waddr,
                     f_w_awlen, rg_b_beat_count, rg_b_resp, rdVars>>
  BY DEF SlaveWrite
<1>3. /\ s_wr_addr' \in Seq(Addrs) /\ Len(s_wr_addr') = Len(s_wr_addr) - 1
      /\ s_wr_data' \in Seq(Data) /\ Len(s_wr_data') = Len(s_wr_data) - 1
      /\ s_wr_resp' \in Seq(Resp) /\ Len(s_wr_resp') = Len(s_wr_resp) + 1
  BY <1>1, <1>2, HeadTailProperties, AppendProperties
<1>4. mem' \in [Addrs -> Data]
  <2>1. Head(s_wr_data) \in Data
    BY <1>1, HeadTailProperties
  <2>2. QED
    BY <1>1, <2>1 DEF SlaveWrite
<1>5. TypeOK'
  BY <1>2, <1>3, <1>4 DEF IInv, TypeOK, rdVars
<1>6. Len(s_wr_resp') + Len(s_wr_addr') = Len(s_wr_resp) + Len(s_wr_addr)
  BY <1>1, <1>3
<1>7. WrSides'
  BY <1>2, <1>6 DEF IInv, WrSides
<1>8. RdSides'
  BY <1>2 DEF IInv, RdSides, rdVars
<1>9. Paired' /\ AtReset'
  BY <1>1, <1>2, <1>3 DEF IInv, Paired, AtReset
<1>10. QED
  BY <1>5, <1>7, <1>8, <1>9 DEF IInv

LEMMA SlaveReadInv == IInv /\ SlaveRead => IInv'
<1> SUFFICES ASSUME IInv, SlaveRead PROVE IInv'
  OBVIOUS
<1>1. /\ s_rd_addr \in Seq(Addrs) /\ s_rd_addr # <<>> /\ s_rd_data \in Seq(Data)
      /\ mem \in [Addrs -> Data]
      /\ Len(s_rd_data) \in Nat /\ Len(s_rd_addr) \in Nat
  BY Lengths DEF SlaveRead, IInv, TypeOK
<1>2. PICK d \in Data : d = mem[Head(s_rd_addr)]
  BY <1>1, HeadTailProperties
<1>3. /\ s_rd_data' = Append(s_rd_data, d) /\ s_rd_addr' = Tail(s_rd_addr)
      /\ UNCHANGED <<rg_reset, wrVars, rd_addr, rd_data, rg_ar_beat_count, rg_last_beat_raddr,
                     f_r_arlen, rg_r_beat_count, mem>>
  BY <1>2 DEF SlaveRead
<1>4. /\ s_rd_addr' \in Seq(Addrs) /\ Len(s_rd_addr') = Len(s_rd_addr) - 1
      /\ s_rd_data' \in Seq(Data) /\ Len(s_rd_data') = Len(s_rd_data) + 1
  BY <1>1, <1>3, HeadTailProperties, AppendProperties
<1>5. TypeOK'
  BY <1>3, <1>4 DEF IInv, TypeOK, wrVars
<1>6. Len(s_rd_data') + Len(s_rd_addr') = Len(s_rd_data) + Len(s_rd_addr)
  BY <1>1, <1>4
<1>7. RdSides'
  BY <1>3, <1>6 DEF IInv, RdSides
<1>8. WrSides' /\ Paired'
  BY <1>3 DEF IInv, WrSides, Paired, wrVars
<1>9. AtReset'
  BY <1>1, <1>3 DEF IInv, AtReset, wrVars
<1>10. QED
  BY <1>5, <1>7, <1>8, <1>9 DEF IInv

LEMMA StepInv == IInv /\ [Next]_vars => IInv'
<1>1. ASSUME IInv, UNCHANGED vars PROVE IInv'
  <2>1. TypeOK'
    BY <1>1 DEF IInv, TypeOK, vars, wrVars, rdVars
  <2>2. WrSides' /\ RdSides' /\ Paired'
    BY <1>1 DEF IInv, WrSides, RdSides, Paired, vars, wrVars, rdVars
  <2>3. AtReset'
    BY <1>1 DEF IInv, AtReset, vars, wrVars, rdVars
  <2>4. QED
    BY <2>1, <2>2, <2>3 DEF IInv
<1>2. QED
  BY <1>1, ResetInv, WrRequestInv, WrResponseInv, RdRequestInv, RdResponseInv, MasterWriteInv,
     MasterReadInv, MasterDataInv, MasterTakesInv, SlaveWriteInv, SlaveReadInv DEF Next

\* Where both sides stand in their bursts, for all bursts and queues.
THEOREM InStep == Spec => []IInv
<1>1. QED
  BY InitInv, StepInv, PTL DEF Spec

\* Of the bursts whose lengths wait, each beat is answered, under way, or not
\* yet sent, once (AXI4_Deburster.bsv: f_w_awlen, f_r_arlen and the counts).
THEOREM CountsAgree == Spec => []BeatsMatched
<1>1. IInv => BeatsMatched
  <2> SUFFICES ASSUME IInv PROVE BeatsMatched
    OBVIOUS
  <2>1. /\ Len(s_wr_resp) \in Nat /\ Len(s_wr_addr) \in Nat
        /\ Len(s_rd_data) \in Nat /\ Len(s_rd_addr) \in Nat
        /\ rg_b_beat_count \in Nat /\ rg_r_beat_count \in Nat
    BY Lengths DEF IInv, WrSides, RdSides, Sides, ResponseSide
  <2>2. /\ BeatsIn(f_w_awlen) = rg_b_beat_count + (Len(s_wr_resp) + Len(s_wr_addr))
                                  + Unsent(wr_addr, rg_w_beat_count)
        /\ BeatsIn(f_r_arlen) = rg_r_beat_count + (Len(s_rd_data) + Len(s_rd_addr))
                                  + Unsent(rd_addr, rg_ar_beat_count)
    BY DEF IInv, WrSides, RdSides, Sides
  <2>3. QED
    BY <2>1, <2>2 DEF BeatsMatched
<1>2. QED
  BY <1>1, InStep, PTL
-----------------------------------------------------------------------------
(* Sequences: the first elements dropped.                                   *)

\* Without its first k elements.
Drop(s, k) == SubSeq(s, k + 1, Len(s))

LEMMA DropProperties ==
    ASSUME NEW T, NEW s \in Seq(T), NEW k \in 0 .. Len(s)
    PROVE  /\ Drop(s, k) \in Seq(T) /\ Len(Drop(s, k)) = Len(s) - k
           /\ \A i \in 1 .. Len(s) - k : Drop(s, k)[i] = s[k + i]
<1>1. Len(s) \in Nat /\ k + 1 \in Int /\ Len(s) \in Int /\ Len(s) - (k + 1) + 1 = Len(s) - k
  BY LenProperties
<1>2. \A i \in k + 1 .. Len(s) : s[i] \in T
  <2>1. \A i \in k + 1 .. Len(s) : i \in 1 .. Len(s)
    BY <1>1
  <2>2. QED
    BY <2>1, ElementOfSeq
<1>3. PICK m \in Int, n \in Int : m = k + 1 /\ n = Len(s)
  BY <1>1
<1>4. /\ SubSeq(s, m, n) \in Seq(T)
      /\ Len(SubSeq(s, m, n)) = IF m <= n THEN n - m + 1 ELSE 0
      /\ \A i \in 1 .. n - m + 1 : SubSeq(s, m, n)[i] = s[m + i - 1]
  BY <1>2, <1>3, SubSeqProperties
<1>5. n - m + 1 = Len(s) - k /\ (IF m <= n THEN n - m + 1 ELSE 0) = Len(s) - k
  <2>1. PICK l \in Nat : l = Len(s)
    BY <1>1
  <2>2. k \in 0 .. l /\ n = l /\ m = k + 1
    BY <2>1, <1>3
  <2>3. n - m + 1 = l - k
    BY <2>2
  <2>4. (IF m <= n THEN n - m + 1 ELSE 0) = l - k
    BY <2>2
  <2>5. QED
    BY <2>1, <2>3, <2>4
<1>6. \A i \in 1 .. Len(s) - k : m + i - 1 = k + i
  BY <1>1, <1>3
<1>7. QED
  BY <1>3, <1>4, <1>5, <1>6 DEF Drop

LEMMA DropHead ==
    ASSUME NEW T, NEW s \in Seq(T), NEW k \in 0 .. Len(s), k # Len(s)
    PROVE  /\ Drop(s, k) # <<>> /\ Head(Drop(s, k)) = s[k + 1]
           /\ Tail(Drop(s, k)) = Drop(s, k + 1)
<1>1. Len(s) \in Nat
  BY LenProperties
<1>2. PICK m \in 1 .. Len(s) : m = k + 1
  BY <1>1
<1>2a. PICK n \in m .. Len(s) : n = Len(s)
  BY <1>1
<1>3. Head(SubSeq(s, m, n)) = s[m] /\ Tail(SubSeq(s, m, n)) = SubSeq(s, m + 1, n)
  BY HeadTailOfSubSeq
<1>4. Len(Drop(s, k)) # 0
  BY <1>1, DropProperties
<1>5. Drop(s, k) # <<>>
  BY <1>4
<1>6. QED
  BY <1>2, <1>2a, <1>3, <1>5 DEF Drop

LEMMA DropAppend ==
    ASSUME NEW T, NEW f \in Seq(T), NEW g \in Seq(T), NEW k \in 0 .. Len(f)
    PROVE  Drop(f \o g, k) = Drop(f, k) \o g
<1>1. /\ Len(f) \in Nat /\ Len(g) \in Nat /\ f \o g \in Seq(T)
      /\ Len(f \o g) = Len(f) + Len(g)
      /\ \A i \in 1 .. Len(f) + Len(g) : (f \o g)[i] = IF i <= Len(f) THEN f[i] ELSE g[i - Len(f)]
  BY ConcatProperties, LenProperties
<1>2. PICK s \in Seq(T) : s = f \o g
  BY <1>1
<1>3. k \in 0 .. Len(s)
  BY <1>1, <1>2
<1>4. PICK left \in Seq(T) : left = Drop(s, k)
  BY <1>3, DropProperties
<1>5. Len(left) = Len(s) - k /\ \A i \in 1 .. Len(s) - k : left[i] = s[k + i]
  BY <1>3, <1>4, DropProperties
<1>6. PICK d \in Seq(T) : d = Drop(f, k)
  BY DropProperties
<1>7. Len(d) = Len(f) - k /\ \A i \in 1 .. Len(f) - k : d[i] = f[k + i]
  BY <1>6, DropProperties
<1>8. PICK right \in Seq(T) : right = d \o g
  BY ConcatProperties
<1>9. /\ Len(right) = Len(d) + Len(g)
      /\ \A i \in 1 .. Len(d) + Len(g) : right[i] = IF i <= Len(d) THEN d[i] ELSE g[i - Len(d)]
  BY <1>8, ConcatProperties
<1>10. Len(left) = Len(right) /\ Len(left) = Len(f) + Len(g) - k
  BY <1>1, <1>2, <1>5, <1>7, <1>9
<1>11. ASSUME NEW i \in 1 .. Len(left) PROVE left[i] = right[i]
  <2>1. /\ i \in 1 .. Len(s) - k /\ i \in 1 .. Len(d) + Len(g) /\ k + i \in 1 .. Len(f) + Len(g)
        /\ (k + i <= Len(f)) = (i <= Len(d))
    BY <1>1, <1>2, <1>5, <1>7, <1>9, <1>10
  <2>2. left[i] = s[k + i]
    BY <2>1, <1>5
  <2>3. CASE i <= Len(d)
    <3>1. i \in 1 .. Len(f) - k
      BY <2>1, <2>3, <1>1, <1>7
    <3>2. s[k + i] = f[k + i]
      BY <2>1, <2>3, <1>1, <1>2
    <3>3. QED
      BY <2>1, <2>2, <2>3, <3>1, <3>2, <1>7, <1>9
  <2>4. CASE ~(i <= Len(d))
    <3>1. PICK j : j = k + i
      OBVIOUS
    <3>2. ~(j <= Len(f)) /\ j - Len(f) = i - Len(d) /\ j \in 1 .. Len(f) + Len(g)
      BY <2>1, <2>4, <3>1, <1>1, <1>7
    <3>3. s[j] = g[j - Len(f)]
      BY <3>2, <1>1, <1>2
    <3>4. QED
      BY <2>1, <2>2, <2>4, <3>1, <3>2, <3>3, <1>9
  <2>5. QED
    BY <2>3, <2>4
<1>12. left = right
  BY <1>10, <1>11, SeqEqual
<1>13. QED
  BY <1>2, <1>4, <1>6, <1>8, <1>12

LEMMA DropEnds ==
    ASSUME NEW T, NEW s \in Seq(T)
    PROVE  Drop(s, 0) = s /\ Drop(s, Len(s)) = <<>>
<1>1. Len(s) \in Nat
  BY LenProperties
<1>2. Drop(s, 0) = s
  <2>1. PICK d \in Seq(T) : d = Drop(s, 0)
    BY <1>1, DropProperties
  <2>2. Len(d) = Len(s) - 0 /\ \A i \in 1 .. Len(s) - 0 : d[i] = s[0 + i]
    BY <1>1, <2>1, DropProperties
  <2>3. Len(d) = Len(s) /\ \A i \in 1 .. Len(d) : d[i] = s[i]
    BY <1>1, <2>2
  <2>4. d = s
    BY <2>3, SeqEqual
  <2>5. QED
    BY <2>1, <2>4
<1>3. Drop(s, Len(s)) = <<>>
  <2>1. PICK n \in 0 .. Len(s) : n = Len(s)
    BY <1>1
  <2>2. Drop(s, n) \in Seq(T) /\ Len(Drop(s, n)) = Len(s) - n
    BY DropProperties
  <2>3. Len(Drop(s, n)) = 0
    BY <1>1, <2>1, <2>2
  <2>4. Drop(s, n) = <<>>
    BY <2>2, <2>3, EmptySeq
  <2>5. QED
    BY <2>1, <2>4
<1>4. QED
  BY <1>2, <1>3
-----------------------------------------------------------------------------
(* The beats that are still to be sent.                                     *)

LEMMA BeatsOfBurst ==
    ASSUME NEW b \in AllBursts
    PROVE  /\ BeatsOf(b) \in Seq(BeatSet) /\ Len(BeatsOf(b)) = b.len + 1
           /\ BeatsOf(b) = B!Beats(b)
<1>1. PICK l \in Nat : l = b.len
  BY BurstFields
<1>2. ASSUME NEW k \in 1 .. l + 1
      PROVE  /\ [addr |-> Addresses(b)[k - 1], last |-> k = l + 1] \in BeatSet
             /\ Addresses(b)[k - 1] = B!BeatAddr(b, k - 1)
  <2>1. k - 1 \in 0 .. b.len
    BY <1>1
  <2>2. Addresses(b)[k - 1] \in Addrs
    BY <2>1 DEF Addrs, AllBursts
  <2>3. (k = l + 1) \in BOOLEAN
    OBVIOUS
  <2>4. QED
    BY <2>1, <2>2, <2>3, BeatAddresses DEF BeatSet
<1>3. BeatsOf(b) = [k \in 1 .. l + 1 |-> [addr |-> Addresses(b)[k - 1], last |-> k = l + 1]]
  BY <1>1 DEF BeatsOf
<1>4. BeatsOf(b) \in Seq(BeatSet) /\ Len(BeatsOf(b)) = l + 1
  <2>1. BeatsOf(b) \in [1 .. l + 1 -> BeatSet]
    BY <1>2, <1>3
  <2>2. l + 1 \in Nat
    OBVIOUS
  <2>3. QED
    BY <2>1, <2>2, IsASeq
<1>5. BeatsOf(b) = B!Beats(b)
  <2>1. B!Beats(b) = [k \in 1 .. l + 1 |-> [addr |-> B!BeatAddr(b, k - 1), last |-> k = l + 1]]
    BY <1>1 DEF B!Beats
  <2>2. QED
    BY <1>2, <1>3, <2>1
<1>6. QED
  BY <1>1, <1>4, <1>5

\* F gives the beats of a burst.
GivesBeats(F) ==
    /\ F \in [AllBursts -> Seq(BeatSet)]
    /\ \A b \in AllBursts : F[b] = BeatsOf(b)
    /\ \A xs \in Seq(AllBursts) : \A k : ToSend(xs, k) = Drop(Joint(F, xs), k)

LEMMA SendIs == \E F : GivesBeats(F)
<1> DEFINE F == [b \in AllBursts |-> BeatsOf(b)]
<1>1. F \in [AllBursts -> Seq(BeatSet)] /\ \A b \in AllBursts : F[b] = BeatsOf(b)
  BY BeatsOfBurst
<1>2. ASSUME NEW xs \in Seq(AllBursts), NEW k PROVE ToSend(xs, k) = Drop(Joint(F, xs), k)
  <2>1. \A i \in DOMAIN xs : xs[i] \in AllBursts
    BY LenProperties, ElementOfSeq
  <2>2. [i \in DOMAIN xs |-> F[xs[i]]] = [i \in DOMAIN xs |-> BeatsOf(xs[i])]
    BY <1>1, <2>1
  <2> HIDE DEF F
  <2>3. QED
    BY <2>2 DEF ToSend, Drop, Joint
<1> HIDE DEF F
<1>3. QED
  BY <1>1, <1>2 DEF GivesBeats

\* A beat of the request side is the first one still to be sent.
LEMMA SendHead ==
    ASSUME NEW b \in AllBursts, NEW bursts \in Seq(AllBursts), NEW beat \in 0 .. b.len, NEW last,
           NEW lens, NEW addr, NEW bursts2, NEW beat2, NEW lens2,
           Requested(b, bursts, beat, last, lens, addr, bursts2, beat2, lens2)
    PROVE  /\ ToSend(bursts, beat) \in Seq(BeatSet) /\ ToSend(bursts, beat) # <<>>
           /\ Head(ToSend(bursts, beat)) = BeatsOf(b)[beat + 1]
           /\ Tail(ToSend(bursts, beat)) = ToSend(bursts2, beat2)
<1>1. PICK l \in Nat : l = b.len
  BY BurstFields
<1>2. PICK F : GivesBeats(F)
  BY SendIs
<1>3. PICK tl \in Seq(AllBursts) : tl = Tail(bursts) /\ bursts # <<>> /\ b = Head(bursts)
  BY HeadTailProperties DEF Requested
<1>4. F \in [AllBursts -> Seq(BeatSet)]
  BY <1>2 DEF GivesBeats
<1>5. PICK f \in Seq(BeatSet), g \in Seq(BeatSet) :
          /\ f = BeatsOf(b) /\ f = F[b] /\ g = Joint(F, tl) /\ Joint(F, bursts) = f \o g
          /\ Len(f) = l + 1
  <2>1. Joins(AllBursts, BeatSet, F, bursts) /\ Joins(AllBursts, BeatSet, F, tl)
    BY <1>4, Pieces
  <2>2. F[b] = BeatsOf(b)
    BY <1>2 DEF GivesBeats
  <2>3. Joint(F, tl) \in Seq(BeatSet) /\ Joint(F, bursts) = F[b] \o Joint(F, tl)
    BY <1>3, <2>1 DEF Joins
  <2>4. QED
    BY <1>1, <2>2, <2>3, BeatsOfBurst
<1>6. PICK s \in Seq(BeatSet) : s = f \o g /\ Len(s) = Len(f) + Len(g)
  BY ConcatProperties
<1>7. Len(g) \in Nat
  BY LenProperties
<1>8. beat \in 0 .. Len(s) /\ beat # Len(s) /\ beat + 1 \in 1 .. Len(f)
  BY <1>1, <1>5, <1>6, <1>7
<1>9. ToSend(bursts, beat) = Drop(s, beat)
  BY <1>2, <1>5, <1>6 DEF GivesBeats
<1>10. ToSend(bursts, beat) \in Seq(BeatSet)
  BY <1>8, <1>9, DropProperties
<1>11. /\ ToSend(bursts, beat) # <<>> /\ Head(ToSend(bursts, beat)) = s[beat + 1]
       /\ Tail(ToSend(bursts, beat)) = Drop(s, beat + 1)
  BY <1>8, <1>9, DropHead
<1>12. s[beat + 1] = f[beat + 1]
  <2>1. \A i \in 1 .. Len(f) + Len(g) : (f \o g)[i] = IF i <= Len(f) THEN f[i] ELSE g[i - Len(f)]
    BY ConcatProperties
  <2>2. beat + 1 \in 1 .. Len(f) + Len(g) /\ beat + 1 <= Len(f)
    BY <1>5, <1>7, <1>8
  <2>3. QED
    BY <1>6, <2>1, <2>2
<1>13. Drop(s, beat + 1) = ToSend(bursts2, beat2)
  <2>1. CASE beat < l
    <3>1. beat2 = beat + 1 /\ bursts2 = bursts
      BY <1>1, <2>1 DEF Requested
    <3>2. QED
      BY <1>2, <1>5, <1>6, <3>1 DEF GivesBeats
  <2>2. CASE ~(beat < l)
    <3>1. beat2 = 0 /\ bursts2 = tl /\ beat + 1 = Len(f)
      BY <1>1, <1>3, <1>5, <2>2 DEF Requested
    <3>2. ToSend(bursts2, beat2) = Drop(g, 0)
      BY <1>2, <1>5, <3>1 DEF GivesBeats
    <3>3. Len(f) \in 0 .. Len(f)
      BY <1>5
    <3>4. Drop(s, beat + 1) = Drop(f, Len(f)) \o g
      BY <1>6, <3>1, <3>3, DropAppend
    <3>5. QED
      BY <3>2, <3>4, DropEnds, ConcatEmptySeq
  <2>3. QED
    BY <2>1, <2>2
<1>14. QED
  BY <1>5, <1>10, <1>11, <1>12, <1>13

\* The beats of a burst more come behind the others.
LEMMA SendAppend ==
    ASSUME NEW bursts \in Seq(AllBursts), NEW b \in AllBursts, NEW beat, NEW last, NEW lens,
           RequestSide(bursts, beat, last, lens)
    PROVE  /\ ToSend(bursts, beat) \in Seq(BeatSet)
           /\ ToSend(Append(bursts, b), beat) = ToSend(bursts, beat) \o BeatsOf(b)
<1>1. PICK F : GivesBeats(F)
  BY SendIs
<1>2. F \in [AllBursts -> Seq(BeatSet)] /\ F[b] = BeatsOf(b)
  BY <1>1 DEF GivesBeats
<1>3. PICK f \in Seq(BeatSet), g \in Seq(BeatSet) :
          f = Joint(F, bursts) /\ g = F[b] /\ Joint(F, Append(bursts, b)) = f \o g
  <2>1. Joins(AllBursts, BeatSet, F, bursts)
    BY <1>2, Pieces
  <2>2. Joint(F, bursts) \in Seq(BeatSet) /\ Joint(F, Append(bursts, b)) = Joint(F, bursts) \o F[b]
    BY <2>1 DEF Joins
  <2>3. QED
    BY <1>2, <2>2
<1>4. beat \in 0 .. Len(f)
  <2>1. beat \in Nat /\ Len(f) \in Nat
    BY LenProperties DEF RequestSide
  <2>2. CASE beat # 0
    <3>1. PICK c \in AllBursts, tl \in Seq(AllBursts) :
              bursts # <<>> /\ c = Head(bursts) /\ tl = Tail(bursts)
      BY <2>2, HeadTailProperties DEF RequestSide
    <3>2. PICK l \in Nat : l = c.len
      BY BurstFields
    <3>3. beat <= l
      BY <2>2, <3>1, <3>2 DEF RequestSide
    <3>4. PICK h \in Seq(BeatSet), t \in Seq(BeatSet) : f = h \o t /\ Len(h) = l + 1
      <4>1. Joins(AllBursts, BeatSet, F, bursts) /\ Joins(AllBursts, BeatSet, F, tl)
        BY <1>2, Pieces
      <4>2. Joint(F, tl) \in Seq(BeatSet) /\ f = F[c] \o Joint(F, tl)
        BY <1>3, <3>1, <4>1 DEF Joins
      <4>3. F[c] = BeatsOf(c)
        BY <1>1 DEF GivesBeats
      <4>4. QED
        BY <3>2, <4>2, <4>3, BeatsOfBurst
    <3>5. Len(f) = l + 1 + Len(t) /\ Len(t) \in Nat
      BY <3>4, ConcatProperties, LenProperties
    <3>6. QED
      BY <2>1, <3>3, <3>5
  <2>3. QED
    BY <2>1, <2>2
<1>5. ToSend(bursts, beat) = Drop(f, beat)
  BY <1>1, <1>3 DEF GivesBeats
<1>6. ToSend(Append(bursts, b), beat) = Drop(f \o g, beat)
  <2>1. Append(bursts, b) \in Seq(AllBursts)
    BY AppendProperties
  <2>2. QED
    BY <1>1, <1>3, <2>1 DEF GivesBeats
<1>7. Drop(f \o g, beat) = Drop(f, beat) \o g /\ Drop(f, beat) \in Seq(BeatSet)
  BY <1>4, DropAppend, DropProperties
<1>8. QED
  BY <1>2, <1>3, <1>5, <1>6, <1>7
-----------------------------------------------------------------------------
(* The beats on their way to the slave.                                     *)

LEMMA WayProperties ==
    ASSUME NEW addrs \in Seq(Addrs), NEW lens \in Seq(Nat), NEW n \in Nat,
           n + Len(addrs) <= BeatsIn(lens)
    PROVE  /\ OnTheWay(addrs, lens, n) \in Seq(BeatSet)
           /\ Len(OnTheWay(addrs, lens, n)) = Len(addrs)
           /\ \A i \in 1 .. Len(addrs) : OnTheWay(addrs, lens, n)[i]
                 = [addr |-> addrs[i], last |-> LastFlags(lens)[n + i]]
<1>1. PICK m \in Nat : m = Len(addrs) /\ DOMAIN addrs = 1 .. m
  BY LenProperties
<1>2. PICK f \in Seq(BOOLEAN) : f = LastFlags(lens) /\ BeatsIn(lens) = Len(f) /\ Len(f) \in Nat
  BY Flags, LenProperties DEF BeatsIn
<1>3. OnTheWay(addrs, lens, n) = [i \in 1 .. m |-> [addr |-> addrs[i], last |-> f[n + i]]]
  BY <1>1, <1>2 DEF OnTheWay
<1>4. ASSUME NEW i \in 1 .. m PROVE [addr |-> addrs[i], last |-> f[n + i]] \in BeatSet
  <2>1. addrs[i] \in Addrs
    BY <1>1, ElementOfSeq
  <2>2. n + i \in 1 .. Len(f)
    BY <1>1, <1>2
  <2>3. f[n + i] \in BOOLEAN
    BY <2>2, ElementOfSeq
  <2>4. QED
    BY <2>1, <2>3 DEF BeatSet
<1>5. OnTheWay(addrs, lens, n) \in Seq(BeatSet) /\ Len(OnTheWay(addrs, lens, n)) = m
  <2>1. OnTheWay(addrs, lens, n) \in [1 .. m -> BeatSet]
    BY <1>3, <1>4
  <2>2. QED
    BY <2>1, IsASeq
<1>6. QED
  BY <1>1, <1>2, <1>3, <1>5

\* The m flags behind the first n of some lengths and behind the first n2 of others
\* are the same.
SameFlags(m, lens, n, lens2, n2) ==
    \A i \in 1 .. m : LastFlags(lens2)[n2 + i] = LastFlags(lens)[n + i]

\* The beats on the way do not change with the lengths while their flags stay.
LEMMA WayEqual ==
    ASSUME NEW addrs \in Seq(Addrs), NEW lens, NEW n, NEW lens2, NEW n2,
           SameFlags(Len(addrs), lens, n, lens2, n2)
    PROVE  OnTheWay(addrs, lens2, n2) = OnTheWay(addrs, lens, n)
<1>1. DOMAIN addrs = 1 .. Len(addrs)
  BY LenProperties
<1>2. \A i \in 1 .. Len(addrs) : [addr |-> addrs[i], last |-> LastFlags(lens2)[n2 + i]]
                                   = [addr |-> addrs[i], last |-> LastFlags(lens)[n + i]]
  BY DEF SameFlags
<1>3. QED
  BY <1>1, <1>2 DEF OnTheWay

\* One access more.
LEMMA WayAppend ==
    ASSUME NEW addrs \in Seq(Addrs), NEW addr \in Addrs, NEW lens \in Seq(Nat), NEW n \in Nat,
           n + Len(addrs) + 1 <= BeatsIn(lens), NEW beat \in BeatSet,
           beat = [addr |-> addr, last |-> LastFlags(lens)[n + Len(addrs) + 1]]
    PROVE  OnTheWay(Append(addrs, addr), lens, n) = Append(OnTheWay(addrs, lens, n), beat)
<1>1. PICK m \in Nat : m = Len(addrs)
  BY LenProperties
<1>2. PICK more \in Seq(Addrs) : more = Append(addrs, addr)
  BY AppendProperties
<1>2a. Len(more) = m + 1 /\ more[m + 1] = addr /\ \A i \in 1 .. m : more[i] = addrs[i]
  BY <1>1, <1>2, AppendProperties
<1>3. BeatsIn(lens) \in Nat
  BY FlagsAppend
<1>4. n + Len(more) <= BeatsIn(lens) /\ n + Len(addrs) <= BeatsIn(lens)
  BY <1>1, <1>2a, <1>3
<1>5. PICK left \in Seq(BeatSet) : left = OnTheWay(more, lens, n)
  BY <1>4, WayProperties
<1>5a. /\ Len(left) = m + 1
       /\ \A i \in 1 .. m + 1 : left[i] = [addr |-> more[i], last |-> LastFlags(lens)[n + i]]
  BY <1>2a, <1>4, <1>5, WayProperties
<1>6. PICK way \in Seq(BeatSet) : way = OnTheWay(addrs, lens, n)
  BY <1>4, WayProperties
<1>6a. /\ Len(way) = m
       /\ \A i \in 1 .. m : way[i] = [addr |-> addrs[i], last |-> LastFlags(lens)[n + i]]
  BY <1>1, <1>4, <1>6, WayProperties
<1>7. PICK right \in Seq(BeatSet) : right = Append(way, beat)
  BY AppendProperties
<1>7a. Len(right) = m + 1 /\ right[m + 1] = beat /\ \A i \in 1 .. m : right[i] = way[i]
  BY <1>6a, <1>7, AppendProperties
<1>8. ASSUME NEW i \in 1 .. m + 1 PROVE left[i] = right[i]
  <2>1. CASE i = m + 1
    <3>1. left[i] = [addr |-> addr, last |-> LastFlags(lens)[n + (m + 1)]]
      BY <2>1, <1>2a, <1>5a
    <3>2. n + (m + 1) = n + Len(addrs) + 1
      BY <1>1
    <3>3. QED
      BY <2>1, <3>1, <3>2, <1>7a
  <2>2. CASE i # m + 1
    <3>1. i \in 1 .. m
      BY <2>2
    <3>2. left[i] = [addr |-> addrs[i], last |-> LastFlags(lens)[n + i]]
      BY <3>1, <1>2a, <1>5a
    <3>3. right[i] = [addr |-> addrs[i], last |-> LastFlags(lens)[n + i]]
      BY <3>1, <1>6a, <1>7a
    <3>4. QED
      BY <3>2, <3>3
  <2>3. QED
    BY <2>1, <2>2
<1>9. left = right
  BY <1>5a, <1>7a, <1>8, SeqEqual
<1>10. QED
  BY <1>2, <1>5, <1>6, <1>7, <1>9

\* The slave takes the first access.
LEMMA WayTail ==
    ASSUME NEW addrs \in Seq(Addrs), addrs # <<>>, NEW lens \in Seq(Nat), NEW n \in Nat,
           n + Len(addrs) <= BeatsIn(lens)
    PROVE  /\ OnTheWay(addrs, lens, n) # <<>>
           /\ Head(OnTheWay(addrs, lens, n)).addr = Head(addrs)
           /\ Head(OnTheWay(addrs, lens, n)).last = LastFlags(lens)[n + 1]
           /\ Tail(OnTheWay(addrs, lens, n)) = OnTheWay(Tail(addrs), lens, n + 1)
<1>1. PICK m \in Nat : m = Len(addrs) /\ m # 0
  BY LenProperties, EmptySeq
<1>2. PICK rest \in Seq(Addrs) : rest = Tail(addrs)
  BY HeadTailProperties
<1>2a. /\ Len(rest) = m - 1 /\ Head(addrs) = addrs[1]
       /\ \A i \in 1 .. m - 1 : rest[i] = addrs[i + 1]
  BY <1>1, <1>2, HeadTailProperties
<1>3. BeatsIn(lens) \in Nat
  BY FlagsAppend
<1>4. n + 1 \in Nat /\ n + 1 + Len(rest) <= BeatsIn(lens)
  BY <1>1, <1>2a, <1>3
<1>5. PICK way \in Seq(BeatSet) : way = OnTheWay(addrs, lens, n)
  BY WayProperties
<1>5a. /\ Len(way) = m
       /\ \A i \in 1 .. m : way[i] = [addr |-> addrs[i], last |-> LastFlags(lens)[n + i]]
  BY <1>1, <1>5, WayProperties
<1>6. PICK right \in Seq(BeatSet) : right = OnTheWay(rest, lens, n + 1)
  BY <1>4, WayProperties
<1>6a. /\ Len(right) = m - 1
       /\ \A i \in 1 .. m - 1 :
             right[i] = [addr |-> rest[i], last |-> LastFlags(lens)[n + 1 + i]]
  BY <1>2a, <1>4, <1>6, WayProperties
<1>7. way # <<>>
  BY <1>1, <1>5a, EmptySeq
<1>8. PICK left \in Seq(BeatSet) : left = Tail(way)
  BY <1>7, HeadTailProperties
<1>8a. /\ Len(left) = m - 1 /\ Head(way) = way[1]
       /\ \A i \in 1 .. m - 1 : left[i] = way[i + 1]
  BY <1>1, <1>5a, <1>7, <1>8, HeadTailProperties
<1>9. ASSUME NEW i \in 1 .. m - 1 PROVE left[i] = right[i]
  <2>1. PICK j \in 1 .. m : j = i + 1 /\ n + j = n + 1 + i
    BY <1>1
  <2>2. left[i] = [addr |-> addrs[j], last |-> LastFlags(lens)[n + j]]
    BY <2>1, <1>5a, <1>8a
  <2>3. right[i] = [addr |-> addrs[j], last |-> LastFlags(lens)[n + j]]
    BY <2>1, <1>2a, <1>6a
  <2>4. QED
    BY <2>2, <2>3
<1>10. left = right
  <2>1. Len(left) = Len(right) /\ \A i \in 1 .. Len(left) : left[i] = right[i]
    BY <1>6a, <1>8a, <1>9
  <2>2. QED
    BY <2>1, SeqEqual
<1>11. Head(way) = [addr |-> addrs[1], last |-> LastFlags(lens)[n + 1]]
  <2>1. 1 \in 1 .. m
    BY <1>1
  <2>2. QED
    BY <2>1, <1>5a, <1>8a
<1>12. QED
  BY <1>2, <1>2a, <1>5, <1>6, <1>7, <1>8, <1>10, <1>11

\* A beat went from what is still to be sent to what is on its way, and the
\* flags noted before stand.
Moved(addrs, lens, bursts, beat, addr, lens2, bursts2, beat2, n) ==
    /\ OnTheWay(Append(addrs, addr), lens2, n) \o ToSend(bursts2, beat2)
          = OnTheWay(addrs, lens, n) \o ToSend(bursts, beat)
    /\ BeatsIn(lens) \in Nat
    /\ \A i \in 1 .. BeatsIn(lens) : LastFlags(lens2)[i] = LastFlags(lens)[i]

\* A beat of the request side moves, and nothing else changes: the abstract
\* specification stutters.
LEMMA RequestMoves ==
    ASSUME NEW b \in AllBursts, NEW bursts \in Seq(AllBursts), NEW beat, NEW last,
           NEW lens \in Seq(Nat), NEW answered, NEW k \in Nat,
           NEW addr, NEW bursts2, NEW beat2, NEW lens2,
           Requested(b, bursts, beat, last, lens, addr, bursts2, beat2, lens2),
           Sides(bursts, beat, last, lens, answered, k),
           NEW addrs \in Seq(Addrs), NEW r \in Nat, k = r + Len(addrs)
    PROVE  Moved(addrs, lens, bursts, beat, addr, lens2, bursts2, beat2, answered + r)
<1>1. PICK l \in Nat, m \in Nat : l = b.len /\ m = Len(addrs)
  BY BurstFields, LenProperties
<1>2. PICK n \in Nat : n = answered + r /\ answered \in Nat
  BY DEF Sides, ResponseSide
<1>3. /\ Sides(bursts2, beat2, addr, lens2, answered, r + m + 1)
      /\ lens2 \in Seq(Nat) /\ beat \in 0 .. b.len /\ addr = Addresses(b)[beat]
  <2>1. k = r + m
    BY <1>1
  <2>2. AddressesFrom(b)
    BY AddressesDef
  <2>3. /\ Sides(bursts2, beat2, addr, lens2, answered, k + 1)
        /\ bursts2 \in Seq(AllBursts) /\ lens2 \in Seq(Nat)
        /\ beat \in 0 .. b.len /\ addr = Addresses(b)[beat]
    BY <2>2, SidesRequest
  <2>4. QED
    BY <2>1, <2>3
<1>4. /\ BeatsIn(lens) \in Nat
      /\ \A i \in 1 .. BeatsIn(lens) : LastFlags(lens2)[i] = LastFlags(lens)[i]
  <2>1. lens2 = Append(lens, l) \/ lens2 = lens
    BY <1>1 DEF Requested
  <2>2. /\ BeatsIn(lens) \in Nat
        /\ \A i \in 1 .. BeatsIn(lens) : LastFlags(Append(lens, l))[i] = LastFlags(lens)[i]
    BY FlagsAppend
  <2>3. QED
    BY <2>1, <2>2
<1>5. PICK u \in Nat : u = Unsent(bursts, beat)
  <2>1. beat # 0 => beat \in 1 .. l /\ Head(bursts).len = l
    BY <1>1, <1>3 DEF Requested
  <2>2. QED
    BY <2>1 DEF Unsent
<1>6. PICK u2 \in 0 .. l : u2 = Unsent(bursts2, beat2) /\ (u2 = 0) = (beat = l)
  <2>1. CASE beat < l
    <3>1. beat2 = beat + 1 /\ bursts2 = bursts /\ Head(bursts).len = l
      BY <1>1, <2>1 DEF Requested
    <3>2. Unsent(bursts2, beat2) = l + 1 - (beat + 1)
      BY <1>3, <3>1 DEF Unsent
    <3>3. PICK j \in 0 .. l : j = beat
      BY <1>1, <1>3
    <3>4. l + 1 - (j + 1) \in 0 .. l /\ (l + 1 - (j + 1) = 0) = (j = l)
      BY <2>1, <3>3
    <3>5. QED
      BY <3>2, <3>3, <3>4
  <2>2. CASE ~(beat < l)
    <3>1. beat2 = 0 /\ beat = l
      BY <1>1, <1>3, <2>2 DEF Requested
    <3>2. Unsent(bursts2, beat2) = 0
      BY <3>1 DEF Unsent
    <3>3. QED
      BY <3>1, <3>2
  <2>3. QED
    BY <2>1, <2>2
<1>7. BeatsIn(lens) = n + m + u /\ BeatsIn(lens2) = n + m + 1 + u2
  <2>1. BeatsIn(lens) = answered + k + Unsent(bursts, beat)
    BY DEF Sides
  <2>2. BeatsIn(lens2) = answered + (r + m + 1) + Unsent(bursts2, beat2)
    BY <1>3 DEF Sides
  <2>3. QED
    BY <1>1, <1>2, <1>5, <1>6, <2>1, <2>2
<1>8. LastFlags(lens2)[n + m + 1] = (beat + 1 = l + 1)
  <2>1. lens2 # <<>> /\ lens2[Len(lens2)] \in Nat /\ u2 <= lens2[Len(lens2)]
    <3>1. CASE beat < l
      <4>1. beat2 # 0 /\ Head(bursts2).len = l
        BY <1>1, <1>3, <3>1 DEF Requested
      <4>2. lens2 # <<>> /\ lens2[Len(lens2)] = l
        BY <1>3, <4>1 DEF Sides, RequestSide
      <4>3. QED
        BY <4>2, <1>6
    <3>2. CASE ~(beat < l)
      <4>1. u2 = 0
        BY <1>1, <1>3, <1>6, <3>2
      <4>2. BeatsIn(lens2) # 0
        BY <1>7
      <4>3. lens2 # <<>>
        BY <4>2, Flags, EmptySeq DEF BeatsIn
      <4>4. Len(lens2) \in 1 .. Len(lens2)
        BY <1>3, <4>3, EmptySeq, LenProperties
      <4>5. lens2[Len(lens2)] \in Nat
        BY <1>3, <4>4, ElementOfSeq
      <4>6. QED
        BY <4>1, <4>3, <4>5
    <3>3. QED
      BY <3>1, <3>2
  <2>2. u2 \in 0 .. lens2[Len(lens2)]
    BY <2>1
  <2>3. LastFlags(lens2)[BeatsIn(lens2) - u2] = (u2 = 0)
    BY <1>3, <2>1, <2>2, FlagsLast
  <2>4. BeatsIn(lens2) - u2 = n + m + 1
    BY <1>7
  <2>5. (u2 = 0) = (beat + 1 = l + 1)
    BY <1>1, <1>3, <1>6
  <2>6. QED
    BY <2>3, <2>4, <2>5
<1>9. PICK s \in Seq(BeatSet) :
          /\ s = ToSend(bursts, beat) /\ s # <<>> /\ Head(s) = BeatsOf(b)[beat + 1]
          /\ Tail(s) = ToSend(bursts2, beat2)
  BY <1>3, SendHead
<1>10. PICK e \in BeatSet :
           e = Head(s) /\ e = [addr |-> addr, last |-> LastFlags(lens2)[n + m + 1]]
  <2>1. beat + 1 \in 1 .. l + 1 /\ beat + 1 - 1 = beat
    BY <1>1, <1>3
  <2>2. \A j \in 1 .. l + 1 :
            BeatsOf(b)[j] = [addr |-> Addresses(b)[j - 1], last |-> j = l + 1]
    BY <1>1 DEF BeatsOf
  <2>3. BeatsOf(b)[beat + 1] = [addr |-> addr, last |-> beat + 1 = l + 1]
    BY <2>1, <2>2, <1>3
  <2>4. Head(s) \in BeatSet
    BY <1>9, HeadTailProperties
  <2>5. QED
    BY <2>3, <2>4, <1>8, <1>9
<1>11. addr \in Addrs
  BY <1>3 DEF Addrs, AllBursts
<1>12. PICK way \in Seq(BeatSet) : way = OnTheWay(addrs, lens, n)
  <2>1. n + Len(addrs) <= BeatsIn(lens)
    BY <1>1, <1>7
  <2>2. QED
    BY <2>1, WayProperties
<1>13. OnTheWay(Append(addrs, addr), lens2, n) = Append(way, e)
  <2>1. n + Len(addrs) + 1 <= BeatsIn(lens2)
    BY <1>1, <1>7
  <2>2. n + Len(addrs) + 1 = n + m + 1
    BY <1>1
  <2>2a. e = [addr |-> addr, last |-> LastFlags(lens2)[n + Len(addrs) + 1]]
    BY <1>10, <2>2
  <2>2b. addrs \in Seq(Addrs) /\ lens2 \in Seq(Nat) /\ n \in Nat
    BY <1>3
  <2>3. OnTheWay(Append(addrs, addr), lens2, n) = Append(OnTheWay(addrs, lens2, n), e)
    BY <1>11, <2>1, <2>2a, <2>2b, WayAppend
  <2>4. ASSUME NEW i \in 1 .. Len(addrs)
        PROVE  LastFlags(lens2)[n + i] = LastFlags(lens)[n + i]
    <3>1. n + i \in 1 .. BeatsIn(lens)
      BY <1>1, <1>7
    <3>2. QED
      BY <3>1, <1>4
  <2>5. SameFlags(Len(addrs), lens, n, lens2, n)
    BY <2>4 DEF SameFlags
  <2>5a. OnTheWay(addrs, lens2, n) = OnTheWay(addrs, lens, n)
    BY <2>5, WayEqual
  <2>6. QED
    BY <2>3, <2>5a, <1>12
<1>14. Append(way, e) \o Tail(s) = way \o s
  BY <1>9, <1>10, MoveOne
<1>15. QED
  BY <1>2, <1>4, <1>9, <1>12, <1>13, <1>14 DEF Moved
-----------------------------------------------------------------------------
(* The responses on their way back.                                         *)

\* Where lens2 and beat2 stand, k beats of lens were answered since beat.
Ahead(lens, beat, lens2, beat2, k) ==
    /\ BeatsIn(lens) = beat + k + (BeatsIn(lens2) - beat2)
    /\ \A i \in Nat \ {0} : beat2 + i <= BeatsIn(lens2) =>
          LastFlags(lens2)[beat2 + i] = LastFlags(lens)[beat + k + i]

\* A response stands for one beat, the last one if the count says so.
LEMMA FlagsAnswered ==
    ASSUME NEW lens \in Seq(Nat), NEW beat \in Nat, NEW lens2, NEW beat2,
           ResponseSide(lens, beat), Answered(lens, beat, lens2, beat2)
    PROVE  /\ lens2 \in Seq(Nat) /\ beat2 \in Nat /\ ResponseSide(lens2, beat2)
           /\ Ahead(lens, beat, lens2, beat2, 1)
           /\ LastFlags(lens)[beat + 1] = ~(beat < Head(lens))
<1>1. PICK l \in Nat : l = Head(lens) /\ lens # <<>> /\ beat <= l
  BY HeadTailProperties DEF Answered, ResponseSide
<1>2. PICK tl \in Seq(Nat) : tl = Tail(lens)
  BY <1>1, HeadTailProperties
<1>3. /\ BeatsIn(tl) \in Nat /\ BeatsIn(lens) = l + 1 + BeatsIn(tl)
      /\ \A k \in 1 .. l + 1 : LastFlags(lens)[k] = (k = l + 1)
      /\ \A i \in 1 .. BeatsIn(tl) : LastFlags(lens)[l + 1 + i] = LastFlags(tl)[i]
  <2>1. /\ Tail(lens) \in Seq(Nat) /\ BeatsIn(Tail(lens)) \in Nat
        /\ BeatsIn(lens) = l + 1 + BeatsIn(Tail(lens))
        /\ \A k \in 1 .. l + 1 : LastFlags(lens)[k] = (k = l + 1)
        /\ \A i \in 1 .. BeatsIn(Tail(lens)) :
              LastFlags(lens)[l + 1 + i] = LastFlags(Tail(lens))[i]
    BY <1>1, FlagsHead
  <2>2. QED
    BY <2>1, <1>2
<1>4. LastFlags(lens)[beat + 1] = ~(beat < l)
  <2>1. beat + 1 \in 1 .. l + 1 /\ (beat + 1 = l + 1) = ~(beat < l)
    BY <1>1
  <2>2. QED
    BY <2>1, <1>3
<1>5. CASE beat < l
  <2>1. beat2 = beat + 1 /\ lens2 = lens
    BY <1>1, <1>5 DEF Answered
  <2>2. beat2 \in Nat /\ ResponseSide(lens2, beat2)
    BY <1>1, <1>5, <2>1 DEF ResponseSide
  <2>3. BeatsIn(lens) = beat + 1 + (BeatsIn(lens2) - beat2)
    <3>1. PICK n \in Nat : n = BeatsIn(lens)
      BY <1>3
    <3>2. n = beat + 1 + (n - (beat + 1))
      OBVIOUS
    <3>3. QED
      BY <2>1, <3>1, <3>2
  <2>4. Ahead(lens, beat, lens2, beat2, 1)
    BY <2>1, <2>3 DEF Ahead
  <2>5. QED
    BY <1>1, <1>4, <2>1, <2>2, <2>4
<1>6. CASE ~(beat < l)
  <2>1. beat2 = 0 /\ lens2 = tl /\ beat = l
    BY <1>1, <1>2, <1>6 DEF Answered
  <2>2. ResponseSide(lens2, beat2)
    <3>1. lens2 # <<>> => Head(lens2) \in Nat
      BY <2>1, HeadTailProperties
    <3>2. QED
      BY <2>1, <3>1 DEF ResponseSide
  <2>3. BeatsIn(lens) = beat + 1 + (BeatsIn(lens2) - beat2)
    BY <1>3, <2>1
  <2>4. ASSUME NEW i \in Nat \ {0}, beat2 + i <= BeatsIn(lens2)
        PROVE  LastFlags(lens2)[beat2 + i] = LastFlags(lens)[beat + 1 + i]
    <3>1. i \in 1 .. BeatsIn(tl) /\ beat2 + i = i
      BY <1>3, <2>1, <2>4
    <3>2. QED
      BY <3>1, <1>3, <2>1
  <2>5. Ahead(lens, beat, lens2, beat2, 1)
    BY <2>3, <2>4 DEF Ahead
  <2>6. QED
    BY <1>1, <1>4, <2>1, <2>2, <2>5
<1>7. QED
  BY <1>5, <1>6

\* One response after the other.
LEMMA AheadNext ==
    ASSUME NEW lens \in Seq(Nat), NEW beat \in Nat, NEW lens2 \in Seq(Nat), NEW beat2 \in Nat,
           NEW lens3 \in Seq(Nat), NEW beat3 \in Nat, NEW k \in Nat,
           Ahead(lens, beat, lens2, beat2, k), Ahead(lens2, beat2, lens3, beat3, 1)
    PROVE  Ahead(lens, beat, lens3, beat3, k + 1)
<1>1. PICK n1 \in Nat, n2 \in Nat, n3 \in Nat :
          n1 = BeatsIn(lens) /\ n2 = BeatsIn(lens2) /\ n3 = BeatsIn(lens3)
  BY FlagsAppend
<1>2. n1 = beat + k + (n2 - beat2) /\ n2 = beat2 + 1 + (n3 - beat3)
  BY <1>1 DEF Ahead
<1>3. n1 = beat + (k + 1) + (n3 - beat3)
  BY <1>2
<1>4. ASSUME NEW i \in Nat \ {0}, beat3 + i <= n3
      PROVE  LastFlags(lens3)[beat3 + i] = LastFlags(lens)[beat + (k + 1) + i]
  <2>1. PICK j \in Nat \ {0} : j = i + 1
    OBVIOUS
  <2>2. beat2 + 1 + i = beat2 + j /\ beat + (k + 1) + i = beat + k + j /\ beat2 + j <= n2
    BY <1>2, <1>4, <2>1
  <2>3. LastFlags(lens3)[beat3 + i] = LastFlags(lens2)[beat2 + 1 + i]
    BY <1>1, <1>4 DEF Ahead
  <2>4. LastFlags(lens2)[beat2 + j] = LastFlags(lens)[beat + k + j]
    BY <1>1, <2>2 DEF Ahead
  <2>5. QED
    BY <2>2, <2>3, <2>4
<1>5. QED
  BY <1>1, <1>3, <1>4 DEF Ahead

\* The states f the responses lead through.
Through(f, n, st, resps) ==
    /\ f = [k \in 0 .. n |-> f[k]] /\ f[0] = st
    /\ \A k \in 1 .. n : f[k] = JoinResp(f[k - 1], resps[k])

\* Joined is well defined where there are such states.
LEMMA JoinedIs ==
    ASSUME NEW f, NEW n \in Nat, NEW st, NEW resps, n = Len(resps), Through(f, n, st, resps)
    PROVE  Joined(st, resps) = f[n]
<1> DEFINE Def(g) == [k \in 0 .. n |-> IF k = 0 THEN st ELSE JoinResp(g[k - 1], resps[k])]
           d == CHOOSE g : g = Def(g)
<1>1. f = Def(f)
  <2>1. \A k \in 0 .. n : f[k] = IF k = 0 THEN st ELSE JoinResp(f[k - 1], resps[k])
    <3>1. \A k \in 0 .. n : k # 0 => k \in 1 .. n
      OBVIOUS
    <3>2. QED
      BY <3>1 DEF Through
  <2>2. f = [k \in 0 .. n |-> f[k]]
    BY DEF Through
  <2>3. QED
    BY <2>1, <2>2
<1>2. d = Def(d)
  <2> HIDE DEF Def
  <2>1. QED
    BY <1>1
<1>3. Joined(st, resps) = d[n]
  BY DEF Joined
<1>4. ASSUME NEW k \in 0 .. n PROVE d[k] = IF k = 0 THEN st ELSE JoinResp(d[k - 1], resps[k])
  <2> HIDE DEF d
  <2>1. QED
    BY <1>2
<1> HIDE DEF d, Def
<1> DEFINE S == {k \in 0 .. n : d[k] = f[k]}
<1>5. 0 \in S
  BY <1>4 DEF Through
<1>6. ASSUME NEW k \in 1 .. n, k - 1 \in S PROVE k \in S
  <2>1. k \in 0 .. n /\ k # 0
    OBVIOUS
  <2>2. d[k] = JoinResp(d[k - 1], resps[k])
    BY <2>1, <1>4
  <2>3. f[k] = JoinResp(f[k - 1], resps[k])
    BY DEF Through
  <2>4. d[k - 1] = f[k - 1]
    BY <1>6
  <2>5. QED
    BY <2>1, <2>2, <2>3, <2>4
<1>7. 0 .. n \subseteq S
  <2> HIDE DEF S
  <2>1. QED
    BY <1>5, <1>6, IntervalInduction
<1>8. QED
  BY <1>3, <1>7

\* The n responses are for beats that were noted, and f are the states they lead
\* through.
Run(f, n, st, resps) ==
    /\ f \in [0 .. n -> JoinState] /\ Through(f, n, st, resps)
    /\ \A k \in 0 .. n : /\ ResponseSide(f[k].awlen, f[k].beat)
                         /\ Ahead(st.awlen, st.beat, f[k].awlen, f[k].beat, k)
    /\ \A k \in 1 .. n : f[k - 1].awlen # <<>>

\* Responses to no more beats than were noted.
Noted(st, n) == ResponseSide(st.awlen, st.beat) /\ st.beat + n <= BeatsIn(st.awlen)

LEMMA JoinedRun ==
    ASSUME NEW st \in JoinState, NEW resps \in Seq(Resp), NEW n \in Nat, n = Len(resps),
           Noted(st, n)
    PROVE  \E f : Run(f, n, st, resps)
<1> DEFINE step == [p \in (1 .. n) \X JoinState |->
               IF p[2].awlen # <<>> THEN JoinResp(p[2], resps[p[1]]) ELSE p[2]]
<1>1. step \in [(1 .. n) \X JoinState -> JoinState]
  <2>1. ASSUME NEW k \in 1 .. n, NEW s \in JoinState
        PROVE  (IF s.awlen # <<>> THEN JoinResp(s, resps[k]) ELSE s) \in JoinState
    <3>1. resps[k] \in Resp
      BY ElementOfSeq
    <3>2. QED
      BY <3>1, JoinStep
  <2>2. QED
    BY <2>1
<1>2. PICK f \in [0 .. n -> JoinState] : Follows(f, n, st, step)
  <2> HIDE DEF step
  <2>1. QED
    BY <1>1, RecursiveFunction
<1>3. f[0] = st /\ \A k \in 1 .. n : f[k] = step[<<k, f[k - 1]>>]
  BY <1>2 DEF Follows
<1> DEFINE Good(k) == /\ ResponseSide(f[k].awlen, f[k].beat)
                      /\ Ahead(st.awlen, st.beat, f[k].awlen, f[k].beat, k)
           S == {k \in 0 .. n : Good(k)}
<1>4. st.awlen \in Seq(Nat) /\ st.beat \in Nat
      /\ \A k \in 0 .. n : f[k].awlen \in Seq(Nat) /\ f[k].beat \in Nat
  BY DEF JoinState
<1>5. 0 \in S
  <2>1. BeatsIn(st.awlen) \in Nat
    BY <1>4, FlagsAppend
  <2>2. BeatsIn(st.awlen) = st.beat + 0 + (BeatsIn(st.awlen) - st.beat)
    BY <1>4, <2>1
  <2>3. \A i \in Nat \ {0} : st.beat + 0 + i = st.beat + i
    BY <1>4
  <2>4. Ahead(st.awlen, st.beat, st.awlen, st.beat, 0)
    BY <2>2, <2>3 DEF Ahead
  <2>5. QED
    BY <1>3, <2>4 DEF Noted
<1>6. ASSUME NEW k \in 1 .. n, Good(k - 1)
      PROVE  /\ f[k - 1].awlen # <<>> /\ f[k] = JoinResp(f[k - 1], resps[k])
             /\ Good(k)
  <2>1. PICK s \in JoinState : s = f[k - 1]
    OBVIOUS
  <2>2. s.awlen \in Seq(Nat) /\ s.beat \in Nat /\ ResponseSide(s.awlen, s.beat)
        /\ Ahead(st.awlen, st.beat, s.awlen, s.beat, k - 1) /\ k - 1 \in Nat
    BY <2>1, <1>4, <1>6
  <2>3. PICK m \in Nat, m2 \in Nat : m = BeatsIn(st.awlen) /\ m2 = BeatsIn(s.awlen)
    BY <1>4, <2>2, FlagsAppend
  <2>4. m = st.beat + (k - 1) + (m2 - s.beat) /\ st.beat + n <= m
    BY <2>2, <2>3 DEF Ahead, Noted
  <2>5. m2 # 0
    BY <1>4, <2>2, <2>4
  <2>6. s.awlen # <<>>
    BY <2>3, <2>5, Flags, EmptySeq DEF BeatsIn
  <2>7. PICK r \in Resp : r = resps[k]
    BY ElementOfSeq
  <2>8. f[k] = JoinResp(s, r)
    <3>1. <<k, s>> \in (1 .. n) \X JoinState
      OBVIOUS
    <3>2. QED
      BY <1>3, <2>1, <2>6, <2>7, <3>1
  <2>9. PICK t \in JoinState : t = JoinResp(s, r) /\ t.awlen \in Seq(Nat) /\ t.beat \in Nat
    BY <2>6, JoinStep DEF JoinState
  <2>10. Answered(s.awlen, s.beat, t.awlen, t.beat)
    BY <2>6, <2>9, JoinStep
  <2>11. ResponseSide(t.awlen, t.beat) /\ Ahead(s.awlen, s.beat, t.awlen, t.beat, 1)
    BY <2>2, <2>10, FlagsAnswered
  <2>12. Ahead(st.awlen, st.beat, t.awlen, t.beat, (k - 1) + 1)
    BY <1>4, <2>2, <2>9, <2>11, AheadNext
  <2>13. (k - 1) + 1 = k
    OBVIOUS
  <2>14. QED
    BY <2>1, <2>6, <2>7, <2>8, <2>9, <2>11, <2>12, <2>13
<1>7. 0 .. n \subseteq S
  <2>1. ASSUME NEW k \in 1 .. n, k - 1 \in S PROVE k \in S
    <3>1. Good(k - 1)
      BY <2>1
    <3> HIDE DEF Good
    <3>2. Good(k)
      BY <1>6, <3>1
    <3>3. QED
      BY <3>2
  <2> HIDE DEF S
  <2>2. QED
    BY <1>5, <2>1, IntervalInduction
<1>8. ASSUME NEW k \in 1 .. n
      PROVE  f[k - 1].awlen # <<>> /\ f[k] = JoinResp(f[k - 1], resps[k])
  <2>1. k - 1 \in 0 .. n
    OBVIOUS
  <2>2. Good(k - 1)
    BY <1>7, <2>1
  <2> HIDE DEF Good
  <2>3. QED
    BY <1>6, <2>2
<1>9. \A k \in 0 .. n : Good(k)
  BY <1>7
<1> HIDE DEF S, step
<1>10. Through(f, n, st, resps)
  <2>1. f = [k \in 0 .. n |-> f[k]]
    BY <1>2
  <2>2. QED
    BY <2>1, <1>3, <1>8 DEF Through
<1>11. Run(f, n, st, resps)
  BY <1>8, <1>9, <1>10 DEF Run
<1>12. QED
  BY <1>11

\* The slave gives a response more.
LEMMA JoinedNext ==
    ASSUME NEW st \in JoinState, NEW resps \in Seq(Resp), NEW r \in Resp,
           NEW n \in Nat, n = Len(resps), Noted(st, n + 1), NEW st2, st2 = Joined(st, resps)
    PROVE  /\ st2 \in JoinState
           /\ Joined(st, Append(resps, r)) = JoinResp(st2, r)
           /\ LastFlags(st.awlen)[st.beat + n + 1] = ~(st2.beat < Head(st2.awlen))
<1>1. PICK more \in Seq(Resp) : more = Append(resps, r)
  BY AppendProperties
<1>2. Len(more) = n + 1 /\ more[n + 1] = r /\ \A i \in 1 .. n : more[i] = resps[i]
  BY <1>1, AppendProperties
<1>3. PICK f : Run(f, n + 1, st, more)
  BY <1>2, JoinedRun
<1>4. f \in [0 .. n + 1 -> JoinState] /\ f[0] = st
      /\ \A k \in 1 .. n + 1 : f[k - 1].awlen # <<>> /\ f[k] = JoinResp(f[k - 1], more[k])
  BY <1>2, <1>3 DEF Run, Through
<1>5. Joined(st, more) = f[n + 1]
  <2>1. PICK k \in Nat : k = n + 1 /\ k = Len(more)
    BY <1>2
  <2>2. Through(f, k, st, more)
    BY <1>3, <2>1 DEF Run
  <2>3. QED
    BY <2>1, <2>2, JoinedIs
<1>6. st2 = f[n]
  <2> DEFINE g == [k \in 0 .. n |-> f[k]]
  <2>1. g \in [0 .. n -> JoinState]
    BY <1>4
  <2>2. ASSUME NEW k \in 1 .. n PROVE g[k] = JoinResp(g[k - 1], resps[k])
    <3>1. k \in 1 .. n + 1 /\ k \in 0 .. n /\ k - 1 \in 0 .. n
      OBVIOUS
    <3>2. g[k] = f[k] /\ g[k - 1] = f[k - 1]
      BY <3>1
    <3> HIDE DEF g
    <3>3. QED
      BY <3>1, <3>2, <1>2, <1>4
  <2>3. g[0] = st /\ g[n] = f[n] /\ g = [k \in 0 .. n |-> g[k]]
    BY <1>4
  <2> HIDE DEF g
  <2>4. Through(g, n, st, resps)
    BY <2>2, <2>3 DEF Through
  <2>5. Joined(st, resps) = g[n]
    BY <2>4, JoinedIs
  <2>6. QED
    BY <2>3, <2>5
<1>7. f[n].awlen # <<>> /\ f[n + 1] = JoinResp(f[n], r)
  <2>1. PICK k \in 1 .. n + 1 : k = n + 1 /\ k - 1 = n
    OBVIOUS
  <2>2. f[k - 1].awlen # <<>> /\ f[k] = JoinResp(f[k - 1], more[k])
    BY <1>4
  <2>3. QED
    BY <2>1, <2>2, <1>2
<1>8. st2 \in JoinState /\ st2.awlen \in Seq(Nat) /\ st2.beat \in Nat
  BY <1>4, <1>6 DEF JoinState
<1>9. ResponseSide(st2.awlen, st2.beat) /\ Ahead(st.awlen, st.beat, st2.awlen, st2.beat, n)
  BY <1>3, <1>6 DEF Run
<1>10. PICK t : t = JoinResp(st2, r) /\ Answered(st2.awlen, st2.beat, t.awlen, t.beat)
  BY <1>6, <1>7, <1>8, JoinStep
<1>11. LastFlags(st2.awlen)[st2.beat + 1] = ~(st2.beat < Head(st2.awlen))
  BY <1>8, <1>9, <1>10, FlagsAnswered
<1>12. LastFlags(st2.awlen)[st2.beat + 1] = LastFlags(st.awlen)[st.beat + n + 1]
  <2>1. PICK m \in Nat, m2 \in Nat, beat \in Nat :
            m = BeatsIn(st.awlen) /\ m2 = BeatsIn(st2.awlen) /\ beat = st.beat
    BY <1>8, FlagsAppend DEF JoinState
  <2>2. m = beat + n + (m2 - st2.beat) /\ beat + (n + 1) <= m
    BY <1>9, <2>1 DEF Ahead, Noted
  <2>3. st2.beat + 1 <= m2
    BY <1>8, <2>2
  <2>4. QED
    BY <1>9, <2>1, <2>3 DEF Ahead
<1>13. QED
  BY <1>1, <1>5, <1>6, <1>7, <1>8, <1>11, <1>12

\* Which of the responses is joined first makes no difference.
LEMMA JoinedHead ==
    ASSUME NEW st \in JoinState, NEW resps \in Seq(Resp), resps # <<>>,
           NEW n \in Nat, n = Len(resps), Noted(st, n)
    PROVE  Joined(JoinResp(st, Head(resps)), Tail(resps)) = Joined(st, resps)
<1>1. PICK f : Run(f, n, st, resps)
  BY JoinedRun
<1>2. f \in [0 .. n -> JoinState] /\ Through(f, n, st, resps) /\ f[0] = st
      /\ \A k \in 1 .. n : f[k] = JoinResp(f[k - 1], resps[k])
  BY <1>1 DEF Run, Through
<1>3. n # 0
  BY EmptySeq
<1>4. PICK rest \in Seq(Resp) : rest = Tail(resps)
  BY HeadTailProperties
<1>5. Len(rest) = n - 1 /\ Head(resps) = resps[1] /\ \A i \in 1 .. n - 1 : rest[i] = resps[i + 1]
  BY <1>3, <1>4, HeadTailProperties
<1>6. Joined(st, resps) = f[n]
  BY <1>2, JoinedIs
<1>7. JoinResp(st, Head(resps)) = f[1]
  <2>1. PICK k \in 1 .. n : k = 1 /\ k - 1 = 0
    BY <1>3
  <2>2. f[k] = JoinResp(f[k - 1], resps[k])
    BY <1>2
  <2>3. QED
    BY <2>1, <2>2, <1>2, <1>5
<1>8. Joined(f[1], rest) = f[n]
  <2> DEFINE g == [k \in 0 .. n - 1 |-> f[k + 1]]
  <2>1. g \in [0 .. n - 1 -> JoinState] /\ g[0] = f[1] /\ g[n - 1] = f[n]
    <3>1. \A k \in 0 .. n - 1 : f[k + 1] \in JoinState
      BY <1>2
    <3>2. 0 \in 0 .. n - 1 /\ n - 1 \in 0 .. n - 1 /\ n - 1 + 1 = n /\ 0 + 1 = 1
      BY <1>3
    <3>3. g[0] = f[0 + 1] /\ g[n - 1] = f[n - 1 + 1]
      BY <3>2
    <3>4. QED
      BY <3>1, <3>2, <3>3
  <2>2. ASSUME NEW k \in 1 .. n - 1 PROVE g[k] = JoinResp(g[k - 1], rest[k])
    <3>1. PICK j \in 1 .. n : j = k + 1 /\ j - 1 = k /\ k - 1 + 1 = k
      BY <1>3
    <3>2. k \in 0 .. n - 1 /\ k - 1 \in 0 .. n - 1
      OBVIOUS
    <3>3. g[k] = f[j] /\ g[k - 1] = f[j - 1]
      BY <3>1, <3>2
    <3> HIDE DEF g
    <3>4. f[j] = JoinResp(f[j - 1], resps[j])
      BY <1>2
    <3>5. rest[k] = resps[j]
      BY <3>1, <1>5
    <3>6. QED
      BY <3>3, <3>4, <3>5
  <2>3. g = [k \in 0 .. n - 1 |-> g[k]]
    OBVIOUS
  <2> HIDE DEF g
  <2>4. PICK m \in Nat : m = n - 1
    BY <1>3
  <2>5. m = Len(rest)
    BY <2>4, <1>5
  <2>6. Through(g, m, f[1], rest)
    BY <2>1, <2>2, <2>3, <2>4 DEF Through
  <2>7. Joined(f[1], rest) = g[m]
    BY <2>5, <2>6, JoinedIs
  <2>8. QED
    BY <2>1, <2>4, <2>7
<1>9. QED
  BY <1>4, <1>6, <1>7, <1>8

\* No response changes nothing.
LEMMA JoinedNone ==
    ASSUME NEW st
    PROVE  Joined(st, <<>>) = st
<1> DEFINE f == [k \in 0 .. 0 |-> st]
<1>1. 0 = Len(<<>>) /\ 0 \in Nat /\ f = [k \in 0 .. 0 |-> f[k]] /\ f[0] = st
  OBVIOUS
<1> HIDE DEF f
<1>2. Through(f, 0, st, <<>>)
  BY <1>1 DEF Through
<1>3. Joined(st, <<>>) = f[0]
  BY <1>1, <1>2, JoinedIs
<1>4. QED
  BY <1>1, <1>3

\* The same state after the master has taken a response, and after the request
\* side has noted one more length.
Taken(st) == [awlen |-> st.awlen, beat |-> st.beat, resp |-> st.resp, out |-> Tail(st.out)]
Longer(st, l) == [awlen |-> Append(st.awlen, l), beat |-> st.beat, resp |-> st.resp,
                  out |-> st.out]

\* The fields of st, and those of the state a response leads to, x being the first
\* error.
Fields(st, awlen, beat, resp, out) ==
    st = [awlen |-> awlen, beat |-> beat, resp |-> resp, out |-> out]
AfterJoin(st, awlen, beat, x, out) ==
    /\ beat < Head(awlen) => Fields(st, awlen, beat + 1, x, out)
    /\ ~(beat < Head(awlen)) => Fields(st, Tail(awlen), 0, "OKAY", Append(out, x))

LEMMA JoinForm ==
    ASSUME NEW st, NEW awlen, NEW beat, NEW resp, NEW out, NEW r, NEW x,
           Fields(st, awlen, beat, resp, out), x = IF resp = "OKAY" THEN r ELSE resp
    PROVE  AfterJoin(JoinResp(st, r), awlen, beat, x, out)
<1>1. st = [awlen |-> awlen, beat |-> beat, resp |-> resp, out |-> out]
  BY DEF Fields
<1>2. CASE beat < Head(awlen)
  <2>1. JoinResp(st, r) = [st EXCEPT !.beat = @ + 1, !.resp = IF @ = "OKAY" THEN r ELSE @]
    BY <1>1, <1>2 DEF JoinResp
  <2>2. JoinResp(st, r) = [awlen |-> awlen, beat |-> beat + 1, resp |-> x, out |-> out]
    BY <1>1, <2>1
  <2>3. QED
    BY <1>2, <2>2 DEF AfterJoin, Fields
<1>3. CASE ~(beat < Head(awlen))
  <2>1. JoinResp(st, r) = [awlen |-> Tail(awlen), beat |-> 0, resp |-> "OKAY",
                           out |-> Append(out, x)]
    BY <1>1, <1>3 DEF JoinResp
  <2>2. QED
    BY <1>3, <2>1 DEF AfterJoin, Fields
<1>4. QED
  BY <1>2, <1>3

LEMMA JoinChanged ==
    ASSUME NEW st \in JoinState, st.awlen # <<>>, NEW r \in Resp, NEW l \in Nat
    PROVE  /\ st.out # <<>> => /\ JoinResp(Taken(st), r) = Taken(JoinResp(st, r))
                               /\ JoinResp(st, r).out # <<>>
           /\ JoinResp(Longer(st, l), r) = Longer(JoinResp(st, r), l)
<1>1. PICK awlen \in Seq(Nat), beat \in Nat, resp \in Resp, out \in Seq(Resp) :
          st = [awlen |-> awlen, beat |-> beat, resp |-> resp, out |-> out]
  BY DEF JoinState
<1>2. awlen # <<>> /\ st.out = out
  BY <1>1
<1>3. PICK x \in Resp : x = IF resp = "OKAY" THEN r ELSE resp
  OBVIOUS
<1>4. /\ Head(Append(awlen, l)) = Head(awlen) /\ Tail(Append(awlen, l)) = Append(Tail(awlen), l)
      /\ Append(out, x) # <<>>
      /\ out # <<>> => Tail(Append(out, x)) = Append(Tail(out), x)
  BY <1>2, HeadTailAppend, AppendProperties
<1>5. PICK t : t = JoinResp(st, r) /\ AfterJoin(t, awlen, beat, x, out)
  <2>1. Fields(st, awlen, beat, resp, out)
    BY <1>1 DEF Fields
  <2>2. AfterJoin(JoinResp(st, r), awlen, beat, x, out)
    BY <1>3, <2>1, JoinForm
  <2>3. QED
    BY <2>2
<1>6. PICK u : u = JoinResp(Taken(st), r) /\ AfterJoin(u, awlen, beat, x, Tail(out))
  <2>1. Fields(Taken(st), awlen, beat, resp, Tail(out))
    BY <1>1 DEF Fields, Taken
  <2>2. AfterJoin(JoinResp(Taken(st), r), awlen, beat, x, Tail(out))
    BY <1>3, <2>1, JoinForm
  <2>3. QED
    BY <2>2
<1>7. PICK v : v = JoinResp(Longer(st, l), r) /\ AfterJoin(v, Append(awlen, l), beat, x, out)
  <2>1. Fields(Longer(st, l), Append(awlen, l), beat, resp, out)
    BY <1>1 DEF Fields, Longer
  <2>2. AfterJoin(JoinResp(Longer(st, l), r), Append(awlen, l), beat, x, out)
    BY <1>3, <2>1, JoinForm
  <2>3. QED
    BY <2>2
<1>8. CASE beat < Head(awlen)
  <2>1. /\ t = [awlen |-> awlen, beat |-> beat + 1, resp |-> x, out |-> out]
        /\ u = [awlen |-> awlen, beat |-> beat + 1, resp |-> x, out |-> Tail(out)]
        /\ v = [awlen |-> Append(awlen, l), beat |-> beat + 1, resp |-> x, out |-> out]
    BY <1>4, <1>5, <1>6, <1>7, <1>8 DEF AfterJoin, Fields
  <2>2. u = Taken(t) /\ t.out = out /\ v = Longer(t, l)
    BY <2>1 DEF Taken, Longer
  <2>3. QED
    BY <1>2, <1>5, <1>6, <1>7, <2>2
<1>9. CASE ~(beat < Head(awlen))
  <2>1. /\ t = [awlen |-> Tail(awlen), beat |-> 0, resp |-> "OKAY", out |-> Append(out, x)]
        /\ u = [awlen |-> Tail(awlen), beat |-> 0, resp |-> "OKAY",
                out |-> Append(Tail(out), x)]
        /\ v = [awlen |-> Append(Tail(awlen), l), beat |-> 0, resp |-> "OKAY",
                out |-> Append(out, x)]
    BY <1>4, <1>5, <1>6, <1>7, <1>9 DEF AfterJoin, Fields
  <2>2. out # <<>> => u = Taken(t)
    BY <1>4, <2>1 DEF Taken
  <2>3. t.out # <<>> /\ v = Longer(t, l)
    BY <1>4, <2>1 DEF Longer
  <2>4. QED
    BY <1>2, <1>5, <1>6, <1>7, <2>2, <2>3
<1>10. QED
  BY <1>8, <1>9

\* The master takes a response: the others are joined as before.
LEMMA JoinedTaken ==
    ASSUME NEW st \in JoinState, NEW resps \in Seq(Resp), st.out # <<>>,
           NEW n \in Nat, n = Len(resps), Noted(st, n)
    PROVE  /\ Joined(st, resps).out # <<>>
           /\ Joined(Taken(st), resps) = Taken(Joined(st, resps))
<1>1. PICK f : Run(f, n, st, resps)
  BY JoinedRun
<1>2. f \in [0 .. n -> JoinState] /\ Through(f, n, st, resps) /\ f[0] = st
      /\ \A k \in 1 .. n : f[k - 1].awlen # <<>> /\ f[k] = JoinResp(f[k - 1], resps[k])
  BY <1>1 DEF Run, Through
<1>3. Joined(st, resps) = f[n]
  BY <1>2, JoinedIs
<1> DEFINE S == {k \in 0 .. n : f[k].out # <<>>}
           g == [k \in 0 .. n |-> Taken(f[k])]
<1>4. ASSUME NEW k \in 1 .. n, f[k - 1].out # <<>>
      PROVE  f[k].out # <<>> /\ Taken(f[k]) = JoinResp(Taken(f[k - 1]), resps[k])
  <2>1. PICK s \in JoinState, r \in Resp : s = f[k - 1] /\ r = resps[k]
    BY <1>2, ElementOfSeq
  <2>2. s.awlen # <<>> /\ f[k] = JoinResp(s, r)
    BY <1>2, <2>1
  <2>3. JoinResp(Taken(s), r) = Taken(JoinResp(s, r)) /\ JoinResp(s, r).out # <<>>
    <3>1. 0 \in Nat
      OBVIOUS
    <3>2. QED
      BY <1>4, <2>1, <2>2, <3>1, JoinChanged
  <2>4. QED
    BY <2>1, <2>2, <2>3
<1>5. 0 .. n \subseteq S
  <2>1. 0 \in S
    BY <1>2
  <2>2. ASSUME NEW k \in 1 .. n, k - 1 \in S PROVE k \in S
    BY <2>2, <1>4
  <2> HIDE DEF S
  <2>3. QED
    BY <2>1, <2>2, IntervalInduction
<1>6. \A k \in 0 .. n : f[k].out # <<>>
  BY <1>5
<1>7. g = [k \in 0 .. n |-> g[k]] /\ g[0] = Taken(st) /\ g[n] = Taken(f[n])
  BY <1>2
<1>8. ASSUME NEW k \in 1 .. n PROVE g[k] = JoinResp(g[k - 1], resps[k])
  <2>1. k \in 0 .. n /\ k - 1 \in 0 .. n
    OBVIOUS
  <2>2. g[k] = Taken(f[k]) /\ g[k - 1] = Taken(f[k - 1])
    BY <2>1
  <2> HIDE DEF g
  <2>3. QED
    BY <2>1, <2>2, <1>4, <1>6
<1> HIDE DEF g
<1>9. Through(g, n, Taken(st), resps)
  BY <1>7, <1>8 DEF Through
<1>10. Joined(Taken(st), resps) = g[n]
  BY <1>9, JoinedIs
<1>11. QED
  BY <1>3, <1>6, <1>7, <1>10

\* The request side notes a length more: the responses are joined as before.
LEMMA JoinedLonger ==
    ASSUME NEW st \in JoinState, NEW resps \in Seq(Resp), NEW l \in Nat,
           NEW n \in Nat, n = Len(resps), Noted(st, n)
    PROVE  Joined(Longer(st, l), resps) = Longer(Joined(st, resps), l)
<1>1. PICK f : Run(f, n, st, resps)
  BY JoinedRun
<1>2. f \in [0 .. n -> JoinState] /\ Through(f, n, st, resps) /\ f[0] = st
      /\ \A k \in 1 .. n : f[k - 1].awlen # <<>> /\ f[k] = JoinResp(f[k - 1], resps[k])
  BY <1>1 DEF Run, Through
<1>3. Joined(st, resps) = f[n]
  BY <1>2, JoinedIs
<1> DEFINE g == [k \in 0 .. n |-> Longer(f[k], l)]
<1>4. ASSUME NEW k \in 1 .. n
      PROVE  Longer(f[k], l) = JoinResp(Longer(f[k - 1], l), resps[k])
  <2>1. PICK s \in JoinState, r \in Resp : s = f[k - 1] /\ r = resps[k]
    BY <1>2, ElementOfSeq
  <2>2. s.awlen # <<>> /\ f[k] = JoinResp(s, r)
    BY <1>2, <2>1
  <2>3. JoinResp(Longer(s, l), r) = Longer(JoinResp(s, r), l)
    BY <2>2, JoinChanged
  <2>4. QED
    BY <2>1, <2>2, <2>3
<1>5. g = [k \in 0 .. n |-> g[k]] /\ g[0] = Longer(st, l) /\ g[n] = Longer(f[n], l)
  BY <1>2
<1>6. ASSUME NEW k \in 1 .. n PROVE g[k] = JoinResp(g[k - 1], resps[k])
  <2>1. k \in 0 .. n /\ k - 1 \in 0 .. n
    OBVIOUS
  <2>2. g[k] = Longer(f[k], l) /\ g[k - 1] = Longer(f[k - 1], l)
    BY <2>1
  <2> HIDE DEF g
  <2>3. QED
    BY <2>2, <1>4
<1> HIDE DEF g
<1>7. Through(g, n, Longer(st, l), resps)
  BY <1>5, <1>6 DEF Through
<1>8. Joined(Longer(st, l), resps) = g[n]
  BY <1>7, JoinedIs
<1>9. QED
  BY <1>3, <1>5, <1>8
-----------------------------------------------------------------------------
(* Read data on its way back.                                               *)

\* A response later the same flags follow.
LEMMA AheadSame ==
    ASSUME NEW lens, NEW beat \in Nat, NEW lens2, NEW beat2 \in Nat,
           Ahead(lens, beat, lens2, beat2, 1), NEW j \in Nat, NEW m \in Nat,
           NEW n \in Nat, n = BeatsIn(lens2), beat2 + j + m <= n
    PROVE  SameFlags(m, lens, beat + 1 + j, lens2, beat2 + j)
<1>1. ASSUME NEW i \in 1 .. m
      PROVE  LastFlags(lens2)[beat2 + j + i] = LastFlags(lens)[beat + 1 + j + i]
  <2>1. PICK k \in Nat \ {0} : k = j + i
    OBVIOUS
  <2>2. beat2 + k <= n /\ beat2 + j + i = beat2 + k /\ beat + 1 + j + i = beat + 1 + k
    BY <2>1
  <2>3. LastFlags(lens2)[beat2 + k] = LastFlags(lens)[beat + 1 + k]
    BY <2>2 DEF Ahead
  <2>4. QED
    BY <2>2, <2>3
<1>2. QED
  BY <1>1 DEF SameFlags

Item == [data : Data, last : BOOLEAN]

LEMMA MarkedProperties ==
    ASSUME NEW data \in Seq(Data), NEW lens \in Seq(Nat), NEW n \in Nat,
           n + Len(data) <= BeatsIn(lens)
    PROVE  /\ Marked(data, lens, n) \in Seq(Item)
           /\ Len(Marked(data, lens, n)) = Len(data)
           /\ \A i \in 1 .. Len(data) : Marked(data, lens, n)[i]
                 = [data |-> data[i], last |-> LastFlags(lens)[n + i]]
<1>1. PICK m \in Nat : m = Len(data) /\ DOMAIN data = 1 .. m
  BY LenProperties
<1>2. PICK f \in Seq(BOOLEAN) : f = LastFlags(lens) /\ BeatsIn(lens) = Len(f) /\ Len(f) \in Nat
  BY Flags, LenProperties DEF BeatsIn
<1>3. Marked(data, lens, n) = [i \in 1 .. m |-> [data |-> data[i], last |-> f[n + i]]]
  BY <1>1, <1>2 DEF Marked
<1>4. ASSUME NEW i \in 1 .. m PROVE [data |-> data[i], last |-> f[n + i]] \in Item
  <2>1. data[i] \in Data
    BY <1>1, ElementOfSeq
  <2>2. n + i \in 1 .. Len(f)
    BY <1>1, <1>2
  <2>3. f[n + i] \in BOOLEAN
    BY <2>2, ElementOfSeq
  <2>4. QED
    BY <2>1, <2>3 DEF Item
<1>5. Marked(data, lens, n) \in Seq(Item) /\ Len(Marked(data, lens, n)) = m
  <2>1. Marked(data, lens, n) \in [1 .. m -> Item]
    BY <1>3, <1>4
  <2>2. QED
    BY <2>1, IsASeq
<1>6. QED
  BY <1>1, <1>2, <1>3, <1>5

LEMMA MarkedEqual ==
    ASSUME NEW data \in Seq(Data), NEW lens, NEW n, NEW lens2, NEW n2,
           SameFlags(Len(data), lens, n, lens2, n2)
    PROVE  Marked(data, lens2, n2) = Marked(data, lens, n)
<1>1. DOMAIN data = 1 .. Len(data)
  BY LenProperties
<1>2. \A i \in 1 .. Len(data) : [data |-> data[i], last |-> LastFlags(lens2)[n2 + i]]
                                   = [data |-> data[i], last |-> LastFlags(lens)[n + i]]
  BY DEF SameFlags
<1>3. QED
  BY <1>1, <1>2 DEF Marked

\* The slave answers once more.
LEMMA MarkedAppend ==
    ASSUME NEW data \in Seq(Data), NEW d \in Data, NEW lens \in Seq(Nat), NEW n \in Nat,
           n + Len(data) + 1 <= BeatsIn(lens), NEW item \in Item,
           item = [data |-> d, last |-> LastFlags(lens)[n + Len(data) + 1]]
    PROVE  Marked(Append(data, d), lens, n) = Append(Marked(data, lens, n), item)
<1>1. PICK m \in Nat : m = Len(data)
  BY LenProperties
<1>2. PICK more \in Seq(Data) : more = Append(data, d)
  BY AppendProperties
<1>3. Len(more) = m + 1 /\ more[m + 1] = d /\ \A i \in 1 .. m : more[i] = data[i]
  BY <1>1, <1>2, AppendProperties
<1>4. BeatsIn(lens) \in Nat
  BY FlagsAppend
<1>5. n + Len(more) <= BeatsIn(lens) /\ n + Len(data) <= BeatsIn(lens)
  BY <1>1, <1>3, <1>4
<1>6. PICK left \in Seq(Item) : left = Marked(more, lens, n)
  BY <1>5, MarkedProperties
<1>7. /\ Len(left) = m + 1
      /\ \A i \in 1 .. m + 1 : left[i] = [data |-> more[i], last |-> LastFlags(lens)[n + i]]
  BY <1>3, <1>5, <1>6, MarkedProperties
<1>8. PICK items \in Seq(Item) : items = Marked(data, lens, n)
  BY <1>5, MarkedProperties
<1>9. /\ Len(items) = m
      /\ \A i \in 1 .. m : items[i] = [data |-> data[i], last |-> LastFlags(lens)[n + i]]
  BY <1>1, <1>5, <1>8, MarkedProperties
<1>10. PICK right \in Seq(Item) : right = Append(items, item)
  BY AppendProperties
<1>11. Len(right) = m + 1 /\ right[m + 1] = item /\ \A i \in 1 .. m : right[i] = items[i]
  BY <1>9, <1>10, AppendProperties
<1>12. ASSUME NEW i \in 1 .. m + 1 PROVE left[i] = right[i]
  <2>1. CASE i = m + 1
    <3>1. left[i] = [data |-> d, last |-> LastFlags(lens)[n + (m + 1)]]
      BY <2>1, <1>3, <1>7
    <3>2. n + (m + 1) = n + Len(data) + 1
      BY <1>1
    <3>3. QED
      BY <2>1, <3>1, <3>2, <1>11
  <2>2. CASE i # m + 1
    <3>1. i \in 1 .. m
      BY <2>2
    <3>2. left[i] = [data |-> data[i], last |-> LastFlags(lens)[n + i]]
      BY <3>1, <1>3, <1>7
    <3>3. right[i] = [data |-> data[i], last |-> LastFlags(lens)[n + i]]
      BY <3>1, <1>9, <1>11
    <3>4. QED
      BY <3>2, <3>3
  <2>3. QED
    BY <2>1, <2>2
<1>13. left = right
  BY <1>7, <1>11, <1>12, SeqEqual
<1>14. QED
  BY <1>2, <1>6, <1>8, <1>10, <1>13

\* The first of the data goes to the master.
LEMMA MarkedTail ==
    ASSUME NEW data \in Seq(Data), data # <<>>, NEW lens \in Seq(Nat), NEW n \in Nat,
           n + Len(data) <= BeatsIn(lens)
    PROVE  /\ Marked(data, lens, n) # <<>>
           /\ Head(Marked(data, lens, n)) = [data |-> Head(data), last |-> LastFlags(lens)[n + 1]]
           /\ Tail(Marked(data, lens, n)) = Marked(Tail(data), lens, n + 1)
<1>1. PICK m \in Nat : m = Len(data) /\ m # 0
  BY LenProperties, EmptySeq
<1>2. PICK rest \in Seq(Data) : rest = Tail(data)
  BY HeadTailProperties
<1>3. /\ Len(rest) = m - 1 /\ Head(data) = data[1]
      /\ \A i \in 1 .. m - 1 : rest[i] = data[i + 1]
  BY <1>1, <1>2, HeadTailProperties
<1>4. BeatsIn(lens) \in Nat
  BY FlagsAppend
<1>5. n + 1 \in Nat /\ n + 1 + Len(rest) <= BeatsIn(lens)
  BY <1>1, <1>3, <1>4
<1>6. PICK items \in Seq(Item) : items = Marked(data, lens, n)
  BY MarkedProperties
<1>7. /\ Len(items) = m
      /\ \A i \in 1 .. m : items[i] = [data |-> data[i], last |-> LastFlags(lens)[n + i]]
  BY <1>1, <1>6, MarkedProperties
<1>8. PICK right \in Seq(Item) : right = Marked(rest, lens, n + 1)
  BY <1>5, MarkedProperties
<1>9. /\ Len(right) = m - 1
      /\ \A i \in 1 .. m - 1 : right[i] = [data |-> rest[i], last |-> LastFlags(lens)[n + 1 + i]]
  BY <1>3, <1>5, <1>8, MarkedProperties
<1>10. items # <<>>
  BY <1>1, <1>7, EmptySeq
<1>11. PICK left \in Seq(Item) : left = Tail(items)
  BY <1>10, HeadTailProperties
<1>12. /\ Len(left) = m - 1 /\ Head(items) = items[1]
       /\ \A i \in 1 .. m - 1 : left[i] = items[i + 1]
  BY <1>1, <1>7, <1>10, <1>11, HeadTailProperties
<1>13. ASSUME NEW i \in 1 .. m - 1 PROVE left[i] = right[i]
  <2>1. PICK j \in 1 .. m : j = i + 1 /\ n + j = n + 1 + i
    BY <1>1
  <2>2. left[i] = [data |-> data[j], last |-> LastFlags(lens)[n + j]]
    BY <2>1, <1>7, <1>12
  <2>3. right[i] = [data |-> data[j], last |-> LastFlags(lens)[n + j]]
    BY <2>1, <1>3, <1>9
  <2>4. QED
    BY <2>2, <2>3
<1>14. left = right
  <2>1. Len(left) = Len(right) /\ \A i \in 1 .. Len(left) : left[i] = right[i]
    BY <1>9, <1>12, <1>13
  <2>2. QED
    BY <2>1, SeqEqual
<1>15. Head(items) = [data |-> data[1], last |-> LastFlags(lens)[n + 1]]
  <2>1. 1 \in 1 .. m
    BY <1>1
  <2>2. QED
    BY <2>1, <1>7, <1>12
<1>16. QED
  BY <1>2, <1>3, <1>6, <1>8, <1>10, <1>11, <1>14, <1>15
-----------------------------------------------------------------------------
(* The deburster implements the single accesses of Bursts.                  *)

WrWay == OnTheWay(s_wr_addr, f_w_awlen, rg_b_beat_count + Len(s_wr_resp))
WrSend == ToSend(wr_addr, rg_w_beat_count)
WrJoined == Joined(Joining, s_wr_resp)
RdWay == OnTheWay(s_rd_addr, f_r_arlen, rg_r_beat_count + Len(s_rd_data))
RdSend == ToSend(rd_addr, rg_ar_beat_count)
RdMarked == Marked(s_rd_data, f_r_arlen, rg_r_beat_count)

\* The variables of Bursts, those of writes and those of reads.
AbsWr == <<WrWay \o WrSend, s_wr_data \o wr_data, WrJoined.resp, WrJoined.out>>
AbsRd == <<RdWay \o RdSend, rd_data \o RdMarked>>

LEMMA AbsVars == UNCHANGED <<mem, AbsWr, AbsRd>> => UNCHANGED B!vars
BY DEF B!vars, AbsWr, AbsRd, WrWay, WrSend, WrJoined, RdWay, RdSend, RdMarked

LEMMA AbsWrSame == UNCHANGED wrVars => UNCHANGED AbsWr
BY DEF wrVars, AbsWr, WrWay, WrSend, WrJoined, Joining

LEMMA AbsRdSame == UNCHANGED rdVars => UNCHANGED AbsRd
BY DEF rdVars, AbsRd, RdWay, RdSend, RdMarked

LEMMA UnsentNat ==
    ASSUME NEW bursts \in Seq(AllBursts), NEW beat, NEW last, NEW lens,
           RequestSide(bursts, beat, last, lens)
    PROVE  Unsent(bursts, beat) \in Nat
<1>1. CASE beat = 0
  BY <1>1 DEF Unsent
<1>2. CASE beat # 0
  <2>1. bursts # <<>> /\ beat \in Nat /\ beat <= Head(bursts).len
    BY <1>2 DEF RequestSide
  <2>2. Head(bursts).len \in Nat
    BY <2>1, HeadTailProperties, BurstFields
  <2>3. QED
    BY <1>2, <2>1, <2>2 DEF Unsent
<1>3. QED
  BY <1>1, <1>2

\* All that is under way was noted.
Room(lens, answered, r, a) ==
    /\ answered \in Nat /\ r \in Nat /\ a \in Nat /\ BeatsIn(lens) \in Nat
    /\ answered + r + a <= BeatsIn(lens)

LEMMA Rooms ==
    IInv => /\ Room(f_w_awlen, rg_b_beat_count, Len(s_wr_resp), Len(s_wr_addr))
            /\ Room(f_r_arlen, rg_r_beat_count, Len(s_rd_data), Len(s_rd_addr))
<1> SUFFICES ASSUME IInv
    PROVE  /\ Room(f_w_awlen, rg_b_beat_count, Len(s_wr_resp), Len(s_wr_addr))
           /\ Room(f_r_arlen, rg_r_beat_count, Len(s_rd_data), Len(s_rd_addr))
  OBVIOUS
<1>1. /\ Len(s_wr_resp) \in Nat /\ Len(s_wr_addr) \in Nat
      /\ Len(s_rd_data) \in Nat /\ Len(s_rd_addr) \in Nat
  BY Lengths DEF IInv
<1>2. BeatsIn(f_w_awlen) \in Nat /\ BeatsIn(f_r_arlen) \in Nat
  BY FlagsAppend DEF IInv, TypeOK
<1>3. wr_addr \in Seq(AllBursts) /\ rd_addr \in Seq(AllBursts)
  BY DEF IInv, TypeOK
<1>4. /\ RequestSide(wr_addr, rg_w_beat_count, rg_last_beat_waddr, f_w_awlen)
      /\ rg_b_beat_count \in Nat
      /\ BeatsIn(f_w_awlen) = rg_b_beat_count + (Len(s_wr_resp) + Len(s_wr_addr))
                                + Unsent(wr_addr, rg_w_beat_count)
  BY DEF IInv, WrSides, Sides, ResponseSide
<1>5. /\ RequestSide(rd_addr, rg_ar_beat_count, rg_last_beat_raddr, f_r_arlen)
      /\ rg_r_beat_count \in Nat
      /\ BeatsIn(f_r_arlen) = rg_r_beat_count + (Len(s_rd_data) + Len(s_rd_addr))
                                + Unsent(rd_addr, rg_ar_beat_count)
  BY DEF IInv, RdSides, Sides, ResponseSide
<1>6. Unsent(wr_addr, rg_w_beat_count) \in Nat /\ Unsent(rd_addr, rg_ar_beat_count) \in Nat
  BY <1>3, <1>4, <1>5, UnsentNat
<1>7. Room(f_w_awlen, rg_b_beat_count, Len(s_wr_resp), Len(s_wr_addr))
  BY <1>1, <1>2, <1>4, <1>6 DEF Room
<1>8. Room(f_r_arlen, rg_r_beat_count, Len(s_rd_data), Len(s_rd_addr))
  BY <1>1, <1>2, <1>5, <1>6 DEF Room
<1>9. QED
  BY <1>7, <1>8

\* The types of what the mapping is made of.
LEMMA Mapped ==
    IInv => /\ WrWay \in Seq(BeatSet) /\ Len(WrWay) = Len(s_wr_addr) /\ WrSend \in Seq(BeatSet)
            /\ RdWay \in Seq(BeatSet) /\ RdSend \in Seq(BeatSet)
            /\ rd_data \in Seq(Item) /\ RdMarked \in Seq(Item)
            /\ Joining \in JoinState /\ Noted(Joining, Len(s_wr_resp))
<1> SUFFICES ASSUME IInv
    PROVE  /\ WrWay \in Seq(BeatSet) /\ Len(WrWay) = Len(s_wr_addr) /\ WrSend \in Seq(BeatSet)
           /\ RdWay \in Seq(BeatSet) /\ RdSend \in Seq(BeatSet)
           /\ rd_data \in Seq(Item) /\ RdMarked \in Seq(Item)
           /\ Joining \in JoinState /\ Noted(Joining, Len(s_wr_resp))
  OBVIOUS
<1>1. /\ wr_addr \in Seq(AllBursts) /\ s_wr_addr \in Seq(Addrs) /\ f_w_awlen \in Seq(Nat)
      /\ rd_addr \in Seq(AllBursts) /\ s_rd_addr \in Seq(Addrs) /\ f_r_arlen \in Seq(Nat)
      /\ s_rd_data \in Seq(Data) /\ rd_data \in Seq(Item)
  BY DEF IInv, TypeOK, Item
<1>2. WrWay \in Seq(BeatSet) /\ Len(WrWay) = Len(s_wr_addr)
  <2>1. PICK n \in Nat : n = rg_b_beat_count + Len(s_wr_resp) /\ n + Len(s_wr_addr) <= BeatsIn(f_w_awlen)
    BY Rooms DEF Room
  <2>2. QED
    BY <1>1, <2>1, WayProperties DEF WrWay
<1>3. RdWay \in Seq(BeatSet)
  <2>1. PICK n \in Nat : n = rg_r_beat_count + Len(s_rd_data) /\ n + Len(s_rd_addr) <= BeatsIn(f_r_arlen)
    BY Rooms DEF Room
  <2>2. QED
    BY <1>1, <2>1, WayProperties DEF RdWay
<1>4. RdMarked \in Seq(Item)
  <2>1. rg_r_beat_count \in Nat /\ rg_r_beat_count + Len(s_rd_data) <= BeatsIn(f_r_arlen)
    BY Rooms DEF Room
  <2>2. QED
    BY <1>1, <2>1, MarkedProperties DEF RdMarked
<1>5. WrSend \in Seq(BeatSet) /\ RdSend \in Seq(BeatSet)
  <2>1. ASSUME NEW bursts \in Seq(AllBursts), NEW beat, NEW last, NEW lens,
               RequestSide(bursts, beat, last, lens)
        PROVE  ToSend(bursts, beat) \in Seq(BeatSet)
    <3>1. CASE bursts = <<>>
      <4>1. beat = 0
        BY <2>1, <3>1 DEF RequestSide
      <4>2. FlattenSeq([i \in DOMAIN <<>> |-> BeatsOf(<<>>[i])]) = <<>>
        BY DEF FlattenSeq
      <4>3. ToSend(bursts, beat) = <<>>
        BY <3>1, <4>1, <4>2 DEF ToSend
      <4>4. QED
        BY <4>3
    <3>2. CASE bursts # <<>>
      <4>1. Head(bursts) \in AllBursts
        BY <3>2, HeadTailProperties
      <4>2. QED
        BY <2>1, <4>1, SendAppend
    <3>3. QED
      BY <3>1, <3>2
  <2>2. /\ RequestSide(wr_addr, rg_w_beat_count, rg_last_beat_waddr, f_w_awlen)
        /\ RequestSide(rd_addr, rg_ar_beat_count, rg_last_beat_raddr, f_r_arlen)
    BY DEF IInv, WrSides, RdSides, Sides
  <2>3. QED
    BY <1>1, <2>1, <2>2 DEF WrSend, RdSend
<1>6. Joining \in JoinState /\ Noted(Joining, Len(s_wr_resp))
  <2>1. rg_b_beat_count + Len(s_wr_resp) <= BeatsIn(f_w_awlen)
    BY Rooms DEF Room
  <2>2. ResponseSide(f_w_awlen, rg_b_beat_count)
    BY DEF IInv, WrSides, Sides
  <2>3. QED
    BY <2>1, <2>2, States DEF Noted
<1>7. QED
  BY <1>1, <1>2, <1>3, <1>4, <1>5, <1>6

LEMMA Nothing ==
    /\ ToSend(<<>>, 0) = <<>>
    /\ \A lens, n : OnTheWay(<<>>, lens, n) = <<>> /\ Marked(<<>>, lens, n) = <<>>
<1>1. FlattenSeq([i \in DOMAIN <<>> |-> BeatsOf(<<>>[i])]) = <<>>
  BY DEF FlattenSeq
<1>2. ToSend(<<>>, 0) = <<>>
  BY <1>1 DEF ToSend
<1>3. QED
  BY <1>2 DEF OnTheWay, Marked

LEMMA RefinesInit == Init => B!Init
<1> SUFFICES ASSUME Init PROVE B!Init
  OBVIOUS
<1>1. B!Addrs = Addrs
  <2>1. ASSUME NEW b \in WrBursts \cup RdBursts
        PROVE  {B!BeatAddr(b, k) : k \in 0 .. b.len} = {Addresses(b)[k] : k \in 0 .. b.len}
    BY BeatAddresses DEF AllBursts
  <2>2. QED
    BY <2>1 DEF Addrs, B!Addrs
<1>2. mem \in [B!Addrs -> Data]
  BY <1>1 DEF Init
<1>3. Joined(Joining, <<>>) = Joining /\ Joining.resp = "OKAY" /\ Joining.out = <<>>
  BY JoinedNone DEF Init, Joining
<1>4. <<>> \o <<>> = <<>>
  OBVIOUS
<1>5. /\ s_wr_addr = <<>> /\ wr_addr = <<>> /\ rg_w_beat_count = 0
      /\ s_wr_data = <<>> /\ wr_data = <<>> /\ s_wr_resp = <<>>
      /\ s_rd_addr = <<>> /\ rd_addr = <<>> /\ rg_ar_beat_count = 0
      /\ s_rd_data = <<>> /\ rd_data = <<>>
  BY DEF Init
<1>6. /\ OnTheWay(s_wr_addr, f_w_awlen, rg_b_beat_count + Len(s_wr_resp))
            \o ToSend(wr_addr, rg_w_beat_count) = <<>>
      /\ OnTheWay(s_rd_addr, f_r_arlen, rg_r_beat_count + Len(s_rd_data))
            \o ToSend(rd_addr, rg_ar_beat_count) = <<>>
      /\ rd_data \o Marked(s_rd_data, f_r_arlen, rg_r_beat_count) = <<>>
      /\ s_wr_data \o wr_data = <<>>
  BY <1>4, <1>5, Nothing
<1>7. QED
  BY <1>2, <1>3, <1>5, <1>6 DEF B!Init

LEMMA RefinesReset == IInv /\ rl_reset => UNCHANGED B!vars
<1> SUFFICES ASSUME IInv, rl_reset PROVE UNCHANGED B!vars
  OBVIOUS
<1>1. UNCHANGED <<wrVars, rdVars, mem>>
  BY DEF IInv, AtReset, rl_reset, wrVars, rdVars
<1>2. QED
  BY <1>1, AbsWrSame, AbsRdSame, AbsVars

\* The request rules move a beat from what is still to be sent to what is on its
\* way.
LEMMA RefinesWrRequest == IInv /\ rl_wr_xaction_master_to_slave => UNCHANGED B!vars
<1> SUFFICES ASSUME IInv, rl_wr_xaction_master_to_slave PROVE UNCHANGED B!vars
  OBVIOUS
<1>1. /\ wr_addr \in Seq(AllBursts) /\ wr_addr # <<>> /\ wr_data \in Seq(Data) /\ wr_data # <<>>
      /\ f_w_awlen \in Seq(Nat) /\ s_wr_addr \in Seq(Addrs) /\ s_wr_data \in Seq(Data)
      /\ s_wr_resp \in Seq(Resp) /\ Len(s_wr_resp) \in Nat /\ Len(s_wr_addr) \in Nat
  BY Lengths DEF rl_wr_xaction_master_to_slave, IInv, TypeOK
<1>2. PICK b \in AllBursts : b = Head(wr_addr)
  BY <1>1, HeadTailProperties
<1>3. Requested(b, wr_addr, rg_w_beat_count, rg_last_beat_waddr, f_w_awlen,
                rg_last_beat_waddr', wr_addr', rg_w_beat_count', f_w_awlen')
  BY <1>1, <1>2 DEF rl_wr_xaction_master_to_slave, Requested
<1>4. PICK n \in Nat, r \in Nat : n = r + Len(s_wr_addr) /\ r = Len(s_wr_resp)
  BY <1>1
<1>5. /\ s_wr_addr' = Append(s_wr_addr, rg_last_beat_waddr')
      /\ s_wr_data' = Append(s_wr_data, Head(wr_data)) /\ wr_data' = Tail(wr_data)
      /\ UNCHANGED <<rg_reset, wr_resp, rg_b_beat_count, rg_b_resp, s_wr_resp, rdVars, mem>>
  BY DEF rl_wr_xaction_master_to_slave
<1>6. /\ OnTheWay(Append(s_wr_addr, rg_last_beat_waddr'), f_w_awlen',
                  rg_b_beat_count + Len(s_wr_resp)) \o ToSend(wr_addr', rg_w_beat_count')
            = WrWay \o WrSend
  <2>1. Sides(wr_addr, rg_w_beat_count, rg_last_beat_waddr, f_w_awlen, rg_b_beat_count, n)
    BY <1>4 DEF IInv, WrSides
  <2>2. Moved(s_wr_addr, f_w_awlen, wr_addr, rg_w_beat_count, rg_last_beat_waddr',
              f_w_awlen', wr_addr', rg_w_beat_count', rg_b_beat_count + r)
    BY <1>1, <1>3, <1>4, <2>1, RequestMoves
  <2>3. QED
    BY <1>4, <2>2 DEF Moved, WrWay, WrSend
<1>7. (WrWay \o WrSend)' = WrWay \o WrSend
  BY <1>5, <1>6 DEF WrWay, WrSend
<1>8. (s_wr_data \o wr_data)' = s_wr_data \o wr_data
  BY <1>1, <1>5, MoveOne
<1>9. WrJoined'.resp = WrJoined.resp /\ WrJoined'.out = WrJoined.out
  <2>1. CASE rg_w_beat_count = 0
    <3>1. PICK l \in Nat : l = b.len
      BY BurstFields
    <3>2. f_w_awlen' = Append(f_w_awlen, l)
      BY <1>3, <2>1, <3>1 DEF Requested
    <3>3. Joining' = Longer(Joining, l)
      BY <1>5, <3>2 DEF Joining, Longer
    <3>4. Joined(Longer(Joining, l), s_wr_resp) = Longer(WrJoined, l)
      BY <1>1, Mapped, JoinedLonger DEF WrJoined
    <3>5. WrJoined' = Longer(WrJoined, l)
      BY <1>5, <3>3, <3>4 DEF WrJoined
    <3>6. QED
      BY <3>5 DEF Longer
  <2>2. CASE rg_w_beat_count # 0
    <3>1. f_w_awlen' = f_w_awlen
      BY <1>3, <2>2 DEF Requested
    <3>2. QED
      BY <1>5, <3>1 DEF WrJoined, Joining
  <2>3. QED
    BY <2>1, <2>2
<1>10. UNCHANGED AbsWr
  BY <1>7, <1>8, <1>9 DEF AbsWr
<1>11. QED
  BY <1>5, <1>10, AbsRdSame, AbsVars

LEMMA RefinesRdRequest == IInv /\ rl_rd_xaction_master_to_slave => UNCHANGED B!vars
<1> SUFFICES ASSUME IInv, rl_rd_xaction_master_to_slave PROVE UNCHANGED B!vars
  OBVIOUS
<1>1. /\ rd_addr \in Seq(AllBursts) /\ rd_addr # <<>>
      /\ f_r_arlen \in Seq(Nat) /\ s_rd_addr \in Seq(Addrs) /\ s_rd_data \in Seq(Data)
      /\ Len(s_rd_data) \in Nat /\ Len(s_rd_addr) \in Nat
  BY Lengths DEF rl_rd_xaction_master_to_slave, IInv, TypeOK
<1>2. PICK b \in AllBursts : b = Head(rd_addr)
  BY <1>1, HeadTailProperties
<1>3. Requested(b, rd_addr, rg_ar_beat_count, rg_last_beat_raddr, f_r_arlen,
                rg_last_beat_raddr', rd_addr', rg_ar_beat_count', f_r_arlen')
  BY <1>1, <1>2 DEF rl_rd_xaction_master_to_slave, Requested
<1>4. PICK n \in Nat, r \in Nat : n = r + Len(s_rd_addr) /\ r = Len(s_rd_data)
  BY <1>1
<1>5. /\ s_rd_addr' = Append(s_rd_addr, rg_last_beat_raddr')
      /\ UNCHANGED <<rg_reset, wrVars, rd_data, rg_r_beat_count, s_rd_data, mem>>
  BY DEF rl_rd_xaction_master_to_slave
<1>6. /\ OnTheWay(Append(s_rd_addr, rg_last_beat_raddr'), f_r_arlen',
                  rg_r_beat_count + Len(s_rd_data)) \o ToSend(rd_addr', rg_ar_beat_count')
            = RdWay \o RdSend
      /\ \A i \in 1 .. BeatsIn(f_r_arlen) : LastFlags(f_r_arlen')[i] = LastFlags(f_r_arlen)[i]
  <2>1. Sides(rd_addr, rg_ar_beat_count, rg_last_beat_raddr, f_r_arlen, rg_r_beat_count, n)
    BY <1>4 DEF IInv, RdSides
  <2>2. Moved(s_rd_addr, f_r_arlen, rd_addr, rg_ar_beat_count, rg_last_beat_raddr',
              f_r_arlen', rd_addr', rg_ar_beat_count', rg_r_beat_count + r)
    BY <1>1, <1>3, <1>4, <2>1, RequestMoves
  <2>3. QED
    BY <1>4, <2>2 DEF Moved, RdWay, RdSend
<1>7. (RdWay \o RdSend)' = RdWay \o RdSend
  BY <1>5, <1>6 DEF RdWay, RdSend
<1>8. RdMarked' = RdMarked
  <2>1. Room(f_r_arlen, rg_r_beat_count, Len(s_rd_data), Len(s_rd_addr))
    BY Rooms
  <2>2. ASSUME NEW i \in 1 .. Len(s_rd_data)
        PROVE  LastFlags(f_r_arlen')[rg_r_beat_count + i] = LastFlags(f_r_arlen)[rg_r_beat_count + i]
    <3>1. rg_r_beat_count + i \in 1 .. BeatsIn(f_r_arlen)
      BY <2>1 DEF Room
    <3>2. QED
      BY <3>1, <1>6
  <2>3. SameFlags(Len(s_rd_data), f_r_arlen, rg_r_beat_count, f_r_arlen', rg_r_beat_count)
    BY <2>2 DEF SameFlags
  <2>4. Marked(s_rd_data, f_r_arlen', rg_r_beat_count) = RdMarked
    BY <1>1, <2>3, MarkedEqual DEF RdMarked
  <2>5. QED
    BY <1>5, <2>4 DEF RdMarked
<1>9. UNCHANGED AbsRd
  BY <1>5, <1>7, <1>8 DEF AbsRd
<1>10. QED
  BY <1>5, <1>9, AbsWrSame, AbsVars

\* The response rules count a response, and leave what the responses mean as it is.
LEMMA RefinesWrResponse == IInv /\ rl_wr_resp_slave_to_master => UNCHANGED B!vars
<1> SUFFICES ASSUME IInv, rl_wr_resp_slave_to_master PROVE UNCHANGED B!vars
  OBVIOUS
<1>1. /\ f_w_awlen \in Seq(Nat) /\ f_w_awlen # <<>> /\ s_wr_addr \in Seq(Addrs)
      /\ s_wr_resp \in Seq(Resp) /\ s_wr_resp # <<>>
  BY DEF rl_wr_resp_slave_to_master, IInv, TypeOK
<1>2. PICK r \in Resp : r = Head(s_wr_resp)
  BY <1>1, HeadTailProperties
<1>3. PICK st \in JoinState :
          /\ st = JoinResp(Joining, r)
          /\ Answered(f_w_awlen, rg_b_beat_count, st.awlen, st.beat)
  BY <1>1, States, JoinStep
<1>4. /\ f_w_awlen' = st.awlen /\ rg_b_beat_count' = st.beat /\ rg_b_resp' = st.resp
      /\ wr_resp' = st.out /\ s_wr_resp' = Tail(s_wr_resp)
      /\ UNCHANGED <<rg_reset, wr_addr, wr_data, rg_w_beat_count, rg_last_beat_waddr,
                     s_wr_addr, s_wr_data, rdVars, mem>>
  BY <1>2, <1>3 DEF rl_wr_resp_slave_to_master
<1>5. PICK n \in Nat \ {0} : n = Len(s_wr_resp)
  BY <1>1, LenProperties, EmptySeq
<1>6. Len(s_wr_resp') = n - 1
  BY <1>1, <1>4, <1>5, HeadTailProperties
<1>7. Joining' = st
  BY <1>4 DEF Joining, JoinState
<1>8. WrJoined' = WrJoined
  <2>1. n \in Nat /\ Joining \in JoinState /\ Noted(Joining, n)
    BY <1>5, Mapped
  <2>2. Joined(JoinResp(Joining, Head(s_wr_resp)), Tail(s_wr_resp)) = Joined(Joining, s_wr_resp)
    BY <1>1, <1>5, <2>1, JoinedHead
  <2>3. QED
    BY <1>2, <1>3, <1>4, <1>7, <2>2 DEF WrJoined
<1>9. WrWay' = WrWay
  <2>1. ResponseSide(f_w_awlen, rg_b_beat_count)
    BY DEF IInv, WrSides, Sides
  <2>2. Room(f_w_awlen, rg_b_beat_count, n, Len(s_wr_addr))
    BY <1>5, Rooms
  <2>3. PICK lens2 \in Seq(Nat), beat2 \in Nat, beat \in Nat :
            lens2 = f_w_awlen' /\ beat2 = rg_b_beat_count' /\ beat = rg_b_beat_count
    BY <1>4, <2>2 DEF JoinState, Room
  <2>4. Ahead(f_w_awlen, beat, lens2, beat2, 1)
    BY <1>1, <1>3, <1>4, <2>1, <2>3, FlagsAnswered
  <2>5a. PICK m2 \in Nat : m2 = BeatsIn(lens2)
    <3>1. 0 \in Nat
      OBVIOUS
    <3>2. BeatsIn(lens2) \in Nat
      BY <3>1, FlagsAppend
    <3>3. QED
      BY <3>2
  <2>5b. PICK j \in Nat : j = n - 1
    OBVIOUS
  <2>5c. PICK a \in Nat : a = Len(s_wr_addr)
    BY <1>1, LenProperties
  <2>5. m2 = BeatsIn(lens2) /\ j = n - 1 /\ a = Len(s_wr_addr)
    BY <2>5a, <2>5b, <2>5c
  <2>6. beat2 + j + a <= m2
    <3>1. PICK m \in Nat : m = BeatsIn(f_w_awlen)
      BY <2>2 DEF Room
    <3>2. m = beat + 1 + (m2 - beat2)
      BY <2>4, <2>5, <3>1 DEF Ahead
    <3>3. beat + n + a <= m
      BY <2>2, <2>3, <2>5, <3>1 DEF Room
    <3>4. QED
      BY <2>5, <3>2, <3>3
  <2>7. SameFlags(a, f_w_awlen, beat + 1 + j, lens2, beat2 + j)
    BY <2>4, <2>5, <2>6, AheadSame
  <2>8. beat + 1 + j = rg_b_beat_count + Len(s_wr_resp)
        /\ beat2 + j = rg_b_beat_count' + Len(s_wr_resp')
    BY <1>5, <1>6, <2>3, <2>5
  <2>9. OnTheWay(s_wr_addr, lens2, beat2 + j) = OnTheWay(s_wr_addr, f_w_awlen, beat + 1 + j)
    BY <1>1, <2>5, <2>7, WayEqual
  <2>10. QED
    BY <1>4, <2>3, <2>8, <2>9 DEF WrWay
<1>10. UNCHANGED AbsWr
  BY <1>4, <1>8, <1>9 DEF AbsWr, WrSend
<1>11. QED
  BY <1>4, <1>10, AbsRdSame, AbsVars

LEMMA RefinesRdResponse == IInv /\ rl_rd_resp_slave_to_master => UNCHANGED B!vars
<1> SUFFICES ASSUME IInv, rl_rd_resp_slave_to_master PROVE UNCHANGED B!vars
  OBVIOUS
<1>1. /\ f_r_arlen \in Seq(Nat) /\ f_r_arlen # <<>> /\ s_rd_addr \in Seq(Addrs)
      /\ s_rd_data \in Seq(Data) /\ s_rd_data # <<>> /\ rd_data \in Seq(Item)
  BY DEF rl_rd_resp_slave_to_master, IInv, TypeOK, Item
<1>2. PICK d \in Data : d = Head(s_rd_data)
  BY <1>1, HeadTailProperties
<1>3. PICK st \in MarkState :
          /\ st = MarkLast(Marking, d)
          /\ Answered(f_r_arlen, rg_r_beat_count, st.arlen, st.beat)
          /\ rg_r_beat_count < Head(f_r_arlen) =>
                st.out = Append(rd_data, [data |-> d, last |-> FALSE])
          /\ ~(rg_r_beat_count < Head(f_r_arlen)) =>
                st.out = Append(rd_data, [data |-> d, last |-> TRUE])
  <2>1. /\ Marking \in MarkState /\ Marking.arlen = f_r_arlen /\ Marking.out = rd_data
        /\ Marking.beat = rg_r_beat_count
    BY States
  <2>2. QED
    BY <1>1, <2>1, MarkStep
<1>4. /\ f_r_arlen' = st.arlen /\ rg_r_beat_count' = st.beat /\ rd_data' = st.out
      /\ s_rd_data' = Tail(s_rd_data)
      /\ UNCHANGED <<rg_reset, wrVars, rd_addr, rg_ar_beat_count, rg_last_beat_raddr,
                     s_rd_addr, mem>>
  BY <1>2, <1>3 DEF rl_rd_resp_slave_to_master
<1>5. PICK n \in Nat \ {0} : n = Len(s_rd_data)
  BY <1>1, LenProperties, EmptySeq
<1>6. s_rd_data' \in Seq(Data) /\ Len(s_rd_data') = n - 1
  BY <1>1, <1>4, <1>5, HeadTailProperties
<1>7. ResponseSide(f_r_arlen, rg_r_beat_count)
  BY DEF IInv, RdSides, Sides
<1>8. Room(f_r_arlen, rg_r_beat_count, n, Len(s_rd_addr))
  BY <1>5, Rooms
<1>9. PICK lens2 \in Seq(Nat), beat2 \in Nat, beat \in Nat :
          lens2 = f_r_arlen' /\ beat2 = rg_r_beat_count' /\ beat = rg_r_beat_count
  BY <1>4, <1>8 DEF MarkState, Room
<1>10. /\ Ahead(f_r_arlen, beat, lens2, beat2, 1)
       /\ LastFlags(f_r_arlen)[beat + 1] = ~(beat < Head(f_r_arlen))
  BY <1>1, <1>3, <1>4, <1>7, <1>9, FlagsAnswered
<1>11a. PICK m2 \in Nat : m2 = BeatsIn(lens2)
  <2>1. 0 \in Nat
    OBVIOUS
  <2>2. BeatsIn(lens2) \in Nat
    BY <2>1, FlagsAppend
  <2>3. QED
    BY <2>2
<1>11b. PICK j \in Nat : j = n - 1
  OBVIOUS
<1>11c. PICK a \in Nat : a = Len(s_rd_addr)
  BY <1>1, LenProperties
<1>11. m2 = BeatsIn(lens2) /\ j = n - 1 /\ a = Len(s_rd_addr)
  BY <1>11a, <1>11b, <1>11c
<1>12. beat2 + j + a <= m2
  <2>1. PICK m \in Nat : m = BeatsIn(f_r_arlen)
    BY <1>8 DEF Room
  <2>2. m = beat + 1 + (m2 - beat2)
    BY <1>10, <1>11, <2>1 DEF Ahead
  <2>3. beat + n + a <= m
    BY <1>8, <1>9, <1>11, <2>1 DEF Room
  <2>4. QED
    BY <1>11, <2>2, <2>3
<1>13. RdWay' = RdWay
  <2>1. SameFlags(a, f_r_arlen, beat + 1 + j, lens2, beat2 + j)
    BY <1>10, <1>11, <1>12, AheadSame
  <2>2. beat + 1 + j = rg_r_beat_count + Len(s_rd_data)
        /\ beat2 + j = rg_r_beat_count' + Len(s_rd_data')
    BY <1>5, <1>6, <1>9, <1>11
  <2>3. OnTheWay(s_rd_addr, lens2, beat2 + j) = OnTheWay(s_rd_addr, f_r_arlen, beat + 1 + j)
    BY <1>1, <1>11, <2>1, WayEqual
  <2>4. QED
    BY <1>4, <1>9, <2>2, <2>3 DEF RdWay
<1>14. RdMarked' = Tail(RdMarked)
  <2>1. 0 \in Nat /\ beat2 + 0 + j <= m2 /\ beat + 1 + 0 = beat + 1 /\ beat2 + 0 = beat2
    BY <1>12
  <2>2. SameFlags(j, f_r_arlen, beat + 1 + 0, lens2, beat2 + 0)
    BY <1>10, <1>11, <2>1, AheadSame
  <2>3. SameFlags(Len(s_rd_data'), f_r_arlen, beat + 1, lens2, beat2)
    BY <1>6, <1>11, <2>1, <2>2
  <2>4. Marked(s_rd_data', lens2, beat2) = Marked(s_rd_data', f_r_arlen, beat + 1)
    BY <1>6, <2>3, MarkedEqual
  <2>5. beat + Len(s_rd_data) <= BeatsIn(f_r_arlen)
    BY <1>5, <1>8, <1>9 DEF Room
  <2>6. Tail(Marked(s_rd_data, f_r_arlen, beat)) = Marked(Tail(s_rd_data), f_r_arlen, beat + 1)
    BY <1>1, <2>5, MarkedTail
  <2>7. QED
    BY <1>4, <1>9, <2>4, <2>6 DEF RdMarked
<1>15. RdMarked # <<>> /\ rd_data' = Append(rd_data, Head(RdMarked))
  <2>1. beat + Len(s_rd_data) <= BeatsIn(f_r_arlen)
    BY <1>5, <1>8, <1>9 DEF Room
  <2>2. /\ RdMarked # <<>>
        /\ Head(RdMarked) = [data |-> d, last |-> LastFlags(f_r_arlen)[beat + 1]]
    BY <1>1, <1>2, <1>9, <2>1, MarkedTail DEF RdMarked
  <2>3. CASE beat < Head(f_r_arlen)
    <3>1. Head(RdMarked) = [data |-> d, last |-> FALSE]
      BY <1>10, <2>2, <2>3
    <3>2. QED
      BY <1>3, <1>4, <1>9, <2>2, <2>3, <3>1
  <2>4. CASE ~(beat < Head(f_r_arlen))
    <3>1. Head(RdMarked) = [data |-> d, last |-> TRUE]
      BY <1>10, <2>2, <2>4
    <3>2. QED
      BY <1>3, <1>4, <1>9, <2>2, <2>4, <3>1
  <2>5. QED
    BY <2>3, <2>4
<1>16. (rd_data \o RdMarked)' = rd_data \o RdMarked
  <2>1. RdMarked \in Seq(Item)
    BY Mapped
  <2>2. Append(rd_data, Head(RdMarked)) \o Tail(RdMarked) = rd_data \o RdMarked
    BY <1>1, <1>15, <2>1, MoveOne
  <2>3. QED
    BY <1>14, <1>15, <2>2
<1>17. UNCHANGED AbsRd
  BY <1>4, <1>13, <1>16 DEF AbsRd, RdSend
<1>18. QED
  BY <1>4, <1>17, AbsWrSame, AbsVars

\* A burst the master sends is its beats, in order and at the addresses AXI4 names.
LEMMA RefinesMasterWrite == IInv /\ (\E b \in WrBursts : MasterWrite(b)) => B!Next
<1> SUFFICES ASSUME IInv, NEW b \in WrBursts, MasterWrite(b) PROVE B!Next
  OBVIOUS
<1>1. wr_addr \in Seq(AllBursts) /\ b \in AllBursts
  BY DEF IInv, TypeOK, AllBursts
<1>2. /\ wr_addr' = Append(wr_addr, b)
      /\ UNCHANGED <<rg_reset, wr_data, wr_resp, rg_w_beat_count, rg_last_beat_waddr, f_w_awlen,
                     rg_b_beat_count, rg_b_resp, s_wr_addr, s_wr_data, s_wr_resp, rdVars, mem>>
  BY DEF MasterWrite
<1>3. RequestSide(wr_addr, rg_w_beat_count, rg_last_beat_waddr, f_w_awlen)
  BY DEF IInv, WrSides, Sides
<1>4. ToSend(Append(wr_addr, b), rg_w_beat_count) = WrSend \o BeatsOf(b)
  BY <1>1, <1>3, SendAppend DEF WrSend
<1>5. PICK way \in Seq(BeatSet), send \in Seq(BeatSet), beats \in Seq(BeatSet) :
          way = WrWay /\ send = WrSend /\ beats = BeatsOf(b)
  BY <1>1, Mapped, BeatsOfBurst
<1>6. way \o (send \o beats) = (way \o send) \o beats
  OBVIOUS
<1>7. beats = B!Beats(b)
  BY <1>1, <1>5, BeatsOfBurst
<1>8. WrWay' = way /\ WrSend' = send \o beats
  BY <1>2, <1>4, <1>5 DEF WrWay, WrSend
<1>9. (WrWay \o WrSend)' = (WrWay \o WrSend) \o B!Beats(b)
  BY <1>5, <1>6, <1>7, <1>8
<1>10. UNCHANGED <<mem, s_wr_data \o wr_data, WrJoined.resp, WrJoined.out, AbsRd>>
  BY <1>2, AbsRdSame DEF WrJoined, Joining
<1>11. B!WriteBurst(b)
  BY <1>9, <1>10 DEF B!WriteBurst, AbsRd, WrWay, WrSend, WrJoined, RdWay, RdSend, RdMarked
<1>12. QED
  BY <1>11 DEF B!Next

LEMMA RefinesMasterRead == IInv /\ (\E b \in RdBursts : MasterRead(b)) => B!Next
<1> SUFFICES ASSUME IInv, NEW b \in RdBursts, MasterRead(b) PROVE B!Next
  OBVIOUS
<1>1. rd_addr \in Seq(AllBursts) /\ b \in AllBursts
  BY DEF IInv, TypeOK, AllBursts
<1>2. /\ rd_addr' = Append(rd_addr, b)
      /\ UNCHANGED <<rg_reset, wrVars, rd_data, rg_ar_beat_count, rg_last_beat_raddr, f_r_arlen,
                     rg_r_beat_count, s_rd_addr, s_rd_data, mem>>
  BY DEF MasterRead
<1>3. RequestSide(rd_addr, rg_ar_beat_count, rg_last_beat_raddr, f_r_arlen)
  BY DEF IInv, RdSides, Sides
<1>4. ToSend(Append(rd_addr, b), rg_ar_beat_count) = RdSend \o BeatsOf(b)
  BY <1>1, <1>3, SendAppend DEF RdSend
<1>5. PICK way \in Seq(BeatSet), send \in Seq(BeatSet), beats \in Seq(BeatSet) :
          way = RdWay /\ send = RdSend /\ beats = BeatsOf(b)
  BY <1>1, Mapped, BeatsOfBurst
<1>6. way \o (send \o beats) = (way \o send) \o beats
  OBVIOUS
<1>7. beats = B!Beats(b)
  BY <1>1, <1>5, BeatsOfBurst
<1>8. RdWay' = way /\ RdSend' = send \o beats
  BY <1>2, <1>4, <1>5 DEF RdWay, RdSend
<1>9. (RdWay \o RdSend)' = (RdWay \o RdSend) \o B!Beats(b)
  BY <1>5, <1>6, <1>7, <1>8
<1>10. UNCHANGED <<mem, rd_data \o RdMarked, AbsWr>>
  BY <1>2, AbsWrSame DEF RdMarked
<1>11. B!ReadBurst(b)
  BY <1>9, <1>10 DEF B!ReadBurst, AbsWr, WrWay, WrSend, WrJoined, RdWay, RdSend, RdMarked
<1>12. QED
  BY <1>11 DEF B!Next

\* The master sends no more data than its bursts have beats.
LEMMA RefinesMasterData == IInv /\ (\E d \in Data : MasterData(d)) => B!Next
<1> SUFFICES ASSUME IInv, NEW d \in Data, MasterData(d) PROVE B!Next
  OBVIOUS
<1>1. /\ s_wr_data \in Seq(Data) /\ wr_data \in Seq(Data)
      /\ Len(s_wr_addr) = Len(s_wr_data)
  BY DEF IInv, TypeOK, Paired
<1>2. /\ Len(WrSend) - Len(wr_data) > 0 /\ wr_data' = Append(wr_data, d)
      /\ UNCHANGED <<rg_reset, wr_addr, wr_resp, rg_w_beat_count, rg_last_beat_waddr, f_w_awlen,
                     rg_b_beat_count, rg_b_resp, s_wr_addr, s_wr_data, s_wr_resp, rdVars, mem>>
  BY DEF MasterData, Missing, WrSend
<1>3. PICK way \in Seq(BeatSet), send \in Seq(BeatSet) : way = WrWay /\ send = WrSend
  BY Mapped
<1>4. Len(way) = Len(s_wr_data) /\ Len(send) - Len(wr_data) > 0
  BY <1>1, <1>2, <1>3, Mapped
<1>5. PICK sent \in Seq(Data), data \in Seq(Data) : sent = s_wr_data /\ data = wr_data
  BY <1>1
<1>6. Len(sent \o data) < Len(way \o send)
  <2>1. Len(way \o send) = Len(way) + Len(send) /\ Len(sent \o data) = Len(sent) + Len(data)
    OBVIOUS
  <2>2. Len(way) \in Nat /\ Len(send) \in Nat /\ Len(sent) \in Nat /\ Len(data) \in Nat
    BY LenProperties
  <2>3. QED
    BY <1>4, <1>5, <2>1, <2>2
<1>7. sent \o Append(data, d) = Append(sent \o data, d)
  OBVIOUS
<1>8. UNCHANGED <<mem, WrWay \o WrSend, WrJoined.resp, WrJoined.out, AbsRd>>
  BY <1>2, AbsRdSame DEF WrWay, WrSend, WrJoined, Joining
<1>9. /\ Len(s_wr_data \o wr_data) < Len(WrWay \o WrSend)
      /\ (s_wr_data \o wr_data)' = Append(s_wr_data \o wr_data, d)
  BY <1>2, <1>3, <1>5, <1>6, <1>7
<1>10. B!WriteData(d)
  BY <1>8, <1>9 DEF B!WriteData, AbsRd, WrWay, WrSend, WrJoined, RdWay, RdSend, RdMarked
<1>11. QED
  BY <1>10 DEF B!Next

\* The answers that wait for the master come before those of the responses on
\* their way.
LEMMA RefinesTakesResp == IInv /\ MasterTakesResp => B!Next
<1> SUFFICES ASSUME IInv, MasterTakesResp PROVE B!Next
  OBVIOUS
<1>1. wr_resp # <<>> /\ s_wr_resp \in Seq(Resp)
  BY DEF MasterTakesResp, IInv, TypeOK
<1>2. /\ wr_resp' = Tail(wr_resp)
      /\ UNCHANGED <<rg_reset, wr_addr, wr_data, rg_w_beat_count, rg_last_beat_waddr, f_w_awlen,
                     rg_b_beat_count, rg_b_resp, s_wr_addr, s_wr_data, s_wr_resp, rdVars, mem>>
  BY DEF MasterTakesResp
<1>3. PICK n \in Nat : n = Len(s_wr_resp)
  BY <1>1, LenProperties
<1>4. /\ Joining \in JoinState /\ Joining.out # <<>> /\ Noted(Joining, n)
  BY <1>1, <1>3, Mapped, States
<1>5. Joining' = Taken(Joining)
  BY <1>2 DEF Joining, Taken
<1>6. /\ WrJoined.out # <<>>
      /\ Joined(Taken(Joining), s_wr_resp) = Taken(WrJoined)
  BY <1>1, <1>3, <1>4, JoinedTaken DEF WrJoined
<1>7. WrJoined' = Taken(WrJoined)
  BY <1>2, <1>5, <1>6 DEF WrJoined
<1>8. WrJoined'.resp = WrJoined.resp /\ WrJoined'.out = Tail(WrJoined.out)
  BY <1>7 DEF Taken
<1>9. UNCHANGED <<mem, WrWay \o WrSend, s_wr_data \o wr_data, AbsRd>>
  BY <1>2, AbsRdSame DEF WrWay, WrSend
<1>10. B!TakeAnswer
  BY <1>6, <1>8, <1>9 DEF B!TakeAnswer, AbsRd, WrWay, WrSend, WrJoined, RdWay, RdSend, RdMarked
<1>11. QED
  BY <1>10 DEF B!Next

LEMMA RefinesTakesData == IInv /\ MasterTakesData => B!Next
<1> SUFFICES ASSUME IInv, MasterTakesData PROVE B!Next
  OBVIOUS
<1>1. /\ rd_data # <<>> /\ rd_data' = Tail(rd_data)
      /\ UNCHANGED <<rg_reset, wrVars, rd_addr, rg_ar_beat_count, rg_last_beat_raddr, f_r_arlen,
                     rg_r_beat_count, s_rd_addr, s_rd_data, mem>>
  BY DEF MasterTakesData
<1>2. rd_data \in Seq(Item) /\ RdMarked \in Seq(Item)
  BY Mapped
<1>3. /\ rd_data \o RdMarked # <<>>
      /\ Tail(rd_data \o RdMarked) = Tail(rd_data) \o RdMarked
  BY <1>1, <1>2, HeadOfTwo
<1>4. UNCHANGED <<mem, RdWay \o RdSend, RdMarked, AbsWr>>
  BY <1>1, AbsWrSame DEF RdWay, RdSend, RdMarked
<1>5. (rd_data \o RdMarked)' = Tail(rd_data \o RdMarked)
  BY <1>1, <1>3, <1>4
<1>6. B!TakeData
  BY <1>3, <1>4, <1>5 DEF B!TakeData, AbsWr, WrWay, WrSend, WrJoined, RdWay, RdSend, RdMarked
<1>7. QED
  BY <1>6 DEF B!Next

\* The slave takes the first beat that is to be made, and its response is for that
\* beat: it ends the burst if the beat was its last.
LEMMA RefinesSlaveWrite == IInv /\ (\E r \in Resp : SlaveWrite(r)) => B!Next
<1> SUFFICES ASSUME IInv, NEW r \in Resp, SlaveWrite(r) PROVE B!Next
  OBVIOUS
<1>1. /\ s_wr_addr \in Seq(Addrs) /\ s_wr_addr # <<>> /\ s_wr_data \in Seq(Data)
      /\ s_wr_data # <<>> /\ s_wr_resp \in Seq(Resp) /\ wr_data \in Seq(Data)
      /\ f_w_awlen \in Seq(Nat)
  BY DEF SlaveWrite, IInv, TypeOK
<1>2. /\ mem' = IF r = "OKAY" THEN [mem EXCEPT ![Head(s_wr_addr)] = Head(s_wr_data)] ELSE mem
      /\ s_wr_addr' = Tail(s_wr_addr) /\ s_wr_data' = Tail(s_wr_data)
      /\ s_wr_resp' = Append(s_wr_resp, r)
      /\ UNCHANGED <<rg_reset, wr_addr, wr_data, wr_resp, rg_w_beat_count, rg_last_beat_waddr,
                     f_w_awlen, rg_b_beat_count, rg_b_resp, rdVars>>
  BY DEF SlaveWrite
<1>3. PICK n \in Nat, beat \in Nat : n = Len(s_wr_resp) /\ beat = rg_b_beat_count
  BY Rooms DEF Room
<1>4. PICK a \in Nat \ {0} : a = Len(s_wr_addr)
  BY <1>1, LenProperties, EmptySeq
<1>5. PICK m \in Nat : m = BeatsIn(f_w_awlen) /\ beat + n + a <= m
  BY <1>3, <1>4, Rooms DEF Room
<1>6. PICK c \in Nat : c = beat + n
  OBVIOUS
<1>7. WrWay = OnTheWay(s_wr_addr, f_w_awlen, c)
  BY <1>3, <1>6 DEF WrWay
<1>8. /\ WrWay # <<>> /\ Head(WrWay).addr = Head(s_wr_addr)
      /\ Head(WrWay).last = LastFlags(f_w_awlen)[c + 1]
      /\ Tail(WrWay) = OnTheWay(Tail(s_wr_addr), f_w_awlen, c + 1)
  <2>1. c + Len(s_wr_addr) <= BeatsIn(f_w_awlen)
    BY <1>4, <1>5, <1>6
  <2>2. QED
    BY <1>1, <1>7, <2>1, WayTail
<1>9. /\ WrWay \o WrSend # <<>> /\ Head(WrWay \o WrSend) = Head(WrWay)
      /\ Tail(WrWay \o WrSend) = Tail(WrWay) \o WrSend
  BY <1>8, Mapped, HeadOfTwo
<1>10. /\ s_wr_data \o wr_data # <<>> /\ Head(s_wr_data \o wr_data) = Head(s_wr_data)
       /\ Tail(s_wr_data \o wr_data) = Tail(s_wr_data) \o wr_data
  BY <1>1, HeadOfTwo
<1>11. (WrWay \o WrSend)' = Tail(WrWay \o WrSend)
  <2>1. Len(Append(s_wr_resp, r)) = n + 1
    BY <1>1, <1>3, AppendProperties
  <2>2. rg_b_beat_count' + Len(s_wr_resp') = c + 1
    BY <1>2, <1>3, <1>6, <2>1
  <2>3. WrWay' = Tail(WrWay) /\ WrSend' = WrSend
    BY <1>2, <1>8, <2>2 DEF WrWay, WrSend
  <2>4. QED
    BY <1>9, <2>3
<1>12. (s_wr_data \o wr_data)' = Tail(s_wr_data \o wr_data)
  BY <1>2, <1>10
<1>13. Joining \in JoinState /\ Noted(Joining, n + 1)
  <2>1. ResponseSide(f_w_awlen, rg_b_beat_count)
    BY DEF IInv, WrSides, Sides
  <2>2. beat + (n + 1) <= m
    BY <1>5
  <2>3. QED
    BY <1>3, <1>5, <2>1, <2>2, States DEF Noted
<1>14. /\ WrJoined \in JoinState
       /\ Joined(Joining, Append(s_wr_resp, r)) = JoinResp(WrJoined, r)
       /\ LastFlags(Joining.awlen)[Joining.beat + n + 1]
             = ~(WrJoined.beat < Head(WrJoined.awlen))
  BY <1>1, <1>3, <1>13, JoinedNext DEF WrJoined
<1>15. WrJoined' = JoinResp(WrJoined, r)
  <2>1. Joining' = Joining
    BY <1>2 DEF Joining
  <2>2. QED
    BY <1>2, <1>14, <2>1 DEF WrJoined
<1>16. Head(WrWay).last = ~(WrJoined.beat < Head(WrJoined.awlen))
  <2>1. Joining.awlen = f_w_awlen /\ Joining.beat + n + 1 = c + 1
    BY <1>3, <1>6, States
  <2>2. QED
    BY <1>8, <1>14, <2>1
<1>17. PICK awlen \in Seq(Nat), bt \in Nat, resp \in Resp, out \in Seq(Resp) :
           WrJoined = [awlen |-> awlen, beat |-> bt, resp |-> resp, out |-> out]
  BY <1>14 DEF JoinState
<1>18. PICK x \in Resp : x = IF resp = "OKAY" THEN r ELSE resp
  OBVIOUS
<1>19. AfterJoin(JoinResp(WrJoined, r), awlen, bt, x, out)
  BY <1>17, <1>18, JoinForm DEF Fields
<1>20. x = B!First(WrJoined.resp, r)
  BY <1>17, <1>18 DEF B!First
<1>21. IF Head(WrWay \o WrSend).last
       THEN WrJoined'.resp = "OKAY" /\ WrJoined'.out = Append(WrJoined.out, x)
       ELSE WrJoined'.resp = x /\ WrJoined'.out = WrJoined.out
  <2>1. WrJoined.beat = bt /\ WrJoined.awlen = awlen /\ WrJoined.out = out
    BY <1>17
  <2>2. CASE bt < Head(awlen)
    <3>1. ~Head(WrWay \o WrSend).last
      BY <1>9, <1>16, <2>1, <2>2
    <3>2. WrJoined' = [awlen |-> awlen, beat |-> bt + 1, resp |-> x, out |-> out]
      BY <1>15, <1>19, <2>2 DEF AfterJoin, Fields
    <3>3. QED
      BY <2>1, <3>1, <3>2
  <2>3. CASE ~(bt < Head(awlen))
    <3>1. Head(WrWay \o WrSend).last
      BY <1>9, <1>16, <2>1, <2>3
    <3>2. WrJoined' = [awlen |-> Tail(awlen), beat |-> 0, resp |-> "OKAY",
                       out |-> Append(out, x)]
      BY <1>15, <1>19, <2>3 DEF AfterJoin, Fields
    <3>3. QED
      BY <2>1, <3>1, <3>2
  <2>4. QED
    BY <2>2, <2>3
<1>22. mem' = IF r = "OKAY"
              THEN [mem EXCEPT ![Head(WrWay \o WrSend).addr] = Head(s_wr_data \o wr_data)]
              ELSE mem
  BY <1>2, <1>8, <1>9, <1>10
<1>23. UNCHANGED AbsRd
  BY <1>2, AbsRdSame
<1>24. B!Store(r)
  BY <1>9, <1>10, <1>11, <1>12, <1>20, <1>21, <1>22, <1>23
     DEF B!Store, AbsRd, WrWay, WrSend, WrJoined, RdWay, RdSend, RdMarked
<1>25. r \in B!Resp
  BY DEF Resp, B!Resp
<1>26. QED
  BY <1>24, <1>25 DEF B!Next

LEMMA RefinesSlaveRead == IInv /\ SlaveRead => B!Next
<1> SUFFICES ASSUME IInv, SlaveRead PROVE B!Next
  OBVIOUS
<1>1. /\ s_rd_addr \in Seq(Addrs) /\ s_rd_addr # <<>> /\ s_rd_data \in Seq(Data)
      /\ f_r_arlen \in Seq(Nat) /\ mem \in [Addrs -> Data]
  BY DEF SlaveRead, IInv, TypeOK
<1>2. PICK d \in Data : d = mem[Head(s_rd_addr)]
  BY <1>1, HeadTailProperties
<1>3. /\ s_rd_data' = Append(s_rd_data, d) /\ s_rd_addr' = Tail(s_rd_addr)
      /\ UNCHANGED <<rg_reset, wrVars, rd_addr, rd_data, rg_ar_beat_count, rg_last_beat_raddr,
                     f_r_arlen, rg_r_beat_count, mem>>
  BY <1>2 DEF SlaveRead
<1>4. PICK n \in Nat, beat \in Nat : n = Len(s_rd_data) /\ beat = rg_r_beat_count
  BY Rooms DEF Room
<1>5. PICK a \in Nat \ {0} : a = Len(s_rd_addr)
  BY <1>1, LenProperties, EmptySeq
<1>6. PICK m \in Nat : m = BeatsIn(f_r_arlen) /\ beat + n + a <= m
  BY <1>4, <1>5, Rooms DEF Room
<1>7. PICK c \in Nat : c = beat + n
  OBVIOUS
<1>8. RdWay = OnTheWay(s_rd_addr, f_r_arlen, c)
  BY <1>4, <1>7 DEF RdWay
<1>9. /\ RdWay # <<>> /\ Head(RdWay).addr = Head(s_rd_addr)
      /\ Head(RdWay).last = LastFlags(f_r_arlen)[c + 1]
      /\ Tail(RdWay) = OnTheWay(Tail(s_rd_addr), f_r_arlen, c + 1)
  <2>1. c + Len(s_rd_addr) <= BeatsIn(f_r_arlen)
    BY <1>5, <1>6, <1>7
  <2>2. QED
    BY <1>1, <1>8, <2>1, WayTail
<1>10. /\ RdWay \o RdSend # <<>> /\ Head(RdWay \o RdSend) = Head(RdWay)
       /\ Tail(RdWay \o RdSend) = Tail(RdWay) \o RdSend
  BY <1>9, Mapped, HeadOfTwo
<1>11. (RdWay \o RdSend)' = Tail(RdWay \o RdSend)
  <2>1. Len(Append(s_rd_data, d)) = n + 1
    BY <1>1, <1>4, AppendProperties
  <2>2. rg_r_beat_count' + Len(s_rd_data') = c + 1
    BY <1>3, <1>4, <1>7, <2>1
  <2>3. RdWay' = Tail(RdWay) /\ RdSend' = RdSend
    BY <1>3, <1>9, <2>2 DEF RdWay, RdSend
  <2>4. QED
    BY <1>10, <2>3
<1>12. PICK item \in Item : item = [data |-> d, last |-> Head(RdWay).last]
  <2>1. Head(RdWay) \in BeatSet
    BY <1>9, Mapped, HeadTailProperties
  <2>2. Head(RdWay).last \in BOOLEAN
    BY <2>1 DEF BeatSet
  <2>3. QED
    BY <2>2 DEF Item
<1>13. Marked(Append(s_rd_data, d), f_r_arlen, beat)
          = Append(Marked(s_rd_data, f_r_arlen, beat), item)
  <2>1. beat + Len(s_rd_data) + 1 <= BeatsIn(f_r_arlen) /\ beat + Len(s_rd_data) + 1 = c + 1
    BY <1>4, <1>5, <1>6, <1>7
  <2>2. item = [data |-> d, last |-> LastFlags(f_r_arlen)[beat + Len(s_rd_data) + 1]]
    BY <1>9, <1>12, <2>1
  <2>3. QED
    BY <1>1, <2>1, <2>2, MarkedAppend
<1>14. RdMarked' = Append(RdMarked, item)
  BY <1>3, <1>4, <1>13 DEF RdMarked
<1>15. (rd_data \o RdMarked)' = Append(rd_data \o RdMarked, item)
  <2>1. PICK out \in Seq(Item), marked \in Seq(Item) : out = rd_data /\ marked = RdMarked
    BY Mapped
  <2>2. out \o Append(marked, item) = Append(out \o marked, item)
    OBVIOUS
  <2>3. QED
    BY <1>3, <1>14, <2>1, <2>2
<1>16. item = [data |-> mem[Head(RdWay \o RdSend).addr], last |-> Head(RdWay \o RdSend).last]
  BY <1>2, <1>9, <1>10, <1>12
<1>17. UNCHANGED <<mem, AbsWr>>
  BY <1>3, AbsWrSame
<1>18. B!Fetch
  BY <1>10, <1>11, <1>15, <1>16, <1>17
     DEF B!Fetch, AbsWr, WrWay, WrSend, WrJoined, RdWay, RdSend, RdMarked
<1>19. QED
  BY <1>18 DEF B!Next

LEMMA RefinesStep == IInv /\ [Next]_vars => [B!Next]_B!vars
<1>1. ASSUME UNCHANGED vars PROVE UNCHANGED B!vars
  <2>1. UNCHANGED <<wrVars, rdVars, mem>>
    BY <1>1 DEF vars
  <2>2. QED
    BY <2>1, AbsWrSame, AbsRdSame, AbsVars
<1>2. QED
  BY <1>1, RefinesReset, RefinesWrRequest, RefinesWrResponse, RefinesRdRequest,
     RefinesRdResponse, RefinesMasterWrite, RefinesMasterRead, RefinesMasterData,
     RefinesTakesResp, RefinesTakesData, RefinesSlaveWrite, RefinesSlaveRead DEF Next

\* The deburster makes exactly the single accesses of the beats of its bursts, in
\* order, at the addresses AXI4 names, each with its own data; it gives one answer
\* per write burst, with the first error, and marks the last data of a read burst
\* (AXI4_Deburster.bsv: the four rules between master and slave, whose counts
\* advance on their own).
THEOREM Refinement == Spec => ImplementsBursts
<1>1. Init => B!Init
  BY RefinesInit
<1>2. IInv /\ [Next]_vars => [B!Next]_B!vars
  BY RefinesStep
<1>3. QED
  BY <1>1, <1>2, InStep, PTL DEF Spec, ImplementsBursts, B!Spec
=============================================================================
