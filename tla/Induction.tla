----------------------------- MODULE Induction -----------------------------
(***************************************************************************)
(* Induction over the natural numbers, without an operator as a parameter: *)
(* a property is the set of the numbers that lack it.  On it rest the      *)
(* proofs about the recursive functions of the models.  Also: what moving  *)
(* elements between sequences that are joined does to the whole, and what  *)
(* remainders are left by successive numbers.                              *)
(***************************************************************************)
EXTENDS Integers, SequenceTheorems, WellFoundedInduction, TLAPS

\* A nonempty set of natural numbers has a least one.
LEMMA LeastNumber ==
    ASSUME NEW S \in SUBSET Nat, S # {}
    PROVE  \E n \in S : \A m \in S : n <= m
<1> DEFINE R == {ss \in Nat \X Nat : ss[1] < ss[2]}
<1>1. IsWellFoundedOn(R, Nat)
  BY NatLessThanWellFounded DEF OpToRel
<1>2. PICK n \in S : \A m \in S : <<m, n>> \notin R
  <2> HIDE DEF R
  <2>1. QED
    BY <1>1, WFMin
<1>3. ASSUME NEW m \in S PROVE n <= m
  <2>1. <<m, n>> \notin R /\ m \in Nat /\ n \in Nat
    BY <1>2
  <2>2. ~(m < n)
    BY <2>1
  <2>3. QED
    BY <2>1, <2>2
<1>4. QED
  BY <1>2, <1>3

\* A set of numbers that holds 0 and with each number the next holds them all.
LEMMA IntervalInduction ==
    ASSUME NEW n \in Nat, NEW S, 0 \in S,
           \A i \in 1 .. n : i - 1 \in S => i \in S
    PROVE  0 .. n \subseteq S
<1> DEFINE Bad == {i \in 0 .. n : i \notin S}
<1> SUFFICES ASSUME Bad # {} PROVE FALSE
  OBVIOUS
<1>1. PICK i \in Bad : \A j \in Bad : i <= j
  <2>1. Bad \in SUBSET Nat
    OBVIOUS
  <2> HIDE DEF Bad
  <2>2. QED
    BY <2>1, LeastNumber
<1>2. i \in 1 .. n /\ i - 1 \in 0 .. n /\ ~(i <= i - 1)
  BY <1>1
<1>3. i - 1 \in S
  BY <1>1, <1>2
<1>4. QED
  BY <1>1, <1>2, <1>3

\* f on 0 .. n begins with start and goes on by step.
Follows(f, n, start, step) == f[0] = start /\ \A i \in 1 .. n : f[i] = step[<<i, f[i - 1]>>]

\* A function on 0 .. n may be defined by its value at 0 and by how a value
\* follows from the one before.
LEMMA RecursiveFunction ==
    ASSUME NEW n \in Nat, NEW T, NEW start \in T, NEW step \in [(1 .. n) \X T -> T]
    PROVE  \E f \in [0 .. n -> T] : Follows(f, n, start, step)
<1> DEFINE Partial(k) == {f \in [0 .. k -> T] :
               /\ f[0] = start
               /\ \A i \in 1 .. k : f[i] = step[<<i, f[i - 1]>>]}
           S == {k \in 0 .. n : Partial(k) # {}}
<1>1. 0 \in S
  <2>1. [i \in 0 .. 0 |-> start] \in Partial(0)
    OBVIOUS
  <2>2. QED
    BY <2>1
<1>2. ASSUME NEW k \in 1 .. n, k - 1 \in S PROVE k \in S
  <2>1. PICK f \in [0 .. k - 1 -> T] :
            f[0] = start /\ \A i \in 1 .. k - 1 : f[i] = step[<<i, f[i - 1]>>]
    BY <1>2
  <2> DEFINE g == [i \in 0 .. k |-> IF i = k THEN step[<<k, f[k - 1]>>] ELSE f[i]]
  <2>2. g \in [0 .. k -> T] /\ g[0] = start
    BY <2>1
  <2>3. ASSUME NEW i \in 1 .. k PROVE g[i] = step[<<i, g[i - 1]>>]
    <3>1. i - 1 \in 0 .. k /\ i - 1 # k /\ g[i - 1] = f[i - 1]
      OBVIOUS
    <3>2. CASE i = k
      BY <3>1, <3>2
    <3>3. CASE i # k
      <4>1. i \in 1 .. k - 1 /\ g[i] = f[i]
        BY <3>3
      <4>2. QED
        BY <3>1, <4>1, <2>1
    <3>4. QED
      BY <3>2, <3>3
  <2>4. g \in Partial(k)
    BY <2>2, <2>3
  <2>5. k \in 0 .. n
    OBVIOUS
  <2> HIDE DEF Partial, g
  <2>6. QED
    BY <2>4, <2>5
<1>3. 0 .. n \subseteq S
  <2> HIDE DEF S
  <2>1. QED
    BY <1>1, <1>2, IntervalInduction
<1>4. QED
  BY <1>3 DEF Follows
-----------------------------------------------------------------------------
(* Joined sequences.                                                        *)

\* The first element of the second one moves to the end of the first.
LEMMA MoveOne ==
    ASSUME NEW T, NEW q \in Seq(T), NEW r \in Seq(T), r # <<>>
    PROVE  Append(q, Head(r)) \o Tail(r) = q \o r
<1>1. PICK e \in T, t \in Seq(T) : e = Head(r) /\ t = Tail(r)
  BY HeadTailProperties
<1>2. Append(q, e) \o t = q \o r
  <2> DEFINE left == Append(q, e) \o t
             right == q \o r
  <2>1. /\ Append(q, e) \in Seq(T) /\ Len(Append(q, e)) = Len(q) + 1
        /\ \A i \in 1 .. Len(q) : Append(q, e)[i] = q[i]
        /\ Append(q, e)[Len(q) + 1] = e
    BY AppendProperties
  <2>2. /\ Len(q) \in Nat /\ Len(r) \in Nat /\ Len(r) # 0 /\ Len(t) = Len(r) - 1 /\ r[1] = e
        /\ \A i \in 1 .. Len(t) : t[i] = r[i + 1]
    BY <1>1, HeadTailProperties, LenProperties, EmptySeq
  <2>3. /\ left \in Seq(T) /\ Len(left) = Len(q) + 1 + Len(t)
        /\ \A i \in 1 .. Len(q) + 1 + Len(t) :
              left[i] = IF i <= Len(q) + 1 THEN Append(q, e)[i] ELSE t[i - (Len(q) + 1)]
    BY <2>1, ConcatProperties
  <2>4. /\ right \in Seq(T) /\ Len(right) = Len(q) + Len(r)
        /\ \A i \in 1 .. Len(q) + Len(r) : right[i] = IF i <= Len(q) THEN q[i] ELSE r[i - Len(q)]
    BY ConcatProperties
  <2> HIDE DEF left, right
  <2>5. ASSUME NEW i \in 1 .. Len(left) PROVE left[i] = right[i]
    <3>1. i \in 1 .. Len(q) + 1 + Len(t) /\ i \in 1 .. Len(q) + Len(r)
      BY <2>2, <2>3
    <3>2. CASE i <= Len(q)
      <4>1. i \in 1 .. Len(q) /\ i <= Len(q) + 1
        BY <3>1, <3>2, <2>2
      <4>2. QED
        BY <3>1, <3>2, <4>1, <2>1, <2>3, <2>4
    <3>3. CASE i = Len(q) + 1
      <4>1. i <= Len(q) + 1 /\ ~(i <= Len(q)) /\ i - Len(q) = 1
        BY <3>3, <2>2
      <4>2. left[i] = e
        BY <3>1, <3>3, <4>1, <2>1, <2>3
      <4>3. right[i] = r[1]
        BY <3>1, <4>1, <2>4
      <4>4. QED
        BY <4>2, <4>3, <2>2
    <3>4. CASE i > Len(q) + 1
      <4>1. PICK j : j = i - (Len(q) + 1)
        OBVIOUS
      <4>2. ~(i <= Len(q) + 1) /\ ~(i <= Len(q)) /\ j \in 1 .. Len(t) /\ i - Len(q) = j + 1
        BY <3>1, <3>4, <4>1, <2>2
      <4>3. left[i] = t[j] /\ right[i] = r[j + 1]
        BY <3>1, <4>1, <4>2, <2>3, <2>4
      <4>4. QED
        BY <4>2, <4>3, <2>2
    <3>5. QED
      BY <3>1, <3>2, <3>3, <3>4, <2>2
  <2>6. Len(left) = Len(right)
    BY <2>2, <2>3, <2>4
  <2>7. left = right
    BY <2>3, <2>4, <2>5, <2>6, SeqEqual
  <2>8. QED
    BY <2>7 DEF left, right
<1>3. QED
  BY <1>1, <1>2

\* The first element goes.
LEMMA HeadOfTwo ==
    ASSUME NEW T, NEW q \in Seq(T), NEW r \in Seq(T), q # <<>>
    PROVE  /\ q \o r # <<>> /\ Head(q \o r) = Head(q)
           /\ Tail(q \o r) = Tail(q) \o r
<1>1. PICK e \in T, t \in Seq(T) : e = Head(q) /\ t = Tail(q)
  BY HeadTailProperties
<1>2. q = <<e>> \o t
  <2>1. Append(<<>>, e) \o t = <<>> \o q
    BY <1>1, MoveOne
  <2>2. <<>> \o q = q /\ Append(<<>>, e) = <<e>>
    BY ConcatEmptySeq
  <2>3. QED
    BY <2>1, <2>2
<1>3. q \o r = <<e>> \o (t \o r)
  <2>1. (<<e>> \o t) \o r = <<e>> \o (t \o r)
    OBVIOUS
  <2>2. QED
    BY <1>2, <2>1
<1>4. PICK s \in Seq(T) : s = t \o r
  BY ConcatProperties
<1>5. Head(<<e>> \o s) = e /\ Tail(<<e>> \o s) = s /\ <<e>> \o s # <<>>
  OBVIOUS
<1>6. QED
  BY <1>1, <1>3, <1>4, <1>5
-----------------------------------------------------------------------------
(* Division.                                                                *)

LEMMA Division ==
    ASSUME NEW a \in Nat, NEW n \in Nat \ {0}
    PROVE  /\ a % n \in 0 .. n - 1 /\ a \div n \in Nat
           /\ a = (a \div n) * n + (a % n) /\ a - (a % n) \in Nat
<1>1. a % n \in 0 .. n - 1 /\ a \div n \in Nat
  OBVIOUS
<1>2. a = (a \div n) * n + (a % n)
  OBVIOUS
<1>3. QED
  BY <1>1, <1>2

LEMMA Remainder ==
    ASSUME NEW n \in Nat \ {0}, NEW q \in Nat, NEW r \in 0 .. n - 1
    PROVE  (q * n + r) % n = r /\ (q * n + r) \div n = q
<1> DEFINE a == q * n + r
<1>1. a \in Nat
  OBVIOUS
<1>2. PICK p \in Nat, s \in 0 .. n - 1 : a = p * n + s /\ s = a % n /\ p = a \div n
  <2> HIDE DEF a
  <2>1. QED
    BY <1>1, Division
<1>3. ~(p < q)
  <2> SUFFICES ASSUME p < q PROVE FALSE
    OBVIOUS
  <2>1. p + 1 <= q
    OBVIOUS
  <2>2. (p + 1) * n <= q * n
    BY <2>1
  <2>3. QED
    BY <1>2, <2>2
<1>4. ~(q < p)
  <2> SUFFICES ASSUME q < p PROVE FALSE
    OBVIOUS
  <2>1. q + 1 <= p
    OBVIOUS
  <2>2. (q + 1) * n <= p * n
    BY <2>1
  <2>3. QED
    BY <1>2, <2>2
<1>5. p = q
  BY <1>3, <1>4
<1>6. QED
  BY <1>2, <1>5

LEMMA RemainderPlus ==
    ASSUME NEW n \in Nat \ {0}, NEW a \in Nat
    PROVE  (a + n) % n = a % n
<1>1. PICK q \in Nat, r \in 0 .. n - 1 : a = q * n + r /\ r = a % n
  BY Division
<1>2. a + n = (q + 1) * n + r
  BY <1>1
<1>3. ((q + 1) * n + r) % n = r
  BY Remainder
<1>4. QED
  BY <1>1, <1>2, <1>3

\* The remainders of successive numbers go round.
LEMMA NextRemainder ==
    ASSUME NEW n \in Nat \ {0}, NEW a \in Nat
    PROVE  /\ (a + 1) % n = IF a % n = n - 1 THEN 0 ELSE (a % n) + 1
           /\ (a + n) % n = a % n
<1>1. PICK q \in Nat, r \in 0 .. n - 1 : a = q * n + r /\ r = a % n
  BY Division
<1>2. CASE r = n - 1
  <2>1. a + 1 = (q + 1) * n + 0
    <3>1. PICK p \in Nat : p = q * n
      OBVIOUS
    <3>2. a = p + r
      BY <1>1, <3>1
    <3>3. a + 1 = p + n
      BY <1>2, <3>2
    <3>4. (q + 1) * n + 0 = p + n
      BY <3>1
    <3>5. QED
      BY <3>3, <3>4
  <2>2. ((q + 1) * n + 0) % n = 0
    BY Remainder
  <2>3. QED
    BY <1>1, <1>2, <2>1, <2>2, RemainderPlus
<1>3. CASE r # n - 1
  <2>1. a + 1 = q * n + (r + 1) /\ r + 1 \in 0 .. n - 1
    BY <1>1, <1>3
  <2>2. (q * n + (r + 1)) % n = r + 1
    BY <2>1, Remainder
  <2>3. QED
    BY <1>1, <1>3, <2>1, <2>2, RemainderPlus
<1>4. QED
  BY <1>2, <1>3
=============================================================================
