------------------------------ MODULE Induction ------------------------------
(***************************************************************************)
(* Induction over natural numbers and sequences, and what follows about    *)
(* recursive functions, FlattenSeq and folds, for the proofs about lists   *)
(* that are built up. It is stated for sets: what holds of a number or a   *)
(* sequence is that it is in a set.                                        *)
(***************************************************************************)
EXTENDS Integers, Sequences, SequencesExt, SequenceTheorems, FiniteSetTheorems, TLAPS

\* A set with 0, and with n + 1 for each n it has, has all natural numbers: a
\* smallest interval 0..n whose n it lacks would have a smaller one.
LEMMA SetInduction ==
    ASSUME NEW S, 0 \in S, \A n \in Nat : n \in S => n + 1 \in S
    PROVE  Nat \subseteq S
<1> SUFFICES ASSUME NEW m \in Nat, m \notin S PROVE FALSE
  OBVIOUS
<1> DEFINE T == {0..n : n \in Nat \ S}
           R == StrictSubsetOrdering(Nat)
<1>1. T \subseteq FiniteSubsetsOf(Nat)
  <2>1. \A n \in Nat : IsFiniteSet(0..n) /\ 0..n \subseteq Nat
    BY FS_Interval
  <2> QED BY <2>1 DEF FiniteSubsetsOf
<1>2. T # {}
  OBVIOUS
<1>3. PICK x \in T : \A y \in T : <<y, x>> \notin R
  <2>1. IsWellFoundedOn(R, FiniteSubsetsOf(Nat))
    BY FS_StrictSubsetOrderingWellFounded
  <2> HIDE DEF R, T
  <2> QED BY <1>1, <1>2, <2>1, WFMin
<1>4. PICK n \in Nat \ S : x = 0..n
  OBVIOUS
<1>5. n - 1 \in Nat \ S
  OBVIOUS
<1>6. 0..n - 1 \in T
  BY <1>5
<1>7. <<0..n - 1, x>> \in R
  <2>1. 0..n - 1 \subseteq x /\ x \subseteq Nat /\ n \in x /\ n \notin 0..n - 1
    BY <1>4
  <2> QED BY <2>1 DEF StrictSubsetOrdering
<1> QED BY <1>3, <1>6, <1>7

\* The same from a to b.
LEMMA IntervalInduction ==
    ASSUME NEW a \in Int, NEW b \in Int, NEW S,
           a <= b => a \in S, \A k \in a..b - 1 : k \in S => k + 1 \in S
    PROVE  a..b \subseteq S
<1> DEFINE T == {n \in Nat : a + n <= b => a + n \in S}
<1>1. 0 \in T
  OBVIOUS
<1>2. \A n \in Nat : n \in T => n + 1 \in T
  <2> SUFFICES ASSUME NEW n \in Nat, n \in T, a + (n + 1) <= b PROVE a + (n + 1) \in S
    OBVIOUS
  <2>1. a + n \in a..b - 1 /\ a + n \in S /\ (a + n) + 1 = a + (n + 1)
    OBVIOUS
  <2> QED BY <2>1
<1>3. Nat \subseteq T
  <2> HIDE DEF T
  <2> QED BY <1>1, <1>2, SetInduction
<1>4. ASSUME NEW k \in a..b PROVE k \in S
  <2>1. k - a \in Nat /\ a + (k - a) = k
    OBVIOUS
  <2> QED BY <1>3, <2>1
<1> QED BY <1>4

\* Runs that adjoin each other do not overlap.
LEMMA RunsAscend ==
    ASSUME NEW n \in Nat, NEW F \in [1..n -> Int], NEW L \in [1..n -> Int],
           \A i \in 1..n : F[i] <= L[i],
           \A i \in 1..n - 1 : F[i + 1] = L[i] + 1
    PROVE  \A i, j \in 1..n : i < j => L[i] < F[j]
<1> SUFFICES ASSUME NEW i \in 1..n PROVE i + 1..n \subseteq {j \in 1..n : L[i] < F[j]}
  OBVIOUS
<1> DEFINE S == {j \in 1..n : L[i] < F[j]}
<1>1. i + 1 <= n => i + 1 \in S
  OBVIOUS
<1>2. ASSUME NEW k \in i + 1..n - 1, k \in S PROVE k + 1 \in S
  <2>1. k \in 1..n /\ k \in 1..n - 1 /\ k + 1 \in 1..n
    OBVIOUS
  <2>2. F[k] <= L[k] /\ F[k + 1] = L[k] + 1 /\ L[i] < F[k]
    BY <1>2, <2>1
  <2>3. L[i] \in Int /\ L[k] \in Int /\ F[k] \in Int
    BY <2>1
  <2> QED BY <2>1, <2>2, <2>3
<1>3. i + 1..n \subseteq S
  <2>1. i + 1 \in Int /\ n \in Int
    OBVIOUS
  <2> HIDE DEF S
  <2> QED BY <1>1, <1>2, <2>1, IntervalInduction
<1> QED BY <1>3

\* A function whose value at 0 is given, and whose values follow from each
\* number to the next.
StepsOn(V) == [Nat \X V -> V]
Follows(f, V, first, step) ==
    /\ f \in [Nat -> V]
    /\ f[0] = first
    /\ \A n \in Nat : f[n + 1] = step[<<n, f[n]>>]

\* There is such a function.
LEMMA Recursion ==
    ASSUME NEW V, NEW first \in V, NEW step \in StepsOn(V)
    PROVE  \E f : Follows(f, V, first, step)
<1>0. step \in [Nat \X V -> V]
  BY DEF StepsOn
<1> DEFINE Upto(n, f) == /\ f \in [0..n -> V] /\ f[0] = first
                         /\ \A k \in 0..n - 1 : f[k + 1] = step[<<k, f[k]>>]
           S == {n \in Nat : \E f : Upto(n, f)}
<1>1. Nat \subseteq S
  <2>1. 0 \in S
    <3>1. Upto(0, [k \in 0..0 |-> first])
      OBVIOUS
    <3> QED BY <3>1
  <2>2. ASSUME NEW n \in Nat, n \in S PROVE n + 1 \in S
    <3>1. PICK f : Upto(n, f)
      BY <2>2
    <3> DEFINE g == [k \in 0..n + 1 |-> IF k = n + 1 THEN step[<<n, f[n]>>] ELSE f[k]]
    <3>2. g \in [0..n + 1 -> V] /\ g[0] = first
      BY <1>0, <3>1
    <3>3. ASSUME NEW k \in 0..(n + 1) - 1 PROVE g[k + 1] = step[<<k, g[k]>>]
      <4>1. CASE k = n
        <5>1. g[k + 1] = step[<<n, f[n]>>] /\ g[k] = f[n]
          BY <4>1
        <5> QED BY <4>1, <5>1
      <4>2. CASE k # n
        <5>1. k \in 0..n - 1 /\ k + 1 \in 0..n + 1 /\ k + 1 # n + 1 /\ k # n + 1
          BY <4>2
        <5> QED BY <3>1, <5>1
      <4> QED BY <4>1, <4>2
    <3>4. Upto(n + 1, g)
      BY <3>2, <3>3
    <3> HIDE DEF g, Upto
    <3> QED BY <3>4
  <2> HIDE DEF S
  <2> QED BY <2>1, <2>2, SetInduction
<1>2. ASSUME NEW m \in Nat, NEW n \in Nat, m <= n, NEW f, NEW g, Upto(m, f), Upto(n, g)
      PROVE  f[m] = g[m]
  <2> DEFINE E == {k \in 0..m : f[k] = g[k]}
  <2>1. 0 \in E
    BY <1>2
  <2>2. ASSUME NEW k \in 0..m - 1, k \in E PROVE k + 1 \in E
    <3>1. k \in 0..n - 1 /\ k + 1 \in 0..m /\ f[k] = g[k]
      BY <1>2, <2>2
    <3>2. f[k + 1] = step[<<k, f[k]>>] /\ g[k + 1] = step[<<k, g[k]>>]
      BY <1>2, <3>1
    <3> QED BY <3>1, <3>2
  <2>3. 0..m \subseteq E
    <3> HIDE DEF E
    <3> QED BY <2>1, <2>2, IntervalInduction
  <2> QED BY <2>3
<1> DEFINE At(n) == CHOOSE f : Upto(n, f)
           h == [n \in Nat |-> At(n)[n]]
<1>3. \A n \in Nat : Upto(n, At(n))
  <2> SUFFICES ASSUME NEW n \in Nat PROVE Upto(n, At(n))
    OBVIOUS
  <2>1. \E f : Upto(n, f)
    BY <1>1
  <2> HIDE DEF Upto
  <2> QED BY <2>1
<1> HIDE DEF At
<1>4. h \in [Nat -> V] /\ h[0] = first
  BY <1>3
<1>5. ASSUME NEW n \in Nat PROVE h[n + 1] = step[<<n, h[n]>>]
  <2>1. At(n + 1)[n] = At(n)[n]
    <3>1. n <= n + 1 /\ n + 1 \in Nat
      OBVIOUS
    <3> HIDE DEF Upto
    <3> QED BY <1>2, <1>3, <3>1
  <2>2. At(n + 1)[n + 1] = step[<<n, At(n + 1)[n]>>]
    BY <1>3
  <2> QED BY <2>1, <2>2
<1> QED BY <1>4, <1>5 DEF Follows

\* Of finitely many numbers one is the largest.
LEMMA LargestKey ==
    ASSUME NEW n \in Nat, NEW key \in [1..n -> Int], NEW s \in SUBSET (1..n), s # {}
    PROVE  \E x \in s : \A y \in s : key[y] <= key[x]
<1> DEFINE S == {k \in 0..n : \A t \in SUBSET (1..k) :
                                 t # {} => \E x \in t : \A y \in t : key[y] <= key[x]}
<1>1. 0 \in S
  <2>1. 1..0 = {}
    OBVIOUS
  <2>2. \A t \in SUBSET (1..0) : t = {}
    BY <2>1
  <2>3. 0 \in 0..n
    OBVIOUS
  <2> QED BY <2>2, <2>3
<1>2. ASSUME NEW k \in 0..n - 1, k \in S PROVE k + 1 \in S
  <2> SUFFICES ASSUME NEW t \in SUBSET (1..k + 1), t # {}
               PROVE  \E x \in t : \A y \in t : key[y] <= key[x]
    OBVIOUS
  <2>0. t \subseteq 1..n /\ \A y \in t : key[y] \in Int
    OBVIOUS
  <2>1. t \ {k + 1} \in SUBSET (1..k)
    OBVIOUS
  <2>2. CASE t \ {k + 1} = {}
    <3>1. t = {k + 1}
      BY <2>2
    <3> QED BY <2>0, <3>1
  <2>3. CASE t \ {k + 1} # {}
    <3>1. PICK x \in t \ {k + 1} : \A y \in t \ {k + 1} : key[y] <= key[x]
      BY <1>2, <2>1, <2>3
    <3>2. CASE k + 1 \in t /\ key[x] < key[k + 1]
      <4>1. ASSUME NEW y \in t PROVE key[y] <= key[k + 1]
        <5>1. CASE y = k + 1
          BY <2>0, <5>1
        <5>2. CASE y # k + 1
          <6>1. key[y] <= key[x] /\ key[x] < key[k + 1]
            BY <3>1, <3>2, <5>2
          <6>2. key[y] \in Int /\ key[x] \in Int /\ key[k + 1] \in Int
            BY <2>0, <3>2
          <6> QED BY <6>1, <6>2
        <5> QED BY <5>1, <5>2
      <4> QED BY <3>2, <4>1
    <3>3. CASE ~(k + 1 \in t /\ key[x] < key[k + 1])
      <4>1. ASSUME NEW y \in t PROVE key[y] <= key[x]
        BY <2>0, <3>1, <3>3
      <4> QED BY <4>1
    <3> QED BY <3>2, <3>3
  <2> QED BY <2>2, <2>3
<1>3. n \in S
  <2>1. 0 \in Int /\ n \in Int /\ n \in 0..n
    OBVIOUS
  <2>2. 0..n \subseteq S
    <3> HIDE DEF S
    <3> QED BY <1>1, <1>2, <2>1, IntervalInduction
  <2> QED BY <2>1, <2>2
<1> QED BY <1>3

\* A set of natural numbers has a smallest one.
LEMMA SmallestIn ==
    ASSUME NEW s \in SUBSET Nat, s # {}
    PROVE  Min(s) \in s /\ \A y \in s : Min(s) <= y
<1> DEFINE T == {n \in Nat : (\E x \in s : x <= n) => \E x \in s : \A y \in s : x <= y}
<1>1. 0 \in T
  OBVIOUS
<1>2. ASSUME NEW n \in Nat, n \in T PROVE n + 1 \in T
  <2> SUFFICES ASSUME NEW x \in s, x <= n + 1, ~\E y \in s : y <= n
               PROVE  \A y \in s : x <= y
    BY <1>2
  <2> QED OBVIOUS
<1>3. Nat \subseteq T
  <2> HIDE DEF T
  <2> QED BY <1>1, <1>2, SetInduction
<1>4. PICK n \in s : TRUE
  OBVIOUS
<1>5. n \in T /\ n <= n
  BY <1>3, <1>4
<1>6. \E x \in s : \A y \in s : x <= y
  BY <1>5
<1> QED BY <1>6 DEF Min

-----------------------------------------------------------------------------
(* Induction over sequences *)

\* A set with the empty sequence, and with each sequence it has all that are one
\* element longer, has all sequences.
LEMMA SequenceInduction ==
    ASSUME NEW S, NEW T, <<>> \in T,
           \A s \in Seq(S) : s \in T => \A e \in S : Append(s, e) \in T
    PROVE  Seq(S) \subseteq T
<1> DEFINE N == {n \in Nat : \A s \in Seq(S) : Len(s) = n => s \in T}
<1>1. 0 \in N
  <2>1. \A s \in Seq(S) : Len(s) = 0 => s = <<>>
    OBVIOUS
  <2> QED BY <2>1
<1>2. ASSUME NEW n \in Nat, n \in N PROVE n + 1 \in N
  <2> SUFFICES ASSUME NEW s \in Seq(S), Len(s) = n + 1 PROVE s \in T
    OBVIOUS
  <2>1. s # <<>>
    OBVIOUS
  <2>2. PICK t \in Seq(S), e \in S : s = Append(t, e)
    BY <2>1, SequenceEmptyOrAppend
  <2>3. Len(t) \in Nat /\ Len(s) = Len(t) + 1
    BY <2>2
  <2>4. t \in T
    BY <1>2, <2>3
  <2> QED BY <2>2, <2>4
<1>3. Nat \subseteq N
  <2> HIDE DEF N
  <2> QED BY <1>1, <1>2, SetInduction
<1>4. \A s \in Seq(S) : Len(s) \in Nat
  OBVIOUS
<1> QED BY <1>3, <1>4

-----------------------------------------------------------------------------
(* Sequences of sequences *)

\* What FlattenSeq makes, one sequence after the other.
Flattens(f, ss, S) ==
    /\ f \in [0..Len(ss) -> Seq(S)]
    /\ f[0] = <<>>
    /\ \A k \in 1..Len(ss) : f[k] = f[k - 1] \o ss[k]
    /\ FlattenSeq(ss) = f[Len(ss)]

LEMMA FlattenIs ==
    ASSUME NEW S, NEW ss \in Seq(Seq(S))
    PROVE  \E f : Flattens(f, ss, S)
<1> DEFINE n == Len(ss)
           none == <<>>
           step == [p \in Nat \X Seq(S) |-> IF p[1] + 1 \in 1..n THEN p[2] \o ss[p[1] + 1] ELSE p[2]]
<1>0. n \in Nat /\ \A k \in 1..n : ss[k] \in Seq(S)
  OBVIOUS
<1>1. none \in Seq(S) /\ step \in [Nat \X Seq(S) -> Seq(S)]
  <2>1. ASSUME NEW a \in Nat, NEW v \in Seq(S) PROVE (IF a + 1 \in 1..n THEN v \o ss[a + 1] ELSE v) \in Seq(S)
    <3> HIDE DEF n
    <3> QED BY <1>0, ConcatProperties
  <2> HIDE DEF n
  <2> QED BY <2>1
<1>2. PICK f : Follows(f, Seq(S), none, step)
  <2>1. step \in StepsOn(Seq(S))
    BY <1>1 DEF StepsOn
  <2> HIDE DEF step, none
  <2> QED BY <1>1, <2>1, Recursion
<1>3. f \in [Nat -> Seq(S)] /\ f[0] = <<>> /\ \A k \in 1..n : f[k] = f[k - 1] \o ss[k]
  <2>1. f \in [Nat -> Seq(S)] /\ f[0] = <<>>
    BY <1>2 DEF Follows
  <2>2. ASSUME NEW k \in 1..n PROVE f[k] = f[k - 1] \o ss[k]
    <3>1. k - 1 \in Nat /\ (k - 1) + 1 = k
      BY <1>0
    <3>2. f[k - 1] \in Seq(S) /\ f[k] = step[<<k - 1, f[k - 1]>>]
      BY <1>2, <3>1 DEF Follows
    <3>3. <<k - 1, f[k - 1]>> \in Nat \X Seq(S)
      BY <3>1, <3>2
    <3> HIDE DEF n
    <3> QED BY <3>1, <3>2, <3>3
  <2> QED BY <2>1, <2>2
<1> DEFINE eq(h) == [i \in 1..n |-> IF i = 1 THEN ss[i] ELSE h[i - 1] \o ss[i]]
           g == [i \in 1..n |-> f[i]]
           flat == CHOOSE h : h = eq(h)
<1>4. FlattenSeq(ss) = IF n = 0 THEN ss ELSE flat[n]
  BY DEF FlattenSeq
<1>5. g = eq(g)
  <2>1. ASSUME NEW i \in 1..n PROVE f[i] = IF i = 1 THEN ss[i] ELSE g[i - 1] \o ss[i]
    <3>1. CASE i = 1
      <4> HIDE DEF n
      <4>1. 1 \in 1..n /\ 1 - 1 = 0
        BY <3>1
      <4>2. f[1] = <<>> \o ss[1] /\ ss[1] \in Seq(S)
        BY <1>0, <1>3, <4>1
      <4> QED BY <3>1, <4>2
    <3>2. CASE i # 1
      <4>1. i - 1 \in 1..n
        BY <1>0, <3>2
      <4> HIDE DEF n
      <4> QED BY <1>3, <3>2, <4>1
    <3> QED BY <3>1, <3>2
  <2> HIDE DEF n
  <2> QED BY <2>1
<1>6. flat = eq(flat)
  <2> HIDE DEF eq, g
  <2> QED BY <1>5
<1>7. \A i \in 1..n : flat[i] = IF i = 1 THEN ss[i] ELSE flat[i - 1] \o ss[i]
  <2> HIDE DEF flat, n
  <2> QED BY <1>6
<1> HIDE DEF flat
<1>8. 1..n \subseteq {i \in 1..n : flat[i] = f[i]}
  <2> DEFINE T == {i \in 1..n : flat[i] = f[i]}
  <2>1. 1 <= n => 1 \in T
    <3> SUFFICES ASSUME 1 <= n PROVE flat[1] = f[1] /\ 1 \in 1..n
      OBVIOUS
    <3>1. 1 \in 1..n
      BY <1>0
    <3>2. flat[1] = ss[1] /\ g[1] = ss[1] /\ g[1] = f[1]
      <4> HIDE DEF n
      <4> QED BY <1>5, <1>7, <3>1
    <3> QED BY <3>1, <3>2
  <2>2. ASSUME NEW k \in 1..n - 1, k \in T PROVE k + 1 \in T
    <3>1. k + 1 \in 1..n /\ k + 1 # 1 /\ (k + 1) - 1 = k
      BY <1>0
    <3>2. flat[k] = f[k] /\ flat[k + 1] = flat[k] \o ss[k + 1]
      <4> HIDE DEF n
      <4> QED BY <1>7, <2>2, <3>1
    <3>3. f[k + 1] = f[k] \o ss[k + 1]
      <4> HIDE DEF n
      <4> QED BY <1>3, <3>1
    <3> QED BY <3>1, <3>2, <3>3
  <2>3. 1..n \subseteq T
    <3>1. 1 \in Int /\ n \in Int
      BY <1>0
    <3> HIDE DEF T, n
    <3> QED BY <2>1, <2>2, <3>1, IntervalInduction
  <2> QED BY <2>3
<1> DEFINE h == [k \in 0..n |-> f[k]]
<1>9. FlattenSeq(ss) = h[n]
  <2>1. CASE n = 0
    <3>1. ss = <<>>
      BY <2>1
    <3> QED BY <1>3, <1>4, <2>1, <3>1
  <2>2. CASE n # 0
    <3>1. n \in 1..n /\ n \in 0..n
      BY <1>0, <2>2
    <3> HIDE DEF n
    <3> QED BY <1>4, <1>8, <2>2, <3>1
  <2> QED BY <2>1, <2>2
<1>10. h \in [0..n -> Seq(S)] /\ h[0] = <<>> /\ \A k \in 1..n : h[k] = h[k - 1] \o ss[k]
  <2>1. h \in [0..n -> Seq(S)] /\ 0 \in 0..n /\ \A k \in 1..n : k \in 0..n /\ k - 1 \in 0..n
    BY <1>0, <1>3
  <2> HIDE DEF n
  <2> QED BY <1>3, <2>1
<1> HIDE DEF h
<1> QED BY <1>9, <1>10 DEF Flattens

LEMMA FlattenAppend ==
    ASSUME NEW S, NEW ss \in Seq(Seq(S)), NEW s \in Seq(S)
    PROVE  /\ FlattenSeq(Append(ss, s)) = FlattenSeq(ss) \o s
           /\ FlattenSeq(ss) \in Seq(S)
<1> DEFINE tt == Append(ss, s)  n == Len(ss)
<1>1. /\ tt \in Seq(Seq(S)) /\ n \in Nat /\ Len(tt) = n + 1 /\ tt[n + 1] = s
      /\ \A i \in 1..n : tt[i] = ss[i]
  BY AppendProperties
<1>2. PICK f : Flattens(f, ss, S)
  BY FlattenIs
<1>3. PICK g : Flattens(g, tt, S)
  <2> HIDE DEF tt
  <2> QED BY <1>1, FlattenIs
<1> DEFINE T == {k \in 0..n : f[k] = g[k]}
<1>4. 0..n \subseteq T
  <2>1. 0 \in T
    BY <1>1, <1>2, <1>3 DEF Flattens
  <2>2. ASSUME NEW k \in 0..n - 1, k \in T PROVE k + 1 \in T
    <3>0. n \in Nat
      BY <1>1
    <3> HIDE DEF n, tt, T
    <3>1. k + 1 \in 1..n /\ k + 1 \in 1..n + 1 /\ (k + 1) - 1 = k /\ k + 1 \in 0..n
      BY ONLY <2>2, <3>0
    <3> USE DEF n, tt, T
    <3>2. f[k + 1] = f[k] \o ss[k + 1]
      BY <1>2, <3>1 DEF Flattens
    <3>3. g[k + 1] = g[k] \o tt[k + 1]
      <4> HIDE DEF tt
      <4> QED BY <1>1, <1>3, <3>1 DEF Flattens
    <3> HIDE DEF tt, n
    <3> QED BY <1>1, <2>2, <3>1, <3>2, <3>3
  <2>3. n \in Int /\ 0 \in Int
    BY <1>1
  <2> HIDE DEF T, n
  <2> QED BY <2>1, <2>2, <2>3, IntervalInduction
<1>5. f[n] = g[n] /\ FlattenSeq(ss) = f[n] /\ f[n] \in Seq(S)
  <2>1. n \in 0..n
    BY <1>1
  <2> QED BY <1>2, <1>4, <2>1 DEF Flattens
<1>6. FlattenSeq(tt) = g[n] \o s
  <2>1. n + 1 \in 1..n + 1 /\ (n + 1) - 1 = n
    BY <1>1
  <2> HIDE DEF tt, n
  <2>2. g[n + 1] = g[n] \o tt[n + 1] /\ FlattenSeq(tt) = g[n + 1]
    BY <1>1, <1>3, <2>1 DEF Flattens
  <2> QED BY <1>1, <2>2
<1> QED BY <1>5, <1>6

LEMMA FlattenIn ==
    ASSUME NEW S, NEW ss \in Seq(Seq(S))
    PROVE  FlattenSeq(ss) \in Seq(S)
<1>1. <<>> \in Seq(S)
  OBVIOUS
<1> QED BY <1>1, FlattenAppend

-----------------------------------------------------------------------------
(* What the elements of a sequence stand for, one after the other *)

SequenceMaps(A, S) == [A -> Seq(S)]
MapFlat(m, s) == FlattenSeq([i \in DOMAIN s |-> m[s[i]]])

LEMMA MapFlatAppends ==
    ASSUME NEW A, NEW S, NEW m \in SequenceMaps(A, S)
    PROVE  /\ \A a \in A : m[a] \in Seq(S)
           /\ MapFlat(m, <<>>) = <<>>
           /\ \A s \in Seq(A) : MapFlat(m, s) \in Seq(S)
           /\ \A s \in Seq(A), a \in A : MapFlat(m, Append(s, a)) = MapFlat(m, s) \o m[a]
<1>0. \A a \in A : m[a] \in Seq(S)
  BY DEF SequenceMaps
<1>1. MapFlat(m, <<>>) = <<>>
  <2>1. [i \in DOMAIN <<>> |-> m[<<>>[i]]] = <<>>
    OBVIOUS
  <2>2. FlattenSeq(<<>>) = <<>>
    BY DEF FlattenSeq
  <2> QED BY <2>1, <2>2 DEF MapFlat
<1>2. ASSUME NEW s \in Seq(A)
      PROVE  /\ [i \in DOMAIN s |-> m[s[i]]] \in Seq(Seq(S))
             /\ MapFlat(m, s) \in Seq(S)
             /\ \A a \in A : MapFlat(m, Append(s, a)) = MapFlat(m, s) \o m[a]
  <2> DEFINE ss == [i \in DOMAIN s |-> m[s[i]]]
  <2>1. DOMAIN s = 1..Len(s) /\ Len(s) \in Nat /\ \A i \in 1..Len(s) : s[i] \in A
    OBVIOUS
  <2>2. ss \in Seq(Seq(S)) /\ Len(ss) = Len(s)
    <3>1. \A i \in 1..Len(s) : m[s[i]] \in Seq(S)
      BY <1>0, <2>1
    <3> QED BY <2>1, <3>1
  <2>3. MapFlat(m, s) \in Seq(S)
    <3> HIDE DEF ss
    <3>1. FlattenSeq(ss) \in Seq(S)
      BY <2>2, FlattenIn
    <3> QED BY <3>1 DEF MapFlat, ss
  <2>4. ASSUME NEW a \in A PROVE MapFlat(m, Append(s, a)) = MapFlat(m, s) \o m[a]
    <3> DEFINE t == Append(s, a)  tt == [i \in DOMAIN t |-> m[t[i]]]
    <3>1. /\ t \in Seq(A) /\ Len(t) = Len(s) + 1 /\ DOMAIN t = 1..Len(s) + 1
          /\ t[Len(s) + 1] = a /\ \A i \in 1..Len(s) : t[i] = s[i]
      OBVIOUS
    <3>2. m[a] \in Seq(S)
      BY <1>0
    <3>3. tt = Append(ss, m[a])
      <4> DEFINE uu == Append(ss, m[a])
      <4>1. /\ uu \in Seq(Seq(S)) /\ Len(uu) = Len(s) + 1 /\ uu[Len(s) + 1] = m[a]
            /\ \A i \in 1..Len(s) : uu[i] = ss[i]
        <5> HIDE DEF ss
        <5> QED BY <2>2, <3>2, AppendProperties
      <4>2. \A i \in 1..Len(s) + 1 : tt[i] = uu[i]
        <5>1. \A i \in 1..Len(s) : i \in DOMAIN t /\ tt[i] = m[s[i]]
          <6> HIDE DEF t
          <6> QED BY <2>1, <3>1
        <5>2. tt[Len(s) + 1] = m[a]
          <6> HIDE DEF t
          <6> QED BY <2>1, <3>1
        <5>3. \A i \in 1..Len(s) : uu[i] = m[s[i]]
          <6> HIDE DEF uu
          <6> QED BY <2>1, <4>1
        <5>4. \A i \in 1..Len(s) + 1 : i \in 1..Len(s) \/ i = Len(s) + 1
          BY <2>1
        <5> HIDE DEF tt, uu
        <5> QED BY <4>1, <5>1, <5>2, <5>3, <5>4
      <4>3. /\ tt = [i \in 1..Len(s) + 1 |-> tt[i]]
            /\ uu = [i \in 1..Len(s) + 1 |-> uu[i]]
        <5>1. tt = [i \in 1..Len(s) + 1 |-> tt[i]]
          BY <3>1
        <5> HIDE DEF uu
        <5> QED BY <4>1, <5>1
      <4> HIDE DEF tt, uu
      <4>4. tt = uu
        BY <4>2, <4>3
      <4> QED BY <4>4 DEF uu
    <3>4. FlattenSeq(Append(ss, m[a])) = FlattenSeq(ss) \o m[a]
      <4> HIDE DEF ss
      <4> QED BY <2>2, <3>2, FlattenAppend
    <3> HIDE DEF ss, tt
    <3>5. FlattenSeq(tt) = FlattenSeq(ss) \o m[a]
      BY <3>3, <3>4
    <3> QED BY <3>5 DEF MapFlat, ss, tt
  <2> QED BY <2>2, <2>3, <2>4
<1> QED BY <1>0, <1>1, <1>2

LEMMA MapFlatOne ==
    ASSUME NEW A, NEW S, NEW m \in SequenceMaps(A, S), NEW a \in A
    PROVE  MapFlat(m, <<a>>) = m[a]
<1>0. /\ \A x \in A : m[x] \in Seq(S)
      /\ MapFlat(m, <<>>) = <<>>
      /\ \A s \in Seq(A) : MapFlat(m, s) \in Seq(S)
      /\ \A s \in Seq(A), b \in A : MapFlat(m, Append(s, b)) = MapFlat(m, s) \o m[b]
  BY MapFlatAppends
<1>1. <<>> \in Seq(A) /\ <<a>> = Append(<<>>, a) /\ m[a] \in Seq(S)
  BY <1>0
<1>2. MapFlat(m, <<a>>) = <<>> \o m[a]
  BY <1>0, <1>1
<1> QED BY <1>1, <1>2, ConcatEmptySeq

LEMMA MapFlatConcat ==
    ASSUME NEW A, NEW S, NEW m \in SequenceMaps(A, S), NEW s \in Seq(A), NEW t \in Seq(A)
    PROVE  MapFlat(m, s \o t) = MapFlat(m, s) \o MapFlat(m, t)
<1>0. /\ \A a \in A : m[a] \in Seq(S)
      /\ MapFlat(m, <<>>) = <<>>
      /\ \A u \in Seq(A) : MapFlat(m, u) \in Seq(S)
      /\ \A u \in Seq(A), a \in A : MapFlat(m, Append(u, a)) = MapFlat(m, u) \o m[a]
  BY MapFlatAppends
<1> DEFINE T == {u \in Seq(A) : MapFlat(m, s \o u) = MapFlat(m, s) \o MapFlat(m, u)}
<1>1. MapFlat(m, s) \in Seq(S)
  BY <1>0
<1>2. <<>> \in T
  <2>1. s \o <<>> = s /\ MapFlat(m, s) \o <<>> = MapFlat(m, s) /\ <<>> \in Seq(A)
    BY <1>1, ConcatEmptySeq
  <2> QED BY <1>0, <2>1
<1>3. ASSUME NEW u \in Seq(A), u \in T, NEW e \in A PROVE Append(u, e) \in T
  <2>1. s \o u \in Seq(A) /\ s \o Append(u, e) = Append(s \o u, e) /\ Append(u, e) \in Seq(A)
    OBVIOUS
  <2>2. /\ MapFlat(m, Append(s \o u, e)) = MapFlat(m, s \o u) \o m[e]
        /\ MapFlat(m, Append(u, e)) = MapFlat(m, u) \o m[e]
        /\ MapFlat(m, u) \in Seq(S) /\ m[e] \in Seq(S)
    BY <1>0, <2>1
  <2>3. (MapFlat(m, s) \o MapFlat(m, u)) \o m[e] = MapFlat(m, s) \o (MapFlat(m, u) \o m[e])
    <3> DEFINE x == MapFlat(m, s)  y == MapFlat(m, u)  z == m[e]
    <3>1. x \in Seq(S) /\ y \in Seq(S) /\ z \in Seq(S)
      BY <1>1, <2>2
    <3> HIDE DEF x, y, z, T
    <3>2. (x \o y) \o z = x \o (y \o z)
      BY ONLY <3>1, ConcatAssociative, SMTT(30)
    <3> QED BY <3>2 DEF x, y, z
  <2> QED BY <1>3, <2>1, <2>2, <2>3
<1> HIDE DEF T
<1>4. Seq(A) \subseteq T
  BY <1>2, <1>3, SequenceInduction
<1> QED BY <1>4 DEF T

LEMMA ToSetConcat ==
    ASSUME NEW S, NEW s \in Seq(S), NEW t \in Seq(S)
    PROVE  ToSet(s \o t) = ToSet(s) \cup ToSet(t)
<1> DEFINE c == s \o t  m == Len(s)  n == Len(t)
<1>1. /\ m \in Nat /\ n \in Nat /\ DOMAIN s = 1..m /\ DOMAIN t = 1..n
      /\ DOMAIN c = 1..m + n
      /\ \A i \in 1..m : c[i] = s[i]
      /\ \A i \in 1..n : c[m + i] = t[i]
  OBVIOUS
<1>2. /\ \A i \in 1..m : i \in 1..m + n
      /\ \A i \in 1..n : m + i \in 1..m + n
      /\ \A i \in 1..m + n : i \in 1..m \/ \E j \in 1..n : i = m + j
  <2>1. ASSUME NEW i \in 1..m + n, i \notin 1..m PROVE \E j \in 1..n : i = m + j
    <3>1. i - m \in 1..n /\ i = m + (i - m)
      BY <1>1, <2>1
    <3> QED BY <3>1
  <2> QED BY <1>1, <2>1
<1> HIDE DEF c, m, n
<1>3. ASSUME NEW x \in ToSet(c) PROVE x \in ToSet(s) \cup ToSet(t)
  <2>1. PICK i \in 1..m + n : x = c[i]
    BY <1>1, <1>3 DEF ToSet
  <2>2. CASE i \in 1..m
    BY <1>1, <2>1, <2>2 DEF ToSet
  <2>3. CASE \E j \in 1..n : i = m + j
    BY <1>1, <2>1, <2>3 DEF ToSet
  <2> QED BY <1>2, <2>2, <2>3
<1>4. ASSUME NEW x \in ToSet(s) \cup ToSet(t) PROVE x \in ToSet(c)
  BY <1>1, <1>2 DEF ToSet
<1> QED BY <1>3, <1>4 DEF c

LEMMA FlattenHolds ==
    ASSUME NEW S, NEW ss \in Seq(Seq(S))
    PROVE  ToSet(FlattenSeq(ss)) = UNION {ToSet(x) : x \in ToSet(ss)}
<1> DEFINE T == {tt \in Seq(Seq(S)) : ToSet(FlattenSeq(tt)) = UNION {ToSet(x) : x \in ToSet(tt)}}
<1>1. <<>> \in T
  <2>1. ToSet(<<>>) = {} /\ FlattenSeq(<<>>) = <<>> /\ <<>> \in Seq(Seq(S))
    BY DEF ToSet, FlattenSeq
  <2> QED BY <2>1
<1>2. ASSUME NEW tt \in Seq(Seq(S)), tt \in T, NEW e \in Seq(S) PROVE Append(tt, e) \in T
  <2>1. FlattenSeq(Append(tt, e)) = FlattenSeq(tt) \o e /\ FlattenSeq(tt) \in Seq(S)
    BY FlattenAppend
  <2>2. ToSet(FlattenSeq(Append(tt, e))) = ToSet(FlattenSeq(tt)) \cup ToSet(e)
    BY <2>1, ToSetConcat
  <2> DEFINE one == <<e>>
  <2>3. one \in Seq(Seq(S)) /\ Append(tt, e) = tt \o one /\ ToSet(one) = {e} /\ Append(tt, e) \in Seq(Seq(S))
    BY DEF ToSet
  <2> HIDE DEF one, T
  <2>4. ToSet(tt \o one) = ToSet(tt) \cup ToSet(one)
    BY <2>3, ToSetConcat
  <2>5. ToSet(Append(tt, e)) = ToSet(tt) \cup {e}
    BY <2>3, <2>4
  <2>6. ToSet(FlattenSeq(tt)) = UNION {ToSet(x) : x \in ToSet(tt)}
    BY <1>2 DEF T
  <2>7. ToSet(FlattenSeq(Append(tt, e))) = UNION {ToSet(x) : x \in ToSet(Append(tt, e))}
    BY <2>2, <2>5, <2>6
  <2> QED BY <2>3, <2>7 DEF T
<1> HIDE DEF T
<1>3. Seq(Seq(S)) \subseteq T
  BY <1>1, <1>2, SequenceInduction
<1> QED BY <1>3 DEF T

LEMMA MapFlatHolds ==
    ASSUME NEW A, NEW S, NEW m \in SequenceMaps(A, S), NEW s \in Seq(A)
    PROVE  ToSet(MapFlat(m, s)) = UNION {ToSet(m[a]) : a \in ToSet(s)}
<1> DEFINE T == {t \in Seq(A) : ToSet(MapFlat(m, t)) = UNION {ToSet(m[a]) : a \in ToSet(t)}}
<1>0. ToSet(<<>>) = {}
  BY DEF ToSet
<1>a. /\ \A a \in A : m[a] \in Seq(S)
      /\ MapFlat(m, <<>>) = <<>>
      /\ \A u \in Seq(A) : MapFlat(m, u) \in Seq(S)
      /\ \A u \in Seq(A), a \in A : MapFlat(m, Append(u, a)) = MapFlat(m, u) \o m[a]
  BY MapFlatAppends
<1>1. <<>> \in T
  BY <1>0, MapFlatAppends
<1>2. ASSUME NEW t \in Seq(A), t \in T, NEW e \in A PROVE Append(t, e) \in T
  <2>1. Append(t, e) = t \o <<e>> /\ <<e>> \in Seq(A) /\ Append(t, e) \in Seq(A) /\ ToSet(<<e>>) = {e}
    BY DEF ToSet
  <2>2. ToSet(Append(t, e)) = ToSet(t) \cup {e}
    <3>0. <<e>> \in Seq(A)
      OBVIOUS
    <3>1. ToSet(t \o <<e>>) = ToSet(t) \cup ToSet(<<e>>)
      <4> DEFINE u == <<e>>
      <4>1. u \in Seq(A)
        BY <3>0
      <4> HIDE DEF u, T
      <4>2. ToSet(t \o u) = ToSet(t) \cup ToSet(u)
        BY <4>1, ToSetConcat
      <4> QED BY <4>2 DEF u
    <3> QED BY <2>1, <3>1
  <2>3. MapFlat(m, Append(t, e)) = MapFlat(m, t) \o m[e] /\ MapFlat(m, t) \in Seq(S) /\ m[e] \in Seq(S)
    BY <1>a
  <2>4. ToSet(MapFlat(m, Append(t, e))) = ToSet(MapFlat(m, t)) \cup ToSet(m[e])
    BY <2>3, ToSetConcat
  <2> QED BY <1>2, <2>1, <2>2, <2>4
<1> HIDE DEF T
<1>3. Seq(A) \subseteq T
  BY <1>1, <1>2, SequenceInduction
<1> QED BY <1>3 DEF T

\* It makes no difference whether sequences are joined before or after.
MapsFlat(m, A) == [s \in Seq(A) |-> MapFlat(m, s)]
LEMMA MapFlatNested ==
    ASSUME NEW A, NEW S, NEW m \in SequenceMaps(A, S), NEW ss \in Seq(Seq(A))
    PROVE  MapFlat(m, FlattenSeq(ss)) = MapFlat(MapsFlat(m, A), ss)
<1> DEFINE mm == MapsFlat(m, A)
<1> DEFINE T == {tt \in Seq(Seq(A)) : MapFlat(m, FlattenSeq(tt)) = MapFlat(mm, tt)}
<1>a. \A s \in Seq(A) : MapFlat(m, s) \in Seq(S)
  BY MapFlatAppends
<1>b. mm \in SequenceMaps(Seq(A), S) /\ \A s \in Seq(A) : mm[s] = MapFlat(m, s)
  BY <1>a DEF MapsFlat, SequenceMaps
<1> HIDE DEF mm
<1>c. /\ MapFlat(m, <<>>) = <<>> /\ MapFlat(mm, <<>>) = <<>>
      /\ \A s \in Seq(Seq(A)), a \in Seq(A) : MapFlat(mm, Append(s, a)) = MapFlat(mm, s) \o mm[a]
  BY <1>b, MapFlatAppends
<1>1. <<>> \in T
  <2>1. FlattenSeq(<<>>) = <<>> /\ <<>> \in Seq(Seq(A))
    BY DEF FlattenSeq
  <2> QED BY <1>c, <2>1
<1>2. ASSUME NEW tt \in Seq(Seq(A)), tt \in T, NEW e \in Seq(A) PROVE Append(tt, e) \in T
  <2>1. FlattenSeq(Append(tt, e)) = FlattenSeq(tt) \o e /\ FlattenSeq(tt) \in Seq(A)
    BY FlattenAppend
  <2>2. MapFlat(m, FlattenSeq(tt) \o e) = MapFlat(m, FlattenSeq(tt)) \o MapFlat(m, e)
    BY <2>1, MapFlatConcat
  <2>3. MapFlat(mm, Append(tt, e)) = MapFlat(mm, tt) \o mm[e]
    BY <1>c
  <2>4. Append(tt, e) \in Seq(Seq(A))
    OBVIOUS
  <2> QED BY <1>2, <1>b, <2>1, <2>2, <2>3, <2>4
<1> HIDE DEF T
<1>3. Seq(Seq(A)) \subseteq T
  BY <1>1, <1>2, SequenceInduction
<1> QED BY <1>3 DEF T, mm

-----------------------------------------------------------------------------
(* Folds *)

\* FoldLeft takes the elements of 1..n off from the largest.
LEMMA MaxOf ==
    ASSUME NEW n \in Nat
    PROVE  /\ 1..n + 1 \ {n + 1} = 1..n
           /\ \A s \in SUBSET (1..n + 1) : n + 1 \in s => Max(s) = n + 1
           /\ Max(1..n + 1) = n + 1
<1>1. \A s \in SUBSET (1..n + 1) : n + 1 \in s => Max(s) = n + 1
  <2> SUFFICES ASSUME NEW s \in SUBSET (1..n + 1), n + 1 \in s PROVE Max(s) = n + 1
    OBVIOUS
  <2>1. \A y \in s : n + 1 >= y
    OBVIOUS
  <2>2. \A x \in s : (\A y \in s : x >= y) => x = n + 1
    OBVIOUS
  <2>3. \E x \in s : \A y \in s : x >= y
    BY <2>1
  <2> QED BY <2>2, <2>3 DEF Max
<1>2. 1..n + 1 \ {n + 1} = 1..n /\ n + 1 \in 1..n + 1
  OBVIOUS
<1> QED BY <1>1, <1>2

\* A step takes a value and an element, and a fold steps from each set of elements
\* without its largest one.
FoldSteps(n, V) == [1..n -> [V -> V]]
FoldsSets(f, n, V, first, step) ==
    /\ f \in [SUBSET (1..n) -> V]
    /\ f = [s \in SUBSET (1..n) |-> IF s = {} THEN first ELSE step[Max(s)][f[s \ {Max(s)}]]]

LEMMA SetsFold ==
    ASSUME NEW n \in Nat, NEW V, NEW first \in V, NEW step \in FoldSteps(n, V)
    PROVE  \E f : FoldsSets(f, n, V, first, step)
<1>0. step \in [1..n -> [V -> V]]
  BY DEF FoldSteps
<1> DEFINE Upto(k, f) == /\ f \in [SUBSET (1..k) -> V]
                         /\ \A s \in SUBSET (1..k) :
                               f[s] = IF s = {} THEN first ELSE step[Max(s)][f[s \ {Max(s)}]]
           S == {k \in 0..n : \E f : Upto(k, f)}
<1>1. 0 \in S
  <2> DEFINE f == [s \in SUBSET (1..0) |-> first]
  <2>1. 1..0 = {}
    OBVIOUS
  <2>2. \A s \in SUBSET (1..0) : s = {} /\ f[s] = first
    BY <2>1
  <2>3. Upto(0, f)
    BY <2>2
  <2> HIDE DEF f, Upto
  <2> QED BY <2>3
<1>2. ASSUME NEW k \in 0..n - 1, k \in S PROVE k + 1 \in S
  <2>1. PICK f : Upto(k, f)
    BY <1>2
  <2> DEFINE g == [s \in SUBSET (1..k + 1) |->
                      IF k + 1 \in s THEN step[k + 1][f[s \ {k + 1}]] ELSE f[s]]
  <2>2. k \in Nat /\ k + 1 \in 1..n
    OBVIOUS
  <2>3. \A s \in SUBSET (1..k + 1) : k + 1 \notin s => s \in SUBSET (1..k)
    BY <2>2
  <2>4. \A s \in SUBSET (1..k + 1) : s \ {k + 1} \in SUBSET (1..k) /\ k + 1 \notin s \ {k + 1}
    BY <2>2
  <2>5. g \in [SUBSET (1..k + 1) -> V]
    <3> SUFFICES ASSUME NEW s \in SUBSET (1..k + 1)
                 PROVE (IF k + 1 \in s THEN step[k + 1][f[s \ {k + 1}]] ELSE f[s]) \in V
      OBVIOUS
    <3>1. CASE k + 1 \in s
      <4>1. f[s \ {k + 1}] \in V
        BY <2>1, <2>4
      <4> QED BY <1>0, <2>2, <3>1, <4>1
    <3>2. CASE k + 1 \notin s
      BY <2>1, <2>3, <3>2
    <3> QED BY <3>1, <3>2
  <2>6. ASSUME NEW s \in SUBSET (1..k + 1)
        PROVE  g[s] = IF s = {} THEN first ELSE step[Max(s)][g[s \ {Max(s)}]]
    <3>1. CASE k + 1 \in s
      <4>1. Max(s) = k + 1
        BY <2>2, <3>1, MaxOf
      <4>2. g[s \ {k + 1}] = f[s \ {k + 1}]
        <5>1. s \ {k + 1} \in SUBSET (1..k + 1)
          OBVIOUS
        <5> QED BY <2>4, <5>1
      <4>3. g[s] = step[k + 1][f[s \ {k + 1}]]
        BY <3>1
      <4> HIDE DEF g
      <4> QED BY <3>1, <4>1, <4>2, <4>3
    <3>2. CASE k + 1 \notin s
      <4>1. s \in SUBSET (1..k) /\ g[s] = f[s]
        BY <2>3, <3>2
      <4>2. f[s] = IF s = {} THEN first ELSE step[Max(s)][f[s \ {Max(s)}]]
        BY <2>1, <4>1
      <4>3. s \ {Max(s)} \in SUBSET (1..k + 1) /\ k + 1 \notin s \ {Max(s)}
        BY <3>2
      <4>4. g[s \ {Max(s)}] = f[s \ {Max(s)}]
        BY <4>3
      <4> HIDE DEF g
      <4> QED BY <4>1, <4>2, <4>4
    <3> QED BY <3>1, <3>2
  <2>7. Upto(k + 1, g)
    <3> HIDE DEF g
    <3> QED BY <2>5, <2>6
  <2> HIDE DEF g, Upto
  <2> QED BY <2>2, <2>7
<1>3. n \in S
  <2>1. 0 \in Int /\ n \in Int /\ n \in 0..n
    OBVIOUS
  <2>2. 0..n \subseteq S
    <3> HIDE DEF S
    <3> QED BY <1>1, <1>2, <2>1, IntervalInduction
  <2> QED BY <2>1, <2>2
<1>4. PICK f : Upto(n, f)
  BY <1>3
<1>5. f = [s \in SUBSET (1..n) |-> IF s = {} THEN first ELSE step[Max(s)][f[s \ {Max(s)}]]]
  BY <1>4
<1> QED BY <1>4, <1>5 DEF FoldsSets

LEMMA UptoLast ==
    ASSUME NEW n \in Nat, NEW k \in 1..n
    PROVE  /\ k - 1 \in 0..n /\ k \in 0..n /\ k \in Nat
           /\ 1..k \in SUBSET (1..n) /\ 1..k # {}
           /\ 1..k \ {k} = 1..k - 1 /\ Max(1..k) = k
<1>1. k - 1 \in Nat /\ (k - 1) + 1 = k /\ k \in 1..k
  OBVIOUS
<1>2. 1..k \ {k} = 1..k - 1 /\ Max(1..k) = k
  BY <1>1, MaxOf
<1> QED BY <1>1, <1>2

LEMMA MaxExists ==
    ASSUME NEW n \in Nat, NEW s \in SUBSET (1..n), s # {}
    PROVE  \E x \in s : \A y \in s : x >= y
<1> DEFINE S == {k \in 0..n : \A t \in SUBSET (1..k) : t # {} => \E x \in t : \A y \in t : x >= y}
<1>1. 0 \in S
  <2>1. 1..0 = {}
    OBVIOUS
  <2>2. \A t \in SUBSET (1..0) : t = {}
    BY <2>1
  <2>3. 0 \in 0..n
    OBVIOUS
  <2>4. \A t \in SUBSET (1..0) : t # {} => \E x \in t : \A y \in t : x >= y
    BY <2>2
  <2> QED BY <2>3, <2>4
<1>2. ASSUME NEW k \in 0..n - 1, k \in S PROVE k + 1 \in S
  <2> SUFFICES ASSUME NEW t \in SUBSET (1..k + 1), t # {} PROVE \E x \in t : \A y \in t : x >= y
    OBVIOUS
  <2>1. CASE k + 1 \in t
    BY <2>1
  <2>2. CASE k + 1 \notin t
    <3>1. t \in SUBSET (1..k)
      BY <2>2
    <3> QED BY <1>2, <3>1
  <2> QED BY <2>1, <2>2
<1>3. n \in S
  <2>1. 0 \in Int /\ n \in Int /\ n \in 0..n
    OBVIOUS
  <2>2. 0..n \subseteq S
    <3> HIDE DEF S
    <3> QED BY <1>1, <1>2, <2>1, IntervalInduction
  <2> QED BY <2>1, <2>2
<1> QED BY <1>3

LEMMA MaxIn ==
    ASSUME NEW n \in Nat, NEW s \in SUBSET (1..n), s # {}
    PROVE  Max(s) \in s
<1>1. \E x \in s : \A y \in s : x >= y
  BY MaxExists
<1> QED BY <1>1 DEF Max

\* The values of a fold after each number of elements.
FoldTrace(p, n, V, first, step) ==
    /\ p \in [0..n -> V]
    /\ p[0] = first
    /\ \A k \in 1..n : p[k] = step[k][p[k - 1]]

\* h gives at every prefix 1..k what the first k steps of the fold give.
PrefixFold(h, n, V, first, step) ==
    /\ n \in Nat /\ first \in V /\ step \in FoldSteps(n, V)
    /\ h[{}] = first
    /\ \A k \in 1..n : h[1..k - 1] \in V => h[1..k] = step[k][h[1..k - 1]]

\* Where every prefix follows from the one before it, h traces the fold.
LEMMA FoldPrefixes ==
    ASSUME NEW n, NEW V, NEW first, NEW step, NEW h, PrefixFold(h, n, V, first, step)
    PROVE  FoldTrace([k \in 0..n |-> h[1..k]], n, V, first, step)
<1> DEFINE p == [k \in 0..n |-> h[1..k]]
           T == {k \in 0..n : h[1..k] \in V}
<1>0. /\ n \in Nat /\ first \in V /\ step \in [1..n -> [V -> V]] /\ h[{}] = first
      /\ \A k \in 1..n : h[1..k - 1] \in V => h[1..k] = step[k][h[1..k - 1]]
  BY DEF PrefixFold, FoldSteps
<1>1. h[1..0] = first /\ 0 \in 0..n
  <2>1. 1..0 = {} /\ 0 \in 0..n
    BY <1>0
  <2> QED BY <1>0, <2>1
<1>2. 0..n \subseteq T
  <2>1. 0 \in T
    BY <1>0, <1>1
  <2>2. ASSUME NEW k \in 0..n - 1, k \in T PROVE k + 1 \in T
    <3>1. k + 1 \in 1..n /\ k + 1 \in 0..n /\ (k + 1) - 1 = k
      BY <1>0
    <3>2. h[1..k] \in V
      BY <2>2
    <3>3. h[1..k + 1] = step[k + 1][h[1..k]]
      BY <1>0, <3>1, <3>2
    <3>4. step[k + 1][h[1..k]] \in V
      BY <1>0, <3>1, <3>2
    <3> QED BY <3>1, <3>3, <3>4
  <2>3. 0 \in Int /\ n \in Int
    BY <1>0
  <2> HIDE DEF T
  <2> QED BY <2>1, <2>2, <2>3, IntervalInduction
<1>3. p \in [0..n -> V]
  BY <1>0, <1>2
<1>4. p[0] = first
  BY <1>0, <1>1
<1>5. ASSUME NEW k \in 1..n PROVE p[k] = step[k][p[k - 1]]
  <2>1. k \in 0..n /\ k - 1 \in 0..n
    BY <1>0
  <2> QED BY <1>0, <1>2, <2>1
<1> HIDE DEF p
<1> QED BY <1>3, <1>4, <1>5 DEF FoldTrace, p

-----------------------------------------------------------------------------
(* Choosing from a sequence *)

\* The elements of s that are in S, in their order.
Picked(s, S) == FlattenSeq([i \in DOMAIN s |-> IF s[i] \in S THEN <<s[i]>> ELSE <<>>])
Picks(A, S) == [a \in A |-> IF a \in S THEN <<a>> ELSE <<>>]

\* A sequence with one more element behind it.
LEMMA ConcatOne ==
    ASSUME NEW B, NEW f \in Seq(B), NEW z \in Seq(B), Len(z) = 1
    PROVE  /\ Len(f) \in Nat /\ DOMAIN f = 1..Len(f) /\ DOMAIN (f \o z) = 1..Len(f) + 1
           /\ (f \o z)[Len(f) + 1] = z[1] /\ \A i \in 1..Len(f) : (f \o z)[i] = f[i]
<1> DEFINE k == Len(f)  g == f \o z
<1>1. k \in Nat /\ DOMAIN f = 1..k
  OBVIOUS
<1>2. /\ g \in Seq(B) /\ Len(g) = k + Len(z)
      /\ \A i \in 1..k + Len(z) : g[i] = IF i <= k THEN f[i] ELSE z[i - k]
  BY ConcatProperties
<1> HIDE DEF k, g
<1>3. DOMAIN g = 1..k + 1
  BY <1>1, <1>2
<1>4. \A i \in 1..k : i \in 1..k + 1 /\ i <= k
  BY <1>1
<1>5. k + 1 \in 1..k + 1 /\ ~(k + 1 <= k) /\ (k + 1) - k = 1
  BY <1>1
<1> QED BY <1>1, <1>2, <1>3, <1>4, <1>5 DEF k, g

\* What is picked is of the sequence and of the set, none of it is lost, and
\* nothing is picked twice.
LEMMA PickedIs ==
    ASSUME NEW A, NEW s \in Seq(A), NEW S
    PROVE  /\ Picked(s, S) \in Seq(A \cap S)
           /\ ToSet(Picked(s, S)) = ToSet(s) \cap S
           /\ (\A i, j \in DOMAIN s : s[i] = s[j] => i = j)
                 => \A i, j \in DOMAIN Picked(s, S) : Picked(s, S)[i] = Picked(s, S)[j] => i = j
<1> DEFINE m == Picks(A, S)
           B == A \cap S
           one(a) == <<a>>
           none == <<>>
           Once(t) == \A i, j \in DOMAIN t : t[i] = t[j] => i = j
           T == {t \in Seq(A) : /\ Picked(t, S) = MapFlat(m, t)
                                /\ ToSet(MapFlat(m, t)) = ToSet(t) \cap S
                                /\ Once(t) => Once(MapFlat(m, t))}
<1>1. \A a \in B : one(a) \in Seq(B) /\ Len(one(a)) = 1 /\ one(a)[1] = a
  OBVIOUS
<1>2. none \in Seq(B) /\ ToSet(none) = {} /\ DOMAIN none = {}
  BY DEF ToSet
<1>3. \A a \in A : m[a] = IF a \in S THEN one(a) ELSE none
  BY DEF Picks
<1>4. m \in SequenceMaps(A, B)
  <2>1. \A a \in A : (IF a \in S THEN one(a) ELSE none) \in Seq(B)
    BY <1>1, <1>2
  <2>2. m = [a \in A |-> IF a \in S THEN one(a) ELSE none]
    BY DEF Picks
  <2> HIDE DEF one, none, m
  <2> QED BY <2>1, <2>2 DEF SequenceMaps
<1>5. \A t \in Seq(A) : Picked(t, S) = MapFlat(m, t)
  <2> SUFFICES ASSUME NEW t \in Seq(A) PROVE Picked(t, S) = MapFlat(m, t)
    OBVIOUS
  <2>1. \A i \in DOMAIN t : t[i] \in A
    OBVIOUS
  <2>2. [i \in DOMAIN t |-> IF t[i] \in S THEN one(t[i]) ELSE none] = [i \in DOMAIN t |-> m[t[i]]]
    <3> HIDE DEF one, none, m
    <3> QED BY <1>3, <2>1
  <2> QED BY <2>2 DEF Picked, MapFlat
<1> HIDE DEF m, one, none
<1>6. /\ MapFlat(m, <<>>) = <<>>
      /\ \A t \in Seq(A) : MapFlat(m, t) \in Seq(B)
      /\ \A t \in Seq(A), a \in A : MapFlat(m, Append(t, a)) = MapFlat(m, t) \o m[a]
  BY <1>4, MapFlatAppends
<1>7. <<>> \in T
  <2> DEFINE e == <<>>
  <2>1. e \in Seq(A) /\ ToSet(e) = {} /\ DOMAIN e = {}
    BY DEF ToSet
  <2>2. MapFlat(m, e) = e
    BY <1>6
  <2> HIDE DEF e
  <2>3. Picked(e, S) = MapFlat(m, e)
    BY <1>5, <2>1
  <2>4. e \in T
    BY <2>1, <2>2, <2>3
  <2> QED BY <2>4 DEF e
<1>8. ASSUME NEW t \in Seq(A), t \in T, NEW a \in A PROVE Append(t, a) \in T
  <2> DEFINE u == Append(t, a)
             f == MapFlat(m, t)
             g == MapFlat(m, u)
  <2>1. /\ u \in Seq(A) /\ DOMAIN u = 1..Len(t) + 1 /\ DOMAIN t = 1..Len(t) /\ Len(t) \in Nat
        /\ u[Len(t) + 1] = a /\ \A i \in 1..Len(t) : u[i] = t[i]
    OBVIOUS
  <2>2. ToSet(u) = ToSet(t) \cup {a}
    <3>1. \A x : x \in ToSet(u) <=> x \in ToSet(t) \/ x = a
      <4> HIDE DEF u
      <4>1. \A i \in 1..Len(t) + 1 : i \in 1..Len(t) \/ i = Len(t) + 1
        BY <2>1
      <4>2. \A i \in 1..Len(t) : i \in 1..Len(t) + 1
        BY <2>1
      <4>3. Len(t) + 1 \in 1..Len(t) + 1
        BY <2>1
      <4> QED BY <2>1, <4>1, <4>2, <4>3 DEF ToSet
    <3> QED BY <3>1
  <2>3. f \in Seq(B) /\ g = f \o m[a] /\ ToSet(f) = ToSet(t) \cap S
    BY <1>6, <1>8
  <2>4. Once(u) => Once(t) /\ a \notin ToSet(t)
    <3> SUFFICES ASSUME Once(u) PROVE Once(t) /\ a \notin ToSet(t)
      OBVIOUS
    <3> HIDE DEF u
    <3>1. \A i \in 1..Len(t) : i \in 1..Len(t) + 1 /\ i # Len(t) + 1 /\ Len(t) + 1 \in 1..Len(t) + 1
      BY <2>1
    <3>2. Once(t)
      BY <2>1, <3>1
    <3>3. \A i \in DOMAIN t : t[i] # a
      BY <2>1, <3>1
    <3> QED BY <3>2, <3>3 DEF ToSet
  <2>5. Once(t) => Once(f)
    BY <1>8
  <2>6. CASE a \in S
    <3>1. m[a] = one(a) /\ one(a) \in Seq(B) /\ Len(one(a)) = 1 /\ one(a)[1] = a
      BY <1>1, <1>3, <2>6
    <3>2. /\ Len(f) \in Nat /\ DOMAIN f = 1..Len(f) /\ DOMAIN g = 1..Len(f) + 1
          /\ g[Len(f) + 1] = a /\ \A i \in 1..Len(f) : g[i] = f[i]
      <4> HIDE DEF f, g, u, T, B
      <4> DEFINE z == m[a]
      <4>1. z \in Seq(B) /\ Len(z) = 1 /\ z[1] = a /\ f \in Seq(B) /\ g = f \o z
        BY <2>3, <3>1
      <4> HIDE DEF z
      <4> QED BY <4>1, ConcatOne
    <3> HIDE DEF f, g, u, T
    <3>3. \A i \in 1..Len(f) + 1 : i \in 1..Len(f) \/ i = Len(f) + 1
      BY <3>2
    <3>4. /\ \A i \in 1..Len(f) : i \in 1..Len(f) + 1
          /\ Len(f) + 1 \in 1..Len(f) + 1
      BY <3>2
    <3>5. ToSet(g) = ToSet(f) \cup {a}
      BY <3>2, <3>3, <3>4 DEF ToSet
    <3>6. ToSet(g) = ToSet(u) \cap S
      BY <2>2, <2>3, <2>6, <3>5
    <3>7. Once(u) => Once(g)
      <4> SUFFICES ASSUME Once(u), NEW i \in DOMAIN g, NEW j \in DOMAIN g, g[i] = g[j] PROVE i = j
        OBVIOUS
      <4>1. Once(f) /\ a \notin ToSet(f)
        BY <2>3, <2>4, <2>5
      <4>2. \A k \in 1..Len(f) : f[k] # a
        BY <3>2, <4>1 DEF ToSet
      <4>3. CASE i \in 1..Len(f) /\ j \in 1..Len(f)
        BY <3>2, <4>1, <4>3
      <4>4. CASE i = Len(f) + 1 \/ j = Len(f) + 1
        BY <3>2, <3>3, <4>2, <4>4
      <4> QED BY <3>2, <3>3, <4>3, <4>4
    <3> QED BY <1>5, <2>1, <3>6, <3>7 DEF T, g, u
  <2>7. CASE a \notin S
    <3>1. m[a] = none
      BY <1>3, <2>7
    <3>2. g = f
      <4>1. g = f \o <<>>
        BY <2>3, <3>1 DEF none
      <4> HIDE DEF f, g
      <4> QED BY <2>3, <4>1
    <3> HIDE DEF f, g, u, T
    <3>3. ToSet(g) = ToSet(u) \cap S
      BY <2>2, <2>3, <2>7, <3>2
    <3> QED BY <1>5, <2>1, <2>4, <2>5, <3>2, <3>3 DEF T, g, u
  <2> QED BY <2>6, <2>7
<1>9. s \in T
  <2> HIDE DEF T
  <2>1. Seq(A) \subseteq T
    BY <1>7, <1>8, SequenceInduction
  <2> QED BY <2>1
<1> QED BY <1>5, <1>6, <1>9

\* Of finitely many triples of numbers one is the first.
FirstPicked(x, s, a, b, c) ==
    \A y \in s :
        \/ a[x] < a[y]
        \/ a[x] = a[y] /\ b[x] < b[y]
        \/ a[x] = a[y] /\ b[x] = b[y] /\ c[x] <= c[y]
LEMMA LeastOfThree ==
    ASSUME NEW n \in Nat, NEW a \in [1..n -> Int], NEW b \in [1..n -> Int], NEW c \in [1..n -> Int],
           NEW s \in SUBSET (1..n), s # {}
    PROVE  \E x \in s : FirstPicked(x, s, a, b, c)
<1> DEFINE Minus(f) == [i \in 1..n |-> 0 - f[i]]
<1>1. ASSUME NEW f \in [1..n -> Int], NEW t \in SUBSET (1..n), t # {}
      PROVE  \E x \in t : \A y \in t : f[x] <= f[y]
  <2>1. Minus(f) \in [1..n -> Int]
    OBVIOUS
  <2> HIDE DEF Minus
  <2>2. PICK x \in t : \A y \in t : Minus(f)[y] <= Minus(f)[x]
    BY <1>1, <2>1, LargestKey
  <2>3. \A y \in t : f[x] <= f[y]
    <3> SUFFICES ASSUME NEW y \in t PROVE f[x] <= f[y]
      OBVIOUS
    <3> DEFINE u == f[x]
               v == f[y]
    <3>1. u \in Int /\ v \in Int
      OBVIOUS
    <3>2. Minus(f)[y] = 0 - v /\ Minus(f)[x] = 0 - u
      BY DEF Minus
    <3>3. 0 - v <= 0 - u
      BY <2>2, <3>2
    <3> HIDE DEF u, v
    <3>4. u <= v
      BY ONLY <3>1, <3>3, SMT
    <3> QED BY <3>4 DEF u, v
  <2> QED BY <2>3
<1>2. PICK x1 \in s : \A y \in s : a[x1] <= a[y]
  BY <1>1
<1> DEFINE s2 == {y \in s : a[y] = a[x1]}
<1>3. PICK x2 \in s2 : \A y \in s2 : b[x2] <= b[y]
  <2>1. s2 \in SUBSET (1..n) /\ s2 # {}
    OBVIOUS
  <2> HIDE DEF s2
  <2> QED BY <1>1, <2>1
<1> DEFINE s3 == {y \in s2 : b[y] = b[x2]}
<1>4. PICK x3 \in s3 : \A y \in s3 : c[x3] <= c[y]
  <2>1. s3 \in SUBSET (1..n) /\ s3 # {}
    OBVIOUS
  <2> HIDE DEF s3
  <2> QED BY <1>1, <2>1
<1>5. x3 \in s /\ a[x3] = a[x1] /\ b[x3] = b[x2]
  OBVIOUS
<1> HIDE DEF s2, s3
<1>6. ASSUME NEW y \in s
      PROVE  \/ a[x3] < a[y]
             \/ a[x3] = a[y] /\ b[x3] < b[y]
             \/ a[x3] = a[y] /\ b[x3] = b[y] /\ c[x3] <= c[y]
  <2>0. a[x1] \in Int /\ a[y] \in Int /\ b[x2] \in Int /\ b[y] \in Int /\ c[y] \in Int /\ c[x3] \in Int
    BY DEF s2, s3
  <2>1. CASE a[y] # a[x1]
    <3>1. a[x1] <= a[y]
      BY <1>2
    <3>2. a[x3] < a[y]
      BY <1>5, <2>0, <2>1, <3>1, SMTT(30)
    <3> QED BY <3>2
  <2>2. CASE a[y] = a[x1] /\ b[y] # b[x2]
    <3>1. b[x2] <= b[y]
      BY <1>3, <2>2 DEF s2
    <3>2. b[x3] < b[y]
      BY <1>5, <2>0, <2>2, <3>1, SMTT(30)
    <3> QED BY <1>5, <2>2, <3>2
  <2>3. CASE a[y] = a[x1] /\ b[y] = b[x2]
    <3>1. c[x3] <= c[y]
      BY <1>4, <2>3 DEF s2, s3
    <3> QED BY <1>5, <2>3, <3>1
  <2> QED BY <2>1, <2>2, <2>3
<1>7. FirstPicked(x3, s, a, b, c)
  BY <1>6 DEF FirstPicked
<1> QED BY <1>5, <1>7

\* What finitely many indexes have is finite.
LEMMA ImageFinite ==
    ASSUME NEW n \in Nat, NEW f, NEW I \in SUBSET (1..n)
    PROVE  IsFiniteSet({f[i] : i \in I})
<1> DEFINE g == [i \in I |-> f[i]]
           T == {f[i] : i \in I}
<1>1. IsFiniteSet(I)
  <2>1. IsFiniteSet(1..n)
    BY FS_Interval
  <2> QED BY <2>1, FS_Subset
<1>2. g \in Surjection(I, T)
  BY DEF Surjection
<1> HIDE DEF g, T
<1>3. IsFiniteSet(T)
  BY <1>1, <1>2, FS_Surjection
<1> QED BY <1>3 DEF T

\* More indexes than values: some index has a value of its own.
LEMMA OneOutside ==
    ASSUME NEW n \in Nat, NEW f, \A i, j \in 1..n : f[i] = f[j] => i = j,
           NEW T, IsFiniteSet(T), Cardinality(T) < n
    PROVE  \E i \in 1..n : f[i] \notin T
<1> SUFFICES ASSUME \A i \in 1..n : f[i] \in T PROVE FALSE
  OBVIOUS
<1> DEFINE g == [i \in 1..n |-> f[i]]
<1>1. g \in Injection(1..n, T)
  BY DEF Injection, IsInjective
<1> HIDE DEF g
<1>2. Cardinality(1..n) <= Cardinality(T)
  BY <1>1, FS_Injection
<1>3. Cardinality(1..n) = n
  BY FS_Interval
<1>4. Cardinality(T) \in Nat
  BY FS_CardinalityType
<1> QED BY <1>2, <1>3, <1>4

-----------------------------------------------------------------------------
(* Lists that are cut, joined and linked *)

\* The elements of joined lists are those of the first, then of the second.
LEMMA FlatConcat ==
    ASSUME NEW S, NEW ss \in Seq(Seq(S)), NEW tt \in Seq(Seq(S))
    PROVE  FlattenSeq(ss \o tt) = FlattenSeq(ss) \o FlattenSeq(tt)
<1> DEFINE A == Seq(S)
           m == [x \in A |-> x]
<1>1. m \in SequenceMaps(A, S)
  BY DEF SequenceMaps
<1>2. ASSUME NEW s \in Seq(A) PROVE MapFlat(m, s) = FlattenSeq(s)
  <2>1. [i \in DOMAIN s |-> m[s[i]]] = s
    OBVIOUS
  <2> QED BY <2>1 DEF MapFlat
<1>3. ss \in Seq(A) /\ tt \in Seq(A) /\ ss \o tt \in Seq(A)
  OBVIOUS
<1> HIDE DEF m
<1>4. MapFlat(m, ss \o tt) = MapFlat(m, ss) \o MapFlat(m, tt)
  <2> HIDE DEF A
  <2>1. m \in SequenceMaps(A, S)
    BY <1>1 DEF A
  <2> QED BY <1>3, <2>1, MapFlatConcat
<1> HIDE DEF A
<1> QED BY <1>2, <1>3, <1>4

\* A single list is its own elements.
LEMMA FlatOne ==
    ASSUME NEW S, NEW s \in Seq(S)
    PROVE  FlattenSeq(<<s>>) = s /\ FlattenSeq(<<>>) = <<>>
<1>1. <<>> \in Seq(Seq(S)) /\ Append(<<>>, s) = <<s>>
  OBVIOUS
<1>2. FlattenSeq(<<>>) = <<>>
  <2>1. [a \in {} |-> <<>>] \in SequenceMaps({}, {})
    BY DEF SequenceMaps
  <2> DEFINE m == [a \in {} |-> <<>>]
  <2>2. MapFlat(m, <<>>) = FlattenSeq(<<>>)
    BY DEF MapFlat
  <2> HIDE DEF m
  <2> QED BY <2>1, <2>2, MapFlatAppends DEF m
<1>3. FlattenSeq(<<s>>) = <<>> \o s
  BY <1>1, <1>2, FlattenAppend
<1> QED BY <1>2, <1>3

\* The first of the sequences is what the flattened sequence begins with.
LEMMA FlatFirst ==
    ASSUME NEW S, NEW ss \in Seq(Seq(S)), ss # <<>>
    PROVE  /\ FlattenSeq(ss) = ss[1] \o FlattenSeq(Tail(ss))
           /\ ss[1] \in Seq(S) /\ Tail(ss) \in Seq(Seq(S)) /\ FlattenSeq(Tail(ss)) \in Seq(S)
<1>1. ss[1] \in Seq(S) /\ Tail(ss) \in Seq(Seq(S)) /\ <<ss[1]>> \in Seq(Seq(S)) /\ ss = <<ss[1]>> \o Tail(ss)
  OBVIOUS
<1>2. FlattenSeq(<<ss[1]>> \o Tail(ss)) = FlattenSeq(<<ss[1]>>) \o FlattenSeq(Tail(ss))
  BY <1>1, FlatConcat
<1>3. FlattenSeq(<<ss[1]>>) = ss[1]
  BY <1>1, FlatOne
<1> QED BY <1>1, <1>2, <1>3, FlattenIn

\* And the last is what it ends with.
LEMMA FlatLast ==
    ASSUME NEW S, NEW ss \in Seq(Seq(S)), ss # <<>>
    PROVE  /\ FlattenSeq(ss) = FlattenSeq(Front(ss)) \o Last(ss)
           /\ Last(ss) \in Seq(S) /\ Front(ss) \in Seq(Seq(S)) /\ FlattenSeq(Front(ss)) \in Seq(S)
           /\ ss = Append(Front(ss), Last(ss)) /\ Len(ss) = Len(Front(ss)) + 1
<1>1. Last(ss) = ss[Len(ss)] /\ Front(ss) = SubSeq(ss, 1, Len(ss) - 1)
  BY DEF Last, Front
<1>2. Last(ss) \in Seq(S) /\ Front(ss) \in Seq(Seq(S)) /\ ss = Append(Front(ss), Last(ss))
      /\ Len(ss) = Len(Front(ss)) + 1
  <2> DEFINE A == Seq(S)
  <2>1. ss \in Seq(A)
    OBVIOUS
  <2> HIDE DEF A
  <2>2. ss[Len(ss)] \in A /\ SubSeq(ss, 1, Len(ss) - 1) \in Seq(A)
    BY <2>1
  <2>3. Len(SubSeq(ss, 1, Len(ss) - 1)) = Len(ss) - 1 /\ Len(ss) \in Nat
    <3>1. Len(ss) \in Nat /\ Len(ss) # 0
      BY <2>1
    <3>2. Len(ss) - 1 \in Nat /\ Len(ss) - 1 <= Len(ss)
      BY <3>1
    <3> DEFINE n == Len(ss) - 1
    <3>3. n \in Nat /\ \A i \in 1..n : ss[i] \in A
      BY <2>1, <3>1, <3>2
    <3> HIDE DEF n
    <3>4. Len(SubSeq(ss, 1, n)) = n
      BY <3>3, SubSeqProperties
    <3> QED BY <3>1, <3>4 DEF n
  <2>4. ss = Append(SubSeq(ss, 1, Len(ss) - 1), ss[Len(ss)])
    BY <2>1
  <2> QED BY <1>1, <2>2, <2>3, <2>4 DEF A
<1> QED BY <1>2, FlattenAppend

\* Sequences whose elements are all different have none in common.
OneToOne(f) == \A p, q \in 1..Len(f) : f[p] = f[q] => p = q

Apart(s) ==
    \A a, b \in 1..Len(s) : a < b =>
        \A x \in 1..Len(s[a]), y \in 1..Len(s[b]) : s[a][x] # s[b][y]

Among(s, f) == \A a \in 1..Len(s) : \A x \in 1..Len(s[a]) : \E p \in 1..Len(f) : f[p] = s[a][x]

\* The parts of a list without repetition are apart.
LEMMA FlatApart ==
    ASSUME NEW S, NEW ss \in Seq(Seq(S)), OneToOne(FlattenSeq(ss))
    PROVE  Apart(ss)
<1> DEFINE A == Seq(S)
           T == {s \in Seq(A) : OneToOne(FlattenSeq(s)) => Apart(s) /\ Among(s, FlattenSeq(s))}
<1>1. <<>> \in T
  BY DEF Apart, Among
<1>2. ASSUME NEW s \in Seq(A), s \in T, NEW e \in A PROVE Append(s, e) \in T
  <2> DEFINE u == Append(s, e)  f == FlattenSeq(s)  g == FlattenSeq(u)
  <2>1. g = f \o e /\ f \in Seq(S) /\ e \in Seq(S)
    BY FlattenAppend
  <2>2. u \in Seq(A) /\ Len(u) = Len(s) + 1 /\ Len(s) \in Nat /\ u[Len(u)] = e
        /\ \A a \in 1..Len(s) : u[a] = s[a] /\ s[a] \in Seq(S)
    OBVIOUS
  <2> HIDE DEF u
  <2>3. Len(g) = Len(f) + Len(e) /\ Len(f) \in Nat /\ Len(e) \in Nat
        /\ (\A p \in 1..Len(f) : g[p] = f[p]) /\ (\A p \in 1..Len(e) : g[Len(f) + p] = e[p])
    <3> HIDE DEF f, g
    <3> QED BY <2>1
  <2>4. ASSUME OneToOne(g) PROVE OneToOne(f)
    <3> HIDE DEF f, g
    <3>1. \A p \in 1..Len(f) : p \in 1..Len(g)
      BY <2>3
    <3> QED BY <2>3, <2>4, <3>1 DEF OneToOne
  <2>5. ASSUME OneToOne(g)
        PROVE  Apart(u) /\ Among(u, g)
    <3>1. Apart(s) /\ Among(s, f)
      BY <1>2, <2>4, <2>5
    <3> HIDE DEF f, g
    <3>2. ASSUME NEW a \in 1..Len(u), NEW b \in 1..Len(u), a < b,
                 NEW x \in 1..Len(u[a]), NEW y \in 1..Len(u[b])
          PROVE  u[a][x] # u[b][y]
      <4>1. a \in 1..Len(s) /\ u[a] = s[a]
        BY <2>2, <3>2, SMTT(30)
      <4>2. CASE b \in 1..Len(s)
        <5>1. u[b] = s[b]
          BY <2>2, <4>2
        <5>2. x \in 1..Len(s[a]) /\ y \in 1..Len(s[b])
          BY <4>1, <5>1
        <5> QED BY <3>1, <3>2, <4>1, <4>2, <5>1, <5>2 DEF Apart
      <4>3. CASE b = Len(u)
        <5>1. PICK p \in 1..Len(f) : f[p] = u[a][x]
          <6>1. x \in 1..Len(s[a])
            BY <4>1
          <6> QED BY <3>1, <4>1, <6>1 DEF Among
        <5>2. y \in 1..Len(e) /\ u[b][y] = g[Len(f) + y]
          BY <2>2, <2>3, <4>3
        <5>3. p \in 1..Len(g) /\ Len(f) + y \in 1..Len(g) /\ p # Len(f) + y /\ g[p] = f[p]
          BY <2>3, <5>2, SMTT(30)
        <5> QED BY <2>5, <5>1, <5>2, <5>3 DEF OneToOne
      <4> QED BY <2>2, <4>2, <4>3
    <3>3. ASSUME NEW a \in 1..Len(u), NEW x \in 1..Len(u[a]) PROVE \E p \in 1..Len(g) : g[p] = u[a][x]
      <4>1. CASE a \in 1..Len(s)
        <5>1. PICK p \in 1..Len(f) : f[p] = u[a][x]
          <6>1. u[a] = s[a]
            BY <2>2, <4>1
          <6>2. x \in 1..Len(s[a])
            BY <6>1
          <6> QED BY <3>1, <4>1, <6>1, <6>2 DEF Among
        <5> QED BY <2>3, <5>1
      <4>2. CASE a = Len(u)
        <5>1. x \in 1..Len(e) /\ u[a][x] = g[Len(f) + x] /\ Len(f) + x \in 1..Len(g)
          BY <2>2, <2>3, <4>2
        <5> QED BY <5>1
      <4> QED BY <2>2, <4>1, <4>2
    <3> QED BY <3>2, <3>3 DEF Apart, Among
  <2>6. u \in T
    BY <2>2, <2>5
  <2> QED BY <2>6 DEF u
<1>3. Seq(A) \subseteq T
  <2> HIDE DEF T, A
  <2> QED BY <1>1, <1>2, SequenceInduction
<1>4. ss \in T
  BY <1>3
<1> QED BY <1>4

\* What provers do not find among many facts.
LEMMA AppendIs ==
    ASSUME NEW S, NEW s \in Seq(S), NEW x \in S
    PROVE  /\ Append(s, x) \in Seq(S) /\ Append(s, x) = s \o <<x>> /\ <<x>> \in Seq(S)
           /\ Len(s) \in Nat /\ DOMAIN s = 1..Len(s)
           /\ Len(Append(s, x)) = Len(s) + 1 /\ DOMAIN Append(s, x) = 1..Len(s) + 1
           /\ Append(s, x)[Len(s) + 1] = x /\ (\A k \in 1..Len(s) : Append(s, x)[k] = s[k])
           /\ Append(s, x) # <<>>
OBVIOUS

\* A joined sequence, place by place.
LEMMA ConcatIs ==
    ASSUME NEW S, NEW s \in Seq(S), NEW t \in Seq(S)
    PROVE  /\ s \o t \in Seq(S) /\ Len(s) \in Nat /\ Len(t) \in Nat
           /\ Len(s \o t) = Len(s) + Len(t) /\ DOMAIN (s \o t) = 1..Len(s) + Len(t)
           /\ (\A k \in 1..Len(s) : (s \o t)[k] = s[k])
           /\ (\A k \in 1..Len(t) : (s \o t)[Len(s) + k] = t[k])
           /\ (\A k \in 1..Len(s) + Len(t) : k > Len(s) => (s \o t)[k] = t[k - Len(s)])
OBVIOUS

\* A sequence is the function of its places.
LEMMA SeqIs ==
    ASSUME NEW S, NEW s \in Seq(S)
    PROVE  s = [k \in 1..Len(s) |-> s[k]] /\ Len(s) \in Nat /\ \A k \in 1..Len(s) : s[k] \in S
OBVIOUS

Upto(a, b) == [k \in 1..b - a + 1 |-> a + k - 1]

\* The numbers from a to b, place by place.
LEMMA UptoIs ==
    ASSUME NEW a \in Nat, NEW b \in Int, b >= a - 1
    PROVE  /\ Upto(a, b) \in Seq(a..b) /\ Len(Upto(a, b)) = b - a + 1 /\ OneToOne(Upto(a, b))
           /\ \A k \in 1..b - a + 1 : Upto(a, b)[k] = a + k - 1
<1> DEFINE n == b - a + 1
<1>1. n \in Nat
  OBVIOUS
<1>2. \A k \in 1..n : a + k - 1 \in a..b
  OBVIOUS
<1>3. Upto(a, b) = [k \in 1..n |-> a + k - 1]
  BY DEF Upto
<1>4. Upto(a, b) \in Seq(a..b) /\ Len(Upto(a, b)) = n /\ \A k \in 1..n : Upto(a, b)[k] = a + k - 1
  <2> HIDE DEF n
  <2> QED BY <1>1, <1>2, <1>3
<1>5. OneToOne(Upto(a, b))
  <2> HIDE DEF n
  <2>1. ASSUME NEW p \in 1..n, NEW q \in 1..n, a + p - 1 = a + q - 1 PROVE p = q
    BY <1>1, <2>1
  <2> QED BY <1>4, <2>1 DEF OneToOne
<1> QED BY <1>4, <1>5

\* Two sequences that join to a run of numbers are runs of numbers.
RunParts(a, b, s, t) ==
    LET m == a + Len(s)
    IN  s = Upto(a, m - 1) /\ t = Upto(m, b) /\ m - 1 \in Int /\ m - 1 >= a - 1 /\ b >= m - 1

LEMMA UptoParts ==
    ASSUME NEW a \in Nat, NEW b \in Int, b >= a - 1, NEW s \in Seq(Int), NEW t \in Seq(Int),
           s \o t = Upto(a, b)
    PROVE  RunParts(a, b, s, t)
<1> DEFINE u == Upto(a, b)  n == b - a + 1  l == Len(s)  m == Len(t)
<1>1. Len(u) = n /\ (\A k \in 1..n : u[k] = a + k - 1) /\ n \in Nat
  <2>1. n \in Nat
    OBVIOUS
  <2>2. Len(Upto(a, b)) = b - a + 1 /\ (\A k \in 1..b - a + 1 : Upto(a, b)[k] = a + k - 1)
    BY UptoIs
  <2> QED BY <2>1, <2>2
<1>2. /\ Len(u) = l + m /\ l \in Nat /\ m \in Nat
      /\ (\A k \in 1..l : u[k] = s[k]) /\ (\A k \in 1..m : u[l + k] = t[k])
  <2> DEFINE V == Int
  <2>1. s \in Seq(V) /\ t \in Seq(V)
    OBVIOUS
  <2> HIDE DEF V
  <2> QED BY <2>1, ConcatIs
<1>3. s = [k \in 1..l |-> s[k]] /\ t = [k \in 1..m |-> t[k]]
  OBVIOUS
<1> HIDE DEF u, l, m, n
<1>4. ASSUME NEW k \in 1..l PROVE s[k] = a + k - 1
  BY <1>1, <1>2
<1>5. ASSUME NEW k \in 1..m PROVE t[k] = (a + l) + k - 1
  <2>1. l + k \in 1..n /\ u[l + k] = t[k]
    BY <1>1, <1>2
  <2>2. u[l + k] = a + (l + k) - 1
    BY <1>1, <2>1
  <2> QED BY <1>2, <2>1, <2>2
<1>6. s = Upto(a, a + l - 1)
  <2>1. (a + l - 1) - a + 1 = l
    BY <1>2
  <2> QED BY <1>3, <1>4, <2>1 DEF Upto
<1>7. t = Upto(a + l, b)
  <2>1. b - (a + l) + 1 = m
    BY <1>1, <1>2 DEF n
  <2> QED BY <1>3, <1>5, <2>1 DEF Upto
<1>8. a + l - 1 \in Int /\ a + l - 1 >= a - 1 /\ b >= a + l - 1
  BY <1>1, <1>2 DEF n
<1> QED BY <1>6, <1>7, <1>8 DEF l, RunParts

\* Two adjoining runs of numbers join to one.
LEMMA UptoJoins ==
    ASSUME NEW a \in Nat, NEW b \in Int, NEW d \in Int, b >= a - 1, d >= b
    PROVE  Upto(a, b) \o Upto(b + 1, d) = Upto(a, d)
<1> DEFINE s == Upto(a, b)  t == Upto(b + 1, d)  u == Upto(a, d)  l == b - a + 1  m == d - b
<1>1. s \in Seq(Int) /\ Len(s) = l /\ (\A k \in 1..l : s[k] = a + k - 1) /\ l \in Nat
  <2>1. s \in Seq(a..b)
    BY UptoIs
  <2>2. s \in Seq(Int)
    <3> DEFINE R == a..b
    <3>1. \A r \in R : r \in Int
      OBVIOUS
    <3> HIDE DEF R
    <3>2. s \in Seq(R)
      BY <2>1 DEF R
    <3> HIDE DEF s
    <3> QED BY <3>1, <3>2
  <2> QED BY <2>2, UptoIs
<1>2. t \in Seq(Int) /\ Len(t) = m /\ (\A k \in 1..m : t[k] = (b + 1) + k - 1) /\ m \in Nat
  <2>1. b + 1 \in Nat /\ d - (b + 1) + 1 = m /\ d >= (b + 1) - 1
    OBVIOUS
  <2>2. t \in Seq(b + 1..d) /\ Len(t) = m /\ (\A k \in 1..m : t[k] = (b + 1) + k - 1)
    BY <2>1, UptoIs
  <2>3. t \in Seq(Int)
    <3> DEFINE R == b + 1..d
    <3>1. \A r \in R : r \in Int
      OBVIOUS
    <3> HIDE DEF R
    <3>2. t \in Seq(R)
      BY <2>2 DEF R
    <3> HIDE DEF t
    <3> QED BY <3>1, <3>2
  <2> QED BY <2>2, <2>3
<1>3. u = [k \in 1..l + m |-> a + k - 1]
  BY DEF Upto
<1> DEFINE w == s \o t
<1>4. /\ w \in Seq(Int) /\ Len(w) = l + m
      /\ (\A k \in 1..l : w[k] = s[k]) /\ (\A k \in 1..m : w[l + k] = t[k])
  <2> DEFINE V == Int
  <2>1. s \in Seq(V) /\ t \in Seq(V)
    BY <1>1, <1>2
  <2> HIDE DEF V, s, t
  <2>2. w \in Seq(V) /\ Len(w) = Len(s) + Len(t) /\ (\A k \in 1..Len(s) : w[k] = s[k])
        /\ (\A k \in 1..Len(t) : w[Len(s) + k] = t[k])
    BY <2>1, ConcatIs
  <2> HIDE DEF w, l, m
  <2> QED BY <1>1, <1>2, <2>2 DEF V
<1>5. l + 0 = b - a + 1 /\ b \in Int
  OBVIOUS
<1> HIDE DEF s, t, w, m, l, u
<1>6. ASSUME NEW k \in 1..l + m PROVE w[k] = a + k - 1
  <2>1. CASE k \in 1..l
    BY <1>1, <1>4, <2>1
  <2>2. CASE k \notin 1..l
    <3>1. k - l \in 1..m /\ l + (k - l) = k
      BY <1>1, <1>2, <2>2
    <3>2. w[k] = t[k - l] /\ t[k - l] = (b + 1) + (k - l) - 1
      BY <1>2, <1>4, <3>1
    <3>3. (b + 1) + (k - l) - 1 = a + k - 1
      BY <1>1, <1>2, <1>5
    <3> QED BY <3>2, <3>3
  <2> QED BY <2>1, <2>2
<1>7. w = [k \in 1..l + m |-> w[k]]
  BY <1>4, SeqIs
<1>8. w = u
  BY <1>3, <1>6, <1>7
<1> QED BY <1>8 DEF w, s, t, u

\* A sequence that is not empty has a front and a last element.
LEMMA FrontLastIs ==
    ASSUME NEW A, NEW s \in Seq(A), s # <<>>
    PROVE  /\ Last(s) \in A /\ Front(s) \in Seq(A) /\ s = Append(Front(s), Last(s))
           /\ Len(s) = Len(Front(s)) + 1 /\ Last(s) = s[Len(s)] /\ Len(Front(s)) \in Nat
           /\ \A k \in 1..Len(Front(s)) : s[k] = Front(s)[k]
<1>1. Last(s) = s[Len(s)] /\ Front(s) = SubSeq(s, 1, Len(s) - 1)
  BY DEF Last, Front
<1>2. Len(s) \in Nat /\ Len(s) # 0
  OBVIOUS
<1> DEFINE n == Len(s) - 1
<1>3. n \in Nat /\ n + 1 = Len(s) /\ \A k \in 1..n : s[k] \in A
  BY <1>2
<1> HIDE DEF n
<1>4. SubSeq(s, 1, n) \in Seq(A) /\ Len(SubSeq(s, 1, n)) = n /\ \A k \in 1..n : SubSeq(s, 1, n)[k] = s[k]
  BY <1>3, SubSeqProperties
<1>5. s[n + 1] \in A /\ s = Append(SubSeq(s, 1, n), s[n + 1])
  BY <1>3
<1>6. n = Len(s) - 1
  BY DEF n
<1> QED BY <1>1, <1>3, <1>4, <1>5, <1>6

\* Joining sequences is associative.
LEMMA PairIs ==
    ASSUME NEW S, NEW a \in Seq(S), NEW b \in Seq(S), NEW e \in Seq(S)
    PROVE  (a \o b) \o e = a \o (b \o e)
BY ConcatAssociative

\* A sequence is what is before a place and what is from it on.
LEMMA CutInTwo ==
    ASSUME NEW S, NEW s \in Seq(S), NEW cut \in 2..Len(s) + 1
    PROVE  /\ SubSeq(s, 1, cut - 1) \in Seq(S) /\ SubSeq(s, cut, Len(s)) \in Seq(S)
           /\ s = SubSeq(s, 1, cut - 1) \o SubSeq(s, cut, Len(s))
           /\ Len(SubSeq(s, 1, cut - 1)) = cut - 1
<1> DEFINE n == Len(s)  k == cut - 1
<1>1. n \in Nat /\ k \in 1..n /\ k + 1 = cut /\ k <= n /\ \A j \in 1..n : s[j] \in S
  OBVIOUS
<1> HIDE DEF n, k
<1>2. SubSeq(s, 1, k) \in Seq(S) /\ Len(SubSeq(s, 1, k)) = k /\ SubSeq(s, k + 1, n) \in Seq(S)
  <2>1. (\A j \in 1..k : s[j] \in S) /\ (\A j \in k + 1..n : s[j] \in S) /\ 1 <= k /\ k \in Int /\ k - 1 + 1 = k
    BY <1>1
  <2> QED BY <1>1, <2>1, SubSeqProperties
<1>3. SubSeq(s, 1, k) \o SubSeq(s, k + 1, n) = SubSeq(s, 1, n)
  <2>1. 1 \in 1..n + 1 /\ k \in 1 - 1..n /\ n \in k..n
    BY <1>1
  <2> QED BY <2>1, ConcatAdjacentSubSeq DEF n
<1>4. SubSeq(s, 1, n) = s
  BY DEF n
<1> QED BY <1>1, <1>2, <1>3, <1>4 DEF n, k

\* Mapping and flattening a list of lists, at once or list by list.
LEMMA FlatNested ==
    ASSUME NEW S, NEW ss \in Seq(Seq(Seq(S)))
    PROVE  /\ FlattenSeq(FlattenSeq(ss)) = FlattenSeq([g \in DOMAIN ss |-> FlattenSeq(ss[g])])
           /\ [g \in DOMAIN ss |-> FlattenSeq(ss[g])] \in Seq(Seq(S))
<1> DEFINE A == Seq(S)
           m == [x \in A |-> x]
           M == MapsFlat(m, A)
<1>1. m \in SequenceMaps(A, S) /\ ss \in Seq(Seq(A))
  BY DEF SequenceMaps
<1>2. ASSUME NEW s \in Seq(A) PROVE MapFlat(m, s) = FlattenSeq(s)
  <2>1. [i \in DOMAIN s |-> m[s[i]]] = s
    OBVIOUS
  <2> QED BY <2>1 DEF MapFlat
<1> HIDE DEF m
<1>3. MapFlat(m, FlattenSeq(ss)) = MapFlat(M, ss)
  <2> HIDE DEF A
  <2> QED BY <1>1, MapFlatNested
<1>4. FlattenSeq(ss) \in Seq(A)
  <2> HIDE DEF A
  <2> QED BY <1>1, FlattenIn
<1>5. \A g \in DOMAIN ss : M[ss[g]] = FlattenSeq(ss[g]) /\ FlattenSeq(ss[g]) \in Seq(S)
  <2> SUFFICES ASSUME NEW g \in DOMAIN ss PROVE M[ss[g]] = FlattenSeq(ss[g]) /\ FlattenSeq(ss[g]) \in Seq(S)
    OBVIOUS
  <2>1. ss[g] \in Seq(A)
    BY <1>1
  <2>2. M[ss[g]] = MapFlat(m, ss[g])
    BY <2>1 DEF MapsFlat
  <2>3. ss[g] \in Seq(Seq(S))
    BY <2>1
  <2> QED BY <1>2, <2>1, <2>2, <2>3, FlattenIn
<1>6. MapFlat(M, ss) = FlattenSeq([g \in DOMAIN ss |-> FlattenSeq(ss[g])])
  <2>1. [g \in DOMAIN ss |-> M[ss[g]]] = [g \in DOMAIN ss |-> FlattenSeq(ss[g])]
    BY <1>5
  <2> HIDE DEF M
  <2> QED BY <2>1 DEF MapFlat
<1>7. [g \in DOMAIN ss |-> FlattenSeq(ss[g])] \in Seq(Seq(S))
  <2>1. DOMAIN ss = 1..Len(ss) /\ Len(ss) \in Nat
    OBVIOUS
  <2> QED BY <1>5, <2>1
<1> QED BY <1>2, <1>3, <1>4, <1>6, <1>7

\* Singletons flatten to their elements.
LEMMA FlatSingles ==
    ASSUME NEW S, NEW s \in Seq(S)
    PROVE  FlattenSeq([k \in DOMAIN s |-> <<s[k]>>]) = s
<1> DEFINE m == [x \in S |-> <<x>>]
           T == {u \in Seq(S) : MapFlat(m, u) = u}
<1>1. m \in SequenceMaps(S, S)
  BY DEF SequenceMaps
<1>2. \A x \in S : m[x] = <<x>>
  OBVIOUS
<1> HIDE DEF m
<1>3. <<>> \in T
  <2>1. MapFlat(m, <<>>) = <<>>
    BY <1>1, MapFlatAppends
  <2> QED BY <2>1
<1>4. ASSUME NEW u \in Seq(S), u \in T, NEW x \in S PROVE Append(u, x) \in T
  <2>1. MapFlat(m, Append(u, x)) = u \o <<x>>
    <3>1. MapFlat(m, Append(u, x)) = MapFlat(m, u) \o m[x]
      BY <1>1, MapFlatAppends, SMTT(30)
    <3>2. MapFlat(m, u) = u
      BY <1>4
    <3> QED BY <1>2, <3>1, <3>2
  <2> QED BY <2>1, AppendIs
<1>5. Seq(S) \subseteq T
  <2> HIDE DEF T
  <2> QED BY <1>3, <1>4, SequenceInduction
<1>6. MapFlat(m, s) = s
  BY <1>5
<1>7. [k \in DOMAIN s |-> m[s[k]]] = [k \in DOMAIN s |-> <<s[k]>>]
  BY <1>2
<1> QED BY <1>6, <1>7 DEF MapFlat

\* Each element is related to the next.
Chained(Ok, s) == \A k \in 1..Len(s) - 1 : <<s[k], s[k + 1]>> \in Ok

\* Two chains linked at the seam are a chain.
LEMMA ChainedConcat ==
    ASSUME NEW A, NEW s \in Seq(A), NEW t \in Seq(A), NEW Ok, Chained(Ok, s), Chained(Ok, t),
           s # <<>> /\ t # <<>> => <<Last(s), t[1]>> \in Ok
    PROVE  Chained(Ok, s \o t)
<1> DEFINE u == s \o t
<1>1. Len(u) = Len(s) + Len(t) /\ Len(s) \in Nat /\ Len(t) \in Nat
      /\ (\A k \in 1..Len(s) : u[k] = s[k]) /\ (\A k \in 1..Len(t) : u[Len(s) + k] = t[k])
  BY ConcatIs
<1> HIDE DEF u
<1>2. ASSUME NEW k \in 1..Len(u) - 1 PROVE <<u[k], u[k + 1]>> \in Ok
  <2>1. CASE k \in 1..Len(s) - 1
    <3>1. k \in 1..Len(s) /\ k + 1 \in 1..Len(s)
      BY <1>1, <2>1
    <3> QED BY <1>1, <2>1, <3>1 DEF Chained
  <2>2. CASE k = Len(s)
    <3>1. k \in 1..Len(s) /\ 1 \in 1..Len(t) /\ s # <<>> /\ t # <<>> /\ k + 1 = Len(s) + 1
      BY <1>1, <2>2
    <3>2. u[k] = Last(s) /\ u[k + 1] = t[1]
      BY <1>1, <2>2, <3>1 DEF Last
    <3> QED BY <3>1, <3>2
  <2>3. CASE k > Len(s)
    <3> DEFINE l == k - Len(s)
    <3>1. l \in 1..Len(t) - 1 /\ l \in 1..Len(t) /\ l + 1 \in 1..Len(t) /\ k = Len(s) + l /\ k + 1 = Len(s) + (l + 1)
      BY <1>1, <2>3
    <3> HIDE DEF l
    <3>2. u[k] = t[l] /\ u[k + 1] = t[l + 1]
      BY <1>1, <3>1
    <3> QED BY <3>1, <3>2 DEF Chained
  <2>4. k \in 1..Len(s) - 1 \/ k = Len(s) \/ k > Len(s)
    BY <1>1
  <2> QED BY <2>1, <2>2, <2>3, <2>4
<1> QED BY <1>2 DEF Chained, u

Links(Ok, ss) ==
    /\ \A k \in 1..Len(ss) : ss[k] # <<>> /\ Chained(Ok, ss[k])
    /\ \A k \in 1..Len(ss) - 1 : <<Last(ss[k]), ss[k + 1][1]>> \in Ok

\* Parts that are apart share no element.
LEMMA ApartSets ==
    ASSUME NEW S, NEW ss \in Seq(Seq(S)), Apart(ss), NEW a \in 1..Len(ss), NEW b \in 1..Len(ss), a # b
    PROVE  ToSet(ss[a]) \cap ToSet(ss[b]) = {}
<1>1. ss[a] \in Seq(S) /\ ss[b] \in Seq(S) /\ a \in Int /\ b \in Int
  OBVIOUS
<1>2. a < b \/ b < a
  BY <1>1
<1>3. ToSet(ss[a]) = {ss[a][x] : x \in 1..Len(ss[a])} /\ ToSet(ss[b]) = {ss[b][x] : x \in 1..Len(ss[b])}
  BY <1>1, SMTT(30) DEF ToSet
<1> QED BY <1>2, <1>3 DEF Apart

\* The numbers from a in s, the others before d in t.
SplitAt(a, d, s, t) ==
    LET m == a + Len(s)
    IN  s = Upto(a, m - 1) /\ t = Upto(m, d - 1) /\ m \in a..d /\ d = m + Len(t)

\* Two sequences that join to a run of numbers meet at the first one's end.
LEMMA UptoSplit ==
    ASSUME NEW a \in Nat, NEW d \in Int, a <= d, NEW s \in Seq(Int), NEW t \in Seq(Int), s \o t = Upto(a, d - 1)
    PROVE  SplitAt(a, d, s, t)
<1> DEFINE e == d - 1
<1>1. e \in Int /\ e >= a - 1 /\ s \o t = Upto(a, e)
  OBVIOUS
<1> HIDE DEF e
<1>2. s = Upto(a, a + Len(s) - 1) /\ t = Upto(a + Len(s), e)
  <2>1. RunParts(a, e, s, t)
    BY <1>1, UptoParts
  <2> QED BY <2>1 DEF RunParts
<1>3. Len(s \o t) = Len(s) + Len(t) /\ Len(s) \in Nat /\ Len(t) \in Nat
  OBVIOUS
<1>4. Len(Upto(a, e)) = e - a + 1
  BY <1>1, UptoIs
<1>5. a + Len(s) \in a..d /\ d = (a + Len(s)) + Len(t)
  <2> DEFINE n == Len(s)  m == Len(t)
  <2>1. n \in Nat /\ m \in Nat /\ n + m = e - a + 1
    BY <1>1, <1>3, <1>4
  <2>2. e = d - 1 /\ e \in Int
    BY <1>1 DEF e
  <2> HIDE DEF n, m, e
  <2>3. a + n \in a..d /\ d = (a + n) + m
    BY <2>1, <2>2
  <2> QED BY <2>3 DEF n, m
<1> QED BY <1>2, <1>5 DEF e, SplitAt

\* A sequence whose elements are in a set is a sequence over it.
LEMMA ElementsIn ==
    ASSUME NEW S, NEW s \in Seq(S)
    PROVE  /\ \A B : ToSet(s) \subseteq B => s \in Seq(B)
           /\ \A x \in ToSet(s) : \E k \in 1..Len(s) : s[k] = x
           /\ \A k \in 1..Len(s) : s[k] \in ToSet(s)
           /\ DOMAIN s = 1..Len(s)
BY DEF ToSet

\* The elements of a part are elements of the whole.
LEMMA GroupWithin ==
    ASSUME NEW S, NEW ss \in Seq(Seq(S)), NEW g \in 1..Len(ss)
    PROVE  ToSet(ss[g]) \subseteq ToSet(FlattenSeq(ss))
<1> DEFINE A == Seq(S)
           T == {u \in Seq(A) : \A k \in 1..Len(u) : ToSet(u[k]) \subseteq ToSet(FlattenSeq(u))}
<1>1. <<>> \in T
  OBVIOUS
<1>2. ASSUME NEW u \in Seq(A), u \in T, NEW e \in A PROVE Append(u, e) \in T
  <2> DEFINE w == Append(u, e)  f == FlattenSeq(u)
  <2>1. f \in Seq(S) /\ FlattenSeq(w) = f \o e
    BY FlattenAppend
  <2>2. ToSet(f \o e) = ToSet(f) \cup ToSet(e)
    <3> HIDE DEF f
    <3> QED BY <2>1, ToSetConcat
  <2> HIDE DEF f
  <2>3. w \in Seq(A) /\ Len(w) = Len(u) + 1 /\ w[Len(u) + 1] = e /\ (\A k \in 1..Len(u) : w[k] = u[k]) /\ Len(u) \in Nat
    <3> HIDE DEF A
    <3> QED BY AppendIs
  <2>4. ASSUME NEW k \in 1..Len(w) PROVE ToSet(w[k]) \subseteq ToSet(FlattenSeq(w))
    <3>1. CASE k \in 1..Len(u)
      BY <1>2, <2>1, <2>2, <2>3, <3>1 DEF f
    <3>2. CASE k = Len(u) + 1
      BY <2>1, <2>2, <2>3, <3>2
    <3>3. k \in 1..Len(u) \/ k = Len(u) + 1
      BY <2>3
    <3> QED BY <3>1, <3>2, <3>3
  <2> HIDE DEF w
  <2>5. w \in T
    BY <2>3, <2>4
  <2> QED BY <2>5 DEF w
<1>3. Seq(A) \subseteq T
  <2> HIDE DEF A, T
  <2> QED BY <1>1, <1>2, SequenceInduction
<1> QED BY <1>3

\* A sequence of two.
LEMMA TwoIs ==
    ASSUME NEW S, NEW a \in S, NEW b \in S
    PROVE  <<a>> \o <<b>> = <<a, b>> /\ <<a>> \in Seq(S) /\ <<b>> \in Seq(S)
<1> DEFINE s == <<a>>  t == <<b>>  u == <<a, b>>  v == s \o t
<1>1. s \in Seq(S) /\ t \in Seq(S) /\ u \in Seq(S)
  OBVIOUS
<1>2. Len(s) = 1 /\ Len(t) = 1 /\ Len(u) = 2 /\ s[1] = a /\ t[1] = b /\ u[1] = a /\ u[2] = b
  OBVIOUS
<1> HIDE DEF s, t, u
<1>3. v \in Seq(S) /\ Len(v) = Len(s) + Len(t) /\ (\A k \in 1..Len(s) : v[k] = s[k]) /\ (\A k \in 1..Len(t) : v[Len(s) + k] = t[k])
  BY <1>1, ConcatIs
<1>4. Len(v) = 2 /\ v[1] = a /\ v[1 + 1] = b
  <2>1. 1 \in 1..1 /\ 1 + 1 = 2
    OBVIOUS
  <2> HIDE DEF v
  <2> QED BY <1>2, <1>3, <2>1
<1>5. \A k \in 1..Len(u) : u[k] = v[k]
  <2> HIDE DEF v
  <2>1. 1 + 1 = 2 /\ \A k \in 1..2 : k = 1 \/ k = 2
    OBVIOUS
  <2> QED BY <1>2, <1>4, <2>1
<1>6. u = v
  <2> HIDE DEF v
  <2> QED BY <1>1, <1>2, <1>3, <1>4, <1>5, SeqEqual
<1> QED BY <1>1, <1>6 DEF s, t, u

\* What s \o t is, by its length and places.
JoinIs(S, s, t) ==
    /\ s \o t \in Seq(S) /\ Len(s) \in Nat /\ Len(t) \in Nat /\ Len(s \o t) = Len(s) + Len(t)
    /\ \A k \in 1..Len(s) : (s \o t)[k] = s[k]
    /\ \A k \in 1..Len(t) : (s \o t)[Len(s) + k] = t[k]

\* A joined sequence has the facts of JoinIs.
LEMMA JoinHolds ==
    ASSUME NEW S, NEW s \in Seq(S), NEW t \in Seq(S)
    PROVE  JoinIs(S, s, t)
BY ConcatIs DEF JoinIs

\* A sequence that is not empty is its first element and its tail.
LEMMA TailIs ==
    ASSUME NEW S, NEW s \in Seq(S), s # <<>>
    PROVE  /\ s = <<s[1]>> \o Tail(s) /\ Tail(s) \in Seq(S) /\ s[1] \in S /\ Len(Tail(s)) = Len(s) - 1
           /\ Len(s) \in Nat /\ \A k \in 1..Len(s) - 1 : Tail(s)[k] = s[k + 1]
<1> DEFINE a == s[1]  t == Tail(s)  u == <<a>>  v == u \o t
<1>1. Len(s) \in Nat /\ Len(s) # 0
  OBVIOUS
<1>2. a \in S /\ t \in Seq(S) /\ Len(t) = Len(s) - 1 /\ \A k \in 1..Len(s) - 1 : t[k] = s[k + 1]
  BY <1>1
<1>3. u \in Seq(S) /\ Len(u) = 1 /\ u[1] = a
  BY <1>2
<1> HIDE DEF t, u
<1>4. v \in Seq(S) /\ Len(v) = Len(u) + Len(t) /\ (\A k \in 1..Len(u) : v[k] = u[k]) /\ (\A k \in 1..Len(t) : v[Len(u) + k] = t[k])
  <2>1. JoinIs(S, u, t)
    BY <1>2, <1>3, JoinHolds
  <2> QED BY <2>1 DEF JoinIs
<1> HIDE DEF v
<1>5. Len(v) = Len(s)
  BY <1>1, <1>2, <1>3, <1>4
<1>6. ASSUME NEW k \in 1..Len(s) PROVE s[k] = v[k]
  <2>1. CASE k = 1
    <3>1. 1 \in 1..Len(u)
      BY <1>3
    <3> QED BY <1>3, <1>4, <2>1, <3>1
  <2>2. CASE k # 1
    <3> DEFINE j == k - 1
    <3>1. j \in 1..Len(s) - 1 /\ k = 1 + j /\ k = j + 1
      BY <1>1, <2>2
    <3> HIDE DEF j
    <3> QED BY <1>1, <1>2, <1>3, <1>4, <3>1
  <2> QED BY <2>1, <2>2
<1>7. s = v
  BY <1>4, <1>5, <1>6, SeqEqual
<1> QED BY <1>1, <1>2, <1>7 DEF t, u, v

\* A run of numbers grows by the next number.
LEMMA UptoAppend ==
    ASSUME NEW j \in Nat, NEW p \in Nat, j <= p
    PROVE  Append(Upto(j, p - 1), p) = Upto(j, p) /\ Upto(j, p - 1) \in Seq(Nat)
<1> DEFINE b == p - 1
<1>1. b \in Int /\ b >= j - 1 /\ p >= b /\ p \in Int /\ b + 1 = p
  OBVIOUS
<1> HIDE DEF b
<1>2. Upto(j, b) \o Upto(b + 1, p) = Upto(j, p)
  BY <1>1, UptoJoins
<1>3. Upto(p, p) = <<p>>
  <2>1. p - p + 1 = 1 /\ p + 1 - 1 = p
    OBVIOUS
  <2>2. Upto(p, p) = [k \in 1..1 |-> p + k - 1]
    BY <2>1 DEF Upto
  <2>3. \A k \in 1..1 : p + k - 1 = p
    OBVIOUS
  <2> QED BY <2>2, <2>3
<1>4. Upto(j, b) \in Seq(Nat)
  <2>1. Upto(j, b) \in Seq(j..b)
    BY <1>1, UptoIs
  <2>2. j..b \subseteq Nat
    BY <1>1
  <2> DEFINE u == Upto(j, b)  V == j..b  N == Nat
  <2> HIDE DEF u, V, N
  <2>3. u \in Seq(V) /\ V \subseteq N
    BY <2>1, <2>2 DEF u, V, N
  <2>4. u \in Seq(N)
    BY <2>3
  <2> QED BY <2>4 DEF u, N
<1> DEFINE u == Upto(j, b)
<1>5. u \in Seq(Nat)
  BY <1>4
<1> HIDE DEF u
<1>6. Append(u, p) = u \o <<p>>
  BY <1>5
<1> QED BY <1>1, <1>2, <1>3, <1>5, <1>6 DEF u, b

=============================================================================
