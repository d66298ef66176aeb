-------------------------- MODULE Enrichment_proofs --------------------------
(***************************************************************************)
(* Proofs about Enrichment, for every number of chunks and their costs,    *)
(* every budget and pool size, and whatever the model answers.             *)
(***************************************************************************)
EXTENDS Enrichment, SequenceTheorems, Induction, TLAPS

\* A sequence with one more element.
LEMMA Appended ==
    ASSUME NEW S, NEW s \in Seq(S), NEW e \in S
    PROVE  /\ Append(s, e) \in Seq(S) /\ Append(s, e) # <<>>
           /\ Len(s) \in Nat /\ Len(Append(s, e)) = Len(s) + 1
           /\ Append(s, e)[Len(s) + 1] = e
           /\ \A i \in 1..Len(s) : Append(s, e)[i] = s[i]
OBVIOUS

-----------------------------------------------------------------------------
(* Batches *)

LEMMA ChunkFacts ==
    /\ Length \in Nat \ {0} /\ Chunks = 1..Length
    /\ \A c \in Chunks : Cost[c] \in Nat \ {0}
    /\ Budget \in Nat \ {0}
BY CostAssumption, BudgetAssumption DEF Length, Chunks

\* The cost of the first n chunks is what its recursion says.
LEMMA CostUpToIs ==
    /\ CostUpTo \in [0..Length -> Nat]
    /\ CostUpTo[0] = 0
    /\ \A n \in Chunks : CostUpTo[n] = CostUpTo[n - 1] + Cost[n]
<1> DEFINE step == [p \in Nat \X Nat |-> IF p[1] + 1 \in Chunks THEN p[2] + Cost[p[1] + 1] ELSE p[2]]
<1>1. step \in [Nat \X Nat -> Nat]
  BY ChunkFacts
<1>2. PICK f \in [Nat -> Nat] : f[0] = 0 /\ \A n \in Nat : f[n + 1] = step[<<n, f[n]>>]
  <2>1. step \in StepsOn(Nat)
    BY <1>1 DEF StepsOn
  <2>2. \E f : Follows(f, Nat, 0, step)
    <3> HIDE DEF step
    <3> QED BY <2>1, Recursion
  <2> QED BY <2>2 DEF Follows
<1>3. ASSUME NEW n \in Chunks PROVE f[n] = f[n - 1] + Cost[n]
  <2>1. n - 1 \in Nat /\ (n - 1) + 1 = n
    BY ChunkFacts
  <2>2. <<n - 1, f[n - 1]>> \in Nat \X Nat
    BY <2>1
  <2>3. f[n] = step[<<n - 1, f[n - 1]>>]
    BY <1>2, <2>1
  <2> QED BY <2>1, <2>2, <2>3
<1> DEFINE g == [n \in 0..Length |-> f[n]]
           eq(h) == [n \in 0..Length |-> IF n = 0 THEN 0 ELSE h[n - 1] + Cost[n]]
<1>4. g = eq(g)
  <2>1. ASSUME NEW n \in 0..Length PROVE f[n] = IF n = 0 THEN 0 ELSE g[n - 1] + Cost[n]
    <3>1. CASE n = 0
      BY <1>2, <3>1
    <3>2. CASE n # 0
      BY <1>3, <3>2, ChunkFacts
    <3> QED BY <3>1, <3>2
  <2> QED BY <2>1
<1>5. CostUpTo = eq(CostUpTo)
  <2>1. CostUpTo = CHOOSE h : h = eq(h)
    BY DEF CostUpTo
  <2> HIDE DEF eq, g
  <2> QED BY <1>4, <2>1
<1>6. ASSUME NEW n \in 0..Length PROVE CostUpTo[n] = IF n = 0 THEN 0 ELSE CostUpTo[n - 1] + Cost[n]
  BY <1>5
<1>7. 0..Length \subseteq {n \in 0..Length : CostUpTo[n] \in Nat}
  <2> DEFINE S == {n \in 0..Length : CostUpTo[n] \in Nat}
  <2>1. 0 \in S
    <3>1. 0 \in 0..Length
      BY ONLY ChunkFacts
    <3>2. CostUpTo[0] = 0
      <4> HIDE DEF S
      <4> QED BY <1>6, <3>1
    <3> QED BY ONLY <3>1, <3>2
  <2>2. ASSUME NEW k \in 0..Length - 1, k \in S PROVE k + 1 \in S
    <3>1. k + 1 \in 0..Length /\ k + 1 # 0 /\ k + 1 \in Chunks /\ (k + 1) - 1 = k
      BY ChunkFacts
    <3>2. CostUpTo[k + 1] = CostUpTo[k] + Cost[k + 1]
      BY <1>6, <3>1
    <3>3. CostUpTo[k] \in Nat /\ Cost[k + 1] \in Nat
      BY <2>2, <3>1, ChunkFacts
    <3> QED BY <3>1, <3>2, <3>3
  <2>3. 0 \in Int /\ Length \in Int
    BY ChunkFacts
  <2>4. 0..Length \subseteq S
    <3> HIDE DEF S
    <3> QED BY <2>1, <2>2, <2>3, IntervalInduction
  <2> QED BY <2>4
<1>8. CostUpTo = [n \in 0..Length |-> CostUpTo[n]]
  BY <1>5
<1>9. \A n \in Chunks : CostUpTo[n] = CostUpTo[n - 1] + Cost[n]
  BY <1>6, ChunkFacts
<1>10. CostUpTo \in [0..Length -> Nat]
  <2> HIDE DEF eq, g
  <2> QED BY <1>7, <1>8
<1>11. CostUpTo[0] = 0
  <2>1. 0 \in 0..Length
    BY ONLY ChunkFacts
  <2> HIDE DEF eq, g
  <2> QED BY ONLY <1>6, <2>1
<1> QED BY <1>9, <1>10, <1>11

\* What _token_budget_batches has after some of the chunks.
PackState == [full : Seq(Seq(Chunks)), current : Seq(Chunks), cost : Nat]

LEMMA PutType ==
    ASSUME NEW s \in PackState, NEW c \in Chunks
    PROVE  Put(s, c) \in PackState
BY ChunkFacts DEF Put, PackState

\* What is packed is what its recursion says.
LEMMA PackedIs ==
    /\ Packed[0] = [full |-> <<>>, current |-> <<>>, cost |-> 0]
    /\ \A n \in Chunks : Packed[n] = Put(Packed[n - 1], n)
<1> DEFINE none == [full |-> <<>>, current |-> <<>>, cost |-> 0]
           step == [p \in Nat \X PackState |-> IF p[1] + 1 \in Chunks THEN Put(p[2], p[1] + 1) ELSE p[2]]
<1>0. none \in PackState
  BY DEF PackState
<1>1. step \in [Nat \X PackState -> PackState]
  BY PutType
<1>2. PICK f \in [Nat -> PackState] : f[0] = none /\ \A n \in Nat : f[n + 1] = step[<<n, f[n]>>]
  <2>1. step \in StepsOn(PackState)
    BY <1>1 DEF StepsOn
  <2>2. \E f : Follows(f, PackState, none, step)
    <3> HIDE DEF step, none
    <3> QED BY <1>0, <2>1, Recursion
  <2> QED BY <2>2 DEF Follows
<1>3. ASSUME NEW n \in Chunks PROVE f[n] = Put(f[n - 1], n)
  <2>1. n - 1 \in Nat /\ (n - 1) + 1 = n
    BY ChunkFacts
  <2>2. <<n - 1, f[n - 1]>> \in Nat \X PackState
    BY <2>1
  <2>3. f[n] = step[<<n - 1, f[n - 1]>>]
    BY <1>2, <2>1
  <2> QED BY <2>1, <2>2, <2>3
<1> DEFINE g == [n \in 0..Length |-> f[n]]
           eq(h) == [n \in 0..Length |-> IF n = 0 THEN none ELSE Put(h[n - 1], n)]
<1>4. g = eq(g)
  <2>1. ASSUME NEW n \in 0..Length PROVE f[n] = IF n = 0 THEN none ELSE Put(g[n - 1], n)
    <3>1. CASE n = 0
      BY <1>2, <3>1
    <3>2. CASE n # 0
      <4>1. n \in Chunks /\ n - 1 \in 0..Length
        BY <3>2, ChunkFacts
      <4> QED BY <1>3, <3>2, <4>1
    <3> QED BY <3>1, <3>2
  <2> QED BY <2>1
<1>5. Packed = eq(Packed)
  <2>1. Packed = CHOOSE h : h = eq(h)
    BY DEF Packed
  <2> HIDE DEF eq, g
  <2> QED BY <1>4, <2>1
<1>6. \A n \in 0..Length : Packed[n] = IF n = 0 THEN none ELSE Put(Packed[n - 1], n)
  BY <1>5
<1> QED BY <1>6, ChunkFacts

\* The batches of chunks 1 to n: runs of neighbours that follow each other, each
\* of them one chunk or within the budget.
Run(b) == b # <<>> /\ \A i \in DOMAIN b : b[i] = b[1] + i - 1
Runs(bs, n) ==
    /\ bs \in Seq(Seq(Chunks)) /\ bs # <<>>
    /\ \A t \in DOMAIN bs : Run(bs[t]) /\ WithinBudget(bs[t])
    /\ bs[1][1] = 1
    /\ \A t \in 1..Len(bs) - 1 : bs[t + 1][1] = bs[t][1] + Len(bs[t])
    /\ bs[Len(bs)][1] + Len(bs[Len(bs)]) = n + 1

\* What the state of _token_budget_batches is once it has the first n chunks.
PackedRight(s, n) ==
    /\ s \in PackState
    /\ Runs(Append(s.full, s.current), n)
    /\ s.cost = CostUpTo[n] - CostUpTo[s.current[1] - 1]

\* One chunk is a batch.
LEMMA OneChunk ==
    ASSUME NEW c \in Chunks
    PROVE  /\ <<c>> \in Seq(Chunks) /\ <<c>> # <<>> /\ Len(<<c>>) = 1 /\ <<c>>[1] = c
           /\ Run(<<c>>) /\ WithinBudget(<<c>>)
<1>1. /\ <<c>> \in Seq(Chunks) /\ <<c>> # <<>> /\ Len(<<c>>) = 1 /\ <<c>>[1] = c
      /\ DOMAIN <<c>> = {1} /\ c \in Int
  BY ChunkFacts
<1> QED BY <1>1, ChunkFacts DEF Run, WithinBudget

LEMMA PutRight ==
    ASSUME NEW s, NEW n \in Chunks, PackedRight(s, n), n + 1 \in Chunks
    PROVE  PackedRight(Put(s, n + 1), n + 1)
<1> DEFINE f == s.full  b == s.current  c == n + 1  bs == Append(f, b)
<1>1. /\ s \in PackState /\ f \in Seq(Seq(Chunks)) /\ b \in Seq(Chunks) /\ s.cost \in Nat
      /\ Put(s, c) \in PackState
  BY PutType DEF PackedRight, PackState
<1>2. /\ Len(bs) = Len(f) + 1 /\ Len(f) \in Nat /\ bs[Len(f) + 1] = b
      /\ \A t \in 1..Len(f) : bs[t] = f[t]
  BY <1>1
<1>3. /\ bs \in Seq(Seq(Chunks)) /\ \A t \in DOMAIN bs : Run(bs[t]) /\ WithinBudget(bs[t])
      /\ bs[1][1] = 1
      /\ \A t \in 1..Len(bs) - 1 : bs[t + 1][1] = bs[t][1] + Len(bs[t])
      /\ b[1] + Len(b) = n + 1
      /\ s.cost = CostUpTo[n] - CostUpTo[b[1] - 1]
  BY <1>2 DEF PackedRight, Runs
<1>4. b # <<>> /\ Len(b) \in Nat \ {0} /\ b[1] \in Chunks /\ \A i \in 1..Len(b) : b[i] = b[1] + i - 1
  <2>1. Run(b)
    <3>1. Len(f) + 1 \in DOMAIN bs
      BY <1>2, <1>3
    <3> QED BY <1>2, <1>3, <3>1
  <2> QED BY <1>1, <2>1 DEF Run
<1>5. /\ CostUpTo[n + 1] = CostUpTo[n] + Cost[n + 1] /\ CostUpTo[n] \in Nat
      /\ CostUpTo[b[1] - 1] \in Nat /\ Cost[n + 1] \in Nat /\ n \in Nat
  <2>1. (n + 1) - 1 = n /\ n \in 0..Length /\ b[1] - 1 \in 0..Length
    BY <1>4, ChunkFacts
  <2>2. CostUpTo[n] \in Nat /\ CostUpTo[b[1] - 1] \in Nat
    <3> HIDE DEF b
    <3> QED BY <2>1, CostUpToIs
  <2>3. CostUpTo[n + 1] = CostUpTo[n] + Cost[n + 1]
    BY <2>1, CostUpToIs
  <2> QED BY <2>1, <2>2, <2>3, ChunkFacts
<1>6. CASE s.cost + Cost[c] > Budget
  <2> DEFINE cs == Append(bs, <<c>>)
  <2>1. Put(s, c).full = bs /\ Put(s, c).current = <<c>> /\ Put(s, c).cost = Cost[c]
    BY <1>4, <1>6 DEF Put
  <2>2. /\ Len(cs) = Len(bs) + 1 /\ cs[Len(bs) + 1] = <<c>> /\ cs \in Seq(Seq(Chunks))
        /\ \A t \in 1..Len(bs) : cs[t] = bs[t]
    BY <1>3, OneChunk
  <2>3. \A t \in DOMAIN cs : Run(cs[t]) /\ WithinBudget(cs[t])
    <3> SUFFICES ASSUME NEW t \in 1..Len(bs) + 1 PROVE Run(cs[t]) /\ WithinBudget(cs[t])
      BY <2>2
    <3>1. CASE t = Len(bs) + 1
      BY <2>2, <3>1, OneChunk
    <3>2. CASE t # Len(bs) + 1
      <4>1. t \in 1..Len(bs) /\ t \in DOMAIN bs
        BY <1>2, <1>3, <3>2
      <4> HIDE DEF bs, cs
      <4> QED BY <1>3, <2>2, <4>1
    <3> QED BY <3>1, <3>2
  <2>4. \A t \in 1..Len(cs) - 1 : cs[t + 1][1] = cs[t][1] + Len(cs[t])
    <3> SUFFICES ASSUME NEW t \in 1..Len(bs) PROVE cs[t + 1][1] = cs[t][1] + Len(cs[t])
      BY <1>2, <2>2
    <3>1. CASE t = Len(bs)
      BY <1>2, <1>3, <2>2, <3>1, OneChunk
    <3>2. CASE t # Len(bs)
      <4>1. t \in 1..Len(bs) - 1 /\ t + 1 \in 1..Len(bs)
        BY <1>2, <3>2
      <4> HIDE DEF bs, cs
      <4> QED BY <1>3, <2>2, <4>1
    <3> QED BY <3>1, <3>2
  <2>5. cs[1][1] = 1 /\ cs # <<>> /\ cs[Len(cs)][1] + Len(cs[Len(cs)]) = c + 1
    <3>1. 1 \in 1..Len(bs) /\ Len(cs) = Len(bs) + 1 /\ Len(bs) \in Nat
      BY <1>2, <2>2
    <3>2. cs # <<>>
      BY <2>2, <3>1, EmptySeq
    <3> HIDE DEF bs, cs
    <3> QED BY <1>3, <2>2, <3>1, <3>2, OneChunk
  <2>6. Runs(cs, c)
    <3> HIDE DEF cs, bs
    <3> QED BY <2>2, <2>3, <2>4, <2>5 DEF Runs
  <2>7. Cost[c] = CostUpTo[c] - CostUpTo[<<c>>[1] - 1]
    BY <1>5
  <2> HIDE DEF cs, bs
  <2>8. Append(Put(s, c).full, Put(s, c).current) = cs
    BY <2>1 DEF cs
  <2> QED BY <1>1, <2>1, <2>6, <2>7, <2>8 DEF PackedRight
<1>7. CASE ~(s.cost + Cost[c] > Budget)
  <2> DEFINE d == Append(b, c)  cs == Append(f, d)
  <2>1. Put(s, c).full = f /\ Put(s, c).current = d /\ Put(s, c).cost = s.cost + Cost[c]
    BY <1>7 DEF Put
  <2>2. /\ d \in Seq(Chunks) /\ Len(d) = Len(b) + 1 /\ d # <<>> /\ d[1] = b[1] /\ d[Len(d)] = c
        /\ \A i \in 1..Len(b) : d[i] = b[i]
    <3>1. /\ d \in Seq(Chunks) /\ Len(d) = Len(b) + 1 /\ d # <<>> /\ d[Len(b) + 1] = c
          /\ \A i \in 1..Len(b) : d[i] = b[i]
      <4> HIDE DEF b, c
      <4> QED BY <1>1, Appended DEF c
    <3>2. 1 \in 1..Len(b)
      BY <1>4
    <3> HIDE DEF b, c, d
    <3> QED BY <3>1, <3>2
  <2>3. Run(d)
    <3>0. DOMAIN d = 1..Len(b) + 1
      BY ONLY <2>2
    <3>1. ASSUME NEW i \in 1..Len(b) + 1, i = Len(b) + 1 PROVE d[i] = d[1] + i - 1
      <4>1. /\ d[1] = b[1] /\ d[Len(d)] = c /\ Len(d) = Len(b) + 1
        BY ONLY <2>2
      <4>2. c = b[1] + Len(b) /\ b[1] \in Int /\ Len(b) \in Int
        BY <1>3, <1>4, ChunkFacts
      <4> HIDE DEF b, c, d
      <4> QED BY ONLY <3>1, <4>1, <4>2
    <3>2. ASSUME NEW i \in 1..Len(b) + 1, i # Len(b) + 1 PROVE d[i] = d[1] + i - 1
      BY <1>4, <2>2, <3>2
    <3> HIDE DEF b, d
    <3> QED BY ONLY <3>0, <3>1, <3>2 DEF Run
  <2>4. /\ s.cost + Cost[c] = CostUpTo[c] - CostUpTo[d[1] - 1]
        /\ s.cost + Cost[c] <= Budget
    <3>1. s.cost + Cost[c] = CostUpTo[c] - CostUpTo[d[1] - 1]
      <4>1. /\ s.cost = CostUpTo[n] - CostUpTo[b[1] - 1] /\ d[1] = b[1]
            /\ CostUpTo[c] = CostUpTo[n] + Cost[c]
        BY ONLY <1>3, <1>5, <2>2
      <4>2. CostUpTo[n] \in Int /\ CostUpTo[b[1] - 1] \in Int /\ Cost[c] \in Int
        BY ONLY <1>5
      <4> HIDE DEF b, c, d
      <4> QED BY ONLY <4>1, <4>2
    <3>2. s.cost + Cost[c] <= Budget
      <4>1. s.cost \in Int /\ Cost[c] \in Int /\ Budget \in Int
        BY <1>1, <1>5, ChunkFacts, SMTT(30)
      <4> QED BY ONLY <1>7, <4>1
    <3> QED BY <3>1, <3>2
  <2>5. WithinBudget(d)
    BY <2>2, <2>4 DEF WithinBudget
  <2>6. /\ Len(cs) = Len(bs) /\ cs[Len(bs)] = d /\ cs \in Seq(Seq(Chunks)) /\ cs # <<>>
        /\ \A t \in 1..Len(bs) - 1 : cs[t] = bs[t]
    <3> HIDE DEF f, d, bs
    <3>1. /\ cs \in Seq(Seq(Chunks)) /\ Len(cs) = Len(f) + 1 /\ cs # <<>> /\ cs[Len(f) + 1] = d
          /\ \A i \in 1..Len(f) : cs[i] = f[i]
      BY <1>1, <2>2, Appended
    <3> HIDE DEF cs
    <3> QED BY <1>2, <3>1
  <2>7. \A t \in DOMAIN cs : Run(cs[t]) /\ WithinBudget(cs[t])
    <3> SUFFICES ASSUME NEW t \in 1..Len(bs) PROVE Run(cs[t]) /\ WithinBudget(cs[t])
      BY <2>6
    <3>1. CASE t = Len(bs)
      BY <2>3, <2>5, <2>6, <3>1
    <3>2. CASE t # Len(bs)
      <4>1. t \in 1..Len(bs) - 1 /\ t \in DOMAIN bs
        <5> HIDE DEF bs
        <5> DEFINE k == Len(bs)
        <5>1. k \in Nat /\ DOMAIN bs = 1..k
          BY <1>2, <1>3
        <5>2. t \in 1..k /\ t # k
          BY <3>2
        <5> HIDE DEF k
        <5> QED BY ONLY <5>1, <5>2
      <4> HIDE DEF bs, cs
      <4> QED BY <1>3, <2>6, <4>1
    <3> QED BY <3>1, <3>2
  <2>8. \A t \in 1..Len(bs) : cs[t][1] = bs[t][1]
    BY <1>2, <2>2, <2>6
  <2>9. \A t \in 1..Len(cs) - 1 : cs[t + 1][1] = cs[t][1] + Len(cs[t])
    <3> SUFFICES ASSUME NEW t \in 1..Len(bs) - 1 PROVE cs[t + 1][1] = cs[t][1] + Len(cs[t])
      BY <2>6
    <3>1. t \in 1..Len(bs) /\ t + 1 \in 1..Len(bs)
      BY <1>2
    <3> HIDE DEF bs, cs
    <3> QED BY <1>3, <2>6, <2>8, <3>1
  <2>10. cs[1][1] = 1 /\ cs[Len(cs)][1] + Len(cs[Len(cs)]) = c + 1
    <3>1. 1 \in 1..Len(bs)
      BY <1>2
    <3>2. cs[1][1] = 1
      BY <1>3, <2>8, <3>1
    <3>3. cs[Len(cs)] = d /\ d[1] + Len(d) = c + 1
      <4> HIDE DEF bs, cs, d, b
      <4>1. cs[Len(cs)] = d
        BY <2>6
      <4>2. b[1] \in Int /\ Len(b) \in Int /\ n \in Int
        BY <1>4, ChunkFacts
      <4>3. b[1] + Len(b) = n + 1 /\ d[1] = b[1] /\ Len(d) = Len(b) + 1
        BY <1>3, <2>2
      <4> QED BY <4>1, <4>2, <4>3
    <3> HIDE DEF cs, d
    <3> QED BY <3>2, <3>3
  <2>11. Runs(cs, c)
    <3> HIDE DEF cs, bs
    <3> QED BY <2>6, <2>7, <2>9, <2>10 DEF Runs
  <2> HIDE DEF cs, d
  <2>12. Append(Put(s, c).full, Put(s, c).current) = cs
    BY <2>1 DEF cs
  <2> QED BY <1>1, <2>1, <2>4, <2>11, <2>12 DEF PackedRight
<1> QED BY <1>6, <1>7

\* The batches are the chunks in their order, each once, and a batch of
\* several is within the budget.
LEMMA BatchesRight == Runs(Batches, Length)
<1> DEFINE S == {n \in 1..Length : PackedRight(Packed[n], n)}
<1>1. 1 \in S
  <2> DEFINE s == [full |-> <<>>, current |-> <<1>>, cost |-> Cost[1]]
  <2>1. 1 \in Chunks /\ 1 \in 1..Length
    BY ChunkFacts
  <2>2. Packed[1] = Put([full |-> <<>>, current |-> <<>>, cost |-> 0], 1)
    BY <2>1, PackedIs
  <2>3. Packed[1] = s
    <3>1. Append(<<>>, 1) = <<1>> /\ 0 + Cost[1] = Cost[1]
      BY <2>1, ChunkFacts
    <3> QED BY <2>2, <3>1 DEF Put
  <2>4. s \in PackState /\ Append(s.full, s.current) = <<<<1>>>>
    BY <2>1, ChunkFacts DEF PackState
  <2>5. Runs(<<<<1>>>>, 1)
    BY <2>1, OneChunk DEF Runs
  <2>6. s.cost = CostUpTo[1] - CostUpTo[s.current[1] - 1]
    BY <2>1, CostUpToIs, ChunkFacts
  <2> HIDE DEF s
  <2>7. PackedRight(s, 1)
    BY <2>4, <2>5, <2>6 DEF PackedRight
  <2> QED BY <2>1, <2>3, <2>7
<1>2. ASSUME NEW k \in 1..Length - 1, k \in S PROVE k + 1 \in S
  <2>1. k \in Chunks /\ k + 1 \in Chunks /\ (k + 1) - 1 = k
    BY ChunkFacts
  <2>2. Packed[k + 1] = Put(Packed[k], k + 1)
    BY <2>1, PackedIs
  <2> QED BY <1>2, <2>1, <2>2, PutRight, ChunkFacts
<1>3. 1 \in Int /\ Length \in Int /\ Length \in 1..Length
  BY ChunkFacts
<1>4. 1..Length \subseteq S
  <2> HIDE DEF S
  <2> QED BY <1>1, <1>2, <1>3, IntervalInduction
<1> QED BY <1>3, <1>4 DEF Batches, PackedRight

-----------------------------------------------------------------------------
(* The invariant *)

\* What is known of the enrichment of a chunk: its text is about it, a text
\* that needed one was written anew, and a failure shows.
Told(o, need, how) ==
    /\ o.text.about = o.chunk
    /\ o.chunk \in need => o.text.by # "before"
    /\ how # "heuristic" => (o.warned <=> o.text.by \notin {"model", "filled"})

States == {"queued", "batch", "alone", "done", "taken"}
TaskType == [batch : Seq(Chunks), at : States, done : Seq(OutcomeType)]

\* A task has the enrichments of a first part of its chunks, in their order; a
\* task that is one chunk is never asked about as a batch.
TaskRight(k, need, how) ==
    /\ k.batch # <<>>
    /\ k.at \in {"queued", "batch"} => k.done = <<>>
    /\ k.at = "alone" => Len(k.done) < Len(k.batch)
    /\ k.at \in {"done", "taken"} => Len(k.done) = Len(k.batch)
    /\ \A i \in DOMAIN k.done : k.done[i].chunk = k.batch[i] /\ Told(k.done[i], need, how)
    /\ how # "batches" => k.at # "batch"

BatchesOf == [t \in DOMAIN tasks |-> tasks[t].batch]

TasksRight ==
    /\ mode \in Modes /\ needs \subseteq Chunks
    /\ tasks \in Seq(TaskType)
    /\ \A t \in DOMAIN tasks : TaskRight(tasks[t], needs, mode)
    /\ IF mode = "heuristic" THEN tasks = <<>> ELSE Runs(BatchesOf, Length)

\* How many requests can have named chunk i of a task: one of its own once it is
\* done, and one for the batch once that was answered or failed.
Requests(k, i, how) ==
    IF how = "batches"
    THEN CASE k.at \in {"queued", "batch"} -> 0
           [] k.at = "alone" -> IF i <= Len(k.done) THEN 2 ELSE 1
           [] OTHER -> 2
    ELSE IF i <= Len(k.done) THEN 1 ELSE 0
MostRequests(how) == IF how = "batches" THEN 2 ELSE 1

AskedRight ==
    /\ asked \in [Chunks -> Nat]
    /\ \A t \in DOMAIN tasks : \A i \in DOMAIN tasks[t].batch :
          asked[tasks[t].batch[i]] <= Requests(tasks[t], i, mode)
    /\ \A c \in Chunks : asked[c] <= MostRequests(mode)

\* The caller has the enrichments of the first n tasks.
Taken(n) ==
    /\ \A t \in DOMAIN tasks : tasks[t].at = "taken" <=> t <= n
    /\ Len(texts) = IF n = 0 THEN 0 ELSE tasks[n].batch[1] + Len(tasks[n].batch) - 1

TextsInOrder ==
    /\ returned \in BOOLEAN
    /\ texts \in Seq(OutcomeType)
    /\ \A i \in DOMAIN texts : texts[i].chunk = i /\ Told(texts[i], needs, mode)
    /\ IF mode = "heuristic" THEN Len(texts) \in {0, Length}
       ELSE \E n \in 0..Len(tasks) : Taken(n)
    /\ returned => Len(texts) = Length

IInv == TasksRight /\ AskedRight /\ TextsInOrder

-----------------------------------------------------------------------------
(* Enrichments *)

\* A chunk with the texts of an answer.
LEMMA AnswerRight ==
    ASSUME NEW c \in Chunks, NEW blank, NEW m \in {"llm", "llm_batch"}
    PROVE  LET o == Enriched(c, Answered(c, blank), m, FALSE)
           IN  o \in OutcomeType /\ o.chunk = c /\ Told(o, needs, mode)
BY DEF Enriched, Answered, Text, OutcomeType, Told

\* A chunk after its request failed: enrich_chunk's except branch.
LEMMA FailureRight ==
    ASSUME NEW c \in Chunks
    PROVE  LET o == AfterFailure(c)
           IN  o \in OutcomeType /\ o.chunk = c /\ Told(o, needs, mode)
<1>1. CASE c \in needs
  BY <1>1 DEF AfterFailure, Enriched, Text, Before, OutcomeType, Told
<1>2. CASE c \notin needs
  BY <1>2 DEF AfterFailure, Enriched, Text, Before, OutcomeType, Told
<1> QED BY <1>1, <1>2

\* A chunk without a model.
LEMMA HeuristicRight ==
    ASSUME NEW c \in Chunks, mode = "heuristic"
    PROVE  LET o == HeuristicIfNeeded(c)
           IN  o \in OutcomeType /\ o.chunk = c /\ Told(o, needs, mode)
<1>1. CASE c \in needs
  BY <1>1 DEF HeuristicIfNeeded, Enriched, Text, Before, OutcomeType, Told
<1>2. CASE c \notin needs
  BY <1>2 DEF HeuristicIfNeeded, Enriched, Text, Before, OutcomeType, Told
<1> QED BY <1>1, <1>2

LEMMA TaskIs ==
    ASSUME TasksRight, NEW t \in DOMAIN tasks
    PROVE  /\ tasks[t] \in TaskType /\ TaskRight(tasks[t], needs, mode)
           /\ tasks[t].batch \in Seq(Chunks) /\ tasks[t].done \in Seq(OutcomeType)
           /\ tasks[t].at \in States
           /\ Len(tasks[t].batch) \in Nat \ {0} /\ Len(tasks[t].done) \in Nat
           /\ mode # "heuristic"
<1>1. tasks[t] \in TaskType /\ TaskRight(tasks[t], needs, mode)
  BY DEF TasksRight
<1>2. mode # "heuristic"
  BY DEF TasksRight
<1>3. /\ tasks[t].batch \in Seq(Chunks) /\ tasks[t].done \in Seq(OutcomeType)
      /\ tasks[t].at \in States
  BY <1>1 DEF TaskType
<1>4. tasks[t].batch # <<>>
  BY <1>1 DEF TaskRight
<1> QED BY <1>1, <1>2, <1>3, <1>4

\* A step of a task replaces it by one that keeps its chunks.
LEMMA TaskMoves ==
    ASSUME TasksRight, NEW t \in DOMAIN tasks, Take(t) \/ Work(t) \/ Collect(t)
    PROVE  /\ UNCHANGED <<mode, needs>>
           /\ \E k \in TaskType : /\ k.batch = tasks[t].batch
                                  /\ TaskRight(k, needs, mode)
                                  /\ tasks' = [tasks EXCEPT ![t] = k]
<1> DEFINE k0 == tasks[t]
           Moved(k) == /\ k \in TaskType /\ k.batch = k0.batch
                       /\ TaskRight(k, needs, mode)
                       /\ tasks' = [tasks EXCEPT ![t] = k]
           Result == UNCHANGED <<mode, needs>> /\ \E k : Moved(k)
<1> SUFFICES Result
  OBVIOUS
<1>0. /\ k0 \in TaskType /\ TaskRight(k0, needs, mode)
      /\ k0.batch \in Seq(Chunks) /\ k0.done \in Seq(OutcomeType) /\ k0.at \in States
      /\ Len(k0.batch) \in Nat \ {0} /\ Len(k0.done) \in Nat
  BY TaskIs
<1>1. CASE Take(t)
  <2> DEFINE k == [k0 EXCEPT !.at = IF mode = "batches" THEN "batch" ELSE "alone"]
  <2>1. tasks' = [tasks EXCEPT ![t] = k] /\ UNCHANGED <<mode, needs>> /\ k0.at = "queued"
    BY <1>1 DEF Take
  <2>2. k \in TaskType /\ k.batch = k0.batch /\ k.done = k0.done
        /\ k.at = IF mode = "batches" THEN "batch" ELSE "alone"
    BY <1>0 DEF TaskType, States
  <2>3. k0.done = <<>>
    BY <1>0, <2>1 DEF TaskRight
  <2>4. TaskRight(k, needs, mode)
    <3> HIDE DEF k, k0
    <3> QED BY <1>0, <2>2, <2>3 DEF TaskRight
  <2>5. Moved(k)
    BY <2>1, <2>2, <2>4
  <2> HIDE DEF k, k0
  <2> QED BY <2>1, <2>5
<1>2. ASSUME NEW ids, NEW blank, BatchAnswered(t, ids, blank)
      PROVE  Result
  <2> DEFINE parsed == Parsed(k0.batch, ids, blank)
             done == [i \in DOMAIN k0.batch |-> Enriched(k0.batch[i], Answered(k0.batch[i], blank), "llm_batch", FALSE)]
  <2>1. k0.at = "batch" /\ UNCHANGED <<mode, needs>>
    BY <1>2 DEF BatchAnswered
  <2>2. k0.done = <<>> /\ (mode # "batches" => FALSE)
    BY <1>0, <2>1 DEF TaskRight
  <2>3. CASE parsed.complete
    <3> DEFINE k == [k0 EXCEPT !.at = "done", !.done = done]
    <3>1. tasks' = [tasks EXCEPT ![t] = k]
      BY <1>2, <2>3 DEF BatchAnswered, Parsed
    <3>2. \A i \in DOMAIN k0.batch : /\ done[i] \in OutcomeType /\ done[i].chunk = k0.batch[i]
                                     /\ Told(done[i], needs, mode)
      <4> SUFFICES ASSUME NEW i \in DOMAIN k0.batch
                   PROVE  /\ done[i] \in OutcomeType /\ done[i].chunk = k0.batch[i]
                          /\ Told(done[i], needs, mode)
        OBVIOUS
      <4>1. k0.batch[i] \in Chunks
        BY <1>0
      <4>2. done[i] = Enriched(k0.batch[i], Answered(k0.batch[i], blank), "llm_batch", FALSE)
        OBVIOUS
      <4> HIDE DEF done, k0
      <4> QED BY <4>1, <4>2, AnswerRight
    <3>3. done \in Seq(OutcomeType) /\ Len(done) = Len(k0.batch) /\ DOMAIN done = DOMAIN k0.batch
      <4>1. DOMAIN k0.batch = 1..Len(k0.batch)
        BY <1>0
      <4>2. done \in [1..Len(k0.batch) -> OutcomeType]
        BY <3>2, <4>1
      <4> HIDE DEF done, k0
      <4> QED BY <1>0, <4>1, <4>2
    <3>4. k \in TaskType /\ k.batch = k0.batch /\ k.done = done /\ k.at = "done"
      <4> HIDE DEF done
      <4> QED BY <1>0, <3>3 DEF TaskType, States
    <3>5. TaskRight(k, needs, mode)
      <4> HIDE DEF k, k0, done
      <4> QED BY <1>0, <3>2, <3>3, <3>4 DEF TaskRight
    <3>6. Moved(k)
      <4> HIDE DEF k, k0
      <4> QED BY <3>1, <3>4, <3>5
    <3> HIDE DEF k, k0
    <3> QED BY <2>1, <3>6
  <2>4. CASE ~parsed.complete
    <3> DEFINE k == [k0 EXCEPT !.at = "alone"]
    <3>1. tasks' = [tasks EXCEPT ![t] = k]
      BY <1>2, <2>4 DEF BatchAnswered
    <3>2. k \in TaskType /\ k.batch = k0.batch /\ k.done = k0.done /\ k.at = "alone"
      BY <1>0 DEF TaskType, States
    <3>3. TaskRight(k, needs, mode)
      <4> HIDE DEF k, k0
      <4> QED BY <1>0, <2>2, <3>2 DEF TaskRight
    <3>4. Moved(k)
      BY <3>1, <3>2, <3>3
    <3> HIDE DEF k, k0
    <3> QED BY <2>1, <3>4
  <2> QED BY <2>3, <2>4
<1>3. CASE BatchFails(t)
  <2> DEFINE k == [k0 EXCEPT !.at = "alone"]
  <2>1. tasks' = [tasks EXCEPT ![t] = k] /\ UNCHANGED <<mode, needs>> /\ k0.at = "batch"
    BY <1>3 DEF BatchFails
  <2>2. k \in TaskType /\ k.batch = k0.batch /\ k.done = k0.done /\ k.at = "alone"
    BY <1>0 DEF TaskType, States
  <2>3. k0.done = <<>>
    BY <1>0, <2>1 DEF TaskRight
  <2>4. TaskRight(k, needs, mode)
    <3> HIDE DEF k, k0
    <3> QED BY <1>0, <2>2, <2>3 DEF TaskRight
  <2>5. Moved(k)
    BY <2>1, <2>2, <2>4
  <2> HIDE DEF k, k0
  <2> QED BY <2>1, <2>5
<1>4. ASSUME NEW o, k0.at = "alone", ChunkDone(t, o),
             \/ o = AfterFailure(Current(t))
             \/ \E blank : o = Enriched(Current(t), Answered(Current(t), blank), "llm", FALSE)
      PROVE  Result
  <2> DEFINE n == Len(k0.done) + 1
             done == Append(k0.done, o)
             k == [k0 EXCEPT !.done = done, !.at = IF n = Len(k0.batch) THEN "done" ELSE "alone"]
  <2>1. tasks' = [tasks EXCEPT ![t] = k] /\ UNCHANGED <<mode, needs>>
    BY <1>4 DEF ChunkDone
  <2>2. n \in 1..Len(k0.batch) /\ Current(t) = k0.batch[n] /\ k0.batch[n] \in Chunks
    <3>1. Len(k0.done) < Len(k0.batch)
      BY <1>0, <1>4 DEF TaskRight
    <3> QED BY <1>0, <3>1 DEF Current
  <2>3. o \in OutcomeType /\ o.chunk = k0.batch[n] /\ Told(o, needs, mode)
    <3> HIDE DEF k0, n
    <3>1. CASE o = AfterFailure(Current(t))
      BY <2>2, <3>1, FailureRight
    <3>2. ASSUME NEW blank, o = Enriched(Current(t), Answered(Current(t), blank), "llm", FALSE)
          PROVE  o \in OutcomeType /\ o.chunk = k0.batch[n] /\ Told(o, needs, mode)
      BY <2>2, <3>2, AnswerRight
    <3> QED BY <1>4, <3>1, <3>2
  <2>4. /\ done \in Seq(OutcomeType) /\ Len(done) = n /\ done[n] = o
        /\ \A i \in 1..Len(k0.done) : done[i] = k0.done[i]
    <3> HIDE DEF k0
    <3> QED BY <1>0, <2>3, Appended
  <2>5. /\ k \in TaskType /\ k.batch = k0.batch /\ k.done = done
        /\ k.at = IF n = Len(k0.batch) THEN "done" ELSE "alone"
    <3> HIDE DEF done, n
    <3> QED BY <1>0, <2>4 DEF TaskType, States
  <2>6. \A i \in DOMAIN done : done[i].chunk = k0.batch[i] /\ Told(done[i], needs, mode)
    <3> SUFFICES ASSUME NEW i \in 1..n PROVE done[i].chunk = k0.batch[i] /\ Told(done[i], needs, mode)
      BY <2>4
    <3>1. CASE i = n
      <4> HIDE DEF done, k0, n
      <4> QED BY <2>3, <2>4, <3>1
    <3>2. CASE i # n
      <4>1. i \in 1..Len(k0.done) /\ i \in DOMAIN k0.done
        BY <1>0, <3>2
      <4> HIDE DEF done, k0, n
      <4> QED BY <1>0, <2>4, <4>1 DEF TaskRight
    <3> QED BY <3>1, <3>2
  <2>7. TaskRight(k, needs, mode)
    <3> HIDE DEF k, k0, done
    <3>1. k.batch # <<>>
      BY <1>0, <2>5 DEF TaskRight
    <3>2. k.at = "alone" => Len(k.done) < Len(k.batch)
      BY <1>0, <2>2, <2>4, <2>5
    <3>3. k.at \in {"done", "taken"} => Len(k.done) = Len(k.batch)
      BY <2>4, <2>5
    <3> QED BY <2>5, <2>6, <3>1, <3>2, <3>3 DEF TaskRight
  <2>8. Moved(k)
    <3> HIDE DEF k
    <3> QED BY <2>1, <2>5, <2>7
  <2> HIDE DEF k, k0
  <2> QED BY <2>1, <2>8
<1>5. CASE Collect(t)
  <2> DEFINE k == [k0 EXCEPT !.at = "taken"]
  <2>1. tasks' = [tasks EXCEPT ![t] = k] /\ UNCHANGED <<mode, needs>> /\ k0.at = "done"
    BY <1>5 DEF Collect
  <2>2. k \in TaskType /\ k.batch = k0.batch /\ k.done = k0.done /\ k.at = "taken"
    BY <1>0 DEF TaskType, States
  <2>3. Len(k0.done) = Len(k0.batch)
    BY <1>0, <2>1 DEF TaskRight
  <2>4. TaskRight(k, needs, mode)
    <3> HIDE DEF k, k0
    <3> QED BY <1>0, <2>2, <2>3 DEF TaskRight
  <2>5. Moved(k)
    BY <2>1, <2>2, <2>4
  <2> HIDE DEF k, k0
  <2> QED BY <2>1, <2>5
<1>6. CASE Work(t)
  <2>1. ASSUME NEW blank, ChunkAnswered(t, blank) PROVE Result
    <3> HIDE DEF Result
    <3> QED BY <1>4, <2>1 DEF ChunkAnswered
  <2>2. CASE ChunkFails(t)
    <3> HIDE DEF Result
    <3> QED BY <1>4, <2>2 DEF ChunkFails
  <2> HIDE DEF Result
  <2> QED BY <1>2, <1>3, <1>6, <2>1, <2>2 DEF Work
<1> HIDE DEF Result
<1> QED BY <1>1, <1>5, <1>6

\* No chunk is in two batches.
LEMMA BatchesApart ==
    ASSUME NEW bs, NEW n, Runs(bs, n), NEW t \in DOMAIN bs, NEW u \in DOMAIN bs,
           NEW i \in DOMAIN bs[t], NEW j \in DOMAIN bs[u], bs[t][i] = bs[u][j]
    PROVE  t = u /\ i = j
<1> DEFINE m == Len(bs)
           F == [v \in 1..m |-> bs[v][1]]
           L == [v \in 1..m |-> bs[v][1] + Len(bs[v]) - 1]
<1>1. m \in Nat /\ DOMAIN bs = 1..m
  BY DEF Runs
<1>2. ASSUME NEW v \in 1..m
      PROVE  /\ bs[v] \in Seq(Chunks) /\ Len(bs[v]) \in Nat \ {0} /\ bs[v][1] \in Int
             /\ DOMAIN bs[v] = 1..Len(bs[v])
             /\ \A k \in 1..Len(bs[v]) : bs[v][k] = bs[v][1] + k - 1
  <2>1. bs[v] \in Seq(Chunks) /\ Run(bs[v])
    <3>1. v \in DOMAIN bs
      BY <1>1
    <3> QED BY <3>1 DEF Runs
  <2> QED BY <2>1, ChunkFacts, SMTT(30) DEF Run
<1>3. \A v \in 1..m : F[v] = bs[v][1] /\ L[v] = bs[v][1] + Len(bs[v]) - 1
  OBVIOUS
<1>4. F \in [1..m -> Int] /\ L \in [1..m -> Int] /\ \A v \in 1..m : F[v] <= L[v]
  BY <1>2
<1>5. \A v \in 1..m - 1 : F[v + 1] = L[v] + 1
  <2> SUFFICES ASSUME NEW v \in 1..m - 1 PROVE F[v + 1] = L[v] + 1
    OBVIOUS
  <2>1. v \in 1..m /\ v + 1 \in 1..m
    BY <1>1
  <2>2. bs[v + 1][1] = bs[v][1] + Len(bs[v])
    BY DEF Runs
  <2>3. bs[v][1] \in Int /\ Len(bs[v]) \in Int
    BY <1>2, <2>1
  <2> HIDE DEF F, L, m
  <2> QED BY <1>3, <2>1, <2>2, <2>3, SMTT(30)
<1>6. \A v, w \in 1..m : v < w => L[v] < F[w]
  <2> HIDE DEF F, L, m
  <2> QED BY <1>1, <1>4, <1>5, RunsAscend
<1>7. ASSUME NEW v \in 1..m, NEW w \in 1..m, v < w, NEW k \in DOMAIN bs[v], NEW l \in DOMAIN bs[w]
      PROVE  bs[v][k] # bs[w][l]
  <2>1. bs[v][k] = F[v] + k - 1 /\ k \in 1..Len(bs[v]) /\ L[v] = F[v] + Len(bs[v]) - 1
    BY <1>2, <1>3
  <2>2. bs[w][l] = F[w] + l - 1 /\ l \in 1..Len(bs[w])
    BY <1>2, <1>3
  <2>3. L[v] < F[w] /\ F[v] \in Int /\ F[w] \in Int /\ Len(bs[v]) \in Int /\ Len(bs[w]) \in Int
    <3> HIDE DEF F, L, m
    <3>1. L[v] < F[w]
      BY <1>6, <1>7
    <3>2. F[v] \in Int /\ F[w] \in Int
      BY <1>4
    <3> QED BY <1>2, <3>1, <3>2
  <2> HIDE DEF F, L, m
  <2>4. F[v] + k - 1 <= L[v]
    BY <2>1, <2>3
  <2>5. F[w] <= F[w] + l - 1
    BY <2>2, <2>3
  <2>6. F[v] + k - 1 # F[w] + l - 1
    <3> DEFINE x == F[v] + k - 1  y == F[w] + l - 1
    <3>1. x <= L[v] /\ L[v] < F[w] /\ F[w] <= y
      BY <2>3, <2>4, <2>5
    <3>2. x \in Int /\ y \in Int /\ L[v] \in Int /\ F[w] \in Int
      <4>1. k \in Int /\ l \in Int
        BY <2>1, <2>2, <2>3
      <4>2. L[v] \in Int
        BY <2>1, <2>3
      <4> QED BY <2>3, <4>1, <4>2
    <3> HIDE DEF x, y
    <3>3. x # y
      BY ONLY <3>1, <3>2
    <3> QED BY <3>3 DEF x, y
  <2> QED BY <2>1, <2>2, <2>6
<1>8. t = u
  <2>1. t \in 1..m /\ u \in 1..m /\ m \in Nat
    BY <1>1
  <2>2. ~(t < u)
    <3> HIDE DEF m
    <3> QED BY <1>7, <2>1
  <2>3. ~(u < t)
    <3> HIDE DEF m
    <3> QED BY <1>7, <2>1
  <2> HIDE DEF m
  <2> QED BY <2>1, <2>2, <2>3
<1>9. i = j
  <2>1. bs[t][i] = bs[t][1] + i - 1 /\ bs[t][j] = bs[t][1] + j - 1 /\ bs[t][1] \in Int
        /\ i \in Int /\ j \in Int
    <3>1. t \in 1..m /\ i \in DOMAIN bs[t] /\ j \in DOMAIN bs[t]
      BY <1>1, <1>8
    <3> HIDE DEF m
    <3>2. i \in 1..Len(bs[t]) /\ j \in 1..Len(bs[t])
      BY <1>2, <3>1
    <3>3. i \in Int /\ j \in Int
      BY <1>2, <3>1, <3>2
    <3> QED BY <1>2, <3>1, <3>2, <3>3
  <2> QED BY <1>8, <2>1
<1> QED BY <1>8, <1>9

\* Single chunks follow each other.
LEMMA SinglesRight == Runs([c \in Chunks |-> <<c>>], Length)
<1> DEFINE bs == [c \in Chunks |-> <<c>>]
<1>1. /\ \A c \in Chunks : bs[c] = <<c>>
      /\ DOMAIN bs = 1..Length /\ Length \in Nat \ {0}
  BY ChunkFacts
<1>2. bs \in Seq(Seq(Chunks)) /\ Len(bs) = Length /\ bs # <<>>
  <2>1. bs \in [1..Length -> Seq(Chunks)]
    BY ChunkFacts, OneChunk
  <2> HIDE DEF bs
  <2> QED BY <1>1, <2>1
<1>3. \A c \in 1..Length : Run(bs[c]) /\ WithinBudget(bs[c]) /\ bs[c][1] = c /\ Len(bs[c]) = 1
  <2> SUFFICES ASSUME NEW c \in 1..Length
               PROVE  Run(bs[c]) /\ WithinBudget(bs[c]) /\ bs[c][1] = c /\ Len(bs[c]) = 1
    OBVIOUS
  <2>1. c \in Chunks /\ bs[c] = <<c>>
    BY <1>1, ChunkFacts
  <2> HIDE DEF bs
  <2> QED BY <2>1, OneChunk
<1>4. \A c \in 1..Length - 1 : bs[c + 1][1] = bs[c][1] + Len(bs[c])
  <2> SUFFICES ASSUME NEW c \in 1..Length - 1 PROVE bs[c + 1][1] = bs[c][1] + Len(bs[c])
    OBVIOUS
  <2>1. c \in 1..Length /\ c + 1 \in 1..Length
    BY ChunkFacts
  <2> HIDE DEF bs
  <2> QED BY <1>3, <2>1
<1>5. bs[1][1] = 1 /\ bs[Length][1] + Len(bs[Length]) = Length + 1
  <2>1. 1 \in 1..Length /\ Length \in 1..Length
    BY ChunkFacts
  <2> HIDE DEF bs
  <2> QED BY <1>3, <2>1
<1> HIDE DEF bs
<1>6. Runs(bs, Length)
  BY <1>1, <1>2, <1>3, <1>4, <1>5 DEF Runs
<1> QED BY <1>6 DEF bs

-----------------------------------------------------------------------------
(* The first state *)

LEMMA QueuedRight ==
    ASSUME NEW b \in Seq(Chunks), b # <<>>
    PROVE  LET k == Task(b, "queued")
           IN  /\ k \in TaskType /\ TaskRight(k, needs, mode) /\ k.batch = b
               /\ k.at = "queued" /\ k.done = <<>>
BY DEF Task, TaskType, States, TaskRight

LEMMA InitIInv == Init => IInv
<1> SUFFICES ASSUME Init PROVE IInv
  OBVIOUS
<1>1. /\ mode \in Modes /\ needs \subseteq Chunks /\ asked = [c \in Chunks |-> 0]
      /\ texts = <<>> /\ returned = FALSE
  BY DEF Init
<1>2. mode \in {"batches", "single", "heuristic"}
  BY <1>1, ModesAssumption
<1>3. ASSUME NEW bs, Runs(bs, Length), tasks = [t \in DOMAIN bs |-> Task(bs[t], "queued")],
             mode # "heuristic"
      PROVE  /\ TasksRight
             /\ \A t \in DOMAIN tasks : tasks[t].at = "queued" /\ tasks[t].done = <<>>
                                        /\ tasks[t].batch \in Seq(Chunks)
             /\ Len(tasks) \in Nat
  <2>1. bs \in Seq(Seq(Chunks)) /\ DOMAIN bs = 1..Len(bs) /\ Len(bs) \in Nat
    BY <1>3 DEF Runs
  <2>2. ASSUME NEW t \in DOMAIN bs
        PROVE  /\ tasks[t] \in TaskType /\ TaskRight(tasks[t], needs, mode) /\ tasks[t].batch = bs[t]
               /\ tasks[t].at = "queued" /\ tasks[t].done = <<>> /\ bs[t] \in Seq(Chunks)
    <3>1. bs[t] \in Seq(Chunks) /\ bs[t] # <<>>
      BY <1>3, <2>1 DEF Runs, Run
    <3> QED BY <1>3, <3>1, QueuedRight
  <2>3. DOMAIN tasks = DOMAIN bs
    BY <1>3
  <2>4. tasks \in Seq(TaskType) /\ Len(tasks) \in Nat
    <3>1. tasks = [t \in 1..Len(bs) |-> tasks[t]]
      BY <1>3, <2>1
    <3>2. tasks \in [1..Len(bs) -> TaskType]
      BY <2>1, <2>2, <3>1
    <3> DEFINE n == Len(bs)
    <3>3. n \in Nat /\ tasks \in [1..n -> TaskType]
      BY <2>1, <3>2
    <3>4. tasks \in Seq(TaskType)
      <4> HIDE DEF n
      <4> QED BY <3>3, SeqDef
    <3> QED BY <3>4
  <2>5. BatchesOf = bs
    <3>1. bs = [t \in DOMAIN bs |-> bs[t]]
      BY <2>1
    <3> QED BY <2>2, <2>3, <3>1 DEF BatchesOf
  <2> QED BY <1>1, <1>3, <2>2, <2>3, <2>4, <2>5 DEF TasksRight
<1>4. /\ TasksRight
      /\ \A t \in DOMAIN tasks : tasks[t].at = "queued" /\ tasks[t].done = <<>>
                                 /\ tasks[t].batch \in Seq(Chunks)
      /\ Len(tasks) \in Nat
  <2>1. CASE mode = "batches"
    <3>1. tasks = [t \in DOMAIN Batches |-> Task(Batches[t], "queued")]
      BY <2>1 DEF Init
    <3> QED BY <1>3, <2>1, <3>1, BatchesRight
  <2>2. CASE mode = "single"
    <3> DEFINE bs == [c \in Chunks |-> <<c>>]
    <3>1. tasks = [t \in DOMAIN bs |-> Task(bs[t], "queued")]
      BY <2>2 DEF Init
    <3>2. Runs(bs, Length)
      BY SinglesRight
    <3> HIDE DEF bs
    <3> QED BY <1>3, <2>2, <3>1, <3>2
  <2>3. CASE mode = "heuristic"
    <3>1. tasks = <<>>
      BY <2>3 DEF Init
    <3> QED BY <1>1, <2>3, <3>1 DEF TasksRight
  <2> QED BY <1>2, <2>1, <2>2, <2>3
<1>5. AskedRight
  <2>1. asked \in [Chunks -> Nat] /\ \A c \in Chunks : asked[c] = 0 /\ asked[c] <= MostRequests(mode)
    BY <1>1 DEF MostRequests
  <2>2. ASSUME NEW t \in DOMAIN tasks, NEW i \in DOMAIN tasks[t].batch
        PROVE  asked[tasks[t].batch[i]] <= Requests(tasks[t], i, mode)
    <3>1. tasks[t].batch[i] \in Chunks /\ i \in Nat \ {0}
      BY <1>4
    <3>2. Requests(tasks[t], i, mode) = 0
      BY <1>4, <3>1 DEF Requests
    <3> QED BY <2>1, <3>1, <3>2
  <2> QED BY <2>1, <2>2 DEF AskedRight
<1>6. TextsInOrder
  <2>1. texts \in Seq(OutcomeType) /\ Len(texts) = 0 /\ DOMAIN texts = {}
    BY <1>1
  <2>2. 0 \in 0..Len(tasks)
    BY <1>4
  <2>3. Taken(0)
    <3>1. DOMAIN tasks \subseteq Nat \ {0}
      BY <1>4 DEF TasksRight
    <3> QED BY <1>4, <2>1, <3>1 DEF Taken
  <2> QED BY <1>1, <2>1, <2>2, <2>3 DEF TextsInOrder
<1> QED BY <1>4, <1>5, <1>6 DEF IInv

-----------------------------------------------------------------------------
(* The steps *)

\* A step of one task leaves the others and all batches as they were.
LEMMA Moved ==
    ASSUME TasksRight, NEW t \in DOMAIN tasks, Take(t) \/ Work(t) \/ Collect(t)
    PROVE  /\ UNCHANGED <<mode, needs>>
           /\ DOMAIN tasks' = DOMAIN tasks /\ Len(tasks') = Len(tasks)
           /\ \A u \in DOMAIN tasks : tasks'[u].batch = tasks[u].batch
           /\ \A u \in DOMAIN tasks : u # t => tasks'[u] = tasks[u]
           /\ tasks'[t] \in TaskType
           /\ TasksRight'
<1>1. UNCHANGED <<mode, needs>>
  BY TaskMoves
<1>2. PICK k \in TaskType : /\ k.batch = tasks[t].batch /\ TaskRight(k, needs, mode)
                            /\ tasks' = [tasks EXCEPT ![t] = k]
  BY TaskMoves
<1>3. tasks \in Seq(TaskType) /\ DOMAIN tasks = 1..Len(tasks) /\ Len(tasks) \in Nat
  BY DEF TasksRight
<1>4. tasks' \in Seq(TaskType) /\ DOMAIN tasks' = DOMAIN tasks /\ Len(tasks') = Len(tasks)
  BY <1>2, <1>3
<1>5. tasks'[t] = k /\ \A u \in DOMAIN tasks : u # t => tasks'[u] = tasks[u]
  BY <1>2, <1>3
<1>6. \A u \in DOMAIN tasks : tasks'[u].batch = tasks[u].batch
  BY <1>2, <1>5
<1>7. \A u \in DOMAIN tasks : TaskRight(tasks'[u], needs, mode)
  BY <1>2, <1>5 DEF TasksRight
<1>8. BatchesOf' = BatchesOf
  BY <1>4, <1>6 DEF BatchesOf
<1>9. mode # "heuristic"
  BY TaskIs
<1>10. TasksRight'
  <2>1. mode' \in Modes /\ needs' \subseteq Chunks /\ mode' # "heuristic" /\ Runs(BatchesOf', Length)
    BY <1>1, <1>8, <1>9 DEF TasksRight
  <2>2. \A u \in DOMAIN tasks' : TaskRight(tasks'[u], needs', mode')
    BY <1>1, <1>4, <1>7
  <2> QED BY <1>4, <2>1, <2>2 DEF TasksRight
<1> QED BY <1>1, <1>2, <1>4, <1>5, <1>6, <1>10

\* Chunks of two tasks, or two chunks of one, differ.
LEMMA TasksApart ==
    ASSUME TasksRight, NEW t \in DOMAIN tasks, NEW u \in DOMAIN tasks,
           NEW i \in DOMAIN tasks[t].batch, NEW j \in DOMAIN tasks[u].batch,
           tasks[t].batch[i] = tasks[u].batch[j]
    PROVE  t = u /\ i = j
<1>1. Runs(BatchesOf, Length)
  BY TaskIs DEF TasksRight
<1>2. /\ DOMAIN BatchesOf = DOMAIN tasks
      /\ BatchesOf[t] = tasks[t].batch /\ BatchesOf[u] = tasks[u].batch
  BY DEF BatchesOf
<1> QED BY <1>1, <1>2, BatchesApart

LEMMA RequestsType ==
    ASSUME NEW k \in TaskType, NEW i \in Nat, NEW how
    PROVE  Requests(k, i, how) \in Nat /\ Requests(k, i, how) <= MostRequests(how)
<1>1. Len(k.done) \in Nat /\ k.at \in States
  BY DEF TaskType
<1> QED BY <1>1 DEF Requests, MostRequests, States

\* A step that asks about some chunks of a task makes as many requests as the
\* task's progress allows.
LEMMA AskedKept ==
    ASSUME TasksRight, AskedRight,
           NEW t \in DOMAIN tasks, Take(t) \/ Work(t) \/ Collect(t),
           NEW S \in SUBSET InBatch(t), asked' = Asked(S),
           \A i \in DOMAIN tasks[t].batch :
              Requests(tasks[t], i, mode) + (IF tasks[t].batch[i] \in S THEN 1 ELSE 0)
                 <= Requests(tasks'[t], i, mode)
    PROVE  AskedRight'
<1>1. /\ mode' = mode /\ DOMAIN tasks' = DOMAIN tasks
      /\ \A u \in DOMAIN tasks : tasks'[u].batch = tasks[u].batch
      /\ \A u \in DOMAIN tasks : u # t => tasks'[u] = tasks[u]
      /\ tasks'[t] \in TaskType
  BY Moved
<1>2. \A u \in DOMAIN tasks : /\ tasks[u] \in TaskType /\ tasks[u].batch \in Seq(Chunks)
                              /\ DOMAIN tasks[u].batch \subseteq Nat
  <2> SUFFICES ASSUME NEW u \in DOMAIN tasks
               PROVE  /\ tasks[u] \in TaskType /\ tasks[u].batch \in Seq(Chunks)
                      /\ DOMAIN tasks[u].batch \subseteq Nat
    OBVIOUS
  <2> QED BY TaskIs
<1>3. /\ asked \in [Chunks -> Nat] /\ asked' \in [Chunks -> Nat]
      /\ \A c \in Chunks : asked'[c] = asked[c] + (IF c \in S THEN 1 ELSE 0)
  BY DEF AskedRight, Asked
<1>4. ASSUME NEW i \in DOMAIN tasks[t].batch
      PROVE  asked'[tasks[t].batch[i]] <= Requests(tasks'[t], i, mode)
  <2>1. asked[tasks[t].batch[i]] <= Requests(tasks[t], i, mode)
    BY DEF AskedRight
  <2>2. tasks[t].batch[i] \in Chunks /\ i \in Nat
    BY <1>2
  <2>3. Requests(tasks[t], i, mode) \in Nat /\ Requests(tasks'[t], i, mode) \in Nat
    BY <1>1, <1>2, <2>2, RequestsType
  <2>4. Requests(tasks[t], i, mode) + (IF tasks[t].batch[i] \in S THEN 1 ELSE 0)
           <= Requests(tasks'[t], i, mode)
    OBVIOUS
  <2> QED BY <1>3, <2>1, <2>2, <2>3, <2>4
<1>5. ASSUME NEW u \in DOMAIN tasks, NEW i \in DOMAIN tasks[u].batch
      PROVE  asked'[tasks[u].batch[i]] <= Requests(tasks'[u], i, mode)
  <2>1. CASE u = t
    BY <1>4, <2>1
  <2>2. CASE u # t
    <3>1. tasks[u].batch[i] \in Chunks
      BY <1>2
    <3>2. tasks[u].batch[i] \notin InBatch(t)
      BY <2>2, TasksApart DEF InBatch
    <3>3. asked'[tasks[u].batch[i]] = asked[tasks[u].batch[i]]
      BY <1>3, <3>1, <3>2
    <3>4. asked[tasks[u].batch[i]] <= Requests(tasks[u], i, mode)
      BY DEF AskedRight
    <3> QED BY <1>1, <2>2, <3>3, <3>4
  <2> QED BY <2>1, <2>2
<1>6. ASSUME NEW c \in Chunks PROVE asked'[c] <= MostRequests(mode)
  <2>1. CASE c \in S
    <3>1. PICK i \in DOMAIN tasks[t].batch : c = tasks[t].batch[i]
      BY <2>1 DEF InBatch
    <3>2. asked'[c] <= Requests(tasks'[t], i, mode)
      BY <1>4, <3>1
    <3>3. i \in Nat
      BY <1>2
    <3>4. Requests(tasks'[t], i, mode) \in Nat /\ Requests(tasks'[t], i, mode) <= MostRequests(mode)
      BY <1>1, <3>3, RequestsType
    <3>5. MostRequests(mode) \in Nat /\ asked'[c] \in Nat
      BY <1>3 DEF MostRequests
    <3> QED BY <3>2, <3>4, <3>5
  <2>2. CASE c \notin S
    <3>1. asked'[c] = asked[c] /\ asked[c] <= MostRequests(mode)
      BY <1>3, <2>2 DEF AskedRight
    <3> QED BY <3>1
  <2> QED BY <2>1, <2>2
<1> QED BY <1>1, <1>3, <1>5, <1>6 DEF AskedRight

LEMMA NextAskedRight ==
    ASSUME TasksRight, AskedRight,
           NEW t \in DOMAIN tasks, Take(t) \/ Work(t) \/ Collect(t)
    PROVE  AskedRight'
<1> DEFINE k0 == tasks[t]  k == tasks'[t]
<1>0. /\ k0 \in TaskType /\ TaskRight(k0, needs, mode)
      /\ k0.batch \in Seq(Chunks) /\ k0.done \in Seq(OutcomeType) /\ k0.at \in States
      /\ Len(k0.batch) \in Nat \ {0} /\ Len(k0.done) \in Nat
      /\ DOMAIN k0.batch = 1..Len(k0.batch)
  BY TaskIs
<1>1. \A m : tasks' = [tasks EXCEPT ![t] = m] => k = m
  OBVIOUS
<1>2. asked = Asked({}) /\ \A i \in DOMAIN k0.batch : Requests(k0, i, mode) \in Nat
  <2>1. asked = Asked({})
    BY DEF AskedRight, Asked
  <2>2. \A i \in DOMAIN k0.batch : i \in Nat
    BY <1>0
  <2> HIDE DEF k0
  <2> QED BY <1>0, <2>1, <2>2, RequestsType
<1>3. ASSUME asked' = asked, \A i \in DOMAIN k0.batch : Requests(k0, i, mode) <= Requests(k, i, mode)
      PROVE  AskedRight'
  <2>1. \A i \in DOMAIN k0.batch : Requests(k0, i, mode) + (IF k0.batch[i] \in {} THEN 1 ELSE 0)
                                      <= Requests(k, i, mode)
    <3> HIDE DEF k0, k
    <3> QED BY <1>2, <1>3
  <2>2. asked' = Asked({}) /\ {} \in SUBSET InBatch(t)
    BY <1>2, <1>3
  <2> QED BY <2>1, <2>2, AskedKept
<1>4. CASE Take(t)
  <2>1. /\ k0.at = "queued" /\ asked' = asked
        /\ tasks' = [tasks EXCEPT ![t] = [k0 EXCEPT !.at = IF mode = "batches" THEN "batch" ELSE "alone"]]
    BY <1>4 DEF Take
  <2>2. k = [k0 EXCEPT !.at = IF mode = "batches" THEN "batch" ELSE "alone"]
    BY <1>1, <2>1
  <2>3. k.done = k0.done /\ (mode = "batches" => k.at = "batch")
    BY <1>0, <2>2 DEF TaskType
  <2>4. \A i \in DOMAIN k0.batch : Requests(k0, i, mode) <= Requests(k, i, mode)
    <3> HIDE DEF k0, k
    <3> QED BY <1>0, <2>1, <2>3 DEF Requests
  <2> QED BY <1>3, <2>1, <2>4
<1>5. ASSUME asked' = Asked(InBatch(t)), k0.at = "batch", k.at \in {"alone", "done"}
      PROVE  AskedRight'
  <2>1. mode = "batches"
    BY <1>0, <1>5 DEF TaskRight
  <2>2. k.at = "alone" \/ k.at = "done"
    BY <1>5
  <2>3. \A i \in DOMAIN k0.batch : Requests(k0, i, mode) = 0 /\ 1 <= Requests(k, i, mode)
                                   /\ Requests(k, i, mode) \in Nat
    <3> HIDE DEF k0, k
    <3> QED BY <1>5, <2>1, <2>2 DEF Requests
  <2>4. \A i \in DOMAIN k0.batch :
           Requests(k0, i, mode) + (IF k0.batch[i] \in InBatch(t) THEN 1 ELSE 0) <= Requests(k, i, mode)
    <3> HIDE DEF k0, k
    <3> QED BY <2>3
  <2>5. InBatch(t) \in SUBSET InBatch(t)
    OBVIOUS
  <2> QED BY <1>5, <2>4, <2>5, AskedKept
<1>6. ASSUME NEW ids, NEW blank, BatchAnswered(t, ids, blank) PROVE AskedRight'
  <2> DEFINE parsed == Parsed(k0.batch, ids, blank)
             m == [k0 EXCEPT !.at = "done", !.done = [i \in DOMAIN parsed.text |->
                      Enriched(k0.batch[i], parsed.text[i], "llm_batch", FALSE)]]
             n == [k0 EXCEPT !.at = "alone"]
  <2>1. /\ k0.at = "batch" /\ asked' = Asked(InBatch(t))
        /\ tasks' = [tasks EXCEPT ![t] = m] \/ tasks' = [tasks EXCEPT ![t] = n]
    BY <1>6 DEF BatchAnswered
  <2>2. m.at = "done" /\ n.at = "alone"
    BY <1>0 DEF TaskType
  <2>3. k.at \in {"alone", "done"}
    <3> HIDE DEF m, n
    <3>1. k = m \/ k = n
      <4> HIDE DEF k
      <4> QED BY <1>1, <2>1
    <3> QED BY <2>2, <3>1
  <2> QED BY <1>5, <2>1, <2>3
<1>7. CASE BatchFails(t)
  <2>1. /\ k0.at = "batch" /\ asked' = Asked(InBatch(t))
        /\ tasks' = [tasks EXCEPT ![t] = [k0 EXCEPT !.at = "alone"]]
    BY <1>7 DEF BatchFails
  <2>2. k = [k0 EXCEPT !.at = "alone"]
    BY <1>1, <2>1
  <2>3. k.at = "alone"
    BY <1>0, <2>2 DEF TaskType
  <2> QED BY <1>5, <2>1, <2>3
<1>8. ASSUME NEW o, k0.at = "alone", ChunkDone(t, o) PROVE AskedRight'
  <2> DEFINE n == Len(k0.done) + 1
             m == [k0 EXCEPT !.done = Append(k0.done, o), !.at = IF n = Len(k0.batch) THEN "done" ELSE "alone"]
  <2>1. /\ tasks' = [tasks EXCEPT ![t] = m]
        /\ asked' = Asked({Current(t)})
    BY <1>8 DEF ChunkDone
  <2>2. /\ k.done = Append(k0.done, o)
        /\ k.at = IF n = Len(k0.batch) THEN "done" ELSE "alone"
    <3>1. k = m
      BY <1>1, <2>1
    <3> QED BY <1>0, <3>1 DEF TaskType
  <2>3. n \in DOMAIN k0.batch /\ Current(t) = k0.batch[n]
    <3>1. Len(k0.done) < Len(k0.batch)
      BY <1>0, <1>8 DEF TaskRight
    <3> QED BY <1>0, <3>1 DEF Current
  <2>4. Len(k.done) = n /\ n \in Nat
    BY <1>0, <2>2
  <2>5. ASSUME NEW i \in DOMAIN k0.batch
        PROVE  Requests(k0, i, mode) + (IF k0.batch[i] \in {Current(t)} THEN 1 ELSE 0) <= Requests(k, i, mode)
    <3>1. i \in 1..Len(k0.batch)
      BY <1>0
    <3>2. k0.batch[i] \in {Current(t)} <=> i = n
      <4> HIDE DEF n
      <4> QED BY <2>3, TasksApart
    <3>3. Requests(k0, i, mode) = IF mode = "batches" THEN (IF i < n THEN 2 ELSE 1)
                                  ELSE (IF i < n THEN 1 ELSE 0)
      BY <1>0, <1>8, <3>1 DEF Requests
    <3>4. Requests(k, i, mode) = IF mode = "batches" THEN (IF i <= n THEN 2 ELSE 1)
                                 ELSE (IF i <= n THEN 1 ELSE 0)
      <4> HIDE DEF k, k0, n
      <4>1. CASE n = Len(k0.batch)
        BY <1>0, <2>2, <2>4, <3>1, <4>1 DEF Requests
      <4>2. CASE n # Len(k0.batch)
        BY <1>0, <2>2, <2>4, <3>1, <4>2 DEF Requests
      <4> QED BY <4>1, <4>2
    <3> HIDE DEF k, k0, n
    <3> QED BY <2>4, <3>1, <3>2, <3>3, <3>4
  <2>6. {Current(t)} \in SUBSET InBatch(t)
    BY <2>3 DEF InBatch
  <2> QED BY <2>1, <2>5, <2>6, AskedKept
<1>9. CASE Collect(t)
  <2>1. /\ k0.at = "done" /\ asked' = asked
        /\ tasks' = [tasks EXCEPT ![t] = [k0 EXCEPT !.at = "taken"]]
    BY <1>9 DEF Collect
  <2>2. k = [k0 EXCEPT !.at = "taken"]
    BY <1>1, <2>1
  <2>3. k.done = k0.done /\ k.at = "taken"
    BY <1>0, <2>2 DEF TaskType
  <2>4. \A i \in DOMAIN k0.batch : Requests(k0, i, mode) <= Requests(k, i, mode)
    <3> HIDE DEF k0, k
    <3> QED BY <1>0, <2>1, <2>3 DEF Requests
  <2> QED BY <1>3, <2>1, <2>4
<1>10. CASE Work(t)
  BY <1>6, <1>7, <1>8, <1>10 DEF Work, ChunkAnswered, ChunkFails
<1> QED BY <1>4, <1>9, <1>10

\* The caller has the chunks up to the end of a task, and there is one.
EndOf(t) == tasks[t].batch[1] + Len(tasks[t].batch) - 1

LEMMA Ends ==
    ASSUME TasksRight, NEW t \in DOMAIN tasks
    PROVE  /\ tasks[t].batch[1] \in Chunks /\ EndOf(t) \in Chunks
           /\ tasks[t].batch[1] = (IF t = 1 THEN 1 ELSE EndOf(t - 1) + 1)
           /\ t = Len(tasks) => EndOf(t) = Length
           /\ \A i \in DOMAIN tasks[t].batch : tasks[t].batch[i] = tasks[t].batch[1] + i - 1
<1>1. Runs(BatchesOf, Length) /\ tasks \in Seq(TaskType)
  BY TaskIs DEF TasksRight
<1>2. /\ Len(tasks) \in Nat /\ DOMAIN tasks = 1..Len(tasks) /\ Len(BatchesOf) = Len(tasks)
      /\ DOMAIN BatchesOf = 1..Len(tasks)
      /\ \A u \in 1..Len(tasks) : BatchesOf[u] = tasks[u].batch
  BY <1>1 DEF BatchesOf, Runs
<1>3. tasks[t].batch \in Seq(Chunks) /\ Len(tasks[t].batch) \in Nat \ {0}
  BY TaskIs
<1>4. \A i \in DOMAIN tasks[t].batch : tasks[t].batch[i] = tasks[t].batch[1] + i - 1
  <2>1. Run(BatchesOf[t])
    BY <1>1, <1>2 DEF Runs
  <2> QED BY <1>2, <2>1 DEF Run
<1>5. tasks[t].batch[1] \in Chunks /\ EndOf(t) \in Chunks
  <2>1. /\ 1 \in DOMAIN tasks[t].batch /\ Len(tasks[t].batch) \in DOMAIN tasks[t].batch
        /\ \A i \in DOMAIN tasks[t].batch : tasks[t].batch[i] \in Chunks
    BY <1>3
  <2>2. EndOf(t) = tasks[t].batch[Len(tasks[t].batch)]
    BY <1>4, <2>1 DEF EndOf
  <2> QED BY <2>1, <2>2
<1>6. CASE t = 1
  <2>1. tasks[t].batch[1] = 1
    <3>1. BatchesOf[1][1] = 1
      BY <1>1 DEF Runs
    <3> QED BY <1>2, <1>6, <3>1
  <2>2. t = Len(tasks) => EndOf(t) = Length
    <3> SUFFICES ASSUME t = Len(tasks) PROVE EndOf(t) = Length
      OBVIOUS
    <3>1. BatchesOf[t][1] + Len(BatchesOf[t]) = Length + 1
      BY <1>1, <1>2 DEF Runs
    <3>2. /\ tasks[t].batch = BatchesOf[t] /\ Len(tasks[t].batch) \in Int
          /\ tasks[t].batch[1] \in Int /\ Length \in Int
      BY <1>2, <1>3, <1>5, ChunkFacts
    <3> QED BY ONLY <3>1, <3>2 DEF EndOf
  <2> QED BY <1>4, <1>5, <1>6, <2>1, <2>2
<1>7. CASE t # 1
  <2>1. t - 1 \in 1..Len(tasks) - 1 /\ t - 1 \in 1..Len(tasks) /\ (t - 1) + 1 = t
    BY <1>2, <1>7
  <2>2. BatchesOf[(t - 1) + 1][1] = BatchesOf[t - 1][1] + Len(BatchesOf[t - 1])
    BY <1>1, <1>2, <2>1 DEF Runs
  <2>3. tasks[t].batch[1] = tasks[t - 1].batch[1] + Len(tasks[t - 1].batch)
    BY <1>2, <2>1, <2>2
  <2>4. /\ tasks[t - 1].batch \in Seq(Chunks) /\ Len(tasks[t - 1].batch) \in Nat \ {0}
    BY <1>2, <2>1, TaskIs
  <2>5. tasks[t - 1].batch[1] \in Int /\ Len(tasks[t - 1].batch) \in Int
    BY <2>4, ChunkFacts
  <2>6. tasks[t].batch[1] = EndOf(t - 1) + 1
    BY <2>3, <2>5 DEF EndOf
  <2>7. t = Len(tasks) => EndOf(t) = Length
    <3> SUFFICES ASSUME t = Len(tasks) PROVE EndOf(t) = Length
      OBVIOUS
    <3>1. BatchesOf[t][1] + Len(BatchesOf[t]) = Length + 1
      BY <1>1, <1>2 DEF Runs
    <3>2. /\ tasks[t].batch = BatchesOf[t] /\ Len(tasks[t].batch) \in Int
          /\ tasks[t].batch[1] \in Int /\ Length \in Int
      BY <1>2, <1>3, <1>5, ChunkFacts
    <3> QED BY ONLY <3>1, <3>2 DEF EndOf
  <2> QED BY <1>4, <1>5, <1>7, <2>6, <2>7
<1> QED BY <1>6, <1>7

\* A step of the pool leaves what the caller has.
LEMMA PoolKeepsTexts ==
    ASSUME TasksRight, TextsInOrder, NEW t \in DOMAIN tasks, Take(t) \/ Work(t)
    PROVE  TextsInOrder' /\ UNCHANGED <<texts, returned>>
<1>1. /\ UNCHANGED <<mode, needs>> /\ DOMAIN tasks' = DOMAIN tasks /\ Len(tasks') = Len(tasks)
      /\ \A u \in DOMAIN tasks : tasks'[u].batch = tasks[u].batch
      /\ \A u \in DOMAIN tasks : u # t => tasks'[u] = tasks[u]
  BY Moved
<1>2. UNCHANGED <<texts, returned>>
  BY DEF Take, Work, BatchAnswered, BatchFails, ChunkAnswered, ChunkFails, ChunkDone
<1>3. tasks[t].at # "taken" /\ tasks'[t].at # "taken"
  <2>1. tasks[t] \in TaskType
    BY TaskIs
  <2>2. tasks[t].at \in {"queued", "batch", "alone"}
    BY DEF Take, Work, BatchAnswered, BatchFails, ChunkAnswered, ChunkFails, ChunkDone
  <2>3. CASE Take(t)
    BY <2>1, <2>3 DEF Take, TaskType
  <2>4. ASSUME NEW ids, NEW blank, BatchAnswered(t, ids, blank) PROVE tasks'[t].at # "taken"
    <3>1. CASE Parsed(tasks[t].batch, ids, blank).complete
      BY <2>1, <2>4, <3>1 DEF BatchAnswered, TaskType
    <3>2. CASE ~Parsed(tasks[t].batch, ids, blank).complete
      BY <2>1, <2>4, <3>2 DEF BatchAnswered, TaskType
    <3> QED BY <3>1, <3>2
  <2>5. CASE BatchFails(t)
    BY <2>1, <2>5 DEF BatchFails, TaskType
  <2>6. ASSUME NEW o, ChunkDone(t, o) PROVE tasks'[t].at # "taken"
    BY <2>1, <2>6 DEF ChunkDone, TaskType
  <2> QED BY <2>2, <2>3, <2>4, <2>5, <2>6 DEF Work, ChunkAnswered, ChunkFails
<1>4. mode # "heuristic" /\ Len(tasks) \in Nat /\ DOMAIN tasks = 1..Len(tasks)
  BY TaskIs DEF TasksRight
<1>5. PICK n \in 0..Len(tasks) : Taken(n)
  BY <1>4 DEF TextsInOrder
<1>6. Taken(n)'
  <2>1. \A u \in DOMAIN tasks' : tasks'[u].at = "taken" <=> u <= n
    BY <1>1, <1>3, <1>5 DEF Taken
  <2>2. n # 0 => n \in DOMAIN tasks
    BY <1>4
  <2>3. Len(texts') = IF n = 0 THEN 0 ELSE tasks'[n].batch[1] + Len(tasks'[n].batch) - 1
    BY <1>1, <1>2, <1>5, <2>2 DEF Taken
  <2> QED BY <2>1, <2>3 DEF Taken
<1>7. n \in 0..Len(tasks')
  BY <1>1
<1> QED BY <1>1, <1>2, <1>4, <1>6, <1>7 DEF TextsInOrder

\* The caller takes the next task.
LEMMA CollectKeeps ==
    ASSUME TasksRight, TextsInOrder, NEW t \in DOMAIN tasks, Collect(t)
    PROVE  /\ TextsInOrder' /\ returned' = returned /\ ~returned
           /\ Len(texts) < Len(texts') /\ Len(texts') <= Length
<1>1. /\ UNCHANGED <<mode, needs>> /\ DOMAIN tasks' = DOMAIN tasks /\ Len(tasks') = Len(tasks)
      /\ \A u \in DOMAIN tasks : tasks'[u].batch = tasks[u].batch
      /\ \A u \in DOMAIN tasks : u # t => tasks'[u] = tasks[u]
  BY Moved
<1>2. /\ texts' = texts \o tasks[t].done /\ returned' = returned /\ ~returned
      /\ tasks[t].at = "done" /\ \A u \in 1..t - 1 : tasks[u].at = "taken"
      /\ tasks' = [tasks EXCEPT ![t].at = "taken"]
  BY DEF Collect
<1>3. /\ tasks[t] \in TaskType /\ TaskRight(tasks[t], needs, mode)
      /\ tasks[t].batch \in Seq(Chunks) /\ tasks[t].done \in Seq(OutcomeType)
      /\ Len(tasks[t].batch) \in Nat \ {0} /\ Len(tasks[t].done) = Len(tasks[t].batch)
      /\ mode # "heuristic"
  BY <1>2, TaskIs DEF TaskRight
<1>4. tasks'[t].at = "taken"
  BY <1>2, <1>3 DEF TaskType
<1>5. Len(tasks) \in Nat /\ DOMAIN tasks = 1..Len(tasks)
  BY DEF TasksRight
<1>6. PICK n \in 0..Len(tasks) : Taken(n)
  BY <1>3 DEF TextsInOrder
<1>7. t = n + 1
  <2>1. ~(t <= n)
    BY <1>2, <1>6 DEF Taken
  <2>2. ASSUME n + 1 < t PROVE FALSE
    <3>1. n + 1 \in 1..t - 1 /\ n + 1 \in DOMAIN tasks
      BY <1>5, <2>2
    <3>2. n + 1 <= n
      BY <1>2, <1>6, <3>1 DEF Taken
    <3> QED BY <1>5, <3>2
  <2> QED BY <1>5, <2>1, <2>2
<1>8. texts \in Seq(OutcomeType) /\ Len(texts) \in Nat /\ Len(texts) + 1 = tasks[t].batch[1]
  <2>1. texts \in Seq(OutcomeType) /\ Len(texts) \in Nat
    BY DEF TextsInOrder
  <2>2. CASE n = 0
    <3>1. Len(texts) = 0
      BY <1>6, <2>2 DEF Taken
    <3> QED BY <1>7, <2>1, <2>2, <3>1, Ends
  <2>3. CASE n # 0
    <3>1. Len(texts) = EndOf(n) /\ t - 1 = n /\ t # 1
      BY <1>5, <1>6, <1>7, <2>3 DEF Taken, EndOf
    <3> QED BY <2>1, <3>1, Ends
  <2> QED BY <2>2, <2>3
<1>9. Len(texts') = EndOf(t) /\ texts' \in Seq(OutcomeType)
  <2>1. Len(texts') = Len(texts) + Len(tasks[t].batch) /\ texts' \in Seq(OutcomeType)
    <3> DEFINE done == tasks[t].done
    <3>1. done \in Seq(OutcomeType) /\ texts' = texts \o done /\ Len(done) = Len(tasks[t].batch)
      BY <1>2, <1>3
    <3> HIDE DEF done
    <3>2. /\ texts \o done \in Seq(OutcomeType)
          /\ Len(texts \o done) = Len(texts) + Len(done)
      BY <1>8, <3>1, ConcatProperties
    <3> QED BY <3>1, <3>2
  <2> QED BY <1>3, <1>8, <2>1 DEF EndOf
<1>10. ASSUME NEW i \in DOMAIN texts' PROVE texts'[i].chunk = i /\ Told(texts'[i], needs, mode)
  <2>1. i \in 1..Len(texts) + Len(tasks[t].batch)
    BY <1>2, <1>3, <1>8
  <2>2. CASE i <= Len(texts)
    <3>1. i \in 1..Len(texts) /\ texts'[i] = texts[i] /\ i \in DOMAIN texts
      BY <1>2, <1>3, <1>8, <2>1, <2>2
    <3> QED BY <3>1 DEF TextsInOrder
  <2>3. CASE ~(i <= Len(texts))
    <3> DEFINE j == i - Len(texts)
    <3>1. j \in 1..Len(tasks[t].batch) /\ j \in DOMAIN tasks[t].batch /\ j \in DOMAIN tasks[t].done
      <4>1. /\ Len(texts) \in Int /\ Len(tasks[t].batch) \in Int
            /\ DOMAIN tasks[t].batch = 1..Len(tasks[t].batch)
            /\ DOMAIN tasks[t].done = 1..Len(tasks[t].batch)
        BY ONLY <1>3, <1>8
      <4> QED BY ONLY <2>1, <2>3, <4>1
    <3>2. texts'[i] = tasks[t].done[j]
      BY <1>2, <1>3, <1>8, <2>1, <2>3
    <3>3. tasks[t].done[j].chunk = tasks[t].batch[j] /\ Told(tasks[t].done[j], needs, mode)
      <4> HIDE DEF j
      <4> QED BY <1>3, <3>1 DEF TaskRight
    <3>4. tasks[t].batch[j] = tasks[t].batch[1] + j - 1
      <4> HIDE DEF j
      <4> QED BY <3>1, Ends
    <3>5. tasks[t].batch[j] = i
      BY <1>8, <2>1, <3>4
    <3> QED BY <3>2, <3>3, <3>5
  <2> QED BY <2>2, <2>3
<1>11. Taken(t)'
  <2>1. \A u \in DOMAIN tasks' : tasks'[u].at = "taken" <=> u <= t
    <3> SUFFICES ASSUME NEW u \in DOMAIN tasks PROVE tasks'[u].at = "taken" <=> u <= t
      BY <1>1
    <3>1. CASE u = t
      BY <1>4, <1>5, <3>1
    <3>2. CASE u # t
      <4>1. tasks'[u] = tasks[u] /\ (tasks[u].at = "taken" <=> u <= n)
        BY <1>1, <1>6, <3>2 DEF Taken
      <4>2. u <= n <=> u <= t
        BY <1>5, <1>7, <3>2
      <4> QED BY <4>1, <4>2
    <3> QED BY <3>1, <3>2
  <2>2. t # 0 /\ tasks'[t].batch = tasks[t].batch
    BY <1>1, <1>5
  <2>3. Len(texts') = IF t = 0 THEN 0 ELSE tasks'[t].batch[1] + Len(tasks'[t].batch) - 1
    BY <1>9, <2>2 DEF EndOf
  <2> QED BY <2>1, <2>3 DEF Taken
<1>12. t \in 0..Len(tasks')
  BY <1>1, <1>5
<1>13. TextsInOrder'
  BY <1>1, <1>2, <1>3, <1>9, <1>10, <1>11, <1>12 DEF TextsInOrder
<1>14. Len(texts) < Len(texts') /\ Len(texts') <= Length
  <2>1. EndOf(t) \in Chunks
    BY Ends
  <2>2. Len(texts') = tasks[t].batch[1] + Len(tasks[t].batch) - 1
    BY <1>9 DEF EndOf
  <2> QED BY <1>3, <1>8, <1>9, <2>1, <2>2, ChunkFacts
<1> QED BY <1>2, <1>13, <1>14

\* Without a model.
LEMMA HeuristicKeeps ==
    ASSUME TasksRight, TextsInOrder, EnrichHeuristically
    PROVE  TextsInOrder' /\ Len(texts) = 0 /\ Len(texts') = Length /\ ~returned
<1>1. /\ texts = <<>> /\ texts' = [c \in Chunks |-> HeuristicIfNeeded(c)] /\ mode = "heuristic"
      /\ UNCHANGED <<mode, needs, tasks, returned>> /\ ~returned
  BY DEF EnrichHeuristically
<1>2. \A c \in Chunks : /\ texts'[c] \in OutcomeType /\ texts'[c].chunk = c
                        /\ Told(texts'[c], needs, mode)
  <2> SUFFICES ASSUME NEW c \in Chunks
               PROVE  /\ texts'[c] \in OutcomeType /\ texts'[c].chunk = c
                      /\ Told(texts'[c], needs, mode)
    OBVIOUS
  <2>1. texts'[c] = HeuristicIfNeeded(c)
    BY <1>1
  <2> QED BY <1>1, <2>1, HeuristicRight
<1>3. texts' \in Seq(OutcomeType) /\ Len(texts') = Length /\ DOMAIN texts' = Chunks
  <2>1. DOMAIN texts' = 1..Length /\ texts' = [c \in 1..Length |-> texts'[c]]
    BY <1>1, ChunkFacts
  <2>2. texts' \in [1..Length -> OutcomeType]
    BY <1>2, <2>1, ChunkFacts
  <2>3. texts' \in Seq(OutcomeType)
    BY <2>2, ChunkFacts, SeqDef
  <2> QED BY <2>1, <2>3, ChunkFacts
<1>4. TextsInOrder'
  BY <1>1, <1>2, <1>3 DEF TextsInOrder
<1> QED BY <1>1, <1>3, <1>4

LEMMA ReturnKeeps ==
    ASSUME TasksRight, TextsInOrder, Return
    PROVE  TextsInOrder' /\ Len(texts) = Length /\ UNCHANGED texts /\ ~returned /\ returned'
<1>1. /\ UNCHANGED <<mode, needs, tasks, texts>> /\ ~returned /\ returned' = TRUE
      /\ \A t \in DOMAIN tasks : tasks[t].at = "taken"
      /\ mode = "heuristic" => texts # <<>>
  BY DEF Return
<1>2. Len(texts) = Length
  <2>1. CASE mode = "heuristic"
    <3>1. texts \in Seq(OutcomeType) /\ Len(texts) \in {0, Length}
      BY <2>1 DEF TextsInOrder
    <3> QED BY <1>1, <2>1, <3>1
  <2>2. CASE mode # "heuristic"
    <3>1. PICK n \in 0..Len(tasks) : Taken(n)
      BY <2>2 DEF TextsInOrder
    <3>2. Len(tasks) \in Nat \ {0} /\ DOMAIN tasks = 1..Len(tasks)
      <4>1. tasks \in Seq(TaskType) /\ BatchesOf \in Seq(Seq(Chunks)) /\ BatchesOf # <<>>
        BY <2>2 DEF TasksRight, Runs
      <4>2. DOMAIN BatchesOf = DOMAIN tasks
        BY DEF BatchesOf
      <4>3. Len(BatchesOf) = Len(tasks)
        BY <4>1, <4>2
      <4> QED BY <4>1, <4>3
    <3>3. n = Len(tasks)
      <4>1. Len(tasks) \in DOMAIN tasks
        BY <3>2
      <4>2. Len(tasks) <= n
        BY <1>1, <3>1, <4>1 DEF Taken
      <4> DEFINE m == Len(tasks)
      <4>3. m \in Nat /\ n \in 0..m /\ m <= n
        BY <3>2, <4>2
      <4> HIDE DEF m
      <4>4. n = m
        BY <4>3
      <4> QED BY <4>4 DEF m
    <3>4. Len(texts) = EndOf(n) /\ n \in DOMAIN tasks
      BY <3>1, <3>2, <3>3 DEF Taken, EndOf
    <3> QED BY <3>3, <3>4, Ends
  <2> QED BY <2>1, <2>2
<1>3. TextsInOrder'
  BY <1>1, <1>2 DEF TextsInOrder, Taken
<1> QED BY <1>1, <1>2, <1>3

LEMMA NextIInv == IInv /\ [Next]_vars => IInv'
<1> SUFFICES ASSUME TasksRight, AskedRight, TextsInOrder, [Next]_vars PROVE IInv'
  BY DEF IInv
<1>1. ASSUME NEW t \in DOMAIN tasks, Take(t) \/ Work(t) \/ Collect(t) PROVE IInv'
  <2>1. TasksRight'
    BY <1>1, Moved
  <2>2. AskedRight'
    BY <1>1, NextAskedRight
  <2>3. TextsInOrder'
    BY <1>1, PoolKeepsTexts, CollectKeeps
  <2> QED BY <2>1, <2>2, <2>3 DEF IInv
<1>2. ASSUME UNCHANGED <<mode, needs, tasks, asked>>, TextsInOrder' PROVE IInv'
  <2>1. TasksRight'
    BY <1>2 DEF TasksRight, BatchesOf
  <2>2. AskedRight'
    BY <1>2 DEF AskedRight
  <2> QED BY <1>2, <2>1, <2>2 DEF IInv
<1>3. CASE EnrichHeuristically
  <2>1. UNCHANGED <<mode, needs, tasks, asked>>
    BY <1>3 DEF EnrichHeuristically
  <2> QED BY <1>2, <1>3, <2>1, HeuristicKeeps
<1>4. CASE Return
  <2>1. UNCHANGED <<mode, needs, tasks, asked>>
    BY <1>4 DEF Return
  <2> QED BY <1>2, <1>4, <2>1, ReturnKeeps
<1>5. CASE UNCHANGED vars
  <2>1. UNCHANGED <<mode, needs, tasks, asked, texts, returned>>
    BY <1>5 DEF vars
  <2>2. TextsInOrder'
    BY <2>1 DEF TextsInOrder, Taken
  <2> QED BY <1>2, <2>1, <2>2
<1> QED BY <1>1, <1>3, <1>4, <1>5 DEF Next

LEMMA IInvHolds == Spec => []IInv
BY InitIInv, NextIInv, PTL DEF Spec

-----------------------------------------------------------------------------
(* What a caller of enrich can rely on *)

LEMMA IInvTypeOK == IInv => TypeOK
<1> SUFFICES ASSUME TasksRight, AskedRight, TextsInOrder PROVE TypeOK
  BY DEF IInv
<1>1. ASSUME NEW t \in DOMAIN tasks
      PROVE  /\ tasks[t].batch \in Seq(Chunks) /\ tasks[t].batch # <<>>
             /\ tasks[t].at \in {"queued", "batch", "alone", "done", "taken"}
             /\ tasks[t].done \in Seq(OutcomeType)
             /\ tasks[t].at \in {"queued", "batch"} => tasks[t].done = <<>>
             /\ tasks[t].at = "alone" => Len(tasks[t].done) < Len(tasks[t].batch)
             /\ tasks[t].at \in {"done", "taken"} => Len(tasks[t].done) = Len(tasks[t].batch)
  BY TaskIs DEF TaskRight, States
<1> QED BY <1>1 DEF TypeOK, TasksRight, AskedRight, TextsInOrder

\* The types of the state, and how far each task is.
THEOREM TypeCorrect == Spec => []TypeOK
BY IInvHolds, IInvTypeOK, PTL

\* Whatever the model answers and whichever requests fail: a chunk is shown
\* with a text about itself, never with one that was declared stale, and a
\* chunk no answer stands behind says so.
THEOREM TextsAreRight == Spec => []TextsRight
<1>1. IInv => TextsRight
  <2> SUFFICES ASSUME TextsInOrder PROVE TextsRight
    BY DEF IInv
  <2>1. \A i \in DOMAIN texts : Told(texts[i], needs, mode)
    BY DEF TextsInOrder
  <2> QED BY <2>1 DEF TextsRight, TextOfOwnChunk, NoStaleText, FailureShows, Told
<1> QED BY <1>1, IInvHolds, PTL

\* However requests fail and are repeated, a chunk is named in at most two of
\* them (one, without batches), and a batch of several is within the budget.
THEOREM RequestsAreBounded == Spec => []RequestsBounded
<1>1. IInv => RequestsBounded
  <2> SUFFICES ASSUME TasksRight, AskedRight, TypeOK PROVE RequestsBounded
    BY IInvTypeOK DEF IInv
  <2>1. ASSUME NEW t \in DOMAIN tasks PROVE WithinBudget(tasks[t].batch)
    <3>1. Runs(BatchesOf, Length) /\ t \in DOMAIN BatchesOf /\ BatchesOf[t] = tasks[t].batch
      BY TaskIs DEF TasksRight, BatchesOf
    <3>2. WithinBudget(BatchesOf[t])
      BY <3>1 DEF Runs
    <3> QED BY <3>1, <3>2
  <2>2. \A c \in Chunks : asked[c] <= (IF mode = "batches" THEN 2 ELSE 1)
    BY DEF AskedRight, MostRequests
  <2> QED BY <2>1, <2>2 DEF RequestsBounded
<1> QED BY <1>1, IInvHolds, PTL

LEMMA FrontierIs == IInv => Frontier = Len(texts)
BY DEF IInv, TextsInOrder, Frontier

\* enrich implements EvidenceFlow: whichever thread is first, the caller gets
\* the chunks once each and in their order, and returns with all of them.
THEOREM ReturnsAllInOrder == Spec => ReturnsInOrder
<1>1. Init => Flow!Init
  BY DEF Init, Flow!Init, Frontier
<1>2. IInv /\ IInv' /\ [Next]_vars => [Flow!Next]_(Flow!vars)
  <2> SUFFICES ASSUME IInv, IInv', [Next]_vars PROVE [Flow!Next]_(Flow!vars)
    OBVIOUS
  <2>1. Frontier = Len(texts) /\ Frontier' = Len(texts')
    <3>1. Frontier = Len(texts)
      BY FrontierIs
    <3>2. (Frontier = Len(texts))'
      BY FrontierIs, PTL
    <3> QED BY <3>1, <3>2
  <2>2. TasksRight /\ TextsInOrder /\ Len(texts) \in Nat /\ Len(texts') \in Nat
    BY DEF IInv, TextsInOrder
  <2>3. ASSUME ~returned, returned' = returned, Len(texts) < Len(texts'), Len(texts') <= Length
        PROVE  Flow!Next
    <3>1. Frontier' \in 1..Length /\ Frontier' \in Frontier + 1..Length
      BY <2>1, <2>2, <2>3, ChunkFacts
    <3>2. Flow!HandOn(Frontier')
      BY <2>3, <3>1 DEF Flow!HandOn
    <3> QED BY <3>1, <3>2 DEF Flow!Next
  <2>4. ASSUME NEW t \in DOMAIN tasks, Collect(t) PROVE Flow!Next
    BY <2>2, <2>3, <2>4, CollectKeeps
  <2>5. CASE EnrichHeuristically
    <3>1. returned' = returned /\ Len(texts) < Len(texts') /\ Len(texts') <= Length /\ ~returned
      BY <2>2, <2>5, HeuristicKeeps, ChunkFacts DEF EnrichHeuristically
    <3> QED BY <2>3, <3>1
  <2>6. CASE Return
    <3>1. Frontier = Length /\ Frontier' = Frontier /\ ~returned /\ returned'= TRUE
      BY <2>1, <2>2, <2>6, ReturnKeeps DEF Return
    <3>2. Flow!Close
      BY <3>1 DEF Flow!Close
    <3> QED BY <3>2 DEF Flow!Next
  <2>7. ASSUME NEW t \in DOMAIN tasks, Take(t) \/ Work(t) PROVE UNCHANGED Flow!vars
    BY <2>1, <2>2, <2>7, PoolKeepsTexts DEF Flow!vars
  <2>8. CASE UNCHANGED vars
    BY <2>1, <2>8 DEF vars, Flow!vars
  <2> QED BY <2>4, <2>5, <2>6, <2>7, <2>8 DEF Next
<1>3. Spec => Flow!Init /\ [][Flow!Next]_(Flow!vars)
  BY <1>1, <1>2, IInvHolds, PTL DEF Spec
<1> QED BY <1>3 DEF ReturnsInOrder, Flow!Spec

=============================================================================
