----------------------- MODULE WindowPlanning_proofs -----------------------
(***************************************************************************)
(* Proofs about WindowPlanning, for every number of windows, every way the *)
(* units are spread over them, every size limit and every pool size.       *)
(***************************************************************************)
EXTENDS WindowPlanning, SequenceTheorems, FiniteSetTheorems, Induction, TLAPS

-----------------------------------------------------------------------------
(* Views and windows follow each other without a gap. *)

\* There is a view and there is a window: chunk() returns early without units.
LEMMA Counts == ViewCount \in Nat /\ ViewCount >= 1 /\ WindowCount \in Nat /\ WindowCount >= 1
BY ViewAssumption, WindowAssumption

\* A view shows a nonempty run of evidence and the next view starts right
\* after it: the slicing of units and rows in PlanInputBudget.windows.
LEMMA ViewsAdjoin ==
    /\ \A v \in Views : /\ ViewFirst(v) \in Nat \ {0}
                        /\ ViewLast[v] \in Nat \ {0}
                        /\ ViewFirst(v) <= ViewLast[v]
    /\ \A v \in 1..ViewCount - 1 : ViewFirst(v + 1) = ViewLast[v] + 1
    /\ ViewFirst(1) = 1
BY ViewAssumption DEF ViewFirst, Views

\* The same for windows: _windows and PlanInputBudget.windows cut the units
\* into slices that follow each other.
LEMMA WindowsAdjoin ==
    /\ \A w \in Windows : /\ FirstView(w) \in Views
                          /\ WindowLast[w] \in Views
                          /\ FirstView(w) <= WindowLast[w]
                          /\ EvidenceFirst(w) \in Nat \ {0}
                          /\ EvidenceLast(w) \in Nat \ {0}
    /\ \A w \in 1..WindowCount - 1 : EvidenceFirst(w + 1) = EvidenceLast(w) + 1
    /\ EvidenceFirst(1) = 1
<1>1. ASSUME NEW w \in Windows
      PROVE  /\ FirstView(w) \in Views /\ WindowLast[w] \in Views
             /\ FirstView(w) <= WindowLast[w]
  <2>1. CASE w = 1
    BY <2>1, WindowAssumption, ViewAssumption DEF FirstView, Windows, Views
  <2>2. CASE w # 1
    <3>1. w - 1 \in 1..WindowCount - 1 /\ w - 1 \in Windows
      BY <2>2, WindowAssumption DEF Windows
    <3>2. WindowLast[w - 1] < WindowLast[w]
      BY <3>1, WindowAssumption DEF Windows
    <3>3. WindowLast[w] \in Views /\ WindowLast[w - 1] \in Views
      BY <3>1, WindowAssumption DEF Windows
    <3>4. FirstView(w) = WindowLast[w - 1] + 1
      BY <2>2 DEF FirstView
    <3> QED BY <3>2, <3>3, <3>4, Counts DEF Views
  <2> QED BY <2>1, <2>2
<1>2. ASSUME NEW w \in 1..WindowCount - 1
      PROVE  EvidenceFirst(w + 1) = EvidenceLast(w) + 1
  <2>1. w \in Windows /\ w + 1 \in Windows /\ w + 1 # 1
    BY WindowAssumption DEF Windows
  <2>2. FirstView(w + 1) = WindowLast[w] + 1
    BY <2>1 DEF FirstView, Windows
  <2>3. WindowLast[w] \in 1..ViewCount - 1
    BY <1>1, <2>1, <2>2, Counts DEF Views
  <2> QED BY <2>2, <2>3, ViewsAdjoin DEF EvidenceFirst, EvidenceLast
<1>3. EvidenceFirst(1) = 1
  BY ViewsAdjoin DEF EvidenceFirst, FirstView
<1> QED BY <1>1, <1>2, <1>3, ViewsAdjoin DEF EvidenceFirst, EvidenceLast

-----------------------------------------------------------------------------
(* Tilings *)

\* A run of evidence is contiguous.
LEMMA RunContiguous ==
    ASSUME NEW a \in Int, NEW b \in Int, a <= b
    PROVE  /\ Run(a, b) \in Seq(Int)
           /\ Len(Run(a, b)) = b - a + 1
           /\ Run(a, b)[1] = a
           /\ Last(Run(a, b)) = b
           /\ \A j \in 1..Len(Run(a, b)) - 1 : Run(a, b)[j + 1] = Run(a, b)[j] + 1
<1>1. b - a + 1 \in Nat /\ b - a + 1 >= 1
  OBVIOUS
<1>2. Run(a, b) \in Seq(Int) /\ Len(Run(a, b)) = b - a + 1
  BY <1>1 DEF Run
<1>3. \A j \in 1..b - a + 1 : Run(a, b)[j] = a + j - 1
  BY DEF Run
<1> QED BY <1>1, <1>2, <1>3 DEF Last

\* A chunk made for evidence a..b holds just that.
LEMMA UnplannedHolds ==
    ASSUME NEW a \in Int, NEW b \in Int, a <= b, NEW warned \in SUBSET WarningType
    PROVE  /\ UnplannedChunk(a, b, warned) \in Chunk
           /\ Contiguous(UnplannedChunk(a, b, warned))
           /\ UnplannedChunk(a, b, warned).evidence[1] = a
           /\ Last(UnplannedChunk(a, b, warned).evidence) = b
<1> DEFINE c == UnplannedChunk(a, b, warned)
<1>1. c.evidence = Run(a, b)
  BY DEF UnplannedChunk
<1>2. c \in Chunk
  BY RunContiguous DEF UnplannedChunk, Chunk
<1>3. Len(Run(a, b)) > 0
  BY RunContiguous
<1> HIDE DEF c
<1> QED BY <1>1, <1>2, <1>3, RunContiguous DEF Contiguous, c

\* What ChunkPlanMaterializer.fallback returns covers the window.
LEMMA FallbackTiles ==
    ASSUME NEW w \in Windows, NEW warned \in SUBSET WarningType
    PROVE  /\ FallbackPlan(w, warned) \in Seq(Chunk)
           /\ Tiles(FallbackPlan(w, warned), EvidenceFirst(w), EvidenceLast(w))
<1> DEFINE n == WindowLast[w] - FirstView(w) + 1
           cs == FallbackPlan(w, warned)
           view(i) == FirstView(w) + i - 1
<1>1. /\ FirstView(w) \in 1..ViewCount /\ WindowLast[w] \in 1..ViewCount
      /\ ViewCount \in Nat /\ n \in Nat /\ n >= 1
  <2>1. /\ FirstView(w) \in Views /\ WindowLast[w] \in Views
        /\ FirstView(w) <= WindowLast[w]
    BY WindowsAdjoin
  <2> QED BY <2>1, Counts DEF Views
<1>2. \A i \in 1..n : view(i) \in Views /\ view(i) \in Int
  BY <1>1 DEF Views
<1>3. cs = [i \in 1..n |-> UnplannedChunk(ViewFirst(view(i)), ViewLast[view(i)], warned)]
  BY DEF FallbackPlan
<1>4. ASSUME NEW i \in 1..n
      PROVE  /\ cs[i] \in Chunk
             /\ Contiguous(cs[i])
             /\ cs[i].evidence[1] = ViewFirst(view(i))
             /\ Last(cs[i].evidence) = ViewLast[view(i)]
  <2>1. /\ ViewFirst(view(i)) \in Int /\ ViewLast[view(i)] \in Int
        /\ ViewFirst(view(i)) <= ViewLast[view(i)]
    BY <1>2, ViewsAdjoin
  <2>2. cs[i] = UnplannedChunk(ViewFirst(view(i)), ViewLast[view(i)], warned)
    BY <1>3
  <2> HIDE DEF cs, view
  <2> QED BY <2>1, <2>2, UnplannedHolds
<1> HIDE DEF cs
<1>5. cs \in Seq(Chunk) /\ Len(cs) = n
  <2>1. cs \in [1..n -> Chunk]
    BY <1>3, <1>4
  <2> QED BY <1>1, <2>1
<1>6. ASSUME NEW i \in 1..n - 1
      PROVE  cs[i + 1].evidence[1] = Last(cs[i].evidence) + 1
  <2>1. i \in 1..n /\ i + 1 \in 1..n /\ view(i + 1) = view(i) + 1
    BY <1>1
  <2>2. view(i) \in 1..ViewCount - 1
    BY <1>1, <1>2, <2>1 DEF Views
  <2>3. ViewFirst(view(i) + 1) = ViewLast[view(i)] + 1
    BY <2>2, ViewsAdjoin
  <2> HIDE DEF view
  <2> QED BY <1>4, <2>1, <2>3
<1>7. cs[1].evidence[1] = EvidenceFirst(w) /\ Last(Last(cs).evidence) = EvidenceLast(w)
  <2>1. view(1) = FirstView(w) /\ view(n) = WindowLast[w] /\ 1 \in 1..n /\ n \in 1..n
    BY <1>1
  <2>2. Last(cs) = cs[n]
    BY <1>5 DEF Last
  <2> HIDE DEF view, n
  <2> QED BY <1>4, <2>1, <2>2 DEF EvidenceFirst, EvidenceLast
<1>8. Tiles(cs, EvidenceFirst(w), EvidenceLast(w))
  <2>1. Len(cs) > 0
    BY <1>1, <1>5
  <2>2. \A i \in 1..Len(cs) : Contiguous(cs[i])
    BY <1>4, <1>5
  <2>3. \A i \in 1..Len(cs) - 1 : cs[i + 1].evidence[1] = Last(cs[i].evidence) + 1
    BY <1>5, <1>6
  <2> HIDE DEF view, n
  <2> QED BY ONLY <1>7, <2>1, <2>2, <2>3 DEF Tiles
<1> QED BY <1>5, <1>8 DEF cs

\* What materialize returns covers the window: _validate_primary_coverage.
LEMMA AcceptedTiles ==
    ASSUME NEW w \in Windows, NEW cs \in AcceptedPlans(w)
    PROVE  cs \in Seq(Chunk) /\ Tiles(cs, EvidenceFirst(w), EvidenceLast(w))
<1> DEFINE InOneView(a, b) == \E v \in FirstView(w)..WindowLast[w] :
                                   ViewFirst(v) <= a /\ b <= ViewLast[v]
           Runs == {r \in WindowEvidence(w) \X WindowEvidence(w) : r[1] <= r[2]}
           Candidates == {PlannedChunk(r[1], r[2]) : r \in Runs}
               \cup {UnplannedChunk(r[1], r[2], {}) : r \in {s \in Runs : InOneView(s[1], s[2])}}
<1>1. ASSUME NEW r \in Runs
      PROVE  PlannedChunk(r[1], r[2]) \in Chunk /\ UnplannedChunk(r[1], r[2], {}) \in Chunk
  <2>1. r[1] \in Int /\ r[2] \in Int /\ r[1] <= r[2]
    BY WindowsAdjoin DEF WindowEvidence
  <2>2. Run(r[1], r[2]) \in Seq(Int)
    BY <2>1, RunContiguous
  <2>3. ExceedsMaxUnits({UnitAt(k) : k \in r[1]..r[2]}) \in SUBSET WarningType
    BY DEF ExceedsMaxUnits, WarningType
  <2> QED BY <2>2, <2>3 DEF PlannedChunk, UnplannedChunk, Chunk
<1>2. Candidates \subseteq Chunk
  BY <1>1
<1> HIDE DEF Candidates
<1>3. PICK n \in 1..Cardinality(WindowEvidence(w)) : cs \in [1..n -> Candidates]
  BY DEF AcceptedPlans, Candidates
<1>4. n \in Nat
  BY <1>3
<1>5. cs \in Seq(Candidates)
  BY <1>3, <1>4
<1>6. cs \in Seq(Chunk)
  BY <1>2, <1>5
<1> QED BY <1>6 DEF AcceptedPlans
-----------------------------------------------------------------------------
(* Joining tilings *)

\* Chunk lists that cover adjoining evidence, one after the other.
LEMMA TilesConcat ==
    ASSUME NEW p \in Seq(Chunk), NEW q \in Seq(Chunk),
           NEW a \in Int, NEW b \in Int, NEW c \in Int,
           Tiles(p, a, b), Tiles(q, b + 1, c)
    PROVE  p \o q \in Seq(Chunk) /\ Tiles(p \o q, a, c)
<1> DEFINE s == p \o q
<1>1. /\ s \in Seq(Chunk) /\ Len(s) = Len(p) + Len(q)
      /\ \A i \in 1..Len(p) : s[i] = p[i]
      /\ \A i \in 1..Len(q) : s[Len(p) + i] = q[i]
  OBVIOUS
<1>2. Len(p) \in Nat /\ Len(q) \in Nat /\ Len(p) > 0 /\ Len(q) > 0
  BY DEF Tiles
<1>3. \A i \in Len(p) + 1..Len(s) : s[i] = q[i - Len(p)] /\ i - Len(p) \in 1..Len(q)
  BY <1>1, <1>2
<1> HIDE DEF s
<1>4. \A i \in 1..Len(s) : Contiguous(s[i])
  <2> SUFFICES ASSUME NEW i \in 1..Len(s) PROVE Contiguous(s[i])
    OBVIOUS
  <2>1. CASE i \in 1..Len(p)
    BY <1>1, <2>1 DEF Tiles
  <2>2. CASE i \in Len(p) + 1..Len(s)
    BY <1>3, <2>2 DEF Tiles
  <2> QED BY <1>1, <1>2, <2>1, <2>2
<1>5. \A i \in 1..Len(s) - 1 : s[i + 1].evidence[1] = Last(s[i].evidence) + 1
  <2> SUFFICES ASSUME NEW i \in 1..Len(s) - 1
               PROVE  s[i + 1].evidence[1] = Last(s[i].evidence) + 1
    OBVIOUS
  <2>1. CASE i \in 1..Len(p) - 1
    <3>1. i \in 1..Len(p) /\ i + 1 \in 1..Len(p)
      BY <1>2, <2>1
    <3> QED BY <1>1, <2>1, <3>1 DEF Tiles
  <2>2. CASE i = Len(p)
    <3>1. s[i] = Last(p) /\ s[i + 1] = q[1]
      BY <1>1, <1>2, <2>2 DEF Last
    <3> QED BY <3>1 DEF Tiles
  <2>3. CASE i \in Len(p) + 1..Len(s) - 1
    <3>1. /\ s[i] = q[i - Len(p)] /\ s[i + 1] = q[i - Len(p) + 1]
          /\ i - Len(p) \in 1..Len(q) - 1
      BY <1>1, <1>2, <1>3, <2>3
    <3> QED BY <3>1 DEF Tiles
  <2> QED BY <1>1, <1>2, <2>1, <2>2, <2>3
<1>6. s[1] = p[1] /\ Last(s) = Last(q)
  BY <1>1, <1>2, <1>3 DEF Last
<1>7. Len(s) > 0
  BY <1>1, <1>2
<1>8. Tiles(s, a, c)
  BY <1>4, <1>5, <1>6, <1>7, SMTT(30) DEF Tiles
<1> QED BY <1>1, <1>8 DEF s

\* The list with its last chunk replaced.
LEMMA ReplaceLast ==
    ASSUME NEW p \in Seq(Chunk), Len(p) > 0, NEW d \in Chunk
    PROVE  /\ [p EXCEPT ![Len(p)] = d] \in Seq(Chunk)
           /\ Len([p EXCEPT ![Len(p)] = d]) = Len(p)
           /\ [p EXCEPT ![Len(p)] = d][Len(p)] = d
           /\ \A i \in 1..Len(p) - 1 : [p EXCEPT ![Len(p)] = d][i] = p[i]
<1> DEFINE s == [p EXCEPT ![Len(p)] = d]
<1>0. p \in [1..Len(p) -> Chunk]
  OBVIOUS
<1>1. Len(p) \in Nat
  OBVIOUS
<1>2. s \in [1..Len(p) -> Chunk] /\ s[Len(p)] = d
  BY <1>0, <1>1, SMTT(30)
<1>3. \A i \in 1..Len(p) - 1 : s[i] = p[i]
  <2>1. \A i \in 1..Len(p) - 1 : i \in 1..Len(p) /\ i # Len(p)
    BY <1>1
  <2> QED BY <1>0, <2>1
<1> HIDE DEF s
<1>4. s \in Seq(Chunk) /\ Len(s) = Len(p)
  BY <1>1, <1>2, SMTT(30)
<1> QED BY <1>2, <1>3, <1>4 DEF s

\* A chunk that starts where the last one does may take its place, and goes
\* on to evidence c.
LEMMA TilesNewLast ==
    ASSUME NEW p \in Seq(Chunk), NEW a \in Int, NEW b \in Int, Tiles(p, a, b),
           NEW c \in Int, NEW d \in Chunk, Contiguous(d),
           d.evidence[1] = Last(p).evidence[1], Last(d.evidence) = c
    PROVE  /\ [p EXCEPT ![Len(p)] = d] \in Seq(Chunk)
           /\ Tiles([p EXCEPT ![Len(p)] = d], a, c)
<1> DEFINE s == [p EXCEPT ![Len(p)] = d]
<1>1. /\ s \in Seq(Chunk) /\ Len(s) = Len(p) /\ Len(p) \in Nat
      /\ \A i \in 1..Len(p) - 1 : s[i] = p[i]
      /\ Len(p) > 0 /\ s[Len(p)] = d
  BY ReplaceLast DEF Tiles
<1> HIDE DEF s
<1>2. \A i \in 1..Len(s) : Contiguous(s[i]) /\ s[i].evidence[1] = p[i].evidence[1]
  <2> SUFFICES ASSUME NEW i \in 1..Len(s)
               PROVE  Contiguous(s[i]) /\ s[i].evidence[1] = p[i].evidence[1]
    OBVIOUS
  <2>1. CASE i \in 1..Len(p) - 1
    BY <1>1, <2>1 DEF Tiles
  <2>2. CASE i = Len(p)
    BY <1>1, <2>2 DEF Last
  <2> QED BY <1>1, <2>1, <2>2
<1>3. ASSUME NEW i \in 1..Len(s) - 1
      PROVE  s[i + 1].evidence[1] = Last(s[i].evidence) + 1
  <2>1. s[i + 1].evidence[1] = p[i + 1].evidence[1]
    BY <1>1, <1>2
  <2>2. s[i] = p[i]
    BY <1>1
  <2> QED BY <1>1, <2>1, <2>2 DEF Tiles
<1>4. s[1].evidence[1] = a /\ Last(s) = d
  BY <1>1, <1>2 DEF Tiles, Last
<1>5. Tiles(s, a, c)
  BY <1>1, <1>2, <1>3, <1>4 DEF Tiles
<1> QED BY <1>1, <1>5 DEF s

\* A chunk list that covers a..c without its first chunk covers the rest.
LEMMA TilesTail ==
    ASSUME NEW q \in Seq(Chunk), NEW a \in Int, NEW c \in Int, Tiles(q, a, c), Len(q) > 1
    PROVE  Tail(q) \in Seq(Chunk) /\ Tiles(Tail(q), Last(q[1].evidence) + 1, c)
<1> DEFINE s == Tail(q)
<1>1. /\ s \in Seq(Chunk) /\ Len(s) = Len(q) - 1 /\ Len(q) \in Nat /\ Len(s) \in Nat
      /\ \A i \in 1..Len(s) : s[i] = q[i + 1] /\ i + 1 \in 1..Len(q)
  OBVIOUS
<1> HIDE DEF s
<1>2. \A i \in 1..Len(s) : Contiguous(s[i])
  BY <1>1 DEF Tiles
<1>3. \A i \in 1..Len(s) - 1 : s[i + 1].evidence[1] = Last(s[i].evidence) + 1
  <2> SUFFICES ASSUME NEW i \in 1..Len(s) - 1
               PROVE  s[i + 1].evidence[1] = Last(s[i].evidence) + 1
    OBVIOUS
  <2>1. s[i] = q[i + 1] /\ s[i + 1] = q[i + 1 + 1] /\ i + 1 \in 1..Len(q) - 1
    BY <1>1
  <2> QED BY <2>1 DEF Tiles
<1>4. s[1].evidence[1] = Last(q[1].evidence) + 1
  <2>1. s[1] = q[1 + 1] /\ 1 \in 1..Len(q) - 1
    BY <1>1
  <2> QED BY <2>1 DEF Tiles
<1>5. Last(s) = Last(q)
  BY <1>1 DEF Last
<1>6. Tiles(s, Last(q[1].evidence) + 1, c)
  BY <1>1, <1>2, <1>3, <1>4, <1>5 DEF Tiles
<1> QED BY <1>1, <1>6 DEF s
\* Merging two chunks whose evidence adjoins: _merge_adjacent_chunks.
LEMMA MergedHolds ==
    ASSUME NEW left \in Chunk, NEW right \in Chunk, Contiguous(left), Contiguous(right),
           right.evidence[1] = Last(left.evidence) + 1
    PROVE  /\ Merged(left, right) \in Chunk
           /\ Contiguous(Merged(left, right))
           /\ Merged(left, right).evidence[1] = left.evidence[1]
           /\ Last(Merged(left, right).evidence) = Last(right.evidence)
<1> DEFINE p == left.evidence
           q == right.evidence
           s == p \o q
<1>1. Merged(left, right).evidence = s
  BY DEF Merged
<1>2. p \in Seq(Int) /\ q \in Seq(Int) /\ left.fallback \in BOOLEAN
      /\ right.fallback \in BOOLEAN /\ left.warnings \in SUBSET WarningType
      /\ right.warnings \in SUBSET WarningType
  BY DEF Chunk
<1>3. ExceedsMaxUnits(SourceUnits(left) \cup SourceUnits(right)) \in SUBSET WarningType
  BY DEF ExceedsMaxUnits, WarningType
<1> HIDE DEF p, q
<1>4. /\ s \in Seq(Int) /\ Len(s) = Len(p) + Len(q)
      /\ Len(p) \in Nat /\ Len(q) \in Nat
      /\ \A j \in 1..Len(p) : s[j] = p[j]
      /\ \A j \in Len(p) + 1..Len(s) : s[j] = q[j - Len(p)]
  BY <1>2
<1>5. Len(p) > 0 /\ Len(q) > 0
  BY DEF Contiguous, p, q
<1>6. Merged(left, right) \in Chunk
  <2>1. (left.fallback \/ right.fallback) \in BOOLEAN
    OBVIOUS
  <2>2. left.warnings \cup right.warnings
          \cup ExceedsMaxUnits(SourceUnits(left) \cup SourceUnits(right)) \in SUBSET WarningType
    BY <1>2, <1>3
  <2> QED BY <1>4, <2>1, <2>2 DEF Merged, Chunk, p, q
<1> HIDE DEF s
<1>7. \A j \in 1..Len(s) - 1 : s[j + 1] = s[j] + 1
  <2> SUFFICES ASSUME NEW j \in 1..Len(s) - 1 PROVE s[j + 1] = s[j] + 1
    OBVIOUS
  <2>1. CASE j \in 1..Len(p) - 1
    <3>1. p[j + 1] = p[j] + 1
      BY <2>1 DEF Contiguous, p
    <3>2. j \in 1..Len(p) /\ j + 1 \in 1..Len(p)
      BY <1>4, <2>1
    <3>3. s[j] = p[j] /\ s[j + 1] = p[j + 1]
      BY <1>4, <3>2
    <3> QED BY <3>1, <3>3
  <2>2. CASE j = Len(p)
    <3>1. j \in 1..Len(p) /\ j + 1 \in Len(p) + 1..Len(s) /\ j + 1 - Len(p) = 1
      BY <1>4, <1>5, <2>2
    <3>2. s[j] = p[j] /\ s[j + 1] = q[1]
      BY <1>4, <3>1
    <3> QED BY <2>2, <3>2 DEF Last, p, q
  <2>3. CASE j \in Len(p) + 1..Len(s) - 1
    <3>1. /\ s[j] = q[j - Len(p)] /\ s[j + 1] = q[j - Len(p) + 1]
          /\ j - Len(p) \in 1..Len(q) - 1
      BY <1>4, <1>5, <2>3, SMTT(30)
    <3>2. \A i \in 1..Len(q) - 1 : q[i + 1] = q[i] + 1
      BY DEF Contiguous, q
    <3> QED BY <3>1, <3>2
  <2> QED BY <1>4, <1>5, <2>1, <2>2, <2>3
<1>8. s[1] = p[1] /\ Last(s) = Last(q) /\ Len(s) > 0
  <2>1. /\ 1 \in 1..Len(p) /\ Len(s) \in Len(p) + 1..Len(s) /\ Len(s) > 0
        /\ Len(s) - Len(p) = Len(q)
    BY <1>4, <1>5
  <2>2. s[1] = p[1] /\ s[Len(s)] = q[Len(s) - Len(p)]
    BY <1>4, <2>1
  <2> QED BY <2>1, <2>2 DEF Last
<1> QED BY <1>1, <1>6, <1>7, <1>8 DEF Contiguous, p, q

-----------------------------------------------------------------------------
(* The invariant *)

\* Besides its type, what has to be known of a state: every delivered result
\* covers its window, and joining begins only when all have been delivered.
ResultsCover ==
    \A w \in Windows : stage[w] = "done"
        => Tiles(planned[w], EvidenceFirst(w), EvidenceLast(w))

JoinsAll ==
    phase # "planning" => cursor >= 1 /\ \A w \in Windows : stage[w] = "done"

Inv == TypeOK /\ ResultsCover /\ JoinsAll /\ JoinedTiles

\* The initial state satisfies the invariant.
LEMMA InitInv == Init => Inv
<1> SUFFICES ASSUME Init PROVE Inv
  OBVIOUS
<1>1. <<>> \in Seq(Chunk)
  OBVIOUS
<1>2. TypeOK
  BY <1>1, Counts DEF Init, TypeOK
<1> QED BY <1>2 DEF Init, Inv, ResultsCover, JoinsAll, JoinedTiles

\* A worker delivers a result that covers its window.
LEMMA DeliverInv ==
    ASSUME Inv, NEW w \in Windows, NEW cs \in Seq(Chunk), NEW fb \in BOOLEAN,
           Tiles(cs, EvidenceFirst(w), EvidenceLast(w)), Deliver(w, cs, fb)
    PROVE  Inv'
<1>1. TypeOK'
  BY DEF Inv, TypeOK, Deliver
<1>2. ResultsCover'
  <2> SUFFICES ASSUME NEW v \in Windows, stage'[v] = "done"
               PROVE  Tiles(planned'[v], EvidenceFirst(v), EvidenceLast(v))
    BY DEF ResultsCover
  <2>1. CASE v = w
    BY <2>1 DEF Inv, TypeOK, Deliver
  <2>2. CASE v # w
    BY <2>2 DEF Inv, TypeOK, ResultsCover, Deliver
  <2> QED BY <2>1, <2>2
<1>3. JoinsAll'
  BY DEF Inv, TypeOK, JoinsAll, Deliver
<1>4. JoinedTiles'
  BY DEF Inv, JoinedTiles, Deliver
<1> QED BY <1>1, <1>2, <1>3, <1>4 DEF Inv

\* Joining one more window keeps the invariant when the joined list covers
\* the evidence of that window too.
LEMMA JoinInv ==
    ASSUME Inv, NEW w \in Windows, NEW cs \in Seq(Chunk), Join(w, cs),
           Tiles(cs, 1, EvidenceLast(w))
    PROVE  Inv'
<1>1. TypeOK' /\ w \in 1..WindowCount
  BY Counts DEF Inv, TypeOK, Join, Windows
<1>2. ResultsCover'
  BY DEF Inv, ResultsCover, Join
<1>3. JoinsAll'
  BY <1>1, Counts DEF Inv, JoinsAll, Join
<1>4. JoinedTiles'
  BY DEF JoinedTiles, Join
<1> QED BY <1>1, <1>2, <1>3, <1>4 DEF Inv
\* A warning does not change what the last chunk holds.
LEMMA WarnedHolds ==
    ASSUME NEW cs \in Seq(Chunk), NEW type \in WarningType,
           NEW a \in Int, NEW b \in Int, Tiles(cs, a, b)
    PROVE  Warned(cs, type) \in Seq(Chunk) /\ Tiles(Warned(cs, type), a, b)
<1> DEFINE c == Last(cs)
           d == [evidence |-> c.evidence, fallback |-> c.fallback,
                 warnings |-> c.warnings \cup {type}]
<1>1. Len(cs) > 0 /\ Len(cs) \in 1..Len(cs) /\ cs[Len(cs)] = c
  BY DEF Tiles, Last
<1>2. c \in Chunk
  BY <1>1
<1>3. Contiguous(c) /\ Last(c.evidence) = b
  BY <1>1 DEF Tiles
<1> HIDE DEF c
<1>4. d \in Chunk /\ d.evidence = c.evidence
  BY <1>2 DEF Chunk
<1>5. Warned(cs, type) = [cs EXCEPT ![Len(cs)] = d]
  BY <1>1 DEF Warned
<1> HIDE DEF d
<1>6. Contiguous(d)
  BY <1>3, <1>4 DEF Contiguous
<1>7. d.evidence[1] = Last(cs).evidence[1] /\ Last(d.evidence) = b
  BY <1>3, <1>4 DEF c
<1>8. [cs EXCEPT ![Len(cs)] = d] \in Seq(Chunk) /\ Tiles([cs EXCEPT ![Len(cs)] = d], a, b)
  BY <1>4, <1>6, <1>7, TilesNewLast
<1> QED BY <1>5, <1>8

\* Every way to join a window adds its evidence, and nothing else.
LEMMA JoiningInv ==
    ASSUME Inv, NEW w \in Windows, Joining(w)
    PROVE  Inv'
<1>1. /\ cursor \in 1..WindowCount - 1 /\ w = cursor + 1
      /\ chunks \in Seq(Chunk) /\ planned[w] \in Seq(Chunk)
  BY Counts DEF Inv, TypeOK, JoinsAll, Joining, KeepSeam, LoseAnswer, RefuseMerge,
                MergeSeam, Join, Windows
<1>2. phase = "joining" /\ Tiles(chunks, 1, EvidenceLast(cursor))
  BY DEF Inv, JoinedTiles, Joining, KeepSeam, LoseAnswer, RefuseMerge, MergeSeam, Join
<1>3. Tiles(planned[w], EvidenceLast(cursor) + 1, EvidenceLast(w))
  BY <1>1, <1>2, WindowsAdjoin DEF Inv, JoinsAll, ResultsCover
<1>4. /\ EvidenceLast(cursor) \in Int /\ EvidenceLast(w) \in Int /\ 1 \in Int
      /\ EvidenceLast(cursor) + 1 \in Int
  <2>1. cursor \in Windows
    BY <1>1, Counts DEF Windows
  <2>2. EvidenceLast(cursor) \in Nat /\ EvidenceLast(w) \in Nat
    BY <2>1, WindowsAdjoin
  <2> QED BY <2>2
<1>5. CASE KeepSeam(w)
  BY <1>1, <1>2, <1>3, <1>4, <1>5, TilesConcat, JoinInv DEF KeepSeam
<1>6. CASE LoseAnswer(w) \/ RefuseMerge(w)
  <2>1. PICK type \in WarningType : Join(w, Warned(chunks, type) \o planned[w])
    BY <1>6 DEF LoseAnswer, RefuseMerge, WarningType
  <2>2. /\ Warned(chunks, type) \in Seq(Chunk)
        /\ Tiles(Warned(chunks, type), 1, EvidenceLast(cursor))
    BY <1>1, <1>2, <1>4, WarnedHolds
  <2>3. /\ Warned(chunks, type) \o planned[w] \in Seq(Chunk)
        /\ Tiles(Warned(chunks, type) \o planned[w], 1, EvidenceLast(w))
    BY <1>1, <1>3, <1>4, <2>2, TilesConcat
  <2> QED BY <2>1, <2>3, JoinInv
<1>7. CASE MergeSeam(w)
  <2> DEFINE left == Last(chunks)
             right == planned[w][1]
             k == Last(right.evidence)
             merged == [chunks EXCEPT ![Len(chunks)] = Merged(left, right)]
  <2>1. Join(w, merged \o Tail(planned[w]))
    BY <1>7 DEF MergeSeam, Last
  <2>2. /\ left \in Chunk /\ right \in Chunk /\ Contiguous(left) /\ Contiguous(right)
        /\ right.evidence[1] = Last(left.evidence) + 1
    <3>1. Len(chunks) \in 1..Len(chunks) /\ 1 \in 1..Len(planned[w])
      BY <1>1, <1>2, <1>3 DEF Tiles
    <3> QED BY <1>1, <1>2, <1>3, <3>1 DEF Tiles, Last
  <2> HIDE DEF left, right
  <2>3. k \in Int
    <3>1. right.evidence \in Seq(Int) /\ Len(right.evidence) > 0
      BY <2>2 DEF Chunk, Contiguous
    <3> QED BY <3>1 DEF Last
  <2>4. /\ Merged(left, right) \in Chunk
        /\ Contiguous(Merged(left, right))
        /\ Merged(left, right).evidence[1] = Last(chunks).evidence[1]
        /\ Last(Merged(left, right).evidence) = k
    BY <2>2, MergedHolds DEF left
  <2>5. merged \in Seq(Chunk) /\ Tiles(merged, 1, k)
    BY <1>1, <1>2, <1>4, <2>3, <2>4, TilesNewLast
  <2> HIDE DEF merged
  <2>6. CASE Len(planned[w]) = 1
    <3>0. Tail(planned[w]) = <<>>
      <4>1. planned[w] # <<>>
        BY <2>6
      <4>2. Tail(planned[w]) \in Seq(Chunk) /\ Len(Tail(planned[w])) = 0
        BY <1>1, <2>6, <4>1, HeadTailProperties
      <4> QED BY <4>2, EmptySeq
    <3>1. merged \o Tail(planned[w]) = merged
      BY <2>5, <3>0, ConcatEmptySeq
    <3>2. k = EvidenceLast(w)
      BY <1>3, <2>6 DEF Tiles, Last, right
    <3> QED BY <2>1, <2>5, <3>1, <3>2, JoinInv
  <2>7. CASE Len(planned[w]) > 1
    <3>1. Tail(planned[w]) \in Seq(Chunk) /\ Tiles(Tail(planned[w]), k + 1, EvidenceLast(w))
      BY <1>1, <1>3, <1>4, <2>7, TilesTail DEF right
    <3>2. /\ merged \o Tail(planned[w]) \in Seq(Chunk)
          /\ Tiles(merged \o Tail(planned[w]), 1, EvidenceLast(w))
      BY <1>4, <2>3, <2>5, <3>1, TilesConcat
    <3> QED BY <2>1, <3>2, JoinInv
  <2>8. Len(planned[w]) = 1 \/ Len(planned[w]) > 1
    <3>1. Len(planned[w]) \in Nat /\ Len(planned[w]) > 0
      BY <1>1, <1>3, LenProperties DEF Tiles
    <3>2. \A m \in Nat : m > 0 => m = 1 \/ m > 1
      OBVIOUS
    <3> QED BY <3>1, <3>2
  <2> QED BY <2>6, <2>7, <2>8
<1> QED BY <1>5, <1>6, <1>7 DEF Joining

\* Every step keeps the invariant.
LEMMA NextInv == Inv /\ [Next]_vars => Inv'
<1> SUFFICES ASSUME Inv, [Next]_vars PROVE Inv'
  OBVIOUS
<1>1. ASSUME NEW w \in Windows, SkipPlanner(w) PROVE Inv'
  <2>1. {"plan_input_budget_exceeded"} \in SUBSET WarningType
    BY DEF WarningType
  <2> QED BY <1>1, <2>1, FallbackTiles, DeliverInv DEF SkipPlanner
<1>2. ASSUME NEW w \in Windows, AskPlanner(w) PROVE Inv'
  BY <1>2 DEF AskPlanner, Taken, Inv, TypeOK, ResultsCover, JoinsAll, JoinedTiles
<1>3. ASSUME NEW w \in Windows, AcceptPlan(w) PROVE Inv'
  BY <1>3, AcceptedTiles, DeliverInv DEF AcceptPlan
<1>4. ASSUME NEW w \in Windows, RefusePlan(w) PROVE Inv'
  <2>1. {} \in SUBSET WarningType
    OBVIOUS
  <2> QED BY <1>4, <2>1, FallbackTiles, DeliverInv DEF RefusePlan
<1>5. ASSUME NEW w \in Windows, Joining(w) PROVE Inv'
  BY <1>5, JoiningInv
<1>6. CASE StartJoining
  <2>1. 1 \in Windows /\ 1 \in 0..WindowCount
    BY Counts DEF Windows
  <2>2. Tiles(planned[1], 1, EvidenceLast(1))
    BY <1>6, <2>1, WindowsAdjoin DEF StartJoining, Inv, ResultsCover
  <2> QED BY <1>6, <2>1, <2>2 DEF StartJoining, Inv, TypeOK, ResultsCover, JoinsAll, JoinedTiles
<1>7. CASE Return
  BY <1>7 DEF Return, Inv, TypeOK, ResultsCover, JoinsAll, JoinedTiles
<1>8. CASE UNCHANGED vars
  BY <1>8 DEF vars, Inv, TypeOK, ResultsCover, JoinsAll, JoinedTiles
<1> QED BY <1>1, <1>2, <1>3, <1>4, <1>5, <1>6, <1>7, <1>8 DEF Next, Pool

\* The state keeps its type, for every size of the system.
THEOREM TypeCorrect == Spec => []TypeOK
<1>1. Inv => TypeOK
  BY DEF Inv
<1> QED BY <1>1, InitInv, NextInv, PTL DEF Spec

\* In whatever order the pool finishes, the joined list always covers the
\* joined windows: every unit and row once, in document order.
THEOREM SourceAlwaysCovered == Spec => []SourceCovered
<1>1. Inv => SourceCovered
  BY DEF Inv, SourceCovered
<1> QED BY <1>1, InitInv, NextInv, PTL DEF Spec

-----------------------------------------------------------------------------
(* What tilings hold *)

\* A contiguous chunk holds all evidence from its first to its last.
LEMMA HeldRun ==
    ASSUME NEW c \in Chunk, Contiguous(c)
    PROVE  /\ c.evidence[1] \in Int /\ Last(c.evidence) \in Int
           /\ c.evidence[1] <= Last(c.evidence)
           /\ Held(c) = c.evidence[1]..Last(c.evidence)
<1> DEFINE e == c.evidence
           n == Len(e)
           S == {j \in 1..n : e[j] = e[1] + j - 1}
<1>1. /\ e \in Seq(Int) /\ n \in Nat /\ n > 0
      /\ \A j \in 1..n : e[j] \in Int
      /\ \A j \in 1..n - 1 : e[j + 1] = e[j] + 1
  BY DEF Chunk, Contiguous
<1> HIDE DEF e, n
<1>2. 1..n \subseteq S
  <2>1. 1 \in S
    BY <1>1
  <2>2. ASSUME NEW k \in 1..n - 1, k \in S PROVE k + 1 \in S
    <3>1. k \in 1..n /\ k + 1 \in 1..n /\ e[k + 1] = e[k] + 1 /\ e[k] = e[1] + k - 1
      BY <1>1, <2>2
    <3>2. e[1] \in Int /\ 1 \in 1..n
      BY <1>1
    <3> QED BY <3>1, <3>2
  <2>3. 1 \in Int /\ n \in Int
    BY <1>1
  <2> HIDE DEF S
  <2> QED BY <2>1, <2>2, <2>3, IntervalInduction
<1>3. e[1] \in Int /\ e[n] = e[1] + n - 1 /\ \A j \in 1..n : e[j] = e[1] + j - 1
  BY <1>1, <1>2
<1>4. {e[j] : j \in 1..n} = e[1]..e[n]
  <2>1. ASSUME NEW k \in e[1]..e[n] PROVE \E j \in 1..n : e[j] = k
    <3>1. k - e[1] + 1 \in 1..n
      BY <1>1, <1>3, SMTT(30)
    <3>2. e[k - e[1] + 1] = k
      BY <1>3, <3>1
    <3> QED BY <3>1, <3>2
  <2>2. \A j \in 1..n : e[j] \in e[1]..e[n]
    BY <1>1, <1>3
  <2> QED BY <2>1, <2>2
<1>5. e[n] \in Int /\ e[1] <= e[n]
  BY <1>1, <1>3
<1> QED BY <1>3, <1>4, <1>5 DEF Held, Last, e, n

\* The chunks of a tiling hold evidence of what is covered, and no two of them
\* the same.
LEMMA TilesApart ==
    ASSUME NEW cs \in Seq(Chunk), NEW a \in Int, NEW b \in Int, Tiles(cs, a, b)
    PROVE  /\ a <= b
           /\ \A i \in 1..Len(cs) : Held(cs[i]) # {} /\ Held(cs[i]) \subseteq a..b
           /\ \A i, j \in 1..Len(cs) : i # j => Held(cs[i]) \cap Held(cs[j]) = {}
           /\ b \in Held(Last(cs))
<1> DEFINE n == Len(cs)
           F == [i \in 1..n |-> cs[i].evidence[1]]
           L == [i \in 1..n |-> Last(cs[i].evidence)]
<1>1. n \in Nat /\ n > 0 /\ \A i \in 1..n : cs[i] \in Chunk /\ Contiguous(cs[i])
  BY DEF Tiles
<1>2. \A i \in 1..n : /\ F[i] \in Int /\ L[i] \in Int /\ F[i] <= L[i]
                      /\ Held(cs[i]) = F[i]..L[i]
  BY <1>1, HeldRun
<1>3. \A i \in 1..n - 1 : F[i + 1] = L[i] + 1
  <2> SUFFICES ASSUME NEW i \in 1..n - 1 PROVE F[i + 1] = L[i] + 1
    OBVIOUS
  <2>1. i \in 1..n /\ i + 1 \in 1..n
    BY <1>1
  <2>2. cs[i + 1].evidence[1] = Last(cs[i].evidence) + 1
    BY DEF Tiles
  <2> QED BY <2>1, <2>2
<1>4. F[1] = a /\ L[n] = b /\ Last(cs) = cs[n] /\ 1 \in 1..n /\ n \in 1..n
  BY <1>1 DEF Tiles, Last
<1>5. F \in [1..n -> Int] /\ L \in [1..n -> Int]
  BY <1>2
<1> HIDE DEF F, L, n
<1>6. \A i, j \in 1..n : i < j => L[i] < F[j]
  BY <1>1, <1>2, <1>3, <1>5, RunsAscend
<1>7. \A i \in 1..n : a <= F[i] /\ L[i] <= b
  <2> SUFFICES ASSUME NEW i \in 1..n PROVE a <= F[i] /\ L[i] <= b
    OBVIOUS
  <2>1. a <= F[i]
    <3>1. CASE i = 1
      BY <1>2, <1>4, <3>1
    <3>2. CASE i # 1
      <4>1. L[1] < F[i] /\ F[1] <= L[1]
        BY <1>1, <1>2, <1>4, <1>6, <3>2
      <4> QED BY <1>2, <1>4, <4>1
    <3> QED BY <3>1, <3>2
  <2>2. L[i] <= b
    <3>1. CASE i = n
      BY <1>2, <1>4, <3>1
    <3>2. CASE i # n
      <4>1. L[i] < F[n] /\ F[n] <= L[n]
        BY <1>1, <1>2, <1>4, <1>6, <3>2
      <4> QED BY <1>2, <1>4, <4>1
    <3> QED BY <3>1, <3>2
  <2> QED BY <2>1, <2>2
<1>8. a <= b
  <2>1. a <= F[1] /\ F[1] <= L[1] /\ L[1] <= b /\ F[1] \in Int /\ L[1] \in Int
    BY <1>2, <1>4, <1>7
  <2> QED BY <2>1
<1>9. \A i \in 1..n : Held(cs[i]) # {} /\ Held(cs[i]) \subseteq a..b
  <2> SUFFICES ASSUME NEW i \in 1..n PROVE Held(cs[i]) # {} /\ Held(cs[i]) \subseteq a..b
    OBVIOUS
  <2>1. /\ Held(cs[i]) = F[i]..L[i] /\ F[i] <= L[i] /\ a <= F[i] /\ L[i] <= b
        /\ F[i] \in Int /\ L[i] \in Int
    BY <1>2, <1>7
  <2> QED BY <2>1
<1>10. ASSUME NEW i \in 1..n, NEW j \in 1..n, i # j
       PROVE  Held(cs[i]) \cap Held(cs[j]) = {}
  <2>1. L[i] < F[j] \/ L[j] < F[i]
    BY <1>1, <1>6, <1>10
  <2>2. /\ Held(cs[i]) = F[i]..L[i] /\ Held(cs[j]) = F[j]..L[j]
        /\ F[i] \in Int /\ L[i] \in Int /\ F[j] \in Int /\ L[j] \in Int
    BY <1>2
  <2> QED BY <2>1, <2>2
<1>11. b \in Held(Last(cs))
  <2>1. Held(cs[n]) = F[n]..L[n] /\ F[n] <= L[n] /\ F[n] \in Int /\ L[n] \in Int
    BY <1>2, <1>4
  <2> QED BY <1>4, <2>1
<1> QED BY <1>8, <1>9, <1>10, <1>11 DEF n

\* No evidence is in two windows, and each has some.
LEMMA WindowsApart ==
    /\ \A w \in Windows : EvidenceFirst(w) <= EvidenceLast(w) /\ EvidenceLast(w) <= Length
    /\ \A v, w \in Windows : v < w => EvidenceLast(v) < EvidenceFirst(w)
    /\ \A v, w \in Windows : v # w => WindowEvidence(v) \cap WindowEvidence(w) = {}
    /\ EvidenceLast(WindowCount) = Length
<1>1. \A u, v \in Views : u < v => ViewLast[u] < ViewFirst(v)
  <2> DEFINE F == [v \in 1..ViewCount |-> ViewFirst(v)]
             L == [v \in 1..ViewCount |-> ViewLast[v]]
  <2>1. F \in [1..ViewCount -> Int] /\ L \in [1..ViewCount -> Int]
    BY ViewsAdjoin DEF Views
  <2>2. \A v \in 1..ViewCount : F[v] <= L[v]
    BY ViewsAdjoin DEF Views
  <2>3. \A v \in 1..ViewCount - 1 : F[v + 1] = L[v] + 1
    BY ViewsAdjoin, Counts
  <2>4. \A u, v \in 1..ViewCount : u < v => L[u] < F[v]
    <3> HIDE DEF F, L
    <3> QED BY <2>1, <2>2, <2>3, Counts, RunsAscend
  <2> QED BY <2>4 DEF Views
<1>2. ASSUME NEW w \in Windows PROVE EvidenceFirst(w) <= EvidenceLast(w)
  <2>1. /\ FirstView(w) \in Views /\ WindowLast[w] \in Views
        /\ FirstView(w) <= WindowLast[w]
    BY WindowsAdjoin
  <2>2. CASE FirstView(w) = WindowLast[w]
    BY <2>1, <2>2, ViewsAdjoin DEF EvidenceFirst, EvidenceLast
  <2>3. CASE FirstView(w) < WindowLast[w]
    <3>1. /\ ViewFirst(FirstView(w)) <= ViewLast[FirstView(w)]
          /\ ViewLast[FirstView(w)] < ViewFirst(WindowLast[w])
          /\ ViewFirst(WindowLast[w]) <= ViewLast[WindowLast[w]]
      BY <1>1, <2>1, <2>3, ViewsAdjoin
    <3>2. \A v \in Views : ViewFirst(v) \in Int /\ ViewLast[v] \in Int
      BY ViewsAdjoin
    <3> QED BY <2>1, <3>1, <3>2 DEF EvidenceFirst, EvidenceLast
  <2> QED BY <2>1, <2>2, <2>3, Counts DEF Views
<1>3. \A v, w \in Windows : v < w => EvidenceLast(v) < EvidenceFirst(w)
  <2> DEFINE F == [w \in 1..WindowCount |-> EvidenceFirst(w)]
             L == [w \in 1..WindowCount |-> EvidenceLast(w)]
  <2>1. F \in [1..WindowCount -> Int] /\ L \in [1..WindowCount -> Int]
    BY WindowsAdjoin DEF Windows
  <2>2. \A w \in 1..WindowCount : F[w] <= L[w]
    BY <1>2 DEF Windows
  <2>3. \A w \in 1..WindowCount - 1 : F[w + 1] = L[w] + 1
    BY WindowsAdjoin, Counts
  <2>4. \A v, w \in 1..WindowCount : v < w => L[v] < F[w]
    <3> HIDE DEF F, L
    <3> QED BY <2>1, <2>2, <2>3, Counts, RunsAscend
  <2> QED BY <2>4 DEF Windows
<1>4. EvidenceLast(WindowCount) = Length
  BY WindowAssumption DEF EvidenceLast, Length
<1>5. ASSUME NEW w \in Windows PROVE EvidenceLast(w) <= Length
  <2>1. WindowCount \in Windows /\ w <= WindowCount /\ w \in Int /\ WindowCount \in Int
    BY Counts DEF Windows
  <2>2. CASE w = WindowCount
    BY <1>4, <2>2, WindowsAdjoin, <2>1
  <2>3. CASE w < WindowCount
    <3>1. EvidenceLast(w) < EvidenceFirst(WindowCount)
      BY <1>3, <2>1, <2>3
    <3>2. EvidenceFirst(WindowCount) <= EvidenceLast(WindowCount)
      BY <1>2, <2>1
    <3>3. /\ EvidenceLast(w) \in Int /\ EvidenceFirst(WindowCount) \in Int
          /\ EvidenceLast(WindowCount) \in Int
      BY <2>1, WindowsAdjoin
    <3> QED BY <1>4, <3>1, <3>2, <3>3
  <2> QED BY <2>1, <2>2, <2>3
<1>6. ASSUME NEW v \in Windows, NEW w \in Windows, v # w
      PROVE  WindowEvidence(v) \cap WindowEvidence(w) = {}
  <2>1. v < w \/ w < v
    BY <1>6 DEF Windows
  <2>2. EvidenceLast(v) < EvidenceFirst(w) \/ EvidenceLast(w) < EvidenceFirst(v)
    BY <1>3, <2>1
  <2>3. /\ EvidenceLast(v) \in Int /\ EvidenceFirst(w) \in Int
        /\ EvidenceLast(w) \in Int /\ EvidenceFirst(v) \in Int
    BY WindowsAdjoin
  <2> QED BY <2>2, <2>3 DEF WindowEvidence
<1> QED BY <1>2, <1>3, <1>4, <1>5, <1>6

-----------------------------------------------------------------------------
(* What joining one more window makes of the chunks *)

\* What holds when a window is joined: the joined list goes up to the window
\* before, and the result of the window goes on from there.
LEMMA JoiningState ==
    ASSUME Inv, NEW w \in Windows, Joining(w)
    PROVE  /\ phase = "joining" /\ w = cursor + 1 /\ cursor \in Windows /\ w - 1 = cursor
           /\ phase' = phase /\ stage' = stage /\ planned' = planned
           /\ fellBack' = fellBack /\ cursor' = w
           /\ chunks \in Seq(Chunk) /\ planned[w] \in Seq(Chunk)
           /\ Tiles(chunks, 1, EvidenceLast(cursor))
           /\ Tiles(planned[w], EvidenceLast(cursor) + 1, EvidenceLast(w))
           /\ EvidenceLast(cursor) + 1 = EvidenceFirst(w)
           /\ EvidenceLast(cursor) \in Nat /\ EvidenceLast(w) \in Nat
<1>1. PICK cs : Join(w, cs)
  BY DEF Joining, KeepSeam, LoseAnswer, RefuseMerge, MergeSeam
<1>2. /\ phase = "joining" /\ cursor < WindowCount /\ w = cursor + 1
      /\ phase' = phase /\ stage' = stage /\ planned' = planned
      /\ fellBack' = fellBack /\ cursor' = w
  BY <1>1 DEF Join
<1>3. cursor \in 1..WindowCount - 1 /\ cursor \in Windows /\ w - 1 = cursor
  BY <1>2, Counts DEF Inv, TypeOK, JoinsAll, Windows
<1>4. chunks \in Seq(Chunk) /\ planned[w] \in Seq(Chunk)
  BY DEF Inv, TypeOK
<1>5. Tiles(chunks, 1, EvidenceLast(cursor))
  BY <1>2 DEF Inv, JoinedTiles
<1>6. EvidenceLast(cursor) + 1 = EvidenceFirst(w)
  BY <1>2, <1>3, WindowsAdjoin
<1>7. Tiles(planned[w], EvidenceFirst(w), EvidenceLast(w))
  BY <1>2 DEF Inv, JoinsAll, ResultsCover
<1> QED BY <1>2, <1>3, <1>4, <1>5, <1>6, <1>7, WindowsAdjoin

LEMMA HeldMerged ==
    ASSUME NEW left \in Chunk, NEW right \in Chunk
    PROVE  /\ Held(Merged(left, right)) = Held(left) \cup Held(right)
           /\ SourceUnits(Merged(left, right)) = SourceUnits(left) \cup SourceUnits(right)
           /\ MarksOf(Merged(left, right), left) /\ MarksOf(Merged(left, right), right)
<1> DEFINE p == left.evidence
           q == right.evidence
           s == Merged(left, right).evidence
<1>1. s = p \o q /\ p \in Seq(Int) /\ q \in Seq(Int)
  BY DEF Merged, Chunk
<1> HIDE DEF p, q, s
<1>2. /\ Len(s) = Len(p) + Len(q) /\ Len(p) \in Nat /\ Len(q) \in Nat
      /\ \A i \in 1..Len(p) : s[i] = p[i] /\ i \in 1..Len(s)
      /\ \A i \in 1..Len(q) : s[Len(p) + i] = q[i] /\ Len(p) + i \in 1..Len(s)
  BY <1>1
<1>3. \A i \in 1..Len(s) : i \in 1..Len(p) \/ (i - Len(p) \in 1..Len(q) /\ s[i] = q[i - Len(p)])
  BY <1>1, <1>2
<1>4. {s[i] : i \in 1..Len(s)} = {p[i] : i \in 1..Len(p)} \cup {q[i] : i \in 1..Len(q)}
  <2>1. \A i \in 1..Len(s) : s[i] \in {p[k] : k \in 1..Len(p)} \cup {q[k] : k \in 1..Len(q)}
    BY <1>2, <1>3
  <2>2. \A i \in 1..Len(p) : p[i] \in {s[k] : k \in 1..Len(s)}
    BY <1>2
  <2>3. \A i \in 1..Len(q) : q[i] \in {s[k] : k \in 1..Len(s)}
    BY <1>2
  <2> QED BY <2>1, <2>2, <2>3
<1>5. Held(Merged(left, right)) = Held(left) \cup Held(right)
  BY <1>4 DEF Held, p, q, s
<1>6. SourceUnits(Merged(left, right)) = SourceUnits(left) \cup SourceUnits(right)
  BY <1>5 DEF SourceUnits
<1>7. MarksOf(Merged(left, right), left) /\ MarksOf(Merged(left, right), right)
  BY DEF Merged, MarksOf, Chunk
<1> QED BY <1>5, <1>6, <1>7

\* How many units a chunk is of is a number.
LEMMA UnitsCounted ==
    ASSUME NEW c \in Chunk
    PROVE  IsFiniteSet(SourceUnits(c)) /\ Cardinality(SourceUnits(c)) \in Nat
<1> DEFINE n == Len(c.evidence)
           f == [i \in 1..n |-> UnitAt(c.evidence[i])]
<1>1. n \in Nat
  BY DEF Chunk
<1>2. SourceUnits(c) = {UnitAt(c.evidence[i]) : i \in 1..n}
  BY DEF SourceUnits, Held
<1>3. f \in Surjection(1..n, SourceUnits(c))
  BY <1>2 DEF Surjection
<1>4. IsFiniteSet(1..n)
  BY <1>1, FS_Interval
<1> HIDE DEF f, n
<1>5. IsFiniteSet(SourceUnits(c))
  BY <1>3, <1>4, FS_Surjection
<1> QED BY <1>5, FS_CardinalityType

\* Where a chunk of the joined list comes from when window w is joined: it is
\* one that was there, perhaps with a warning more; or one of the result; or
\* the two on both sides of the seam.
Kept(c) == \E i \in 1..Len(chunks) : Held(c) = Held(chunks[i]) /\ MarksOf(c, chunks[i])
Added(w, c) == \E i \in 1..Len(planned[w]) : c = planned[w][i]
Seam(w, c) == MayAsk(w) /\ ~TooMany(w) /\ c = Merged(Last(chunks), planned[w][1])

LEMMA JoinedChunks ==
    ASSUME Inv, NEW w \in Windows, Joining(w), NEW j \in 1..Len(chunks')
    PROVE  Kept(chunks'[j]) \/ Added(w, chunks'[j]) \/ Seam(w, chunks'[j])
<1> DEFINE n == Len(chunks)
           q == planned[w]
<1>1. /\ chunks \in Seq(Chunk) /\ q \in Seq(Chunk) /\ n \in Nat /\ n > 0
      /\ Len(q) \in Nat /\ Len(q) > 0 /\ n \in 1..n /\ chunks[n] = Last(chunks)
      /\ chunks[n] \in Chunk /\ q[1] \in Chunk
  BY JoiningState DEF Tiles, Last
<1>2. \A c : MarksOf(c, c)
  BY DEF MarksOf
<1> HIDE DEF n, q
<1>3. ASSUME NEW p \in Seq(Chunk), NEW r \in Seq(Chunk), chunks' = p \o r, Len(p) = n,
             \A i \in 1..n - 1 : p[i] = chunks[i]
      PROVE  \/ j \in 1..n - 1 /\ chunks'[j] = chunks[j]
             \/ j = n /\ chunks'[j] = p[n]
             \/ j - n \in 1..Len(r) /\ chunks'[j] = r[j - n]
  <2>1. Len(chunks') = n + Len(r) /\ Len(r) \in Nat
    <3>1. Len(p \o r) = Len(p) + Len(r) /\ Len(r) \in Nat
      BY ConcatProperties, LenProperties
    <3> QED BY <1>3, <3>1
  <2>2. j \in 1..n => chunks'[j] = p[j]
    BY <1>3
  <2>3. j \in n + 1..Len(chunks') => chunks'[j] = r[j - n] /\ j - n \in 1..Len(r)
    BY <1>1, <1>3, <2>1
  <2> QED BY <1>1, <1>3, <2>1, <2>2, <2>3
<1>4. CASE KeepSeam(w)
  <2>1. chunks' = chunks \o q
    BY <1>4 DEF KeepSeam, Join, q
  <2>2. (j \in 1..n /\ chunks'[j] = chunks[j]) \/ Added(w, chunks'[j])
    <3>1. /\ chunks \in Seq(Chunk) /\ q \in Seq(Chunk) /\ Len(chunks) = n /\ n \in Nat
          /\ \A i \in 1..n - 1 : chunks[i] = chunks[i]
      BY <1>1 DEF n
    <3>2. \/ j \in 1..n - 1 /\ chunks'[j] = chunks[j]
          \/ j = n /\ chunks'[j] = chunks[n]
          \/ j - n \in 1..Len(q) /\ chunks'[j] = q[j - n]
      BY ONLY <1>3, <2>1, <3>1
    <3>3. j - n \in 1..Len(q) /\ chunks'[j] = q[j - n] => Added(w, chunks'[j])
      BY DEF Added, n, q
    <3> QED BY <1>1, <3>1, <3>2, <3>3
  <2> QED BY <1>2, <2>2 DEF Kept, n
<1>5. CASE LoseAnswer(w) \/ RefuseMerge(w)
  <2>1. PICK type \in WarningType : chunks' = Warned(chunks, type) \o q
    BY <1>5 DEF LoseAnswer, RefuseMerge, WarningType, Join, q
  <2> DEFINE d == [evidence |-> chunks[n].evidence, fallback |-> chunks[n].fallback,
                   warnings |-> chunks[n].warnings \cup {type}]
  <2>2. d \in Chunk /\ Held(d) = Held(chunks[n]) /\ MarksOf(d, chunks[n])
    BY <1>1 DEF Chunk, Held, MarksOf
  <2>3. Warned(chunks, type) = [chunks EXCEPT ![n] = d]
    BY <1>1 DEF Warned, n
  <2> HIDE DEF d
  <2>4. /\ Warned(chunks, type) \in Seq(Chunk) /\ Len(Warned(chunks, type)) = n
        /\ Warned(chunks, type)[n] = d
        /\ \A i \in 1..n - 1 : Warned(chunks, type)[i] = chunks[i]
    BY <1>1, <2>2, <2>3, ReplaceLast DEF n
  <2>5. \/ j \in 1..n - 1 /\ chunks'[j] = chunks[j]
        \/ j = n /\ chunks'[j] = d
        \/ Added(w, chunks'[j])
    BY <1>1, <1>3, <2>1, <2>4 DEF Added, q
  <2> QED BY <1>1, <1>2, <2>2, <2>5 DEF Kept, n
<1>6. CASE MergeSeam(w)
  <2> DEFINE m == Merged(Last(chunks), q[1])
             p == [chunks EXCEPT ![n] = m]
  <2>1. chunks' = p \o Tail(q) /\ MayAsk(w) /\ ~TooMany(w)
    BY <1>1, <1>6 DEF MergeSeam, Join, Last, n, q
  <2>2. m \in Chunk
    <3>1. /\ Contiguous(Last(chunks)) /\ Contiguous(q[1])
          /\ q[1].evidence[1] = Last(Last(chunks).evidence) + 1
      BY <1>1, JoiningState DEF Tiles, n, q, Last
    <3> QED BY <1>1, <3>1, MergedHolds
  <2>3. Seam(w, m)
    BY <2>1 DEF Seam, q
  <2> HIDE DEF m
  <2>4. /\ p \in Seq(Chunk) /\ Len(p) = n /\ p[n] = m
        /\ \A i \in 1..n - 1 : p[i] = chunks[i]
    BY <1>1, <2>2, ReplaceLast DEF n
  <2>5. /\ Tail(q) \in Seq(Chunk) /\ Len(Tail(q)) = Len(q) - 1
        /\ \A i \in 1..Len(Tail(q)) : Tail(q)[i] = q[i + 1] /\ i + 1 \in 1..Len(q)
    BY <1>1
  <2> HIDE DEF p
  <2>6. \/ j \in 1..n - 1 /\ chunks'[j] = chunks[j]
        \/ j = n /\ chunks'[j] = m
        \/ Added(w, chunks'[j])
    BY <1>3, <2>1, <2>4, <2>5 DEF Added, q
  <2> QED BY <1>1, <1>2, <2>3, <2>6 DEF Kept, n
<1> QED BY <1>4, <1>5, <1>6 DEF Joining

\* What the joined list holds and what is joined to it are apart, and the
\* chunks on the two sides of the seam are at the end and at the beginning.
LEMMA JoiningApart ==
    ASSUME Inv, NEW w \in Windows, Joining(w)
    PROVE  /\ Len(chunks) \in 1..Len(chunks) /\ 1 \in 1..Len(planned[w])
           /\ \A i \in 1..Len(chunks), k \in 1..Len(planned[w]) :
                 Held(chunks[i]) \cap Held(planned[w][k]) = {}
           /\ \A i, k \in 1..Len(chunks) : i # k => Held(chunks[i]) \cap Held(chunks[k]) = {}
           /\ \A i, k \in 1..Len(planned[w]) :
                 i # k => Held(planned[w][i]) \cap Held(planned[w][k]) = {}
           /\ \A k \in 1..Len(planned[w]) :
                 Held(planned[w][k]) # {} /\ Held(planned[w][k]) \subseteq WindowEvidence(w)
           /\ Last(chunks) \in Chunk /\ planned[w][1] \in Chunk
           /\ EvidenceLast(w - 1) \in Held(Last(chunks))
<1> DEFINE b == EvidenceLast(cursor)
           c == EvidenceLast(w)
<1>1. /\ chunks \in Seq(Chunk) /\ planned[w] \in Seq(Chunk)
      /\ Tiles(chunks, 1, b) /\ Tiles(planned[w], b + 1, c)
      /\ b \in Int /\ c \in Int /\ b + 1 \in Int /\ 1 \in Int
      /\ b + 1 = EvidenceFirst(w) /\ w - 1 = cursor
  BY JoiningState
<1> HIDE DEF b, c
<1>2. /\ \A i \in 1..Len(chunks) : Held(chunks[i]) \subseteq 1..b
      /\ \A i, k \in 1..Len(chunks) : i # k => Held(chunks[i]) \cap Held(chunks[k]) = {}
      /\ b \in Held(Last(chunks))
  BY <1>1, TilesApart
<1>3. /\ \A k \in 1..Len(planned[w]) :
            Held(planned[w][k]) # {} /\ Held(planned[w][k]) \subseteq b + 1..c
      /\ \A i, k \in 1..Len(planned[w]) :
            i # k => Held(planned[w][i]) \cap Held(planned[w][k]) = {}
  BY <1>1, TilesApart
<1>4. 1..b \cap b + 1..c = {}
  BY <1>1
<1>5. Len(chunks) \in 1..Len(chunks) /\ 1 \in 1..Len(planned[w])
  BY <1>1 DEF Tiles
<1>6. Last(chunks) \in Chunk /\ planned[w][1] \in Chunk
  BY <1>1, <1>5 DEF Last
<1> QED BY <1>1, <1>2, <1>3, <1>4, <1>5, <1>6 DEF WindowEvidence, b, c

-----------------------------------------------------------------------------
(* What is merged *)

\* Besides Inv, what has to be known of a state: nothing is joined while the
\* windows are planned, and a window that does not fit the budget falls back,
\* with the warning on each of its chunks.
MergeInv ==
    /\ phase = "planning" => chunks = <<>>
    /\ \A w \in OverBudget :
          /\ stage[w] # "asked"
          /\ stage[w] = "done" =>
                /\ fellBack[w]
                /\ \A i \in 1..Len(planned[w]) :
                      /\ planned[w][i].fallback
                      /\ "plan_input_budget_exceeded" \in planned[w][i].warnings
    /\ MergesRight

\* Nothing that is looked at changes.
LEMMA MergeInvStutter ==
    ASSUME MergeInv, UNCHANGED <<stage, planned, fellBack, chunks>>,
           phase' = "planning" => phase = "planning"
    PROVE  MergeInv'
BY DEF MergeInv, MergesRight, MergedChunksFit, FallbackStaysApart

\* A result is delivered while nothing is joined.
LEMMA DeliverMergeInv ==
    ASSUME Inv, MergeInv, NEW w \in Windows, NEW cs, NEW fb, Deliver(w, cs, fb),
           stage[w] # "done",
           w \in OverBudget =>
              /\ fb
              /\ \A i \in 1..Len(cs) :
                    cs[i].fallback /\ "plan_input_budget_exceeded" \in cs[i].warnings
    PROVE  MergeInv'
<1>1. phase = "planning" /\ phase' = phase /\ chunks' = chunks /\ chunks = <<>>
  BY DEF Inv, TypeOK, JoinsAll, Deliver, MergeInv
<1>2. Len(chunks') = 0
  BY <1>1
<1>3. MergesRight'
  BY <1>2 DEF MergesRight, MergedChunksFit, FallbackStaysApart
<1>4. ASSUME NEW v \in OverBudget
      PROVE  /\ stage'[v] # "asked"
             /\ stage'[v] = "done" =>
                   /\ fellBack'[v]
                   /\ \A i \in 1..Len(planned'[v]) :
                         /\ planned'[v][i].fallback
                         /\ "plan_input_budget_exceeded" \in planned'[v][i].warnings
  <2>1. v \in Windows
    BY SettingsAssumption
  <2>2. CASE v = w
    BY <2>1, <2>2 DEF Inv, TypeOK, Deliver
  <2>3. CASE v # w
    BY <2>1, <2>3 DEF Inv, TypeOK, Deliver, MergeInv
  <2> QED BY <2>2, <2>3
<1> QED BY <1>1, <1>3, <1>4 DEF MergeInv

\* Every chunk of a fallback has the warning it was given.
LEMMA FallbackMarked ==
    ASSUME NEW w \in Windows, NEW warned, NEW i \in 1..Len(FallbackPlan(w, warned))
    PROVE  FallbackPlan(w, warned)[i].fallback /\ FallbackPlan(w, warned)[i].warnings = warned
<1> DEFINE n == WindowLast[w] - FirstView(w) + 1
<1>1. n \in Nat
  <2>1. FirstView(w) \in Views /\ WindowLast[w] \in Views /\ FirstView(w) <= WindowLast[w]
    BY WindowsAdjoin
  <2> QED BY <2>1 DEF Views
<1>2. i \in 1..n
  BY <1>1 DEF FallbackPlan
<1> QED BY <1>2 DEF FallbackPlan, UnplannedChunk

\* Joining merges only what it may merge.
LEMMA JoiningMergeInv ==
    ASSUME Inv, MergeInv, NEW w \in Windows, Joining(w)
    PROVE  MergeInv'
<1>1. /\ phase = "joining" /\ phase' = phase /\ stage' = stage
      /\ planned' = planned /\ fellBack' = fellBack
      /\ w - 1 = cursor /\ cursor \in Windows /\ w # cursor
  BY JoiningState DEF Windows
<1>2. \A v \in Windows : stage[v] = "done"
  BY <1>1 DEF Inv, JoinsAll
<1>3. /\ Len(chunks) \in 1..Len(chunks) /\ 1 \in 1..Len(planned[w])
      /\ chunks[Len(chunks)] = Last(chunks)
      /\ \A k \in 1..Len(planned[w]) :
            Held(planned[w][k]) # {} /\ Held(planned[w][k]) \subseteq WindowEvidence(w)
      /\ Last(chunks) \in Chunk /\ planned[w][1] \in Chunk
      /\ EvidenceLast(w - 1) \in Held(Last(chunks))
  BY JoiningApart DEF Last
<1>4. MergedChunksFit'
  <2> SUFFICES ASSUME NEW j \in 1..Len(chunks')
               PROVE  \/ Cardinality(SourceUnits(chunks'[j])) <= MaxUnits
                      \/ \E v \in Windows : Held(chunks'[j]) \subseteq WindowEvidence(v)
    BY DEF MergedChunksFit
  <2>1. CASE Kept(chunks'[j])
    <3>1. PICK i \in 1..Len(chunks) : Held(chunks'[j]) = Held(chunks[i])
      BY <2>1 DEF Kept
    <3> QED BY <3>1 DEF MergeInv, MergesRight, MergedChunksFit, SourceUnits
  <2>2. CASE Added(w, chunks'[j])
    BY <1>3, <2>2 DEF Added
  <2>3. CASE Seam(w, chunks'[j])
    <3>1. SourceUnits(chunks'[j]) = SourceUnits(Last(chunks)) \cup SourceUnits(planned[w][1])
      BY <1>3, <2>3, HeldMerged DEF Seam
    <3>2. Cardinality(SourceUnits(chunks'[j])) \in Nat
      <4>1. IsFiniteSet(SourceUnits(Last(chunks))) /\ IsFiniteSet(SourceUnits(planned[w][1]))
        BY <1>3, UnitsCounted
      <4>2. IsFiniteSet(SourceUnits(chunks'[j]))
        BY <3>1, <4>1, FS_Union
      <4> QED BY <4>2, FS_CardinalityType
    <3>3. ~(Cardinality(SourceUnits(chunks'[j])) > MaxUnits)
      BY <2>3, <3>1 DEF Seam, TooMany
    <3> QED BY <3>2, <3>3, SettingsAssumption
  <2> QED BY <2>1, <2>2, <2>3, JoinedChunks
<1>5. FallbackStaysApart'
  <2> SUFFICES ASSUME NEW j \in 1..Len(chunks'), NEW v \in Windows,
                      Held(chunks'[j]) \cap WindowEvidence(v) # {}
               PROVE  /\ fellBack[v] => Held(chunks'[j]) \subseteq WindowEvidence(v)
                      /\ v \in OverBudget =>
                            /\ chunks'[j].fallback
                            /\ "plan_input_budget_exceeded" \in chunks'[j].warnings
    BY <1>1 DEF FallbackStaysApart
  <2>1. CASE Kept(chunks'[j])
    <3>1. PICK i \in 1..Len(chunks) :
              Held(chunks'[j]) = Held(chunks[i]) /\ MarksOf(chunks'[j], chunks[i])
      BY <2>1 DEF Kept
    <3>2. /\ fellBack[v] => Held(chunks[i]) \subseteq WindowEvidence(v)
          /\ v \in OverBudget => /\ chunks[i].fallback
                                 /\ "plan_input_budget_exceeded" \in chunks[i].warnings
      BY <3>1 DEF MergeInv, MergesRight, FallbackStaysApart
    <3> QED BY <3>1, <3>2 DEF MarksOf
  <2>2. CASE Added(w, chunks'[j])
    <3>1. PICK i \in 1..Len(planned[w]) : chunks'[j] = planned[w][i]
      BY <2>2 DEF Added
    <3>2. Held(chunks'[j]) \subseteq WindowEvidence(w)
      BY <1>3, <3>1
    <3>3. v = w
      BY <3>2, WindowsApart
    <3> QED BY <1>2, <3>1, <3>2, <3>3 DEF MergeInv
  <2>3. CASE Seam(w, chunks'[j])
    <3>1. ~fellBack[cursor] /\ ~fellBack[w]
      BY <1>1, <2>3 DEF Seam, MayAsk
    <3>2. v \in OverBudget => fellBack[v]
      BY <1>2 DEF MergeInv
    <3>3. ~fellBack[v]
      <4> SUFFICES ASSUME fellBack[v] PROVE FALSE
        OBVIOUS
      <4>1. v # w
        BY <3>1
      <4>2. Held(chunks'[j]) = Held(Last(chunks)) \cup Held(planned[w][1])
        BY <1>3, <2>3, HeldMerged DEF Seam
      <4>3. Held(planned[w][1]) \cap WindowEvidence(v) = {}
        BY <1>3, <4>1, WindowsApart
      <4>4. Held(Last(chunks)) \cap WindowEvidence(v) # {}
        BY <4>2, <4>3
      <4>5. Held(Last(chunks)) \subseteq WindowEvidence(v)
        BY <1>3, <4>4 DEF MergeInv, MergesRight, FallbackStaysApart
      <4>6. EvidenceLast(cursor) \in WindowEvidence(v)
        BY <1>1, <1>3, <4>5
      <4>7. EvidenceLast(cursor) \in WindowEvidence(cursor)
        BY <1>1, WindowsAdjoin, WindowsApart DEF WindowEvidence
      <4>8. v = cursor
        BY <1>1, <4>6, <4>7, WindowsApart
      <4> QED BY <3>1, <4>8
    <3> QED BY <3>2, <3>3
  <2> QED BY <2>1, <2>2, <2>3, JoinedChunks
<1> QED BY <1>1, <1>4, <1>5 DEF MergeInv, MergesRight

LEMMA InitMergeInv == Init => MergeInv
<1> SUFFICES ASSUME Init PROVE MergeInv
  OBVIOUS
<1>1. \A w \in OverBudget : stage[w] = "queued"
  BY SettingsAssumption DEF Init
<1>2. Len(chunks) = 0
  BY DEF Init
<1>3. MergesRight
  BY <1>2 DEF MergesRight, MergedChunksFit, FallbackStaysApart
<1> QED BY <1>1, <1>3 DEF Init, MergeInv

\* Every step keeps what is known of merging.
LEMMA NextMergeInv == Inv /\ MergeInv /\ [Next]_vars => MergeInv'
<1> SUFFICES ASSUME Inv, MergeInv, [Next]_vars PROVE MergeInv'
  OBVIOUS
<1>1. ASSUME NEW w \in Windows, SkipPlanner(w) PROVE MergeInv'
  <2> DEFINE cs == FallbackPlan(w, {"plan_input_budget_exceeded"})
  <2>1. \A i \in 1..Len(cs) : /\ cs[i].fallback
                              /\ "plan_input_budget_exceeded" \in cs[i].warnings
    BY FallbackMarked
  <2>2. Deliver(w, cs, TRUE) /\ stage[w] # "done"
    BY <1>1 DEF SkipPlanner, Taken
  <2> HIDE DEF cs
  <2> QED BY <2>1, <2>2, DeliverMergeInv
<1>2. ASSUME NEW w \in Windows, AskPlanner(w) PROVE MergeInv'
  <2>1. /\ w \notin OverBudget /\ stage' = [stage EXCEPT ![w] = "asked"]
        /\ UNCHANGED <<phase, planned, fellBack, cursor, chunks>>
    BY <1>2 DEF AskPlanner
  <2>2. \A v \in OverBudget : stage'[v] = stage[v]
    BY <2>1, SettingsAssumption DEF Inv, TypeOK
  <2> QED BY <2>1, <2>2 DEF MergeInv, MergesRight, MergedChunksFit, FallbackStaysApart
<1>3. ASSUME NEW w \in Windows, AcceptPlan(w) \/ RefusePlan(w) PROVE MergeInv'
  <2>1. /\ stage[w] = "asked"
        /\ \E cs, fb : Deliver(w, cs, fb)
    BY <1>3 DEF AcceptPlan, RefusePlan
  <2>2. w \notin OverBudget /\ stage[w] # "done"
    BY <2>1 DEF MergeInv
  <2> QED BY <2>1, <2>2, DeliverMergeInv
<1>4. ASSUME NEW w \in Windows, Joining(w) PROVE MergeInv'
  BY <1>4, JoiningMergeInv
<1>5. CASE StartJoining
  <2>1. /\ phase' = "joining" /\ chunks' = planned[1] /\ stage' = stage
        /\ planned' = planned /\ fellBack' = fellBack
        /\ \A v \in Windows : stage[v] = "done"
    BY <1>5 DEF StartJoining
  <2>2. 1 \in Windows
    BY Counts DEF Windows
  <2>3. /\ planned[1] \in Seq(Chunk)
        /\ Tiles(planned[1], EvidenceFirst(1), EvidenceLast(1))
        /\ EvidenceFirst(1) \in Int /\ EvidenceLast(1) \in Int
    BY <2>1, <2>2, WindowsAdjoin DEF Inv, TypeOK, ResultsCover
  <2>4. \A j \in 1..Len(chunks') : /\ chunks'[j] = planned[1][j]
                                   /\ Held(chunks'[j]) \subseteq WindowEvidence(1)
    BY <2>1, <2>3, TilesApart DEF WindowEvidence
  <2>5. MergedChunksFit'
    BY <2>2, <2>4 DEF MergedChunksFit
  <2>6. FallbackStaysApart'
    <3> SUFFICES ASSUME NEW j \in 1..Len(chunks'), NEW v \in Windows,
                        Held(chunks'[j]) \cap WindowEvidence(v) # {}
                 PROVE  /\ fellBack[v] => Held(chunks'[j]) \subseteq WindowEvidence(v)
                        /\ v \in OverBudget =>
                              /\ chunks'[j].fallback
                              /\ "plan_input_budget_exceeded" \in chunks'[j].warnings
      BY <2>1 DEF FallbackStaysApart
    <3>1. v = 1
      BY <2>2, <2>4, WindowsApart
    <3> QED BY <2>1, <2>4, <3>1 DEF MergeInv
  <2> QED BY <2>1, <2>5, <2>6 DEF MergeInv, MergesRight
<1>6. CASE Return
  BY <1>6, MergeInvStutter DEF Return
<1>7. CASE UNCHANGED vars
  BY <1>7, MergeInvStutter DEF vars
<1> QED BY <1>1, <1>2, <1>3, <1>4, <1>5, <1>6, <1>7 DEF Next, Pool

LEMMA InvsHold == Spec => [](Inv /\ MergeInv)
BY InitInv, NextInv, InitMergeInv, NextMergeInv, PTL DEF Spec

\* However the windows were planned and whatever is answered about the seams:
\* merging never makes a chunk of more than max_units_per_chunk units, and the
\* evidence of a window that fell back stays apart and says so.
THEOREM MergesOnlyWhatItMay == Spec => []MergesRight
<1>1. MergeInv => MergesRight
  BY DEF MergeInv
<1> QED BY <1>1, InvsHold, PTL

\* Joining never loses a warning or the mark of a fallback, whichever chunks
\* it merges.
THEOREM MarksStay == Spec => MarksKept
<1> DEFINE Marked == \A w \in Windows : Joining(w) =>
                        \A j \in 1..Len(chunks') :
                            \A d \in {chunks[i] : i \in 1..Len(chunks)}
                                        \cup {planned[w][i] : i \in 1..Len(planned[w])} :
                                Held(d) \cap Held(chunks'[j]) # {} => MarksOf(chunks'[j], d)
<1>1. Inv => Marked
  <2> SUFFICES ASSUME Inv, NEW w \in Windows, Joining(w), NEW j \in 1..Len(chunks'),
                      NEW d \in {chunks[i] : i \in 1..Len(chunks)}
                                  \cup {planned[w][i] : i \in 1..Len(planned[w])},
                      Held(d) \cap Held(chunks'[j]) # {}
               PROVE  MarksOf(chunks'[j], d)
    OBVIOUS
  <2>1. \/ \E i \in 1..Len(chunks) : d = chunks[i]
        \/ \E i \in 1..Len(planned[w]) : d = planned[w][i]
    OBVIOUS
  <2>2. /\ Len(chunks) \in 1..Len(chunks) /\ 1 \in 1..Len(planned[w])
        /\ \A i \in 1..Len(chunks), k \in 1..Len(planned[w]) :
              Held(chunks[i]) \cap Held(planned[w][k]) = {}
        /\ \A i, k \in 1..Len(chunks) : i # k => Held(chunks[i]) \cap Held(chunks[k]) = {}
        /\ \A i, k \in 1..Len(planned[w]) :
              i # k => Held(planned[w][i]) \cap Held(planned[w][k]) = {}
        /\ Last(chunks) \in Chunk /\ planned[w][1] \in Chunk
    BY JoiningApart
  <2>3. CASE Kept(chunks'[j])
    <3>1. PICK i \in 1..Len(chunks) :
              Held(chunks'[j]) = Held(chunks[i]) /\ MarksOf(chunks'[j], chunks[i])
      BY <2>3 DEF Kept
    <3>2. d = chunks[i]
      BY <2>1, <2>2, <3>1
    <3> QED BY <3>1, <3>2
  <2>4. CASE Added(w, chunks'[j])
    <3>1. PICK i \in 1..Len(planned[w]) : chunks'[j] = planned[w][i]
      BY <2>4 DEF Added
    <3>2. d = chunks'[j]
      BY <2>1, <2>2, <3>1
    <3> QED BY <3>2 DEF MarksOf
  <2>5. CASE Seam(w, chunks'[j])
    <3>1. /\ Held(chunks'[j]) = Held(Last(chunks)) \cup Held(planned[w][1])
          /\ MarksOf(chunks'[j], Last(chunks)) /\ MarksOf(chunks'[j], planned[w][1])
      BY <2>2, <2>5, HeldMerged DEF Seam
    <3>2. d = Last(chunks) \/ d = planned[w][1]
      <4>1. Last(chunks) = chunks[Len(chunks)]
        BY DEF Last
      <4>2. Held(d) \cap Held(Last(chunks)) # {} \/ Held(d) \cap Held(planned[w][1]) # {}
        BY <3>1
      <4> QED BY <2>1, <2>2, <4>1, <4>2
    <3> QED BY <3>1, <3>2
  <2> QED BY <2>3, <2>4, <2>5, JoinedChunks
<1>2. MarksKept <=> [][Marked]_vars
  BY DEF MarksKept
<1> HIDE DEF Marked
<1> QED BY <1>1, <1>2, InvsHold, PTL

-----------------------------------------------------------------------------
(* The abstract specification *)

\* What is handed on is the evidence of the windows joined so far.
LEMMA FrontierIs ==
    Inv /\ MergeInv => Frontier = IF phase = "planning" THEN 0 ELSE EvidenceLast(cursor)
<1> SUFFICES ASSUME Inv, MergeInv
             PROVE  Frontier = IF phase = "planning" THEN 0 ELSE EvidenceLast(cursor)
  OBVIOUS
<1>1. CASE phase = "planning"
  BY <1>1 DEF MergeInv, Frontier
<1>2. CASE phase # "planning"
  <2>1. Tiles(chunks, 1, EvidenceLast(cursor))
    BY <1>2 DEF Inv, JoinedTiles
  <2>2. chunks # <<>> /\ Last(Last(chunks).evidence) = EvidenceLast(cursor)
    BY <2>1 DEF Tiles
  <2> QED BY <1>2, <2>1, <2>2 DEF Frontier
<1> QED BY <1>1, <1>2

\* Planning and joining implement EvidenceFlow: the joined list holds a longer
\* and longer prefix of the document, and chunk() goes on only with all of it.
THEOREM JoiningHandsOnInOrder == Spec => HandsOnInOrder
<1>1. Init => Flow!Init
  BY DEF Init, Flow!Init, Frontier
<1>2. Inv /\ MergeInv /\ (Inv /\ MergeInv)' /\ [Next]_vars => [Flow!Next]_(Flow!vars)
  <2> SUFFICES ASSUME Inv, MergeInv, Inv', MergeInv', [Next]_vars
               PROVE  [Flow!Next]_(Flow!vars)
    OBVIOUS
  <2>1. /\ Frontier = IF phase = "planning" THEN 0 ELSE EvidenceLast(cursor)
        /\ Frontier' = IF phase' = "planning" THEN 0 ELSE EvidenceLast(cursor')
    <3>1. Frontier = IF phase = "planning" THEN 0 ELSE EvidenceLast(cursor)
      BY FrontierIs
    <3>2. (Frontier = IF phase = "planning" THEN 0 ELSE EvidenceLast(cursor))'
      BY FrontierIs, PTL
    <3> QED BY <3>1, <3>2
  <2>2. CASE UNCHANGED <<phase, cursor>>
    BY <2>1, <2>2 DEF Flow!vars
  <2>3. ASSUME NEW n \in Windows, phase # "joined", phase' = "joining", Frontier < EvidenceLast(n),
               Frontier \in Nat, cursor' = n
        PROVE  Flow!Next
    <3>1. EvidenceLast(n) \in Frontier + 1..Length /\ EvidenceLast(n) \in 1..Length
      BY <2>3, WindowsAdjoin, WindowsApart
    <3>2. Flow!HandOn(EvidenceLast(n))
      BY <2>1, <2>3, <3>1 DEF Flow!HandOn
    <3> QED BY <3>1, <3>2 DEF Flow!Next
  <2>4. ASSUME NEW w \in Windows, Joining(w) PROVE Flow!Next
    <3>1. /\ phase = "joining" /\ phase' = phase /\ cursor' = w /\ cursor \in Windows
          /\ EvidenceLast(cursor) + 1 = EvidenceFirst(w) /\ EvidenceLast(cursor) \in Nat
      BY <2>4, JoiningState
    <3>2. Frontier = EvidenceLast(cursor)
      BY <2>1, <3>1
    <3>3. EvidenceLast(cursor) < EvidenceLast(w)
      BY <3>1, WindowsAdjoin, WindowsApart
    <3> QED BY <2>3, <3>1, <3>2, <3>3
  <2>5. CASE StartJoining
    <3>1. phase = "planning" /\ phase' = "joining" /\ cursor' = 1 /\ 1 \in Windows
      BY <2>5, Counts DEF StartJoining, Windows
    <3>2. Frontier = 0
      BY <2>1, <3>1
    <3>3. 0 < EvidenceLast(1)
      BY <3>1, WindowsAdjoin
    <3> QED BY <2>3, <3>1, <3>2, <3>3
  <2>6. CASE Return
    <3>1. /\ phase = "joining" /\ phase' = "joined" /\ cursor = WindowCount /\ cursor' = cursor
      BY <2>6 DEF Return
    <3>2. Frontier = Length /\ Frontier' = Frontier
      BY <2>1, <3>1, WindowsApart
    <3>3. Flow!Close
      BY <3>1, <3>2 DEF Flow!Close
    <3> QED BY <3>3 DEF Flow!Next
  <2>7. ASSUME NEW w \in Windows, Pool(w) PROVE UNCHANGED <<phase, cursor>>
    BY <2>7 DEF Pool, SkipPlanner, AskPlanner, AcceptPlan, RefusePlan, Deliver
  <2> QED BY <2>2, <2>4, <2>5, <2>6, <2>7 DEF Next, vars
<1>3. Spec => Flow!Init /\ [][Flow!Next]_(Flow!vars)
  BY <1>1, <1>2, InvsHold, PTL DEF Spec
<1> QED BY <1>3 DEF HandsOnInOrder, Flow!Spec

=============================================================================
