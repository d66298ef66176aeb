--------------------------- MODULE Planning_proofs ---------------------------
(***************************************************************************)
(* Proofs about Planning.  For every document, every slice size and every  *)
(* token counter, the windows follow each other through the whole document *)
(* and are cut between slices, units and rows.  For every window           *)
(* and every answer of the planner, the chunks made from the plan hold the *)
(* whole window once and in order, and show context only after its source. *)
(***************************************************************************)
EXTENDS Planning, Induction

ResultType == [first : Nat, last : Nat, fits : BOOLEAN, units : Nat]

-----------------------------------------------------------------------------
(* Jobs *)

\* A unit shows a nonempty run of evidence, and the next one follows it.
LEMMA UnitsAdjoin ==
    /\ \A u \in 1..Units : /\ UnitFirst(u) \in Nat \ {0}
                           /\ UnitLast[u] \in Nat \ {0}
                           /\ UnitFirst(u) <= UnitLast[u]
                           /\ UnitLast[u] <= Length
    /\ \A u, v \in 1..Units : u <= v => UnitFirst(u) <= UnitLast[v]
    /\ \A u, v \in 1..Units : v = u + 1 => UnitFirst(v) = UnitLast[u] + 1
    /\ Length \in Nat
<1>1. ASSUME NEW u \in 1..Units
      PROVE  /\ UnitFirst(u) \in Nat \ {0} /\ UnitLast[u] \in Nat \ {0}
             /\ UnitFirst(u) <= UnitLast[u]
  <2>1. CASE u = 1
    BY <2>1, DocumentAssumption DEF UnitFirst
  <2>2. CASE u # 1
    <3>1. u - 1 \in 1..Units /\ u - 1 < u
      BY <2>2, DocumentAssumption
    <3> QED BY <2>2, <3>1, DocumentAssumption DEF UnitFirst
  <2> QED BY <2>1, <2>2
<1>2. ASSUME NEW u \in 1..Units, NEW v \in 1..Units, u <= v
      PROVE  UnitLast[u] <= UnitLast[v]
  BY <1>2, DocumentAssumption
<1>3. Length \in Nat /\ \A u \in 1..Units : UnitLast[u] <= Length
  <2>1. CASE Units = 0
    BY <2>1 DEF Length
  <2>2. CASE Units # 0
    <3>1. Units \in 1..Units
      BY <2>2, DocumentAssumption
    <3>2. \A u \in 1..Units : u <= Units
      BY DocumentAssumption
    <3> QED BY <2>2, <3>1, <3>2, <1>1, <1>2 DEF Length
  <2> QED BY <2>1, <2>2
<1>4. ASSUME NEW u \in 1..Units, NEW v \in 1..Units, u <= v
      PROVE  UnitFirst(u) <= UnitLast[v]
  BY <1>1, <1>2, <1>4
<1>5. ASSUME NEW u \in 1..Units, NEW v \in 1..Units, v = u + 1
      PROVE  UnitFirst(v) = UnitLast[u] + 1
  BY <1>5, DocumentAssumption DEF UnitFirst
<1> QED BY <1>1, <1>3, <1>4, <1>5

\* A job is about some evidence of the document.
LEMMA JobEvidence ==
    ASSUME NEW j, JobOK(j)
    PROVE  /\ First(j) \in Nat \ {0} /\ LastOf(j) \in Nat
           /\ First(j) <= LastOf(j) /\ LastOf(j) <= Length
<1>1. CASE j.rows
  BY <1>1 DEF JobOK, JobType, First, LastOf
<1>2. CASE ~j.rows
  <2>1. j.from \in 1..Units /\ j.to \in 1..Units /\ j.from <= j.to
    BY <1>2, DocumentAssumption DEF JobOK, JobType
  <2> QED BY <1>2, <2>1, UnitsAdjoin DEF First, LastOf
<1> QED BY <1>1, <1>2

\* The rows of a job are rows of one unit, its units are units of one slice.
WellCut(j) ==
    IF j.rows THEN \E u \in 1..Units : UnitFirst(u) <= j.from /\ j.to <= UnitLast[u] /\ OneSlice(u, u)
    ELSE OneSlice(j.from, j.to)

\* Units between two units of a slice are of that slice.
LEMMA PartOfSlice ==
    ASSUME NEW a \in Nat, NEW b \in Nat, NEW c \in Nat, NEW d \in Nat,
           a <= c, d <= b, OneSlice(a, b)
    PROVE  OneSlice(c, d)
<1>1. PICK k \in 0..Units : k * WindowSize < a /\ b <= k * WindowSize + WindowSize
  BY DEF OneSlice
<1> DEFINE p == k * WindowSize
<1>2. p \in Nat /\ p < a /\ b <= p + WindowSize /\ WindowSize \in Nat
  BY <1>1, DocumentAssumption, WindowAssumption
<1> HIDE DEF p
<1>3. p < c /\ d <= p + WindowSize
  BY <1>2
<1> QED BY <1>3 DEF OneSlice, p

\* What a job is handed on as: whole units, or rows of one unit.
LEMMA JobCutRight ==
    ASSUME NEW j, JobOK(j), WellCut(j)
    PROVE  CutRight(First(j), LastOf(j), IF j.rows THEN 1 ELSE j.to - j.from + 1)
<1>1. First(j) <= LastOf(j)
  BY JobEvidence
<1>2. CASE j.rows
  <2>1. PICK u \in 1..Units : UnitFirst(u) <= j.from /\ j.to <= UnitLast[u] /\ OneSlice(u, u)
    BY <1>2 DEF WellCut
  <2>2. u <= u /\ u - u + 1 = 1 /\ ~(u < u)
    BY DocumentAssumption
  <2> QED BY <1>1, <1>2, <2>1, <2>2 DEF CutRight, First, LastOf
<1>3. CASE ~j.rows
  <2>1. j.from \in 1..Units /\ j.to \in 1..Units /\ j.from <= j.to
    BY <1>3, DocumentAssumption DEF JobOK, JobType
  <2>2. UnitFirst(j.from) \in Nat /\ UnitLast[j.to] \in Nat
    BY <2>1, UnitsAdjoin
  <2>3. OneSlice(j.from, j.to) /\ First(j) = UnitFirst(j.from) /\ LastOf(j) = UnitLast[j.to]
    BY <1>3 DEF WellCut, First, LastOf
  <2> QED BY <1>1, <1>3, <2>1, <2>2, <2>3 DEF CutRight
<1> QED BY <1>2, <1>3

\* split_window and split_rows call themselves with two smaller jobs that
\* follow each other and are together about the same evidence.
LEMMA HalvesCover ==
    ASSUME NEW j, JobOK(j), WellCut(j), ~Indivisible(j)
    PROVE  \E l, r : /\ Halves(j) = <<l, r>>
                     /\ JobOK(l) /\ JobOK(r) /\ WellCut(l) /\ WellCut(r)
                     /\ First(l) = First(j) /\ LastOf(r) = LastOf(j)
                     /\ First(r) = LastOf(l) + 1
<1> DEFINE middle == j.from + (j.to - j.from + 1) \div 2
           a == UnitFirst(j.from)
           b == UnitLast[j.from]
           middleRow == a + (b - a + 1) \div 2
<1>1. \A m, n \in Nat : m < n => /\ m + (n - m + 1) \div 2 \in Nat
                                 /\ m < m + (n - m + 1) \div 2
                                 /\ m + (n - m + 1) \div 2 <= n
  OBVIOUS
<1>2. j \in JobType /\ j.from \in Nat /\ j.to \in Nat /\ j.rows \in BOOLEAN
  BY DEF JobOK, JobType
<1>3. CASE j.rows
  <2>1. 1 <= j.from /\ j.from < j.to /\ j.to <= Length
    BY <1>2, <1>3 DEF JobOK, Indivisible
  <2>2. middle \in Nat /\ j.from < middle /\ middle <= j.to
    BY <1>1, <1>2, <2>1
  <2> HIDE DEF middle
  <2>3. JobOK(RowView(j.from, middle - 1)) /\ JobOK(RowView(middle, j.to))
    BY <1>2, <2>1, <2>2, UnitsAdjoin DEF JobOK, JobType, RowView
  <2>4. Halves(j) = <<RowView(j.from, middle - 1), RowView(middle, j.to)>>
    BY <1>3 DEF Halves, middle
  <2>5. PICK u \in 1..Units : UnitFirst(u) <= j.from /\ j.to <= UnitLast[u] /\ OneSlice(u, u)
    BY <1>3 DEF WellCut
  <2>6. UnitFirst(u) \in Nat /\ UnitLast[u] \in Nat
    BY UnitsAdjoin
  <2>7. WellCut(RowView(j.from, middle - 1)) /\ WellCut(RowView(middle, j.to))
    BY <1>2, <2>2, <2>5, <2>6 DEF WellCut, RowView
  <2> QED BY <1>2, <1>3, <2>2, <2>3, <2>4, <2>7 DEF First, LastOf, RowView
<1>4. CASE ~j.rows /\ j.from < j.to
  <2>1. 1 <= j.from /\ j.to <= Units /\ OneSlice(j.from, j.to)
    BY <1>2, <1>4 DEF JobOK, WellCut
  <2>2. middle \in Nat /\ j.from < middle /\ middle <= j.to
    BY <1>1, <1>2, <1>4
  <2> HIDE DEF middle
  <2>3. JobOK(Window(j.from, middle - 1)) /\ JobOK(Window(middle, j.to))
    BY <1>2, <2>1, <2>2, DocumentAssumption DEF JobOK, JobType, Window
  <2>4. WellCut(Window(j.from, middle - 1)) /\ WellCut(Window(middle, j.to))
    <3>1. OneSlice(j.from, middle - 1) /\ OneSlice(middle, j.to)
      BY <1>2, <2>1, <2>2, PartOfSlice
    <3> QED BY <3>1 DEF WellCut, Window
  <2>5. middle \in 1..Units /\ middle - 1 \in 1..Units /\ middle = (middle - 1) + 1
    BY <1>2, <2>1, <2>2, DocumentAssumption
  <2>6. UnitFirst(middle) = UnitLast[middle - 1] + 1
    BY <2>5, UnitsAdjoin
  <2>7. Halves(j) = <<Window(j.from, middle - 1), Window(middle, j.to)>>
    BY <1>4 DEF Halves, middle
  <2> QED BY <1>4, <2>3, <2>4, <2>6, <2>7 DEF First, LastOf, Window
<1>5. CASE ~j.rows /\ ~(j.from < j.to)
  <2>1. j.from = j.to /\ j.from \in 1..Units /\ OneSlice(j.from, j.from)
    BY <1>2, <1>5, DocumentAssumption DEF JobOK, WellCut
  <2>2. a \in Nat \ {0} /\ b \in Nat /\ a <= b /\ b <= Length /\ Length \in Nat
    BY <2>1, UnitsAdjoin
  <2>3. a # b
    BY <1>5, <2>1 DEF Indivisible
  <2>4. middleRow \in Nat /\ a < middleRow /\ middleRow <= b
    BY <1>1, <2>2, <2>3
  <2>5. Halves(j) = <<RowView(a, middleRow - 1), RowView(middleRow, b)>>
    BY <1>5 DEF Halves
  <2>6. First(j) = a /\ LastOf(j) = b
    BY <1>5, <2>1 DEF First, LastOf
  <2>8. WellCut(RowView(a, middleRow - 1)) /\ WellCut(RowView(middleRow, b))
    BY <2>1, <2>2, <2>4 DEF WellCut, RowView
  <2> HIDE DEF a, b, middleRow
  <2>7. JobOK(RowView(a, middleRow - 1)) /\ JobOK(RowView(middleRow, b))
    BY <2>2, <2>4 DEF JobOK, JobType, RowView
  <2> QED BY <2>2, <2>4, <2>5, <2>6, <2>7, <2>8 DEF First, LastOf, RowView
<1> QED BY <1>2, <1>3, <1>4, <1>5

-----------------------------------------------------------------------------
(* The invariant *)

\* What was handed on before the stack, and what the slices so far hold.
Done == IF result = <<>> THEN 0 ELSE result[Len(result)].last
SliceEnd == IF start > Units THEN Length ELSE UnitFirst(start) - 1

\* The jobs on the stack follow each other, from what was handed on to the end
\* of the slice.
Covers(jobs, a, b) ==
    /\ jobs = <<>> => a = b
    /\ jobs # <<>> => First(jobs[1]) = a + 1 /\ LastOf(jobs[Len(jobs)]) = b
    /\ \A i \in 1..Len(jobs) - 1 : First(jobs[i + 1]) = LastOf(jobs[i]) + 1

StackCovers == Covers(stack, Done, SliceEnd)
StackWellCut == \A i \in 1..Len(stack) : WellCut(stack[i])
\* The next slice begins at a multiple of window_size.
SlicesEven == \E k \in Nat : start = k * WindowSize + 1
ResultPrefix == (result # <<>> => result[1].first = 1) /\ Adjoin

Inv == /\ TypeOK /\ StackCovers /\ StackWellCut /\ SlicesEven /\ ResultPrefix
       /\ WindowsWellCut

\* Taking the first job off leaves jobs from its end on.
LEMMA CoversTail ==
    ASSUME NEW jobs \in Seq(JobType), jobs # <<>>, NEW a \in Nat, NEW b \in Nat,
           Covers(jobs, a, b)
    PROVE  /\ Tail(jobs) \in Seq(JobType)
           /\ \A i \in 1..Len(Tail(jobs)) : i + 1 \in 1..Len(jobs) /\ Tail(jobs)[i] = jobs[i + 1]
           /\ Covers(Tail(jobs), LastOf(Head(jobs)), b)
           /\ Head(jobs) = jobs[1] /\ 1 \in 1..Len(jobs) /\ First(Head(jobs)) = a + 1
<1> DEFINE t == Tail(jobs)
           n == Len(jobs)
<1>1. n \in Nat /\ n >= 1 /\ Head(jobs) = jobs[1]
  BY LenProperties, EmptySeq
<1>2. t \in Seq(JobType) /\ Len(t) = n - 1 /\ \A i \in 1..Len(t) : t[i] = jobs[i + 1]
  BY HeadTailProperties
<1> HIDE DEF t
<1>3. \A i \in 1..Len(t) : i + 1 \in 1..n
  BY <1>1, <1>2
<1>4. CASE t = <<>>
  <2>1. n = 1
    BY <1>1, <1>2, <1>4, EmptySeq
  <2> QED BY <1>1, <1>2, <1>3, <1>4, <2>1, EmptySeq DEF Covers, t
<1>5. CASE t # <<>>
  <2>1. Len(t) \in Nat \ {0}
    BY <1>2, <1>5, EmptySeq
  <2>2. 1 \in 1..Len(t) /\ 1 \in 1..n - 1 /\ Len(t) \in 1..Len(t) /\ Len(t) + 1 = n
    BY <1>1, <1>2, <2>1
  <2>3. First(t[1]) = LastOf(jobs[1]) + 1
    BY <1>2, <2>2 DEF Covers
  <2>4. LastOf(t[Len(t)]) = b
    BY <1>2, <2>2 DEF Covers
  <2>5. ASSUME NEW i \in 1..Len(t) - 1
        PROVE  First(t[i + 1]) = LastOf(t[i]) + 1
    <3>1. i \in 1..Len(t) /\ i + 1 \in 1..Len(t) /\ i + 1 \in 1..n - 1
      BY <1>2, <2>1, <2>2
    <3> QED BY <1>2, <3>1 DEF Covers
  <2> QED BY <1>1, <1>2, <1>3, <1>5, <2>3, <2>4, <2>5 DEF Covers, t
<1> QED BY <1>4, <1>5

\* Putting two jobs that follow each other in front of the others.
LEMMA CoversPush ==
    ASSUME NEW jobs \in Seq(JobType), NEW a \in Nat, NEW m \in Nat, NEW b \in Nat,
           Covers(jobs, m, b), NEW l \in JobType, NEW r \in JobType,
           First(l) = a + 1, LastOf(r) = m, First(r) = LastOf(l) + 1
    PROVE  /\ <<l, r>> \o jobs \in Seq(JobType)
           /\ Len(<<l, r>> \o jobs) = Len(jobs) + 2
           /\ (<<l, r>> \o jobs)[1] = l
           /\ (<<l, r>> \o jobs)[2] = r
           /\ \A i \in 1..Len(jobs) : (<<l, r>> \o jobs)[i + 2] = jobs[i]
           /\ Covers(<<l, r>> \o jobs, a, b)
<1> DEFINE p == <<l, r>>
           q == p \o jobs
           n == Len(jobs)
<1>1. n \in Nat /\ p \in Seq(JobType) /\ Len(p) = 2 /\ p[1] = l /\ p[2] = r
  BY LenProperties
<1> HIDE DEF p
<1>2. q \in Seq(JobType) /\ Len(q) = n + 2
  <2>1. q \in Seq(JobType) /\ Len(q) = Len(p) + Len(jobs)
    BY <1>1, ConcatProperties
  <2> QED BY <1>1, <2>1
<1>3. \A i \in 1..n + 2 : q[i] = IF i <= 2 THEN p[i] ELSE jobs[i - 2]
  <2>1. \A i \in 1..Len(p) + Len(jobs) : q[i] = IF i <= Len(p) THEN p[i] ELSE jobs[i - Len(p)]
    BY <1>1, ConcatProperties
  <2>2. 2 + n = n + 2
    BY <1>1
  <2> QED BY <1>1, <2>1, <2>2
<1> HIDE DEF q
<1>4. q[1] = l /\ q[2] = r
  BY <1>1, <1>3
<1>5. ASSUME NEW i \in 1..n
      PROVE  q[i + 2] = jobs[i]
  <2>1. i + 2 \in 1..n + 2 /\ ~(i + 2 <= 2) /\ (i + 2) - 2 = i
    BY <1>1
  <2> QED BY <1>3, <2>1
<1>6. q # <<>>
  BY <1>1, <1>2, EmptySeq
<1>7. LastOf(q[n + 2]) = b
  <2>1. CASE jobs = <<>>
    BY <1>4, <2>1, EmptySeq DEF Covers
  <2>2. CASE jobs # <<>>
    <3>1. n \in 1..n
      BY <1>1, <2>2, EmptySeq
    <3> QED BY <1>5, <2>2, <3>1 DEF Covers
  <2> QED BY <2>1, <2>2
<1>8. ASSUME NEW i \in 1..(n + 2) - 1
      PROVE  First(q[i + 1]) = LastOf(q[i]) + 1
  <2>1. CASE i = 1
    BY <1>4, <2>1
  <2>2. CASE i = 2
    <3>1. n # 0 /\ 1 \in 1..n
      BY <1>1, <2>2
    <3>2. jobs # <<>> /\ q[1 + 2] = jobs[1]
      BY <3>1, <1>5, EmptySeq
    <3> QED BY <1>4, <2>2, <3>2 DEF Covers
  <2>3. CASE i > 2
    <3> DEFINE k == i - 2
    <3>1. k \in 1..n - 1 /\ k \in 1..n /\ k + 1 \in 1..n /\ i = k + 2 /\ i + 1 = (k + 1) + 2
      BY <1>1, <2>3
    <3> HIDE DEF k
    <3>2. q[i] = jobs[k] /\ q[i + 1] = jobs[k + 1]
      BY <3>1, <1>5
    <3> QED BY <3>1, <3>2 DEF Covers
  <2> QED BY <1>1, <2>1, <2>2, <2>3
<1>9. Covers(q, a, b)
  BY <1>2, <1>4, <1>6, <1>7, <1>8 DEF Covers
<1> QED BY <1>1, <1>2, <1>4, <1>5, <1>9 DEF q, p

-----------------------------------------------------------------------------
(* The invariant holds initially *)

LEMMA InitInv == Init => Inv
<1> SUFFICES ASSUME Init PROVE Inv
  OBVIOUS
<1>1. TypeOK
  BY DEF Init, TypeOK
<1>2. Done = 0 /\ SliceEnd = 0
  <2>1. CASE Units = 0
    BY <2>1 DEF Init, Done, SliceEnd, Length
  <2>2. CASE Units # 0
    BY <2>2, DocumentAssumption DEF Init, Done, SliceEnd, UnitFirst
  <2> QED BY <2>1, <2>2
<1>3. StackCovers /\ StackWellCut
  BY <1>2 DEF Init, StackCovers, StackWellCut, Covers
<1>4. ResultPrefix /\ WindowsWellCut
  BY DEF Init, ResultPrefix, Adjoin, WindowsWellCut
<1>5. SlicesEven
  <2>1. 0 * WindowSize + 1 = 1
    BY WindowAssumption
  <2> QED BY <2>1 DEF Init, SlicesEven
<1> QED BY <1>1, <1>3, <1>4, <1>5 DEF Inv

-----------------------------------------------------------------------------
(* Every step preserves the invariant *)

\* What was handed on is a number of evidence, and so is the end of the slices.
LEMMA Counted ==
    ASSUME TypeOK
    PROVE  Done \in Nat /\ SliceEnd \in Nat
<1>1. Done \in Nat
  <2>1. CASE result = <<>>
    BY <2>1 DEF Done
  <2>2. CASE result # <<>>
    <3>1. Len(result) \in 1..Len(result)
      BY <2>2, EmptySeq DEF TypeOK
    <3>2. result[Len(result)] \in ResultType
      BY <3>1, ElementOfSeq DEF TypeOK, ResultType
    <3> QED BY <2>2, <3>2 DEF Done, ResultType
  <2> QED BY <2>1, <2>2
<1>2. SliceEnd \in Nat
  <2>1. CASE start > Units
    BY <2>1, UnitsAdjoin DEF SliceEnd
  <2>2. CASE ~(start > Units)
    <3>1. start \in 1..Units
      BY <2>2, DocumentAssumption DEF TypeOK
    <3> QED BY <2>2, <3>1, UnitsAdjoin DEF SliceEnd
  <2> QED BY <2>1, <2>2
<1> QED BY <1>1, <1>2

LEMMA NextSliceInv ==
    ASSUME Inv, NextSlice
    PROVE  Inv'
<1> DEFINE end == IF start + WindowSize - 1 <= Units THEN start + WindowSize - 1 ELSE Units
           j == Window(start, end)
<1>1. /\ phase' = phase /\ result' = result /\ start' = start + WindowSize
      /\ stack = <<>> /\ stack' = <<j>> /\ start <= Units
  BY DEF NextSlice
<1>2. start \in 1..Units /\ start \in Nat /\ WindowSize \in Nat \ {0} /\ Units \in Nat
  BY <1>1, DocumentAssumption, WindowAssumption DEF Inv, TypeOK
<1>3. end \in Nat /\ start <= end /\ end <= Units /\ end - start + 1 <= WindowSize /\ end \in 1..Units
  BY <1>2
<1>4. start' \in Nat \ {0} /\ (start' > Units => end = Units) /\ (~(start' > Units) => start' \in 1..Units /\ start' = end + 1)
  BY <1>1, <1>2
<1>13. PICK k \in Nat : start = k * WindowSize + 1
  BY DEF Inv, SlicesEven
<1>14. k * WindowSize \in Nat /\ k <= k * WindowSize
  <2>1. WindowSize - 1 \in Nat /\ k * (WindowSize - 1) \in Nat
    BY <1>2
  <2>2. k * WindowSize = k * (WindowSize - 1) + k
    BY <1>2
  <2> QED BY <2>1, <2>2
<1>15. SlicesEven'
  <2>1. (k + 1) * WindowSize = k * WindowSize + WindowSize
    BY <1>2
  <2> QED BY <1>1, <1>2, <1>13, <1>14, <2>1 DEF SlicesEven
<1>16. OneSlice(start, end)
  <2> DEFINE p == k * WindowSize
  <2>1. p \in Nat /\ start = p + 1 /\ k <= p
    BY <1>13, <1>14
  <2> HIDE DEF p
  <2>2. k \in 0..Units /\ p < start /\ end <= p + WindowSize
    BY <1>2, <2>1
  <2> QED BY <2>2 DEF OneSlice, p
<1> HIDE DEF end
<1>5. j \in JobType /\ JobOK(j) /\ WellCut(j) /\ First(j) = UnitFirst(start) /\ LastOf(j) = UnitLast[end]
  BY <1>2, <1>3, <1>16 DEF JobOK, JobType, Window, WellCut, First, LastOf
<1> HIDE DEF j
<1>6. stack' \in Seq(JobType) /\ Len(stack') = 1 /\ stack'[1] = j /\ stack' # <<>>
  BY <1>1, <1>5, LenProperties
<1>7. TypeOK'
  BY <1>1, <1>4, <1>5, <1>6 DEF Inv, TypeOK
<1>8. StackWellCut'
  BY <1>5, <1>6 DEF StackWellCut
<1>9. SliceEnd' = UnitLast[end]
  <2>1. CASE start' > Units
    <3>1. end = Units /\ Units # 0
      BY <2>1, <1>2, <1>4
    <3> QED BY <2>1, <3>1 DEF SliceEnd, Length
  <2>2. CASE ~(start' > Units)
    <3>1. UnitFirst(start') = UnitLast[end] + 1 /\ UnitLast[end] \in Nat
      BY <2>2, <1>3, <1>4, UnitsAdjoin
    <3> QED BY <2>2, <3>1 DEF SliceEnd
  <2> QED BY <2>1, <2>2
<1>10. Done' = Done /\ First(j) = Done + 1
  <2>1. Done = UnitFirst(start) - 1
    BY <1>1, <1>2 DEF Inv, StackCovers, Covers, SliceEnd
  <2>2. UnitFirst(start) \in Nat
    BY <1>2, UnitsAdjoin
  <2> QED BY <1>1, <1>5, <2>1, <2>2 DEF Done
<1>11. StackCovers'
  <2>1. Covers(stack', Done', SliceEnd')
    BY <1>5, <1>6, <1>9, <1>10 DEF Covers
  <2> QED BY <2>1 DEF StackCovers
<1>12. (ResultPrefix /\ WindowsWellCut)'
  BY <1>1 DEF Inv, ResultPrefix, Adjoin, WindowsWellCut
<1> QED BY <1>7, <1>8, <1>11, <1>12, <1>15 DEF Inv

LEMMA EmitInv ==
    ASSUME Inv, NEW fits \in BOOLEAN, Emit(fits)
    PROVE  /\ Inv'
           /\ Done' \in Done + 1..Length
<1> DEFINE j == Head(stack)
           e == Emitted(j, fits)
           n == Len(result)
<1>1. /\ phase' = phase /\ start' = start /\ stack # <<>> /\ stack' = Tail(stack)
      /\ result' = Append(result, e) /\ (fits \/ Indivisible(j))
  BY DEF Emit
<1>2. Done \in Nat /\ SliceEnd \in Nat /\ Length \in Nat
  BY Counted, UnitsAdjoin DEF Inv
<1>3. /\ Tail(stack) \in Seq(JobType)
      /\ \A i \in 1..Len(Tail(stack)) : i + 1 \in 1..Len(stack) /\ Tail(stack)[i] = stack[i + 1]
      /\ Covers(Tail(stack), LastOf(j), SliceEnd)
      /\ j = stack[1] /\ 1 \in 1..Len(stack) /\ First(j) = Done + 1
  BY <1>1, <1>2, CoversTail DEF Inv, TypeOK, StackCovers
<1>4. JobOK(j) /\ WellCut(j)
  BY <1>3 DEF Inv, TypeOK, StackWellCut
<1> HIDE DEF j
<1>5. First(j) \in Nat /\ LastOf(j) \in Nat /\ First(j) <= LastOf(j) /\ LastOf(j) <= Length
  BY <1>4, JobEvidence
<1>6. /\ e \in ResultType /\ e.first = First(j) /\ e.last = LastOf(j) /\ e.fits = fits
      /\ e.units = IF j.rows THEN 1 ELSE j.to - j.from + 1
  <2>1. CASE j.rows
    BY <1>5, <2>1 DEF Emitted, ResultType
  <2>2. CASE ~j.rows
    <3>1. j.from \in Nat /\ j.to \in Nat /\ j.from <= j.to
      BY <1>4, <2>2 DEF JobOK, JobType
    <3> QED BY <1>5, <2>2, <3>1 DEF Emitted, ResultType
  <2> QED BY <2>1, <2>2
<1>7. CutRight(e.first, e.last, e.units)
  BY <1>4, <1>6, JobCutRight
<1> HIDE DEF e
<1>8. result \in Seq(ResultType) /\ n \in Nat /\ (result = <<>> <=> n = 0)
  BY LenProperties, EmptySeq DEF Inv, TypeOK, ResultType
<1>9. /\ result' \in Seq(ResultType) /\ Len(result') = n + 1 /\ result' # <<>>
      /\ \A i \in 1..n : result'[i] = result[i]
      /\ result'[n + 1] = e
  BY <1>1, <1>6, <1>8, AppendProperties
<1>10. \A i \in 1..n + 1 : (i \in 1..n /\ result'[i] = result[i]) \/ (i = n + 1 /\ result'[i] = e)
  BY <1>8, <1>9
<1>11. Done' = LastOf(j) /\ SliceEnd' = SliceEnd
  BY <1>1, <1>6, <1>9 DEF Done, SliceEnd
<1>12. TypeOK'
  <2>1. \A i \in 1..Len(stack') : JobOK(stack'[i])
    BY <1>1, <1>3 DEF Inv, TypeOK
  <2> QED BY <1>1, <1>3, <1>9, <2>1 DEF Inv, TypeOK, ResultType
<1>13. StackCovers' /\ StackWellCut'
  <2>1. Covers(stack', Done', SliceEnd')
    BY <1>1, <1>3, <1>11
  <2>2. \A i \in 1..Len(stack') : WellCut(stack'[i])
    BY <1>1, <1>3 DEF Inv, StackWellCut
  <2> QED BY <2>1, <2>2 DEF StackCovers, StackWellCut
<1>14. ResultPrefix'
  <2>1. result'[1].first = 1
    <3>1. CASE n = 0
      BY <1>3, <1>6, <1>8, <1>9, <3>1 DEF Done
    <3>2. CASE n # 0
      <4>1. 1 \in 1..n
        BY <1>8, <3>2
      <4> QED BY <1>8, <1>9, <3>2, <4>1 DEF Inv, ResultPrefix
    <3> QED BY <3>1, <3>2
  <2>2. ASSUME NEW i \in 1..(n + 1) - 1
        PROVE  result'[i + 1].first = result'[i].last + 1
    <3>1. CASE i = n
      <4>1. n \in 1..n /\ n # 0
        BY <1>8, <3>1
      <4>2. result'[i].last = Done
        BY <1>8, <1>9, <3>1, <4>1 DEF Done
      <4> QED BY <1>3, <1>6, <1>9, <3>1, <4>2
    <3>2. CASE i # n
      <4>1. i \in 1..n /\ i + 1 \in 1..n /\ i \in 1..n - 1
        BY <1>8, <3>2
      <4> QED BY <1>9, <4>1 DEF Inv, ResultPrefix, Adjoin
    <3> QED BY <3>1, <3>2
  <2> QED BY <1>9, <2>1, <2>2 DEF ResultPrefix, Adjoin
<1>15. WindowsWellCut'
  BY <1>7, <1>9, <1>10 DEF Inv, WindowsWellCut
<1>17. SlicesEven'
  BY <1>1 DEF Inv, SlicesEven
<1>16. Done' \in Done + 1..Length
  BY <1>2, <1>3, <1>5, <1>11
<1> QED BY <1>12, <1>13, <1>14, <1>15, <1>16, <1>17 DEF Inv

LEMMA HalveInv ==
    ASSUME Inv, Halve
    PROVE  Inv'
<1> DEFINE j == Head(stack)
           t == Tail(stack)
<1>1. /\ phase' = phase /\ start' = start /\ result' = result
      /\ stack # <<>> /\ stack' = Halves(j) \o t /\ ~Indivisible(j)
  BY DEF Halve
<1>2. Done \in Nat /\ SliceEnd \in Nat
  BY Counted DEF Inv
<1>3. /\ t \in Seq(JobType)
      /\ \A i \in 1..Len(t) : i + 1 \in 1..Len(stack) /\ t[i] = stack[i + 1]
      /\ Covers(t, LastOf(j), SliceEnd)
      /\ j = stack[1] /\ 1 \in 1..Len(stack) /\ First(j) = Done + 1
  BY <1>1, <1>2, CoversTail DEF Inv, TypeOK, StackCovers
<1>4. JobOK(j) /\ WellCut(j)
  BY <1>3 DEF Inv, TypeOK, StackWellCut
<1>5. \A i \in 1..Len(t) : JobOK(t[i]) /\ WellCut(t[i])
  BY <1>3 DEF Inv, TypeOK, StackWellCut
<1> HIDE DEF j, t
<1>6. PICK l, r : /\ Halves(j) = <<l, r>>
                  /\ JobOK(l) /\ JobOK(r) /\ WellCut(l) /\ WellCut(r)
                  /\ First(l) = First(j) /\ LastOf(r) = LastOf(j)
                  /\ First(r) = LastOf(l) + 1
  BY <1>1, <1>4, HalvesCover
<1>7. l \in JobType /\ r \in JobType /\ LastOf(j) \in Nat
  BY <1>4, <1>6, JobEvidence DEF JobOK
<1>8. /\ stack' \in Seq(JobType) /\ Len(stack') = Len(t) + 2
      /\ stack'[1] = l /\ stack'[2] = r
      /\ \A i \in 1..Len(t) : stack'[i + 2] = t[i]
      /\ Covers(stack', Done, SliceEnd)
  BY <1>1, <1>2, <1>3, <1>6, <1>7, CoversPush
<1>9. ASSUME NEW i \in 1..Len(stack')
      PROVE  JobOK(stack'[i]) /\ WellCut(stack'[i])
  <2>1. CASE i = 1
    BY <1>6, <1>8, <2>1
  <2>2. CASE i = 2
    BY <1>6, <1>8, <2>2
  <2>3. CASE i > 2
    <3>1. Len(t) \in Nat
      BY <1>3, LenProperties
    <3>2. i - 2 \in 1..Len(t) /\ (i - 2) + 2 = i
      BY <1>8, <2>3, <3>1
    <3> QED BY <1>5, <1>8, <3>2
  <2> QED BY <2>1, <2>2, <2>3
<1>10. TypeOK' /\ StackWellCut'
  BY <1>1, <1>8, <1>9 DEF Inv, TypeOK, StackWellCut
<1>11. StackCovers'
  BY <1>1, <1>8 DEF StackCovers, Done, SliceEnd
<1>12. (SlicesEven /\ ResultPrefix /\ WindowsWellCut)'
  BY <1>1 DEF Inv, SlicesEven, ResultPrefix, Adjoin, WindowsWellCut
<1> QED BY <1>10, <1>11, <1>12 DEF Inv

\* Nothing but the phase, or nothing at all, changes.
LEMMA PhaseInv ==
    ASSUME Inv, UNCHANGED <<start, stack, result>>,
           phase' \in {"splitting", "returned", "failed"}
    PROVE  Inv'
BY DEF Inv, TypeOK, StackCovers, StackWellCut, SlicesEven, Done, SliceEnd, ResultPrefix,
       Adjoin, WindowsWellCut

LEMMA NextInv == Inv /\ [Next]_vars => Inv'
<1> SUFFICES ASSUME Inv, [Next]_vars PROVE Inv'
  OBVIOUS
<1>1. CASE NextSlice
  BY <1>1, NextSliceInv
<1>2. ASSUME NEW fits \in BOOLEAN, Emit(fits) PROVE Inv'
  BY <1>2, EmitInv
<1>3. CASE Halve
  BY <1>3, HalveInv
<1>4. CASE CountFails \/ Return
  BY <1>4, PhaseInv DEF CountFails, Return
<1>5. CASE UNCHANGED vars
  BY <1>5, PhaseInv DEF vars, Inv, TypeOK
<1> QED BY <1>1, <1>2, <1>3, <1>4, <1>5 DEF Next

\* A step of planning is a step of the windows, or leaves them alone.
LEMMA WindowsMove ==
    [WindowsStep \/ PlanStep \/ WindowsDone]_allVars => [Next]_vars
BY DEF WindowsStep, PlanStep, WindowsDone, allVars

LEMMA InvHolds == PlanningSpec => []Inv
<1>1. PlanningInit => Inv
  BY InitInv DEF PlanningInit
<1>2. Inv /\ [WindowsStep \/ PlanStep \/ WindowsDone]_allVars => Inv'
  BY WindowsMove, NextInv
<1> QED BY <1>1, <1>2, PTL DEF PlanningSpec

-----------------------------------------------------------------------------
(* The theorems *)

\* No call of split_window or split_rows is about nothing, or about units or
\* rows the document has not.
THEOREM TypeCorrect == PlanningSpec => []TypeOK
<1>1. Inv => TypeOK
  BY DEF Inv
<1> QED BY <1>1, InvHolds, PTL

\* For every document, window_size and counter, a window is about units of one
\* slice, and a table that was cut into rows shares no window with another unit.
THEOREM WindowsCutRight == PlanningSpec => []WindowsWellCut
<1>1. Inv => WindowsWellCut
  BY DEF Inv
<1> QED BY <1>1, InvHolds, PTL

\* The windows hold all evidence of the document, once and in order: cutting
\* the windows implements handing on the evidence.
THEOREM WindowsHandOnInOrder == PlanningSpec => HandsOnInOrder
<1>1. PlanningInit => Flow!Init
  BY DEF PlanningInit, Init, Flow!Init, Frontier
<1>2. Inv /\ Inv' /\ [Next]_vars => [Flow!Next]_(Flow!vars)
  <2> SUFFICES ASSUME Inv, Inv', [Next]_vars PROVE [Flow!Next]_(Flow!vars)
    OBVIOUS
  <2>1. Frontier = Done /\ Frontier' = Done'
    <3>1. Frontier = Done
      BY DEF Inv, ResultPrefix, Frontier, Done
    <3>2. Frontier' = Done'
      BY DEF Inv, ResultPrefix, Frontier, Done
    <3> QED BY <3>1, <3>2
  <2>2. CASE UNCHANGED <<phase, result>>
    BY <2>2 DEF Flow!vars, Frontier, Adjoin
  <2>3. ASSUME NEW fits \in BOOLEAN, Emit(fits)
        PROVE  Flow!Next
    <3>1. Done' \in Done + 1..Length /\ phase = "splitting" /\ phase' = phase
      BY <2>3, EmitInv DEF Emit
    <3>2. Done \in Nat /\ Length \in Nat
      BY Counted, UnitsAdjoin DEF Inv
    <3>3. Done' \in 1..Length
      BY <3>1, <3>2
    <3>4. Flow!HandOn(Done')
      BY <2>1, <3>1 DEF Flow!HandOn
    <3> QED BY <3>3, <3>4 DEF Flow!Next
  <2>4. CASE CountFails
    BY <2>4 DEF CountFails, Flow!vars, Frontier, Adjoin
  <2>5. CASE Return
    <3>1. stack = <<>> /\ start > Units /\ phase = "splitting" /\ phase' = "returned" /\ result' = result
      BY <2>5 DEF Return
    <3>2. Done = Length
      BY <3>1 DEF Inv, StackCovers, Covers, SliceEnd
    <3>3. Done' = Done
      BY <3>1 DEF Done
    <3>4. Flow!Close
      BY <2>1, <3>1, <3>2, <3>3 DEF Flow!Close
    <3> QED BY <3>4 DEF Flow!Next
  <2> QED BY <2>2, <2>3, <2>4, <2>5 DEF Next, NextSlice, Halve, vars
<1>3. PlanningSpec => Flow!Init /\ [][Flow!Next]_(Flow!vars)
  BY <1>1, <1>2, WindowsMove, InvHolds, PTL DEF PlanningSpec
<1> QED BY <1>3 DEF HandsOnInOrder, Flow!Spec

-----------------------------------------------------------------------------
(* Choosing from a sequence *)

\* PlanMaterializer has its own instances of the library's operators.
LEMMA Same ==
    /\ \A s : Plan!FlattenSeq(s) = FlattenSeq(s)
    /\ \A s : Plan!ToSet(s) = ToSet(s)
    /\ \A S : Plan!Min(S) = Min(S) /\ Plan!Max(S) = Max(S)
<1>1. \A s : Plan!FlattenSeq(s) = FlattenSeq(s)
  BY DEF Plan!FlattenSeq, FlattenSeq
<1>2. \A s : Plan!ToSet(s) = ToSet(s)
  BY DEF Plan!ToSet, ToSet
<1>3. \A S : Plan!Min(S) = Min(S) /\ Plan!Max(S) = Max(S)
  BY DEF Plan!Min, Min, Plan!Max, Max
<1> QED BY <1>1, <1>2, <1>3

\* What is kept of a sequence is of its elements, and none of the set is lost.
LEMMA KeptIs ==
    ASSUME NEW A, NEW s \in Seq(A), NEW S
    PROVE  Plan!Kept(s, S) \in Seq(A \cap S) /\ ToSet(Plan!Kept(s, S)) = ToSet(s) \cap S
<1> DEFINE B == A \cap S
           one(a) == <<a>>
           none == <<>>
           ss == [i \in DOMAIN s |-> IF s[i] \in S THEN one(s[i]) ELSE none]
<1>1. \A a \in B : one(a) \in Seq(B) /\ ToSet(one(a)) = {a}
  BY DEF ToSet
<1>2. none \in Seq(B) /\ ToSet(none) = {}
  BY DEF ToSet
<1>3. DOMAIN s = 1..Len(s) /\ Len(s) \in Nat /\ \A i \in DOMAIN s : s[i] \in A
  OBVIOUS
<1> HIDE DEF one, none
<1>4. /\ ss \in Seq(Seq(B)) /\ DOMAIN ss = DOMAIN s
      /\ \A i \in DOMAIN s : ss[i] = IF s[i] \in S THEN one(s[i]) ELSE none
  <2>1. \A i \in DOMAIN s : (IF s[i] \in S THEN one(s[i]) ELSE none) \in Seq(B)
    BY <1>1, <1>2, <1>3
  <2>2. ss \in [1..Len(s) -> Seq(B)]
    BY <1>3, <2>1
  <2> QED BY <1>3, <2>2
<1>5. Plan!Kept(s, S) = FlattenSeq(ss)
  BY Same DEF Plan!Kept, one, none
<1> HIDE DEF ss
<1>6. FlattenSeq(ss) \in Seq(B) /\ ToSet(FlattenSeq(ss)) = UNION {ToSet(x) : x \in ToSet(ss)}
  BY <1>4, FlattenIn, FlattenHolds
<1>7. UNION {ToSet(x) : x \in ToSet(ss)} = ToSet(s) \cap S
  <2>1. ASSUME NEW a \in UNION {ToSet(x) : x \in ToSet(ss)} PROVE a \in ToSet(s) \cap S
    <3>1. PICK i \in DOMAIN s : a \in ToSet(ss[i])
      BY <1>4, <2>1 DEF ToSet
    <3>2. s[i] \in S /\ a = s[i]
      BY <1>1, <1>2, <1>3, <1>4, <3>1
    <3> QED BY <3>2 DEF ToSet
  <2>2. ASSUME NEW a \in ToSet(s) \cap S PROVE a \in UNION {ToSet(x) : x \in ToSet(ss)}
    <3>1. PICK i \in DOMAIN s : a = s[i]
      BY <2>2 DEF ToSet
    <3>2. ss[i] \in ToSet(ss)
      BY <1>4 DEF ToSet
    <3>3. ss[i] = one(a) /\ a \in A
      BY <1>3, <1>4, <2>2, <3>1
    <3>4. a \in ToSet(ss[i])
      BY <1>1, <2>2, <3>3
    <3> QED BY <3>2, <3>4
  <2> QED BY <2>1, <2>2
<1> QED BY <1>5, <1>6, <1>7

\* The rows of a unit are a sequence of numbers, and the units are numbered.
LEMMA UnitsAre ==
    /\ Plan!WindowUnits = 1..Len(RowsOf) /\ Len(RowsOf) \in Nat
    /\ \A u \in Plan!WindowUnits :
          /\ RowsOf[u] \in Seq(Nat)
          /\ Plan!RowSet(u) \in SUBSET Nat
<1>1. RowsOf \in Seq(Seq(Nat))
  BY PlanAssumption DEF Plan!InputsAssumption
<1>2. Plan!WindowUnits = 1..Len(RowsOf) /\ Len(RowsOf) \in Nat
  BY <1>1 DEF Plan!WindowUnits
<1>3. ASSUME NEW u \in Plan!WindowUnits PROVE RowsOf[u] \in Seq(Nat)
  BY <1>1, <1>2
<1> QED BY <1>2, <1>3, Same DEF Plan!RowSet, ToSet

LEMMA ItemsAre ==
    ASSUME NEW u \in Plan!WindowUnits
    PROVE  /\ Plan!Whole(u) \in Plan!ItemType /\ Plan!Whole(u).unit = u
           /\ \A S : Plan!Part(u, S) \in Plan!ItemType /\ Plan!Part(u, S).unit = u
<1>1. RowsOf[u] \in Seq(Nat)
  BY UnitsAre
<1>2. ASSUME NEW S PROVE Plan!Kept(RowsOf[u], S) \in Seq(Nat)
  <2>1. Plan!Kept(RowsOf[u], S) \in Seq(Nat \cap S)
    BY <1>1, KeptIs
  <2> QED BY <2>1
<1> QED BY <1>1, <1>2 DEF Plan!Whole, Plan!Part, Plan!ItemType

-----------------------------------------------------------------------------
(* Repairs *)

\* Chunks put in for what the plan left out name no context.
Repairs == {c \in Plan!ChunkType : c.context = {}}

LEMMA UnitRepairIs ==
    ASSUME NEW u \in Plan!WindowUnits
    PROVE  Plan!UnitRepair(u) \in Repairs
BY ItemsAre DEF Plan!UnitRepair, Repairs, Plan!ChunkType

LEMMA RowRepairIs ==
    ASSUME NEW u \in Plan!WindowUnits, NEW S \in SUBSET Nat, S # {}
    PROVE  Plan!RowRepair(u, S) \in Repairs
<1>1. Plan!Min(S) \in Nat
  BY SmallestIn, Same
<1>2. Plan!Part(u, S) \in Plan!ItemType
  BY ItemsAre
<1> HIDE DEF Plan!Part
<1>3. <<Plan!Part(u, S)>> \in Seq(Plan!ItemType)
  BY <1>2
<1>4. << <<u, Plan!Min(S)>> >> \in Seq(Plan!WindowUnits \X Nat)
  BY <1>1
<1> QED BY <1>3, <1>4 DEF Plan!RowRepair, Repairs, Plan!ChunkType

\* contiguous_ranges gives nonempty ranges of the rows.
LEMMA RunsAre ==
    ASSUME NEW s \in Seq(Nat), NEW S \in SUBSET ToSet(s)
    PROVE  Plan!Runs(S) \in Seq((SUBSET Nat) \ {{}})
<1> DEFINE starts == {r \in S : r - 1 \notin S}
           run(r) == {k \in S : k >= r /\ r..k \subseteq S}
           numbers == [k \in 1..Plan!Max(S) + 1 |-> k - 1]
           ascending == Plan!Kept(numbers, starts)
<1>1. S \subseteq Nat
  BY DEF ToSet
<1>2. CASE S = {}
  BY <1>2 DEF Plan!Runs
<1>3. CASE S # {}
  <2>1. Plan!Max(S) \in Nat
    <3> DEFINE at == {i \in 1..Len(s) : s[i] \in S}
    <3>1. Len(s) \in Nat /\ s \in [1..Len(s) -> Int] /\ at \in SUBSET (1..Len(s)) /\ at # {}
      BY <1>3 DEF ToSet
    <3>2. PICK i \in at : \A j \in at : s[j] <= s[i]
      <4> HIDE DEF at
      <4> QED BY <3>1, LargestKey
    <3>3. \A y \in S : \E j \in at : y = s[j]
      BY DEF ToSet
    <3>4. s[i] \in S /\ \A y \in S : s[i] >= y
      BY <1>1, <3>2, <3>3
    <3>5. Plan!Max(S) \in S
      <4> HIDE DEF at
      <4> QED BY <3>4 DEF Plan!Max
    <3> QED BY <1>1, <3>5
  <2>2. numbers \in Seq(Nat)
    BY <2>1
  <2> HIDE DEF numbers
  <2>3. ascending \in Seq(Nat \cap starts)
    <3> HIDE DEF starts
    <3> QED BY <2>2, KeptIs
  <2> HIDE DEF ascending
  <2>4. ASSUME NEW i \in DOMAIN ascending PROVE run(ascending[i]) \in (SUBSET Nat) \ {{}}
    <3>1. ascending[i] \in S /\ ascending[i] \in Nat
      BY <2>3
    <3>2. ascending[i] \in run(ascending[i])
      BY <3>1
    <3> QED BY <1>1, <3>2
  <2>5. Plan!Runs(S) = [i \in DOMAIN ascending |-> run(ascending[i])]
    BY <1>3 DEF Plan!Runs, ascending, numbers
  <2>6. DOMAIN ascending = 1..Len(ascending) /\ Len(ascending) \in Nat
    BY <2>3
  <2> HIDE DEF run
  <2> QED BY <2>4, <2>5, <2>6
<1> QED BY <1>2, <1>3

LEMMA OmittedAre ==
    ASSUME Plan!TypeOK
    PROVE  Plan!OmittedRuns \in Seq(Repairs)
<1> DEFINE n == Len(ranges)
           uses == {i \in DOMAIN ranges : \A j \in 1..i - 1 : Plan!RangeUnits[j] # Plan!RangeUnits[i]}
           places == [i \in DOMAIN ranges |-> i]
           first == Plan!Kept(places, uses)
           unit(k) == Plan!RangeUnits[first[k]]
           left(u) == Plan!RowSet(u) \ Plan!RowsAssigned(u)
           runs(u) == Plan!Runs(left(u))
           repairs(u) == [i \in DOMAIN runs(u) |-> Plan!RowRepair(u, runs(u)[i])]
           omitted == [k \in DOMAIN first |-> repairs(unit(k))]
<1>1. ranges \in Seq(Plan!WindowUnits \X SUBSET Nat) /\ n \in Nat /\ DOMAIN ranges = 1..n
  BY DEF Plan!TypeOK
<1>2. places \in Seq(DOMAIN ranges)
  BY <1>1
<1> HIDE DEF places, n
<1>3. first \in Seq((DOMAIN ranges) \cap uses)
  <2> HIDE DEF uses
  <2> QED BY <1>2, KeptIs
<1> HIDE DEF first
<1>4. ASSUME NEW k \in DOMAIN first PROVE unit(k) \in Plan!WindowUnits
  <2>1. first[k] \in DOMAIN ranges
    BY <1>3
  <2> QED BY <1>1, <2>1 DEF Plan!RangeUnits
<1>5. ASSUME NEW u \in Plan!WindowUnits PROVE repairs(u) \in Seq(Repairs)
  <2>1. RowsOf[u] \in Seq(Nat) /\ left(u) \in SUBSET ToSet(RowsOf[u])
    BY UnitsAre, Same DEF Plan!RowSet
  <2> HIDE DEF left
  <2>2. runs(u) \in Seq((SUBSET Nat) \ {{}})
    BY <2>1, RunsAre
  <2> HIDE DEF runs
  <2>3. \A i \in DOMAIN runs(u) : Plan!RowRepair(u, runs(u)[i]) \in Repairs
    <3>1. \A i \in DOMAIN runs(u) : runs(u)[i] \in SUBSET Nat /\ runs(u)[i] # {}
      BY <2>2
    <3> QED BY <3>1, RowRepairIs
  <2>4. DOMAIN runs(u) = 1..Len(runs(u)) /\ Len(runs(u)) \in Nat
    BY <2>2
  <2> QED BY <2>3, <2>4
<1>6. omitted \in Seq(Seq(Repairs))
  <2>1. DOMAIN first = 1..Len(first) /\ Len(first) \in Nat
    BY <1>3
  <2> HIDE DEF repairs, unit
  <2> QED BY <1>4, <1>5, <2>1
<1>7. Plan!OmittedRuns = FlattenSeq(omitted)
  BY Same DEF Plan!OmittedRuns, Plan!FirstUses, first, places
<1> HIDE DEF omitted
<1> QED BY <1>6, <1>7, FlattenIn

LEMMA MissingAre ==
    Plan!MissingUnits \in Seq(Repairs)
<1> DEFINE numbers == [u \in Plan!WindowUnits |-> u]
           missing == Plan!Kept(numbers, Plan!WindowUnits \ Plan!Covered)
<1>1. numbers \in Seq(Plan!WindowUnits)
  BY UnitsAre
<1> HIDE DEF numbers
<1>2. missing \in Seq(Plan!WindowUnits \cap (Plan!WindowUnits \ Plan!Covered))
  BY <1>1, KeptIs
<1>3. Plan!MissingUnits = [i \in DOMAIN missing |-> Plan!UnitRepair(missing[i])]
  BY DEF Plan!MissingUnits, numbers
<1> HIDE DEF missing
<1>4. DOMAIN missing = 1..Len(missing) /\ Len(missing) \in Nat
  BY <1>2
<1>5. \A i \in DOMAIN missing : Plan!UnitRepair(missing[i]) \in Repairs
  BY <1>2, UnitRepairIs
<1> QED BY <1>3, <1>4, <1>5

-----------------------------------------------------------------------------
(* What is seen before *)

ContextSeen(cs) ==
    \A i \in DOMAIN cs : \A u \in cs[i].context :
        \E j \in 1..i - 1 : u \in Plan!UnitsIn(cs[j])

\* The lists of chunks whose context comes before.
Lists == {cs \in Seq(Plan!ChunkType) : ContextSeen(cs)}

\* A chunk without context can be put in anywhere (_insert_repair_chunk).
LEMMA InsertedIn ==
    ASSUME NEW cs \in Lists, NEW c \in Repairs
    PROVE  Plan!Inserted(cs, c) \in Lists
<1> DEFINE n == Len(cs)
           later == {i \in 1..n : Plan!Before(Plan!SortKey(c), Plan!SortKey(cs[i]))}
           k == IF later = {} THEN n + 1 ELSE Min(later)
           put == Plan!Inserted(cs, c)
<1>1. cs \in Seq(Plan!ChunkType) /\ ContextSeen(cs) /\ c \in Plan!ChunkType /\ c.context = {}
  BY DEF Lists, Repairs
<1>2. n \in Nat /\ DOMAIN cs = 1..n
  BY <1>1
<1>3. k \in 1..n + 1
  <2>1. CASE later = {}
    BY <1>2, <2>1
  <2>2. CASE later # {}
    <3>1. later \in SUBSET Nat /\ later \in SUBSET (1..n)
      BY <1>2
    <3>2. Min(later) \in later
      <4> HIDE DEF later
      <4> QED BY <2>2, <3>1, SmallestIn
    <3>3. k = Min(later) /\ k \in 1..n
      BY <2>2, <3>1, <3>2
    <3> HIDE DEF k
    <3> QED BY <1>2, <3>3
  <2> QED BY <2>1, <2>2
<1>4. /\ put \in Seq(Plan!ChunkType) /\ Len(put) = n + 1
      /\ \A i \in 1..n + 1 : put[i] = IF i < k THEN cs[i] ELSE IF i = k THEN c ELSE cs[i - 1]
  <2>1. CASE later = {}
    <3>1. put = Append(cs, c)
      BY <2>1 DEF Plan!Inserted, Plan!SelectInSeq
    <3> HIDE DEF put, later
    <3> QED BY <1>1, <1>2, <2>1, <3>1
  <2>2. CASE later # {}
    <3>1. k = Min(later) /\ k \in 1..n
      <4>1. later \in SUBSET Nat /\ later \in SUBSET (1..n)
        BY <1>2
      <4> HIDE DEF later
      <4> QED BY <2>2, <4>1, SmallestIn
    <3>2. put = SubSeq(cs, 1, k - 1) \o <<c>> \o SubSeq(cs, k, Len(cs))
      <4> DEFINE found == Plan!SelectInSeq(cs, LAMBDA d : Plan!Before(Plan!SortKey(c), Plan!SortKey(d)))
      <4>1. found = IF later # {} THEN Plan!Min(later) ELSE 0
        BY DEF Plan!SelectInSeq
      <4>2. put = IF found = 0 THEN Append(cs, c) ELSE Plan!InsertAt(cs, found, c)
        BY DEF Plan!Inserted
      <4> HIDE DEF found, later, k, put
      <4>3. found = k /\ k # 0
        BY <1>2, <2>2, <3>1, <4>1, Same
      <4> QED BY <4>2, <4>3 DEF Plan!InsertAt
    <3> HIDE DEF put, later, k
    <3>3. k \in Nat /\ 1 <= k /\ k <= n
      BY <1>2, <3>1
    <3>4. /\ SubSeq(cs, 1, k - 1) \in Seq(Plan!ChunkType) /\ Len(SubSeq(cs, 1, k - 1)) = k - 1
          /\ SubSeq(cs, k, Len(cs)) \in Seq(Plan!ChunkType) /\ Len(SubSeq(cs, k, Len(cs))) = n - k + 1
          /\ \A i \in 1..k - 1 : SubSeq(cs, 1, k - 1)[i] = cs[i]
          /\ \A i \in 1..n - k + 1 : SubSeq(cs, k, Len(cs))[i] = cs[k + i - 1]
      BY <1>1, <1>2, <3>3
    <3> DEFINE a == SubSeq(cs, 1, k - 1)  b == SubSeq(cs, k, Len(cs))
    <3> HIDE DEF a, b
    <3>5. put = a \o <<c>> \o b
      BY <3>2 DEF a, b
    <3>6. /\ a \in Seq(Plan!ChunkType) /\ Len(a) = k - 1 /\ b \in Seq(Plan!ChunkType) /\ Len(b) = n - k + 1
          /\ \A i \in 1..k - 1 : a[i] = cs[i]
          /\ \A i \in 1..n - k + 1 : b[i] = cs[k + i - 1]
      BY <3>4 DEF a, b
    <3>7. put \in Seq(Plan!ChunkType) /\ Len(put) = n + 1
      <4>1. <<c>> \in Seq(Plan!ChunkType) /\ Len(<<c>>) = 1
        BY <1>1
      <4>2. a \o <<c>> \in Seq(Plan!ChunkType) /\ Len(a \o <<c>>) = k
        BY <3>3, <3>6, <4>1
      <4>3. a \o <<c>> \o b \in Seq(Plan!ChunkType) /\ Len(a \o <<c>> \o b) = Len(a \o <<c>>) + Len(b)
        <5> DEFINE e == a \o <<c>>
        <5>1. e \in Seq(Plan!ChunkType)
          BY <4>2
        <5> HIDE DEF e
        <5>2. b \in Seq(Plan!ChunkType)
          BY <3>6
        <5>3. e \o b \in Seq(Plan!ChunkType) /\ Len(e \o b) = Len(e) + Len(b)
          BY ONLY <5>1, <5>2, ConcatProperties
        <5> QED BY <5>3 DEF e
      <4>4. k + (n - k + 1) = n + 1
        BY <1>2, <3>3
      <4> QED BY <3>5, <3>6, <4>2, <4>3, <4>4
    <3>8. ASSUME NEW i \in 1..n + 1
          PROVE  put[i] = IF i < k THEN cs[i] ELSE IF i = k THEN c ELSE cs[i - 1]
      <4>1. CASE i < k
        BY <1>1, <1>2, <3>3, <3>5, <3>6, <4>1
      <4>2. CASE i = k
        BY <1>1, <1>2, <3>3, <3>5, <3>6, <4>2
      <4>3. CASE i > k
        <5>1. i - k \in 1..n - k + 1 /\ put[i] = b[i - k]
          BY <1>1, <1>2, <3>3, <3>5, <3>6, <4>3, SMTT(30)
        <5> QED BY <1>2, <3>3, <3>6, <4>3, <5>1
      <4> QED BY <1>2, <3>3, <4>1, <4>2, <4>3
    <3> QED BY <3>7, <3>8
  <2> QED BY <2>1, <2>2
<1> HIDE DEF put, k
<1>5. ContextSeen(put)
  <2> SUFFICES ASSUME NEW i \in 1..n + 1, NEW u \in put[i].context
               PROVE  \E j \in 1..i - 1 : u \in Plan!UnitsIn(put[j])
    BY <1>2, <1>4 DEF ContextSeen
  <2> DEFINE from == IF i < k THEN i ELSE i - 1
             to(j) == IF j < k THEN j ELSE j + 1
  <2>1. i # k
    BY <1>1, <1>4
  <2>2. from \in 1..n /\ put[i] = cs[from]
    BY <1>2, <1>3, <1>4, <2>1
  <2>3. PICK j \in 1..from - 1 : u \in Plan!UnitsIn(cs[j])
    <3> HIDE DEF from
    <3> QED BY <1>1, <1>2, <2>2 DEF ContextSeen
  <2>4. to(j) \in 1..i - 1 /\ to(j) \in 1..n + 1 /\ put[to(j)] = cs[j]
    BY <1>2, <1>3, <1>4, <2>1, <2>2, <2>3
  <2> QED BY <2>3, <2>4
<1> QED BY <1>4, <1>5 DEF Lists, put

\* So can any number of them, one after the other.
LEMMA FoldedIn ==
    ASSUME NEW cs \in Lists, NEW rs \in Seq(Repairs)
    PROVE  Plan!FoldLeft(Plan!Inserted, cs, rs) \in Lists
<1> DEFINE n == Len(rs)
           step == [k \in 1..n |-> [v \in Lists |-> Plan!Inserted(v, rs[k])]]
           eq(h) == [t \in SUBSET (DOMAIN rs) |->
                        IF t = {} THEN cs ELSE Plan!Inserted(h[t \ {Plan!Max(t)}], rs[Plan!Max(t)])]
           h == CHOOSE h : h = eq(h)
           p == [k \in 0..n |-> h[1..k]]
<1>0. n \in Nat /\ DOMAIN rs = 1..n /\ \A k \in 1..n : rs[k] \in Repairs
  OBVIOUS
<1>1. \A k \in 1..n : \A v \in Lists : Plan!Inserted(v, rs[k]) \in Lists
  BY <1>0, InsertedIn
<1>2. step \in FoldSteps(n, Lists)
  BY <1>1 DEF FoldSteps
<1>3. PICK f : FoldsSets(f, n, Lists, cs, step)
  <2> HIDE DEF step, n
  <2> QED BY <1>0, <1>2, SetsFold
<1>4. Plan!FoldLeft(Plan!Inserted, cs, rs) = h[DOMAIN rs]
  BY DEF Plan!FoldLeft, Plan!MapThenFoldSet
<1>5. f = eq(f)
  <2>1. f \in [SUBSET (1..n) -> Lists]
    BY <1>3 DEF FoldsSets
  <2>2. ASSUME NEW t \in SUBSET (1..n), t # {}
        PROVE  step[Max(t)][f[t \ {Max(t)}]] = Plan!Inserted(f[t \ {Plan!Max(t)}], rs[Plan!Max(t)])
    <3>1. Max(t) \in 1..n
      <4> HIDE DEF n
      <4> QED BY <1>0, <2>2, MaxIn
    <3>2. f[t \ {Max(t)}] \in Lists
      BY <2>1
    <3> QED BY <3>1, <3>2, Same
  <2>3. f = [t \in SUBSET (1..n) |-> IF t = {} THEN cs ELSE step[Max(t)][f[t \ {Max(t)}]]]
    BY <1>3 DEF FoldsSets
  <2> HIDE DEF step, n
  <2> QED BY <1>0, <2>2, <2>3
<1>6. h = eq(h)
  <2> HIDE DEF eq
  <2> QED BY <1>5
<1> HIDE DEF h
<1>7. \A t \in SUBSET (1..n) :
          h[t] = IF t = {} THEN cs ELSE Plan!Inserted(h[t \ {Plan!Max(t)}], rs[Plan!Max(t)])
  <2> HIDE DEF n
  <2> QED BY <1>0, <1>6
<1>8. h[{}] = cs
  <2>1. {} \in SUBSET (1..n)
    OBVIOUS
  <2> QED BY <1>7, <2>1
<1>9. ASSUME NEW k \in 1..n, h[1..k - 1] \in Lists PROVE h[1..k] = step[k][h[1..k - 1]]
  <2>1. 1..k \in SUBSET (1..n) /\ 1..k # {} /\ 1..k \ {k} = 1..k - 1 /\ Plan!Max(1..k) = k
    <3> HIDE DEF n, h
    <3> QED BY <1>0, UptoLast, Same
  <2>2. h[1..k] = Plan!Inserted(h[1..k - 1], rs[k])
    <3> HIDE DEF n
    <3> QED BY <1>7, <2>1
  <2>3. step[k][h[1..k - 1]] = Plan!Inserted(h[1..k - 1], rs[k])
    <3> HIDE DEF n
    <3> QED BY <1>9
  <2> QED BY <2>2, <2>3
<1>10. FoldTrace(p, n, Lists, cs, step)
  <2> HIDE DEF step, n
  <2>1. PrefixFold(h, n, Lists, cs, step)
    BY <1>0, <1>2, <1>8, <1>9 DEF PrefixFold
  <2> QED BY ONLY <2>1, FoldPrefixes
<1>11. p \in [0..n -> Lists]
  <2> HIDE DEF p, n, step
  <2> QED BY <1>10 DEF FoldTrace
<1>12. n \in 0..n /\ p[n] = h[DOMAIN rs]
  BY <1>0
<1> HIDE DEF p, n
<1> QED BY <1>4, <1>11, <1>12

-----------------------------------------------------------------------------
(* Operations *)

\* An operation that is carried out selects rows that the table has.
LEMMA OperationIs ==
    ASSUME NEW op \in PlanOps, op.unit \in Plan!WindowUnits, Plan!Outcome(op) # "raise"
    PROVE  /\ Plan!ItemFor(op) \in Plan!ItemType /\ Plan!ItemFor(op).unit = op.unit
           /\ Plan!SortKeyFor(op) \in Plan!WindowUnits \X Nat
           /\ Plan!Outcome(op) \in {"full", "rows"}
           /\ Plan!Outcome(op) = "rows" => Plan!Hull(op) \in SUBSET Nat
<1> DEFINE rs == op.ranges
           off == {i \in 1..Len(rs) : Plan!Outside(op.unit, rs[i]) \/ Plan!OffRow(op.unit, rs[i])}
<1>1. rs \in Seq(Int \X Int) /\ \A i \in DOMAIN rs : rs[i][1] <= rs[i][2]
  BY PlanAssumption DEF Plan!InputsAssumption
<1>2. Plan!ItemFor(op) \in Plan!ItemType /\ Plan!ItemFor(op).unit = op.unit
  BY ItemsAre DEF Plan!ItemFor
<1>3. Plan!Outcome(op) \in {"full", "rows"}
  BY DEF Plan!Outcome
<1>4. ASSUME Plan!Outcome(op) = "rows"
      PROVE  Plan!Hull(op) \in SUBSET Nat /\ Plan!Hull(op) # {}
  <2>1. rs # <<>> /\ Plan!Objection(op.unit, rs) = 0
    BY <1>4 DEF Plan!Outcome, Plan!Malformed
  <2>2. Plan!Objection(op.unit, rs) = IF off # {} THEN Plan!Min(off) ELSE 0
    BY DEF Plan!Objection, Plan!SelectInSeq
  <2>3. off = {}
    <3>1. off \in SUBSET Nat /\ \A i \in off : i # 0
      BY <1>1
    <3> HIDE DEF off
    <3> QED BY <2>1, <2>2, <3>1, SmallestIn, Same
  <2>4. \A i \in DOMAIN rs : rs[i][1] \in Nat /\ rs[i][2] \in Int /\ rs[i][1] <= rs[i][2]
    <3>1. \A i \in DOMAIN rs : ~Plan!OffRow(op.unit, rs[i])
      <4>1. DOMAIN rs = 1..Len(rs)
        BY <1>1
      <4> HIDE DEF rs
      <4> QED BY <2>3, <4>1
    <3> QED BY <1>1, <3>1, UnitsAre DEF Plan!OffRow
  <2>5. 1 \in DOMAIN rs
    BY <1>1, <2>1
  <2> HIDE DEF rs
  <2>6. rs[1][1] \in rs[1][1]..rs[1][2]
    BY <2>4, <2>5
  <2>7. \A i \in DOMAIN rs : rs[i][1]..rs[i][2] \subseteq Nat
    BY <2>4
  <2>8. Plan!Hull(op) = UNION {rs[i][1]..rs[i][2] : i \in DOMAIN rs}
    BY DEF rs, Plan!Hull
  <2> QED BY <2>5, <2>6, <2>7, <2>8
<1>5. Plan!SortKeyFor(op) \in Plan!WindowUnits \X Nat
  <2>1. CASE Plan!Outcome(op) = "full"
    BY <2>1 DEF Plan!SortKeyFor
  <2>2. CASE Plan!Outcome(op) = "rows"
    <3>1. Plan!Min(Plan!Hull(op)) \in Nat
      BY <1>4, <2>2, SmallestIn, Same
    <3> QED BY <2>2, <3>1 DEF Plan!SortKeyFor
  <2> QED BY <1>3, <2>1, <2>2
<1> QED BY <1>2, <1>3, <1>4, <1>5

-----------------------------------------------------------------------------
(* The invariant: what was assigned so far is shown by the chunks so far,  *)
(* and their context was shown before them.                                *)

\* What chunks show.
Shown(cs) == UNION {Plan!UnitsIn(cs[j]) : j \in DOMAIN cs}

\* While the plan is read, what it has claimed is shown by its chunks; when it is
\* over, the chunks hold the window.  At all times a chunk names as context only
\* what an earlier one has shown.
PlanInv ==
    /\ Plan!TypeOK
    /\ ContextSeen(chunks)
    /\ verdict = "reading" => Plan!Covered \subseteq Shown(chunks)
    /\ verdict # "reading" => Plan!AllKeys(chunks) = Plan!WindowKeys

LEMMA InitPlan ==
    ASSUME Plan!Init PROVE PlanInv
<1>1. MaxItems \in Nat
  BY PlanAssumption DEF Plan!InputsAssumption
<1>2. Plan!TypeOK
  BY <1>1 DEF Plan!Init, Plan!TypeOK
<1>3. chunks = <<>> /\ DOMAIN chunks = {} /\ full = {} /\ ranges = <<>> /\ DOMAIN ranges = {}
  BY DEF Plan!Init
<1>4. Plan!Covered = {}
  BY <1>3 DEF Plan!Covered
<1> QED BY <1>2, <1>3, <1>4 DEF PlanInv, ContextSeen, Plan!Init

\* One chunk per unit holds what the units of the window hold.
LEMMA FallbackIs ==
    /\ Plan!FallbackChunks \in Seq(Plan!ChunkType)
    /\ ContextSeen(Plan!FallbackChunks)
    /\ Plan!AllKeys(Plan!FallbackChunks) = Plan!WindowKeys
<1> DEFINE cs == Plan!FallbackChunks
<1>1. DOMAIN cs = Plan!WindowUnits /\ \A u \in Plan!WindowUnits : cs[u] = Plan!UnitRepair(u)
  BY DEF Plan!FallbackChunks
<1>2. \A u \in Plan!WindowUnits : cs[u] \in Plan!ChunkType /\ cs[u].context = {}
  BY <1>1, UnitRepairIs DEF Repairs
<1>3. cs \in Seq(Plan!ChunkType)
  BY <1>2, UnitsAre DEF Plan!FallbackChunks
<1>4. ContextSeen(cs)
  BY <1>1, <1>2 DEF ContextSeen
<1>5. ASSUME NEW u \in Plan!WindowUnits
      PROVE  Plan!KeysOf(cs[u].items) = Plan!Keys(Plan!Whole(u))
  <2> DEFINE Key == Plan!WindowUnits \X Int
             m == [a \in Plan!ItemType |-> Plan!Keys(a)]
             w == Plan!Whole(u)
  <2>1. \A a \in Plan!ItemType : Plan!Keys(a) \in Seq(Key)
    <3> SUFFICES ASSUME NEW a \in Plan!ItemType PROVE Plan!Keys(a) \in Seq(Key)
      OBVIOUS
    <3>1. a.unit \in Plan!WindowUnits /\ a.rows \in Seq(Nat)
      BY DEF Plan!ItemType
    <3>2. CASE a.rows = <<>>
      <4>1. <<a.unit, Plan!NoRow>> \in Key
        BY <3>1 DEF Plan!NoRow
      <4> QED BY <3>2, <4>1 DEF Plan!Keys
    <3>3. CASE a.rows # <<>>
      BY <3>1, <3>3 DEF Plan!Keys
    <3> QED BY <3>2, <3>3
  <2>2. m \in SequenceMaps(Plan!ItemType, Key)
    BY <2>1 DEF SequenceMaps
  <2>3. w \in Plan!ItemType /\ m[w] = Plan!Keys(w)
    BY ItemsAre
  <2>4. cs[u].items = <<w>>
    BY <1>1 DEF Plan!UnitRepair
  <2>5. Plan!KeysOf(<<w>>) = MapFlat(m, <<w>>)
    <3>1. \A i \in DOMAIN <<w>> : Plan!Keys(<<w>>[i]) = m[<<w>>[i]]
      BY <2>3
    <3> HIDE DEF m, w
    <3> QED BY <3>1, Same DEF Plan!KeysOf, MapFlat
  <2>6. MapFlat(m, <<w>>) = m[w]
    <3> HIDE DEF m, w, Key
    <3> QED BY <2>2, <2>3, MapFlatOne
  <2> QED BY <2>3, <2>4, <2>5, <2>6
<1>6. Plan!AllKeys(cs) = Plan!WindowKeys
  <2>1. Plan!AllKeys(cs) = Plan!FlattenSeq([u \in Plan!WindowUnits |-> Plan!KeysOf(cs[u].items)])
    BY <1>1 DEF Plan!AllKeys
  <2>2. Plan!WindowKeys = Plan!FlattenSeq([u \in Plan!WindowUnits |-> Plan!Keys(Plan!Whole(u))])
    BY DEF Plan!WindowKeys, Plan!KeysOf
  <2> HIDE DEF cs
  <2> QED BY <1>5, <2>1, <2>2
<1> QED BY <1>3, <1>4, <1>6

-----------------------------------------------------------------------------
(* The steps *)

\* An item that is read shows what it takes, and may name what earlier items
\* took.
LEMMA ReadKeeps ==
    ASSUME PlanInv, NEW ops \in Seq(PlanOps), NEW named \in Contexts, Plan!ReadItem(ops, named)
    PROVE  PlanInv'
<1> DEFINE norm == Plan!Normalized(ops)
           wanted == {op \in Plan!ToSet(norm) : Plan!Outcome(op) = "rows"}
           parts == Plan!Kept(norm, wanted)
           held == [i \in DOMAIN norm |-> Plan!ItemFor(norm[i])]
           keys == [i \in DOMAIN norm |-> Plan!SortKeyFor(norm[i])]
           new == Plan!PlanChunk(held, keys, named \cap Plan!Covered)
           taken == {norm[i].unit : i \in DOMAIN norm}
           n == Len(chunks)
<1>1. norm \in Seq(PlanOps)
  <2> DEFINE S == {op \in Plan!ToSet(ops) :
                      ~(/\ op.action = "include_rows"
                        /\ op.unit \in {u \in {ops[i].unit : i \in {j \in DOMAIN ops : ops[j].action = "include"}}
                                                \cap Plan!WindowUnits : Plan!IsTable(u)})}
  <2>1. norm = Plan!Kept(ops, S)
    BY DEF Plan!Normalized
  <2> HIDE DEF S
  <2>2. Plan!Kept(ops, S) \in Seq(PlanOps \cap S)
    BY KeptIs
  <2> HIDE DEF norm
  <2> QED BY <2>1, <2>2
<1>2. /\ verdict = "reading" /\ items < MaxItems /\ items' = items + 1 /\ verdict' = verdict
      /\ \A i \in DOMAIN norm : norm[i].unit \in Plan!WindowUnits /\ Plan!Outcome(norm[i]) # "raise"
      /\ full' = full \cup {norm[i].unit : i \in {j \in DOMAIN norm : Plan!Outcome(norm[j]) = "full"}}
      /\ ranges' = ranges \o [i \in DOMAIN parts |-> <<parts[i].unit, Plan!Hull(parts[i])>>]
      /\ chunks' = Append(chunks, new)
  BY DEF Plan!ReadItem, Plan!Readable
<1> HIDE DEF norm
<1>3. DOMAIN norm = 1..Len(norm) /\ Len(norm) \in Nat /\ \A i \in DOMAIN norm : norm[i] \in PlanOps
  BY <1>1
<1>4. \A i \in DOMAIN norm :
         /\ Plan!ItemFor(norm[i]) \in Plan!ItemType /\ Plan!ItemFor(norm[i]).unit = norm[i].unit
         /\ Plan!SortKeyFor(norm[i]) \in Plan!WindowUnits \X Nat
         /\ Plan!Outcome(norm[i]) = "rows" => Plan!Hull(norm[i]) \in SUBSET Nat
  BY <1>2, <1>3, OperationIs
<1>5. /\ parts \in Seq(PlanOps)
      /\ \A k \in DOMAIN parts : \E i \in DOMAIN norm :
            parts[k] = norm[i] /\ Plan!Outcome(norm[i]) = "rows"
  <2> HIDE DEF wanted
  <2>1. parts \in Seq(PlanOps \cap wanted) /\ ToSet(parts) = ToSet(norm) \cap wanted
    BY <1>1, KeptIs
  <2> HIDE DEF parts
  <2>2. \A k \in DOMAIN parts : parts[k] \in wanted
    BY <2>1
  <2> QED BY <2>1, <2>2, Same DEF wanted, ToSet
<1> HIDE DEF parts
<1>6. held \in Seq(Plan!ItemType) /\ keys \in Seq(Plan!WindowUnits \X Nat)
  BY <1>3, <1>4
<1>7. named \cap Plan!Covered \in SUBSET Plan!WindowUnits
  BY PlanAssumption DEF Plan!InputsAssumption
<1>8. new \in Plan!ChunkType /\ new.items = held /\ new.context = named \cap Plan!Covered
  <2> HIDE DEF held, keys
  <2> QED BY <1>6, <1>7 DEF Plan!PlanChunk, Plan!ChunkType
<1>9. Plan!UnitsIn(new) = taken
  <2>1. DOMAIN held = DOMAIN norm /\ \A i \in DOMAIN norm : held[i].unit = norm[i].unit
    BY <1>4
  <2> HIDE DEF held, new
  <2> QED BY <1>8, <2>1 DEF Plan!UnitsIn
<1> HIDE DEF new, held, keys
<1>10. /\ chunks \in Seq(Plan!ChunkType) /\ n \in Nat /\ DOMAIN chunks = 1..n
       /\ chunks' \in Seq(Plan!ChunkType) /\ DOMAIN chunks' = 1..n + 1
       /\ chunks'[n + 1] = new /\ \A i \in 1..n : chunks'[i] = chunks[i]
  BY <1>2, <1>8, AppendProperties DEF PlanInv, Plan!TypeOK
<1>11. /\ ranges \in Seq(Plan!WindowUnits \X SUBSET Nat)
       /\ ranges' \in Seq(Plan!WindowUnits \X SUBSET Nat)
       /\ \A k \in DOMAIN ranges' : \/ \E i \in DOMAIN ranges : ranges'[k] = ranges[i]
                                    \/ ranges'[k][1] \in taken
  <2> DEFINE more == [i \in DOMAIN parts |-> <<parts[i].unit, Plan!Hull(parts[i])>>]
  <2>1. \A k \in DOMAIN parts : parts[k].unit \in taken /\ <<parts[k].unit, Plan!Hull(parts[k])>> \in Plan!WindowUnits \X SUBSET Nat
    BY <1>2, <1>4, <1>5
  <2>2. DOMAIN parts = 1..Len(parts) /\ Len(parts) \in Nat
    BY <1>5
  <2>3. more \in Seq(Plan!WindowUnits \X SUBSET Nat) /\ \A k \in DOMAIN more : more[k][1] \in taken
    <3> DEFINE pair(k) == <<parts[k].unit, Plan!Hull(parts[k])>>
    <3>1. \A k \in DOMAIN parts : pair(k) \in Plan!WindowUnits \X SUBSET Nat /\ pair(k)[1] \in taken
      BY <2>1
    <3>2. more = [i \in DOMAIN parts |-> pair(i)]
      OBVIOUS
    <3> HIDE DEF pair, more, taken
    <3> QED BY <2>2, <3>1, <3>2
  <2>4. ranges \in Seq(Plan!WindowUnits \X SUBSET Nat) /\ ranges' = ranges \o more
    BY <1>2 DEF PlanInv, Plan!TypeOK
  <2> HIDE DEF more, taken
  <2>5. ranges \o more \in Seq(Plan!WindowUnits \X SUBSET Nat)
    BY <2>3, <2>4
  <2>6. \A k \in DOMAIN (ranges \o more) :
            \/ k \in DOMAIN ranges /\ (ranges \o more)[k] = ranges[k]
            \/ k - Len(ranges) \in DOMAIN more /\ (ranges \o more)[k] = more[k - Len(ranges)]
    BY <2>3, <2>4
  <2> QED BY <2>3, <2>4, <2>5, <2>6
<1>12. full' \in SUBSET Plan!WindowUnits /\ full' \subseteq full \cup taken
  BY <1>2 DEF PlanInv, Plan!TypeOK
<1>13. Plan!TypeOK'
  <2>1. items' \in 0..MaxItems
    BY <1>2, PlanAssumption DEF PlanInv, Plan!TypeOK, Plan!InputsAssumption
  <2> QED BY <1>2, <1>10, <1>11, <1>12, <2>1 DEF Plan!TypeOK, PlanInv
<1>14. Shown(chunks)' = Shown(chunks) \cup taken
  <2>1. Shown(chunks)' = UNION {Plan!UnitsIn(chunks'[j]) : j \in 1..n + 1}
    BY <1>10 DEF Shown, Plan!UnitsIn
  <2>2. 1..n + 1 = (1..n) \cup {n + 1}
    BY <1>10
  <2>3. \A j \in 1..n : Plan!UnitsIn(chunks'[j]) = Plan!UnitsIn(chunks[j])
    BY <1>10
  <2> HIDE DEF taken
  <2> QED BY <1>9, <1>10, <2>1, <2>2, <2>3 DEF Shown
<1>15. Plan!Covered' \subseteq Shown(chunks)'
  <2>1. Plan!Covered' = full' \cup {ranges'[i][1] : i \in DOMAIN ranges'}
    BY DEF Plan!Covered
  <2>2. Plan!Covered = full \cup {ranges[i][1] : i \in DOMAIN ranges} /\ Plan!Covered \subseteq Shown(chunks)
    BY <1>2 DEF Plan!Covered, PlanInv
  <2> HIDE DEF taken
  <2> QED BY <1>11, <1>12, <1>14, <2>1, <2>2
<1>16. ContextSeen(chunks)'
  <2> SUFFICES ASSUME NEW i \in 1..n + 1, NEW u \in chunks'[i].context
               PROVE  \E j \in 1..i - 1 : u \in Plan!UnitsIn(chunks'[j])
    BY <1>10, SMTT(30) DEF ContextSeen, Plan!UnitsIn
  <2>1. CASE i \in 1..n
    <3>1. PICK j \in 1..i - 1 : u \in Plan!UnitsIn(chunks[j])
      BY <1>10, <2>1 DEF PlanInv, ContextSeen
    <3> QED BY <1>10, <2>1, <3>1
  <2>2. CASE i = n + 1
    <3>1. u \in Shown(chunks)
      BY <1>2, <1>8, <1>10, <2>2 DEF PlanInv
    <3>2. PICK j \in 1..n : u \in Plan!UnitsIn(chunks[j])
      BY <1>10, <3>1 DEF Shown
    <3> QED BY <1>10, <2>2, <3>2
  <2> QED BY <1>10, <2>1, <2>2
<1> QED BY <1>2, <1>13, <1>15, <1>16 DEF PlanInv

\* A plan that is refused leaves one chunk per unit.
LEMMA FallbackKeeps ==
    ASSUME PlanInv, verdict' = "refused", chunks' = Plan!FallbackChunks,
           UNCHANGED <<items, full, ranges>>
    PROVE  PlanInv'
<1>1. Plan!TypeOK'
  BY FallbackIs DEF PlanInv, Plan!TypeOK
<1>2. ContextSeen(chunks)' /\ Plan!AllKeys(chunks)' = Plan!WindowKeys
  BY FallbackIs DEF ContextSeen, Plan!UnitsIn, Plan!AllKeys, Plan!KeysOf, Plan!Keys
<1> QED BY <1>1, <1>2 DEF PlanInv

\* Repairs move chunks, but none before what its context was shown in.
LEMMA AcceptKeeps ==
    ASSUME PlanInv, Plan!Accept PROVE PlanInv'
<1>1. /\ verdict' = "accepted" /\ chunks' = Plan!Repaired /\ UNCHANGED <<items, full, ranges>>
      /\ Plan!AllKeys(Plan!Repaired) = Plan!WindowKeys
  BY DEF Plan!Accept, Plan!CoversWindow
<1>2. Plan!Repaired \in Lists
  <2> DEFINE rs == Plan!OmittedRuns \o Plan!MissingUnits
  <2>1. chunks \in Lists
    BY DEF PlanInv, Plan!TypeOK, Lists
  <2>2. Plan!OmittedRuns \in Seq(Repairs) /\ Plan!MissingUnits \in Seq(Repairs)
    BY OmittedAre, MissingAre DEF PlanInv
  <2>3. rs \in Seq(Repairs)
    BY <2>2
  <2> HIDE DEF rs
  <2>4. Plan!FoldLeft(Plan!Inserted, chunks, rs) \in Lists
    BY <2>1, <2>3, FoldedIn
  <2> QED BY <2>4 DEF Plan!Repaired, rs
<1>3. Plan!TypeOK'
  BY <1>1, <1>2 DEF PlanInv, Plan!TypeOK, Lists
<1>4. ContextSeen(chunks)' /\ Plan!AllKeys(chunks)' = Plan!WindowKeys
  BY <1>1, <1>2 DEF Lists, ContextSeen, Plan!UnitsIn, Plan!AllKeys, Plan!KeysOf, Plan!Keys
<1> QED BY <1>1, <1>3, <1>4 DEF PlanInv

LEMMA PlanStutters ==
    ASSUME PlanInv, UNCHANGED planVars PROVE PlanInv'
<1>1. UNCHANGED <<verdict, items, full, ranges, chunks>>
  BY DEF planVars
<1>2. Plan!TypeOK' /\ (verdict' = "reading" => verdict = "reading") /\ verdict' = verdict
  BY <1>1 DEF PlanInv, Plan!TypeOK
<1>3. Plan!Covered' = Plan!Covered /\ Shown(chunks)' = Shown(chunks)
  BY <1>1 DEF Plan!Covered, Shown, Plan!UnitsIn
<1>4. ContextSeen(chunks)' = ContextSeen(chunks)
  BY <1>1 DEF ContextSeen, Plan!UnitsIn
<1>5. Plan!AllKeys(chunks)' = Plan!AllKeys(chunks)
  BY <1>1 DEF Plan!AllKeys, Plan!KeysOf, Plan!Keys
<1> QED BY <1>2, <1>3, <1>4, <1>5 DEF PlanInv

LEMMA PlanKeeps ==
    ASSUME PlanInv, Plan!Next PROVE PlanInv'
<1>1. ASSUME NEW ops \in Plan!BoundedSeq(PlanOps, MaxOps), NEW named \in Contexts, Plan!ReadItem(ops, named)
      PROVE  PlanInv'
  <2>1. ops \in Seq(PlanOps)
    <3>1. PICK m \in 0..MaxOps : ops \in [1..m -> PlanOps]
      BY DEF Plan!BoundedSeq, Plan!SeqOf
    <3>2. m \in Nat
      BY PlanAssumption DEF Plan!InputsAssumption
    <3> QED BY <3>1, <3>2
  <2> QED BY <1>1, <2>1, ReadKeeps
<1>2. ASSUME NEW ops \in Plan!BoundedSeq(PlanOps, MaxOps), Plan!Refuse(ops)
      PROVE  PlanInv'
  BY <1>2, FallbackKeeps DEF Plan!Refuse
<1>3. CASE Plan!Accept
  BY <1>3, AcceptKeeps
<1>4. CASE Plan!Reject
  BY <1>4, FallbackKeeps DEF Plan!Reject
<1>5. CASE verdict # "reading" /\ UNCHANGED Plan!vars
  BY <1>5, PlanStutters DEF Plan!vars, planVars
<1> QED BY <1>1, <1>2, <1>3, <1>4, <1>5 DEF Plan!Next

\* However the planner answers, the window ends with chunks that hold every unit
\* and every row of it once and in order, and a chunk names as context only what
\* an earlier chunk has shown, also where repairs were put between them
\* (ChunkPlanMaterializer).
THEOREM PlansEndRight == PlanningSpec => []ResultRight
<1>1. PlanningInit => PlanInv
  BY InitPlan DEF PlanningInit
<1>2. PlanInv /\ [WindowsStep \/ PlanStep \/ WindowsDone]_allVars => PlanInv'
  <2> SUFFICES ASSUME PlanInv, [WindowsStep \/ PlanStep \/ WindowsDone]_allVars PROVE PlanInv'
    OBVIOUS
  <2>1. CASE Plan!Next
    BY <2>1, PlanKeeps
  <2>2. CASE UNCHANGED planVars
    BY <2>2, PlanStutters
  <2> QED BY <2>1, <2>2 DEF WindowsStep, PlanStep, WindowsDone, allVars
<1>3. PlanInv => ResultRight
  BY DEF PlanInv, ContextSeen, ResultRight, Plan!ResultRight, Plan!ResultCovers, Plan!ContextSeenBefore
<1> QED BY <1>1, <1>2, <1>3, PTL DEF PlanningSpec

=============================================================================
