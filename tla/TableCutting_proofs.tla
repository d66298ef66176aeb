--------------------------- MODULE TableCutting_proofs ---------------------------
(***************************************************************************)
(* Proofs about the rows of tables: the sweep over spanning cells finds    *)
(* what it should (RowSweep), the fragments of a row that is over the      *)
(* maximum spell it and fit (RowFragments), and the chunks of a chunk that *)
(* is cut at its tables keep its evidence (TableSplits), for all tables,   *)
(* rows, chunks, budgets and tokenizers.                                   *)
(***************************************************************************)
EXTENDS TableCutting, Induction

-----------------------------------------------------------------------------
(* The sweep over spanning cells. What makes it inductive: once the sweep  *)
(* is past row i, exactly the cells from i on still wait, and exactly the  *)
(* cells that span down to i are active; the rows are ascending, so that   *)
(* the next row only adds the cells between and drops those that ended.    *)

\* Where the sweep stands between two rows.
Swept ==
    IF at = 1 THEN waiting = DOMAIN spans /\ active = {}
    ELSE /\ waiting = {k \in DOMAIN spans : spans[k].first >= indexes[at - 1]}
         /\ active = Sweeping!SpanningTo(indexes[at - 1])

SweptInv == Sweeping!TypeOK /\ Swept /\ Sweeping!ContextRight

\* The sweep begins with every cell waiting and nothing found.
LEMMA InitSwept ==
    ASSUME Sweeping!IndexListsAssumption, Sweeping!Init PROVE SweptInv
<1>1. Len(indexes) \in Nat
  BY LenProperties DEF Sweeping!Init, Sweeping!IndexListsAssumption
<1>2. context \in Seq(SUBSET DOMAIN spans) /\ Len(context) = 0
  BY DEF Sweeping!Init
<1>3. Sweeping!TypeOK
  BY <1>1, <1>2 DEF Sweeping!Init, Sweeping!TypeOK
<1>4. Swept
  BY DEF Sweeping!Init, Swept
<1>5. Sweeping!ContextRight
  BY DEF Sweeping!Init, Sweeping!ContextRight
<1> QED
  BY <1>3, <1>4, <1>5 DEF SweptInv

\* What one row of the loop leaves active is what spans down to that row.
LEMMA SweepFinds ==
    ASSUME Sweeping!SpanListsAssumption, Sweeping!IndexListsAssumption,
           SweptInv, Sweeping!Sweep
    PROVE  /\ waiting' = {k \in DOMAIN spans : spans[k].first >= indexes[at]}
           /\ active' = Sweeping!SpanningTo(indexes[at])
<1> DEFINE i == indexes[at]
           begun == {k \in waiting : spans[k].first < i}
           ended == {k \in active \cup begun : spans[k].last < i}
<1>1. /\ at \in 1..Len(indexes)
      /\ indexes \in Seq(Int)
      /\ at \in Int
  BY DEF SweptInv, Sweeping!TypeOK, Sweeping!Sweep, Sweeping!IndexListsAssumption
<1>2. i \in Int
  BY <1>1
<1>3. \A k \in DOMAIN spans : /\ spans[k].first \in Int
                              /\ spans[k].last \in Int
                              /\ spans[k].first < spans[k].last
  <2>1. spans \in Seq([first : Int, last : Int])
    BY DEF SweptInv, Sweeping!TypeOK, Sweeping!SpanListsAssumption
  <2>2. \A k \in DOMAIN spans : spans[k] \in [first : Int, last : Int]
    BY <2>1, ElementOfSeq, LenProperties
  <2>3. \A k \in DOMAIN spans : spans[k].first < spans[k].last
    BY DEF SweptInv, Sweeping!TypeOK, Sweeping!SpanListsAssumption
  <2> QED
    BY <2>2, <2>3
<1>4. waiting' = waiting \ begun /\ active' = (active \cup begun) \ ended
  BY DEF Sweeping!Sweep
<1>5. CASE at = 1
  <2>1. waiting = DOMAIN spans /\ active = {}
    BY <1>5 DEF SweptInv, Swept
  <2> QED
    BY <1>2, <1>3, <1>4, <2>1 DEF Sweeping!SpanningTo
<1>6. CASE at # 1
  <2> DEFINE h == indexes[at - 1]
  <2>1. at - 1 \in DOMAIN indexes /\ at \in DOMAIN indexes /\ at - 1 < at
    BY <1>1, <1>6
  <2>2. h < i /\ h \in Int
    BY <2>1, <1>1 DEF SweptInv, Sweeping!TypeOK, Sweeping!IndexListsAssumption
  <2>3. /\ waiting = {k \in DOMAIN spans : spans[k].first >= h}
        /\ active = Sweeping!SpanningTo(h)
    BY <1>6 DEF SweptInv, Swept
  <2> HIDE DEF h, i
  <2>4. waiting' = {k \in DOMAIN spans : spans[k].first >= i}
    BY <1>2, <1>3, <1>4, <2>2, <2>3
  <2>5. active' = Sweeping!SpanningTo(i)
    BY <1>2, <1>3, <1>4, <2>2, <2>3 DEF Sweeping!SpanningTo
  <2> QED
    BY <2>4, <2>5 DEF i
<1> QED
  BY <1>5, <1>6

LEMMA SweepKeepsSwept ==
    ASSUME Sweeping!SpanListsAssumption, Sweeping!IndexListsAssumption,
           SweptInv, [Sweeping!Next]_(Sweeping!vars)
    PROVE  SweptInv'
<1>1. CASE UNCHANGED Sweeping!vars
  BY <1>1 DEF Sweeping!vars, SweptInv, Sweeping!TypeOK, Swept, Sweeping!ContextRight, Sweeping!SpanningTo
<1>2. CASE Sweeping!Sweep
  <2>1. /\ at' = at + 1 /\ spans' = spans /\ indexes' = indexes
        /\ context' = Append(context, active')
        /\ at \in 1..Len(indexes)
    BY <1>2 DEF Sweeping!Sweep, SweptInv, Sweeping!TypeOK
  <2>2. /\ waiting' = {k \in DOMAIN spans : spans[k].first >= indexes[at]}
        /\ active' = Sweeping!SpanningTo(indexes[at])
    BY <1>2, SweepFinds
  <2>3. active' \in SUBSET DOMAIN spans
    BY <2>2 DEF Sweeping!SpanningTo
  <2>4. Len(indexes) \in Nat
    BY LenProperties DEF SweptInv, Sweeping!TypeOK, Sweeping!IndexListsAssumption
  <2>5. /\ context \in Seq(SUBSET DOMAIN spans)
        /\ Len(context) = at - 1
    BY DEF SweptInv, Sweeping!TypeOK
  <2>6. /\ context' \in Seq(SUBSET DOMAIN spans)
        /\ Len(context') = at
        /\ \A p \in 1..Len(context) : context'[p] = context[p]
        /\ context'[at] = active'
    BY <2>1, <2>3, <2>4, <2>5, AppendProperties
  <2>7. Sweeping!TypeOK'
    BY <2>1, <2>2, <2>3, <2>4, <2>6 DEF Sweeping!TypeOK, SweptInv
  <2>8. Swept'
    BY <2>1, <2>2, <2>4 DEF Swept, Sweeping!SpanningTo
  <2>9. Sweeping!ContextRight'
    <3> SUFFICES ASSUME NEW p \in DOMAIN context'
                 PROVE  context'[p] = Sweeping!SpanningTo(indexes[p])
      BY <2>1 DEF Sweeping!ContextRight, Sweeping!SpanningTo
    <3>1. p \in 1..at
      BY <2>6, LenProperties
    <3>2. CASE p = at
      BY <3>2, <2>2, <2>6
    <3>3. CASE p # at
      <4>1. p \in 1..Len(context)
        BY <3>1, <3>3, <2>1, <2>4, <2>5
      <4>2. context[p] = Sweeping!SpanningTo(indexes[p])
        BY <4>1, <2>5, LenProperties DEF SweptInv, Sweeping!ContextRight
      <4> QED
        BY <4>1, <4>2, <2>6
    <3> QED
      BY <3>2, <3>3
  <2> QED
    BY <2>7, <2>8, <2>9 DEF SweptInv
<1> QED
  BY <1>1, <1>2 DEF Sweeping!Next

\* For every table, whatever its rows, gaps and overlapping cells, the sweep
\* finds for each row exactly the cells that span down to it.
THEOREM SweepRight == TablesSpec => []ContextRight
<1>1. TablesInit => SweptInv
  BY SweepingAssumption, InitSwept DEF TablesInit
<1>2. SweptInv /\ [TablesNext]_allVars => SweptInv'
  <2> SUFFICES ASSUME SweptInv, [TablesNext]_allVars PROVE SweptInv'
    OBVIOUS
  <2>1. [Sweeping!Next]_(Sweeping!vars)
    BY DEF TablesNext, SweepStep, RowsStep, CutStep, SplitStep, allVars, sweepVars, Sweeping!vars
  <2> QED BY <2>1, SweepingAssumption, SweepKeepsSwept
<1>3. SweptInv => ContextRight
  BY DEF SweptInv, ContextRight
<1> QED BY <1>1, <1>2, <1>3, PTL DEF TablesSpec

-----------------------------------------------------------------------------
(* The fragments of a row. What makes it inductive: what was cut off       *)
(* spells the cells before and the part of this cell that is done, the     *)
(* text comes before the children, every fragment was seen to fit where it *)
(* is, and so was the end that the bisection has found.                    *)

FragmentType == {f \in [cell : Nat, from : Nat, to : Nat, first : Nat, last : Nat] :
                    f.from <= f.to /\ f.first <= f.last}
Signs == Nat \X {"text", "child"} \X Nat

\* What a fragment spells, as a function of it.
Spelling == [f \in FragmentType |-> Spelled(f.cell, f.from, f.to, f.first, f.last)]

\* Where the cutting is: the text comes before the children, and the end that
\* the bisection has found was seen to fit.
Standing ==
    /\ fragments \in Seq(FragmentType)
    /\ cell = 0 => fragments = <<>> /\ phase = "children"
    /\ cell = Len(cells) + 1 => phase \in {"whole", "split"}
    /\ cell \in DOMAIN cells =>
          /\ cell \notin repeated
          /\ phase # "split"
          /\ phase = "text" => child = 0
          /\ phase = "children" => start = cells[cell].text
          /\ phase = "text" /\ start < end =>
                Answer(Fragment(cell, start, end, 0, 0), Leads, TRUE) \in answers

\* Every fragment was seen to fit, also while more are cut off.
FitSoFar == \A k \in 1..Len(fragments) : Answer(fragments[k], k = 1, TRUE) \in answers

FInv == TypeOK /\ FragmentsLossless /\ Standing /\ FitSoFar

-----------------------------------------------------------------------------
(* Spelling *)

\* Elements a + 1 to b of an unending sequence.
Unending(S) == [Nat -> S]
Piece(e, a, b) == [k \in 1..b - a |-> e[a + k]]

\* u is s followed by t.
Joined(s, t, u) == s \o t = u

LEMMA Pieces ==
    ASSUME NEW S, NEW e \in Unending(S)
    PROVE  /\ \A a, b \in Nat : a <= b => Piece(e, a, b) \in Seq(S) /\ Len(Piece(e, a, b)) = b - a
           /\ \A a, b, c \in Nat : a <= b /\ b <= c => Joined(Piece(e, a, b), Piece(e, b, c), Piece(e, a, c))
           /\ \A a \in Nat : Piece(e, a, a) = <<>>
<1>0. \A k \in Nat : e[k] \in S
  BY DEF Unending
<1>1. ASSUME NEW a \in Nat, NEW b \in Nat, a <= b
      PROVE  Piece(e, a, b) \in Seq(S) /\ Len(Piece(e, a, b)) = b - a
  <2> DEFINE n == b - a
  <2>1. n \in Nat /\ \A k \in 1..n : a + k \in Nat
    BY <1>1
  <2>2. Piece(e, a, b) = [k \in 1..n |-> e[a + k]]
    BY DEF Piece
  <2> HIDE DEF n
  <2>3. Piece(e, a, b) \in [1..n -> S]
    BY <1>0, <2>1, <2>2
  <2>4. Piece(e, a, b) \in Seq(S) /\ Len(Piece(e, a, b)) = n
    BY <2>1, <2>3
  <2> QED BY <2>4 DEF n
<1>2. ASSUME NEW a \in Nat, NEW b \in Nat, NEW c \in Nat, a <= b, b <= c
      PROVE  Joined(Piece(e, a, b), Piece(e, b, c), Piece(e, a, c))
  <2> DEFINE s == Piece(e, a, b)  t == Piece(e, b, c)  u == Piece(e, a, c)
  <2>0. a <= c /\ b - a \in Nat /\ c - b \in Nat /\ (b - a) + (c - b) = c - a
    BY <1>2
  <2>1. s \in Seq(S) /\ Len(s) = b - a /\ t \in Seq(S) /\ Len(t) = c - b /\ u \in Seq(S) /\ Len(u) = c - a
    BY <1>1, <1>2, <2>0
  <2>2. /\ \A k \in 1..b - a : s[k] = e[a + k]
        /\ \A k \in 1..c - b : t[k] = e[b + k]
        /\ \A k \in 1..c - a : u[k] = e[a + k]
    BY DEF Piece
  <2> HIDE DEF s, t, u
  <2>3. /\ s \o t \in Seq(S) /\ Len(s \o t) = Len(s) + Len(t)
        /\ \A k \in 1..Len(s) + Len(t) : (s \o t)[k] = IF k <= Len(s) THEN s[k] ELSE t[k - Len(s)]
    BY <2>1, ConcatProperties
  <2>4. ASSUME NEW k \in 1..c - a PROVE (s \o t)[k] = u[k]
    <3>0. (s \o t)[k] = IF k <= b - a THEN s[k] ELSE t[k - (b - a)]
      BY <2>0, <2>1, <2>3
    <3>1. CASE k <= b - a
      <4>1. k \in 1..b - a
        BY <3>1
      <4> QED BY <3>0, <3>1, <4>1, <2>2
    <3>2. CASE ~(k <= b - a)
      <4>1. k - (b - a) \in 1..c - b /\ b + (k - (b - a)) = a + k
        BY <3>2
      <4> QED BY <3>0, <3>2, <4>1, <2>2
    <3> QED BY <3>1, <3>2
  <2>5. s \o t = u
    <3>1. Len(s \o t) = c - a
      BY <2>0, <2>1, <2>3
    <3> QED BY <2>1, <2>3, <2>4, <3>1, SeqEqual
  <2> QED BY <2>5 DEF s, t, u, Joined
<1>3. ASSUME NEW a \in Nat PROVE Piece(e, a, a) = <<>>
  <2>1. a <= a /\ a - a = 0
    OBVIOUS
  <2>2. Piece(e, a, a) \in Seq(S) /\ Len(Piece(e, a, a)) = 0
    BY <1>1, <2>1
  <2> QED BY <2>2, EmptySeq
<1> QED BY <1>1, <1>2, <1>3

TextOf(i) == [k \in Nat |-> <<i, "text", k>>]
ChildrenOf(i) == [k \in Nat |-> <<i, "child", k>>]

LEMMA SpelledIs ==
    ASSUME NEW i \in Nat
    PROVE  /\ TextOf(i) \in Unending(Signs) /\ ChildrenOf(i) \in Unending(Signs)
           /\ \A a, b \in Nat : Part(i, "text", a, b) = Piece(TextOf(i), a, b)
           /\ \A a, b \in Nat : Part(i, "child", a, b) = Piece(ChildrenOf(i), a, b)
<1>1. TextOf(i) \in Unending(Signs) /\ ChildrenOf(i) \in Unending(Signs)
  BY DEF TextOf, ChildrenOf, Unending, Signs
<1>2. ASSUME NEW a \in Nat, NEW b \in Nat PROVE Part(i, "text", a, b) = Piece(TextOf(i), a, b)
  BY DEF Part, Piece, TextOf
<1>3. ASSUME NEW a \in Nat, NEW b \in Nat PROVE Part(i, "child", a, b) = Piece(ChildrenOf(i), a, b)
  BY DEF Part, Piece, ChildrenOf
<1> QED BY <1>1, <1>2, <1>3

\* The text and the children of a cell, piece by piece.
LEMMA PartsAdjoin ==
    ASSUME NEW i \in Nat
    PROVE  /\ \A a, b \in Nat : a <= b => /\ Part(i, "text", a, b) \in Seq(Signs)
                                         /\ Part(i, "child", a, b) \in Seq(Signs)
           /\ \A a, b, c \in Nat : a <= b /\ b <= c =>
                  /\ Joined(Part(i, "text", a, b), Part(i, "text", b, c), Part(i, "text", a, c))
                  /\ Joined(Part(i, "child", a, b), Part(i, "child", b, c), Part(i, "child", a, c))
           /\ \A a \in Nat : Part(i, "text", a, a) = <<>> /\ Part(i, "child", a, a) = <<>>
<1> DEFINE t == TextOf(i)  u == ChildrenOf(i)
<1>1. /\ t \in Unending(Signs) /\ u \in Unending(Signs)
      /\ \A a, b \in Nat : Part(i, "text", a, b) = Piece(t, a, b)
      /\ \A a, b \in Nat : Part(i, "child", a, b) = Piece(u, a, b)
  BY SpelledIs
<1> HIDE DEF t, u
<1>2. /\ \A a, b \in Nat : a <= b => Piece(t, a, b) \in Seq(Signs)
      /\ \A a, b, c \in Nat : a <= b /\ b <= c => Joined(Piece(t, a, b), Piece(t, b, c), Piece(t, a, c))
      /\ \A a \in Nat : Piece(t, a, a) = <<>>
  BY <1>1, Pieces
<1>3. /\ \A a, b \in Nat : a <= b => Piece(u, a, b) \in Seq(Signs)
      /\ \A a, b, c \in Nat : a <= b /\ b <= c => Joined(Piece(u, a, b), Piece(u, b, c), Piece(u, a, c))
      /\ \A a \in Nat : Piece(u, a, a) = <<>>
  BY <1>1, Pieces
<1>4. ASSUME NEW a \in Nat, NEW b \in Nat, NEW c \in Nat, a <= b, b <= c
      PROVE  /\ Joined(Part(i, "text", a, b), Part(i, "text", b, c), Part(i, "text", a, c))
             /\ Joined(Part(i, "child", a, b), Part(i, "child", b, c), Part(i, "child", a, c))
  <2>1. /\ Part(i, "text", a, b) = Piece(t, a, b) /\ Part(i, "text", b, c) = Piece(t, b, c)
        /\ Part(i, "text", a, c) = Piece(t, a, c)
    BY <1>1
  <2>2. /\ Part(i, "child", a, b) = Piece(u, a, b) /\ Part(i, "child", b, c) = Piece(u, b, c)
        /\ Part(i, "child", a, c) = Piece(u, a, c)
    BY <1>1
  <2> QED BY <1>2, <1>3, <1>4, <2>1, <2>2
<1> QED BY <1>1, <1>2, <1>3, <1>4

\* What is spelled is a sequence of signs, and grows with the text and with
\* the children behind it.
LEMMA SpelledIn ==
    ASSUME NEW i \in Nat, NEW a \in Nat, NEW b \in Nat, NEW c \in Nat, NEW d \in Nat, a <= b, c <= d
    PROVE  Spelled(i, a, b, c, d) \in Seq(Signs)
<1>1. Part(i, "text", a, b) \in Seq(Signs) /\ Part(i, "child", c, d) \in Seq(Signs)
  BY PartsAdjoin
<1> QED BY <1>1, ConcatProperties DEF Spelled

LEMMA TextGrows ==
    ASSUME NEW i \in Nat, NEW a \in Nat, NEW b \in Nat, NEW e \in Nat, a <= b, b <= e
    PROVE  /\ Spelled(i, a, b, 0, 0) \o Spelled(i, b, e, 0, 0) = Spelled(i, a, e, 0, 0)
           /\ Spelled(i, a, a, 0, 0) = <<>>
<1>1. a <= e
  OBVIOUS
<1>2. /\ Part(i, "text", a, b) \in Seq(Signs) /\ Part(i, "text", b, e) \in Seq(Signs)
      /\ Part(i, "text", a, e) \in Seq(Signs)
  BY <1>1, PartsAdjoin
<1>3. Joined(Part(i, "text", a, b), Part(i, "text", b, e), Part(i, "text", a, e))
  BY PartsAdjoin
<1>4. Part(i, "child", 0, 0) = <<>> /\ Part(i, "text", a, a) = <<>>
  BY PartsAdjoin
<1>5. \A s \in Seq(Signs) : s \o <<>> = s
  BY ConcatEmptySeq
<1>6. <<>> \o <<>> = <<>>
  OBVIOUS
<1> DEFINE s == Part(i, "text", a, b)  t == Part(i, "text", b, e)  u == Part(i, "text", a, e)
<1>7. Spelled(i, a, b, 0, 0) = s /\ Spelled(i, b, e, 0, 0) = t /\ Spelled(i, a, e, 0, 0) = u
  BY <1>2, <1>4, <1>5 DEF Spelled
<1> QED BY <1>3, <1>4, <1>6, <1>7 DEF Spelled, Joined

LEMMA ChildrenGrow ==
    ASSUME NEW i \in Nat, NEW a \in Nat, NEW b \in Nat, NEW e \in Nat,
           NEW c \in Nat, NEW d \in Nat, NEW g \in Nat, a <= b, c <= d, d <= g
    PROVE  Joined(Spelled(i, a, b, c, d), Spelled(i, e, e, d, g), Spelled(i, a, b, c, g))
<1> DEFINE s == Part(i, "text", a, b)  t == Part(i, "child", c, d)  u == Part(i, "child", d, g)
<1>1. s \in Seq(Signs) /\ t \in Seq(Signs) /\ u \in Seq(Signs)
  BY PartsAdjoin
<1>2. Joined(t, u, Part(i, "child", c, g)) /\ Part(i, "text", e, e) = <<>>
  BY PartsAdjoin
<1>3. Spelled(i, a, b, c, d) = s \o t /\ Spelled(i, e, e, d, g) = <<>> \o u
      /\ Spelled(i, a, b, c, g) = s \o (t \o u)
  BY <1>2 DEF Spelled, Joined
<1> HIDE DEF s, t, u
<1>4. (s \o t) \o u = s \o (t \o u) /\ <<>> \o u = u
  BY ONLY <1>1, ConcatAssociative, ConcatEmptySeq, SMTT(30)
<1> QED BY <1>3, <1>4 DEF Joined

-----------------------------------------------------------------------------
(* The row *)

CellType == [text : Nat, children : Nat]
RowType == Seq(CellType)
CellSpelled(c, r, i) == IF i \in r THEN <<>> ELSE Spelled(i, 0, c[i].text, 0, c[i].children)
RowSpelled(c, r, n) == FlattenSeq([i \in 1..n |-> CellSpelled(c, r, i)])

LEMMA SpellingMaps ==
    Spelling \in SequenceMaps(FragmentType, Signs)
<1>1. ASSUME NEW f \in FragmentType PROVE Spelled(f.cell, f.from, f.to, f.first, f.last) \in Seq(Signs)
  <2>1. /\ f.cell \in Nat /\ f.from \in Nat /\ f.to \in Nat /\ f.first \in Nat /\ f.last \in Nat
        /\ f.from <= f.to /\ f.first <= f.last
    BY DEF FragmentType
  <2> QED BY <2>1, SpelledIn
<1> QED BY <1>1 DEF Spelling, SequenceMaps

LEMMA CellSpelledIn ==
    ASSUME NEW c \in RowType, NEW r, NEW i \in 1..Len(c)
    PROVE  CellSpelled(c, r, i) \in Seq(Signs)
<1>1. i \in Nat /\ c[i].text \in Nat /\ c[i].children \in Nat
  <2>1. Len(c) \in Nat /\ c[i] \in CellType
    BY DEF RowType
  <2> QED BY <2>1 DEF CellType
<1>2. Spelled(i, 0, c[i].text, 0, c[i].children) \in Seq(Signs)
  <2>1. 0 \in Nat /\ 0 <= c[i].text /\ 0 <= c[i].children
    BY <1>1
  <2> QED BY <1>1, <2>1, SpelledIn
<1> QED BY <1>2 DEF CellSpelled

LEMMA RowGrows ==
    ASSUME NEW c \in RowType, NEW r
    PROVE  /\ RowSpelled(c, r, 0) = <<>>
           /\ \A n \in 0..Len(c) : RowSpelled(c, r, n) \in Seq(Signs)
           /\ \A n \in 0..Len(c) - 1 : RowSpelled(c, r, n + 1) = RowSpelled(c, r, n) \o CellSpelled(c, r, n + 1)
<1> DEFINE ss(n) == [i \in 1..n |-> CellSpelled(c, r, i)]
<1>1. Len(c) \in Nat
  BY DEF RowType
<1>2. ASSUME NEW n \in 0..Len(c) PROVE ss(n) \in Seq(Seq(Signs)) /\ Len(ss(n)) = n
  <2>1. n \in Nat /\ \A i \in 1..n : i \in 1..Len(c)
    BY <1>1
  <2>2. \A i \in 1..n : CellSpelled(c, r, i) \in Seq(Signs)
    BY <2>1, CellSpelledIn
  <2> QED BY <2>1, <2>2
<1>3. ASSUME NEW n \in 0..Len(c) PROVE RowSpelled(c, r, n) \in Seq(Signs)
  <2>1. ss(n) \in Seq(Seq(Signs))
    BY <1>2
  <2> HIDE DEF ss
  <2>2. FlattenSeq(ss(n)) \in Seq(Signs)
    BY <2>1, FlattenIn
  <2> QED BY <2>2 DEF RowSpelled, ss
<1>4. ASSUME NEW n \in 0..Len(c) - 1
      PROVE  RowSpelled(c, r, n + 1) = RowSpelled(c, r, n) \o CellSpelled(c, r, n + 1)
  <2>1. n \in 0..Len(c) /\ n + 1 \in 0..Len(c) /\ n + 1 \in 1..Len(c) /\ n \in Nat
    BY <1>1
  <2> DEFINE s == ss(n)  e == CellSpelled(c, r, n + 1)  t == ss(n + 1)
  <2>2. s \in Seq(Seq(Signs)) /\ Len(s) = n /\ t \in Seq(Seq(Signs)) /\ Len(t) = n + 1
    BY <1>2, <2>1
  <2>3. e \in Seq(Signs)
    BY <2>1, CellSpelledIn
  <2>4. /\ \A i \in 1..n : t[i] = s[i]
        /\ t[n + 1] = e
    BY <2>1
  <2> HIDE DEF s, e, t
  <2>5. t = Append(s, e)
    <3>1. Append(s, e) \in Seq(Seq(Signs)) /\ Len(Append(s, e)) = n + 1 /\ Append(s, e)[n + 1] = e
          /\ \A i \in 1..n : Append(s, e)[i] = s[i]
      BY <2>2, <2>3, AppendProperties
    <3>2. \A i \in 1..n + 1 : t[i] = Append(s, e)[i]
      BY <2>1, <2>4, <3>1
    <3> QED BY <2>2, <3>1, <3>2, SeqEqual
  <2>6. FlattenSeq(t) = FlattenSeq(s) \o e
    BY <2>2, <2>3, <2>5, FlattenAppend
  <2> QED BY <2>6 DEF RowSpelled, s, e, t
<1>5. RowSpelled(c, r, 0) = <<>>
  <2>1. ss(0) = <<>>
    OBVIOUS
  <2> QED BY <2>1 DEF RowSpelled, FlattenSeq
<1> QED BY <1>3, <1>4, <1>5

\* Cells that are repeated spell nothing.
LEMMA RepeatedSpellNothing ==
    ASSUME NEW c \in RowType, NEW r, NEW n \in 0..Len(c), NEW m \in n..Len(c), n + 1..m \subseteq r
    PROVE  RowSpelled(c, r, m) = RowSpelled(c, r, n)
<1> DEFINE T == {k \in n..m : RowSpelled(c, r, k) = RowSpelled(c, r, n)}
<1>0. Len(c) \in Nat /\ n \in Int /\ m \in Int /\ n <= m /\ m <= Len(c) /\ 0 <= n
  BY DEF RowType
<1>1. n <= m => n \in T
  BY <1>0
<1>2. ASSUME NEW k \in n..m - 1, k \in T PROVE k + 1 \in T
  <2>1. k \in 0..Len(c) /\ k \in 0..Len(c) - 1 /\ k + 1 \in n + 1..m /\ k + 1 \in n..m
    BY <1>0
  <2>2. RowSpelled(c, r, k + 1) = RowSpelled(c, r, k) \o CellSpelled(c, r, k + 1)
    BY <2>1, RowGrows
  <2>3. CellSpelled(c, r, k + 1) = <<>>
    BY <2>1 DEF CellSpelled
  <2>4. RowSpelled(c, r, k) \in Seq(Signs)
    BY <2>1, RowGrows
  <2>5. RowSpelled(c, r, k + 1) = RowSpelled(c, r, k)
    BY <2>2, <2>3, <2>4, ConcatEmptySeq
  <2> QED BY <1>2, <2>1, <2>5
<1>3. n..m \subseteq T
  <2> HIDE DEF T
  <2> QED BY <1>0, <1>1, <1>2, IntervalInduction
<1>4. m \in T
  BY <1>0, <1>3
<1> QED BY <1>4

\* The first cell behind another that is not repeated.
LEMMA NextCellIs ==
    ASSUME cells \in RowType, cell \in 0..Len(cells), repeated \subseteq DOMAIN cells
    PROVE  /\ NextCell \in cell + 1..Len(cells) + 1
           /\ NextCell \notin repeated
           /\ cell + 1..NextCell - 1 \subseteq repeated
<1> DEFINE n == Len(cells)
           T == {k \in cell + 1..n + 1 : cell + 1..k - 1 \subseteq repeated}
<1>0. n \in Nat /\ cell \in Nat /\ cell <= n /\ n + 1 \notin repeated
  BY DEF RowType
<1>1. \E i \in cell + 1..n + 1 : i \notin repeated /\ cell + 1..i - 1 \subseteq repeated
  <2> SUFFICES ASSUME \A i \in cell + 1..n + 1 : cell + 1..i - 1 \subseteq repeated => i \in repeated
               PROVE  FALSE
    OBVIOUS
  <2>1. cell + 1 <= n + 1 => cell + 1 \in T
    BY <1>0
  <2>2. ASSUME NEW k \in cell + 1..(n + 1) - 1, k \in T PROVE k + 1 \in T
    <3>1. k \in repeated
      BY <2>2
    <3>2. \A i \in cell + 1..(k + 1) - 1 : i \in cell + 1..k - 1 \/ i = k
      BY <1>0
    <3>3. k + 1 \in cell + 1..n + 1
      BY <1>0
    <3> QED BY <2>2, <3>1, <3>2, <3>3
  <2>3. cell + 1..n + 1 \subseteq T
    <3>1. cell + 1 \in Int /\ n + 1 \in Int
      BY <1>0
    <3> HIDE DEF T, n
    <3> QED BY <2>1, <2>2, <3>1, IntervalInduction
  <2>4. n + 1 \in T /\ n + 1 \in cell + 1..n + 1
    BY <1>0, <2>3
  <2> QED BY <1>0, <2>4
<1> HIDE DEF T
<1> QED BY <1>1 DEF NextCell

-----------------------------------------------------------------------------
(* The steps *)

\* What the fragments spell, where the cutting is, and that each spells a part
\* of a cell that is not repeated.
Lossless(c, r, i, ph, st, ch, fs) ==
    /\ ph = "split" => MapFlat(Spelling, fs) = RowSpelled(c, r, Len(c))
    /\ i \in DOMAIN c /\ ph \in {"text", "children"} =>
          MapFlat(Spelling, fs) = RowSpelled(c, r, i - 1) \o Spelled(i, 0, st, 0, ch)
PartOf(c, r, f) ==
    /\ f.cell \in DOMAIN c \ r
    /\ f.from <= f.to /\ f.first <= f.last
    /\ f.from < f.to \/ f.first < f.last

LEMMA FlatIs ==
    ASSUME NEW fs \in Seq(FragmentType)
    PROVE  FlattenSeq([k \in DOMAIN fs |-> Spelled(fs[k].cell, fs[k].from, fs[k].to, fs[k].first, fs[k].last)])
               = MapFlat(Spelling, fs)
<1>1. \A k \in DOMAIN fs : fs[k] \in FragmentType
  OBVIOUS
<1> DEFINE a == [k \in DOMAIN fs |-> Spelled(fs[k].cell, fs[k].from, fs[k].to, fs[k].first, fs[k].last)]
           b == [k \in DOMAIN fs |-> Spelling[fs[k]]]
<1>2. a = b
  BY <1>1 DEF Spelling
<1>3. MapFlat(Spelling, fs) = FlattenSeq(b)
  BY DEF MapFlat
<1> QED BY <1>2, <1>3

LEMMA LosslessIs ==
    /\ fragments \in Seq(FragmentType) =>
          (FragmentsLossless <=> Lossless(cells, repeated, cell, phase, start, child, fragments))
    /\ fragments' \in Seq(FragmentType) =>
          (FragmentsLossless' <=> Lossless(cells', repeated', cell', phase', start', child', fragments'))
<1>1. ASSUME fragments \in Seq(FragmentType) PROVE SpelledFragments = MapFlat(Spelling, fragments)
  BY <1>1, FlatIs DEF SpelledFragments
<1>2. ASSUME fragments' \in Seq(FragmentType) PROVE SpelledFragments' = MapFlat(Spelling, fragments')
  BY <1>2, FlatIs DEF SpelledFragments
<1>3. /\ SpelledRow(Len(cells)) = RowSpelled(cells, repeated, Len(cells))
      /\ SpelledRow(cell - 1) = RowSpelled(cells, repeated, cell - 1)
  BY DEF SpelledRow, RowSpelled, CellSpelled
<1>4. /\ SpelledRow(Len(cells))' = RowSpelled(cells', repeated', Len(cells'))
      /\ SpelledRow(cell - 1)' = RowSpelled(cells', repeated', cell' - 1)
  BY DEF SpelledRow, RowSpelled, CellSpelled
<1>5. ASSUME fragments \in Seq(FragmentType)
      PROVE  FragmentsLossless <=> Lossless(cells, repeated, cell, phase, start, child, fragments)
  BY <1>1, <1>3, <1>5 DEF FragmentsLossless, Lossless
<1>6. ASSUME fragments' \in Seq(FragmentType)
      PROVE  FragmentsLossless' <=> Lossless(cells', repeated', cell', phase', start', child', fragments')
  BY <1>2, <1>4, <1>6 DEF FragmentsLossless, Lossless
<1> QED BY <1>5, <1>6

LEMMA FragmentIs ==
    ASSUME NEW i \in Nat, NEW a \in Nat, NEW b \in Nat, NEW c \in Nat, NEW d \in Nat, a <= b, c <= d
    PROVE  /\ Fragment(i, a, b, c, d) \in FragmentType
           /\ Spelling[Fragment(i, a, b, c, d)] = Spelled(i, a, b, c, d)
<1>1. Fragment(i, a, b, c, d) \in FragmentType
  BY DEF Fragment, FragmentType
<1> QED BY <1>1 DEF Spelling, Fragment

\* One more fragment.
LEMMA FragmentAppends ==
    ASSUME NEW fs \in Seq(FragmentType), NEW f \in FragmentType
    PROVE  /\ Append(fs, f) \in Seq(FragmentType)
           /\ MapFlat(Spelling, fs) \in Seq(Signs)
           /\ Spelling[f] \in Seq(Signs)
           /\ MapFlat(Spelling, Append(fs, f)) = MapFlat(Spelling, fs) \o Spelling[f]
<1>1. Spelling \in SequenceMaps(FragmentType, Signs)
  BY SpellingMaps
<1> QED BY <1>1, MapFlatAppends

\* What the invariant says of the cell that is cut.
LEMMA CellFacts ==
    ASSUME RowsAssumption, FInv
    PROVE  /\ cells \in RowType /\ Len(cells) \in Nat /\ DOMAIN cells = 1..Len(cells)
           /\ repeated \subseteq DOMAIN cells
           /\ fragments \in Seq(FragmentType) /\ Len(fragments) \in Nat
           /\ cell \in 0..Len(cells) + 1
           /\ phase = "text" => cell \in 1..Len(cells)
           /\ phase = "children" /\ cell # 0 => cell \in 1..Len(cells)
           /\ cell \in 1..Len(cells) =>
                 /\ cells[cell].text \in Nat /\ cells[cell].children \in Nat
                 /\ start \in Nat /\ end \in Nat /\ child \in Nat
                 /\ low \in Nat /\ high \in Nat
                 /\ start <= end /\ end <= cells[cell].text /\ child <= cells[cell].children
                 /\ start < low /\ low <= cells[cell].text + 1
                 /\ start <= high /\ high <= cells[cell].text
<1>0. cells \in RowType
  BY DEF RowsAssumption, FInv, TypeOK, RowType, CellType
<1>1. /\ cells \in RowType /\ Len(cells) \in Nat /\ DOMAIN cells = 1..Len(cells)
      /\ \A i \in 1..Len(cells) : cells[i] \in CellType
  BY <1>0 DEF RowType
<1>2. /\ repeated \subseteq DOMAIN cells
      /\ fragments \in Seq(FragmentType) /\ Len(fragments) \in Nat
      /\ cell \in 0..Len(cells) + 1
  BY DEF FInv, TypeOK, Standing
<1>3. ASSUME cell \in 1..Len(cells)
      PROVE  /\ cells[cell].text \in Nat /\ cells[cell].children \in Nat
             /\ start \in Nat /\ end \in Nat /\ child \in Nat
             /\ low \in Nat /\ high \in Nat
             /\ start <= end /\ end <= cells[cell].text /\ child <= cells[cell].children
             /\ start < low /\ low <= cells[cell].text + 1
             /\ start <= high /\ high <= cells[cell].text
  <2>1. cells[cell].text \in Nat /\ cells[cell].children \in Nat
    BY <1>1, <1>3 DEF CellType
  <2>2. /\ start \in 0..cells[cell].text
        /\ end \in start..cells[cell].text
        /\ low \in start + 1..cells[cell].text + 1
        /\ high \in start..cells[cell].text
        /\ child \in 0..cells[cell].children
    BY <1>1, <1>3 DEF FInv, TypeOK
  <2> HIDE <1>3
  <2> QED BY <2>1, <2>2
<1>4. /\ phase = "text" => cell \in 1..Len(cells)
      /\ phase = "children" /\ cell # 0 => cell \in 1..Len(cells)
  <2>1. cell \in 1..Len(cells) \/ cell = 0 \/ cell = Len(cells) + 1
    BY <1>1, <1>2
  <2> QED BY <2>1 DEF FInv, Standing
<1> QED BY <1>1, <1>2, <1>3, <1>4

LEMMA FInit ==
    ASSUME RowsAssumption, Init PROVE FInv
<1>0. cells \in RowType
  BY DEF RowsAssumption, Init, RowType, CellType
<1>1. cells \in RowType /\ Len(cells) \in Nat /\ DOMAIN cells = 1..Len(cells)
  BY <1>0 DEF RowType
<1>2. fragments = <<>> /\ cell = 0 /\ cell \notin DOMAIN cells /\ phase = "children"
  BY <1>1 DEF Init
<1>3. TypeOK
  BY <1>1, <1>2 DEF Init, TypeOK
<1>4. FragmentsLossless /\ Standing /\ FitSoFar
  BY <1>1, <1>2 DEF FragmentsLossless, Standing, FitSoFar
<1> QED BY <1>3, <1>4 DEF FInv

\* While nothing is cut off, what was seen to fit stays so.
LEMMA FitStays ==
    ASSUME FitSoFar, fragments' = fragments, answers \subseteq answers' PROVE FitSoFar'
BY DEF FitSoFar

LEMMA AskGrows ==
    ASSUME NEW new, Ask(new) PROVE answers \subseteq answers' /\ new \subseteq answers'
BY DEF Ask

\* The bisection, its giving up and the end of the text cut nothing off.
LEMMA BisectKeeps ==
    ASSUME RowsAssumption, FInv, Bisect PROVE FInv'
<1> DEFINE n == cells[cell].text  middle == (low + high) \div 2
<1>0. cell \in 1..Len(cells) /\ DOMAIN cells = 1..Len(cells)
  BY CellFacts DEF Bisect
<1>1. /\ n \in Nat /\ start \in Nat /\ end \in Nat /\ low \in Nat /\ high \in Nat /\ child \in Nat
      /\ start <= end /\ end <= n /\ start < low /\ low <= n + 1 /\ start <= high /\ high <= n
      /\ child <= cells[cell].children /\ cells[cell].children \in Nat /\ fragments \in Seq(FragmentType)
  BY <1>0, CellFacts
<1>2. /\ phase = "text" /\ low <= high
      /\ UNCHANGED <<cells, repeated, cell, phase, start, child, fragments>>
  BY DEF Bisect
<1>3. PICK yes \in BOOLEAN :
          /\ Fits(Fragment(cell, start, middle, 0, 0), Leads, yes)
          /\ end' = IF yes THEN middle ELSE end
          /\ low' = IF yes THEN middle + 1 ELSE low
          /\ high' = IF yes THEN high ELSE middle - 1
  BY DEF Bisect
<1>4. middle \in Nat /\ low <= middle /\ middle <= high
  <2> HIDE <1>3
  <2> QED BY <1>1, <1>2
<1>5. answers \subseteq answers' /\ Answer(Fragment(cell, start, middle, 0, 0), Leads, yes) \in answers'
  BY <1>3, AskGrows DEF Fits
<1> HIDE DEF n, middle
<1>6. /\ start \in 0..n /\ end' \in start..n /\ low' \in start + 1..n + 1 /\ high' \in start..n
  BY <1>1, <1>2, <1>3, <1>4
<1>7. TypeOK'
  BY <1>0, <1>2, <1>6 DEF FInv, TypeOK, n
<1>8. FragmentsLossless'
  BY <1>1, <1>2, LosslessIs DEF FInv
<1>9. start < end' => Answer(Fragment(cell, start, end', 0, 0), Leads, TRUE) \in answers'
  <2>1. CASE yes = TRUE
    <3>1. end' = middle
      BY <1>3, <2>1
    <3> QED BY <1>5, <2>1, <3>1
  <2>2. CASE yes = FALSE
    <3>1. end' = end
      BY <1>3, <2>2
    <3>2. start < end => Answer(Fragment(cell, start, end, 0, 0), Leads, TRUE) \in answers
      BY <1>0, <1>2 DEF FInv, Standing
    <3> QED BY <1>5, <3>1, <3>2
  <2> QED BY <2>1, <2>2
<1>10. Standing'
  <2>1. Leads' = Leads
    BY <1>2 DEF Leads
  <2> QED BY <1>0, <1>2, <1>9, <2>1 DEF FInv, Standing
<1>11. FitSoFar'
  BY <1>2, <1>5, FitStays DEF FInv
<1> QED BY <1>7, <1>8, <1>10, <1>11 DEF FInv

LEMMA GiveUpKeeps ==
    ASSUME RowsAssumption, FInv, GiveUp PROVE FInv'
<1>1. /\ phase = "text" /\ phase' = "whole"
      /\ UNCHANGED <<cells, repeated, cell, start, low, high, end, child, fragments, answers>>
  BY DEF GiveUp
<1>2. fragments \in Seq(FragmentType) /\ cell \in 1..Len(cells) /\ Len(cells) \in Nat
  BY <1>1, CellFacts
<1>3. TypeOK'
  BY <1>1 DEF FInv, TypeOK
<1>4. FragmentsLossless'
  BY <1>1 DEF FragmentsLossless
<1>5. Standing'
  BY <1>1, <1>2 DEF FInv, Standing
<1>6. FitSoFar'
  BY <1>1, FitStays DEF FInv
<1> QED BY <1>3, <1>4, <1>5, <1>6 DEF FInv

LEMMA EndTextKeeps ==
    ASSUME RowsAssumption, FInv, EndText PROVE FInv'
<1>1. /\ phase = "text" /\ phase' = "children" /\ start = cells[cell].text
      /\ UNCHANGED <<cells, repeated, cell, start, low, high, end, child, fragments, answers>>
  BY DEF EndText
<1>2. fragments \in Seq(FragmentType) /\ cell \in 1..Len(cells) /\ Len(cells) \in Nat
  BY <1>1, CellFacts
<1>3. TypeOK'
  BY <1>1 DEF FInv, TypeOK
<1>4. FragmentsLossless'
  <2>1. Lossless(cells, repeated, cell, phase, start, child, fragments)
    BY <1>2, LosslessIs DEF FInv
  <2>2. Lossless(cells', repeated', cell', phase', start', child', fragments')
    BY <1>1, <2>1 DEF Lossless
  <2> QED BY <1>1, <1>2, <2>2, LosslessIs
<1>5. Standing'
  BY <1>1, <1>2 DEF FInv, Standing
<1>6. FitSoFar'
  BY <1>1, FitStays DEF FInv
<1> QED BY <1>3, <1>4, <1>5, <1>6 DEF FInv

\* One more fragment, seen to fit, of what comes next in the cell.
LEMMA FitGrows ==
    ASSUME FitSoFar, fragments \in Seq(FragmentType), NEW f \in FragmentType,
           fragments' = Append(fragments, f), answers \subseteq answers',
           Answer(f, Leads, TRUE) \in answers'
    PROVE  FitSoFar'
<1> DEFINE n == Len(fragments)
<1>1. n \in Nat /\ Len(fragments') = n + 1 /\ fragments'[n + 1] = f
      /\ \A k \in 1..n : fragments'[k] = fragments[k]
  OBVIOUS
<1>2. Leads <=> n + 1 = 1
  <2>1. fragments = <<>> <=> n = 0
    BY EmptySeq
  <2> QED BY <1>1, <2>1 DEF Leads
<1>3. Leads = (n + 1 = 1)
  BY <1>2 DEF Leads
<1>4. ASSUME NEW k \in 1..n + 1 PROVE Answer(fragments'[k], k = 1, TRUE) \in answers'
  <2>1. CASE k = n + 1
    <3>1. fragments'[k] = f /\ (k = 1) = Leads
      BY <1>1, <1>3, <2>1
    <3> QED BY <3>1
  <2>2. CASE k # n + 1
    <3>1. k \in 1..n
      BY <1>1, <2>2
    <3>2. Answer(fragments[k], k = 1, TRUE) \in answers
      BY <3>1 DEF FitSoFar
    <3> QED BY <1>1, <3>1, <3>2
  <2> QED BY <2>1, <2>2
<1> QED BY <1>1, <1>4 DEF FitSoFar

LEMMA PartsGrow ==
    ASSUME NEW c, NEW r, NEW fs \in Seq(FragmentType), NEW f \in FragmentType,
           \A k \in DOMAIN fs : PartOf(c, r, fs[k]), PartOf(c, r, f)
    PROVE  \A k \in DOMAIN Append(fs, f) : PartOf(c, r, Append(fs, f)[k])
<1> DEFINE n == Len(fs)  gs == Append(fs, f)
<1>1. /\ n \in Nat /\ DOMAIN fs = 1..n /\ DOMAIN gs = 1..n + 1 /\ gs[n + 1] = f
      /\ \A k \in 1..n : gs[k] = fs[k]
  OBVIOUS
<1>2. \A k \in 1..n + 1 : k \in 1..n \/ k = n + 1
  BY <1>1
<1> HIDE DEF n, gs
<1>3. \A k \in DOMAIN gs : PartOf(c, r, gs[k])
  BY <1>1, <1>2
<1> QED BY <1>3 DEF gs

LEMMA CutOffKeeps ==
    ASSUME RowsAssumption, FInv, NEW e \in Nat, phase = "text", start < e, e <= cells[cell].text,
           CutOff(e), UNCHANGED <<cells, repeated, cell, phase, child>>, answers \subseteq answers',
           Answer(Fragment(cell, start, e, 0, 0), Leads, TRUE) \in answers'
    PROVE  FInv'
<1> DEFINE n == cells[cell].text  f == Fragment(cell, start, e, 0, 0)
<1>0. cell \in 1..Len(cells) /\ DOMAIN cells = 1..Len(cells) /\ Len(cells) \in Nat /\ cells \in RowType
  BY CellFacts
<1>1. /\ n \in Nat /\ start \in Nat /\ child \in Nat /\ child <= cells[cell].children
      /\ cells[cell].children \in Nat /\ fragments \in Seq(FragmentType)
  BY <1>0, CellFacts
<1>2. child = 0 /\ cell \notin repeated
  BY <1>0 DEF FInv, Standing
<1>3. /\ fragments' = Append(fragments, f)
      /\ start' = e /\ low' = e + 1 /\ high' = n /\ end' = e
  BY DEF CutOff
<1>4. start <= e /\ 0 <= 0 /\ 0 \in Nat /\ 0 <= start
  BY <1>1
<1>5. cell \in Nat
  BY <1>0
<1>6. f \in FragmentType /\ Spelling[f] = Spelled(cell, start, e, 0, 0)
  BY <1>1, <1>4, <1>5, FragmentIs, SMTT(30)
<1>7. PartOf(cells, repeated, f)
  BY <1>0, <1>1, <1>2, <1>4 DEF PartOf, Fragment
<1> HIDE DEF f
<1>8. fragments' \in Seq(FragmentType)
  BY <1>1, <1>3, <1>6, FragmentAppends
<1>9. TypeOK'
  <2>1. \A k \in DOMAIN fragments : PartOf(cells, repeated, fragments[k])
    BY DEF FInv, TypeOK, PartOf
  <2>2. \A k \in DOMAIN fragments' : PartOf(cells, repeated, fragments'[k])
    BY <1>1, <1>3, <1>6, <1>7, <2>1, PartsGrow
  <2>3. \A k \in DOMAIN fragments' :
            /\ fragments'[k].cell \in DOMAIN cells' \ repeated'
            /\ fragments'[k].from <= fragments'[k].to /\ fragments'[k].first <= fragments'[k].last
            /\ fragments'[k].from < fragments'[k].to \/ fragments'[k].first < fragments'[k].last
    BY <2>2 DEF PartOf
  <2>4. /\ start' \in 0..n /\ end' \in start'..n /\ low' \in start' + 1..n + 1
        /\ high' \in start'..n /\ child \in 0..cells[cell].children
    BY <1>1, <1>3
  <2> QED BY <1>0, <2>3, <2>4 DEF FInv, TypeOK
<1>10. FragmentsLossless'
  <2>1. Lossless(cells, repeated, cell, phase, start, child, fragments)
    BY <1>1, LosslessIs DEF FInv
  <2> DEFINE all == MapFlat(Spelling, fragments)  row == RowSpelled(cells, repeated, cell - 1)
             one == Spelled(cell, 0, start, 0, 0)  two == Spelled(cell, start, e, 0, 0)
  <2>2. all = row \o one
    BY <1>0, <1>2, <2>1 DEF Lossless
  <2>3. MapFlat(Spelling, fragments') = all \o two
    BY <1>1, <1>3, <1>6, FragmentAppends
  <2>4. one \o two = Spelled(cell, 0, e, 0, 0)
    <3>1. cell \in Nat /\ 0 \in Nat /\ start \in Nat /\ e \in Nat /\ 0 <= start /\ start <= e
      BY <1>1, <1>4, <1>5
    <3> QED BY ONLY <3>1, TextGrows
  <2>5. one \in Seq(Signs) /\ two \in Seq(Signs)
    BY <1>1, <1>4, <1>5, SpelledIn
  <2>6. row \in Seq(Signs)
    <3>1. cell - 1 \in 0..Len(cells)
      BY <1>0
    <3> QED BY <1>0, <3>1, RowGrows
  <2> HIDE DEF all, row, one, two
  <2>7. (row \o one) \o two = row \o (one \o two)
    BY ONLY <2>5, <2>6, ConcatAssociative, SMTT(30)
  <2>8. MapFlat(Spelling, fragments') = row \o Spelled(cell, 0, e, 0, 0)
    BY <2>2, <2>3, <2>4, <2>7
  <2>9. Lossless(cells', repeated', cell', phase', start', child', fragments')
    BY <1>2, <1>3, <2>8 DEF Lossless, row
  <2> QED BY <1>8, <2>9, LosslessIs
<1>11. Standing'
  <2>1. ~(start' < end')
    BY <1>3
  <2> QED BY <1>0, <1>2, <1>8, <2>1 DEF FInv, Standing
<1>12. FitSoFar'
  BY <1>1, <1>3, <1>6, FitGrows DEF FInv, f
<1> QED BY <1>9, <1>10, <1>11, <1>12 DEF FInv

LEMMA CutRestKeeps ==
    ASSUME RowsAssumption, FInv, CutRest PROVE FInv'
<1>1. /\ phase = "text" /\ start < end /\ end = cells[cell].text
      /\ CutOff(end) /\ UNCHANGED <<cells, repeated, cell, phase, child, answers>>
  BY DEF CutRest
<1>2. cell \in 1..Len(cells) /\ DOMAIN cells = 1..Len(cells) /\ end \in Nat
  BY <1>1, CellFacts
<1>3. Answer(Fragment(cell, start, end, 0, 0), Leads, TRUE) \in answers
  BY <1>1, <1>2 DEF FInv, Standing
<1>4. answers \subseteq answers' /\ end <= cells[cell].text
  BY <1>1, <1>2
<1> QED BY <1>1, <1>2, <1>3, <1>4, CutOffKeeps

LEMMA CutNaturallyKeeps ==
    ASSUME RowsAssumption, FInv, CutNaturally PROVE FInv'
<1>1. /\ phase = "text" /\ start < end /\ end < cells[cell].text
      /\ UNCHANGED <<cells, repeated, cell, phase, child>>
  BY DEF CutNaturally
<1>2. /\ cell \in 1..Len(cells) /\ DOMAIN cells = 1..Len(cells)
      /\ end \in Nat /\ start \in Nat /\ cells[cell].text \in Nat
  BY <1>1, CellFacts
<1>3. Answer(Fragment(cell, start, end, 0, 0), Leads, TRUE) \in answers
  BY <1>1, <1>2 DEF FInv, Standing
<1>4. PICK boundary \in start + (end - start) \div 2 + 1..end, yes \in BOOLEAN :
          /\ Fits(Fragment(cell, start, boundary, 0, 0), Leads, yes)
          /\ CutOff(IF yes THEN boundary ELSE end)
  BY DEF CutNaturally
<1>5. boundary \in Nat /\ start < boundary /\ boundary <= end
  <2>1. (end - start) \div 2 \in Nat
    BY <1>1, <1>2
  <2> QED BY <1>2, <2>1, SMTT(30)
<1>6. answers \subseteq answers' /\ Answer(Fragment(cell, start, boundary, 0, 0), Leads, yes) \in answers'
  BY <1>4, AskGrows DEF Fits
<1>7. CASE yes = TRUE
  <2>1. CutOff(boundary) /\ boundary <= cells[cell].text
    BY <1>1, <1>2, <1>4, <1>5, <1>7
  <2> QED BY <1>1, <1>5, <1>6, <1>7, <2>1, CutOffKeeps
<1>8. CASE yes = FALSE
  <2>1. CutOff(end) /\ end <= cells[cell].text
    BY <1>1, <1>2, <1>4, <1>8
  <2> QED BY <1>1, <1>2, <1>3, <1>6, <2>1, CutOffKeeps
<1> QED BY <1>7, <1>8

\* What was cut off spells the whole cell when it is left.
LEMMA CellDone ==
    ASSUME RowsAssumption, FInv, Turn
    PROVE  MapFlat(Spelling, fragments) = RowSpelled(cells, repeated, cell)
<1>0. /\ cells \in RowType /\ Len(cells) \in Nat /\ DOMAIN cells = 1..Len(cells)
      /\ fragments \in Seq(FragmentType)
  BY CellFacts
<1>1. phase = "children" /\ (cell # 0 => child = cells[cell].children)
  BY DEF Turn
<1>2. CASE cell = 0
  <2>1. fragments = <<>>
    BY <1>2 DEF FInv, Standing
  <2>2. MapFlat(Spelling, <<>>) = <<>>
    BY SpellingMaps, MapFlatAppends
  <2> QED BY <1>0, <1>2, <2>1, <2>2, RowGrows
<1>3. CASE cell # 0
  <2>1. cell \in 1..Len(cells)
    BY <1>1, <1>3, CellFacts
  <2>2. start = cells[cell].text /\ cell \notin repeated
    BY <1>0, <1>1, <2>1 DEF FInv, Standing
  <2>3. Lossless(cells, repeated, cell, phase, start, child, fragments)
    BY <1>0, LosslessIs DEF FInv
  <2>4. MapFlat(Spelling, fragments) = RowSpelled(cells, repeated, cell - 1) \o Spelled(cell, 0, start, 0, child)
    BY <1>0, <1>1, <2>1, <2>3 DEF Lossless
  <2>5. MapFlat(Spelling, fragments) = RowSpelled(cells, repeated, cell - 1) \o CellSpelled(cells, repeated, cell)
    BY <1>1, <1>3, <2>2, <2>4 DEF CellSpelled
  <2> DEFINE n == cell - 1
  <2>6. n \in 0..Len(cells) - 1 /\ n + 1 = cell
    BY <1>0, <2>1
  <2>7. RowSpelled(cells, repeated, n + 1) = RowSpelled(cells, repeated, n) \o CellSpelled(cells, repeated, n + 1)
    <3> HIDE DEF n
    <3> QED BY <1>0, <2>6, RowGrows
  <2> QED BY <2>5, <2>6, <2>7
<1> QED BY <1>2, <1>3

LEMMA TurnKeeps ==
    ASSUME RowsAssumption, FInv, Turn PROVE FInv'
<1> DEFINE next == NextCell
<1>0. /\ cells \in RowType /\ Len(cells) \in Nat /\ DOMAIN cells = 1..Len(cells)
      /\ fragments \in Seq(FragmentType) /\ repeated \subseteq DOMAIN cells
      /\ cell \in 0..Len(cells) + 1
  BY CellFacts
<1>1. /\ phase = "children" /\ cell' = next
      /\ phase' = IF next <= Len(cells) THEN "text"
                  ELSE IF Len(fragments) <= 1 THEN "whole" ELSE "split"
      /\ start' = 0 /\ low' = 1 /\ end' = 0 /\ child' = 0
      /\ high' = IF next <= Len(cells) THEN cells[next].text ELSE 0
      /\ UNCHANGED <<cells, repeated, fragments, answers>>
  BY DEF Turn
<1>2. cell \in 0..Len(cells)
  <2>1. cell = 0 \/ cell \in 1..Len(cells)
    BY <1>1, CellFacts
  <2> QED BY <1>0, <2>1
<1>3. next \in cell + 1..Len(cells) + 1 /\ next \notin repeated /\ cell + 1..next - 1 \subseteq repeated
  BY <1>0, <1>2, NextCellIs
<1> HIDE DEF next
<1>4. next \in Nat /\ 1 <= next /\ next <= Len(cells) + 1 /\ next - 1 \in cell..Len(cells)
  BY <1>0, <1>2, <1>3
<1>5. MapFlat(Spelling, fragments) = RowSpelled(cells, repeated, next - 1)
  <2> DEFINE m == next - 1
  <2>1. m \in cell..Len(cells) /\ cell + 1..m \subseteq repeated
    BY <1>3, <1>4
  <2> HIDE DEF m
  <2>2. RowSpelled(cells, repeated, m) = RowSpelled(cells, repeated, cell)
    BY <1>0, <1>2, <2>1, RepeatedSpellNothing
  <2> QED BY <2>2, CellDone DEF m
<1>6. CASE next <= Len(cells)
  <2>1. next \in 1..Len(cells) /\ cells[next].text \in Nat /\ cells[next].children \in Nat
    <3>1. next \in 1..Len(cells) /\ cells[next] \in CellType
      BY <1>0, <1>4, <1>6 DEF RowType
    <3> QED BY <3>1 DEF CellType
  <2>2. phase' = "text" /\ high' = cells[next].text /\ cell' = next
    BY <1>1, <1>6
  <2>3. TypeOK'
    <3>1. /\ start' \in 0..cells[next].text /\ end' \in start'..cells[next].text
          /\ low' \in start' + 1..cells[next].text + 1 /\ high' \in start'..cells[next].text
          /\ child' \in 0..cells[next].children
      BY <1>1, <2>1, <2>2
    <3>2. cell' \in 0..Len(cells) + 1
      BY <1>0, <2>1, <2>2
    <3> QED BY <1>1, <2>2, <3>1, <3>2 DEF FInv, TypeOK
  <2>4. FragmentsLossless'
    <3>1. Spelled(next, 0, 0, 0, 0) = <<>>
      <4>1. next \in Nat /\ 0 \in Nat /\ 0 <= 0
        BY <1>4
      <4> QED BY <4>1, TextGrows
    <3>2. RowSpelled(cells, repeated, next - 1) \in Seq(Signs)
      <4>1. next - 1 \in 0..Len(cells)
        BY <1>2, <1>4
      <4> QED BY <1>0, <4>1, RowGrows
    <3>3. MapFlat(Spelling, fragments) = RowSpelled(cells, repeated, next - 1) \o Spelled(next, 0, 0, 0, 0)
      BY <1>5, <3>1, <3>2, ConcatEmptySeq
    <3>4. Lossless(cells', repeated', cell', phase', start', child', fragments')
      BY <1>1, <2>2, <3>3 DEF Lossless
    <3> QED BY <1>0, <1>1, <3>4, LosslessIs
  <2>5. Standing'
    <3>1. ~(start' < end') /\ next # 0 /\ next # Len(cells) + 1
      BY <1>0, <1>1, <2>1
    <3> QED BY <1>1, <1>3, <2>2, <3>1 DEF FInv, Standing
  <2>6. FitSoFar'
    BY <1>1, FitStays DEF FInv
  <2> QED BY <2>3, <2>4, <2>5, <2>6 DEF FInv
<1>7. CASE ~(next <= Len(cells))
  <2>1. next = Len(cells) + 1 /\ next - 1 = Len(cells) /\ next \notin DOMAIN cells /\ next # 0
    BY <1>0, <1>4, <1>7
  <2>2. phase' \in {"whole", "split"} /\ cell' = next
    BY <1>1, <1>7
  <2>3. TypeOK'
    <3>1. cell' \in 0..Len(cells) + 1
      BY <1>0, <2>1, <2>2
    <3> QED BY <1>1, <2>1, <2>2, <3>1 DEF FInv, TypeOK
  <2>4. FragmentsLossless'
    <3>1. Lossless(cells', repeated', cell', phase', start', child', fragments')
      BY <1>1, <1>5, <2>1, <2>2 DEF Lossless
    <3> QED BY <1>0, <1>1, <3>1, LosslessIs
  <2>5. Standing'
    BY <1>1, <2>1, <2>2 DEF FInv, Standing
  <2>6. FitSoFar'
    BY <1>1, FitStays DEF FInv
  <2> QED BY <2>3, <2>4, <2>5, <2>6 DEF FInv
<1> QED BY <1>6, <1>7

\* With the next child, what is spelled is longer by it.
LEMMA ChildSpelled ==
    ASSUME RowsAssumption, FInv, phase = "children", cell > 0, child < cells[cell].children,
           phase' = "children", child' = child + 1, UNCHANGED <<cells, repeated, cell, start>>,
           fragments' \in Seq(FragmentType),
           MapFlat(Spelling, fragments') = MapFlat(Spelling, fragments)
               \o Spelled(cell, cells[cell].text, cells[cell].text, child, child + 1)
    PROVE  FragmentsLossless'
<1>0. /\ cell \in 1..Len(cells) /\ DOMAIN cells = 1..Len(cells) /\ Len(cells) \in Nat
      /\ cells \in RowType /\ fragments \in Seq(FragmentType)
  BY CellFacts
<1> DEFINE n == cells[cell].text
<1>1. n \in Nat /\ child \in Nat /\ child + 1 \in Nat /\ 0 <= child /\ child <= child + 1 /\ cell \in Nat
      /\ 0 \in Nat /\ 0 <= n /\ n <= n
  BY <1>0, CellFacts, SMTT(30)
<1>2. start = n
  BY <1>0 DEF FInv, Standing
<1>3. Lossless(cells, repeated, cell, phase, start, child, fragments)
  BY <1>0, LosslessIs DEF FInv
<1> DEFINE all == MapFlat(Spelling, fragments)  row == RowSpelled(cells, repeated, cell - 1)
           one == Spelled(cell, 0, n, 0, child)  two == Spelled(cell, n, n, child, child + 1)
<1>4. all = row \o one
  BY <1>0, <1>2, <1>3 DEF Lossless
<1>5. one \o two = Spelled(cell, 0, n, 0, child + 1)
  <2> HIDE DEF n
  <2>1. Joined(Spelled(cell, 0, n, 0, child), Spelled(cell, n, n, child, child + 1),
               Spelled(cell, 0, n, 0, child + 1))
    BY ONLY <1>1, ChildrenGrow
  <2> QED BY <2>1 DEF Joined
<1>6. one \in Seq(Signs) /\ two \in Seq(Signs)
  <2> HIDE DEF n
  <2> QED BY <1>1, SpelledIn
<1>7. row \in Seq(Signs)
  <2>1. cell - 1 \in 0..Len(cells)
    BY <1>0
  <2> QED BY <1>0, <2>1, RowGrows
<1>8. MapFlat(Spelling, fragments') = all \o two
  OBVIOUS
<1> HIDE DEF all, row, one, two
<1>9. (row \o one) \o two = row \o (one \o two)
  BY ONLY <1>6, <1>7, ConcatAssociative, SMTT(30)
<1>10. MapFlat(Spelling, fragments') = row \o Spelled(cell, 0, n, 0, child + 1)
  BY <1>4, <1>5, <1>8, <1>9
<1>11. Lossless(cells', repeated', cell', phase', start', child', fragments')
  BY <1>2, <1>10 DEF Lossless, row
<1> QED BY <1>11, LosslessIs

\* A child joined to the fragment before it.
LEMMA JoinChildKeeps ==
    ASSUME RowsAssumption, FInv, JoinChild PROVE FInv'
<1> DEFINE m == Len(fragments)  g == fragments[m]  f == [g EXCEPT !.last = child + 1]  n == cells[cell].text
<1>0. /\ phase = "children" /\ cell > 0 /\ child < cells[cell].children
      /\ Extends
      /\ Fits(Extended, Len(fragments) = 1, TRUE)
      /\ fragments' = ReplaceAt(fragments, Len(fragments), Extended)
      /\ child' = child + 1
      /\ UNCHANGED <<cells, repeated, cell, phase, start, low, high, end>>
  BY DEF JoinChild
<1>1. /\ cell \in 1..Len(cells) /\ DOMAIN cells = 1..Len(cells) /\ Len(cells) \in Nat
      /\ fragments \in Seq(FragmentType) /\ m \in Nat
  BY <1>0, CellFacts
<1>2. n \in Nat /\ child \in Nat /\ cells[cell].children \in Nat /\ cell \in Nat
  BY <1>1, CellFacts
<1>3. m \in 1..m /\ fragments # <<>>
  BY <1>0, <1>1, EmptySeq DEF Extends
<1>4. g \in FragmentType /\ g = Last(fragments)
  BY <1>1, <1>3 DEF Last
<1>5. g.cell = cell /\ g.last = child /\ f = Extended
  BY <1>0, <1>4 DEF Extends, Extended
<1>6. /\ g.from \in Nat /\ g.to \in Nat /\ g.first \in Nat /\ g.from <= g.to /\ g.first <= child
      /\ g = Fragment(cell, g.from, g.to, g.first, child)
      /\ f = Fragment(cell, g.from, g.to, g.first, child + 1)
  <2>1. /\ g.from \in Nat /\ g.to \in Nat /\ g.first \in Nat /\ g.from <= g.to /\ g.first <= child
    BY <1>4, <1>5 DEF FragmentType
  <2>2. g = [cell |-> g.cell, from |-> g.from, to |-> g.to, first |-> g.first, last |-> g.last]
    BY <1>4 DEF FragmentType
  <2>3. f = [cell |-> g.cell, from |-> g.from, to |-> g.to, first |-> g.first, last |-> child + 1]
    BY <1>4 DEF FragmentType
  <2> HIDE DEF g, f
  <2> QED BY <1>5, <2>1, <2>2, <2>3 DEF Fragment
<1> DEFINE before == [k \in 1..m - 1 |-> fragments[k]]
<1>7. /\ before \in Seq(FragmentType) /\ Len(before) = m - 1 /\ \A k \in 1..m - 1 : before[k] = fragments[k]
  BY <1>1, <1>3
<1> HIDE DEF f, g, before
<1>8. /\ g.first <= child + 1 /\ child + 1 \in Nat /\ child <= child + 1
  BY <1>2, <1>6
<1>9. f \in FragmentType
  BY <1>2, <1>6, <1>8, FragmentIs
<1>10. fragments = Append(before, g)
  <2>1. /\ Append(before, g) \in Seq(FragmentType) /\ Len(Append(before, g)) = m
        /\ \A k \in 1..m - 1 : Append(before, g)[k] = fragments[k]
        /\ Append(before, g)[m] = g
    BY <1>1, <1>3, <1>4, <1>7, AppendProperties
  <2>2. \A k \in 1..m : Append(before, g)[k] = fragments[k]
    BY <1>1, <2>1 DEF g
  <2> QED BY <1>1, <2>1, <2>2, SeqEqual
<1>11. fragments' = Append(before, f)
  <2>1. fragments' = [k \in DOMAIN fragments |-> IF k = m THEN f ELSE fragments[k]]
    BY <1>0, <1>5 DEF ReplaceAt
  <2>2. DOMAIN fragments = 1..m
    BY <1>1
  <2>3. /\ Append(before, f) \in Seq(FragmentType) /\ Len(Append(before, f)) = m
        /\ \A k \in 1..m - 1 : Append(before, f)[k] = fragments[k]
        /\ Append(before, f)[m] = f
    BY <1>1, <1>3, <1>7, <1>9, AppendProperties
  <2>4. \A k \in 1..m : (IF k = m THEN f ELSE fragments[k]) \in FragmentType
    BY <1>1, <1>9
  <2> HIDE DEF m
  <2>5. fragments' \in Seq(FragmentType) /\ Len(fragments') = m
    BY <1>1, <2>1, <2>2, <2>4
  <2>6. \A k \in 1..m : Append(before, f)[k] = fragments'[k]
    BY <1>1, <2>1, <2>2, <2>3
  <2> QED BY <2>3, <2>5, <2>6, SeqEqual
<1>12. fragments' \in Seq(FragmentType)
  BY <1>7, <1>9, <1>11, FragmentAppends
<1>13. answers \subseteq answers' /\ Answer(f, m = 1, TRUE) \in answers'
  BY <1>0, <1>5, AskGrows DEF Fits
<1>14. TypeOK'
  <2>1. \A k \in 1..m : PartOf(cells, repeated, fragments[k])
    BY <1>1 DEF FInv, TypeOK, PartOf
  <2>2. \A k \in DOMAIN before : PartOf(cells, repeated, before[k])
    <3>1. DOMAIN before = 1..m - 1 /\ \A k \in 1..m - 1 : k \in 1..m
      BY <1>1, <1>7
    <3> QED BY <1>7, <2>1, <3>1
  <2>3. PartOf(cells, repeated, f)
    <3>1. PartOf(cells, repeated, g)
      BY <1>3, <2>1 DEF g
    <3>2. g.first < child + 1
      BY <1>2, <1>6
    <3>3. f.cell = cell /\ f.from = g.from /\ f.to = g.to /\ f.first = g.first /\ f.last = child + 1
      BY <1>6 DEF Fragment
    <3> QED BY <1>5, <1>6, <1>8, <3>1, <3>2, <3>3 DEF PartOf
  <2>4. \A k \in DOMAIN fragments' : PartOf(cells, repeated, fragments'[k])
    BY <1>7, <1>9, <1>11, <2>2, <2>3, PartsGrow
  <2>5. \A k \in DOMAIN fragments' :
            /\ fragments'[k].cell \in DOMAIN cells' \ repeated'
            /\ fragments'[k].from <= fragments'[k].to /\ fragments'[k].first <= fragments'[k].last
            /\ fragments'[k].from < fragments'[k].to \/ fragments'[k].first < fragments'[k].last
    BY <1>0, <2>4 DEF PartOf
  <2>6. child' \in 0..cells[cell].children
    BY <1>0, <1>2
  <2> QED BY <1>0, <1>1, <2>5, <2>6 DEF FInv, TypeOK
<1>15. FragmentsLossless'
  <2>1. /\ Spelling[g] = Spelled(cell, g.from, g.to, g.first, child)
        /\ Spelling[f] = Spelled(cell, g.from, g.to, g.first, child + 1)
    <3> DEFINE from == g.from  to == g.to  first == g.first
    <3>1. /\ cell \in Nat /\ child \in Nat /\ child + 1 \in Nat
          /\ from \in Nat /\ to \in Nat /\ first \in Nat
          /\ from <= to /\ first <= child /\ first <= child + 1
      BY <1>2, <1>6, <1>8
    <3>2. g = Fragment(cell, from, to, first, child) /\ f = Fragment(cell, from, to, first, child + 1)
      BY <1>6
    <3> HIDE DEF n, from, to, first
    <3>3. Spelling[Fragment(cell, from, to, first, child)] = Spelled(cell, from, to, first, child)
      BY <3>1, FragmentIs
    <3>4. Spelling[Fragment(cell, from, to, first, child + 1)] = Spelled(cell, from, to, first, child + 1)
      BY <3>1, FragmentIs
    <3> QED BY <3>2, <3>3, <3>4 DEF from, to, first
  <2> DEFINE b == MapFlat(Spelling, before)  one == Spelling[g]  two == Spelled(cell, n, n, child, child + 1)
  <2>2. MapFlat(Spelling, fragments) = b \o one /\ b \in Seq(Signs) /\ one \in Seq(Signs)
    BY <1>4, <1>7, <1>10, FragmentAppends
  <2>3. MapFlat(Spelling, fragments') = b \o Spelling[f]
    BY <1>7, <1>9, <1>11, FragmentAppends
  <2>4. Joined(one, two, Spelling[f])
    <3>1. Joined(Spelled(cell, g.from, g.to, g.first, child), Spelled(cell, n, n, child, child + 1),
                 Spelled(cell, g.from, g.to, g.first, child + 1))
      <4> HIDE DEF n
      <4> QED BY <1>2, <1>6, <1>8, ChildrenGrow
    <3> QED BY <2>1, <3>1
  <2>5. two \in Seq(Signs)
    <3>1. n <= n
      BY <1>2
    <3> HIDE DEF n
    <3> QED BY <1>2, <1>8, <3>1, SpelledIn
  <2> HIDE DEF b, one, two
  <2>6. (b \o one) \o two = b \o (one \o two)
    BY ONLY <2>2, <2>5, ConcatAssociative, SMTT(30)
  <2>7. MapFlat(Spelling, fragments') = MapFlat(Spelling, fragments) \o two
    BY <2>2, <2>3, <2>4, <2>6 DEF Joined
  <2> QED BY <1>0, <1>12, <2>7, ChildSpelled DEF two
<1>16. Standing'
  BY <1>0, <1>1, <1>12 DEF FInv, Standing
<1>17. FitSoFar'
  <2>1. Len(fragments') = m /\ fragments'[m] = f /\ \A k \in 1..m - 1 : fragments'[k] = fragments[k]
    BY <1>1, <1>3, <1>7, <1>9, <1>11, AppendProperties
  <2>2. ASSUME NEW k \in 1..m PROVE Answer(fragments'[k], k = 1, TRUE) \in answers'
    <3>1. CASE k = m
      BY <1>13, <2>1, <3>1
    <3>2. CASE k # m
      <4>1. k \in 1..m - 1
        BY <1>1, <3>2
      <4>2. Answer(fragments[k], k = 1, TRUE) \in answers
        BY <1>1 DEF FInv, FitSoFar
      <4> QED BY <1>13, <2>1, <4>1, <4>2
    <3> QED BY <3>1, <3>2
  <2> HIDE DEF m
  <2> QED BY <2>1, <2>2 DEF FitSoFar
<1> QED BY <1>14, <1>15, <1>16, <1>17 DEF FInv

LEMMA ChildAloneKeeps ==
    ASSUME RowsAssumption, FInv, ChildAlone PROVE FInv'
<1> DEFINE n == cells[cell].text  own == Fragment(cell, n, n, child, child + 1)
           refused == IF Extends THEN {Answer(Extended, Len(fragments) = 1, FALSE)} ELSE {}
<1>0. /\ phase = "children" /\ cell > 0 /\ child < cells[cell].children
      /\ UNCHANGED <<cells, repeated, cell, start, low, high, end>>
  BY DEF ChildAlone
<1>1. /\ cell \in 1..Len(cells) /\ DOMAIN cells = 1..Len(cells) /\ Len(cells) \in Nat
      /\ fragments \in Seq(FragmentType)
  BY <1>0, CellFacts
<1>2. n \in Nat /\ child \in Nat /\ cells[cell].children \in Nat /\ cell \in Nat
  BY <1>1, CellFacts
<1>3. n <= n /\ child <= child + 1 /\ child + 1 \in Nat /\ child < child + 1
  BY <1>2
<1>4. own \in FragmentType /\ Spelling[own] = Spelled(cell, n, n, child, child + 1)
  BY <1>2, <1>3, FragmentIs
<1>5. CASE /\ Ask(refused \cup {Answer(own, Leads, TRUE)})
           /\ fragments' = Append(fragments, own)
           /\ child' = child + 1
           /\ UNCHANGED phase
  <2>1. answers \subseteq answers' /\ Answer(own, Leads, TRUE) \in answers'
    BY <1>5 DEF Ask
  <2>2. fragments' \in Seq(FragmentType)
    BY <1>1, <1>4, <1>5, FragmentAppends
  <2>3. TypeOK'
    <3>1. \A k \in DOMAIN fragments : PartOf(cells, repeated, fragments[k])
      BY DEF FInv, TypeOK, PartOf
    <3>2. PartOf(cells, repeated, own)
      <4>1. cell \notin repeated
        BY <1>1 DEF FInv, Standing
      <4> QED BY <1>1, <1>2, <1>3, <4>1 DEF PartOf, Fragment
    <3>3. \A k \in DOMAIN fragments' : PartOf(cells, repeated, fragments'[k])
      <4> HIDE DEF own
      <4> QED BY <1>1, <1>4, <1>5, <3>1, <3>2, PartsGrow
    <3>4. \A k \in DOMAIN fragments' :
              /\ fragments'[k].cell \in DOMAIN cells' \ repeated'
              /\ fragments'[k].from <= fragments'[k].to /\ fragments'[k].first <= fragments'[k].last
              /\ fragments'[k].from < fragments'[k].to \/ fragments'[k].first < fragments'[k].last
      BY <1>0, <3>3 DEF PartOf
    <3>5. child' \in 0..cells[cell].children
      BY <1>0, <1>2, <1>5
    <3> QED BY <1>0, <1>1, <1>5, <3>4, <3>5 DEF FInv, TypeOK
  <2>4. FragmentsLossless'
    <3>1. MapFlat(Spelling, fragments') = MapFlat(Spelling, fragments) \o Spelled(cell, n, n, child, child + 1)
      <4> HIDE DEF own
      <4> QED BY <1>1, <1>4, <1>5, FragmentAppends
    <3>2. phase' = "children" /\ child' = child + 1
      BY <1>0, <1>5
    <3> QED BY <1>0, <2>2, <3>1, <3>2, ChildSpelled
  <2>5. Standing'
    BY <1>0, <1>1, <1>5, <2>2 DEF FInv, Standing
  <2>6. FitSoFar'
    <3> HIDE DEF own
    <3> QED BY <1>1, <1>4, <1>5, <2>1, FitGrows DEF FInv
  <2> QED BY <2>3, <2>4, <2>5, <2>6 DEF FInv
<1>6. CASE /\ Ask(refused \cup {Answer(own, Leads, FALSE)})
           /\ phase' = "whole"
           /\ UNCHANGED <<fragments, child>>
  <2>1. answers \subseteq answers'
    BY <1>6 DEF Ask
  <2>2. TypeOK'
    BY <1>0, <1>6 DEF FInv, TypeOK
  <2>3. FragmentsLossless'
    BY <1>6 DEF FragmentsLossless
  <2>4. Standing'
    BY <1>0, <1>1, <1>6 DEF FInv, Standing
  <2>5. FitSoFar'
    BY <1>6, <2>1, FitStays DEF FInv
  <2> QED BY <2>2, <2>3, <2>4, <2>5 DEF FInv
<1>7. \/ /\ Ask(refused \cup {Answer(own, Leads, TRUE)})
         /\ fragments' = Append(fragments, own)
         /\ child' = child + 1
         /\ UNCHANGED phase
      \/ /\ Ask(refused \cup {Answer(own, Leads, FALSE)})
         /\ phase' = "whole"
         /\ UNCHANGED <<fragments, child>>
  BY DEF ChildAlone
<1> QED BY <1>5, <1>6, <1>7

LEMMA FStep ==
    ASSUME RowsAssumption, FInv, [Next]_vars PROVE FInv'
<1>1. CASE UNCHANGED vars
  <2>1. TypeOK'
    BY <1>1 DEF vars, FInv, TypeOK
  <2>2. FragmentsLossless'
    BY <1>1 DEF vars, FInv, FragmentsLossless, SpelledFragments, SpelledRow
  <2>3. Standing'
    BY <1>1 DEF vars, FInv, Standing, Leads
  <2>4. FitSoFar'
    BY <1>1 DEF vars, FInv, FitSoFar
  <2> QED BY <2>1, <2>2, <2>3, <2>4 DEF FInv
<1>2. CASE Next
  BY <1>2, TurnKeeps, BisectKeeps, GiveUpKeeps, CutRestKeeps, CutNaturallyKeeps, EndTextKeeps,
     JoinChildKeeps, ChildAloneKeeps DEF Next
<1> QED BY <1>1, <1>2

\* For every row and every tokenizer: the fragments of a row spell the cells
\* that are not repeated once and in order, and each was seen to fit at the
\* place it is returned in (split_oversized_row).
THEOREM FragmentsAreRight == TablesSpec => []FragmentsRight
<1>1. TablesInit => FInv
  BY CuttingAssumption, FInit DEF TablesInit
<1>2. FInv /\ [TablesNext]_allVars => FInv'
  <2> SUFFICES ASSUME FInv, [TablesNext]_allVars PROVE FInv'
    OBVIOUS
  <2>1. [Next]_vars
    BY DEF TablesNext, SweepStep, RowsStep, CutStep, SplitStep, allVars
  <2> QED BY <2>1, CuttingAssumption, FStep
<1>3. FInv => FragmentsRight
  <2> SUFFICES ASSUME FInv PROVE FragmentsFit
    BY DEF FInv, FragmentsRight
  <2>1. DOMAIN fragments = 1..Len(fragments)
    BY DEF FInv, Standing
  <2> QED BY <2>1 DEF FInv, FragmentsFit, FitSoFar
<1> QED BY <1>1, <1>2, <1>3, PTL DEF TablesSpec

-----------------------------------------------------------------------------
(* The cutting of a chunk at its tables. What makes it inductive: the      *)
(* chunks made so far show the items before some item once and in order,   *)
(* and the items from it on wait (SplitInv). First, the operators that     *)
(* TableSplits has from the library, and sums.                             *)

\* The operators of the library are the same in TableSplits.
LEMMA SplitOperators ==
    /\ \A s : Splits!Max(s) = Max(s)
    /\ \A s : Splits!FlattenSeq(s) = FlattenSeq(s)
    /\ \A s : Splits!Front(s) = Front(s) /\ Splits!Last(s) = Last(s)
    /\ \A s : Splits!ToSet(s) = ToSet(s)
BY DEF Splits!Max, Max, Splits!FlattenSeq, FlattenSeq, Splits!Front, Front, Splits!Last, Last,
       Splits!ToSet, ToSet

\* p traces n steps of a fold, q the same steps and one more.
TraceGrown(p, q, n, V, first, a, b) ==
    /\ n \in Nat /\ first \in V
    /\ FoldTrace(p, n, V, first, a)
    /\ FoldTrace(q, n + 1, V, first, b)
    /\ \A k \in 1..n : a[k] = b[k]

\* A trace of a fold and one of its fold over one more element.
LEMMA TraceOneMore ==
    ASSUME NEW n, NEW V, NEW first, NEW a, NEW b, NEW p, NEW q, TraceGrown(p, q, n, V, first, a, b)
    PROVE  p[n] \in V /\ q[n + 1] = b[n + 1][p[n]]
<1>0. /\ n \in Nat /\ first \in V /\ FoldTrace(p, n, V, first, a) /\ FoldTrace(q, n + 1, V, first, b)
      /\ \A k \in 1..n : a[k] = b[k]
  BY DEF TraceGrown
<1> DEFINE T == {k \in 0..n : p[k] = q[k]}
<1>1. /\ p \in [0..n -> V] /\ p[0] = first /\ \A k \in 1..n : p[k] = a[k][p[k - 1]]
      /\ q[0] = first /\ \A k \in 1..n + 1 : q[k] = b[k][q[k - 1]]
  BY <1>0 DEF FoldTrace
<1>2. 0 \in T
  BY <1>0, <1>1
<1>3. ASSUME NEW k \in 0..n - 1, k \in T PROVE k + 1 \in T
  <2>1. k + 1 \in 1..n /\ k + 1 \in 1..n + 1 /\ k + 1 \in 0..n /\ (k + 1) - 1 = k
    BY <1>0
  <2>2. p[k + 1] = a[k + 1][p[k]] /\ q[k + 1] = b[k + 1][q[k]] /\ a[k + 1] = b[k + 1]
    BY <1>0, <1>1, <2>1
  <2> QED BY <1>3, <2>1, <2>2
<1>4. 0..n \subseteq T
  <2>1. 0 \in Int /\ n \in Int
    BY <1>0
  <2> HIDE DEF T
  <2> QED BY <1>2, <1>3, <2>1, IntervalInduction
<1>5. p[n] = q[n] /\ n \in 0..n /\ n + 1 \in 1..n + 1 /\ (n + 1) - 1 = n
  BY <1>0, <1>4
<1> QED BY <1>1, <1>5

AddingSteps(s) == [k \in 1..Len(s) |-> [v \in Nat |-> v + s[k]]]

\* Adding up, one number after the other.
LEMMA Adding ==
    ASSUME NEW s \in Seq(Nat)
    PROVE  \E p : /\ FoldTrace(p, Len(s), Nat, 0, AddingSteps(s))
                  /\ Splits!Total(s) = p[Len(s)]
<1> DEFINE n == Len(s)
           values == Nat
           first == 0
           turn == AddingSteps(s)
           eq(h) == [t \in SUBSET (DOMAIN s) |->
                        IF t = {} THEN first ELSE h[t \ {Splits!Max(t)}] + s[Splits!Max(t)]]
           h == CHOOSE h : h = eq(h)
           p == [k \in 0..n |-> h[1..k]]
<1>0. n \in Nat /\ DOMAIN s = 1..n /\ first \in values /\ \A k \in 1..n : s[k] \in Nat
  OBVIOUS
<1>1. \A k \in 1..n : \A v \in values : v + s[k] \in values
  BY <1>0
<1>2. turn \in FoldSteps(n, values) /\ turn = [k \in 1..n |-> [v \in values |-> v + s[k]]]
  BY <1>1 DEF FoldSteps, AddingSteps
<1> HIDE DEF turn
<1>3. PICK f : FoldsSets(f, n, values, first, turn)
  <2> HIDE DEF n, values, first
  <2> QED BY <1>0, <1>2, SetsFold
<1>4. Splits!Total(s) = h[DOMAIN s]
  BY DEF Splits!Total, Splits!FoldLeft, Splits!MapThenFoldSet
<1> HIDE DEF values, first
<1>5. f = eq(f)
  <2>1. f \in [SUBSET (1..n) -> values]
    BY <1>3 DEF FoldsSets
  <2>2. ASSUME NEW t \in SUBSET (1..n), t # {}
        PROVE  turn[Max(t)][f[t \ {Max(t)}]] = f[t \ {Splits!Max(t)}] + s[Splits!Max(t)]
    <3>1. Max(t) \in 1..n
      <4> HIDE DEF n
      <4> QED BY <1>0, <2>2, MaxIn
    <3>2. f[t \ {Max(t)}] \in values
      BY <2>1
    <3> QED BY <1>2, <3>1, <3>2, SplitOperators
  <2>3. f = [t \in SUBSET (1..n) |-> IF t = {} THEN first ELSE turn[Max(t)][f[t \ {Max(t)}]]]
    BY <1>3 DEF FoldsSets
  <2> HIDE DEF n
  <2> QED BY <1>0, <2>2, <2>3
<1>6. h = eq(h)
  <2> HIDE DEF eq
  <2> QED BY <1>5
<1> HIDE DEF h
<1>7. \A t \in SUBSET (1..n) : h[t] = IF t = {} THEN first ELSE h[t \ {Splits!Max(t)}] + s[Splits!Max(t)]
  <2> HIDE DEF n
  <2> QED BY <1>0, <1>6
<1>8. h[{}] = first
  <2>1. {} \in SUBSET (1..n)
    OBVIOUS
  <2> QED BY <1>7, <2>1
<1>9. ASSUME NEW k \in 1..n, h[1..k - 1] \in values PROVE h[1..k] = turn[k][h[1..k - 1]]
  <2>1. 1..k \in SUBSET (1..n) /\ 1..k # {} /\ 1..k \ {k} = 1..k - 1 /\ Splits!Max(1..k) = k
    <3> HIDE DEF n, h
    <3> QED BY <1>0, UptoLast, SplitOperators
  <2>2. h[1..k] = h[1..k - 1] + s[k]
    <3> HIDE DEF n
    <3> QED BY <1>7, <2>1
  <2>3. turn[k][h[1..k - 1]] = h[1..k - 1] + s[k]
    <3> HIDE DEF n
    <3> QED BY <1>2, <1>9
  <2> QED BY <2>2, <2>3
<1>10. FoldTrace(p, n, values, first, turn)
  <2> HIDE DEF n
  <2>1. PrefixFold(h, n, values, first, turn)
    BY <1>0, <1>2, <1>8, <1>9 DEF PrefixFold
  <2> QED BY ONLY <2>1, FoldPrefixes
<1>11. p[n] = h[DOMAIN s]
  BY <1>0
<1> HIDE DEF p, n
<1> QED BY <1>4, <1>10, <1>11 DEF n, values, first, turn

\* Sums of natural numbers are natural numbers.
LEMMA TotalIs ==
    /\ Splits!Total(<<>>) = 0
    /\ \A s \in Seq(Nat) : Splits!Total(s) \in Nat
    /\ \A s \in Seq(Nat) : \A x \in Nat : Splits!Total(Append(s, x)) = Splits!Total(s) + x
<1>1. Splits!Total(<<>>) = 0
  <2>1. PICK p : FoldTrace(p, 0, Nat, 0, AddingSteps(<<>>)) /\ Splits!Total(<<>>) = p[0]
    <3>1. <<>> \in Seq(Nat) /\ Len(<<>>) = 0
      OBVIOUS
    <3> QED BY <3>1, Adding
  <2> QED BY <2>1 DEF FoldTrace
<1>2. ASSUME NEW s \in Seq(Nat) PROVE Splits!Total(s) \in Nat
  <2>1. PICK p : FoldTrace(p, Len(s), Nat, 0, AddingSteps(s)) /\ Splits!Total(s) = p[Len(s)]
    BY Adding
  <2>2. Len(s) \in 0..Len(s)
    OBVIOUS
  <2> QED BY <2>1, <2>2 DEF FoldTrace
<1>3. ASSUME NEW s \in Seq(Nat), NEW x \in Nat PROVE Splits!Total(Append(s, x)) = Splits!Total(s) + x
  <2> DEFINE n == Len(s)  t == Append(s, x)
  <2>1. n \in Nat /\ t \in Seq(Nat) /\ Len(t) = n + 1 /\ t[n + 1] = x /\ \A k \in 1..n : t[k] = s[k]
    OBVIOUS
  <2> HIDE DEF n, t
  <2>2. PICK p : FoldTrace(p, n, Nat, 0, AddingSteps(s)) /\ Splits!Total(s) = p[n]
    BY Adding DEF n
  <2>3. PICK q : FoldTrace(q, n + 1, Nat, 0, AddingSteps(t)) /\ Splits!Total(t) = q[n + 1]
    BY <2>1, Adding
  <2> DEFINE a == AddingSteps(s)  b == AddingSteps(t)
  <2>4. ASSUME NEW k \in 1..n PROVE a[k] = b[k]
    <3>1. k \in 1..n + 1 /\ s[k] = t[k]
      BY <2>1
    <3>2. a[k] = [v \in Nat |-> v + s[k]]
      BY DEF AddingSteps, n
    <3>3. b[k] = [v \in Nat |-> v + t[k]]
      BY <2>1, <3>1 DEF AddingSteps
    <3> QED BY <3>1, <3>2, <3>3
  <2>7. 0 \in Nat /\ FoldTrace(p, n, Nat, 0, a) /\ FoldTrace(q, n + 1, Nat, 0, b)
    BY <2>2, <2>3
  <2>8. b[n + 1] = [v \in Nat |-> v + x]
    <3>1. n + 1 \in 1..n + 1
      BY <2>1
    <3> QED BY <2>1, <3>1 DEF AddingSteps
  <2> HIDE DEF a, b
  <2>5. p[n] \in Nat /\ q[n + 1] = b[n + 1][p[n]]
    <3> DEFINE V == Nat  first == 0
    <3>1. n \in Nat /\ first \in V /\ FoldTrace(p, n, V, first, a) /\ FoldTrace(q, n + 1, V, first, b)
      BY <2>1, <2>7
    <3> HIDE DEF V, first
    <3>2. p[n] \in V /\ q[n + 1] = b[n + 1][p[n]]
      <4>1. \A k \in 1..n : a[k] = b[k]
        BY <2>4
      <4>2. TraceGrown(p, q, n, V, first, a, b)
        BY <3>1, <4>1 DEF TraceGrown
      <4> QED BY ONLY <4>2, TraceOneMore
    <3> QED BY <3>2 DEF V
  <2>6. q[n + 1] = p[n] + x
    BY <2>5, <2>8
  <2> QED BY <2>2, <2>3, <2>5, <2>6 DEF t
<1> QED BY <1>1, <1>2, <1>3

\* The sum of a joined list is the sum of the sums.
LEMMA TotalConcat ==
    ASSUME NEW s \in Seq(Nat), NEW t \in Seq(Nat)
    PROVE  Splits!Total(s \o t) = Splits!Total(s) + Splits!Total(t)
<1> DEFINE T == {u \in Seq(Nat) : Splits!Total(s \o u) = Splits!Total(s) + Splits!Total(u)}
<1>1. <<>> \in T
  <2>1. s \o <<>> = s /\ <<>> \in Seq(Nat)
    OBVIOUS
  <2> QED BY <2>1, TotalIs
<1>2. ASSUME NEW u \in Seq(Nat), u \in T, NEW e \in Nat PROVE Append(u, e) \in T
  <2>1. s \o Append(u, e) = Append(s \o u, e) /\ s \o u \in Seq(Nat) /\ Append(u, e) \in Seq(Nat)
    OBVIOUS
  <2>2. Splits!Total(Append(s \o u, e)) = Splits!Total(s \o u) + e
    BY <2>1, TotalIs
  <2>3. Splits!Total(Append(u, e)) = Splits!Total(u) + e
    BY TotalIs
  <2>4. Splits!Total(s \o u) = Splits!Total(s) + Splits!Total(u)
    BY <1>2
  <2>5. Splits!Total(s) \in Nat /\ Splits!Total(u) \in Nat
    BY TotalIs
  <2> DEFINE a == Splits!Total(s)  b == Splits!Total(u)
  <2>6. (a + b) + e = a + (b + e)
    BY <2>5
  <2> HIDE DEF a, b
  <2>7. Splits!Total(s \o Append(u, e)) = Splits!Total(s) + Splits!Total(Append(u, e))
    BY <2>1, <2>2, <2>3, <2>4, <2>6 DEF a, b
  <2> QED BY <2>1, <2>7
<1>3. Seq(Nat) \subseteq T
  <2> HIDE DEF T
  <2> QED BY <1>1, <1>2, SequenceInduction
<1> QED BY <1>3

\* The sum of what m says of the elements of s.
MapTotal(m, s) == Splits!Total([k \in DOMAIN s |-> m[s[k]]])

\* Sums of weights, for empty, joined and single lists.
LEMMA MapTotalIs ==
    ASSUME NEW A, NEW m \in [A -> Nat]
    PROVE  /\ MapTotal(m, <<>>) = 0
           /\ \A s \in Seq(A) : MapTotal(m, s) \in Nat
           /\ \A s, t \in Seq(A) : MapTotal(m, s \o t) = MapTotal(m, s) + MapTotal(m, t)
           /\ \A a \in A : MapTotal(m, <<a>>) = m[a]
<1> DEFINE f(s) == [k \in DOMAIN s |-> m[s[k]]]
<1>1. f(<<>>) = <<>>
  OBVIOUS
<1>2. ASSUME NEW s \in Seq(A) PROVE f(s) \in Seq(Nat) /\ Len(f(s)) = Len(s)
  OBVIOUS
<1>3. ASSUME NEW s \in Seq(A), NEW t \in Seq(A) PROVE f(s \o t) = f(s) \o f(t)
  <2>1. s \o t \in Seq(A) /\ Len(s \o t) = Len(s) + Len(t) /\ Len(s) \in Nat /\ Len(t) \in Nat
    OBVIOUS
  <2>2. f(s \o t) \in Seq(Nat) /\ f(s) \o f(t) \in Seq(Nat) /\ Len(f(s \o t)) = Len(f(s) \o f(t))
    <3> HIDE DEF f
    <3>1. f(s) \in Seq(Nat) /\ f(t) \in Seq(Nat) /\ Len(f(s)) = Len(s) /\ Len(f(t)) = Len(t)
      BY <1>2
    <3>2. f(s \o t) \in Seq(Nat) /\ Len(f(s \o t)) = Len(s) + Len(t)
      BY <1>2, <2>1
    <3> DEFINE a == f(s)  b == f(t)
    <3>3. f(s) \o f(t) \in Seq(Nat) /\ Len(f(s) \o f(t)) = Len(s) + Len(t)
      <4>1. a \in Seq(Nat) /\ b \in Seq(Nat) /\ Len(a) = Len(s) /\ Len(b) = Len(t)
        BY <3>1
      <4> HIDE DEF a, b
      <4>2. a \o b \in Seq(Nat) /\ Len(a \o b) = Len(s) + Len(t)
        BY <4>1
      <4> QED BY <4>2 DEF a, b
    <3> QED BY <3>2, <3>3
  <2>3. ASSUME NEW k \in 1..Len(s) + Len(t) PROVE f(s \o t)[k] = (f(s) \o f(t))[k]
    <3>1. CASE k <= Len(s)
      BY <2>1, <3>1
    <3>2. CASE k > Len(s)
      <4>1. (s \o t)[k] = t[k - Len(s)] /\ k - Len(s) \in 1..Len(t)
        BY <2>1, <3>2
      <4>2. (f(s) \o f(t))[k] = f(t)[k - Len(s)]
        BY <2>1, <3>2
      <4> QED BY <2>1, <4>1, <4>2
    <3> QED BY <2>1, <3>1, <3>2
  <2>4. Len(f(s \o t)) = Len(s) + Len(t)
    <3> HIDE DEF f
    <3> QED BY <1>2, <2>1
  <2> HIDE DEF f
  <2> QED BY <2>2, <2>3, <2>4, SeqEqual
<1>4. ASSUME NEW a \in A PROVE f(<<a>>) = <<m[a]>> /\ m[a] \in Nat
  OBVIOUS
<1>5. ASSUME NEW x \in Nat PROVE Splits!Total(<<x>>) = x
  <2>1. Append(<<>>, x) = <<x>> /\ <<>> \in Seq(Nat)
    OBVIOUS
  <2>2. Splits!Total(Append(<<>>, x)) = Splits!Total(<<>>) + x
    BY <2>1, TotalIs
  <2> QED BY <2>1, <2>2, TotalIs
<1>6. \A s : MapTotal(m, s) = Splits!Total(f(s))
  BY DEF MapTotal
<1> HIDE DEF f
<1>7. MapTotal(m, <<>>) = 0
  BY <1>1, <1>6, TotalIs
<1>8. ASSUME NEW s \in Seq(A) PROVE MapTotal(m, s) \in Nat
  BY <1>2, <1>6, TotalIs
<1>9. ASSUME NEW s \in Seq(A), NEW t \in Seq(A)
      PROVE  MapTotal(m, s \o t) = MapTotal(m, s) + MapTotal(m, t)
  <2>1. f(s) \in Seq(Nat) /\ f(t) \in Seq(Nat)
    BY <1>2
  <2> DEFINE a == f(s)  b == f(t)
  <2>2. MapTotal(m, s \o t) = Splits!Total(a \o b) /\ MapTotal(m, s) = Splits!Total(a)
        /\ MapTotal(m, t) = Splits!Total(b)
    BY <1>3, <1>6
  <2>3. a \in Seq(Nat) /\ b \in Seq(Nat)
    BY <2>1
  <2> HIDE DEF a, b
  <2> QED BY <2>2, <2>3, TotalConcat
<1>10. ASSUME NEW a \in A PROVE MapTotal(m, <<a>>) = m[a]
  BY <1>4, <1>5, <1>6
<1> QED BY <1>7, <1>8, <1>9, <1>10

\* No weight is more than the sum.
LEMMA MapTotalBounds ==
    ASSUME NEW A, NEW m \in [A -> Nat], NEW s \in Seq(A)
    PROVE  \A k \in 1..Len(s) : m[s[k]] <= MapTotal(m, s)
<1> DEFINE T == {u \in Seq(A) : \A k \in 1..Len(u) : m[u[k]] <= MapTotal(m, u)}
<1>1. <<>> \in T
  OBVIOUS
<1>2. ASSUME NEW u \in Seq(A), u \in T, NEW e \in A PROVE Append(u, e) \in T
  <2>1. Append(u, e) = u \o <<e>> /\ <<e>> \in Seq(A) /\ Append(u, e) \in Seq(A)
    OBVIOUS
  <2>2. MapTotal(m, Append(u, e)) = MapTotal(m, u) + m[e] /\ MapTotal(m, u) \in Nat /\ m[e] \in Nat
    BY <2>1, MapTotalIs
  <2>3. ASSUME NEW k \in 1..Len(Append(u, e)) PROVE m[Append(u, e)[k]] <= MapTotal(m, Append(u, e))
    <3>1. CASE k \in 1..Len(u)
      <4>1. Append(u, e)[k] = u[k] /\ u[k] \in A /\ m[u[k]] \in Nat
        BY <3>1
      <4>2. m[u[k]] <= MapTotal(m, u)
        BY <1>2, <3>1
      <4> QED BY <2>2, <4>1, <4>2
    <3>2. CASE k = Len(u) + 1
      <4>1. Append(u, e)[k] = e
        BY <3>2
      <4> QED BY <2>2, <4>1
    <3> QED BY <3>1, <3>2
  <2> QED BY <2>1, <2>3
<1>3. Seq(A) \subseteq T
  <2> HIDE DEF T
  <2> QED BY <1>1, <1>2, SequenceInduction
<1> QED BY <1>3

\* Smaller weights have a smaller sum.
LEMMA MapTotalLess ==
    ASSUME NEW A, NEW m \in [A -> Nat], NEW l \in [A -> Nat], \A a \in A : m[a] <= l[a], NEW s \in Seq(A)
    PROVE  MapTotal(m, s) <= MapTotal(l, s)
<1> DEFINE T == {u \in Seq(A) : MapTotal(m, u) <= MapTotal(l, u)}
<1>1. <<>> \in T
  <2>1. <<>> \in Seq(A)
    OBVIOUS
  <2>2. MapTotal(m, <<>>) = 0 /\ MapTotal(l, <<>>) = 0
    BY MapTotalIs
  <2> QED BY <2>1, <2>2
<1>2. ASSUME NEW u \in Seq(A), u \in T, NEW e \in A PROVE Append(u, e) \in T
  <2>1. Append(u, e) = u \o <<e>> /\ <<e>> \in Seq(A) /\ Append(u, e) \in Seq(A)
    OBVIOUS
  <2>2. MapTotal(m, Append(u, e)) = MapTotal(m, u) + m[e] /\ MapTotal(m, u) \in Nat /\ m[e] \in Nat
    BY <2>1, MapTotalIs
  <2>3. MapTotal(l, Append(u, e)) = MapTotal(l, u) + l[e] /\ MapTotal(l, u) \in Nat /\ l[e] \in Nat
    BY <2>1, MapTotalIs
  <2>4. m[e] <= l[e] /\ MapTotal(m, u) <= MapTotal(l, u)
    BY <1>2
  <2>5. MapTotal(m, Append(u, e)) <= MapTotal(l, Append(u, e))
    BY <2>2, <2>3, <2>4
  <2> QED BY <2>1, <2>5
<1>3. Seq(A) \subseteq T
  <2> HIDE DEF T
  <2> QED BY <1>1, <1>2, SequenceInduction
<1> QED BY <1>3

-----------------------------------------------------------------------------
(* Evidence and its keys *)

PieceSet == [item : Nat, rows : Seq(Nat), part : 0..2]
KeySet == Nat \X Nat \X (0..2)
StartSet == Nat \X Nat
KeyMap == [p \in PieceSet |-> Splits!PieceKeys(p)]
StartMap == [k \in KeySet |-> Splits!Start(k)]

\* The keys of evidence, for empty, single and joined lists.
LEMMA KeysAre ==
    /\ \A p \in PieceSet : Splits!PieceKeys(p) \in Seq(KeySet)
    /\ Splits!KeysOf(<<>>) = <<>>
    /\ \A p \in PieceSet : Splits!KeysOf(<<p>>) = Splits!PieceKeys(p)
    /\ \A s \in Seq(PieceSet) : Splits!KeysOf(s) \in Seq(KeySet)
    /\ \A s, t \in Seq(PieceSet) : Splits!KeysOf(s \o t) = Splits!KeysOf(s) \o Splits!KeysOf(t)
<1>1. ASSUME NEW p \in PieceSet PROVE Splits!PieceKeys(p) \in Seq(KeySet)
  <2>1. p.item \in Nat /\ p.rows \in Seq(Nat) /\ p.part \in 0..2
    BY DEF PieceSet
  <2>2. 0 \in Nat /\ 0 \in 0..2
    OBVIOUS
  <2>3. CASE p.rows = <<>>
    <3>1. <<p.item, 0, 0>> \in KeySet
      BY <2>1, <2>2 DEF KeySet
    <3>2. Splits!PieceKeys(p) = << <<p.item, 0, 0>> >>
      BY <2>3 DEF Splits!PieceKeys
    <3> QED BY <3>1, <3>2
  <2>4. CASE p.rows # <<>>
    <3>1. Splits!PieceKeys(p) = [k \in 1..Len(p.rows) |-> <<p.item, p.rows[k], p.part>>]
      BY <2>1, <2>4 DEF Splits!PieceKeys
    <3>2. \A k \in 1..Len(p.rows) : <<p.item, p.rows[k], p.part>> \in KeySet
      BY <2>1 DEF KeySet
    <3>3. Len(p.rows) \in Nat
      BY <2>1
    <3> QED BY <3>1, <3>2, <3>3
  <2> QED BY <2>3, <2>4
<1>2. KeyMap \in SequenceMaps(PieceSet, KeySet)
  BY <1>1 DEF KeyMap, SequenceMaps
<1>3. ASSUME NEW s \in Seq(PieceSet) PROVE Splits!KeysOf(s) = MapFlat(KeyMap, s)
  <2>1. [k \in DOMAIN s |-> Splits!PieceKeys(s[k])] = [k \in DOMAIN s |-> KeyMap[s[k]]]
    BY DEF KeyMap
  <2> QED BY <2>1, SplitOperators DEF Splits!KeysOf, MapFlat
<1> DEFINE m == KeyMap
<1> HIDE DEF m
<1>4. m \in SequenceMaps(PieceSet, KeySet)
  BY <1>2 DEF m
<1>5. \A s \in Seq(PieceSet) : Splits!KeysOf(s) = MapFlat(m, s)
  BY <1>3 DEF m
<1>6. <<>> \in Seq(PieceSet) /\ \A p \in PieceSet : <<p>> \in Seq(PieceSet) /\ m[p] = Splits!PieceKeys(p)
  BY DEF m, KeyMap
<1>7. MapFlat(m, <<>>) = <<>> /\ \A s \in Seq(PieceSet) : MapFlat(m, s) \in Seq(KeySet)
  BY <1>4, MapFlatAppends
<1>8. ASSUME NEW p \in PieceSet PROVE Splits!KeysOf(<<p>>) = Splits!PieceKeys(p)
  <2>1. MapFlat(m, <<p>>) = m[p]
    BY <1>4, MapFlatOne
  <2> QED BY <2>1, <1>5, <1>6
<1>9. ASSUME NEW s \in Seq(PieceSet), NEW t \in Seq(PieceSet)
      PROVE  Splits!KeysOf(s \o t) = Splits!KeysOf(s) \o Splits!KeysOf(t)
  <2>1. MapFlat(m, s \o t) = MapFlat(m, s) \o MapFlat(m, t)
    BY <1>4, MapFlatConcat
  <2>2. s \o t \in Seq(PieceSet)
    OBVIOUS
  <2> QED BY <2>1, <2>2, <1>5
<1> QED BY <1>1, <1>5, <1>6, <1>7, <1>8, <1>9

\* The starts among keys, for empty, single and joined lists.
LEMMA StartsAre ==
    /\ Splits!Starts(<<>>) = <<>>
    /\ \A k \in KeySet : Splits!Starts(<<k>>) = Splits!Start(k)
    /\ \A s \in Seq(KeySet) : Splits!Starts(s) \in Seq(StartSet)
    /\ \A s, t \in Seq(KeySet) : Splits!Starts(s \o t) = Splits!Starts(s) \o Splits!Starts(t)
<1>1. ASSUME NEW k \in KeySet PROVE Splits!Start(k) \in Seq(StartSet)
  <2>1. k[1] \in Nat /\ k[2] \in Nat
    BY DEF KeySet
  <2>2. <<k[1], k[2]>> \in StartSet
    BY <2>1 DEF StartSet
  <2> QED BY <2>2 DEF Splits!Start
<1>2. StartMap \in SequenceMaps(KeySet, StartSet)
  BY <1>1 DEF StartMap, SequenceMaps
<1>3. ASSUME NEW s \in Seq(KeySet) PROVE Splits!Starts(s) = MapFlat(StartMap, s)
  <2>1. [k \in DOMAIN s |-> Splits!Start(s[k])] = [k \in DOMAIN s |-> StartMap[s[k]]]
    BY DEF StartMap
  <2> QED BY <2>1, SplitOperators DEF Splits!Starts, MapFlat
<1> DEFINE m == StartMap
<1> HIDE DEF m
<1>4. m \in SequenceMaps(KeySet, StartSet)
  BY <1>2 DEF m
<1>5. \A s \in Seq(KeySet) : Splits!Starts(s) = MapFlat(m, s)
  BY <1>3 DEF m
<1>6. <<>> \in Seq(KeySet) /\ \A k \in KeySet : <<k>> \in Seq(KeySet) /\ m[k] = Splits!Start(k)
  BY DEF m, StartMap
<1>7. MapFlat(m, <<>>) = <<>> /\ \A s \in Seq(KeySet) : MapFlat(m, s) \in Seq(StartSet)
  BY <1>4, MapFlatAppends
<1>8. ASSUME NEW k \in KeySet PROVE Splits!Starts(<<k>>) = Splits!Start(k)
  <2>1. MapFlat(m, <<k>>) = m[k]
    BY <1>4, MapFlatOne
  <2> QED BY <2>1, <1>5, <1>6
<1>9. ASSUME NEW s \in Seq(KeySet), NEW t \in Seq(KeySet)
      PROVE  Splits!Starts(s \o t) = Splits!Starts(s) \o Splits!Starts(t)
  <2>1. MapFlat(m, s \o t) = MapFlat(m, s) \o MapFlat(m, t)
    BY <1>4, MapFlatConcat
  <2>2. s \o t \in Seq(KeySet)
    OBVIOUS
  <2> QED BY <2>1, <2>2, <1>5
<1> QED BY <1>5, <1>6, <1>7, <1>8, <1>9

\* Every first part is followed by the last part of its row.
Sound(keys) ==
    \A k \in 1..Len(keys) :
        keys[k][3] = 1 => k < Len(keys) /\ keys[k + 1] = <<keys[k][1], keys[k][2], 2>>

\* Keys in which no row is cut off stay so when they are joined.
LEMMA SoundConcat ==
    ASSUME NEW s \in Seq(KeySet), NEW t \in Seq(KeySet), Sound(s), Sound(t)
    PROVE  Sound(s \o t)
<1> DEFINE u == s \o t
<1>1. Len(u) = Len(s) + Len(t) /\ Len(s) \in Nat /\ Len(t) \in Nat
      /\ (\A k \in 1..Len(s) : u[k] = s[k]) /\ (\A k \in 1..Len(t) : u[Len(s) + k] = t[k])
  OBVIOUS
<1> HIDE DEF u
<1>2. ASSUME NEW k \in 1..Len(u), u[k][3] = 1
      PROVE  k < Len(u) /\ u[k + 1] = <<u[k][1], u[k][2], 2>>
  <2>1. CASE k \in 1..Len(s)
    <3>1. k < Len(s) /\ s[k + 1] = <<s[k][1], s[k][2], 2>> /\ u[k] = s[k]
      BY <1>1, <1>2, <2>1 DEF Sound
    <3>2. k + 1 \in 1..Len(s) /\ k < Len(u)
      BY <1>1, <2>1, <3>1
    <3> QED BY <1>1, <3>1, <3>2
  <2>2. CASE k \notin 1..Len(s)
    <3> DEFINE l == k - Len(s)
    <3>1. l \in 1..Len(t) /\ k = Len(s) + l
      BY <1>1, <2>2
    <3> HIDE DEF l
    <3>2. u[k] = t[l]
      BY <1>1, <3>1
    <3>3. l < Len(t) /\ t[l + 1] = <<t[l][1], t[l][2], 2>>
      BY <1>2, <3>1, <3>2 DEF Sound
    <3>4. l + 1 \in 1..Len(t) /\ k + 1 = Len(s) + (l + 1) /\ k < Len(u)
      BY <1>1, <3>1, <3>3
    <3>5. u[k + 1] = t[l + 1]
      BY <1>1, <3>4
    <3> QED BY <3>2, <3>3, <3>4, <3>5
  <2> QED BY <2>1, <2>2
<1>3. Sound(u)
  BY <1>2 DEF Sound
<1> QED BY <1>3 DEF u

\* No parts, nothing to be sound about.
LEMMA SoundWhole ==
    ASSUME NEW p \in PieceSet, p.part = 0
    PROVE  Sound(Splits!PieceKeys(p))
<1>1. p.rows \in Seq(Nat)
  BY DEF PieceSet
<1>2. CASE p.rows = <<>>
  BY <1>2 DEF Splits!PieceKeys, Sound
<1>3. CASE p.rows # <<>>
  <2>1. Splits!PieceKeys(p) = [k \in 1..Len(p.rows) |-> <<p.item, p.rows[k], 0>>]
    BY <1>1, <1>3 DEF Splits!PieceKeys
  <2> DEFINE s == Splits!PieceKeys(p)
  <2>2. \A k \in 1..Len(s) : s[k][3] = 0
    BY <1>1, <2>1
  <2> HIDE DEF s
  <2>3. Sound(s)
    BY <2>2 DEF Sound
  <2> QED BY <2>3 DEF s
<1> QED BY <1>2, <1>3

-----------------------------------------------------------------------------
(* Flattened sequences *)

\* No list has no element.
LEMMA FlatEmpty == FlattenSeq(<<>>) = <<>> /\ \A S : <<>> \in Seq(S)
<1>1. \A S : <<>> \in Seq(S)
  OBVIOUS
<1>2. <<>> \in Seq(Nat)
  OBVIOUS
<1> QED BY <1>1, <1>2, FlatOne

-----------------------------------------------------------------------------
(* Chunks, their items and rows *)

RowsIn(c, i) == FlattenSeq(c[i].groups)
WholeOf(c, i) == [item |-> i, rows |-> [r \in DOMAIN RowsIn(c, i) |-> r], part |-> 0]
WholesOf(c, h) == [k \in DOMAIN h |-> WholeOf(c, h[k])]

\* What the assumption says of the items of a chunk.
LEMMA ItemsAre ==
    ASSUME NEW c \in Chunks
    PROVE  /\ c \in Seq(Splits!Items) /\ Len(c) \in Nat /\ Len(c) > 0 /\ DOMAIN c = 1..Len(c)
           /\ \A i \in 1..Len(c) :
                 /\ c[i].groups \in Seq(Seq(Nat)) /\ c[i].label \in Nat /\ c[i].tokens \in Nat
                 /\ RowsIn(c, i) \in Seq(Nat) /\ Len(RowsIn(c, i)) \in Nat
                 /\ c[i].groups = <<>> <=> c[i].kind # "table"
                 /\ \A g \in 1..Len(c[i].groups) : c[i].groups[g] # <<>>
                 /\ RowsIn(c, i) = <<>> <=> c[i].kind # "table"
                 /\ WholeOf(c, i) \in PieceSet
<1>1. /\ c \in Seq(Splits!Items) /\ c # <<>>
      /\ \A i \in DOMAIN c : /\ c[i].groups = <<>> <=> c[i].kind # "table"
                             /\ \A g \in DOMAIN c[i].groups : c[i].groups[g] # <<>>
  BY SplittingAssumption DEF Splits!ChunksAssumption
<1>2. Len(c) \in Nat /\ Len(c) > 0 /\ DOMAIN c = 1..Len(c) /\ \A i \in 1..Len(c) : c[i] \in Splits!Items
  BY <1>1
<1>3. ASSUME NEW i \in 1..Len(c)
      PROVE  /\ c[i].groups \in Seq(Seq(Nat)) /\ c[i].label \in Nat /\ c[i].tokens \in Nat
             /\ RowsIn(c, i) \in Seq(Nat) /\ Len(RowsIn(c, i)) \in Nat
             /\ c[i].groups = <<>> <=> c[i].kind # "table"
             /\ \A g \in 1..Len(c[i].groups) : c[i].groups[g] # <<>>
             /\ RowsIn(c, i) = <<>> <=> c[i].kind # "table"
             /\ WholeOf(c, i) \in PieceSet
  <2> DEFINE gs == c[i].groups
  <2>1. gs \in Seq(Seq(Nat)) /\ c[i].label \in Nat /\ c[i].tokens \in Nat
    BY <1>2 DEF Splits!Items
  <2>2. (gs = <<>> <=> c[i].kind # "table") /\ \A g \in 1..Len(gs) : gs[g] # <<>>
    BY <1>1, <1>2, <2>1
  <2> HIDE DEF gs
  <2>3. FlattenSeq(gs) \in Seq(Nat)
    BY <2>1, FlattenIn
  <2>4. FlattenSeq(gs) = <<>> <=> gs = <<>>
    <3>1. FlattenSeq(<<>>) = <<>>
      BY FlatEmpty
    <3>2. ASSUME gs # <<>> PROVE FlattenSeq(gs) # <<>>
      <4>1. FlattenSeq(gs) = gs[1] \o FlattenSeq(Tail(gs)) /\ gs[1] \in Seq(Nat) /\ FlattenSeq(Tail(gs)) \in Seq(Nat)
        BY <2>1, <3>2, FlatFirst
      <4>2. gs[1] # <<>>
        BY <2>1, <2>2, <3>2
      <4> QED BY <4>1, <4>2
    <3> QED BY <3>1, <3>2
  <2> DEFINE f == FlattenSeq(gs)
  <2>5. [item |-> i, rows |-> [r \in DOMAIN f |-> r], part |-> 0] \in PieceSet
    <3> HIDE DEF f
    <3>1. f \in Seq(Nat)
      BY <2>3 DEF f
    <3>2. DOMAIN f = 1..Len(f) /\ Len(f) \in Nat
      BY <3>1
    <3>3. [r \in DOMAIN f |-> r] \in Seq(Nat)
      BY <3>2
    <3>4. i \in Nat /\ 0 \in 0..2
      BY <1>2
    <3> QED BY <3>3, <3>4 DEF PieceSet
  <2>6. f = RowsIn(c, i)
    BY DEF RowsIn, gs
  <2>7. WholeOf(c, i) \in PieceSet
    BY <2>5, <2>6 DEF WholeOf
  <2>8. RowsIn(c, i) = <<>> <=> c[i].kind # "table"
    BY <2>2, <2>4, <2>6
  <2> QED BY <2>1, <2>2, <2>3, <2>6, <2>7, <2>8 DEF gs
<1> QED BY <1>1, <1>2, <1>3

\* Whole items, for empty, joined and single lists.
LEMMA WholesAre ==
    ASSUME NEW c \in Chunks
    PROVE  /\ WholesOf(c, <<>>) = <<>>
           /\ \A s \in Seq(1..Len(c)) : WholesOf(c, s) \in Seq(PieceSet) /\ Len(WholesOf(c, s)) = Len(s)
           /\ \A s, t \in Seq(1..Len(c)) : WholesOf(c, s \o t) = WholesOf(c, s) \o WholesOf(c, t)
           /\ \A i \in 1..Len(c) : WholesOf(c, <<i>>) = <<WholeOf(c, i)>>
<1> DEFINE I == 1..Len(c)
           w == [i \in I |-> WholeOf(c, i)]
           m == [i \in I |-> <<WholeOf(c, i)>>]
<1>0. \A i \in I : WholeOf(c, i) \in PieceSet
  BY ItemsAre
<1>1. m \in SequenceMaps(I, PieceSet)
  BY <1>0 DEF SequenceMaps
<1> HIDE DEF I
<1>2. ASSUME NEW s \in Seq(I) PROVE WholesOf(c, s) \in Seq(PieceSet) /\ Len(WholesOf(c, s)) = Len(s)
  <2>1. DOMAIN s = 1..Len(s) /\ Len(s) \in Nat /\ \A k \in 1..Len(s) : WholeOf(c, s[k]) \in PieceSet
    BY <1>0
  <2> QED BY <2>1 DEF WholesOf
<1>3. ASSUME NEW s \in Seq(I), NEW a \in I PROVE WholesOf(c, Append(s, a)) = Append(WholesOf(c, s), WholeOf(c, a))
  <2>1. DOMAIN Append(s, a) = 1..Len(s) + 1 /\ DOMAIN s = 1..Len(s) /\ Len(s) \in Nat
        /\ Append(s, a)[Len(s) + 1] = a /\ \A k \in 1..Len(s) : Append(s, a)[k] = s[k]
    OBVIOUS
  <2> DEFINE f == WholesOf(c, Append(s, a))  e == WholesOf(c, s)  x == WholeOf(c, a)
  <2>2. e = [k \in 1..Len(s) |-> WholeOf(c, s[k])] /\ f = [k \in 1..Len(s) + 1 |-> WholeOf(c, Append(s, a)[k])]
    BY <2>1 DEF WholesOf
  <2>3. e \in Seq(PieceSet) /\ Len(e) = Len(s) /\ x \in PieceSet
    BY <1>0, <1>2
  <2>4. \A k \in 1..Len(s) : f[k] = e[k]
    BY <2>1, <2>2
  <2>5. f[Len(s) + 1] = x
    BY <2>1, <2>2
  <2>6. f \in Seq(PieceSet) /\ Len(f) = Len(s) + 1
    <3>1. Append(s, a) \in Seq(I) /\ Len(Append(s, a)) = Len(s) + 1
      BY AppendIs
    <3> QED BY <1>2, <3>1
  <2> HIDE DEF e, f, x
  <2>7. Append(e, x) \in Seq(PieceSet) /\ Len(Append(e, x)) = Len(s) + 1
        /\ Append(e, x)[Len(s) + 1] = x /\ \A k \in 1..Len(s) : Append(e, x)[k] = e[k]
    BY <2>1, <2>3
  <2>8. f = Append(e, x)
    <3>1. \A k \in 1..Len(s) + 1 : f[k] = Append(e, x)[k]
      BY <2>1, <2>4, <2>5, <2>7
    <3> QED BY <2>6, <2>7, <3>1, SeqEqual
  <2> QED BY <2>8 DEF e, f, x
<1>4. WholesOf(c, <<>>) = <<>>
  BY DEF WholesOf
<1> DEFINE T == {s \in Seq(I) : MapFlat(m, s) = WholesOf(c, s)}
<1> HIDE DEF m
<1>5. <<>> \in T
  <2>1. MapFlat(m, <<>>) = <<>> /\ <<>> \in Seq(I)
    BY <1>1, MapFlatAppends
  <2> QED BY <1>4, <2>1
<1>6. ASSUME NEW s \in Seq(I), s \in T, NEW a \in I PROVE Append(s, a) \in T
  <2>1. MapFlat(m, Append(s, a)) = WholesOf(c, s) \o m[a]
    BY <1>1, <1>6, MapFlatAppends
  <2>2. m[a] = <<WholeOf(c, a)>>
    BY DEF m
  <2>3. WholesOf(c, s) \o <<WholeOf(c, a)>> = Append(WholesOf(c, s), WholeOf(c, a))
    BY <1>0, <1>2
  <2>4. Append(s, a) \in Seq(I)
    BY AppendIs
  <2>5. MapFlat(m, Append(s, a)) = WholesOf(c, Append(s, a))
    BY <1>3, <2>1, <2>2, <2>3
  <2> QED BY <2>4, <2>5
<1>7. Seq(I) \subseteq T
  <2> HIDE DEF T
  <2> QED BY <1>5, <1>6, SequenceInduction
<1>8. ASSUME NEW s \in Seq(I), NEW t \in Seq(I) PROVE WholesOf(c, s \o t) = WholesOf(c, s) \o WholesOf(c, t)
  <2>1. MapFlat(m, s \o t) = MapFlat(m, s) \o MapFlat(m, t)
    BY <1>1, MapFlatConcat
  <2>2. s \o t \in Seq(I)
    OBVIOUS
  <2> QED BY <1>7, <2>1, <2>2
<1>9. ASSUME NEW i \in I PROVE WholesOf(c, <<i>>) = <<WholeOf(c, i)>>
  BY DEF WholesOf
<1> QED BY <1>2, <1>4, <1>8, <1>9 DEF I

\* The rows of a table, numbered in its groups.
Numbered(gs) ==
    [g \in DOMAIN gs |->
        LET before == Len(FlattenSeq(SubSeq(gs, 1, g - 1)))
        IN  [r \in DOMAIN gs[g] |-> before + r]]

\* Groups of rows are numbered through, in order.
LEMMA NumberedIs ==
    ASSUME NEW gs \in Seq(Seq(Nat))
    PROVE  /\ Numbered(gs) \in Seq(Seq(Nat)) /\ Len(Numbered(gs)) = Len(gs)
           /\ FlattenSeq(Numbered(gs)) = [r \in 1..Len(FlattenSeq(gs)) |-> r]
           /\ \A g \in 1..Len(gs) : Len(Numbered(gs)[g]) = Len(gs[g])
<1> DEFINE A == Seq(Nat)
           Good(s) == /\ Numbered(s) \in Seq(A) /\ Len(Numbered(s)) = Len(s)
                      /\ FlattenSeq(Numbered(s)) = [r \in 1..Len(FlattenSeq(s)) |-> r]
                      /\ \A g \in 1..Len(s) : Len(Numbered(s)[g]) = Len(s[g])
           T == {s \in Seq(A) : Good(s)}
<1>0. FlattenSeq(<<>>) = <<>>
  BY FlatEmpty
<1>1. <<>> \in T
  <2>1. Numbered(<<>>) = <<>> /\ [r \in 1..Len(<<>>) |-> r] = <<>> /\ 1..Len(<<>>) = {}
    BY DEF Numbered
  <2>2. <<>> \in Seq(A)
    OBVIOUS
  <2>3. Good(<<>>)
    <3> HIDE DEF A
    <3> QED BY <1>0, <2>1, <2>2
  <2> HIDE DEF Good
  <2> QED BY <2>2, <2>3
<1>2. ASSUME NEW s \in Seq(A), s \in T, NEW e \in A PROVE Append(s, e) \in T
  <2> DEFINE u == Append(s, e)  n == Len(s)  F == FlattenSeq(s)  x == [r \in 1..Len(e) |-> Len(F) + r]
             N == Numbered(s)
  <2>1. u \in Seq(A) /\ Len(u) = n + 1 /\ n \in Nat /\ DOMAIN u = 1..n + 1 /\ u[n + 1] = e /\ DOMAIN s = 1..n
        /\ \A g \in 1..n : u[g] = s[g]
    OBVIOUS
  <2>2. \A g \in 1..n + 1 : SubSeq(u, 1, g - 1) = SubSeq(s, 1, g - 1)
    <3> SUFFICES ASSUME NEW g \in 1..n + 1 PROVE SubSeq(u, 1, g - 1) = SubSeq(s, 1, g - 1)
      OBVIOUS
    <3>1. \A k \in 1..g - 1 : u[k] = s[k]
      BY <2>1
    <3> HIDE DEF u
    <3> QED BY <2>1, <3>1
  <2>3. SubSeq(s, 1, n) = s
    OBVIOUS
  <2>4. e \in Seq(Nat) /\ DOMAIN e = 1..Len(e) /\ Len(e) \in Nat
    OBVIOUS
  <2>5. N \in Seq(A) /\ Len(N) = n /\ FlattenSeq(N) = [r \in 1..Len(F) |-> r]
        /\ \A g \in 1..n : Len(N[g]) = Len(s[g])
    BY <1>2
  <2>6. F \in Seq(Nat) /\ Len(F) \in Nat
    BY FlattenIn
  <2> HIDE DEF u, n, F, x, N
  <2>7. Numbered(u)[n + 1] = x /\ DOMAIN Numbered(u) = 1..n + 1
    <3>1. n + 1 \in 1..n + 1 /\ (n + 1) - 1 = n
      BY <2>1
    <3>2. SubSeq(u, 1, (n + 1) - 1) = s
      BY <2>2, <2>3, <3>1
    <3> QED BY <2>1, <2>4, <3>1, <3>2 DEF Numbered, x, F
  <2>8. ASSUME NEW g \in 1..n PROVE Numbered(u)[g] = N[g]
    <3>1. g \in 1..n + 1 /\ g \in DOMAIN s /\ u[g] = s[g] /\ SubSeq(u, 1, g - 1) = SubSeq(s, 1, g - 1)
      BY <2>1, <2>2
    <3> QED BY <2>1, <3>1 DEF Numbered, N
  <2>9. x \in A /\ Len(x) = Len(e)
    BY <2>4, <2>6 DEF x
  <2>10. Numbered(u) = Append(N, x)
    <3> HIDE DEF A
    <3>1. DOMAIN Append(N, x) = 1..n + 1 /\ Append(N, x)[n + 1] = x /\ (\A g \in 1..n : Append(N, x)[g] = N[g])
          /\ Append(N, x) \in Seq(A) /\ Len(Append(N, x)) = n + 1
      BY <2>1, <2>5, <2>9
    <3> DEFINE z == Append(N, x)  y == Numbered(u)
    <3>2. y = [g \in 1..n + 1 |-> y[g]]
      BY <2>1 DEF Numbered
    <3> HIDE DEF z, y
    <3>3. \A g \in 1..n + 1 : y[g] = z[g]
      BY <2>1, <2>7, <2>8, <3>1 DEF z, y
    <3>4. z = [g \in 1..n + 1 |-> z[g]]
      <4>1. z \in Seq(A) /\ Len(z) = n + 1
        BY <3>1 DEF z
      <4> QED BY <4>1, SeqIs
    <3> QED BY <3>2, <3>3, <3>4 DEF z, y
  <2>11. FlattenSeq(u) = F \o e /\ Len(F \o e) = Len(F) + Len(e)
    <3>1. s \in Seq(Seq(Nat))
      OBVIOUS
    <3>2. FlattenSeq(u) = F \o e
      BY <2>4, <3>1, FlattenAppend DEF F, u
    <3> QED BY <2>4, <2>6, <3>2, ConcatIs
  <2>12. FlattenSeq(Append(N, x)) = FlattenSeq(N) \o x
    BY <2>5, <2>9, FlattenAppend
  <2>13. [r \in 1..Len(F) |-> r] \o x = [r \in 1..Len(F) + Len(e) |-> r]
    <3> DEFINE a == [r \in 1..Len(F) |-> r]
    <3>1. a \in Seq(Nat) /\ Len(a) = Len(F) /\ \A r \in 1..Len(F) : a[r] = r
      BY <2>6
    <3>2. x \in Seq(Nat) /\ Len(x) = Len(e) /\ \A r \in 1..Len(e) : x[r] = Len(F) + r
      BY <2>9 DEF x
    <3> HIDE DEF a, x
    <3>3. a \o x \in Seq(Nat) /\ Len(a \o x) = Len(F) + Len(e)
      BY <3>1, <3>2, ConcatIs
    <3>4. ASSUME NEW r \in 1..Len(F) + Len(e) PROVE (a \o x)[r] = r
      <4>1. CASE r <= Len(F)
        <5>1. r \in 1..Len(F)
          BY <2>4, <2>6, <4>1
        <5> QED BY <3>1, <3>2, <5>1, ConcatIs
      <4>2. CASE r > Len(F)
        <5> DEFINE l == r - Len(F)
        <5>1. l \in 1..Len(e) /\ Len(F) + l = r
          BY <2>4, <2>6, <4>2
        <5> HIDE DEF l
        <5>2. (a \o x)[Len(a) + l] = x[l]
          <6>1. l \in 1..Len(x)
            BY <3>2, <5>1
          <6> DEFINE V == Nat
          <6>2. a \in Seq(V) /\ x \in Seq(V)
            BY <3>1, <3>2
          <6> HIDE DEF V
          <6> QED BY <6>1, <6>2, ConcatIs
        <5> QED BY <3>1, <3>2, <5>1, <5>2
      <4>3. Len(F) \in Int /\ r \in Int
        BY <2>4, <2>6
      <4>4. r <= Len(F) \/ r > Len(F)
        BY <4>3
      <4> QED BY <4>1, <4>2, <4>4
    <3> DEFINE b == a \o x
    <3> HIDE DEF b
    <3>5. b = [r \in 1..Len(F) + Len(e) |-> r]
      <4>1. b \in Seq(Nat) /\ Len(b) = Len(F) + Len(e) /\ \A r \in 1..Len(F) + Len(e) : b[r] = r
        BY <3>3, <3>4 DEF b
      <4>2. b = [r \in 1..Len(F) + Len(e) |-> b[r]]
        BY <4>1, SeqIs
      <4> QED BY <4>1, <4>2
    <3> QED BY <3>5 DEF a, b
  <2>14. ASSUME NEW g \in 1..n + 1 PROVE Len(Append(N, x)[g]) = Len(u[g])
    <3>1. CASE g \in 1..n
      <4>1. Append(N, x)[g] = N[g] /\ u[g] = s[g]
        BY <2>1, <2>5, <2>9, <3>1
      <4> QED BY <2>5, <3>1, <4>1
    <3>2. CASE g = n + 1
      <4>1. Append(N, x)[g] = x
        <5>1. N \in Seq(A) /\ x \in A /\ Len(N) = n
          BY <2>5, <2>9
        <5> HIDE DEF A, N, x
        <5>2. Append(N, x)[Len(N) + 1] = x
          BY <5>1, AppendIs
        <5> QED BY <3>2, <5>1, <5>2
      <4>2. u[g] = e
        BY <2>1, <3>2
      <4> QED BY <2>9, <4>1, <4>2
    <3>3. g \in 1..n \/ g = n + 1
      BY <2>1
    <3> QED BY <3>1, <3>2, <3>3
  <2>15. Append(N, x) \in Seq(A) /\ Len(Append(N, x)) = n + 1
    <3> HIDE DEF A
    <3> QED BY <2>5, <2>9, AppendIs
  <2>16. Good(u)
    BY <2>1, <2>5, <2>10, <2>11, <2>12, <2>13, <2>14, <2>15
  <2>17. u \in T
    BY <2>1, <2>16
  <2> QED BY <2>17 DEF u
<1>3. Seq(A) \subseteq T
  <2> HIDE DEF T, A
  <2> QED BY <1>1, <1>2, SequenceInduction
<1>4. gs \in T
  BY <1>3
<1> QED BY <1>4

-----------------------------------------------------------------------------
(* Items that follow one another, and their sizes *)

Weight(c, i) == IF c[i].kind = "table" THEN Splits!Total(RowsIn(c, i)) ELSE c[i].tokens
Weights(c) == [i \in 1..Len(c) |-> Weight(c, i)]
TextWeights(c) == [i \in 1..Len(c) |-> IF c[i].kind = "text" THEN Weight(c, i) ELSE 0]

\* The weights of items and rows are natural numbers.
LEMMA WeightsAre ==
    ASSUME NEW c \in Chunks
    PROVE  /\ Weights(c) \in [1..Len(c) -> Nat] /\ TextWeights(c) \in [1..Len(c) -> Nat]
           /\ \A i \in 1..Len(c) : TextWeights(c)[i] <= Weights(c)[i]
           /\ \A i \in 1..Len(c) : RowsIn(c, i) \in [1..Len(RowsIn(c, i)) -> Nat]
<1>1. ASSUME NEW i \in 1..Len(c)
      PROVE  Weight(c, i) \in Nat /\ RowsIn(c, i) \in [1..Len(RowsIn(c, i)) -> Nat]
  <2>1. c[i].tokens \in Nat /\ RowsIn(c, i) \in Seq(Nat)
    BY ItemsAre
  <2>2. Splits!Total(RowsIn(c, i)) \in Nat
    BY <2>1, TotalIs
  <2> QED BY <2>1, <2>2 DEF Weight
<1> QED BY <1>1 DEF Weights, TextWeights

\* What the operators of TableSplits say of the chunk.
LEMMA SizesAre ==
    ASSUME chunk \in Chunks
    PROVE  /\ \A i : Splits!SizesOf(i) = RowsIn(chunk, i)
           /\ \A i : Splits!IsTable(i) <=> chunk[i].kind = "table"
           /\ \A i : Splits!Tokens(i) = Weight(chunk, i)
           /\ \A i : Splits!RowNumbers(i) = WholeOf(chunk, i).rows
           /\ \A i : Splits!Whole(i) = WholeOf(chunk, i)
           /\ \A h : Splits!WholeOnes(h) = WholesOf(chunk, h)
           /\ \A i : Splits!GroupsOf(i) = Numbered(chunk[i].groups)
           /\ \A i, rows : Splits!RowsSize(i, rows) = MapTotal(RowsIn(chunk, i), rows)
           /\ \A h \in Seq(1..Len(chunk)) : /\ Splits!Prefix(h) = MapTotal(Weights(chunk), h)
                                            /\ Splits!Repeated(h) = MapTotal(TextWeights(chunk), h)
<1>1. \A i : Splits!SizesOf(i) = RowsIn(chunk, i)
  BY SplitOperators DEF Splits!SizesOf, RowsIn
<1>2. \A i : Splits!IsTable(i) <=> chunk[i].kind = "table"
  BY DEF Splits!IsTable
<1>3. \A i : Splits!Tokens(i) = Weight(chunk, i)
  BY <1>1, <1>2 DEF Splits!Tokens, Weight
<1>4. \A i : Splits!RowNumbers(i) = WholeOf(chunk, i).rows /\ Splits!Whole(i) = WholeOf(chunk, i)
  BY <1>1 DEF Splits!RowNumbers, Splits!Whole, WholeOf
<1>5. \A h : Splits!WholeOnes(h) = WholesOf(chunk, h)
  BY <1>4 DEF Splits!WholeOnes, WholesOf
<1>6. \A i : Splits!GroupsOf(i) = Numbered(chunk[i].groups)
  BY SplitOperators DEF Splits!GroupsOf, Numbered
<1>7. \A i, rows : Splits!RowsSize(i, rows) = MapTotal(RowsIn(chunk, i), rows)
  BY <1>1 DEF Splits!RowsSize, MapTotal
<1>8. ASSUME NEW h \in Seq(1..Len(chunk))
      PROVE  /\ Splits!Prefix(h) = MapTotal(Weights(chunk), h)
             /\ Splits!Repeated(h) = MapTotal(TextWeights(chunk), h)
  <2>1. \A k \in DOMAIN h : h[k] \in 1..Len(chunk)
    OBVIOUS
  <2>2. [k \in DOMAIN h |-> Splits!Tokens(h[k])] = [k \in DOMAIN h |-> Weights(chunk)[h[k]]]
    BY <1>3, <2>1 DEF Weights
  <2>3. [k \in DOMAIN h |-> IF chunk[h[k]].kind = "text" THEN Splits!Tokens(h[k]) ELSE 0]
            = [k \in DOMAIN h |-> TextWeights(chunk)[h[k]]]
    BY <1>3, <2>1 DEF TextWeights
  <2> QED BY <2>2, <2>3 DEF Splits!Prefix, Splits!Repeated, MapTotal
<1> QED BY <1>1, <1>2, <1>3, <1>4, <1>5, <1>6, <1>7, <1>8

-----------------------------------------------------------------------------
(* The two folds *)

\* Packing makes lists of items.
LEMMA WithItemIn ==
    ASSUME NEW V, NEW v \in Seq(Seq(V)), NEW x \in V
    PROVE  Splits!WithItem(v, x) \in Seq(Seq(V))
<1>1. <<x>> \in Seq(V) /\ << <<x>> >> \in Seq(Seq(V)) /\ Append(v, <<x>>) \in Seq(Seq(V))
  OBVIOUS
<1>2. ASSUME v # <<>> PROVE Append(Splits!Front(v), Append(Splits!Last(v), x)) \in Seq(Seq(V))
  <2>1. Last(v) \in Seq(V) /\ Front(v) \in Seq(Seq(V))
    BY <1>2, FlatLast
  <2>2. Append(Last(v), x) \in Seq(V)
    BY <2>1
  <2>3. Append(Front(v), Append(Last(v), x)) \in Seq(Seq(V))
    BY <2>1, <2>2
  <2> QED BY <2>3, SplitOperators
<1> QED BY <1>1, <1>2 DEF Splits!WithItem

PackingSteps(V, s) == [k \in 1..Len(s) |-> [v \in Seq(Seq(V)) |-> Splits!WithItem(v, s[k])]]

\* Packing items, one after the other.
LEMMA Packing ==
    ASSUME NEW W, NEW s \in Seq(W)
    PROVE  \E p : /\ FoldTrace(p, Len(s), Seq(Seq(W)), <<>>, PackingSteps(W, s))
                  /\ Splits!Packed(s) = p[Len(s)]
<1> DEFINE n == Len(s)
           values == Seq(Seq(W))
           first == <<>>
           turn == PackingSteps(W, s)
           eq(h) == [t \in SUBSET (DOMAIN s) |->
                        IF t = {} THEN first ELSE Splits!WithItem(h[t \ {Splits!Max(t)}], s[Splits!Max(t)])]
           h == CHOOSE h : h = eq(h)
           p == [k \in 0..n |-> h[1..k]]
<1>0. n \in Nat /\ DOMAIN s = 1..n /\ first \in values /\ \A k \in 1..n : s[k] \in W
  OBVIOUS
<1>1. \A k \in 1..n : \A v \in values : Splits!WithItem(v, s[k]) \in values
  BY <1>0, WithItemIn
<1>2. turn \in FoldSteps(n, values) /\ turn = [k \in 1..n |-> [v \in values |-> Splits!WithItem(v, s[k])]]
  BY <1>1 DEF FoldSteps, PackingSteps
<1> HIDE DEF turn
<1>3. PICK f : FoldsSets(f, n, values, first, turn)
  <2> HIDE DEF n, values, first
  <2> QED BY <1>0, <1>2, SetsFold
<1>4. Splits!Packed(s) = h[DOMAIN s]
  BY DEF Splits!Packed, Splits!FoldLeft, Splits!MapThenFoldSet
<1> HIDE DEF values, first
<1>5. f = eq(f)
  <2>1. f \in [SUBSET (1..n) -> values]
    BY <1>3 DEF FoldsSets
  <2>2. ASSUME NEW t \in SUBSET (1..n), t # {}
        PROVE  turn[Max(t)][f[t \ {Max(t)}]] = Splits!WithItem(f[t \ {Splits!Max(t)}], s[Splits!Max(t)])
    <3>1. Max(t) \in 1..n
      <4> HIDE DEF n
      <4> QED BY <1>0, <2>2, MaxIn
    <3>2. f[t \ {Max(t)}] \in values
      BY <2>1
    <3> QED BY <1>2, <3>1, <3>2, SplitOperators
  <2>3. f = [t \in SUBSET (1..n) |-> IF t = {} THEN first ELSE turn[Max(t)][f[t \ {Max(t)}]]]
    BY <1>3 DEF FoldsSets
  <2> HIDE DEF n
  <2> QED BY <1>0, <2>2, <2>3
<1>6. h = eq(h)
  <2> HIDE DEF eq
  <2> QED BY <1>5
<1> HIDE DEF h
<1>7. \A t \in SUBSET (1..n) : h[t] = IF t = {} THEN first ELSE Splits!WithItem(h[t \ {Splits!Max(t)}], s[Splits!Max(t)])
  <2> HIDE DEF n
  <2> QED BY <1>0, <1>6
<1>8. h[{}] = first
  <2>1. {} \in SUBSET (1..n)
    OBVIOUS
  <2> QED BY <1>7, <2>1
<1>9. ASSUME NEW k \in 1..n, h[1..k - 1] \in values PROVE h[1..k] = turn[k][h[1..k - 1]]
  <2>1. 1..k \in SUBSET (1..n) /\ 1..k # {} /\ 1..k \ {k} = 1..k - 1 /\ Splits!Max(1..k) = k
    <3> HIDE DEF n, h
    <3> QED BY <1>0, UptoLast, SplitOperators
  <2>2. h[1..k] = Splits!WithItem(h[1..k - 1], s[k])
    <3> HIDE DEF n
    <3> QED BY <1>7, <2>1
  <2>3. turn[k][h[1..k - 1]] = Splits!WithItem(h[1..k - 1], s[k])
    <3> HIDE DEF n
    <3> QED BY <1>2, <1>9
  <2> QED BY <2>2, <2>3
<1>10. FoldTrace(p, n, values, first, turn)
  <2> HIDE DEF n
  <2>1. PrefixFold(h, n, values, first, turn)
    BY <1>0, <1>2, <1>8, <1>9 DEF PrefixFold
  <2> QED BY ONLY <2>1, FoldPrefixes
<1>11. p[n] = h[DOMAIN s]
  BY <1>0
<1> HIDE DEF p, n
<1> QED BY <1>4, <1>10, <1>11 DEF n, values, first, turn

\* The packing of a longer list is a step from that of the list.
LEMMA PackedIs ==
    ASSUME NEW W
    PROVE  /\ Splits!Packed(<<>>) = <<>>
           /\ \A s \in Seq(W) : Splits!Packed(s) \in Seq(Seq(W))
           /\ \A s \in Seq(W), x \in W : Splits!Packed(Append(s, x)) = Splits!WithItem(Splits!Packed(s), x)
<1> DEFINE U == Seq(Seq(W))
           B == W
<1>1. Splits!Packed(<<>>) = <<>>
  <2>1. PICK p : FoldTrace(p, Len(<<>>), Seq(Seq(W)), <<>>, PackingSteps(W, <<>>)) /\ Splits!Packed(<<>>) = p[Len(<<>>)]
    <3>1. <<>> \in Seq(W)
      OBVIOUS
    <3> QED BY <3>1, Packing
  <2>2. Len(<<>>) = 0
    OBVIOUS
  <2> QED BY <2>1, <2>2 DEF FoldTrace
<1>2. ASSUME NEW s \in Seq(B) PROVE Splits!Packed(s) \in U
  <2>1. PICK p : FoldTrace(p, Len(s), Seq(Seq(W)), <<>>, PackingSteps(W, s)) /\ Splits!Packed(s) = p[Len(s)]
    BY Packing
  <2>2. Len(s) \in 0..Len(s)
    OBVIOUS
  <2> QED BY <2>1, <2>2 DEF FoldTrace
<1>3. ASSUME NEW s \in Seq(B), NEW x \in B PROVE Splits!Packed(Append(s, x)) = Splits!WithItem(Splits!Packed(s), x)
  <2> DEFINE n == Len(s)
             t == Append(s, x)
  <2>1. n \in Nat /\ t \in Seq(B) /\ Len(t) = n + 1 /\ t[n + 1] = x /\ \A k \in 1..n : t[k] = s[k]
    <3> HIDE DEF B
    <3> QED OBVIOUS
  <2> HIDE DEF n, t
  <2>2. PICK p : FoldTrace(p, n, Seq(Seq(W)), <<>>, PackingSteps(W, s)) /\ Splits!Packed(s) = p[n]
    BY Packing DEF n
  <2>3. PICK q : FoldTrace(q, n + 1, Seq(Seq(W)), <<>>, PackingSteps(W, t)) /\ Splits!Packed(t) = q[n + 1]
    BY <2>1, Packing
  <2> DEFINE a == PackingSteps(W, s)
             b == PackingSteps(W, t)
             first == <<>>
  <2>4. ASSUME NEW k \in 1..n PROVE a[k] = b[k]
    <3>1. k \in 1..n + 1 /\ s[k] = t[k]
      BY <2>1
    <3>2. a[k] = [v \in Seq(Seq(W)) |-> Splits!WithItem(v, s[k])]
      BY DEF PackingSteps, n
    <3>3. b[k] = [v \in Seq(Seq(W)) |-> Splits!WithItem(v, t[k])]
      BY <2>1, <3>1 DEF PackingSteps
    <3> QED BY <3>1, <3>2, <3>3
  <2>7. first \in U /\ FoldTrace(p, n, U, first, a) /\ FoldTrace(q, n + 1, U, first, b)
    BY <2>2, <2>3
  <2>8. b[n + 1] = [v \in Seq(Seq(W)) |-> Splits!WithItem(v, x)]
    <3>1. n + 1 \in 1..n + 1
      BY <2>1
    <3> QED BY <2>1, <3>1 DEF PackingSteps
  <2> HIDE DEF a, b, first, U
  <2>9. n \in Nat /\ \A k \in 1..n : a[k] = b[k]
    BY <2>1, <2>4
  <2>5. p[n] \in U /\ q[n + 1] = b[n + 1][p[n]]
    <3>1. TraceGrown(p, q, n, U, first, a, b)
      BY <2>7, <2>9 DEF TraceGrown
    <3> QED BY ONLY <3>1, TraceOneMore
  <2>6. q[n + 1] = Splits!WithItem(p[n], x)
    BY <2>5, <2>8 DEF U
  <2> QED BY <2>2, <2>3, <2>6 DEF t
<1> QED BY <1>1, <1>2, <1>3

\* Collecting makes lists of rows.
LEMMA WithGroupIn ==
    ASSUME NEW i, NEW held, NEW v \in Seq(Seq(Nat)), NEW x \in Seq(Nat)
    PROVE  Splits!WithGroup(i, held, v, x) \in Seq(Seq(Nat))
<1>1. <<x>> \in Seq(Seq(Nat)) /\ Append(v, x) \in Seq(Seq(Nat))
  OBVIOUS
<1>2. ASSUME v # <<>> PROVE Append(Splits!Front(v), Splits!Last(v) \o x) \in Seq(Seq(Nat))
  <2>1. Last(v) \in Seq(Nat) /\ Front(v) \in Seq(Seq(Nat))
    BY <1>2, FlatLast
  <2>2. Last(v) \o x \in Seq(Nat)
    BY <2>1
  <2>3. Append(Front(v), Last(v) \o x) \in Seq(Seq(Nat))
    BY <2>1, <2>2
  <2> QED BY <2>3, SplitOperators
<1> QED BY <1>1, <1>2 DEF Splits!WithGroup

Collected(i, held, s) ==
    Splits!FoldLeft(LAMBDA splits, group : Splits!WithGroup(i, held, splits, group), <<>>, s)
CollectingSteps(i, held, s) ==
    [k \in 1..Len(s) |-> [v \in Seq(Seq(Nat)) |-> Splits!WithGroup(i, held, v, s[k])]]

\* Collecting groups, one after the other.
LEMMA Collecting ==
    ASSUME NEW i, NEW held, NEW s \in Seq(Seq(Nat))
    PROVE  \E p : /\ FoldTrace(p, Len(s), Seq(Seq(Nat)), <<>>, CollectingSteps(i, held, s))
                  /\ Collected(i, held, s) = p[Len(s)]
<1> DEFINE n == Len(s)
           values == Seq(Seq(Nat))
           first == <<>>
           turn == CollectingSteps(i, held, s)
           eq(h) == [t \in SUBSET (DOMAIN s) |->
                        IF t = {} THEN first ELSE Splits!WithGroup(i, held, h[t \ {Splits!Max(t)}], s[Splits!Max(t)])]
           h == CHOOSE h : h = eq(h)
           p == [k \in 0..n |-> h[1..k]]
<1>0. n \in Nat /\ DOMAIN s = 1..n /\ first \in values /\ \A k \in 1..n : s[k] \in Seq(Nat)
  OBVIOUS
<1>1. \A k \in 1..n : \A v \in values : Splits!WithGroup(i, held, v, s[k]) \in values
  BY <1>0, WithGroupIn
<1>2. turn \in FoldSteps(n, values) /\ turn = [k \in 1..n |-> [v \in values |-> Splits!WithGroup(i, held, v, s[k])]]
  BY <1>1 DEF FoldSteps, CollectingSteps
<1> HIDE DEF turn
<1>3. PICK f : FoldsSets(f, n, values, first, turn)
  <2> HIDE DEF n, values, first
  <2> QED BY <1>0, <1>2, SetsFold
<1>4. Collected(i, held, s) = h[DOMAIN s]
  BY DEF Collected, Splits!FoldLeft, Splits!MapThenFoldSet
<1> HIDE DEF values, first
<1>5. f = eq(f)
  <2>1. f \in [SUBSET (1..n) -> values]
    BY <1>3 DEF FoldsSets
  <2>2. ASSUME NEW t \in SUBSET (1..n), t # {}
        PROVE  turn[Max(t)][f[t \ {Max(t)}]] = Splits!WithGroup(i, held, f[t \ {Splits!Max(t)}], s[Splits!Max(t)])
    <3>1. Max(t) \in 1..n
      <4> HIDE DEF n
      <4> QED BY <1>0, <2>2, MaxIn
    <3>2. f[t \ {Max(t)}] \in values
      BY <2>1
    <3> QED BY <1>2, <3>1, <3>2, SplitOperators
  <2>3. f = [t \in SUBSET (1..n) |-> IF t = {} THEN first ELSE turn[Max(t)][f[t \ {Max(t)}]]]
    BY <1>3 DEF FoldsSets
  <2> HIDE DEF n
  <2> QED BY <1>0, <2>2, <2>3
<1>6. h = eq(h)
  <2> HIDE DEF eq
  <2> QED BY <1>5
<1> HIDE DEF h
<1>7. \A t \in SUBSET (1..n) : h[t] = IF t = {} THEN first ELSE Splits!WithGroup(i, held, h[t \ {Splits!Max(t)}], s[Splits!Max(t)])
  <2> HIDE DEF n
  <2> QED BY <1>0, <1>6
<1>8. h[{}] = first
  <2>1. {} \in SUBSET (1..n)
    OBVIOUS
  <2> QED BY <1>7, <2>1
<1>9. ASSUME NEW k \in 1..n, h[1..k - 1] \in values PROVE h[1..k] = turn[k][h[1..k - 1]]
  <2>1. 1..k \in SUBSET (1..n) /\ 1..k # {} /\ 1..k \ {k} = 1..k - 1 /\ Splits!Max(1..k) = k
    <3> HIDE DEF n, h
    <3> QED BY <1>0, UptoLast, SplitOperators
  <2>2. h[1..k] = Splits!WithGroup(i, held, h[1..k - 1], s[k])
    <3> HIDE DEF n
    <3> QED BY <1>7, <2>1
  <2>3. turn[k][h[1..k - 1]] = Splits!WithGroup(i, held, h[1..k - 1], s[k])
    <3> HIDE DEF n
    <3> QED BY <1>2, <1>9
  <2> QED BY <2>2, <2>3
<1>10. FoldTrace(p, n, values, first, turn)
  <2> HIDE DEF n
  <2>1. PrefixFold(h, n, values, first, turn)
    BY <1>0, <1>2, <1>8, <1>9 DEF PrefixFold
  <2> QED BY ONLY <2>1, FoldPrefixes
<1>11. p[n] = h[DOMAIN s]
  BY <1>0
<1> HIDE DEF p, n
<1> QED BY <1>4, <1>10, <1>11 DEF n, values, first, turn

\* The collecting of a longer list is a step from that of the list.
LEMMA CollectedIs ==
    ASSUME NEW i, NEW held
    PROVE  /\ Collected(i, held, <<>>) = <<>>
           /\ \A s \in Seq(Seq(Nat)) : Collected(i, held, s) \in Seq(Seq(Nat))
           /\ \A s \in Seq(Seq(Nat)), x \in Seq(Nat) : Collected(i, held, Append(s, x)) = Splits!WithGroup(i, held, Collected(i, held, s), x)
<1> DEFINE U == Seq(Seq(Nat))
           B == Seq(Nat)
<1>1. Collected(i, held, <<>>) = <<>>
  <2>1. PICK p : FoldTrace(p, Len(<<>>), Seq(Seq(Nat)), <<>>, CollectingSteps(i, held, <<>>)) /\ Collected(i, held, <<>>) = p[Len(<<>>)]
    <3>1. <<>> \in Seq(Seq(Nat))
      OBVIOUS
    <3> QED BY <3>1, Collecting
  <2>2. Len(<<>>) = 0
    OBVIOUS
  <2> QED BY <2>1, <2>2 DEF FoldTrace
<1>2. ASSUME NEW s \in Seq(B) PROVE Collected(i, held, s) \in U
  <2>1. PICK p : FoldTrace(p, Len(s), Seq(Seq(Nat)), <<>>, CollectingSteps(i, held, s)) /\ Collected(i, held, s) = p[Len(s)]
    BY Collecting
  <2>2. Len(s) \in 0..Len(s)
    OBVIOUS
  <2> QED BY <2>1, <2>2 DEF FoldTrace
<1>3. ASSUME NEW s \in Seq(B), NEW x \in B PROVE Collected(i, held, Append(s, x)) = Splits!WithGroup(i, held, Collected(i, held, s), x)
  <2> DEFINE n == Len(s)
             t == Append(s, x)
  <2>1. n \in Nat /\ t \in Seq(B) /\ Len(t) = n + 1 /\ t[n + 1] = x /\ \A k \in 1..n : t[k] = s[k]
    <3> HIDE DEF B
    <3> QED OBVIOUS
  <2> HIDE DEF n, t
  <2>2. PICK p : FoldTrace(p, n, Seq(Seq(Nat)), <<>>, CollectingSteps(i, held, s)) /\ Collected(i, held, s) = p[n]
    BY Collecting DEF n
  <2>3. PICK q : FoldTrace(q, n + 1, Seq(Seq(Nat)), <<>>, CollectingSteps(i, held, t)) /\ Collected(i, held, t) = q[n + 1]
    BY <2>1, Collecting
  <2> DEFINE a == CollectingSteps(i, held, s)
             b == CollectingSteps(i, held, t)
             first == <<>>
  <2>4. ASSUME NEW k \in 1..n PROVE a[k] = b[k]
    <3>1. k \in 1..n + 1 /\ s[k] = t[k]
      BY <2>1
    <3>2. a[k] = [v \in Seq(Seq(Nat)) |-> Splits!WithGroup(i, held, v, s[k])]
      BY DEF CollectingSteps, n
    <3>3. b[k] = [v \in Seq(Seq(Nat)) |-> Splits!WithGroup(i, held, v, t[k])]
      BY <2>1, <3>1 DEF CollectingSteps
    <3> QED BY <3>1, <3>2, <3>3
  <2>7. first \in U /\ FoldTrace(p, n, U, first, a) /\ FoldTrace(q, n + 1, U, first, b)
    BY <2>2, <2>3
  <2>8. b[n + 1] = [v \in Seq(Seq(Nat)) |-> Splits!WithGroup(i, held, v, x)]
    <3>1. n + 1 \in 1..n + 1
      BY <2>1
    <3> QED BY <2>1, <3>1 DEF CollectingSteps
  <2> HIDE DEF a, b, first, U
  <2>9. n \in Nat /\ \A k \in 1..n : a[k] = b[k]
    BY <2>1, <2>4
  <2>5. p[n] \in U /\ q[n + 1] = b[n + 1][p[n]]
    <3>1. TraceGrown(p, q, n, U, first, a, b)
      BY <2>7, <2>9 DEF TraceGrown
    <3> QED BY ONLY <3>1, TraceOneMore
  <2>6. q[n + 1] = Splits!WithGroup(i, held, p[n], x)
    BY <2>5, <2>8 DEF U
  <2> QED BY <2>2, <2>3, <2>6 DEF t
<1> QED BY <1>1, <1>2, <1>3

-----------------------------------------------------------------------------
(* The evidence before a table *)

\* Groups of items that are not empty, within the maximum or one item.
PackSet(c) ==
    {x \in Seq(1..Len(c)) : x # <<>> /\ (MapTotal(Weights(c), x) <= Maximum \/ Len(x) = 1)}

\* Packed items are all there in order, in groups that fit or are single.
LEMMA PackedRight ==
    ASSUME chunk \in Chunks, NEW s \in Seq(1..Len(chunk))
    PROVE  FlattenSeq(Splits!Packed(s)) = s /\ Splits!Packed(s) \in Seq(PackSet(chunk))
<1> DEFINE I == 1..Len(chunk)
           Q(u) == Splits!Packed(u)
           Z == PackSet(chunk)
           T == {u \in Seq(I) : FlattenSeq(Q(u)) = u /\ Q(u) \in Seq(Z)}
<1>0. Q(<<>>) = <<>> /\ (\A u \in Seq(I) : Q(u) \in Seq(Seq(I)))
      /\ \A u \in Seq(I), x \in I : Q(Append(u, x)) = Splits!WithItem(Q(u), x)
  BY PackedIs
<1>1. <<>> \in T
  <2>1. <<>> \in Seq(I) /\ <<>> \in Seq(Z)
    OBVIOUS
  <2> QED BY <1>0, <2>1, FlatEmpty
<1>2. ASSUME NEW u \in Seq(I), u \in T, NEW x \in I PROVE Append(u, x) \in T
  <2> DEFINE v == Q(u)
             w == Q(Append(u, x))
             m == Weights(chunk)
             l == Append(Last(v), x)
             o == <<x>>
  <2>1. v \in Seq(Seq(I)) /\ v \in Seq(Z) /\ FlattenSeq(v) = u /\ w = Splits!WithItem(v, x)
    BY <1>0, <1>2
  <2>2. Append(u, x) \in Seq(I) /\ Append(u, x) = u \o o /\ o \in Seq(I) /\ u \in Seq(I)
    BY AppendIs
  <2>3. m \in [I -> Nat] /\ Maximum \in Nat
    BY WeightsAre, SplittingAssumption DEF Splits!BudgetAssumption
  <2>4. o \in Z
    BY <2>2 DEF PackSet
  <2> HIDE DEF v, w, m, I, Q, o
  <2>5. CASE v = <<>>
    <3>1. u = <<>> /\ w = <<o>>
      BY <2>1, <2>5, FlatEmpty DEF Splits!WithItem, o
    <3>2. u \o o = o
      BY <2>2, <3>1
    <3>3. FlattenSeq(w) = u \o o
      BY <2>2, <3>1, <3>2, FlatOne
    <3>4. w \in Seq(Z)
      <4> HIDE DEF Z
      <4> QED BY <2>4, <3>1
    <3> QED BY <2>2, <3>3, <3>4 DEF w
  <2>6. CASE v # <<>> /\ Splits!Prefix(l) > Maximum
    <3>1. w = Append(v, o)
      BY <2>1, <2>6, SplitOperators DEF Splits!WithItem, o
    <3>2. FlattenSeq(w) = u \o o
      BY <2>1, <2>2, <3>1, FlattenAppend
    <3>3. w \in Seq(Z)
      <4> HIDE DEF Z
      <4> QED BY <2>1, <2>4, <3>1
    <3> QED BY <2>2, <3>2, <3>3 DEF w
  <2>7. CASE v # <<>> /\ ~(Splits!Prefix(l) > Maximum)
    <3>1. w = Append(Front(v), l)
      BY <2>1, <2>7, SplitOperators DEF Splits!WithItem
    <3>2. FlattenSeq(v) = FlattenSeq(Front(v)) \o Last(v) /\ Last(v) \in Seq(I) /\ Front(v) \in Seq(Seq(I))
          /\ FlattenSeq(Front(v)) \in Seq(I)
      BY <2>1, <2>7, FlatLast
    <3>3. l \in Seq(I) /\ l = Last(v) \o o /\ l # <<>>
      BY <3>2, AppendIs DEF o
    <3>4. FlattenSeq(w) = FlattenSeq(Front(v)) \o (Last(v) \o o)
      BY <3>1, <3>2, <3>3, FlattenAppend
    <3>5. FlattenSeq(w) = u \o o
      <4> DEFINE a == FlattenSeq(Front(v))
                 b == Last(v)
      <4>1. a \in Seq(I) /\ b \in Seq(I) /\ o \in Seq(I)
        BY <2>2, <3>2
      <4>3. u = a \o b /\ FlattenSeq(w) = a \o (b \o o)
        BY <2>1, <3>2, <3>4
      <4> HIDE DEF a, b
      <4>2. (a \o b) \o o = a \o (b \o o)
        BY <4>1, PairIs, SMTT(30)
      <4> QED BY <4>2, <4>3
    <3>6. MapTotal(m, l) <= Maximum
      <4>1. Splits!Prefix(l) = MapTotal(m, l)
        BY <3>3, SizesAre DEF I, m
      <4>2. MapTotal(m, l) \in Nat
        BY <2>3, <3>3, MapTotalIs
      <4> DEFINE z == MapTotal(m, l)
      <4>3. z \in Nat /\ ~(z > Maximum)
        BY <2>7, <4>1, <4>2
      <4> HIDE DEF z
      <4>4. z <= Maximum
        BY <2>3, <4>3
      <4> QED BY <4>4 DEF z
    <3>7. l \in Z
      BY <3>3, <3>6 DEF PackSet, m, I
    <3>8. w \in Seq(Z)
      <4> HIDE DEF Z, l
      <4>1. Front(v) \in Seq(Z)
        BY <2>1, <2>7, FrontLastIs
      <4> QED BY <3>1, <3>7, <4>1
    <3> QED BY <2>2, <3>5, <3>8 DEF w
  <2> QED BY <2>5, <2>6, <2>7
<1>3. Seq(I) \subseteq T
  <2> HIDE DEF T, I
  <2> QED BY <1>1, <1>2, SequenceInduction
<1>4. s \in T
  BY <1>3
<1> QED BY <1>4

\* Where the titles at the end of a list begin.
LEMMA TitlesBegin ==
    ASSUME NEW V, NEW held \in Seq(V)
    PROVE  Splits!TitlesFrom(held) \in 1..Len(held) + 1
<1> DEFINE others == {k \in DOMAIN held : ~chunk[held[k]].title}
           n == Len(held)
<1>1. n \in Nat /\ DOMAIN held = 1..n /\ others \in SUBSET (1..n)
  OBVIOUS
<1>2. Splits!TitlesFrom(held) =
        IF others = {} THEN 1 ELSE (CHOOSE k \in others : \A l \in others : l <= k) + 1
  BY DEF Splits!TitlesFrom
<1>3. CASE others = {}
  BY <1>1, <1>2, <1>3
<1>4. CASE others # {}
  <2> HIDE DEF others, n
  <2>1. PICK x \in others : \A y \in others : x >= y
    BY <1>1, <1>4, MaxExists
  <2>2. \A y \in others : y <= x
    BY <1>1, <2>1
  <2> DEFINE k == CHOOSE k \in others : \A l \in others : l <= k
  <2>3. k \in others
    BY <2>2
  <2> HIDE DEF k
  <2>4. k \in 1..n
    BY <1>1, <2>3
  <2>5. k + 1 \in 1..n + 1
    BY <1>1, <2>4
  <2> QED BY <1>2, <1>4, <2>5 DEF k, n
<1> QED BY <1>3, <1>4

\* The groups before a table are the pending items in order, those that are
\* cut off fit or are single, and what stays fits beside the first rows.
LEMMA PendingGroupsRight ==
    ASSUME chunk \in Chunks, NEW i \in 1..Len(chunk), pending \in Seq(1..Len(chunk))
    PROVE  LET G == Splits!PendingGroups(i)
           IN  /\ G \in Seq(Seq(1..Len(chunk))) /\ G # <<>> /\ FlattenSeq(G) = pending
               /\ Front(G) \in Seq(PackSet(chunk))
               /\ \/ Last(G) = <<>> \/ Splits!FirstSize(i) > Maximum
                  \/ MapTotal(Weights(chunk), Last(G)) + Splits!FirstSize(i) <= Maximum
<1> DEFINE I == 1..Len(chunk)
           Z == PackSet(chunk)
           G == Splits!PendingGroups(i)
           first == Splits!FirstSize(i)
           packed == Splits!Packed(pending)
           last == Last(packed)
           cut == Splits!TitlesFrom(last)
           head == SubSeq(last, 1, cut - 1)
           titles == SubSeq(last, cut, Len(last))
           m == Weights(chunk)
           Goal == /\ G \in Seq(Seq(I)) /\ G # <<>> /\ FlattenSeq(G) = pending
                   /\ Front(G) \in Seq(Z)
                   /\ \/ Last(G) = <<>> \/ first > Maximum \/ MapTotal(m, Last(G)) + first <= Maximum
<1>1. G = IF pending = <<>> \/ first > Maximum THEN <<pending>>
          ELSE IF Splits!Prefix(last) + first <= Maximum THEN packed
          ELSE IF cut > 1 /\ Splits!Prefix(titles) + first <= Maximum
               THEN Front(packed) \o <<head, titles>>
               ELSE Append(packed, <<>>)
  BY SplitOperators DEF Splits!PendingGroups
<1>2. FlattenSeq(packed) = pending /\ packed \in Seq(Z)
  BY PackedRight
<1>3. Z \subseteq Seq(I) /\ \A x \in Z : x # <<>>
  BY DEF PackSet
<1>4. \A h \in Seq(I) : Splits!Prefix(h) = MapTotal(m, h)
  BY SizesAre
<1>5. m \in [I -> Nat] /\ Maximum \in Nat
  BY WeightsAre, SplittingAssumption DEF Splits!BudgetAssumption
<1>6. pending \in Seq(I) /\ \A x \in Seq(Z) : x \in Seq(Seq(I))
  <2>1. pending \in Seq(I)
    OBVIOUS
  <2> HIDE DEF Z, I
  <2> QED BY <1>3, <2>1
<1>7. \/ /\ last \in Z /\ last \in Seq(I) /\ Front(packed) \in Seq(Z) /\ FlattenSeq(Front(packed)) \in Seq(I)
         /\ pending = FlattenSeq(Front(packed)) \o last /\ packed # <<>>
      \/ pending = <<>>
  <2> HIDE DEF Z, I, packed
  <2>1. CASE packed = <<>>
    BY <1>2, <2>1, FlatEmpty
  <2>2. CASE packed # <<>>
    <3>1. packed \in Seq(Seq(I))
      BY <1>2, <1>6
    <3>2. FlattenSeq(packed) = FlattenSeq(Front(packed)) \o Last(packed) /\ FlattenSeq(Front(packed)) \in Seq(I)
      BY <2>2, <3>1, FlatLast
    <3>3. Last(packed) \in Z /\ Front(packed) \in Seq(Z)
      BY <1>2, <2>2, FrontLastIs
    <3> QED BY <1>2, <1>3, <2>2, <3>2, <3>3
  <2> QED BY <2>1, <2>2
<1> HIDE DEF G, first, packed, m
<1>8. CASE pending = <<>> \/ first > Maximum
  <2>1. G = <<pending>>
    BY <1>1, <1>8
  <2>2. FlattenSeq(G) = pending /\ G \in Seq(Seq(I)) /\ G # <<>>
    <3> HIDE DEF I
    <3> QED BY <1>6, <2>1, FlatOne
  <2>3. Last(G) = pending /\ Front(G) = <<>>
    BY <2>1 DEF Last, Front
  <2>4. Front(G) \in Seq(Z)
    BY <2>3, FlatEmpty
  <2>5. Goal
    BY <1>8, <2>2, <2>3, <2>4
  <2> QED BY <2>5 DEF G, first, m
<1>9. CASE pending # <<>> /\ ~(first > Maximum) /\ Splits!Prefix(last) + first <= Maximum
  <2>1. G = packed
    BY <1>1, <1>9
  <2>2. Goal
    <3> HIDE DEF I, Z
    <3> QED BY <1>2, <1>4, <1>6, <1>7, <1>9, <2>1
  <2> QED BY <2>2 DEF G, first, m
<1>10. CASE /\ pending # <<>> /\ ~(first > Maximum) /\ ~(Splits!Prefix(last) + first <= Maximum)
            /\ cut > 1 /\ Splits!Prefix(titles) + first <= Maximum
  <2> DEFINE f == Front(packed)
             g == FlattenSeq(f)
             pair == <<head, titles>>
  <2>0. last \in Z /\ last \in Seq(I) /\ f \in Seq(Z) /\ g \in Seq(I) /\ pending = g \o last
    BY <1>7, <1>10
  <2>1. G = f \o pair
    BY <1>1, <1>10
  <2>2. cut \in 1..Len(last) + 1
    <3> HIDE DEF last, I
    <3> QED BY <2>0, TitlesBegin
  <2>3. cut \in 2..Len(last) + 1
    <3> HIDE DEF cut, last
    <3>1. Len(last) \in Nat
      BY <2>0
    <3> QED BY <1>10, <2>2, <3>1
  <2>4. head \in Seq(I) /\ titles \in Seq(I) /\ last = head \o titles /\ Len(head) = cut - 1
    <3> HIDE DEF last, cut, I
    <3> QED BY <2>0, <2>3, CutInTwo
  <2> HIDE DEF head, titles, cut, last, f, g, pair
  <2>5. head \in Z
    <3>1. Len(head) > 0 /\ head # <<>>
      BY <2>0, <2>3, <2>4
    <3>2. MapTotal(m, last) = MapTotal(m, head) + MapTotal(m, titles)
          /\ MapTotal(m, head) \in Nat /\ MapTotal(m, titles) \in Nat
      <4> HIDE DEF I
      <4> QED BY <1>5, <2>4, MapTotalIs
    <3>3. CASE MapTotal(m, last) <= Maximum
      <4>1. MapTotal(m, head) <= Maximum
        <5> DEFINE a == MapTotal(m, head)
                   b == MapTotal(m, titles)
        <5>1. a \in Nat /\ b \in Nat /\ a + b <= Maximum
          BY <3>2, <3>3
        <5> HIDE DEF a, b
        <5>2. a <= Maximum
          BY <1>5, <5>1
        <5> QED BY <5>2 DEF a
      <4> QED BY <2>4, <3>1, <4>1 DEF PackSet, m
    <3>4. CASE Len(last) = 1
      <4>1. Len(head) = 1
        BY <2>3, <2>4, <3>4
      <4> QED BY <2>4, <3>1, <4>1 DEF PackSet
    <3>5. MapTotal(m, last) <= Maximum \/ Len(last) = 1
      BY <2>0 DEF PackSet, m
    <3> QED BY <3>3, <3>4, <3>5
  <2>6. f \in Seq(Seq(I)) /\ pair \in Seq(Seq(I)) /\ G \in Seq(Seq(I)) /\ G # <<>>
    <3>1. f \in Seq(Seq(I))
      BY <1>6, <2>0
    <3> DEFINE A == Seq(I)
    <3>2. head \in A /\ titles \in A /\ f \in Seq(A)
      BY <2>4, <3>1
    <3> HIDE DEF A
    <3>3. pair \in Seq(A) /\ Len(pair) = 2
      BY <3>2 DEF pair
    <3>4. f \o pair \in Seq(A) /\ f \o pair # <<>>
      <4>1. f \o pair \in Seq(A) /\ Len(f \o pair) = Len(f) + 2 /\ Len(f) \in Nat
        <5>1. f \in Seq(A) /\ pair \in Seq(A)
          BY <3>2, <3>3
        <5>2. f \o pair \in Seq(A) /\ Len(f \o pair) = Len(f) + Len(pair) /\ Len(f) \in Nat
          BY <5>1, ConcatProperties
        <5> QED BY <3>3, <5>2
      <4>2. Len(f \o pair) # 0
        BY <4>1
      <4> QED BY <4>1, <4>2
    <3> QED BY <2>1, <3>1, <3>3, <3>4 DEF A
  <2>7. FlattenSeq(pair) = head \o titles
    <3>1. pair = Append(<<head>>, titles) /\ <<head>> \in Seq(Seq(I))
      BY <2>4 DEF pair
    <3>2. FlattenSeq(<<head>>) = head
      BY <2>4, FlatOne
    <3> HIDE DEF I
    <3> QED BY <2>4, <3>1, <3>2, FlattenAppend
  <2>8. FlattenSeq(G) = pending
    <3> HIDE DEF I
    <3>1. FlattenSeq(f \o pair) = FlattenSeq(f) \o FlattenSeq(pair)
      BY <2>6, FlatConcat
    <3> QED BY <2>0, <2>1, <2>4, <2>7, <3>1 DEF g
  <2>9. G = Append(Append(f, head), titles) /\ Append(f, head) \in Seq(Z)
    <3> HIDE DEF Z
    <3>1. f \in Seq(Z) /\ head \in Z
      BY <2>0, <2>5
    <3>2. f \o <<head, titles>> = Append(Append(f, head), titles)
      BY <2>6, SMTT(30)
    <3> QED BY <2>1, <3>1, <3>2 DEF pair
  <2>10. Front(G) = Append(f, head) /\ Last(G) = titles
    <3> DEFINE e == Append(f, head)
    <3>1. e \in Seq(Seq(I))
      BY <1>6, <2>9
    <3>2. G = Append(e, titles)
      BY <2>9
    <3> DEFINE A == Seq(I)
    <3>3. e \in Seq(A) /\ titles \in A
      BY <2>4, <3>1
    <3> HIDE DEF e, A
    <3>4. Len(G) = Len(e) + 1 /\ Len(e) \in Nat /\ G[Len(e) + 1] = titles /\ \A k \in 1..Len(e) : G[k] = e[k]
      BY <3>2, <3>3, AppendIs
    <3>5. SubSeq(G, 1, Len(e)) = e
      <4>1. SubSeq(G, 1, Len(e)) = [k \in 1..Len(e) |-> G[k]]
        BY <3>4
      <4>2. e = [k \in 1..Len(e) |-> e[k]]
        BY <3>3, SeqIs
      <4> QED BY <3>4, <4>1, <4>2
    <3>6. Len(G) - 1 = Len(e)
      BY <3>4
    <3> QED BY <3>4, <3>5, <3>6 DEF Last, Front, e
  <2>11. MapTotal(m, titles) + first <= Maximum
    BY <1>4, <1>10, <2>4
  <2>12. Goal
    BY <2>6, <2>8, <2>9, <2>10, <2>11
  <2> QED BY <2>12 DEF G, first, m
<1>11. CASE /\ pending # <<>> /\ ~(first > Maximum) /\ ~(Splits!Prefix(last) + first <= Maximum)
            /\ ~(cut > 1 /\ Splits!Prefix(titles) + first <= Maximum)
  <2>1. G = Append(packed, <<>>)
    BY <1>1, <1>11
  <2>2. packed \in Seq(Seq(I)) /\ <<>> \in Seq(I)
    BY <1>2, <1>6, FlatEmpty
  <2>3. G \in Seq(Seq(I)) /\ G # <<>> /\ Last(G) = <<>> /\ Front(G) = packed
    <3> DEFINE A == Seq(I)
               e == <<>>
    <3>1. packed \in Seq(A) /\ e \in A /\ G = Append(packed, e)
      BY <2>1, <2>2
    <3> HIDE DEF A, e
    <3>2. Len(G) = Len(packed) + 1 /\ Len(packed) \in Nat /\ G[Len(packed) + 1] = e
          /\ (\A k \in 1..Len(packed) : G[k] = packed[k]) /\ G \in Seq(A)
      BY <3>1, AppendIs
    <3>3. SubSeq(G, 1, Len(packed)) = packed
      <4>1. SubSeq(G, 1, Len(packed)) = [k \in 1..Len(packed) |-> G[k]]
        BY <3>2
      <4>2. packed = [k \in 1..Len(packed) |-> packed[k]]
        BY <3>1, SeqIs
      <4> QED BY <3>2, <4>1, <4>2
    <3>4. Len(G) - 1 = Len(packed) /\ G # <<>>
      BY <3>2
    <3> QED BY <3>2, <3>3, <3>4 DEF Last, Front, e, A
  <2>4. FlattenSeq(G) = pending
    <3>1. FlattenSeq(G) = FlattenSeq(packed) \o <<>>
      <4> HIDE DEF I
      <4> QED BY <2>1, <2>2, FlattenAppend
    <3> QED BY <1>2, <1>6, <3>1
  <2>5. Goal
    BY <1>2, <2>3, <2>4
  <2> QED BY <2>5 DEF G, first, m
<1> QED BY <1>8, <1>9, <1>10, <1>11

-----------------------------------------------------------------------------
(* Chains in flattened sequences *)

\* Chains that are linked make a chain.
LEMMA FlatChained ==
    ASSUME NEW A, NEW ss \in Seq(Seq(A)), NEW Ok, Links(Ok, ss)
    PROVE  Chained(Ok, FlattenSeq(ss))
<1> DEFINE B == Seq(A)
           EndsSame(u) == u # <<>> => FlattenSeq(u) # <<>> /\ Last(FlattenSeq(u)) = Last(Last(u))
           T == {u \in Seq(B) : Links(Ok, u) => Chained(Ok, FlattenSeq(u)) /\ EndsSame(u)}
<1>1. <<>> \in T
  <2>1. Chained(Ok, <<>>)
    BY DEF Chained
  <2>2. EndsSame(<<>>)
    OBVIOUS
  <2> QED BY <2>1, <2>2, FlatEmpty
<1>2. ASSUME NEW u \in Seq(B), u \in T, NEW e \in B PROVE Append(u, e) \in T
  <2> DEFINE w == Append(u, e)
             n == Len(u)
             f == FlattenSeq(u)
  <2>1. w \in Seq(B) /\ Len(w) = n + 1 /\ n \in Nat /\ w[n + 1] = e /\ \A k \in 1..n : w[k] = u[k]
    <3> HIDE DEF B
    <3> QED BY AppendIs
  <2>2. FlattenSeq(w) = f \o e /\ f \in Seq(A) /\ e \in Seq(A)
    BY FlattenAppend
  <2> HIDE DEF w, n, f
  <2>3. ASSUME Links(Ok, w) PROVE Chained(Ok, FlattenSeq(w)) /\ EndsSame(w)
    <3>1. Links(Ok, u)
      <4>1. ASSUME NEW k \in 1..Len(u) PROVE u[k] # <<>> /\ Chained(Ok, u[k])
        <5>1. k \in 1..Len(w) /\ w[k] = u[k]
          BY <2>1, <4>1 DEF n
        <5>2. w[k] # <<>> /\ Chained(Ok, w[k])
          BY <2>3, <5>1 DEF Links
        <5> QED BY <5>1, <5>2
      <4>2. ASSUME NEW k \in 1..Len(u) - 1 PROVE <<Last(u[k]), u[k + 1][1]>> \in Ok
        <5>1. k \in 1..Len(w) - 1 /\ w[k] = u[k] /\ w[k + 1] = u[k + 1]
          BY <2>1, <4>2, SMTT(30) DEF n
        <5>2. <<Last(w[k]), w[k + 1][1]>> \in Ok
          BY <2>3, <5>1 DEF Links
        <5> QED BY <5>1, <5>2
      <4> QED BY <4>1, <4>2 DEF Links
    <3>2. Chained(Ok, f) /\ EndsSame(u)
      BY <1>2, <3>1 DEF f
    <3>3. e # <<>> /\ Chained(Ok, e)
      <4>1. n + 1 \in 1..Len(w)
        BY <2>1
      <4> QED BY <2>1, <2>3, <4>1 DEF Links
    <3>4. ASSUME f # <<>> PROVE <<Last(f), e[1]>> \in Ok
      <4>1. u # <<>>
        BY <3>4, FlatEmpty DEF f
      <4>2. n \in 1..Len(w) - 1 /\ n \in 1..n /\ Last(u) = u[n]
        BY <2>1, <4>1 DEF n, Last
      <4>3. w[n] = u[n] /\ w[n + 1] = e
        BY <2>1, <4>2
      <4>4. <<Last(w[n]), w[n + 1][1]>> \in Ok
        BY <2>3, <4>2 DEF Links
      <4>5. Last(f) = Last(u[n])
        BY <3>2, <4>1, <4>2 DEF f
      <4> QED BY <4>3, <4>4, <4>5
    <3>5. Chained(Ok, f \o e)
      BY <2>2, <3>2, <3>3, <3>4, ChainedConcat
    <3>6. Last(w) = e
      BY <2>1 DEF Last
    <3>7. f \o e # <<>> /\ Last(f \o e) = Last(e)
      <4>1. Len(f \o e) = Len(f) + Len(e) /\ Len(f) \in Nat /\ Len(e) \in Nat /\ Len(e) # 0
            /\ (\A k \in 1..Len(e) : (f \o e)[Len(f) + k] = e[k])
        BY <2>2, <3>3, ConcatIs
      <4>2. Len(e) \in 1..Len(e) /\ Len(f \o e) # 0
        BY <4>1
      <4> QED BY <4>1, <4>2 DEF Last
    <3> QED BY <2>2, <3>5, <3>6, <3>7
  <2>4. w \in T
    BY <2>1, <2>3
  <2> QED BY <2>4 DEF w
<1>3. Seq(B) \subseteq T
  <2> HIDE DEF T, B
  <2> QED BY <1>1, <1>2, SequenceInduction
<1>4. ss \in T
  BY <1>3
<1> QED BY <1>4

-----------------------------------------------------------------------------
(* The groups of a table *)

\* Groups, those in Br broken into their rows.
Broken(N, Br) ==
    [g \in DOMAIN N |-> IF g \in Br THEN [k \in DOMAIN N[g] |-> <<N[g][k]>>] ELSE <<N[g]>>]
PartsOf(N, Br) ==
    {b \in Seq(Nat) : b # <<>> /\ \E g \in 1..Len(N) :
        ToSet(b) \subseteq ToSet(N[g]) /\ IF g \in Br THEN Len(b) = 1 ELSE b = N[g]}

\* Broken groups hold the same rows in order.
LEMMA BrokenRight ==
    ASSUME NEW N \in Seq(Seq(Nat)), \A g \in 1..Len(N) : N[g] # <<>>, NEW Br
    PROVE  LET B == FlattenSeq(Broken(N, Br))
           IN  /\ FlattenSeq(B) = FlattenSeq(N) /\ B \in Seq(PartsOf(N, Br))
               /\ N # <<>> => B # <<>> /\ B[1] = IF 1 \in Br THEN <<N[1][1]>> ELSE N[1]
<1> DEFINE X == Broken(N, Br)
           B == FlattenSeq(X)
           Z == PartsOf(N, Br)
<1>1. DOMAIN N = 1..Len(N) /\ Len(N) \in Nat /\ DOMAIN X = 1..Len(N)
  BY DEF Broken
<1>2. ASSUME NEW g \in 1..Len(N) PROVE X[g] \in Seq(Z) /\ X[g] # <<>> /\ FlattenSeq(X[g]) = N[g]
  <2>1. N[g] \in Seq(Nat) /\ N[g] # <<>> /\ DOMAIN N[g] = 1..Len(N[g]) /\ Len(N[g]) \in Nat
    OBVIOUS
  <2>2. CASE g \in Br
    <3>1. X[g] = [k \in 1..Len(N[g]) |-> <<N[g][k]>>]
      BY <1>1, <2>1, <2>2 DEF Broken
    <3>2. ASSUME NEW k \in 1..Len(N[g]) PROVE <<N[g][k]>> \in Z
      <4> DEFINE b == <<N[g][k]>>
      <4>1. b \in Seq(Nat) /\ b # <<>> /\ Len(b) = 1
        BY <2>1
      <4>2. ToSet(b) \subseteq ToSet(N[g])
        <5>1. DOMAIN b = {1} /\ b[1] = N[g][k] /\ k \in DOMAIN N[g]
          BY <2>1
        <5> HIDE DEF b
        <5> QED BY <5>1 DEF ToSet
      <4> HIDE DEF b
      <4>4. b \in Z
        BY <2>2, <4>1, <4>2 DEF PartsOf
      <4> QED BY <4>4 DEF b
    <3>3. X[g] \in Seq(Z) /\ X[g] # <<>>
      <4> HIDE DEF Z
      <4>1. X[g] \in Seq(Z) /\ Len(X[g]) = Len(N[g])
        BY <2>1, <3>1, <3>2
      <4>2. Len(N[g]) # 0
        BY <2>1
      <4> QED BY <4>1, <4>2
    <3>4. FlattenSeq(X[g]) = N[g]
      BY <2>1, <3>1, FlatSingles
    <3> QED BY <3>3, <3>4
  <2>3. CASE g \notin Br
    <3>1. X[g] = <<N[g]>>
      BY <1>1, <2>3 DEF Broken
    <3>2. N[g] \in Z
      BY <2>1, <2>3 DEF PartsOf
    <3>3. FlattenSeq(X[g]) = N[g]
      BY <2>1, <3>1, FlatOne
    <3> HIDE DEF Z
    <3> QED BY <3>1, <3>2, <3>3
  <2> QED BY <2>2, <2>3
<1>3. \A z \in Z : z \in Seq(Nat)
  BY DEF PartsOf
<1> HIDE DEF Z
<1>4. X \in Seq(Seq(Z))
  <2>1. X = [g \in 1..Len(N) |-> X[g]]
    BY <1>1 DEF Broken
  <2> HIDE DEF X
  <2> QED BY <1>1, <1>2, <2>1
<1> HIDE DEF X
<1>5. B \in Seq(Z)
  BY <1>4, FlattenIn
<1>6. FlattenSeq(B) = FlattenSeq(N)
  <2>1. X \in Seq(Seq(Seq(Nat)))
    <3> DEFINE C == Seq(Nat)
    <3>1. \A z \in Z : z \in C
      BY <1>3
    <3> HIDE DEF C
    <3>2. \A k \in 1..Len(X) : X[k] \in Seq(C)
      <4> SUFFICES ASSUME NEW k \in 1..Len(X) PROVE X[k] \in Seq(C)
        OBVIOUS
      <4>1. X[k] \in Seq(Z)
        BY <1>4
      <4> QED BY <3>1, <4>1
    <3>3. X \in Seq(Seq(C))
      BY <1>4, <3>2
    <3> QED BY <3>3 DEF C
  <2>2. FlattenSeq(FlattenSeq(X)) = FlattenSeq([g \in DOMAIN X |-> FlattenSeq(X[g])])
    BY <2>1, FlatNested
  <2>3. [g \in DOMAIN X |-> FlattenSeq(X[g])] = N
    BY <1>1, <1>2
  <2> QED BY <2>2, <2>3
<1>7. ASSUME N # <<>> PROVE B # <<>> /\ B[1] = IF 1 \in Br THEN <<N[1][1]>> ELSE N[1]
  <2>1. 1 \in 1..Len(N) /\ X # <<>>
    BY <1>1, <1>7
  <2>2. B = X[1] \o FlattenSeq(Tail(X)) /\ X[1] \in Seq(Z) /\ FlattenSeq(Tail(X)) \in Seq(Z)
    BY <1>4, <2>1, FlatFirst
  <2>3. X[1] # <<>>
    BY <1>2, <2>1
  <2>4. B # <<>> /\ B[1] = X[1][1]
    <3> DEFINE a == X[1]
               b == FlattenSeq(Tail(X))
    <3>1. a \in Seq(Z) /\ b \in Seq(Z) /\ a # <<>> /\ B = a \o b
      BY <2>2, <2>3
    <3> HIDE DEF a, b, B
    <3>2. Len(B) = Len(a) + Len(b) /\ Len(a) \in Nat /\ Len(b) \in Nat /\ Len(a) # 0
          /\ \A k \in 1..Len(a) : B[k] = a[k]
      BY <3>1, ConcatIs
    <3>3. B # <<>> /\ 1 \in 1..Len(a)
      BY <3>1, <3>2
    <3> QED BY <3>2, <3>3 DEF a
  <2>5. X[1][1] = IF 1 \in Br THEN <<N[1][1]>> ELSE N[1]
    <3>1. X[1] = IF 1 \in Br THEN [k \in DOMAIN N[1] |-> <<N[1][k]>>] ELSE <<N[1]>>
      BY <1>1, <2>1 DEF X, Broken
    <3>2. 1 \in DOMAIN N[1]
      <4>1. N[1] \in Seq(Nat) /\ N[1] # <<>>
        BY <2>1
      <4> QED BY <4>1
    <3> QED BY <3>1, <3>2
  <2> QED BY <2>4, <2>5
<1> QED BY <1>5, <1>6, <1>7 DEF X, Z

\* Rows that have all of a group that is not broken, or none of it.
Uncut(N, Br, rows) ==
    \A g \in 1..Len(N) :
        g \in Br \/ ToSet(N[g]) \cap ToSet(rows) = {} \/ ToSet(N[g]) \subseteq ToSet(rows)

\* A part of a group cuts no group but a broken one.
LEMMA PartsUncut ==
    ASSUME NEW N \in Seq(Seq(Nat)), Apart(N), NEW Br, NEW b \in PartsOf(N, Br)
    PROVE  Uncut(N, Br, b) /\ b \in Seq(Nat) /\ b # <<>>
<1>1. b \in Seq(Nat) /\ b # <<>>
  BY DEF PartsOf
<1>2. PICK h \in 1..Len(N) : ToSet(b) \subseteq ToSet(N[h]) /\ IF h \in Br THEN Len(b) = 1 ELSE b = N[h]
  BY DEF PartsOf
<1>3. ASSUME NEW g \in 1..Len(N), g \notin Br
      PROVE  ToSet(N[g]) \cap ToSet(b) = {} \/ ToSet(N[g]) \subseteq ToSet(b)
  <2>1. CASE g = h
    BY <1>2, <1>3, <2>1
  <2>2. CASE g # h
    <3>1. ToSet(N[g]) \cap ToSet(N[h]) = {}
      <4> DEFINE V == Nat
      <4>1. N \in Seq(Seq(V))
        OBVIOUS
      <4> HIDE DEF V
      <4> QED BY <2>2, <4>1, ApartSets
    <3> QED BY <1>2, <3>1
  <2> QED BY <2>1, <2>2
<1> QED BY <1>1, <1>3 DEF Uncut

\* What cuts no group cuts none when it is joined.
LEMMA UncutConcat ==
    ASSUME NEW N, NEW Br, NEW a \in Seq(Nat), NEW b \in Seq(Nat), Uncut(N, Br, a), Uncut(N, Br, b)
    PROVE  Uncut(N, Br, a \o b)
<1>1. ToSet(a \o b) = ToSet(a) \cup ToSet(b)
  <2> DEFINE V == Nat
  <2>1. a \in Seq(V) /\ b \in Seq(V)
    OBVIOUS
  <2> HIDE DEF V
  <2> QED BY <2>1, ToSetConcat
<1>2. ASSUME NEW g \in 1..Len(N), g \notin Br
      PROVE  ToSet(N[g]) \cap (ToSet(a) \cup ToSet(b)) = {} \/ ToSet(N[g]) \subseteq ToSet(a) \cup ToSet(b)
  <2>1. ToSet(N[g]) \cap ToSet(a) = {} \/ ToSet(N[g]) \subseteq ToSet(a)
    BY <1>2 DEF Uncut
  <2>2. ToSet(N[g]) \cap ToSet(b) = {} \/ ToSet(N[g]) \subseteq ToSet(b)
    BY <1>2 DEF Uncut
  <2> DEFINE x == ToSet(N[g])
             y == ToSet(a)
             z == ToSet(b)
  <2> HIDE DEF x, y, z
  <2>3. (x \cap y = {} \/ x \subseteq y) /\ (x \cap z = {} \/ x \subseteq z)
    BY <2>1, <2>2 DEF x, y, z
  <2>4. x \cap (y \cup z) = {} \/ x \subseteq y \cup z
    BY <2>3
  <2> QED BY <2>4 DEF x, y, z
<1> QED BY <1>1, <1>2 DEF Uncut

\* A sequence with one more element, place by place.
LEMMA AppendParts ==
    ASSUME NEW S, NEW v \in Seq(S), NEW x \in S, NEW w, w = Append(v, x), NEW n, n = Len(v)
    PROVE  /\ w \in Seq(S) /\ Len(w) = n + 1 /\ w[n + 1] = x /\ w # <<>>
           /\ \A k \in 1..n : w[k] = v[k]
BY AppendIs

\* Joining row numbers is associative.
LEMMA Associative ==
    ASSUME NEW a \in Seq(Nat), NEW l \in Seq(Nat), NEW x \in Seq(Nat)
    PROVE  (a \o l) \o x = a \o (l \o x)
OBVIOUS

\* Rows that go together, and how: a group, or what is within the target.
TogetherSet(N, Br) == {rows \in Seq(Nat) : rows # <<>> /\ Uncut(N, Br, rows)}
Collects(i, held, Z, u, C) ==
    \A k \in 1..Len(C) :
        \/ C[k] \in Z /\ (k = 1 => C[1] = u[1])
        \/ ~(Splits!Overhead(i, held, k = 1) + Splits!RowsSize(i, C[k]) > Target)

\* Collected groups are all there in order, and a split that has more than
\* one part is within the target.
LEMMA CollectedRight ==
    ASSUME NEW i, NEW held, NEW N \in Seq(Seq(Nat)), Apart(N), NEW Br, NEW s \in Seq(PartsOf(N, Br)), s # <<>>
    PROVE  LET C == Collected(i, held, s)
           IN  /\ FlattenSeq(C) = FlattenSeq(s) /\ C \in Seq(TogetherSet(N, Br)) /\ C # <<>>
               /\ Collects(i, held, PartsOf(N, Br), s, C)
<1> DEFINE Z == PartsOf(N, Br)
           Y == TogetherSet(N, Br)
           C(u) == Collected(i, held, u)
           Good(u) == /\ FlattenSeq(C(u)) = FlattenSeq(u) /\ C(u) \in Seq(Y)
                      /\ u = <<>> <=> C(u) = <<>>
                      /\ Collects(i, held, Z, u, C(u))
           T == {u \in Seq(Z) : Good(u)}
<1>0. /\ C(<<>>) = <<>>
      /\ \A u \in Seq(Seq(Nat)), x \in Seq(Nat) : C(Append(u, x)) = Splits!WithGroup(i, held, C(u), x)
  BY CollectedIs
<1>1. ASSUME NEW b \in Z PROVE b \in Y /\ b \in Seq(Nat)
  BY PartsUncut DEF TogetherSet
<1>2. \A y \in Y : y \in Seq(Nat)
  BY DEF TogetherSet
<1>3. <<>> \in T
  <2>1. <<>> \in Seq(Z) /\ <<>> \in Seq(Y) /\ Collects(i, held, Z, <<>>, <<>>)
    BY DEF Collects
  <2>2. Good(<<>>)
    BY <1>0, <2>1
  <2> HIDE DEF Good
  <2> QED BY <2>1, <2>2
<1>4. ASSUME NEW u \in Seq(Z), u \in T, NEW x \in Z PROVE Append(u, x) \in T
  <2> DEFINE v == C(u)
             t == Append(u, x)
             w == C(t)
             n == Len(v)
  <2>1. FlattenSeq(v) = FlattenSeq(u) /\ v \in Seq(Y) /\ (u = <<>> <=> v = <<>>) /\ Collects(i, held, Z, u, v)
    BY <1>4
  <2>2. x \in Seq(Nat) /\ x \in Y /\ u \in Seq(Seq(Nat)) /\ v \in Seq(Seq(Nat))
    <3> DEFINE A == Seq(Nat)
    <3>1. (\A z \in Z : z \in A) /\ (\A y \in Y : y \in A)
      BY <1>1, <1>2
    <3>2. v \in Seq(Y)
      BY <2>1
    <3> HIDE DEF A, Z, Y, v
    <3>3. u \in Seq(A) /\ v \in Seq(A) /\ x \in A
      BY <3>1, <3>2
    <3>4. x \in Y
      BY <1>1
    <3> QED BY <3>3, <3>4 DEF A
  <2>3. w = Splits!WithGroup(i, held, v, x)
    BY <1>0, <2>2
  <2>4. t \in Seq(Z) /\ t # <<>> /\ (u # <<>> => t[1] = u[1]) /\ (u = <<>> => t[1] = x)
    <3> HIDE DEF Z
    <3>1. t \in Seq(Z) /\ t # <<>> /\ Len(u) \in Nat /\ t[Len(u) + 1] = x /\ (\A k \in 1..Len(u) : t[k] = u[k])
      BY AppendIs
    <3>2. CASE u = <<>>
      BY <3>1, <3>2
    <3>3. CASE u # <<>>
      <4>1. 1 \in 1..Len(u)
        BY <3>3
      <4> QED BY <3>1, <3>3, <4>1
    <3> QED BY <3>1, <3>2, <3>3
  <2>5. FlattenSeq(t) = FlattenSeq(u) \o x
    BY <2>2, FlattenAppend
  <2> HIDE DEF v, w, t, n, Y
  <2>6. n \in Nat /\ (v # <<>> => n # 0 /\ 1 \in 1..n)
    BY <2>1 DEF n
  <2>7. CASE v = <<>>
    <3>1. w = <<x>>
      BY <2>3, <2>7 DEF Splits!WithGroup
    <3>2. FlattenSeq(w) = FlattenSeq(t)
      <4>1. FlattenSeq(u) = <<>>
        BY <2>1, <2>7, FlatEmpty
      <4>2. <<>> \o x = x
        BY <2>2
      <4> QED BY <2>2, <2>5, <3>1, <4>1, <4>2, FlatOne
    <3>3. Collects(i, held, Z, t, w)
      BY <2>1, <2>4, <2>7, <3>1 DEF Collects
    <3>4. w \in Seq(Y) /\ w # <<>>
      BY <2>2, <3>1
    <3>5. t \in T
      BY <2>4, <3>2, <3>3, <3>4 DEF w, Y
    <3> QED BY <3>5 DEF t
  <2>8. CASE v # <<>> /\ Splits!Overhead(i, held, n = 1) + Splits!RowsSize(i, Last(v) \o x) > Target
    <3>1. w = Append(v, x)
      BY <2>3, <2>8, SplitOperators DEF Splits!WithGroup, n
    <3>2. FlattenSeq(w) = FlattenSeq(t)
      BY <2>1, <2>2, <2>5, <3>1, FlattenAppend
    <3>3. w \in Seq(Y) /\ Len(w) = n + 1 /\ w[n + 1] = x /\ (\A k \in 1..n : w[k] = v[k]) /\ w # <<>>
      <4>1. v \in Seq(Y) /\ x \in Y
        BY <2>1, <2>2
      <4>2. v \in Seq(Y) /\ n = Len(v)
        BY <4>1 DEF n
      <4> DEFINE e == x
      <4>3. e \in Y /\ w = Append(v, e)
        BY <3>1, <4>1
      <4>4. w \in Seq(Y) /\ Len(w) = n + 1 /\ w[n + 1] = e /\ (\A k \in 1..n : w[k] = v[k]) /\ w # <<>>
        <5> HIDE DEF e
        <5>1. w \in Seq(Y)
          BY <4>2, <4>3, AppendParts
        <5>2. Len(w) = n + 1
          BY <4>2, <4>3, AppendParts
        <5>3. w[n + 1] = e
          BY <4>2, <4>3, AppendParts
        <5>4. \A k \in 1..n : w[k] = v[k]
          BY <4>2, <4>3, AppendParts
        <5>5. w # <<>>
          BY <4>2, <4>3, AppendParts, SMTT(30)
        <5> QED BY <5>1, <5>2, <5>3, <5>4, <5>5
      <4> QED BY <4>4
    <3>4. ASSUME NEW k \in 1..Len(w)
          PROVE  \/ w[k] \in Z /\ (k = 1 => w[1] = t[1])
                 \/ ~(Splits!Overhead(i, held, k = 1) + Splits!RowsSize(i, w[k]) > Target)
      <4>1. CASE k \in 1..n
        <5>1. w[k] = v[k] /\ w[1] = v[1] /\ t[1] = u[1]
          BY <2>1, <2>4, <2>6, <2>8, <3>3, <4>1
        <5> QED BY <2>1, <4>1, <5>1 DEF Collects, n
      <4>2. CASE k = n + 1
        BY <2>6, <2>8, <3>3, <4>2
      <4> QED BY <2>6, <3>3, <4>1, <4>2
    <3>5. Collects(i, held, Z, t, w)
      BY <3>4 DEF Collects
    <3>6. t \in T
      BY <2>4, <3>2, <3>3, <3>5 DEF w, Y
    <3> QED BY <3>6 DEF t
  <2>9. CASE v # <<>> /\ ~(Splits!Overhead(i, held, n = 1) + Splits!RowsSize(i, Last(v) \o x) > Target)
    <3> DEFINE f == Front(v)
               l == Last(v)
               m == Len(f)
    <3>1. w = Append(f, l \o x)
      BY <2>3, <2>9, SplitOperators DEF Splits!WithGroup, n
    <3>2. l \in Y /\ f \in Seq(Y) /\ n = m + 1 /\ m \in Nat /\ \A k \in 1..m : v[k] = f[k]
      BY <2>1, <2>9, FrontLastIs DEF n
    <3>3. FlattenSeq(v) = FlattenSeq(f) \o l /\ l \in Seq(Nat) /\ f \in Seq(Seq(Nat)) /\ FlattenSeq(f) \in Seq(Nat)
      BY <2>2, <2>9, FlatLast
    <3> HIDE DEF f, l, m
    <3>4. FlattenSeq(w) = FlattenSeq(t)
      <4>1. l \o x \in Seq(Nat)
        BY <2>2, <3>3
      <4>2. FlattenSeq(w) = FlattenSeq(f) \o (l \o x)
        BY <3>1, <3>3, <4>1, FlattenAppend
      <4>3. (FlattenSeq(f) \o l) \o x = FlattenSeq(f) \o (l \o x)
        BY <2>2, <3>3, Associative
      <4> QED BY <2>1, <2>5, <3>3, <4>2, <4>3
    <3>5. l \o x \in Y
      <4>1. l \o x \in Seq(Nat) /\ l \o x # <<>>
        <5>1. x # <<>>
          BY <2>2 DEF Y, TogetherSet
        <5> DEFINE V == Nat
        <5>2. l \in Seq(V) /\ x \in Seq(V)
          BY <2>2, <3>3
        <5> HIDE DEF V
        <5>3. l \o x \in Seq(V) /\ l \o x # <<>>
          BY <5>1, <5>2, ConcatEqualIffEmpty
        <5> QED BY <5>3 DEF V
      <4>2. Uncut(N, Br, l \o x)
        BY <2>2, <3>2, <3>3, UncutConcat DEF Y, TogetherSet
      <4> QED BY <4>1, <4>2 DEF Y, TogetherSet
    <3>6. w \in Seq(Y) /\ Len(w) = m + 1 /\ w[m + 1] = l \o x /\ (\A k \in 1..m : w[k] = f[k]) /\ w # <<>>
      <4> DEFINE e == l \o x
      <4>1. f \in Seq(Y) /\ e \in Y /\ w = Append(f, e)
        BY <3>1, <3>2, <3>5
      <4> HIDE DEF e
      <4>2. w \in Seq(Y) /\ Len(w) = m + 1 /\ w[m + 1] = e /\ (\A k \in 1..m : w[k] = f[k]) /\ w # <<>>
        <5>1. m = Len(f)
          BY DEF m
        <5> QED BY <4>1, <5>1, AppendParts, SMTT(30)
      <4> QED BY <4>2 DEF e
    <3>7. ASSUME NEW k \in 1..Len(w)
          PROVE  \/ w[k] \in Z /\ (k = 1 => w[1] = t[1])
                 \/ ~(Splits!Overhead(i, held, k = 1) + Splits!RowsSize(i, w[k]) > Target)
      <4>1. CASE k \in 1..m
        <5>1. w[k] = v[k] /\ k \in 1..n /\ 1 \in 1..m
          BY <3>2, <3>6, <4>1
        <5>2. w[1] = v[1] /\ t[1] = u[1]
          BY <2>1, <2>4, <2>9, <3>2, <3>6, <5>1
        <5> QED BY <2>1, <5>1, <5>2 DEF Collects, n
      <4>2. CASE k = m + 1
        BY <2>9, <3>2, <3>6, <4>2 DEF l
      <4> QED BY <3>2, <3>6, <4>1, <4>2
    <3>8. Collects(i, held, Z, t, w)
      BY <3>7 DEF Collects
    <3>9. t \in T
      BY <2>4, <3>4, <3>6, <3>8 DEF w, Y
    <3> QED BY <3>9 DEF t
  <2> QED BY <2>7, <2>8, <2>9
<1>5. Seq(Z) \subseteq T
  <2> HIDE DEF T, Z
  <2> QED BY <1>3, <1>4, SequenceInduction
<1>6. s \in T
  BY <1>5
<1> QED BY <1>6

-----------------------------------------------------------------------------
(* New chunks and what they show *)

NewSet == [held : {h \in Seq(PieceSet) : h # <<>>}, over : BOOLEAN]
Shown(o) == FlattenSeq([k \in DOMAIN o |-> Splits!KeysOf(o[k].held)])

\* What chunks show, for empty, single and joined lists.
LEMMA ShownIs ==
    /\ Shown(<<>>) = <<>>
    /\ \A x \in NewSet : Shown(<<x>>) = Splits!KeysOf(x.held)
    /\ \A o \in Seq(NewSet) : Shown(o) \in Seq(KeySet)
    /\ \A o, q \in Seq(NewSet) : Shown(o \o q) = Shown(o) \o Shown(q)
<1> DEFINE m == [x \in NewSet |-> Splits!KeysOf(x.held)]
<1>1. ASSUME NEW x \in NewSet PROVE Splits!KeysOf(x.held) \in Seq(KeySet)
  <2>1. x.held \in Seq(PieceSet)
    BY DEF NewSet
  <2> QED BY <2>1, KeysAre
<1>2. m \in SequenceMaps(NewSet, KeySet)
  BY <1>1 DEF SequenceMaps
<1>3. ASSUME NEW o \in Seq(NewSet) PROVE Shown(o) = MapFlat(m, o)
  <2>1. \A k \in DOMAIN o : o[k] \in NewSet
    OBVIOUS
  <2>2. [k \in DOMAIN o |-> Splits!KeysOf(o[k].held)] = [k \in DOMAIN o |-> m[o[k]]]
    BY <2>1
  <2> QED BY <2>2 DEF Shown, MapFlat
<1>4. \A x \in NewSet : <<x>> \in Seq(NewSet) /\ m[x] = Splits!KeysOf(x.held)
  OBVIOUS
<1>5. <<>> \in Seq(NewSet)
  OBVIOUS
<1> HIDE DEF m
<1>6. MapFlat(m, <<>>) = <<>> /\ \A o \in Seq(NewSet) : MapFlat(m, o) \in Seq(KeySet)
  BY <1>2, MapFlatAppends
<1>7. ASSUME NEW x \in NewSet PROVE Shown(<<x>>) = Splits!KeysOf(x.held)
  <2>1. MapFlat(m, <<x>>) = m[x]
    BY <1>2, MapFlatOne
  <2> QED BY <2>1, <1>3, <1>4
<1>8. ASSUME NEW o \in Seq(NewSet), NEW q \in Seq(NewSet) PROVE Shown(o \o q) = Shown(o) \o Shown(q)
  <2>1. MapFlat(m, o \o q) = MapFlat(m, o) \o MapFlat(m, q)
    BY <1>2, MapFlatConcat
  <2>2. o \o q \in Seq(NewSet)
    OBVIOUS
  <2> QED BY <2>1, <2>2, <1>3
<1> QED BY <1>3, <1>5, <1>6, <1>7, <1>8

\* Pieces of the items lo..hi-1, and chunks of them.
HeldSet(c, lo, hi) ==
    {p \in PieceSet : /\ p.item \in lo..hi - 1
                      /\ p.rows = <<>> <=> c[p.item].kind # "table"
                      /\ ToSet(p.rows) \subseteq 1..Len(RowsIn(c, p.item))}
ChunkSet(c, lo, hi) == [held : {h \in Seq(HeldSet(c, lo, hi)) : h # <<>>}, over : BOOLEAN]

\* What may follow l: another item, or another row of a group that is too large.
LinkOk(c, l, r) ==
    l.item = r.item =>
        LET N == Numbered(c[l.item].groups)
        IN  \A g \in 1..Len(N) : {Last(l.rows), r.rows[1]} \subseteq ToSet(N[g]) =>
                c[l.item].label + MapTotal(TextWeights(c), Upto(1, l.item - 1))
                    + MapTotal(RowsIn(c, l.item), N[g]) > Maximum
LinkSet(c) == {z \in NewSet \X NewSet : LinkOk(c, Last(z[1].held), z[2].held[1])}

\* A chunk that is over the maximum only if it must be.
Alone(c, x) ==
    LET l == Last(x.held)
    IN  IF c[l.item].kind = "table"
        THEN Len(l.rows) = 1 /\ (Len(x.held) > 1 => c[l.item].label + MapTotal(RowsIn(c, l.item), l.rows) > Maximum)
        ELSE Len(x.held) = 1
ModestSet(c) == {x \in NewSet : x.over => Alone(c, x)}

\* Chunks that show the items lo..hi-1, each once and in order.
ItemStarts(c, lo, hi) == Splits!Starts(Splits!KeysOf(WholesOf(c, Upto(lo, hi - 1))))
Placed(c, o, lo, hi) ==
    /\ o \in Seq(ChunkSet(c, lo, hi))
    /\ Chained(LinkSet(c), o)
    /\ Sound(Shown(o))
    /\ Splits!Starts(Shown(o)) = ItemStarts(c, lo, hi)

\* Chunks of some items are chunks of more items.
LEMMA ChunksAreNew ==
    ASSUME NEW c, NEW lo \in Nat, NEW hi \in Nat, NEW a \in Nat, NEW b \in Nat, a <= lo, hi <= b
    PROVE  /\ ChunkSet(c, lo, hi) \subseteq ChunkSet(c, a, b)
           /\ ChunkSet(c, lo, hi) \subseteq NewSet
           /\ \A o \in Seq(ChunkSet(c, lo, hi)) : o \in Seq(ChunkSet(c, a, b)) /\ o \in Seq(NewSet)
<1> DEFINE H == HeldSet(c, lo, hi)  K == HeldSet(c, a, b)
<1>1. H \subseteq K /\ H \subseteq PieceSet
  BY DEF HeldSet
<1> HIDE DEF H, K
<1>2. \A h \in Seq(H) : h \in Seq(K) /\ h \in Seq(PieceSet)
  BY <1>1
<1>3. /\ ChunkSet(c, lo, hi) \subseteq ChunkSet(c, a, b)
      /\ ChunkSet(c, lo, hi) \subseteq NewSet
  BY <1>2 DEF ChunkSet, NewSet, H, K
<1> DEFINE X == ChunkSet(c, lo, hi)  Y == ChunkSet(c, a, b)
<1> HIDE DEF X, Y
<1>4. \A o \in Seq(X) : o \in Seq(Y) /\ o \in Seq(NewSet)
  BY <1>3 DEF X, Y
<1> QED BY <1>3, <1>4 DEF X, Y

\* The starts of items up to b and from b on are those of all.
LEMMA StartsJoin ==
    ASSUME NEW c \in Chunks, NEW a \in 1..Len(c) + 1, NEW b \in a..Len(c) + 1, NEW d \in b..Len(c) + 1
    PROVE  /\ ItemStarts(c, a, d) = ItemStarts(c, a, b) \o ItemStarts(c, b, d)
           /\ Upto(a, b - 1) \in Seq(1..Len(c)) /\ WholesOf(c, Upto(a, b - 1)) \in Seq(PieceSet)
           /\ Splits!KeysOf(WholesOf(c, Upto(a, b - 1))) \in Seq(KeySet)
<1> DEFINE I == 1..Len(c)
           u == Upto(a, b - 1)  v == Upto(b, d - 1)  w == Upto(a, d - 1)
<1>0. Len(c) \in Nat /\ a \in Nat /\ b \in Nat /\ d \in Nat /\ a <= b /\ b <= d /\ 1 <= a /\ d <= Len(c) + 1
  BY ItemsAre
<1>1. b - 1 \in Int /\ d - 1 \in Int /\ b - 1 >= a - 1 /\ d - 1 >= b - 1 /\ (b - 1) + 1 = b
  BY <1>0
<1>2. w = u \o v
  <2>1. u \o Upto((b - 1) + 1, d - 1) = w
    BY <1>0, <1>1, UptoJoins
  <2> QED BY <1>1, <2>1
<1>3. u \in Seq(I) /\ v \in Seq(I)
  <2>1. u \in Seq(a..b - 1) /\ v \in Seq(b..d - 1)
    BY <1>0, <1>1, UptoIs
  <2>2. a..b - 1 \subseteq I /\ b..d - 1 \subseteq I
    BY <1>0
  <2> HIDE DEF u, v
  <2> QED BY <2>1, <2>2
<1> HIDE DEF u, v, w
<1>4. WholesOf(c, w) = WholesOf(c, u) \o WholesOf(c, v) /\ WholesOf(c, u) \in Seq(PieceSet) /\ WholesOf(c, v) \in Seq(PieceSet)
  BY <1>2, <1>3, WholesAre
<1>5. /\ Splits!KeysOf(WholesOf(c, w)) = Splits!KeysOf(WholesOf(c, u)) \o Splits!KeysOf(WholesOf(c, v))
      /\ Splits!KeysOf(WholesOf(c, u)) \in Seq(KeySet) /\ Splits!KeysOf(WholesOf(c, v)) \in Seq(KeySet)
  BY <1>4, KeysAre
<1>6. ItemStarts(c, a, d) = ItemStarts(c, a, b) \o ItemStarts(c, b, d)
  BY <1>5, StartsAre DEF ItemStarts, u, v, w
<1> QED BY <1>3, <1>4, <1>5, <1>6 DEF u

\* Chunks that show adjoining items show them all.
LEMMA PlacedConcat ==
    ASSUME NEW c \in Chunks, NEW a \in 1..Len(c) + 1, NEW b \in a..Len(c) + 1, NEW d \in b..Len(c) + 1,
           NEW o, NEW q, Placed(c, o, a, b), Placed(c, q, b, d)
    PROVE  Placed(c, o \o q, a, d)
<1> DEFINE X == ChunkSet(c, a, d)
<1>0. Len(c) \in Nat /\ a \in Nat /\ b \in Nat /\ d \in Nat /\ a <= b /\ b <= d
  BY ItemsAre
<1>1. o \in Seq(ChunkSet(c, a, b)) /\ q \in Seq(ChunkSet(c, b, d)) /\ Chained(LinkSet(c), o) /\ Chained(LinkSet(c), q)
  BY DEF Placed
<1>2. o \in Seq(X) /\ q \in Seq(X) /\ o \in Seq(NewSet) /\ q \in Seq(NewSet)
  <2>1. o \in Seq(X) /\ o \in Seq(NewSet)
    BY <1>0, <1>1, ChunksAreNew
  <2>2. q \in Seq(X) /\ q \in Seq(NewSet)
    BY <1>0, <1>1, ChunksAreNew, SMTT(30)
  <2> QED BY <2>1, <2>2
<1>3. ASSUME o # <<>>, q # <<>> PROVE <<Last(o), q[1]>> \in LinkSet(c)
  <2> DEFINE x == Last(o)  y == q[1]  l == Last(x.held)  r == y.held[1]
             A == ChunkSet(c, a, b)  B == ChunkSet(c, b, d)
  <2>1. x \in A
    BY <1>1, <1>3, FrontLastIs
  <2>2. y \in B
    <3> HIDE DEF B
    <3>1. Len(q) \in Nat /\ Len(q) # 0
      BY <1>1, <1>3 DEF B
    <3> QED BY <1>1, <3>1 DEF B
  <2>3. x \in NewSet /\ y \in NewSet
    <3>1. a <= a /\ b <= b /\ d <= d
      BY <1>0
    <3>2. ChunkSet(c, a, b) \subseteq NewSet
      BY <1>0, <3>1, ChunksAreNew
    <3>3. ChunkSet(c, b, d) \subseteq NewSet
      BY <1>0, <3>1, ChunksAreNew
    <3> QED BY <2>1, <2>2, <3>2, <3>3
  <2>4. x.held \in Seq(HeldSet(c, a, b)) /\ x.held # <<>>
    BY <2>1 DEF ChunkSet
  <2>5. y.held \in Seq(HeldSet(c, b, d)) /\ y.held # <<>>
    BY <2>2 DEF ChunkSet
  <2>6. l \in HeldSet(c, a, b)
    <3> DEFINE h == x.held  Z == HeldSet(c, a, b)
    <3>1. h \in Seq(Z) /\ h # <<>>
      BY <2>4
    <3> HIDE DEF h, Z
    <3>2. Last(h) \in Z
      BY <3>1, FrontLastIs
    <3> QED BY <3>2 DEF h, Z
  <2>7. r \in HeldSet(c, b, d)
    <3> DEFINE h == y.held  Z == HeldSet(c, b, d)
    <3>1. h \in Seq(Z) /\ h # <<>>
      BY <2>5
    <3> HIDE DEF h, Z
    <3>2. h[1] \in Z
      <4>1. Len(h) \in Nat /\ Len(h) # 0
        BY <3>1
      <4> QED BY <3>1, <4>1
    <3> QED BY <3>2 DEF h, Z
  <2>8. l.item # r.item
    BY <1>0, <2>6, <2>7 DEF HeldSet
  <2> HIDE DEF x, y
  <2> QED BY <2>3, <2>8 DEF LinkSet, LinkOk, x, y
<1>4. Chained(LinkSet(c), o \o q)
  BY <1>1, <1>2, <1>3, ChainedConcat
<1>5. o \o q \in Seq(X)
  <2> HIDE DEF X
  <2> QED BY <1>2, ConcatIs
<1>6. Shown(o \o q) = Shown(o) \o Shown(q) /\ Shown(o) \in Seq(KeySet) /\ Shown(q) \in Seq(KeySet)
  BY <1>2, ShownIs
<1>7. Sound(Shown(o \o q))
  BY <1>6, SoundConcat DEF Placed
<1>8. Splits!Starts(Shown(o \o q)) = Splits!Starts(Shown(o)) \o Splits!Starts(Shown(q))
  BY <1>6, StartsAre
<1>9. Splits!Starts(Shown(o \o q)) = ItemStarts(c, a, d)
  BY <1>8, StartsJoin DEF Placed
<1> QED BY <1>4, <1>5, <1>7, <1>9 DEF Placed

-----------------------------------------------------------------------------
(* Chunks of whole items *)

WholeChunk(c, h) == Splits!New(WholesOf(c, h), MapTotal(Weights(c), h))
WholeChunks(c, G) == [g \in DOMAIN G |-> WholeChunk(c, G[g])]

\* What may wait: tables over the maximum only if they have one row.
LooseSet(c) ==
    {i \in 1..Len(c) : c[i].kind = "table" /\ Weight(c, i) > Maximum => Len(RowsIn(c, i)) = 1}

\* Whole items have no row cut off.
LEMMA WholesSound ==
    ASSUME NEW c \in Chunks, NEW s \in Seq(1..Len(c))
    PROVE  Sound(Splits!KeysOf(WholesOf(c, s)))
<1> DEFINE I == 1..Len(c)
           K(u) == Splits!KeysOf(WholesOf(c, u))
           T == {u \in Seq(I) : Sound(K(u))}
<1>1. <<>> \in T
  <2>1. K(<<>>) = <<>>
    BY WholesAre, KeysAre
  <2>2. <<>> \in Seq(I) /\ Sound(<<>>)
    BY DEF Sound
  <2> QED BY <2>1, <2>2
<1>2. ASSUME NEW u \in Seq(I), u \in T, NEW x \in I PROVE Append(u, x) \in T
  <2>1. Append(u, x) \in Seq(I) /\ Append(u, x) = u \o <<x>> /\ <<x>> \in Seq(I)
    <3> HIDE DEF I
    <3> QED BY AppendIs
  <2>2. WholesOf(c, Append(u, x)) = WholesOf(c, u) \o <<WholeOf(c, x)>>
    BY <2>1, WholesAre
  <2>3. WholesOf(c, u) \in Seq(PieceSet) /\ WholeOf(c, x) \in PieceSet /\ <<WholeOf(c, x)>> \in Seq(PieceSet)
    BY WholesAre, ItemsAre
  <2>4. K(Append(u, x)) = K(u) \o Splits!PieceKeys(WholeOf(c, x))
        /\ K(u) \in Seq(KeySet) /\ Splits!PieceKeys(WholeOf(c, x)) \in Seq(KeySet)
    BY <2>2, <2>3, KeysAre
  <2>5. Sound(Splits!PieceKeys(WholeOf(c, x)))
    <3>1. WholeOf(c, x).part = 0
      BY DEF WholeOf
    <3> QED BY <2>3, <3>1, SoundWhole
  <2>6. Sound(K(Append(u, x)))
    BY <1>2, <2>4, <2>5, SoundConcat
  <2> QED BY <2>1, <2>6
<1>3. Seq(I) \subseteq T
  <2> HIDE DEF I, T
  <2> QED BY <1>1, <1>2, SequenceInduction
<1> QED BY <1>3

\* Whole items, as pieces of the items they are.
LEMMA WholesHeld ==
    ASSUME NEW c \in Chunks, NEW a \in 1..Len(c) + 1, NEW b \in a..Len(c) + 1
    PROVE  /\ WholesOf(c, Upto(a, b - 1)) \in Seq(HeldSet(c, a, b))
           /\ Len(WholesOf(c, Upto(a, b - 1))) = b - a
           /\ a < b => Last(WholesOf(c, Upto(a, b - 1))) = WholeOf(c, b - 1)
<1> DEFINE h == Upto(a, b - 1)  w == WholesOf(c, h)
<1>0. Len(c) \in Nat /\ a \in Nat /\ b \in Nat /\ a <= b /\ 1 <= a /\ b <= Len(c) + 1
  BY ItemsAre
<1>1. Len(h) = b - a /\ (\A k \in 1..b - a : h[k] = a + k - 1) /\ DOMAIN h = 1..b - a
  <2>1. b - 1 \in Int /\ b - 1 >= a - 1 /\ (b - 1) - a + 1 = b - a
    BY <1>0
  <2>2. Len(h) = (b - 1) - a + 1 /\ \A k \in 1..(b - 1) - a + 1 : h[k] = a + k - 1
    BY <1>0, <2>1, UptoIs
  <2>3. DOMAIN h = 1..(b - 1) - a + 1
    BY DEF Upto
  <2> QED BY <2>1, <2>2, <2>3
<1> HIDE DEF h
<1>2. ASSUME NEW i \in a..b - 1 PROVE WholeOf(c, i) \in HeldSet(c, a, b)
  <2>1. i \in 1..Len(c)
    BY <1>0
  <2>2. WholeOf(c, i) \in PieceSet /\ RowsIn(c, i) \in Seq(Nat) /\ (RowsIn(c, i) = <<>> <=> c[i].kind # "table")
    BY <2>1, ItemsAre
  <2> DEFINE R == RowsIn(c, i)  f == [r \in DOMAIN R |-> r]
  <2>3. f = [r \in 1..Len(R) |-> r] /\ Len(R) \in Nat /\ (R = <<>> <=> Len(R) = 0)
    BY <2>2
  <2> HIDE DEF R
  <2>4. Len(f) = Len(R) /\ f \in Seq(Nat)
    BY <2>3
  <2>5. ToSet(f) \subseteq 1..Len(R) /\ (f = <<>> <=> R = <<>>)
    BY <2>3, <2>4 DEF ToSet
  <2> HIDE DEF f
  <2>6. WholeOf(c, i).item = i /\ WholeOf(c, i).rows = f
    BY DEF WholeOf, f, R
  <2> QED BY <2>2, <2>5, <2>6 DEF HeldSet, R
<1>3. w = [k \in 1..b - a |-> WholeOf(c, a + k - 1)]
  BY <1>1 DEF WholesOf
<1>4. \A k \in 1..b - a : w[k] \in HeldSet(c, a, b)
  <2>1. \A k \in 1..b - a : a + k - 1 \in a..b - 1
    BY <1>0
  <2> QED BY <1>2, <1>3, <2>1
<1>5. w \in Seq(HeldSet(c, a, b)) /\ Len(w) = b - a
  <2>1. b - a \in Nat
    BY <1>0
  <2> HIDE DEF w
  <2> QED BY <1>3, <1>4, <2>1 DEF w
<1>6. ASSUME a < b PROVE Last(w) = WholeOf(c, b - 1)
  <2>1. b - a \in 1..b - a /\ a + (b - a) - 1 = b - 1
    BY <1>0, <1>6
  <2>2. w[b - a] = WholeOf(c, a + (b - a) - 1)
    BY <1>3, <2>1
  <2> QED BY <1>5, <2>1, <2>2 DEF Last
<1> QED BY <1>5, <1>6 DEF h

\* A chunk of whole items shows them.
LEMMA WholePlaced ==
    ASSUME NEW c \in Chunks, NEW a \in 1..Len(c) + 1, NEW b \in a..Len(c) + 1, a < b
    PROVE  Placed(c, <<WholeChunk(c, Upto(a, b - 1))>>, a, b) /\ WholeChunk(c, Upto(a, b - 1)) \in NewSet
<1> DEFINE h == Upto(a, b - 1)  w == WholesOf(c, h)  x == WholeChunk(c, h)
           size == MapTotal(Weights(c), h)
<1>0. Len(c) \in Nat /\ a \in Nat /\ b \in Nat /\ a <= b /\ b - a > 0
  BY ItemsAre
<1>1. w \in Seq(HeldSet(c, a, b)) /\ w # <<>>
  <2>1. w \in Seq(HeldSet(c, a, b)) /\ Len(w) = b - a
    BY WholesHeld
  <2> QED BY <1>0, <2>1
<1>2. x = [held |-> w, over |-> size > Maximum]
  BY DEF WholeChunk, Splits!New
<1> HIDE DEF w, size
<1>3. x \in ChunkSet(c, a, b)
  <2>1. (size > Maximum) \in BOOLEAN
    OBVIOUS
  <2> DEFINE v == size > Maximum  H == {u \in Seq(HeldSet(c, a, b)) : u # <<>>}
  <2>2. w \in H /\ v \in BOOLEAN /\ x = [held |-> w, over |-> v]
    BY <1>1, <1>2, <2>1
  <2> HIDE DEF v, H, x
  <2>3. x \in [held : H, over : BOOLEAN]
    BY <2>2
  <2> QED BY <2>3 DEF ChunkSet, H
<1>4. x.held = w
  BY <1>2
<1> HIDE DEF x
<1>5. x \in NewSet
  <2>1. a <= a /\ b <= b
    BY <1>0
  <2>2. ChunkSet(c, a, b) \subseteq NewSet
    BY <1>0, <2>1, ChunksAreNew
  <2> QED BY <1>3, <2>2
<1>6. Shown(<<x>>) = Splits!KeysOf(w)
  BY <1>4, <1>5, ShownIs
<1>7. Sound(Shown(<<x>>))
  <2>1. Upto(a, b - 1) \in Seq(1..Len(c))
    <3>1. Len(c) + 1 \in b..Len(c) + 1
      BY <1>0
    <3> QED BY <3>1, StartsJoin
  <2> QED BY <1>6, <2>1, WholesSound DEF w
<1>8. Splits!Starts(Shown(<<x>>)) = ItemStarts(c, a, b)
  BY <1>6 DEF ItemStarts, w
<1>9. Chained(LinkSet(c), <<x>>) /\ <<x>> \in Seq(ChunkSet(c, a, b))
  BY <1>3 DEF Chained
<1> QED BY <1>5, <1>7, <1>8, <1>9 DEF Placed, x

\* A packed chunk of loose items is over the maximum only if it is one item.
LEMMA WholeModest ==
    ASSUME NEW c \in Chunks, NEW a \in 1..Len(c) + 1, NEW b \in a..Len(c) + 1, a < b,
           a..b - 1 \subseteq LooseSet(c), Upto(a, b - 1) \in PackSet(c)
    PROVE  WholeChunk(c, Upto(a, b - 1)) \in ModestSet(c)
<1> DEFINE h == Upto(a, b - 1)  w == WholesOf(c, h)  x == WholeChunk(c, h)
           size == MapTotal(Weights(c), h)
<1>0. Len(c) \in Nat /\ a \in Nat /\ b \in Nat /\ a <= b /\ b - a > 0 /\ 1 <= a /\ b <= Len(c) + 1
  BY ItemsAre
<1>1. x \in NewSet
  BY WholePlaced
<1>2. x.held = w /\ (x.over <=> size > Maximum)
  BY DEF WholeChunk, Splits!New
<1>3. Len(w) = b - a /\ Last(w) = WholeOf(c, b - 1)
  BY WholesHeld
<1>4. Len(h) = b - a /\ h[1] = a
  <2>1. b - 1 \in Int /\ b - 1 >= a - 1 /\ (b - 1) - a + 1 = b - a /\ 1 \in 1..b - a /\ a + 1 - 1 = a
    BY <1>0
  <2>2. Len(h) = (b - 1) - a + 1 /\ \A k \in 1..(b - 1) - a + 1 : h[k] = a + k - 1
    BY <1>0, <2>1, UptoIs
  <2> QED BY <2>1, <2>2
<1>5. ASSUME x.over PROVE Alone(c, x)
  <2>1. size > Maximum /\ size \in Nat /\ Maximum \in Nat
    <3>1. h \in Seq(1..Len(c))
      BY DEF PackSet
    <3>2. Weights(c) \in [1..Len(c) -> Nat]
      BY WeightsAre
    <3>3. size \in Nat
      BY <3>1, <3>2, MapTotalIs
    <3> QED BY <1>2, <1>5, <3>3, SplittingAssumption DEF Splits!BudgetAssumption
  <2>2. Len(h) = 1
    BY <2>1 DEF PackSet
  <2>3. b - 1 = a /\ a \in 1..Len(c) /\ a \in LooseSet(c)
    <3>1. b - a = 1
      BY <1>4, <2>2
    <3>2. b - 1 = a /\ a \in 1..Len(c) /\ a \in a..b - 1
      BY <1>0, <3>1
    <3> QED BY <3>2
  <2>4. size = Weight(c, a)
    <3> HIDE DEF h
    <3>1. h = <<a>>
      <4>1. h \in Seq(1..Len(c))
        BY DEF PackSet, h
      <4> QED BY <1>4, <2>2, <4>1
    <3>2. Weights(c) \in [1..Len(c) -> Nat] /\ Weights(c)[a] = Weight(c, a)
      BY <2>3, WeightsAre DEF Weights
    <3> QED BY <2>3, <3>1, <3>2, MapTotalIs
  <2> DEFINE l == WholeOf(c, a)
  <2>5. Last(x.held) = l /\ Len(x.held) = 1
    BY <1>2, <1>3, <1>4, <2>2, <2>3
  <2>6. l.item = a
    BY DEF WholeOf
  <2>7. CASE c[a].kind = "table"
    <3>1. Len(RowsIn(c, a)) = 1
      BY <2>1, <2>3, <2>4, <2>7 DEF LooseSet
    <3>2. RowsIn(c, a) \in Seq(Nat)
      BY <2>3, ItemsAre
    <3>3. Len(l.rows) = 1
      BY <3>1, <3>2 DEF WholeOf
    <3> HIDE DEF l, x
    <3> QED BY <2>5, <2>6, <3>3 DEF Alone
  <2>8. CASE c[a].kind # "table"
    <3> HIDE DEF l, x
    <3> QED BY <2>5, <2>6, <2>8 DEF Alone
  <2> QED BY <2>7, <2>8
<1> QED BY <1>1, <1>5 DEF ModestSet

\* No chunks show no items.
LEMMA NonePlaced ==
    ASSUME NEW c \in Chunks, NEW a \in 1..Len(c) + 1
    PROVE  Placed(c, <<>>, a, a) /\ Upto(a, a - 1) = <<>>
<1>1. Upto(a, a - 1) = <<>>
  <2>1. Len(c) \in Nat /\ a \in Nat /\ (a - 1) - a + 1 = 0
    BY ItemsAre
  <2>2. Upto(a, a - 1) = [k \in 1..0 |-> a + k - 1]
    BY <2>1 DEF Upto
  <2> QED BY <2>2
<1>2. ItemStarts(c, a, a) = <<>>
  <2>1. Splits!KeysOf(WholesOf(c, <<>>)) = <<>>
    BY WholesAre, KeysAre
  <2> QED BY <1>1, <2>1, StartsAre DEF ItemStarts
<1>3. Sound(<<>>) /\ Chained(LinkSet(c), <<>>) /\ <<>> \in Seq(ChunkSet(c, a, a))
  BY DEF Sound, Chained
<1>4. Shown(<<>>) = <<>> /\ Splits!Starts(<<>>) = <<>>
  BY ShownIs, StartsAre
<1> QED BY <1>1, <1>2, <1>3, <1>4 DEF Placed

\* One more group makes one more chunk.
LEMMA WholeChunksAppend ==
    ASSUME NEW c, NEW A, NEW u \in Seq(A), NEW x \in A
    PROVE  /\ WholeChunks(c, Append(u, x)) = WholeChunks(c, u) \o <<WholeChunk(c, x)>>
           /\ WholeChunks(c, <<>>) = <<>>
<1> DEFINE n == Len(u)
           t == Append(u, x)
           B == {WholeChunk(c, y) : y \in A}
           e == WholeChunk(c, x)
           v == WholeChunks(c, u)
           w == WholeChunks(c, t)
           z == v \o <<e>>
<1>1. /\ n \in Nat /\ DOMAIN u = 1..n /\ DOMAIN t = 1..n + 1
      /\ t[n + 1] = x /\ (\A k \in 1..n : t[k] = u[k] /\ u[k] \in A)
  BY AppendIs
<1>2. v = [k \in 1..n |-> WholeChunk(c, u[k])] /\ w = [k \in 1..n + 1 |-> WholeChunk(c, t[k])]
  BY <1>1 DEF WholeChunks
<1>3. e \in B /\ \A k \in 1..n : WholeChunk(c, u[k]) \in B
  BY <1>1
<1>4. v \in Seq(B) /\ Len(v) = n /\ (\A k \in 1..n : v[k] = w[k]) /\ w[n + 1] = e /\ w \in Seq(B) /\ Len(w) = n + 1
  <2>1. \A k \in 1..n + 1 : WholeChunk(c, t[k]) \in B
    BY <1>1, <1>3
  <2> HIDE DEF v, w, t, e, n, B
  <2>2. v \in Seq(B) /\ Len(v) = n
    BY <1>1, <1>2, <1>3
  <2>3. w \in Seq(B) /\ Len(w) = n + 1
    BY <1>1, <1>2, <2>1
  <2>4. (\A k \in 1..n : v[k] = w[k]) /\ w[n + 1] = WholeChunk(c, x)
    BY <1>1, <1>2
  <2> QED BY <2>2, <2>3, <2>4 DEF e
<1> HIDE DEF v, w, e, n, B, t
<1>5. z \in Seq(B) /\ Len(z) = n + 1 /\ (\A k \in 1..n : z[k] = v[k]) /\ z[n + 1] = e
  BY <1>1, <1>3, <1>4
<1>6. w = z
  <2>1. \A k \in 1..n + 1 : w[k] = z[k]
    BY <1>1, <1>4, <1>5
  <2> HIDE DEF z
  <2> QED BY <1>4, <1>5, <2>1, SeqEqual
<1>7. WholeChunks(c, <<>>) = <<>>
  BY DEF WholeChunks
<1> QED BY <1>6, <1>7 DEF w, v, e, t

\* The chunks of packed items show them.
LEMMA WholesPlaced ==
    ASSUME NEW c \in Chunks, NEW a \in 1..Len(c) + 1, NEW b \in a..Len(c) + 1,
           NEW G \in Seq(PackSet(c)), FlattenSeq(G) = Upto(a, b - 1), a..b - 1 \subseteq LooseSet(c)
    PROVE  Placed(c, WholeChunks(c, G), a, b) /\ WholeChunks(c, G) \in Seq(ModestSet(c))
<1> DEFINE Z == PackSet(c)
           M == ModestSet(c)
           W(u) == WholeChunks(c, u)
           Good(u, d) == Placed(c, W(u), a, d) /\ W(u) \in Seq(M)
           Given(u, d) == FlattenSeq(u) = Upto(a, d - 1) /\ a..d - 1 \subseteq LooseSet(c)
           T == {u \in Seq(Z) : \A d \in a..Len(c) + 1 : Given(u, d) => Good(u, d)}
<1>0. Len(c) \in Nat /\ a \in Nat /\ 1 <= a /\ a <= Len(c) + 1
  BY ItemsAre
<1>1. <<>> \in T
  <2>1. ASSUME NEW d \in a..Len(c) + 1, Given(<<>>, d) PROVE Good(<<>>, d)
    <3>1. d - 1 \in Int /\ d - 1 >= a - 1 /\ d \in Nat
      BY <1>0
    <3>2. Len(Upto(a, d - 1)) = (d - 1) - a + 1
      BY <1>0, <3>1, UptoIs
    <3>3. Len(Upto(a, d - 1)) = 0
      BY <2>1, FlatEmpty
    <3>4. d = a
      BY <1>0, <3>1, <3>2, <3>3
    <3>5. W(<<>>) = <<>>
      BY DEF WholeChunks
    <3>6. <<>> \in Seq(M)
      OBVIOUS
    <3>7. Placed(c, <<>>, a, d)
      BY <3>4, NonePlaced
    <3> QED BY <3>5, <3>6, <3>7
  <2> HIDE DEF Good, Given
  <2> QED BY <2>1
<1>2. ASSUME NEW u \in Seq(Z), u \in T, NEW x \in Z PROVE Append(u, x) \in T
  <2> DEFINE t == Append(u, x)
  <2>1. ASSUME NEW d \in a..Len(c) + 1, Given(t, d) PROVE Good(t, d)
    <3> DEFINE f == FlattenSeq(u)
               m == a + Len(f)
               I == 1..Len(c)
    <3>1. x \in Seq(I) /\ x # <<>> /\ u \in Seq(Seq(I))
      <4>1. \A z \in Z : z \in Seq(I)
        BY DEF PackSet
      <4>2. x # <<>>
        BY DEF PackSet
      <4> DEFINE A == Seq(I)
      <4>3. \A z \in Z : z \in A
        BY <4>1
      <4> HIDE DEF A, Z
      <4>4. u \in Seq(A)
        BY <4>3
      <4> QED BY <4>1, <4>2, <4>4 DEF A
    <3>2. FlattenSeq(t) = f \o x /\ f \in Seq(I)
      BY <3>1, FlattenAppend
    <3> HIDE DEF f, I
    <3>3. f \o x = Upto(a, d - 1) /\ a..d - 1 \subseteq LooseSet(c)
      BY <2>1, <3>2
    <3>4. f \in Seq(Int) /\ x \in Seq(Int) /\ Len(x) \in Nat /\ Len(x) # 0
      BY <3>1, <3>2 DEF I
    <3>5. f = Upto(a, m - 1) /\ x = Upto(m, d - 1) /\ m \in a..d /\ d = m + Len(x)
      <4>1. a \in Nat /\ d \in Int /\ a <= d /\ f \in Seq(Int) /\ x \in Seq(Int) /\ f \o x = Upto(a, d - 1)
        BY <1>0, <3>3, <3>4
      <4>2. SplitAt(a, d, f, x)
        BY <4>1, UptoSplit
      <4> QED BY <4>2 DEF SplitAt
    <3>8. m \in a..Len(c) + 1 /\ m < d /\ m \in 1..Len(c) + 1 /\ d \in m..Len(c) + 1
      BY <1>0, <3>4, <3>5, SMTT(30)
    <3>9. f = Upto(a, m - 1) /\ x = Upto(m, d - 1)
      BY <3>5
    <3> HIDE DEF m
    <3>10. a..m - 1 \subseteq LooseSet(c) /\ m..d - 1 \subseteq LooseSet(c)
      BY <1>0, <3>3, <3>8
    <3>11. Good(u, m)
      <4>1. Given(u, m)
        BY <3>9, <3>10 DEF f
      <4> HIDE DEF Given, Good
      <4> QED BY <1>2, <3>8, <4>1
    <3>12. Placed(c, <<WholeChunk(c, x)>>, m, d)
      BY <3>8, <3>9, WholePlaced
    <3>13. WholeChunk(c, x) \in M
      BY <3>8, <3>9, <3>10, WholeModest
    <3>14. W(t) = W(u) \o <<WholeChunk(c, x)>>
      BY WholeChunksAppend
    <3>15. Placed(c, W(t), a, d)
      BY <3>8, <3>11, <3>12, <3>14, PlacedConcat
    <3>16. W(t) \in Seq(M)
      <4> DEFINE v == W(u)  e == WholeChunk(c, x)
      <4>1. v \in Seq(M) /\ e \in M
        BY <3>11, <3>13
      <4> HIDE DEF v, e, M
      <4>2. v \o <<e>> \in Seq(M)
        BY <4>1
      <4> QED BY <3>14, <4>2 DEF v, e
    <3> QED BY <3>15, <3>16
  <2>2. t \in Seq(Z)
    <3> HIDE DEF Z
    <3> QED BY AppendIs
  <2> HIDE DEF Good, Given
  <2> QED BY <2>1, <2>2
<1>3. Seq(Z) \subseteq T
  <2> HIDE DEF T, Z
  <2> QED BY <1>1, <1>2, SequenceInduction
<1>4. G \in T
  BY <1>3
<1> QED BY <1>4

-----------------------------------------------------------------------------
(* The pieces of a table *)

\* The rows 1..n, and the groups that are broken into their rows.
TableRowNumbers(i) == [r \in 1..Len(RowsIn(chunk, i)) |-> r]
TableGroups(i) == Numbered(chunk[i].groups)
BrokenOnes(i, held) ==
    {g \in Nat : chunk[i].label + Splits!Repeated(held) + Splits!RowsSize(i, TableGroups(i)[g]) > Maximum}

\* Row numbers are distinct.
LEMMA RowNumbersOnce ==
    ASSUME NEW n \in Nat
    PROVE  OneToOne([r \in 1..n |-> r]) /\ [r \in 1..n |-> r] \in Seq(1..n) /\ Len([r \in 1..n |-> r]) = n
BY DEF OneToOne

\* The groups of a table hold its rows once and in order.
LEMMA GroupsAre ==
    ASSUME chunk \in Chunks, NEW i \in 1..Len(chunk), chunk[i].kind = "table"
    PROVE  LET N == TableGroups(i)
           IN  /\ N \in Seq(Seq(Nat)) /\ N # <<>> /\ Apart(N) /\ FlattenSeq(N) = TableRowNumbers(i)
               /\ \A g \in 1..Len(N) : N[g] # <<>> /\ N[g] \in Seq(Nat) /\ Len(N[g]) = Len(chunk[i].groups[g])
               /\ Len(N) = Len(chunk[i].groups) /\ N[1][1] = 1
               /\ N[1] = [r \in 1..Len(chunk[i].groups[1]) |-> r]
<1> DEFINE N == TableGroups(i)
           gs == chunk[i].groups
<1>1. gs \in Seq(Seq(Nat)) /\ gs # <<>> /\ (\A g \in 1..Len(gs) : gs[g] # <<>>) /\ RowsIn(chunk, i) \in Seq(Nat)
  BY ItemsAre
<1>2. /\ N \in Seq(Seq(Nat)) /\ Len(N) = Len(gs)
      /\ FlattenSeq(N) = [r \in 1..Len(FlattenSeq(gs)) |-> r]
      /\ \A g \in 1..Len(gs) : Len(N[g]) = Len(gs[g])
  BY <1>1, NumberedIs DEF TableGroups
<1>3. FlattenSeq(N) = TableRowNumbers(i)
  BY <1>2 DEF TableRowNumbers, RowsIn
<1>4. Apart(N)
  <2>1. Len(RowsIn(chunk, i)) \in Nat
    BY <1>1
  <2>2. OneToOne(FlattenSeq(N))
    BY <1>3, <2>1, RowNumbersOnce DEF TableRowNumbers
  <2> HIDE DEF N
  <2> QED BY <1>2, <2>2, FlatApart
<1>5. Len(gs) \in Nat /\ Len(gs) # 0 /\ 1 \in 1..Len(gs) /\ gs[1] \in Seq(Nat) /\ gs[1] # <<>>
  <2> HIDE DEF gs
  <2>1. Len(gs) \in Nat /\ Len(gs) # 0 /\ 1 \in 1..Len(gs)
    BY <1>1
  <2> QED BY <1>1, <2>1
<1>6. ASSUME NEW g \in 1..Len(N) PROVE N[g] # <<>> /\ N[g] \in Seq(Nat) /\ Len(N[g]) = Len(gs[g])
  <2> HIDE DEF N, gs
  <2>1. N[g] \in Seq(Nat) /\ Len(N[g]) = Len(gs[g]) /\ gs[g] # <<>> /\ gs[g] \in Seq(Nat)
    BY <1>1, <1>2
  <2>2. Len(gs[g]) # 0
    BY <2>1
  <2> QED BY <2>1, <2>2
<1>7. N[1] = [r \in 1..Len(gs[1]) |-> r] /\ N[1][1] = 1
  <2>1. SubSeq(gs, 1, 1 - 1) = <<>>
    <3> HIDE DEF gs
    <3> QED BY <1>1
  <2>2. Len(FlattenSeq(SubSeq(gs, 1, 1 - 1))) = 0
    <3> DEFINE e == SubSeq(gs, 1, 1 - 1)
    <3>1. e = <<>>
      BY <2>1
    <3> HIDE DEF e
    <3>2. Len(FlattenSeq(e)) = 0
      BY <3>1, FlatEmpty
    <3> QED BY <3>2 DEF e
  <2>3. 1 \in DOMAIN gs /\ DOMAIN gs[1] = 1..Len(gs[1]) /\ Len(gs[1]) \in Nat /\ Len(gs[1]) # 0
    <3> HIDE DEF gs
    <3> QED BY <1>1, <1>5
  <2>4. N[1] = [r \in DOMAIN gs[1] |-> Len(FlattenSeq(SubSeq(gs, 1, 1 - 1))) + r]
    <3> HIDE DEF gs
    <3>1. TableGroups(i) = Numbered(gs)
      BY DEF TableGroups, gs
    <3> QED BY <2>3, <3>1 DEF Numbered
  <2>5. N[1] = [r \in 1..Len(gs[1]) |-> 0 + r]
    BY <2>2, <2>3, <2>4
  <2> HIDE DEF N, gs
  <2>6. N[1] = [r \in 1..Len(gs[1]) |-> r] /\ 1 \in 1..Len(gs[1])
    BY <2>3, <2>5
  <2> QED BY <2>6
<1> QED
  <2>1. N # <<>>
    <3> HIDE DEF N, gs
    <3> QED BY <1>2, <1>5
  <2> HIDE DEF N
  <2> QED BY <1>2, <1>3, <1>4, <1>6, <1>7, <2>1 DEF N

\* The splits of a table hold its rows once and in order.
LEMMA SplitsAre ==
    ASSUME chunk \in Chunks, NEW i \in 1..Len(chunk), chunk[i].kind = "table", NEW held
    PROVE  LET N == TableGroups(i)
               Br == BrokenOnes(i, held)
               B == FlattenSeq(Broken(N, Br))
               S == Splits!RowSplits(i, held)
           IN  /\ FlattenSeq(S) = TableRowNumbers(i) /\ S \in Seq(TogetherSet(N, Br)) /\ S # <<>> /\ S \in Seq(Seq(Nat))
               /\ Collects(i, held, PartsOf(N, Br), B, S) /\ Apart(S)
               /\ B[1] = IF 1 \in Br THEN <<1>> ELSE N[1]
<1> DEFINE N == TableGroups(i)
           Br == BrokenOnes(i, held)
           X == Broken(N, Br)
           B == FlattenSeq(X)
           S == Splits!RowSplits(i, held)
<1>1. /\ N \in Seq(Seq(Nat)) /\ N # <<>> /\ Apart(N) /\ FlattenSeq(N) = TableRowNumbers(i)
      /\ (\A g \in 1..Len(N) : N[g] # <<>>) /\ N[1][1] = 1
  BY GroupsAre
<1>2. Splits!GroupsOf(i) = N
  BY SizesAre DEF TableGroups
<1>3. Splits!BudgetedGroups(i, held) = B
  <2> DEFINE Cond(g) == chunk[i].label + Splits!Repeated(held) + Splits!RowsSize(i, N[g]) > Maximum
  <2>1. \A g \in DOMAIN N : g \in Br <=> Cond(g)
    <3>1. \A g \in DOMAIN N : g \in Nat
      BY <1>1
    <3> QED BY <3>1 DEF BrokenOnes
  <2>2. Splits!BudgetedGroups(i, held) =
          FlattenSeq([g \in DOMAIN N |-> IF Cond(g) THEN [k \in DOMAIN N[g] |-> <<N[g][k]>>] ELSE <<N[g]>>])
    BY <1>2, SplitOperators DEF Splits!BudgetedGroups
  <2> HIDE DEF Cond, Br, N
  <2>3. [g \in DOMAIN N |-> IF Cond(g) THEN [k \in DOMAIN N[g] |-> <<N[g][k]>>] ELSE <<N[g]>>]
          = [g \in DOMAIN N |-> IF g \in Br THEN [k \in DOMAIN N[g] |-> <<N[g][k]>>] ELSE <<N[g]>>]
    BY <2>1
  <2> QED BY <2>2, <2>3 DEF Broken
<1>4. S = Collected(i, held, B)
  <2> HIDE DEF B
  <2> QED BY <1>3 DEF Splits!RowSplits, Collected
<1> HIDE DEF N, Br
<1>5. /\ FlattenSeq(B) = FlattenSeq(N) /\ B \in Seq(PartsOf(N, Br))
      /\ B # <<>> /\ B[1] = IF 1 \in Br THEN <<N[1][1]>> ELSE N[1]
  BY <1>1, BrokenRight
<1> HIDE DEF X, B, S
<1>6. /\ FlattenSeq(S) = FlattenSeq(B) /\ S \in Seq(TogetherSet(N, Br)) /\ S # <<>>
      /\ Collects(i, held, PartsOf(N, Br), B, S)
  BY <1>1, <1>4, <1>5, CollectedRight
<1>7. S \in Seq(Seq(Nat))
  <2> DEFINE Y == TogetherSet(N, Br)  A == Seq(Nat)
  <2>1. \A y \in Y : y \in A
    BY DEF TogetherSet
  <2>2. S \in Seq(Y)
    BY <1>6
  <2> HIDE DEF Y, A
  <2>3. S \in Seq(A)
    BY <2>1, <2>2
  <2> QED BY <2>3 DEF A
<1>8. FlattenSeq(S) = TableRowNumbers(i)
  BY <1>1, <1>5, <1>6
<1>9. Apart(S)
  <2>1. Len(RowsIn(chunk, i)) \in Nat
    BY ItemsAre
  <2>2. OneToOne(FlattenSeq(S))
    BY <1>8, <2>1, RowNumbersOnce DEF TableRowNumbers
  <2> QED BY <1>7, <2>2, FlatApart
<1> QED BY <1>1, <1>5, <1>6, <1>7, <1>8, <1>9 DEF N, Br, X, B, S

RowStarts(i, rows) == [k \in 1..Len(rows) |-> <<i, rows[k]>>]

\* Rows start where their keys do.
LEMMA RowStartsAre ==
    ASSUME NEW i \in Nat, NEW rows \in Seq(Nat), NEW no \in 0..2, no # 2
    PROVE  /\ RowStarts(i, rows) \in Seq(StartSet)
           /\ Splits!Starts([k \in DOMAIN rows |-> <<i, rows[k], no>>]) = RowStarts(i, rows)
<1> DEFINE s == RowStarts(i, rows)
           keys == [k \in DOMAIN rows |-> <<i, rows[k], no>>]
<1>1. Len(rows) \in Nat /\ DOMAIN rows = 1..Len(rows) /\ \A k \in 1..Len(rows) : rows[k] \in Nat
  OBVIOUS
<1>2. s \in Seq(StartSet) /\ DOMAIN s = 1..Len(rows)
  <2>1. \A k \in 1..Len(rows) : <<i, rows[k]>> \in StartSet
    BY <1>1 DEF StartSet
  <2>2. s = [k \in 1..Len(rows) |-> <<i, rows[k]>>]
    BY DEF RowStarts
  <2> HIDE DEF s
  <2> QED BY <1>1, <2>1, <2>2
<1>3. [k \in DOMAIN keys |-> Splits!Start(keys[k])] = [k \in DOMAIN s |-> <<s[k]>>]
  BY <1>1 DEF RowStarts, Splits!Start
<1>4. FlattenSeq([k \in DOMAIN s |-> <<s[k]>>]) = s
  <2> HIDE DEF s
  <2> QED BY <1>2, FlatSingles
<1>5. Splits!Starts(keys) = FlattenSeq([k \in DOMAIN keys |-> Splits!Start(keys[k])])
  <2> HIDE DEF keys
  <2> QED BY SplitOperators DEF Splits!Starts
<1> QED BY <1>2, <1>3, <1>4, <1>5

\* The starts of joined rows are the joined starts.
LEMMA RowStartsConcat ==
    ASSUME NEW i \in Nat, NEW s \in Seq(Nat), NEW t \in Seq(Nat)
    PROVE  RowStarts(i, s \o t) = RowStarts(i, s) \o RowStarts(i, t)
<1> DEFINE u == s \o t
           f == RowStarts(i, s)  g == RowStarts(i, t)  h == RowStarts(i, u)
           w == f \o g
           V == Nat
<1>1. /\ u \in Seq(Nat) /\ Len(s) \in Nat /\ Len(t) \in Nat /\ Len(u) = Len(s) + Len(t)
      /\ (\A k \in 1..Len(s) : u[k] = s[k]) /\ (\A k \in 1..Len(t) : u[Len(s) + k] = t[k])
  <2>1. s \in Seq(V) /\ t \in Seq(V)
    OBVIOUS
  <2> HIDE DEF V
  <2>2. /\ u \in Seq(V) /\ Len(s) \in Nat /\ Len(t) \in Nat /\ Len(u) = Len(s) + Len(t)
        /\ (\A k \in 1..Len(s) : u[k] = s[k]) /\ (\A k \in 1..Len(t) : u[Len(s) + k] = t[k])
    BY <2>1, ConcatIs
  <2> QED BY <2>2 DEF V
<1> HIDE DEF u
<1>2. f \in Seq(StartSet) /\ g \in Seq(StartSet) /\ h \in Seq(StartSet)
  <2>1. 0 \in 0..2 /\ 0 # 2
    OBVIOUS
  <2> QED BY <1>1, <2>1, RowStartsAre
<1>3. Len(f) = Len(s) /\ Len(g) = Len(t) /\ Len(h) = Len(u)
  BY <1>1 DEF RowStarts
<1>4. /\ \A k \in 1..Len(s) : f[k] = <<i, s[k]>>
      /\ \A k \in 1..Len(t) : g[k] = <<i, t[k]>>
      /\ \A k \in 1..Len(u) : h[k] = <<i, u[k]>>
  BY <1>1 DEF RowStarts
<1> HIDE DEF f, g, h
<1>5. /\ w \in Seq(StartSet) /\ Len(w) = Len(f) + Len(g)
      /\ (\A k \in 1..Len(f) : w[k] = f[k]) /\ (\A k \in 1..Len(g) : w[Len(f) + k] = g[k])
  BY <1>2, ConcatIs
<1> HIDE DEF w
<1>6. \A k \in 1..Len(u) : h[k] = w[k]
  <2>1. ASSUME NEW k \in 1..Len(u) PROVE h[k] = w[k]
    <3>0. h[k] = <<i, u[k]>>
      BY <1>4
    <3>1. CASE k \in 1..Len(s)
      <4>1. w[k] = f[k]
        BY <1>3, <1>5, <3>1
      <4>2. f[k] = <<i, s[k]>>
        BY <1>4, <3>1
      <4>3. u[k] = s[k]
        BY <1>1, <3>1
      <4> QED BY <3>0, <4>1, <4>2, <4>3
    <3>2. CASE k \notin 1..Len(s)
      <4> DEFINE j == k - Len(s)
      <4>1. j \in 1..Len(t) /\ k = Len(s) + j
        BY <1>1, <3>2
      <4> HIDE DEF j
      <4>2. w[k] = g[j]
        BY <1>3, <1>5, <4>1
      <4>3. g[j] = <<i, t[j]>>
        BY <1>4, <4>1
      <4>4. u[k] = t[j]
        BY <1>1, <4>1
      <4> QED BY <3>0, <4>2, <4>3, <4>4
    <3> QED BY <3>1, <3>2
  <2> QED BY <2>1
<1>7. h = w
  BY <1>1, <1>2, <1>3, <1>5, <1>6, SeqEqual
<1> QED BY <1>7 DEF f, g, h, u, w

\* New chunks of rows of table i that begin one piece each.
RowPieces(i, rows, isOver) ==
    {x \in ChunkSet(chunk, i, i + 1) :
        /\ Len(x.held) = 1 /\ x.held[1].rows = rows /\ x.held[1].item = i
        /\ x.over => isOver}

\* A piece of a table is evidence of its item.
LEMMA PieceHeld ==
    ASSUME chunk \in Chunks, NEW i \in 1..Len(chunk), chunk[i].kind = "table",
           NEW rows \in Seq(Nat), rows # <<>>, ToSet(rows) \subseteq 1..Len(RowsIn(chunk, i)),
           NEW no \in 0..2, NEW isOver \in BOOLEAN
    PROVE  LET p == [item |-> i, rows |-> rows, part |-> no]
               x == [held |-> <<p>>, over |-> isOver]
           IN  /\ x \in RowPieces(i, rows, isOver) /\ p \in PieceSet /\ x \in NewSet
               /\ Shown(<<x>>) = Splits!PieceKeys(p)
               /\ Splits!PieceKeys(p) = [k \in DOMAIN rows |-> <<i, rows[k], no>>]
<1> DEFINE p == [item |-> i, rows |-> rows, part |-> no]
           h == <<p>>
           x == [held |-> h, over |-> isOver]
           H == HeldSet(chunk, i, i + 1)
<1>0. i \in Nat /\ i + 1 \in Nat /\ i \in i..(i + 1) - 1
  BY ItemsAre
<1>1. p.item = i /\ p.rows = rows /\ p.part = no /\ p \in PieceSet
  BY <1>0 DEF PieceSet
<1>2. Splits!PieceKeys(p) = [k \in DOMAIN rows |-> <<i, rows[k], no>>]
  BY <1>1 DEF Splits!PieceKeys
<1> HIDE DEF p
<1>3. p \in H
  BY <1>0, <1>1 DEF HeldSet
<1> HIDE DEF H
<1>4. h \in Seq(H) /\ h # <<>> /\ Len(h) = 1 /\ h[1] = p
  BY <1>3
<1> HIDE DEF h
<1>5. x.held = h /\ x.over = isOver
  OBVIOUS
<1>6. x \in ChunkSet(chunk, i, i + 1)
  <2> DEFINE S == {u \in Seq(H) : u # <<>>}
  <2>1. h \in S
    BY <1>4
  <2> HIDE DEF S
  <2>2. x \in [held : S, over : BOOLEAN]
    BY <2>1
  <2> QED BY <2>2 DEF ChunkSet, S, H
<1> HIDE DEF x
<1>7. x \in RowPieces(i, rows, isOver)
  BY <1>1, <1>4, <1>5, <1>6 DEF RowPieces
<1>8. x \in NewSet
  <2>1. i <= i /\ i + 1 <= i + 1
    BY <1>0
  <2>2. ChunkSet(chunk, i, i + 1) \subseteq NewSet
    BY <1>0, <2>1, ChunksAreNew
  <2> QED BY <1>6, <2>2
<1>9. Shown(<<x>>) = Splits!PieceKeys(p)
  <2>1. Shown(<<x>>) = Splits!KeysOf(h)
    BY <1>5, <1>8, ShownIs
  <2>2. Splits!KeysOf(<<p>>) = Splits!PieceKeys(p)
    BY <1>1, KeysAre
  <2> QED BY <2>1, <2>2 DEF h
<1> QED BY <1>1, <1>2, <1>7, <1>8, <1>9 DEF p, h, x

TooLarge(i, held, rows, first) == Splits!Overhead(i, held, first) + Splits!RowsSize(i, rows) > Maximum

\* The parts of a row follow each other only if the row does not fit.
LEMMA SameRowLinks ==
    ASSUME chunk \in Chunks, NEW i \in 1..Len(chunk), chunk[i].kind = "table",
           NEW held \in Seq(1..Len(chunk)), NEW r \in 1..Len(RowsIn(chunk, i)),
           MapTotal(TextWeights(chunk), held) <= MapTotal(TextWeights(chunk), Upto(1, i - 1)),
           chunk[i].label + Splits!Repeated(held) + Splits!RowsSize(i, <<r>>) > Maximum,
           NEW p, p.item = i, p.rows = <<r>>, NEW q, q.item = i, q.rows = <<r>>
    PROVE  LinkOk(chunk, p, q)
<1> DEFINE N == TableGroups(i)
           a == MapTotal(TextWeights(chunk), held)
           b == MapTotal(TextWeights(chunk), Upto(1, i - 1))
           R == RowsIn(chunk, i)
           l == chunk[i].label
<1>1. Splits!Repeated(held) = a /\ Splits!RowsSize(i, <<r>>) = MapTotal(R, <<r>>)
  BY SizesAre
<1>2. R \in [1..Len(R) -> Nat] /\ TextWeights(chunk) \in [1..Len(chunk) -> Nat]
  BY WeightsAre
<1>3. MapTotal(R, <<r>>) = R[r] /\ R[r] \in Nat
  <2> HIDE DEF R
  <2>1. r \in 1..Len(R)
    BY DEF R
  <2> QED BY <1>2, <2>1, MapTotalIs
<1>4. Upto(1, i - 1) \in Seq(1..Len(chunk)) /\ Len(chunk) \in Nat
  <2>1. Len(chunk) \in Nat /\ 1 \in 1..Len(chunk) + 1 /\ i \in 1..Len(chunk) + 1 /\ Len(chunk) + 1 \in i..Len(chunk) + 1
    BY ItemsAre
  <2> QED BY <2>1, StartsJoin
<1>5. a \in Nat /\ b \in Nat /\ l \in Nat /\ Maximum \in Nat
  <2>1. a \in Nat /\ b \in Nat
    BY <1>2, <1>4, MapTotalIs
  <2> QED BY <2>1, ItemsAre, SplittingAssumption DEF Splits!BudgetAssumption
<1>6. ASSUME NEW g \in 1..Len(N), r \in ToSet(N[g]) PROVE l + b + MapTotal(R, N[g]) > Maximum
  <2>1. N[g] \in Seq(1..Len(R))
    <3>1. N \in Seq(Seq(Nat)) /\ FlattenSeq(N) = TableRowNumbers(i) /\ N[g] \in Seq(Nat)
      BY GroupsAre
    <3>2. ToSet(N[g]) \subseteq ToSet(FlattenSeq(N))
      <4> HIDE DEF N
      <4> QED BY <3>1, GroupWithin
    <3>3. ToSet(TableRowNumbers(i)) \subseteq 1..Len(R)
      <4>1. Len(R) \in Nat
        BY ItemsAre
      <4> QED BY <4>1 DEF ToSet, TableRowNumbers
    <3> DEFINE s == N[g]  B == 1..Len(R)
    <3>4. s \in Seq(Nat) /\ ToSet(s) \subseteq B
      BY <3>1, <3>2, <3>3
    <3> HIDE DEF s, B
    <3>5. s \in Seq(B)
      BY <3>4, ElementsIn
    <3> QED BY <3>5 DEF s, B
  <2> DEFINE s == N[g]
  <2>2. PICK k \in 1..Len(s) : s[k] = r
    <3>1. r \in ToSet(s) /\ s \in Seq(1..Len(R))
      BY <1>6, <2>1
    <3> HIDE DEF s
    <3> QED BY <3>1, ElementsIn
  <2> HIDE DEF s, R
  <2>3. R[s[k]] <= MapTotal(R, s) /\ MapTotal(R, s) \in Nat
    <3>1. s \in Seq(1..Len(R))
      BY <2>1 DEF s
    <3>2. MapTotal(R, s) \in Nat
      BY <1>2, <3>1, MapTotalIs
    <3>3. \A j \in 1..Len(s) : R[s[j]] <= MapTotal(R, s)
      BY <1>2, <3>1, MapTotalBounds
    <3> QED BY <2>2, <3>2, <3>3
  <2>4. l + a + R[r] > Maximum /\ a <= b
    BY <1>1, <1>3 DEF R
  <2> DEFINE t == MapTotal(R, s)  v == R[r]
  <2>5. v <= t /\ t \in Nat /\ v \in Nat /\ l + a + v > Maximum /\ a <= b
    BY <1>3, <2>2, <2>3, <2>4
  <2> HIDE DEF t, v, l, a, b
  <2>6. l + b + t > Maximum
    BY <1>5, <2>5
  <2> QED BY <2>6 DEF t, s
<1>7. Last(p.rows) = r /\ q.rows[1] = r
  BY DEF Last
<1> HIDE DEF b, l, R
<1> QED BY <1>6, <1>7 DEF LinkOk, TableGroups, b, l, R

\* What the pieces of one split are.
FragmentsOk(i, held, rows, first, F) ==
    /\ F \in Seq(RowPieces(i, rows, TooLarge(i, held, rows, first))) /\ F # <<>>
    /\ Chained(LinkSet(chunk), F)
    /\ Sound(Shown(F)) /\ Splits!Starts(Shown(F)) = RowStarts(i, rows)
    /\ Len(F) = 1 => (F[1].over <=> TooLarge(i, held, rows, first))

\* The piece or the fragments of a split show its rows and are linked.
LEMMA SplitPiecesRight ==
    ASSUME chunk \in Chunks, NEW i \in 1..Len(chunk), chunk[i].kind = "table",
           NEW held \in Seq(1..Len(chunk)), NEW first \in BOOLEAN,
           NEW rows \in Seq(Nat), rows # <<>>, ToSet(rows) \subseteq 1..Len(RowsIn(chunk, i)),
           MapTotal(TextWeights(chunk), held) <= MapTotal(TextWeights(chunk), Upto(1, i - 1)),
           TooLarge(i, held, rows, first) =>
               Len(rows) = 1 /\ chunk[i].label + Splits!Repeated(held) + Splits!RowsSize(i, rows) > Maximum
    PROVE  FragmentsOk(i, held, rows, first, Splits!Fragments(i, held, rows, first))
<1> DEFINE F == Splits!Fragments(i, held, rows, first)
           large == TooLarge(i, held, rows, first)
           cut == /\ Len(rows) = 1 /\ rows[1] \notin chunk[i].atomic
                  /\ large /\ Splits!Overhead(i, held, first) < Maximum
           size == Splits!Overhead(i, held, first) + Splits!RowsSize(i, rows)
           Z == RowPieces(i, rows, large)
           K(no) == [k \in DOMAIN rows |-> <<i, rows[k], no>>]
           P(no) == [item |-> i, rows |-> rows, part |-> no]
<1>0. i \in Nat /\ large \in BOOLEAN /\ (size > Maximum) = large
  BY ItemsAre DEF TooLarge
<1>1. CASE ~cut
  <2> DEFINE p == P(0)
             x == [held |-> <<p>>, over |-> large]
  <2>1. Splits!New(<<Splits!Rows(i, rows)>>, size) = x
    BY <1>0 DEF Splits!New, Splits!Rows
  <2>2. F = <<x>>
    BY <1>1, <2>1 DEF Splits!Fragments, TooLarge
  <2>3. 0 \in 0..2 /\ 0 # 2
    OBVIOUS
  <2>4. /\ x \in Z /\ p \in PieceSet
        /\ Shown(<<x>>) = Splits!PieceKeys(p) /\ Splits!PieceKeys(p) = K(0)
    BY <1>0, <2>3, PieceHeld
  <2>5. Sound(Shown(F))
    <3>1. p.part = 0
      OBVIOUS
    <3> HIDE DEF p, x, F
    <3> QED BY <2>2, <2>4, <3>1, SoundWhole
  <2>6. Splits!Starts(Shown(F)) = RowStarts(i, rows)
    <3>1. Splits!Starts(K(0)) = RowStarts(i, rows)
      BY <1>0, <2>3, RowStartsAre
    <3> HIDE DEF x, F, K
    <3> QED BY <2>2, <2>4, <3>1
  <2>7. x.over = large
    OBVIOUS
  <2> HIDE DEF x, F, Z, large
  <2>8. F \in Seq(Z) /\ F # <<>> /\ Len(F) = 1 /\ F[1] = x /\ Chained(LinkSet(chunk), F)
    BY <2>2, <2>4 DEF Chained
  <2> QED BY <2>5, <2>6, <2>7, <2>8 DEF FragmentsOk, F, Z, large
<1>2. CASE cut
  <2> DEFINE r == rows[1]
             p == P(1)  q == P(2)
             x == [held |-> <<p>>, over |-> FALSE]
             y == [held |-> <<q>>, over |-> FALSE]
  <2>1. rows = <<r>> /\ r \in Nat /\ r \in 1..Len(RowsIn(chunk, i))
    <3>1. rows = <<r>> /\ r \in Nat
      BY <1>2
    <3>2. 1 \in 1..Len(rows)
      BY <1>2
    <3>3. r \in ToSet(rows)
      BY <3>2, ElementsIn
    <3> QED BY <3>1, <3>3
  <2>2. ~(Maximum > Maximum)
    BY SplittingAssumption DEF Splits!BudgetAssumption
  <2>3. Splits!New(<<Splits!Fragment(i, r, 1)>>, Maximum) = x /\ Splits!New(<<Splits!Fragment(i, r, 2)>>, Maximum) = y
    <3>1. Splits!Fragment(i, r, 1) = p /\ Splits!Fragment(i, r, 2) = q
      <4> DEFINE v == <<r>>
      <4>1. rows = v
        BY <2>1
      <4> HIDE DEF v
      <4>2. [item |-> i, rows |-> v, part |-> 1] = p /\ [item |-> i, rows |-> v, part |-> 2] = q
        BY <4>1
      <4> QED BY <4>2 DEF Splits!Fragment, v
    <3> HIDE DEF p, q, r
    <3> DEFINE v == Maximum > Maximum
    <3>2. v = FALSE
      BY <2>2
    <3>3. \A h : Splits!New(h, Maximum) = [held |-> h, over |-> v]
      BY DEF Splits!New
    <3> HIDE DEF v
    <3> QED BY <3>1, <3>2, <3>3
  <2>4. F = <<x, y>>
    BY <1>2, <2>3 DEF Splits!Fragments, TooLarge
  <2>5. 1 \in 0..2 /\ 2 \in 0..2 /\ 1 # 2 /\ FALSE \in BOOLEAN
    OBVIOUS
  <2>6. /\ x \in RowPieces(i, rows, FALSE) /\ x \in NewSet
        /\ Shown(<<x>>) = Splits!PieceKeys(p) /\ Splits!PieceKeys(p) = K(1) /\ p \in PieceSet
    BY <2>5, PieceHeld
  <2>7. /\ y \in RowPieces(i, rows, FALSE) /\ y \in NewSet
        /\ Shown(<<y>>) = Splits!PieceKeys(q) /\ Splits!PieceKeys(q) = K(2) /\ q \in PieceSet
    BY <2>5, PieceHeld
  <2>8. x \in Z /\ y \in Z
    <3> HIDE DEF x, y
    <3> QED BY <2>6, <2>7 DEF RowPieces
  <2>9. K(1) = << <<i, r, 1>> >> /\ K(2) = << <<i, r, 2>> >>
    <3>1. DOMAIN rows = {1}
      BY <2>1
    <3> QED BY <3>1
  <2>10. <<i, r, 1>> \in KeySet /\ <<i, r, 2>> \in KeySet
    BY <1>0, <2>1, <2>5 DEF KeySet
  <2>11. Shown(F) = << <<i, r, 1>>, <<i, r, 2>> >>
    <3>1. <<x>> \in Seq(NewSet) /\ <<y>> \in Seq(NewSet) /\ F = <<x>> \o <<y>>
      <4> HIDE DEF x, y
      <4>1. <<x>> \in Seq(NewSet) /\ <<y>> \in Seq(NewSet)
        BY <2>6, <2>7
      <4>2. <<x>> \o <<y>> = <<x, y>>
        BY <2>6, <2>7, TwoIs
      <4> QED BY <2>4, <4>1, <4>2
    <3> HIDE DEF x, y, F, p, q, K
    <3>2. Shown(F) = K(1) \o K(2)
      BY <2>6, <2>7, <3>1, ShownIs
    <3> DEFINE e == <<i, r, 1>>  f == <<i, r, 2>>
    <3>3. K(1) = <<e>> /\ K(2) = <<f>>
      BY <2>9
    <3>4. e \in KeySet /\ f \in KeySet
      BY <2>10
    <3> HIDE DEF e, f
    <3>5. <<e>> \o <<f>> = <<e, f>>
      BY <3>4, TwoIs
    <3> QED BY <3>2, <3>3, <3>5 DEF e, f
  <2>12. Sound(Shown(F))
    <3> DEFINE k1 == <<i, r, 1>>  k2 == <<i, r, 2>>  keys == <<k1, k2>>
    <3>1. k1[1] = i /\ k1[2] = r /\ k2[3] = 2 /\ k2 = <<i, r, 2>>
      OBVIOUS
    <3> HIDE DEF k1, k2
    <3>2. Len(keys) = 2 /\ keys[1] = k1 /\ keys[2] = k2 /\ 1 + 1 = 2
      BY <2>10 DEF k1, k2
    <3> HIDE DEF keys
    <3>3. ASSUME NEW k \in 1..Len(keys), keys[k][3] = 1
          PROVE  k < Len(keys) /\ keys[k + 1] = <<keys[k][1], keys[k][2], 2>>
      <4>1. k = 1 \/ k = 2
        BY <3>2
      <4>2. k = 1
        BY <3>1, <3>2, <3>3, <4>1
      <4> QED BY <3>1, <3>2, <4>2, SMTT(30)
    <3>4. Sound(keys)
      BY <3>3 DEF Sound
    <3> QED BY <2>11, <3>4 DEF keys, k1, k2
  <2>13. Splits!Starts(Shown(F)) = RowStarts(i, rows)
    <3> DEFINE e == <<i, r, 1>>  f == <<i, r, 2>>  s == << <<i, r>> >>
    <3>0. Splits!Start(e) = s /\ Splits!Start(f) = <<>>
      BY DEF Splits!Start
    <3>1. e \in KeySet /\ f \in KeySet /\ Shown(F) = <<e, f>>
      BY <2>10, <2>11
    <3>2. s \in Seq(StartSet)
      BY <1>0, <2>1 DEF StartSet
    <3>3. s = RowStarts(i, rows)
      <4>1. Len(rows) = 1 /\ rows[1] = r
        BY <2>1
      <4> QED BY <4>1 DEF RowStarts
    <3> HIDE DEF e, f, s, F
    <3>4. <<e>> \o <<f>> = <<e, f>> /\ <<e>> \in Seq(KeySet) /\ <<f>> \in Seq(KeySet)
      BY <3>1, TwoIs
    <3>5. Splits!Starts(<<e>> \o <<f>>) = s \o <<>>
      BY <3>0, <3>1, <3>4, StartsAre
    <3>6. s \o <<>> = s
      BY <3>2
    <3> QED BY <3>1, <3>3, <3>4, <3>5, <3>6
  <2>14. Chained(LinkSet(chunk), F)
    <3>1. chunk[i].label + Splits!Repeated(held) + Splits!RowsSize(i, <<r>>) > Maximum
      BY <1>2, <2>1
    <3>2. p.item = i /\ p.rows = <<r>> /\ q.item = i /\ q.rows = <<r>>
      BY <2>1
    <3>3. x.held = <<p>> /\ y.held = <<q>>
      OBVIOUS
    <3> HIDE DEF p, q, x, y, F, r
    <3>4. LinkOk(chunk, p, q)
      BY <2>1, <3>1, <3>2, SameRowLinks
    <3>5. Last(x.held) = p /\ y.held[1] = q
      BY <2>6, <2>7, <3>3 DEF Last
    <3>6. <<x, y>> \in LinkSet(chunk)
      BY <2>6, <2>7, <3>4, <3>5 DEF LinkSet
    <3>7. Len(F) = 2 /\ F[1] = x /\ F[2] = y
      BY <2>4, <2>6, <2>7
    <3>8. ASSUME NEW k \in 1..Len(F) - 1 PROVE <<F[k], F[k + 1]>> \in LinkSet(chunk)
      <4>1. k = 1 /\ k + 1 = 2
        BY <3>7
      <4> QED BY <3>6, <3>7, <4>1
    <3> QED BY <3>8 DEF Chained
  <2> HIDE DEF x, y, F, Z, large
  <2>15. F \in Seq(Z) /\ F # <<>> /\ Len(F) # 1
    BY <2>4, <2>8
  <2> QED BY <2>12, <2>13, <2>14, <2>15 DEF FragmentsOk, F, Z, large
<1> QED BY <1>1, <1>2

\* The first rows of a table are its first group, or its first row.
LEMMA FirstSizeIs ==
    ASSUME chunk \in Chunks, NEW i \in 1..Len(chunk), chunk[i].kind = "table"
    PROVE  LET l == chunk[i].label
               f == Splits!RowsSize(i, TableGroups(i)[1])
               h == Splits!RowsSize(i, <<1>>)
               many == Len(chunk[i].groups[1]) > 1
           IN  /\ l \in Nat /\ f \in Nat /\ h \in Nat /\ h <= f /\ (~many => f = h)
               /\ Splits!FirstSize(i) = IF many /\ l + f > Maximum THEN l + h ELSE l + f
<1> DEFINE gs == chunk[i].groups
           e == gs[1]
           R == RowsIn(chunk, i)
           n == TableGroups(i)[1]
           l == chunk[i].label
           f == Splits!RowsSize(i, n)
           h == Splits!RowsSize(i, <<1>>)
<1>1. gs \in Seq(Seq(Nat)) /\ gs # <<>> /\ e \in Seq(Nat) /\ Len(e) \in Nat /\ Len(e) # 0 /\ e # <<>> /\ R \in Seq(Nat) /\ l \in Nat
  <2>1. gs \in Seq(Seq(Nat)) /\ gs # <<>> /\ (\A g \in 1..Len(gs) : gs[g] # <<>>) /\ R \in Seq(Nat) /\ l \in Nat
    BY ItemsAre
  <2> HIDE DEF gs
  <2>2. Len(gs) \in Nat /\ Len(gs) # 0 /\ 1 \in 1..Len(gs)
    BY <2>1
  <2>3. e \in Seq(Nat) /\ e # <<>>
    BY <2>1, <2>2
  <2> HIDE DEF e
  <2>4. Len(e) \in Nat /\ Len(e) # 0
    BY <2>3
  <2> QED BY <2>1, <2>3, <2>4
<1>2. R \in [1..Len(R) -> Nat]
  BY WeightsAre
<1>3. \A k \in 1..Len(e) : k \in 1..Len(R) /\ R[k] = e[k]
  <2> DEFINE t == FlattenSeq(Tail(gs))
  <2>1. R = e \o t /\ e \in Seq(Nat) /\ t \in Seq(Nat)
    <3> HIDE DEF gs
    <3>1. R = FlattenSeq(gs)
      BY DEF RowsIn, gs
    <3> QED BY <1>1, <3>1, FlatFirst
  <2> DEFINE V == Nat
  <2>2. e \in Seq(V) /\ t \in Seq(V)
    BY <2>1
  <2> HIDE DEF t, e, R, V
  <2>3. Len(R) = Len(e) + Len(t) /\ Len(e) \in Nat /\ Len(t) \in Nat /\ \A k \in 1..Len(e) : R[k] = e[k]
    BY <2>1, <2>2, ConcatIs
  <2> QED BY <2>3
<1>4. n = [r \in 1..Len(e) |-> r]
  BY GroupsAre
<1> HIDE DEF R, n
<1>5. f = MapTotal(R, n) /\ h = MapTotal(R, <<1>>)
  BY SizesAre DEF R
<1>6. 1 \in 1..Len(e) /\ 1 \in 1..Len(R) /\ n \in Seq(1..Len(R)) /\ Len(n) = Len(e)
  BY <1>1, <1>3, <1>4
<1>7. MapTotal(R, n) = Splits!Total(e)
  <2>1. [k \in DOMAIN n |-> R[n[k]]] = e
    <3> HIDE DEF e
    <3>1. DOMAIN n = 1..Len(e) /\ \A k \in 1..Len(e) : R[n[k]] = e[k]
      BY <1>3, <1>4
    <3>2. e = [k \in 1..Len(e) |-> e[k]]
      BY <1>1
    <3> QED BY <3>1, <3>2
  <2> QED BY <2>1 DEF MapTotal
<1>8. h = R[1] /\ R[1] \in Nat /\ R[1] = e[1]
  <2>1. MapTotal(R, <<1>>) = R[1]
    BY <1>2, <1>6, MapTotalIs
  <2> QED BY <1>2, <1>3, <1>5, <1>6, <2>1
<1>9. f \in Nat /\ h <= f
  <2>1. MapTotal(R, n) \in Nat
    BY <1>2, <1>6, MapTotalIs
  <2>2. n[1] = 1 /\ 1 \in 1..Len(n)
    BY <1>4, <1>6
  <2>3. R[n[1]] <= MapTotal(R, n)
    BY <1>2, <1>6, <2>2, MapTotalBounds
  <2> QED BY <1>5, <1>8, <2>1, <2>2, <2>3
<1>10. ~(Len(e) > 1) => f = h
  <2>1. ASSUME ~(Len(e) > 1) PROVE n = <<1>>
    <3>1. Len(e) = 1
      <4> DEFINE v == Len(e)
      <4>1. v \in Nat /\ v # 0 /\ ~(v > 1)
        BY <1>1, <2>1
      <4> HIDE DEF v
      <4>2. v = 1
        BY <4>1
      <4> QED BY <4>2 DEF v
    <3> QED BY <1>4, <3>1
  <2> QED BY <1>5, <2>1
<1>11. Head(gs) = e /\ Head(e) = e[1]
  <2>1. Head(gs) = e
    BY <1>1
  <2> HIDE DEF e
  <2>2. Head(e) = e[1]
    BY <1>1
  <2> QED BY <2>1, <2>2
<1>12. Splits!FirstSize(i) = IF Len(e) > 1 /\ l + f > Maximum THEN l + h ELSE l + f
  <2>1. Splits!FirstSize(i) = IF Len(e) > 1 /\ l + Splits!Total(e) > Maximum THEN l + Head(e) ELSE l + Splits!Total(e)
    <3>1. Head(chunk[i].groups) = e
      BY <1>11
    <3> HIDE DEF e
    <3> QED BY <3>1 DEF Splits!FirstSize, l
  <2>2. Splits!Total(e) = f /\ Head(e) = h
    BY <1>5, <1>7, <1>8, <1>11
  <2> HIDE DEF f, h, l, e
  <2> QED BY <2>1, <2>2
<1> HIDE DEF f, h
<1> QED BY <1>1, <1>8, <1>9, <1>10, <1>12 DEF f, h, n

\* The evidence that is repeated or goes ahead, beside the first rows.
FitsBeside(i, held) ==
    held = <<>> \/ Splits!FirstSize(i) > Maximum \/ Splits!Prefix(held) + Splits!FirstSize(i) <= Maximum

\* A split that is too large is one row, which is too large also with only
\* the repeated texts, and for the first piece without anything.
LEMMA SplitFits ==
    ASSUME chunk \in Chunks, NEW i \in 1..Len(chunk), chunk[i].kind = "table",
           NEW held \in Seq(1..Len(chunk)), FitsBeside(i, held),
           NEW k \in 1..Len(Splits!RowSplits(i, held))
    PROVE  LET rows == Splits!RowSplits(i, held)[k]
           IN  /\ rows \in Seq(Nat) /\ rows # <<>> /\ ToSet(rows) \subseteq 1..Len(RowsIn(chunk, i))
               /\ TooLarge(i, held, rows, k = 1) =>
                      /\ Len(rows) = 1
                      /\ chunk[i].label + Splits!Repeated(held) + Splits!RowsSize(i, rows) > Maximum
                      /\ k = 1 /\ held # <<>> => chunk[i].label + Splits!RowsSize(i, rows) > Maximum
<1> DEFINE S == Splits!RowSplits(i, held)
           rows == S[k]
           N == TableGroups(i)
           Br == BrokenOnes(i, held)
           B == FlattenSeq(Broken(N, Br))
           l == chunk[i].label
           rep == Splits!Repeated(held)
           pre == Splits!Prefix(held)
           z == Splits!RowsSize(i, rows)
           f == Splits!RowsSize(i, N[1])
           h == Splits!RowsSize(i, <<1>>)
           many == Len(chunk[i].groups[1]) > 1
           fs == Splits!FirstSize(i)
<1>1. /\ FlattenSeq(S) = TableRowNumbers(i) /\ S \in Seq(TogetherSet(N, Br)) /\ S \in Seq(Seq(Nat))
      /\ Collects(i, held, PartsOf(N, Br), B, S) /\ B[1] = IF 1 \in Br THEN <<1>> ELSE N[1]
  BY SplitsAre
<1>2. rows \in Seq(Nat) /\ rows # <<>>
  <2> DEFINE Y == TogetherSet(N, Br)
  <2>1. \A y \in Y : y \in Seq(Nat) /\ y # <<>>
    BY DEF TogetherSet
  <2>2. S \in Seq(Y)
    BY <1>1
  <2> HIDE DEF Y, S
  <2>3. S[k] \in Y
    BY <2>2 DEF S
  <2> QED BY <2>1, <2>3
<1>3. ToSet(rows) \subseteq 1..Len(RowsIn(chunk, i))
  <2>1. ToSet(S[k]) \subseteq ToSet(FlattenSeq(S))
    <3> HIDE DEF S
    <3> QED BY <1>1, GroupWithin DEF S
  <2>2. ToSet(TableRowNumbers(i)) \subseteq 1..Len(RowsIn(chunk, i))
    <3>1. Len(RowsIn(chunk, i)) \in Nat
      BY ItemsAre
    <3> QED BY <3>1 DEF ToSet, TableRowNumbers
  <2> HIDE DEF S
  <2> QED BY <1>1, <2>1, <2>2
<1>4. l \in Nat /\ rep \in Nat /\ pre \in Nat /\ z \in Nat /\ rep <= pre /\ (held = <<>> => pre = 0)
  <2>1. Weights(chunk) \in [1..Len(chunk) -> Nat] /\ TextWeights(chunk) \in [1..Len(chunk) -> Nat]
        /\ RowsIn(chunk, i) \in [1..Len(RowsIn(chunk, i)) -> Nat]
        /\ \A j \in 1..Len(chunk) : TextWeights(chunk)[j] <= Weights(chunk)[j]
    BY WeightsAre
  <2>2. pre = MapTotal(Weights(chunk), held) /\ rep = MapTotal(TextWeights(chunk), held)
        /\ z = MapTotal(RowsIn(chunk, i), rows)
    BY SizesAre
  <2> DEFINE A == 1..Len(chunk)  D == 1..Len(RowsIn(chunk, i))  m == Weights(chunk)  t == TextWeights(chunk)
             R == RowsIn(chunk, i)
  <2>3. held \in Seq(A) /\ m \in [A -> Nat] /\ t \in [A -> Nat] /\ (\A a \in A : t[a] <= m[a]) /\ R \in [D -> Nat]
    BY <2>1
  <2>4. rows \in Seq(D)
    <3> HIDE DEF rows, D
    <3> QED BY <1>2, <1>3, ElementsIn DEF D
  <2> HIDE DEF A, D, m, t, R, rows
  <2>5. MapTotal(m, held) \in Nat /\ MapTotal(t, held) \in Nat /\ MapTotal(R, rows) \in Nat /\ MapTotal(m, <<>>) = 0
    <3>1. MapTotal(m, held) \in Nat /\ MapTotal(m, <<>>) = 0
      BY <2>3, MapTotalIs
    <3>2. MapTotal(t, held) \in Nat
      BY <2>3, MapTotalIs
    <3>3. MapTotal(R, rows) \in Nat
      BY <2>3, <2>4, MapTotalIs
    <3> QED BY <3>1, <3>2, <3>3
  <2>6. MapTotal(t, held) <= MapTotal(m, held)
    BY <2>3, MapTotalLess
  <2>7. l \in Nat
    BY ItemsAre
  <2> QED BY <2>2, <2>5, <2>6, <2>7 DEF m, t, R
<1>5. Maximum \in Nat /\ Target \in Nat /\ Target <= Maximum
  BY SplittingAssumption DEF Splits!BudgetAssumption
<1>6. f \in Nat /\ h \in Nat /\ h <= f /\ (~many => f = h) /\ fs = IF many /\ l + f > Maximum THEN l + h ELSE l + f
  BY FirstSizeIs
<1>7. Splits!Overhead(i, held, k = 1) = l + (IF k = 1 THEN pre ELSE rep)
  BY DEF Splits!Overhead
<1>8. held = <<>> \/ fs > Maximum \/ pre + fs <= Maximum
  BY DEF FitsBeside
<1>9. \A g \in Nat : g \in Br <=> l + rep + Splits!RowsSize(i, N[g]) > Maximum
  BY DEF BrokenOnes
<1>10. ASSUME TooLarge(i, held, rows, k = 1)
       PROVE  Len(rows) = 1 /\ l + rep + z > Maximum /\ (k = 1 /\ held # <<>> => l + z > Maximum)
  <2>1. l + (IF k = 1 THEN pre ELSE rep) + z > Maximum
    BY <1>7, <1>10 DEF TooLarge
  <2>2. rows \in PartsOf(N, Br) /\ (k = 1 => rows = B[1])
    <3>1. \/ S[k] \in PartsOf(N, Br) /\ (k = 1 => S[1] = B[1])
          \/ ~(Splits!Overhead(i, held, k = 1) + Splits!RowsSize(i, S[k]) > Target)
      <4> HIDE DEF S
      <4> QED BY <1>1 DEF Collects, S
    <3>2. Splits!Overhead(i, held, k = 1) + z > Target
      <4> HIDE DEF z, pre, rep, l
      <4> QED BY <1>4, <1>5, <1>7, <2>1
    <3> HIDE DEF S
    <3> QED BY <3>1, <3>2
  <2>3. PICK g \in 1..Len(N) : ToSet(rows) \subseteq ToSet(N[g]) /\ IF g \in Br THEN Len(rows) = 1 ELSE rows = N[g]
    <3> HIDE DEF rows, N, Br
    <3> QED BY <2>2 DEF PartsOf
  <2>4. g \in Nat
    OBVIOUS
  <2>5. CASE k # 1
    <3>1. l + rep + z > Maximum
      BY <2>1, <2>5
    <3>2. g \in Br
      <4>1. g \notin Br => z = Splits!RowsSize(i, N[g])
        BY <2>3
      <4> HIDE DEF rows, N, Br, z, l, rep
      <4> QED BY <1>9, <2>4, <3>1, <4>1
    <3> HIDE DEF rows, z, l, rep, Br
    <3> QED BY <2>3, <2>5, <3>1, <3>2
  <2>6. CASE k = 1 /\ 1 \notin Br
    <3>1. z = f
      BY <1>1, <2>2, <2>6
    <3>2. ~(l + rep + f > Maximum)
      BY <1>9, <2>6
    <3>3. l + pre + z > Maximum
      BY <2>1, <2>6
    <3> HIDE DEF z, f, h, l, rep, pre, fs, many
    <3>4. FALSE
      BY <1>4, <1>5, <1>6, <1>8, <3>1, <3>2, <3>3
    <3> QED BY <3>4
  <2>7. CASE k = 1 /\ 1 \in Br
    <3>1. rows = <<1>>
      BY <1>1, <2>2, <2>7
    <3>2. z = h /\ Len(rows) = 1
      <4> HIDE DEF rows
      <4>1. Len(rows) = 1
        BY <3>1
      <4> QED BY <3>1, <4>1
    <3>3. l + pre + z > Maximum
      BY <2>1, <2>7
    <3> HIDE DEF z, f, h, l, rep, pre, fs, many, rows
    <3>4. l + rep + z > Maximum /\ (held # <<>> => l + z > Maximum)
      <4>1. fs \in Nat /\ l + h <= fs /\ (fs > Maximum => l + h > Maximum)
        <5>1. CASE many /\ l + f > Maximum
          BY <1>4, <1>5, <1>6, <5>1
        <5>2. CASE ~(many /\ l + f > Maximum)
          BY <1>4, <1>5, <1>6, <5>2
        <5> QED BY <5>1, <5>2
      <4>2. CASE held = <<>>
        BY <1>4, <1>5, <3>3, <4>2
      <4>3. CASE fs > Maximum
        BY <1>4, <1>5, <1>6, <3>2, <4>1, <4>3
      <4>4. CASE pre + fs <= Maximum
        BY <1>4, <1>5, <1>6, <3>2, <3>3, <4>1, <4>4
      <4> QED BY <1>8, <4>2, <4>3, <4>4
    <3> QED BY <3>2, <3>4
  <2> QED BY <2>5, <2>6, <2>7
<1> QED BY <1>2, <1>3, <1>10

\* The starts of all splits are those of their rows.
LEMMA StartsOfParts ==
    ASSUME NEW i \in Nat, NEW FF \in Seq(Seq(NewSet)), NEW SS \in Seq(Seq(Nat)), Len(FF) = Len(SS),
           \A k \in 1..Len(FF) : Sound(Shown(FF[k])) /\ Splits!Starts(Shown(FF[k])) = RowStarts(i, SS[k])
    PROVE  Sound(Shown(FlattenSeq(FF))) /\ Splits!Starts(Shown(FlattenSeq(FF))) = RowStarts(i, FlattenSeq(SS))
<1> DEFINE A == Seq(NewSet)
           V == Nat
           Z == {z \in A \X Seq(V) : Sound(Shown(z[1])) /\ Splits!Starts(Shown(z[1])) = RowStarts(i, z[2])}
           m == [z \in Z |-> z[1]]
           l == [z \in Z |-> z[2]]
           Good(f, s) == Sound(Shown(f)) /\ Splits!Starts(Shown(f)) = RowStarts(i, s)
           T == {u \in Seq(Z) : Good(MapFlat(m, u), MapFlat(l, u))}
           zz == [k \in 1..Len(FF) |-> <<FF[k], SS[k]>>]
<1>1. m \in SequenceMaps(Z, NewSet) /\ l \in SequenceMaps(Z, V)
  BY DEF SequenceMaps
<1>2. \A z \in Z : m[z] = z[1] /\ l[z] = z[2] /\ z[1] \in A /\ z[2] \in Seq(V) /\ Good(z[1], z[2])
  OBVIOUS
<1>3. /\ Len(FF) \in Nat /\ DOMAIN FF = 1..Len(FF) /\ DOMAIN SS = 1..Len(FF)
      /\ \A k \in 1..Len(FF) : FF[k] \in A /\ SS[k] \in Seq(V)
  OBVIOUS
<1>4. \A k \in 1..Len(FF) : <<FF[k], SS[k]>> \in Z
  BY <1>3
<1> HIDE DEF A, Z, V, Good
<1>5. zz \in Seq(Z) /\ DOMAIN zz = 1..Len(FF)
  BY <1>3, <1>4
<1>6. (\A k \in 1..Len(FF) : m[zz[k]] = FF[k] /\ l[zz[k]] = SS[k]) /\ FF = [k \in 1..Len(FF) |-> FF[k]] /\ SS = [k \in 1..Len(FF) |-> SS[k]]
  BY <1>3, <1>4
<1> HIDE DEF m, l
<1>7. /\ MapFlat(m, <<>>) = <<>> /\ MapFlat(l, <<>>) = <<>>
      /\ \A u \in Seq(Z) : MapFlat(m, u) \in Seq(NewSet) /\ MapFlat(l, u) \in Seq(V)
      /\ \A u \in Seq(Z), z \in Z : MapFlat(m, Append(u, z)) = MapFlat(m, u) \o m[z]
                                    /\ MapFlat(l, Append(u, z)) = MapFlat(l, u) \o l[z]
  <2>1. /\ MapFlat(m, <<>>) = <<>> /\ (\A u \in Seq(Z) : MapFlat(m, u) \in Seq(NewSet))
        /\ \A u \in Seq(Z), z \in Z : MapFlat(m, Append(u, z)) = MapFlat(m, u) \o m[z]
    BY <1>1, MapFlatAppends
  <2>2. /\ MapFlat(l, <<>>) = <<>> /\ (\A u \in Seq(Z) : MapFlat(l, u) \in Seq(V))
        /\ \A u \in Seq(Z), z \in Z : MapFlat(l, Append(u, z)) = MapFlat(l, u) \o l[z]
    BY <1>1, MapFlatAppends
  <2> QED BY <2>1, <2>2
<1>8. <<>> \in T
  <2>1. Shown(<<>>) = <<>> /\ Splits!Starts(<<>>) = <<>> /\ Sound(<<>>)
    BY ShownIs, StartsAre DEF Sound
  <2>2. RowStarts(i, <<>>) = <<>>
    BY DEF RowStarts
  <2>3. Good(<<>>, <<>>)
    BY <2>1, <2>2 DEF Good
  <2> QED BY <1>7, <2>3
<1>9. ASSUME NEW u \in Seq(Z), u \in T, NEW z \in Z PROVE Append(u, z) \in T
  <2> DEFINE a == MapFlat(m, u)  b == MapFlat(l, u)  c == m[z]  d == l[z]
  <2>1. a \in Seq(NewSet) /\ b \in Seq(Nat) /\ c \in Seq(NewSet) /\ d \in Seq(Nat) /\ Good(a, b) /\ Good(c, d)
    BY <1>2, <1>7, <1>9 DEF A, V
  <2>2. MapFlat(m, Append(u, z)) = a \o c /\ MapFlat(l, Append(u, z)) = b \o d
    BY <1>7
  <2>3. Append(u, z) \in Seq(Z)
    BY AppendIs
  <2> HIDE DEF a, b, c, d
  <2>4. Shown(a \o c) = Shown(a) \o Shown(c) /\ Shown(a) \in Seq(KeySet) /\ Shown(c) \in Seq(KeySet)
    BY <2>1, ShownIs
  <2>5. Sound(Shown(a \o c))
    BY <2>1, <2>4, SoundConcat DEF Good
  <2>6. Splits!Starts(Shown(a \o c)) = Splits!Starts(Shown(a)) \o Splits!Starts(Shown(c))
    BY <2>4, StartsAre
  <2>7. RowStarts(i, b \o d) = RowStarts(i, b) \o RowStarts(i, d)
    BY <2>1, RowStartsConcat
  <2>8. Good(a \o c, b \o d)
    BY <2>1, <2>5, <2>6, <2>7 DEF Good
  <2> QED BY <2>2, <2>3, <2>8
<1>10. Seq(Z) \subseteq T
  <2> HIDE DEF T
  <2> QED BY <1>8, <1>9, SequenceInduction
<1>11. MapFlat(m, zz) = FlattenSeq(FF) /\ MapFlat(l, zz) = FlattenSeq(SS)
  <2>1. [k \in DOMAIN zz |-> m[zz[k]]] = FF /\ [k \in DOMAIN zz |-> l[zz[k]]] = SS
    <3> HIDE DEF zz
    <3> QED BY <1>5, <1>6
  <2> HIDE DEF zz
  <2> QED BY <2>1 DEF MapFlat
<1>12. zz \in T
  BY <1>5, <1>10
<1> HIDE DEF zz
<1> QED BY <1>11, <1>12 DEF Good

\* The texts repeated over the pieces of a table are among those before it.
LEMMA TextsBefore ==
    ASSUME NEW c \in Chunks, NEW i \in 1..Len(c), NEW m \in 1..i
    PROVE  /\ MapTotal(TextWeights(c), Upto(m, i - 1)) <= MapTotal(TextWeights(c), Upto(1, i - 1))
           /\ MapTotal(TextWeights(c), Upto(m, i - 1)) \in Nat /\ MapTotal(TextWeights(c), Upto(1, i - 1)) \in Nat
           /\ Upto(m, i - 1) \in Seq(1..Len(c))
<1> DEFINE A == 1..Len(c)  t == TextWeights(c)
           u == Upto(1, m - 1)  v == Upto(m, i - 1)  w == Upto(1, i - 1)
<1>1. Len(c) \in Nat /\ m \in Nat /\ i \in Nat /\ 1 <= m /\ m <= i /\ i <= Len(c)
  BY ItemsAre
<1>2. u \in Seq(A) /\ v \in Seq(A) /\ w \in Seq(A)
  <2>1. 1 \in 1..Len(c) + 1 /\ m \in 1..Len(c) + 1 /\ i \in 1..Len(c) + 1
        /\ i \in m..Len(c) + 1 /\ Len(c) + 1 \in m..Len(c) + 1 /\ Len(c) + 1 \in i..Len(c) + 1
    BY <1>1
  <2>2. u \in Seq(A)
    BY <2>1, StartsJoin
  <2>3. v \in Seq(A)
    BY <2>1, StartsJoin
  <2>4. w \in Seq(A)
    BY <2>1, StartsJoin
  <2> QED BY <2>2, <2>3, <2>4
<1>3. w = u \o v
  <2>1. m - 1 \in Int /\ i - 1 \in Int /\ m - 1 >= 1 - 1 /\ i - 1 >= m - 1 /\ (m - 1) + 1 = m /\ 1 \in Nat
    BY <1>1
  <2>2. Upto(1, m - 1) \o Upto((m - 1) + 1, i - 1) = Upto(1, i - 1)
    BY <2>1, UptoJoins
  <2> QED BY <2>1, <2>2
<1>4. t \in [A -> Nat]
  BY WeightsAre
<1> HIDE DEF A, t, u, v, w
<1>5. MapTotal(t, w) = MapTotal(t, u) + MapTotal(t, v) /\ MapTotal(t, u) \in Nat /\ MapTotal(t, v) \in Nat
  BY <1>2, <1>3, <1>4, MapTotalIs
<1>6. MapTotal(t, v) <= MapTotal(t, w) /\ MapTotal(t, w) \in Nat
  BY <1>5
<1> QED BY <1>2, <1>5, <1>6 DEF A, t, v, w

\* Between two splits, no group that fits is cut.
LEMMA NextSplitLinks ==
    ASSUME chunk \in Chunks, NEW i \in 1..Len(chunk), chunk[i].kind = "table",
           NEW held \in Seq(1..Len(chunk)),
           MapTotal(TextWeights(chunk), held) <= MapTotal(TextWeights(chunk), Upto(1, i - 1)),
           NEW k \in 1..Len(Splits!RowSplits(i, held)) - 1,
           NEW p, p.item = i, p.rows = Splits!RowSplits(i, held)[k],
           NEW q, q.item = i, q.rows = Splits!RowSplits(i, held)[k + 1]
    PROVE  LinkOk(chunk, p, q)
<1> DEFINE S == Splits!RowSplits(i, held)
           N == TableGroups(i)
           Br == BrokenOnes(i, held)
           R == RowsIn(chunk, i)
           a == MapTotal(TextWeights(chunk), held)
           b == MapTotal(TextWeights(chunk), Upto(1, i - 1))
           l == chunk[i].label
           x == S[k]
           y == S[k + 1]
<1>1. S \in Seq(TogetherSet(N, Br)) /\ S \in Seq(Seq(Nat)) /\ Apart(S)
  BY SplitsAre
<1>2. Len(S) \in Nat /\ k \in 1..Len(S) /\ k + 1 \in 1..Len(S) /\ k # k + 1
  <2> HIDE DEF S
  <2>1. Len(S) \in Nat /\ k \in 1..Len(S) - 1
    BY <1>1 DEF S
  <2> QED BY <2>1
<1>3. x \in TogetherSet(N, Br) /\ y \in TogetherSet(N, Br)
  <2> DEFINE Y == TogetherSet(N, Br)
  <2> HIDE DEF S, Y
  <2>1. S[k] \in Y /\ S[k + 1] \in Y
    BY <1>1, <1>2, SMTT(30) DEF Y
  <2> QED BY <2>1 DEF Y
<1>4. ToSet(x) \cap ToSet(y) = {}
  <2> HIDE DEF S
  <2> QED BY <1>1, <1>2, ApartSets
<1> HIDE DEF x, y, S
<1>5. x \in Seq(Nat) /\ x # <<>> /\ Uncut(N, Br, x) /\ y \in Seq(Nat) /\ y # <<>>
  <2> HIDE DEF N, Br
  <2> QED BY <1>3 DEF TogetherSet
<1>6. Last(x) \in ToSet(x) /\ y[1] \in ToSet(y)
  <2>1. Len(x) \in Nat /\ Len(x) # 0 /\ Len(y) \in Nat /\ Len(y) # 0
    BY <1>5, SMTT(30)
  <2>2. Len(x) \in 1..Len(x) /\ 1 \in 1..Len(y) /\ Last(x) = x[Len(x)]
    BY <2>1 DEF Last
  <2> QED BY <1>5, <2>2, ElementsIn
<1>7. Splits!Repeated(held) = a /\ \A rows : Splits!RowsSize(i, rows) = MapTotal(R, rows)
  BY SizesAre
<1>8. a \in Nat /\ b \in Nat /\ a <= b /\ l \in Nat /\ Maximum \in Nat
  <2>1. i \in 1..i /\ 1 \in 1..i
    BY ItemsAre
  <2>2. b \in Nat
    BY <2>1, TextsBefore
  <2>3. a \in Nat
    BY WeightsAre, MapTotalIs
  <2> QED BY <2>2, <2>3, ItemsAre, SplittingAssumption DEF Splits!BudgetAssumption
<1>9. ASSUME NEW g \in 1..Len(N), {Last(x), y[1]} \subseteq ToSet(N[g]) PROVE l + b + MapTotal(R, N[g]) > Maximum
  <2>1. g \in Br
    <3>1. ASSUME g \notin Br PROVE FALSE
      <4>1. ToSet(N[g]) \cap ToSet(x) = {} \/ ToSet(N[g]) \subseteq ToSet(x)
        <5> HIDE DEF N, Br
        <5> QED BY <1>5, <3>1 DEF Uncut
      <4> QED BY <1>4, <1>6, <1>9, <4>1
    <3> QED BY <3>1
  <2>2. l + Splits!Repeated(held) + Splits!RowsSize(i, N[g]) > Maximum
    <3> HIDE DEF N, l
    <3> QED BY <2>1 DEF BrokenOnes, N, l
  <2> DEFINE t == MapTotal(R, N[g])
  <2>3. t \in Nat
    <3>1. N \in Seq(Seq(Nat)) /\ FlattenSeq(N) = TableRowNumbers(i) /\ N[g] \in Seq(Nat)
      BY GroupsAre
    <3>2. ToSet(N[g]) \subseteq ToSet(FlattenSeq(N))
      <4> HIDE DEF N
      <4> QED BY <3>1, GroupWithin
    <3>3. ToSet(TableRowNumbers(i)) \subseteq 1..Len(R)
      <4>1. Len(R) \in Nat
        BY ItemsAre
      <4> QED BY <4>1 DEF ToSet, TableRowNumbers
    <3>4. R \in [1..Len(R) -> Nat]
      BY WeightsAre
    <3> DEFINE s == N[g]  B == 1..Len(R)
    <3>5. s \in Seq(Nat) /\ ToSet(s) \subseteq B /\ R \in [B -> Nat]
      BY <3>1, <3>2, <3>3, <3>4
    <3> HIDE DEF s, B, R
    <3>6. s \in Seq(B)
      BY <3>5, ElementsIn
    <3>7. MapTotal(R, s) \in Nat
      BY <3>5, <3>6, MapTotalIs
    <3> QED BY <3>7 DEF s
  <2>4. l + a + t > Maximum
    BY <1>7, <2>2
  <2> HIDE DEF t, l, a, b
  <2>5. l + b + t > Maximum
    BY <1>8, <2>3, <2>4, SMTT(30)
  <2> QED BY <2>5 DEF t
<1>10. p.rows = x /\ q.rows = y
  BY DEF x, y, S
<1> HIDE DEF b, l, R
<1> QED BY <1>9, <1>10 DEF LinkOk, TableGroups, b, l, R

\* What every piece of a table is.
LEMMA RowPiecesAre ==
    ASSUME chunk \in Chunks, NEW i \in 1..Len(chunk), chunk[i].kind = "table",
           NEW rows, NEW isOver, isOver => Len(rows) = 1, NEW x \in RowPieces(i, rows, isOver)
    PROVE  /\ x \in ModestSet(chunk) /\ x \in ChunkSet(chunk, i, i + 1) /\ x \in NewSet
           /\ Last(x.held) = x.held[1] /\ x.held # <<>> /\ Len(x.held) = 1
           /\ x.held[1].item = i /\ x.held[1].rows = rows
<1>1. /\ x \in ChunkSet(chunk, i, i + 1) /\ Len(x.held) = 1 /\ x.held[1].rows = rows /\ x.held[1].item = i
      /\ x.over => isOver
  BY DEF RowPieces
<1>2. x \in NewSet
  <2>1. i \in Nat /\ i + 1 \in Nat /\ i <= i /\ i + 1 <= i + 1
    BY ItemsAre
  <2>2. ChunkSet(chunk, i, i + 1) \subseteq NewSet
    BY <2>1, ChunksAreNew
  <2> QED BY <1>1, <2>2
<1>3. Last(x.held) = x.held[1] /\ x.held # <<>>
  BY <1>1, <1>2 DEF Last, NewSet
<1>4. x.over => Alone(chunk, x)
  BY <1>1, <1>3 DEF Alone
<1> QED BY <1>1, <1>2, <1>3, <1>4 DEF ModestSet

\* The pieces of a table show it and are linked; if there is only one, the
\* table may wait.
LEMMA PiecesRight ==
    ASSUME chunk \in Chunks, NEW i \in 1..Len(chunk), chunk[i].kind = "table",
           NEW m \in 1..i, FitsBeside(i, Upto(m, i - 1))
    PROVE  LET held == Upto(m, i - 1)
               P == Splits!TablePieces(i, held)
               x == P[1]
           IN  /\ P \in Seq(ModestSet(chunk)) /\ P # <<>> /\ Placed(chunk, P, i, i + 1)
               /\ x \in ChunkSet(chunk, i, i + 1) /\ Len(x.held) = 1 /\ x.held # <<>>
               /\ Last(x.held) = x.held[1] /\ x.held[1].item = i
               /\ x.over => /\ Len(x.held[1].rows) = 1
                            /\ held # <<>> => chunk[i].label + MapTotal(RowsIn(chunk, i), x.held[1].rows) > Maximum
               /\ Len(P) = 1 => i \in LooseSet(chunk)
<1> DEFINE held == Upto(m, i - 1)
           S == Splits!RowSplits(i, held)
           FF == [k \in DOMAIN S |-> Splits!Fragments(i, held, S[k], k = 1)]
           P == Splits!TablePieces(i, held)
           Large(k) == TooLarge(i, held, S[k], k = 1)
           C == ChunkSet(chunk, i, i + 1)
           M == ModestSet(chunk)
           R == RowsIn(chunk, i)
<1>0. i \in Nat /\ i + 1 \in Nat /\ Len(R) \in Nat /\ R \in Seq(Nat)
  BY ItemsAre
<1>1. held \in Seq(1..Len(chunk)) /\ MapTotal(TextWeights(chunk), held) <= MapTotal(TextWeights(chunk), Upto(1, i - 1))
  BY TextsBefore
<1>2. FlattenSeq(S) = TableRowNumbers(i) /\ S \in Seq(Seq(Nat)) /\ S # <<>>
  BY SplitsAre
<1>3. P = FlattenSeq(FF)
  BY SplitOperators DEF Splits!TablePieces
<1> HIDE DEF held
<1>4. ASSUME NEW k \in 1..Len(S)
      PROVE  /\ FragmentsOk(i, held, S[k], k = 1, FF[k]) /\ S[k] \in Seq(Nat)
             /\ Large(k) => Len(S[k]) = 1
             /\ Large(k) /\ k = 1 /\ held # <<>> => chunk[i].label + Splits!RowsSize(i, S[k]) > Maximum
  <2> DEFINE rows == S[k]  first == k = 1
  <2>1. FitsBeside(i, held)
    BY DEF held
  <2>2. /\ rows \in Seq(Nat) /\ rows # <<>> /\ ToSet(rows) \subseteq 1..Len(R)
        /\ Large(k) => /\ Len(rows) = 1
                       /\ chunk[i].label + Splits!Repeated(held) + Splits!RowsSize(i, rows) > Maximum
                       /\ k = 1 /\ held # <<>> => chunk[i].label + Splits!RowsSize(i, rows) > Maximum
    BY <1>1, <2>1, SplitFits
  <2>3. FF[k] = Splits!Fragments(i, held, rows, first)
    BY <1>2
  <2>4. TooLarge(i, held, rows, first) = Large(k)
    OBVIOUS
  <2>5. first \in BOOLEAN
    OBVIOUS
  <2> HIDE DEF rows, first, FF, Large, R
  <2>6. FragmentsOk(i, held, rows, first, Splits!Fragments(i, held, rows, first))
    BY <1>1, <2>2, <2>4, <2>5, SplitPiecesRight DEF R
  <2> QED BY <2>2, <2>3, <2>6 DEF rows, first
<1>5. Len(S) \in Nat /\ DOMAIN S = 1..Len(S) /\ 1 \in 1..Len(S) /\ DOMAIN FF = 1..Len(S)
  <2>1. Len(S) \in Nat /\ DOMAIN S = 1..Len(S) /\ 1 \in 1..Len(S)
    <3> HIDE DEF S
    <3>1. Len(S) # 0
      BY <1>2
    <3> QED BY <1>2, <3>1
  <2> QED BY <2>1
<1> HIDE DEF FF, S, P
<1>6. ASSUME NEW k \in 1..Len(S)
      PROVE  /\ FF[k] \in Seq(RowPieces(i, S[k], Large(k))) /\ FF[k] # <<>> /\ Chained(LinkSet(chunk), FF[k])
             /\ Sound(Shown(FF[k])) /\ Splits!Starts(Shown(FF[k])) = RowStarts(i, S[k])
  <2> HIDE DEF Large
  <2> QED BY <1>4 DEF FragmentsOk, Large
<1>7. ASSUME NEW k \in 1..Len(S), NEW y \in RowPieces(i, S[k], Large(k))
      PROVE  /\ y \in M /\ y \in C /\ y \in NewSet
             /\ Last(y.held) = y.held[1] /\ y.held # <<>> /\ Len(y.held) = 1
             /\ y.held[1].item = i /\ y.held[1].rows = S[k]
  <2>1. Large(k) => Len(S[k]) = 1
    BY <1>4
  <2> HIDE DEF Large
  <2> QED BY <2>1, RowPiecesAre
<1>8. ASSUME NEW k \in 1..Len(S)
      PROVE  /\ FF[k] \in Seq(M) /\ FF[k] \in Seq(C) /\ FF[k] \in Seq(NewSet)
             /\ FF[k][1] \in RowPieces(i, S[k], Large(k)) /\ Last(FF[k]) \in RowPieces(i, S[k], Large(k))
             /\ Len(FF[k]) \in Nat /\ Len(FF[k]) > 0
  <2> DEFINE X == RowPieces(i, S[k], Large(k))  f == FF[k]
  <2>1. f \in Seq(X) /\ f # <<>> /\ \A y \in X : y \in M /\ y \in C /\ y \in NewSet
    BY <1>6, <1>7
  <2> HIDE DEF X, f, M, C
  <2>2. Len(f) \in Nat /\ Len(f) # 0
    BY <2>1
  <2>3. f[1] \in X /\ Last(f) \in X
    <3>1. 1 \in 1..Len(f)
      BY <2>2
    <3> QED BY <2>1, <3>1, FrontLastIs
  <2>4. f \in Seq(M) /\ f \in Seq(C) /\ f \in Seq(NewSet)
    BY <2>1
  <2> QED BY <2>2, <2>3, <2>4 DEF X, f
<1>9. FF \in Seq(Seq(M)) /\ FF \in Seq(Seq(C)) /\ FF \in Seq(Seq(NewSet)) /\ Len(FF) = Len(S)
  <2>1. FF = [k \in 1..Len(S) |-> FF[k]]
    BY <1>5 DEF FF
  <2> HIDE DEF M, C
  <2> DEFINE X == Seq(M)  Y == Seq(C)  V == Seq(NewSet)
  <2>2. \A k \in 1..Len(S) : FF[k] \in X /\ FF[k] \in Y /\ FF[k] \in V
    BY <1>8
  <2> HIDE DEF X, Y, V
  <2>3. FF \in Seq(X) /\ FF \in Seq(Y) /\ FF \in Seq(V) /\ Len(FF) = Len(S)
    BY <1>5, <2>1, <2>2
  <2> QED BY <2>3 DEF X, Y, V
<1>10. P \in Seq(M) /\ P \in Seq(C) /\ P \in Seq(NewSet)
  <2> HIDE DEF M, C
  <2>1. P \in Seq(M)
    BY <1>3, <1>9, FlattenIn
  <2>2. P \in Seq(C)
    BY <1>3, <1>9, FlattenIn
  <2>3. P \in Seq(NewSet)
    BY <1>3, <1>9, FlattenIn
  <2> QED BY <2>1, <2>2, <2>3
<1>11. ASSUME NEW k \in 1..Len(FF) - 1 PROVE <<Last(FF[k]), FF[k + 1][1]>> \in LinkSet(chunk)
  <2>1. k \in 1..Len(S) /\ k + 1 \in 1..Len(S) /\ k \in 1..Len(S) - 1
    BY <1>5, <1>9, SMTT(30)
  <2> DEFINE y == Last(FF[k])  z == FF[k + 1][1]  j == k + 1  p == Last(y.held)  q == z.held[1]
  <2>2. y \in RowPieces(i, S[k], Large(k))
    BY <1>8, <2>1
  <2>3. z \in RowPieces(i, S[j], Large(j))
    <3>1. j \in 1..Len(S)
      BY <2>1
    <3> HIDE DEF j, Large
    <3>2. FF[j][1] \in RowPieces(i, S[j], Large(j))
      BY <1>8, <3>1
    <3> QED BY <3>2 DEF j
  <2> HIDE DEF y, z, Large
  <2>4. y \in NewSet /\ p.item = i /\ p.rows = S[k]
    BY <1>7, <2>1, <2>2
  <2>5. z \in NewSet /\ q.item = i /\ q.rows = S[j]
    <3>1. j \in 1..Len(S)
      BY <2>1
    <3> HIDE DEF j
    <3> QED BY <1>7, <2>3, <3>1
  <2> HIDE DEF p, q
  <2>6. LinkOk(chunk, p, q)
    BY <1>1, <2>1, <2>4, <2>5, NextSplitLinks DEF S
  <2>7. <<y, z>> \in LinkSet(chunk)
    BY <2>4, <2>5, <2>6 DEF LinkSet, p, q
  <2> QED BY <2>7 DEF y, z
<1>12. Chained(LinkSet(chunk), P)
  <2>1. \A k \in 1..Len(FF) : FF[k] # <<>> /\ Chained(LinkSet(chunk), FF[k])
    BY <1>6, <1>9
  <2>2. Links(LinkSet(chunk), FF)
    BY <1>11, <2>1 DEF Links
  <2> QED BY <1>3, <1>9, <2>2, FlatChained
<1>13. Sound(Shown(P)) /\ Splits!Starts(Shown(P)) = RowStarts(i, TableRowNumbers(i))
  <2>1. \A k \in 1..Len(FF) : Sound(Shown(FF[k])) /\ Splits!Starts(Shown(FF[k])) = RowStarts(i, S[k])
    BY <1>6, <1>9
  <2>2. Sound(Shown(FlattenSeq(FF))) /\ Splits!Starts(Shown(FlattenSeq(FF))) = RowStarts(i, FlattenSeq(S))
    BY <1>0, <1>2, <1>9, <2>1, StartsOfParts
  <2> QED BY <1>2, <1>3, <2>2
<1>14. ItemStarts(chunk, i, i + 1) = RowStarts(i, TableRowNumbers(i))
  <2>1. Upto(i, (i + 1) - 1) = <<i>>
    <3>1. ((i + 1) - 1) - i + 1 = 1 /\ i + 1 - 1 = i
      BY <1>0
    <3>2. Upto(i, (i + 1) - 1) = [k \in 1..1 |-> i + k - 1]
      BY <3>1 DEF Upto
    <3> QED BY <1>0, <3>2
  <2> DEFINE p == WholeOf(chunk, i)
  <2>2. WholesOf(chunk, <<i>>) = <<p>> /\ p \in PieceSet
    BY WholesAre, ItemsAre
  <2>3. Splits!KeysOf(<<p>>) = Splits!PieceKeys(p)
    BY <2>2, KeysAre
  <2> DEFINE rows == TableRowNumbers(i)
  <2>4. p.rows = rows /\ p.item = i /\ p.part = 0 /\ rows \in Seq(Nat) /\ rows # <<>>
    <3>1. DOMAIN R = 1..Len(R) /\ R # <<>> /\ Len(R) # 0
      <4>1. R # <<>>
        BY ItemsAre
      <4> HIDE DEF R
      <4> QED BY <1>0, <4>1
    <3>2. p.rows = [r \in DOMAIN R |-> r] /\ p.item = i /\ p.part = 0
      BY DEF WholeOf
    <3>3. rows = [r \in 1..Len(R) |-> r]
      BY DEF TableRowNumbers
    <3> HIDE DEF R, p, rows
    <3>4. rows \in Seq(Nat) /\ Len(rows) = Len(R)
      BY <1>0, <3>3
    <3>5. rows # <<>>
      BY <3>1, <3>4
    <3> QED BY <3>1, <3>2, <3>3, <3>4, <3>5
  <2> HIDE DEF p, rows
  <2>5. Splits!PieceKeys(p) = [k \in DOMAIN rows |-> <<i, rows[k], 0>>]
    BY <2>4 DEF Splits!PieceKeys
  <2>6. 0 \in 0..2 /\ 0 # 2
    OBVIOUS
  <2>7. Splits!Starts([k \in DOMAIN rows |-> <<i, rows[k], 0>>]) = RowStarts(i, rows)
    BY <1>0, <2>4, <2>6, RowStartsAre
  <2> QED BY <2>1, <2>2, <2>3, <2>5, <2>7 DEF ItemStarts, rows
<1>15. Placed(chunk, P, i, i + 1)
  BY <1>10, <1>12, <1>13, <1>14 DEF Placed
<1> DEFINE f == FF[1]  t == FlattenSeq(Tail(FF))
<1>16. P = f \o t /\ f \in Seq(NewSet) /\ t \in Seq(NewSet) /\ Len(f) \in Nat /\ Len(f) > 0
  <2>1. FF # <<>>
    BY <1>5, <1>9
  <2> QED BY <1>3, <1>5, <1>8, <1>9, <2>1, FlatFirst
<1>17. Len(P) = Len(f) + Len(t) /\ Len(t) \in Nat /\ P[1] = f[1] /\ P # <<>>
  <2> HIDE DEF f, t
  <2>1. Len(P) = Len(f) + Len(t) /\ Len(t) \in Nat /\ \A k \in 1..Len(f) : P[k] = f[k]
    BY <1>16, ConcatIs
  <2>2. 1 \in 1..Len(f)
    BY <1>16
  <2>3. P # <<>>
    BY <1>10, <1>16, <2>1
  <2> QED BY <2>1, <2>2, <2>3
<1>18. P[1] \in RowPieces(i, S[1], Large(1))
  BY <1>5, <1>8, <1>17
<1>19. ASSUME Len(P) = 1 PROVE i \in LooseSet(chunk)
  <2>1. P = f
    <3> HIDE DEF f, t
    <3>1. Len(t) = 0
      BY <1>16, <1>17, <1>19
    <3>2. t = <<>>
      BY <1>16, <3>1
    <3> QED BY <1>16, <3>2
  <2> DEFINE s == S[1]  rows == TableRowNumbers(i)
  <2>2. RowStarts(i, s) = RowStarts(i, rows)
    BY <1>5, <1>6, <1>13, <2>1
  <2>3. s \in Seq(Nat) /\ rows = [r \in 1..Len(R) |-> r]
    BY <1>4, <1>5 DEF TableRowNumbers
  <2> HIDE DEF s, rows, R
  <2>4. s = rows
    <3>1. Len(rows) = Len(R) /\ rows \in Seq(Nat) /\ Len(s) \in Nat
      BY <1>0, <2>3
    <3>2. DOMAIN RowStarts(i, s) = 1..Len(s) /\ DOMAIN RowStarts(i, rows) = 1..Len(rows)
      BY DEF RowStarts
    <3>3. 1..Len(s) = 1..Len(rows)
      BY <2>2, <3>2
    <3>4. Len(s) = Len(rows)
      BY <1>0, <3>1, <3>3
    <3>5. \A k \in 1..Len(s) : <<i, s[k]>> = <<i, rows[k]>>
      <4>1. \A k \in 1..Len(s) : RowStarts(i, s)[k] = <<i, s[k]>>
        BY DEF RowStarts
      <4>2. \A k \in 1..Len(rows) : RowStarts(i, rows)[k] = <<i, rows[k]>>
        BY DEF RowStarts
      <4> QED BY <2>2, <3>4, <4>1, <4>2
    <3>6. \A k \in 1..Len(s) : s[k] = rows[k]
      BY <3>5
    <3> QED BY <2>3, <3>1, <3>4, <3>6, SeqEqual
  <2>5. ASSUME Weight(chunk, i) > Maximum PROVE Len(R) = 1
    <3>1. Weight(chunk, i) = Splits!Total(R)
      BY DEF Weight, R
    <3>2. [k \in DOMAIN rows |-> R[rows[k]]] = R
      <4>1. DOMAIN rows = 1..Len(R) /\ \A k \in 1..Len(R) : rows[k] = k
        BY <2>3
      <4>2. R = [k \in 1..Len(R) |-> R[k]]
        BY <1>0
      <4> QED BY <4>1, <4>2
    <3>3. Splits!RowsSize(i, s) = Weight(chunk, i)
      <4>1. Splits!RowsSize(i, s) = MapTotal(R, s)
        BY SizesAre DEF R
      <4> QED BY <2>4, <3>1, <3>2, <4>1 DEF MapTotal
    <3> DEFINE o == Splits!Overhead(i, held, 1 = 1)  w == Weight(chunk, i)
    <3>4. o \in Nat /\ w \in Nat /\ Maximum \in Nat
      <4>1. w \in Nat
        <5>1. Splits!Total(R) \in Nat
          BY <1>0, TotalIs
        <5> QED BY <3>1, <5>1
      <4>2. Splits!Prefix(held) \in Nat
        <5>1. Splits!Prefix(held) = MapTotal(Weights(chunk), held)
          BY <1>1, SizesAre
        <5>2. Weights(chunk) \in [1..Len(chunk) -> Nat]
          BY WeightsAre
        <5>3. MapTotal(Weights(chunk), held) \in Nat
          BY <1>1, <5>2, MapTotalIs
        <5> QED BY <5>1, <5>3
      <4>3. chunk[i].label \in Nat /\ Maximum \in Nat
        BY ItemsAre, SplittingAssumption DEF Splits!BudgetAssumption
      <4>4. o = chunk[i].label + Splits!Prefix(held)
        BY DEF Splits!Overhead
      <4> HIDE DEF o, w
      <4> QED BY <4>1, <4>2, <4>3, <4>4
    <3>5. o + w > Maximum
      <4> HIDE DEF o
      <4>1. w > Maximum
        BY <2>5
      <4> HIDE DEF w
      <4> QED BY <3>4, <4>1
    <3>6. Large(1)
      BY <3>3, <3>5 DEF TooLarge, s
    <3>7. Len(s) = 1
      <4> HIDE DEF Large
      <4> QED BY <1>4, <1>5, <3>6 DEF s
    <3>8. Len(rows) = Len(R)
      BY <1>0, <2>3
    <3> QED BY <2>4, <3>7, <3>8
  <2> QED BY <2>5 DEF LooseSet, R
<1>20. ASSUME P[1].over
       PROVE  /\ Len(P[1].held[1].rows) = 1
              /\ held # <<>> => chunk[i].label + MapTotal(R, P[1].held[1].rows) > Maximum
  <2>1. Large(1) /\ P[1].held[1].rows = S[1]
    <3> HIDE DEF Large
    <3> QED BY <1>18, <1>20 DEF RowPieces
  <2>2. Len(S[1]) = 1 /\ (held # <<>> => chunk[i].label + Splits!RowsSize(i, S[1]) > Maximum)
    <3> HIDE DEF Large
    <3> QED BY <1>4, <1>5, <2>1
  <2>3. Splits!RowsSize(i, S[1]) = MapTotal(R, S[1])
    BY SizesAre
  <2> HIDE DEF R
  <2> QED BY <2>1, <2>2, <2>3
<1>21. /\ P[1] \in C /\ Len(P[1].held) = 1 /\ P[1].held # <<>>
       /\ Last(P[1].held) = P[1].held[1] /\ P[1].held[1].item = i
  <2> HIDE DEF Large, C
  <2> QED BY <1>5, <1>7, <1>18
<1> QED BY <1>10, <1>15, <1>17, <1>19, <1>20, <1>21 DEF held, P

\* Joining keys is associative.
LEMMA KeysJoin ==
    ASSUME NEW a \in Seq(KeySet), NEW b \in Seq(KeySet), NEW s \in Seq(KeySet)
    PROVE  (a \o b) \o s = a \o (b \o s)
OBVIOUS

\* The pieces of a table, the first with the evidence before it.
WithContext(held, P) == <<[P[1] EXCEPT !.held = Splits!WholeOnes(held) \o @]>> \o Tail(P)

\* The pieces of a table after the evidence before it show both.
LEMMA PiecesWithContext ==
    ASSUME chunk \in Chunks, NEW i \in 1..Len(chunk), chunk[i].kind = "table",
           NEW m \in 1..i, FitsBeside(i, Upto(m, i - 1))
    PROVE  LET held == Upto(m, i - 1)
               Q == WithContext(held, Splits!TablePieces(i, held))
           IN  Placed(chunk, Q, m, i + 1) /\ Q \in Seq(ModestSet(chunk))
<1> DEFINE held == Upto(m, i - 1)
           P == Splits!TablePieces(i, held)
           w == WholesOf(chunk, held)
           x == P[1]
           t == Tail(P)
           h == w \o x.held
           y == [x EXCEPT !.held = h]
           Q == <<y>> \o t
           C == ChunkSet(chunk, m, i + 1)
           H == HeldSet(chunk, m, i + 1)
           L == LinkSet(chunk)
<1>0. Len(chunk) \in Nat /\ i \in Nat /\ m \in Nat /\ m <= i /\ m \in 1..Len(chunk) + 1 /\ i \in m..Len(chunk) + 1
      /\ i + 1 \in i..Len(chunk) + 1 /\ i + 1 \in Nat /\ i <= i /\ i + 1 <= i + 1
  BY ItemsAre
<1>1. /\ P \in Seq(ModestSet(chunk)) /\ P # <<>> /\ Placed(chunk, P, i, i + 1)
      /\ x \in ChunkSet(chunk, i, i + 1) /\ Len(x.held) = 1 /\ x.held # <<>>
      /\ Last(x.held) = x.held[1] /\ x.held[1].item = i
      /\ x.over => /\ Len(x.held[1].rows) = 1
                   /\ held # <<>> => chunk[i].label + MapTotal(RowsIn(chunk, i), x.held[1].rows) > Maximum
  BY PiecesRight
<1>2. Splits!WholeOnes(held) = w
  BY SizesAre
<1>3. WithContext(held, P) = Q
  <2> HIDE DEF w, P, held
  <2> QED BY <1>2 DEF WithContext
<1>4. w \in Seq(H) /\ Len(w) = i - m /\ w \in Seq(PieceSet)
  <2>1. w \in Seq(HeldSet(chunk, m, i)) /\ Len(w) = i - m
    BY <1>0, WholesHeld
  <2>2. HeldSet(chunk, m, i) \subseteq H /\ HeldSet(chunk, m, i) \subseteq PieceSet
    BY <1>0 DEF HeldSet
  <2> DEFINE A == HeldSet(chunk, m, i)
  <2> HIDE DEF w, A, H
  <2>3. w \in Seq(A) /\ A \subseteq H /\ A \subseteq PieceSet
    BY <2>1, <2>2 DEF A, H
  <2> QED BY <2>1, <2>3
<1>5. held = <<>> <=> Len(w) = 0
  <2>1. held \in Seq(1..Len(chunk))
    BY TextsBefore
  <2>2. Len(w) = Len(held)
    BY <2>1, WholesAre
  <2> HIDE DEF held, w
  <2> QED BY <2>1, <2>2
<1>6. x \in C /\ x \in NewSet
  <2>1. ChunkSet(chunk, i, i + 1) \subseteq C /\ ChunkSet(chunk, i, i + 1) \subseteq NewSet
    BY <1>0, ChunksAreNew
  <2> HIDE DEF x
  <2> QED BY <1>1, <2>1
<1>7. P \in Seq(C) /\ P \in Seq(NewSet) /\ Chained(L, P) /\ Sound(Shown(P))
      /\ Splits!Starts(Shown(P)) = ItemStarts(chunk, i, i + 1)
  <2>1. P \in Seq(ChunkSet(chunk, i, i + 1)) /\ Chained(L, P) /\ Sound(Shown(P)) /\ Splits!Starts(Shown(P)) = ItemStarts(chunk, i, i + 1)
    BY <1>1 DEF Placed
  <2>2. \A o \in Seq(ChunkSet(chunk, i, i + 1)) : o \in Seq(C) /\ o \in Seq(NewSet)
    BY <1>0, ChunksAreNew
  <2> HIDE DEF P
  <2> QED BY <2>1, <2>2
<1> HIDE DEF P, w, held, C, H
<1>8. P = <<x>> \o t /\ t \in Seq(C) /\ t \in Seq(NewSet) /\ t \in Seq(ModestSet(chunk)) /\ x \in ModestSet(chunk)
      /\ Len(t) = Len(P) - 1 /\ Len(P) \in Nat /\ (\A k \in 1..Len(P) - 1 : t[k] = P[k + 1])
  <2>1. P = <<x>> \o t /\ t \in Seq(C) /\ Len(t) = Len(P) - 1 /\ Len(P) \in Nat /\ (\A k \in 1..Len(P) - 1 : t[k] = P[k + 1])
    BY <1>1, <1>7, TailIs
  <2>2. t \in Seq(NewSet)
    BY <1>1, <1>7, TailIs
  <2>3. t \in Seq(ModestSet(chunk)) /\ x \in ModestSet(chunk)
    BY <1>1, TailIs
  <2> QED BY <2>1, <2>2, <2>3
<1> HIDE DEF x, t
<1>9. x.held \in Seq(H) /\ x.held # <<>> /\ x.held \in Seq(PieceSet) /\ x.over \in BOOLEAN
  BY <1>6 DEF C, H, ChunkSet, NewSet
<1>10. /\ h \in Seq(H) /\ h \in Seq(PieceSet) /\ h # <<>> /\ Len(h) = Len(w) + 1
       /\ Last(h) = x.held[1]
  <2> DEFINE v == x.held
  <2>1. v \in Seq(H) /\ v \in Seq(PieceSet) /\ Len(v) = 1
    BY <1>1, <1>9
  <2> HIDE DEF v
  <2>2. w \o v \in Seq(H) /\ Len(w \o v) = Len(w) + Len(v) /\ Len(w) \in Nat /\ \A k \in 1..Len(v) : (w \o v)[Len(w) + k] = v[k]
    <3>1. JoinIs(H, w, v)
      BY <1>4, <2>1, JoinHolds
    <3> QED BY <3>1 DEF JoinIs
  <2>3. w \o v \in Seq(PieceSet)
    BY <1>4, <2>1, ConcatIs
  <2> DEFINE u == w \o v
  <2>4. 1 \in 1..Len(v)
    BY <2>1
  <2> HIDE DEF u
  <2>5. u \in Seq(H) /\ u \in Seq(PieceSet) /\ Len(u) = Len(w) + 1 /\ Len(w) \in Nat /\ u[Len(w) + 1] = v[1]
    BY <2>1, <2>2, <2>3, <2>4 DEF u
  <2>6. u # <<>> /\ Last(u) = v[1]
    BY <2>5 DEF Last
  <2> QED BY <2>5, <2>6 DEF u, v
<1> HIDE DEF h
<1>11. y = [held |-> h, over |-> x.over]
  <2>1. \E a \in Seq(PieceSet), b \in BOOLEAN : x = [held |-> a, over |-> b]
    BY <1>6 DEF NewSet
  <2> QED BY <2>1
<1>12. y.held = h /\ y.over = x.over /\ y \in C /\ y \in NewSet
  <2>1. y.held = h /\ y.over = x.over
    BY <1>11
  <2> DEFINE U == {u \in Seq(H) : u # <<>>}  V == {u \in Seq(PieceSet) : u # <<>>}
  <2>2. h \in U /\ h \in V
    BY <1>10
  <2> HIDE DEF y, U, V
  <2>3. y \in [held : U, over : BOOLEAN] /\ y \in [held : V, over : BOOLEAN]
    BY <1>9, <1>11, <2>2
  <2> QED BY <2>1, <2>3 DEF U, V, C, H, ChunkSet, NewSet
<1> HIDE DEF y
<1>13. /\ Q \in Seq(C) /\ Q \in Seq(NewSet) /\ Len(Q) = Len(P) /\ Q[1] = y
       /\ \A k \in 1..Len(Q) : k # 1 => Q[k] = P[k]
  <2>1. <<y>> \in Seq(C) /\ <<y>> \in Seq(NewSet) /\ Len(<<y>>) = 1 /\ <<y>>[1] = y
    BY <1>12
  <2> DEFINE e == <<y>>
  <2> HIDE DEF e
  <2>2. /\ e \o t \in Seq(C) /\ Len(e \o t) = Len(e) + Len(t) /\ (\A k \in 1..Len(e) : (e \o t)[k] = e[k])
        /\ (\A k \in 1..Len(t) : (e \o t)[Len(e) + k] = t[k])
    BY <1>8, <2>1, ConcatIs DEF e
  <2>3. e \o t \in Seq(NewSet)
    BY <1>8, <2>1, ConcatIs DEF e
  <2>4. Q = e \o t /\ Len(e) = 1 /\ e[1] = y
    BY <2>1 DEF e
  <2> HIDE DEF Q
  <2>5. Len(Q) = Len(P) /\ Q[1] = y
    <3>1. 1 \in 1..Len(e)
      BY <2>4
    <3> QED BY <1>8, <2>2, <2>4, <3>1
  <2>6. ASSUME NEW k \in 1..Len(Q), k # 1 PROVE Q[k] = P[k]
    <3> DEFINE j == k - 1
    <3>1. j \in 1..Len(P) - 1 /\ k = 1 + j /\ k = j + 1 /\ j \in 1..Len(t)
      BY <1>8, <2>5, <2>6
    <3> HIDE DEF j
    <3> QED BY <1>8, <2>2, <2>4, <3>1
  <2> QED BY <2>2, <2>3, <2>4, <2>5, <2>6
<1>14. Q \in Seq(ModestSet(chunk))
  <2>1. ASSUME y.over PROVE Alone(chunk, y)
    <3> DEFINE l == x.held[1]
    <3>1. Last(y.held) = l /\ l.item = i /\ Len(y.held) = Len(w) + 1 /\ Len(w) = i - m
      BY <1>1, <1>4, <1>10, <1>12 DEF x
    <3>2. Len(l.rows) = 1 /\ (held # <<>> => chunk[i].label + MapTotal(RowsIn(chunk, i), l.rows) > Maximum)
      <4>1. x.over
        BY <1>12, <2>1
      <4> QED BY <1>1, <4>1 DEF x
    <3> HIDE DEF l
    <3>3. Len(y.held) > 1 => held # <<>>
      BY <1>0, <1>5, <3>1
    <3> QED BY <3>1, <3>2, <3>3 DEF Alone
  <2>2. y \in ModestSet(chunk)
    BY <1>12, <2>1 DEF ModestSet
  <2> DEFINE M == ModestSet(chunk)
  <2>3. y \in M /\ t \in Seq(M)
    BY <1>8, <2>2
  <2> HIDE DEF M
  <2>4. <<y>> \o t \in Seq(M)
    BY <2>3
  <2> QED BY <2>4 DEF M
<1>15. Chained(L, Q)
  <2> HIDE DEF Q
  <2>1. ASSUME NEW k \in 1..Len(Q) - 1 PROVE <<Q[k], Q[k + 1]>> \in L
    <3> DEFINE z == P[k + 1]
    <3>1. k \in 1..Len(P) - 1 /\ k \in 1..Len(Q) /\ k + 1 \in 1..Len(Q) /\ k + 1 # 1
      BY <1>8, <1>13
    <3>2. <<P[k], z>> \in L /\ Q[k + 1] = z
      BY <1>7, <1>13, <3>1 DEF Chained
    <3>3. CASE k # 1
      BY <1>13, <3>1, <3>2, <3>3
    <3>4. CASE k = 1
      <4>1. Q[k] = y /\ P[k] = x
        BY <1>13, <3>4 DEF x
      <4> HIDE DEF z
      <4>2. z \in NewSet /\ LinkOk(chunk, Last(x.held), z.held[1])
        BY <3>2, <4>1 DEF LinkSet
      <4>3. Last(y.held) = Last(x.held)
        BY <1>1, <1>10, <1>12 DEF x
      <4>4. <<y, z>> \in L
        BY <1>12, <4>2, <4>3 DEF LinkSet
      <4> QED BY <3>2, <4>1, <4>4
    <3> QED BY <3>3, <3>4
  <2> QED BY <2>1 DEF Chained
<1>16. Sound(Shown(Q)) /\ Splits!Starts(Shown(Q)) = ItemStarts(chunk, m, i + 1)
  <2> DEFINE a == Splits!KeysOf(w)  b == Splits!KeysOf(x.held)  s == Shown(t)
  <2>1. Shown(Q) = Splits!KeysOf(h) \o s /\ Shown(P) = b \o s /\ s \in Seq(KeySet)
    <3>1. <<y>> \in Seq(NewSet) /\ <<x>> \in Seq(NewSet)
      BY <1>6, <1>12
    <3>2. Shown(<<y>>) = Splits!KeysOf(h) /\ Shown(<<x>>) = b
      BY <1>6, <1>12, ShownIs
    <3> QED BY <1>8, <3>1, <3>2, ShownIs
  <2>2. Splits!KeysOf(h) = a \o b /\ a \in Seq(KeySet) /\ b \in Seq(KeySet)
    BY <1>4, <1>9, KeysAre DEF h
  <2>3. Sound(a) /\ Splits!Starts(a) = ItemStarts(chunk, m, i)
    <3>1. held \in Seq(1..Len(chunk))
      BY TextsBefore DEF held
    <3>2. Sound(a)
      BY <3>1, WholesSound DEF w
    <3> QED BY <3>2 DEF ItemStarts, w, held
  <2> HIDE DEF a, b, s, Q
  <2>4. Shown(Q) = a \o Shown(P) /\ Shown(P) \in Seq(KeySet)
    <3>1. (a \o b) \o s = a \o (b \o s)
      BY <2>1, <2>2, KeysJoin
    <3>2. b \o s \in Seq(KeySet)
      BY <2>1, <2>2, ConcatIs
    <3> QED BY <2>1, <2>2, <3>1, <3>2
  <2>5. Sound(Shown(Q))
    BY <1>7, <2>2, <2>3, <2>4, SoundConcat
  <2>6. Splits!Starts(Shown(Q)) = Splits!Starts(a) \o Splits!Starts(Shown(P))
    BY <2>2, <2>4, StartsAre
  <2>7. ItemStarts(chunk, m, i + 1) = ItemStarts(chunk, m, i) \o ItemStarts(chunk, i, i + 1)
    BY <1>0, StartsJoin
  <2> QED BY <1>7, <2>3, <2>5, <2>6, <2>7
<1>17. Placed(chunk, Q, m, i + 1)
  BY <1>13, <1>15, <1>16 DEF Placed, C
<1> QED BY <1>3, <1>14, <1>17 DEF held, P

-----------------------------------------------------------------------------
(* The cutting of a chunk at its tables *)

\* The chunks o show the items before j, and the items j..p-1 wait in s.
Between(c, p, s, o, j) ==
    /\ s = Upto(j, p - 1) /\ j..p - 1 \subseteq LooseSet(c)
    /\ Placed(c, o, 1, j) /\ o \in Seq(ModestSet(c))
Going(c, p, s, o, d) ==
    /\ p \in 1..Len(c) + 1 /\ (d \/ o = <<>>) /\ (p = 1 => ~d)
    /\ \E j \in 1..p : Between(c, p, s, o, j)
Over(c, p, s, o) == p = Len(c) + 2 /\ s = <<>> /\ Placed(c, o, 1, Len(c) + 1)
SplitInv ==
    /\ chunk \in Chunks /\ didSplit \in BOOLEAN
    /\ Going(chunk, place, pending, out, didSplit) \/ Over(chunk, place, pending, out)

\* The invariant, at the beginning and for each step.
LEMMA SplitBegins ==
    ASSUME Splits!Init PROVE SplitInv
<1>1. chunk \in Chunks /\ place = 1 /\ pending = <<>> /\ out = <<>> /\ didSplit = FALSE
  BY DEF Splits!Init
<1>2. Len(chunk) \in Nat /\ 1 \in 1..Len(chunk) + 1 /\ 1 \in 1..1
  BY <1>1, ItemsAre
<1>3. Placed(chunk, <<>>, 1, 1) /\ Upto(1, 1 - 1) = <<>>
  BY <1>1, <1>2, NonePlaced
<1>4. 1..1 - 1 \subseteq LooseSet(chunk) /\ <<>> \in Seq(ModestSet(chunk))
  OBVIOUS
<1>5. Between(chunk, place, pending, out, 1)
  BY <1>1, <1>3, <1>4 DEF Between
<1>6. Going(chunk, place, pending, out, didSplit)
  BY <1>1, <1>2, <1>5 DEF Going
<1> QED BY <1>1, <1>6 DEF SplitInv

LEMMA HoldKeeps ==
    ASSUME SplitInv, Splits!Hold PROVE SplitInv'
<1> DEFINE p == place
<1>1. /\ p <= Len(chunk) /\ ~Splits!IsTable(p) /\ pending' = Append(pending, p) /\ place' = p + 1
      /\ chunk' = chunk /\ out' = out /\ didSplit' = didSplit
  BY DEF Splits!Hold
<1>2. chunk \in Chunks /\ didSplit \in BOOLEAN /\ Len(chunk) \in Nat
  BY ItemsAre DEF SplitInv
<1>3. Going(chunk, p, pending, out, didSplit)
  BY <1>1, <1>2 DEF SplitInv, Over
<1>4. p \in 1..Len(chunk) /\ p \in Nat /\ p + 1 \in 1..Len(chunk) + 1 /\ p + 1 # 1 /\ (p + 1) - 1 = p
  BY <1>1, <1>2, <1>3 DEF Going
<1>5. PICK j \in 1..p : Between(chunk, p, pending, out, j)
  BY <1>3 DEF Going
<1>6. j \in Nat /\ j <= p /\ j \in 1..p + 1 /\ \A k \in j..p : k = p \/ k \in j..p - 1
  BY <1>4
<1>7. p \in LooseSet(chunk)
  BY <1>1, <1>2, <1>4, SizesAre DEF LooseSet
<1>8. j..(p + 1) - 1 \subseteq LooseSet(chunk)
  BY <1>4, <1>5, <1>6, <1>7 DEF Between
<1>9. Append(pending, p) = Upto(j, (p + 1) - 1)
  <2>1. Append(Upto(j, p - 1), p) = Upto(j, p)
    BY <1>4, <1>6, UptoAppend
  <2> QED BY <1>4, <1>5, <2>1 DEF Between
<1>10. Between(chunk, p + 1, Append(pending, p), out, j)
  BY <1>5, <1>8, <1>9 DEF Between
<1>11. Going(chunk, p + 1, Append(pending, p), out, didSplit)
  BY <1>3, <1>4, <1>6, <1>10 DEF Going
<1> QED BY <1>1, <1>2, <1>11 DEF SplitInv

LEMMA FinishKeeps ==
    ASSUME SplitInv, Splits!Finish PROVE SplitInv'
<1> DEFINE n == Len(chunk)  p == place
           all == [i \in DOMAIN chunk |-> i]
           New(s) == Splits!New(Splits!WholeOnes(s), Splits!Prefix(s))
<1>1. /\ p = n + 1 \/ p = 1
      /\ place' = n + 2 /\ pending' = <<>> /\ chunk' = chunk /\ didSplit' = didSplit
      /\ out' = IF ~didSplit THEN <<New(all)>>
                ELSE IF pending # <<>> THEN Append(out, New(pending)) ELSE out
  BY DEF Splits!Finish
<1> HIDE DEF New
<1>2. chunk \in Chunks /\ didSplit \in BOOLEAN /\ n \in Nat /\ n > 0 /\ DOMAIN chunk = 1..n
  BY ItemsAre DEF SplitInv
<1>3. Going(chunk, p, pending, out, didSplit)
  BY <1>1, <1>2 DEF SplitInv, Over
<1>4. ASSUME NEW s \in Seq(1..n) PROVE New(s) = WholeChunk(chunk, s)
  <2>1. Splits!WholeOnes(s) = WholesOf(chunk, s) /\ Splits!Prefix(s) = MapTotal(Weights(chunk), s)
    BY <1>2, SizesAre
  <2> QED BY <2>1 DEF New, WholeChunk
<1>5. 1 \in 1..n + 1 /\ n + 1 \in 1..n + 1 /\ n + 1 \in Nat /\ 1 < n + 1 /\ (n + 1) - 1 = n /\ 1 <= n + 1
  BY <1>2
<1>6. ASSUME NEW a \in 1..n + 1, a < n + 1
      PROVE  Placed(chunk, <<New(Upto(a, n))>>, a, n + 1)
  <2>1. n + 1 \in a..n + 1
    BY <1>2, <1>6
  <2>2. Upto(a, (n + 1) - 1) \in Seq(1..n)
    <3>1. n + 1 \in n + 1..n + 1
      BY <1>2
    <3> QED BY <1>2, <2>1, <3>1, StartsJoin
  <2>3. Placed(chunk, <<WholeChunk(chunk, Upto(a, (n + 1) - 1))>>, a, n + 1)
    BY <1>2, <1>6, <2>1, WholePlaced
  <2> QED BY <1>4, <1>5, <2>2, <2>3
<1>7. Placed(chunk, out', 1, n + 1)
  <2>1. CASE ~didSplit
    <3>1. all = Upto(1, n)
      <4>1. all = [i \in 1..n |-> i] /\ n - 1 + 1 = n /\ \A i \in 1..n : 1 + i - 1 = i
        BY <1>2
      <4> QED BY <4>1 DEF Upto
    <3> HIDE DEF all
    <3> QED BY <1>1, <1>5, <1>6, <2>1, <3>1
  <2>2. CASE didSplit
    <3>1. p = n + 1
      BY <1>1, <1>3, <2>2 DEF Going
    <3>2. PICK j \in 1..p : Between(chunk, p, pending, out, j)
      BY <1>3 DEF Going
    <3>3. j \in 1..n + 1 /\ pending = Upto(j, n) /\ Placed(chunk, out, 1, j) /\ j \in Nat /\ j <= n + 1 /\ 1 <= j
      BY <1>2, <1>5, <3>1, <3>2 DEF Between
    <3>4. CASE j = n + 1
      <4>1. pending = <<>>
        BY <1>2, <1>5, <3>3, <3>4, NonePlaced
      <4> QED BY <1>1, <2>2, <3>3, <3>4, <4>1
    <3>5. CASE j # n + 1
      <4>1. j < n + 1 /\ j \in 1..n + 1 /\ n + 1 \in j..n + 1
        BY <1>2, <3>3, <3>5
      <4>2. pending # <<>>
        <5>1. n \in Int /\ n >= j - 1 /\ n - j + 1 # 0
          BY <1>2, <3>3, <4>1
        <5>2. Len(Upto(j, n)) = n - j + 1
          BY <3>3, <5>1, UptoIs
        <5> QED BY <3>3, <5>1, <5>2
      <4>3. Placed(chunk, <<New(pending)>>, j, n + 1)
        BY <1>6, <3>3, <4>1
      <4>4. out' = out \o <<New(pending)>>
        <5>1. out' = Append(out, New(pending))
          BY <1>1, <2>2, <4>2
        <5>2. out \in Seq(ChunkSet(chunk, 1, j)) /\ <<New(pending)>> \in Seq(ChunkSet(chunk, j, n + 1))
          BY <3>3, <4>3 DEF Placed
        <5> DEFINE e == New(pending)  A == ChunkSet(chunk, 1, j)
        <5> HIDE DEF e, A
        <5>3. Append(out, e) = out \o <<e>>
          <6>1. out \in Seq(A)
            BY <5>2 DEF A
          <6> QED BY <6>1
        <5> QED BY <5>1, <5>3 DEF e
      <4>5. 1 \in 1..Len(chunk) + 1 /\ j \in 1..Len(chunk) + 1 /\ n + 1 \in j..Len(chunk) + 1
        BY <1>5, <3>3, <4>1
      <4> QED BY <1>2, <3>3, <4>3, <4>4, <4>5, PlacedConcat
    <3> QED BY <3>4, <3>5
  <2> QED BY <1>2, <2>1, <2>2
<1>8. Over(chunk, n + 2, <<>>, out')
  BY <1>7 DEF Over
<1> QED BY <1>1, <1>2, <1>8 DEF SplitInv

LEMMA SplitTableKeeps ==
    ASSUME SplitInv, Splits!SplitTable PROVE SplitInv'
<1> DEFINE n == Len(chunk)  p == place
           G == Splits!PendingGroups(p)
           F == Front(G)
           h == Last(G)
           P == Splits!TablePieces(p, h)
           W == WholeChunks(chunk, F)
           Q == WithContext(h, P)
           M == ModestSet(chunk)
           I == 1..n
<1>1. /\ p <= n /\ Splits!IsTable(p) /\ place' = p + 1 /\ chunk' = chunk
      /\ out' = out \o [g \in DOMAIN F |-> Splits!New(Splits!WholeOnes(G[g]), Splits!Prefix(G[g]))]
                    \o (IF Len(P) > 1 THEN Q ELSE <<>>)
      /\ pending' = IF Len(P) > 1 THEN <<>> ELSE Append(h, p)
      /\ didSplit' = (didSplit \/ Len(G) > 1 \/ Len(P) > 1)
  BY SplitOperators DEF Splits!SplitTable, WithContext
<1>2. chunk \in Chunks /\ didSplit \in BOOLEAN /\ n \in Nat
  BY ItemsAre DEF SplitInv
<1>3. Going(chunk, p, pending, out, didSplit)
  BY <1>1, <1>2 DEF SplitInv, Over
<1>4. p \in I /\ p \in Nat /\ p + 1 \in 1..n + 1 /\ p + 1 # 1 /\ (p + 1) - 1 = p /\ chunk[p].kind = "table"
  BY <1>1, <1>2, <1>3, SizesAre DEF Going
<1>5. PICK j \in 1..p : Between(chunk, p, pending, out, j)
  BY <1>3 DEF Going
<1>6. /\ pending = Upto(j, p - 1) /\ j..p - 1 \subseteq LooseSet(chunk) /\ Placed(chunk, out, 1, j) /\ out \in Seq(M)
      /\ j \in Nat /\ j <= p
  BY <1>4, <1>5 DEF Between
<1>7. pending \in Seq(I)
  BY <1>2, <1>4, <1>6, TextsBefore
<1>8. /\ G \in Seq(Seq(I)) /\ G # <<>> /\ FlattenSeq(G) = pending /\ F \in Seq(PackSet(chunk))
      /\ h = <<>> \/ Splits!FirstSize(p) > Maximum \/ MapTotal(Weights(chunk), h) + Splits!FirstSize(p) <= Maximum
  BY <1>2, <1>4, <1>7, PendingGroupsRight
<1> HIDE DEF G
<1> DEFINE f == FlattenSeq(F)  m == j + Len(f)
<1>9. /\ pending = f \o h /\ h \in Seq(I) /\ F \in Seq(Seq(I)) /\ f \in Seq(I)
      /\ G = Append(F, h) /\ Len(G) = Len(F) + 1
  <2> HIDE DEF I
  <2> QED BY <1>8, FlatLast
<1>10. SplitAt(j, p, f, h)
  <2>1. f \in Seq(Int) /\ h \in Seq(Int)
    <3> DEFINE N == Int
    <3>1. I \subseteq N
      OBVIOUS
    <3> HIDE DEF I, N, f, h
    <3>2. f \in Seq(N) /\ h \in Seq(N)
      BY <1>9, <3>1
    <3> QED BY <3>2 DEF N
  <2> HIDE DEF f, h
  <2>2. j \in Nat /\ p \in Int /\ j <= p /\ f \o h = Upto(j, p - 1)
    BY <1>4, <1>6, <1>9, SMTT(30)
  <2> QED BY <2>1, <2>2, UptoSplit
<1>11. f = Upto(j, m - 1) /\ h = Upto(m, p - 1) /\ m \in j..p
  <2> HIDE DEF f, h
  <2> QED BY <1>10 DEF SplitAt
<1> HIDE DEF m
<1>12. /\ m \in 1..p /\ m \in Nat /\ m <= p /\ j \in 1..n + 1 /\ m \in j..n + 1 /\ m \in 1..n + 1
       /\ 1 \in 1..n + 1 /\ p + 1 \in m..n + 1
  BY <1>2, <1>4, <1>6, <1>11
<1>13. Placed(chunk, W, j, m) /\ W \in Seq(M)
  <2>1. j..m - 1 \subseteq LooseSet(chunk)
    BY <1>4, <1>6, <1>12
  <2> HIDE DEF F
  <2>2. f = Upto(j, m - 1)
    BY <1>11
  <2> QED BY <1>2, <1>8, <1>12, <2>1, <2>2, WholesPlaced
<1>14. [g \in DOMAIN F |-> Splits!New(Splits!WholeOnes(G[g]), Splits!Prefix(G[g]))] = W
  <2>1. ASSUME NEW g \in DOMAIN F
        PROVE  Splits!New(Splits!WholeOnes(G[g]), Splits!Prefix(G[g])) = WholeChunk(chunk, F[g])
    <3> DEFINE A == Seq(I)
    <3>1. F \in Seq(A) /\ h \in A /\ G = Append(F, h)
      BY <1>9
    <3> HIDE DEF A, F, h
    <3>2. G[g] = F[g] /\ F[g] \in A
      BY <2>1, <3>1, AppendIs
    <3> DEFINE s == F[g]
    <3>3. s \in Seq(I)
      BY <3>2 DEF A
    <3> HIDE DEF s
    <3>4. Splits!WholeOnes(s) = WholesOf(chunk, s) /\ Splits!Prefix(s) = MapTotal(Weights(chunk), s)
      BY <1>2, <3>3, SizesAre
    <3>5. G[g] = s
      BY <3>2 DEF s
    <3> QED BY <3>4, <3>5 DEF WholeChunk, s
  <2> HIDE DEF F
  <2> QED BY <2>1 DEF WholeChunks
<1>15. FitsBeside(p, Upto(m, p - 1))
  <2>1. Splits!Prefix(h) = MapTotal(Weights(chunk), h)
    BY <1>2, <1>9, SizesAre
  <2>2. FitsBeside(p, h)
    <3> HIDE DEF h
    <3> QED BY <1>8, <2>1 DEF FitsBeside
  <2> QED BY <1>11, <2>2
<1>16. /\ Placed(chunk, out \o W, 1, m) /\ out \o W \in Seq(M) /\ (out \o W) \o <<>> = out \o W
       /\ out \in Seq(M) /\ W \in Seq(M)
  <2>1. Placed(chunk, out \o W, 1, m)
    BY <1>2, <1>6, <1>12, <1>13, PlacedConcat
  <2> HIDE DEF M, W
  <2>2. out \o W \in Seq(M) /\ (out \o W) \o <<>> = out \o W
    BY <1>6, <1>13
  <2> QED BY <1>6, <1>13, <2>1, <2>2
<1>17. out' = (out \o W) \o (IF Len(P) > 1 THEN Q ELSE <<>>)
  <2> HIDE DEF F, P, Q, W
  <2> QED BY <1>1, <1>14
<1>18. P # <<>> /\ Len(P) \in Nat /\ (Len(P) = 1 => p \in LooseSet(chunk))
  <2> DEFINE k == Upto(m, p - 1)  R == Splits!TablePieces(p, k)
  <2>1. R \in Seq(M) /\ R # <<>> /\ (Len(R) = 1 => p \in LooseSet(chunk))
    BY <1>2, <1>4, <1>12, <1>15, PiecesRight
  <2>2. R = P
    BY <1>11
  <2> HIDE DEF R, P, M
  <2> QED BY <2>1, <2>2
<1>19. Going(chunk, p + 1, pending', out', didSplit')
  <2>1. CASE Len(P) > 1
    <3>1. Placed(chunk, Q, m, p + 1) /\ Q \in Seq(M)
      <4> DEFINE k == Upto(m, p - 1)  R == WithContext(k, Splits!TablePieces(p, k))
      <4>1. Placed(chunk, R, m, p + 1) /\ R \in Seq(M)
        BY <1>2, <1>4, <1>12, <1>15, PiecesWithContext
      <4>2. R = Q
        BY <1>11
      <4> HIDE DEF R, Q, M
      <4> QED BY <4>1, <4>2
    <3>2. out' = (out \o W) \o Q /\ pending' = <<>> /\ didSplit' = TRUE
      <4> HIDE DEF P, Q, W
      <4> QED BY <1>1, <1>17, <2>1
    <3>3. Placed(chunk, (out \o W) \o Q, 1, p + 1)
      <4> HIDE DEF W, Q
      <4> QED BY <1>2, <1>12, <1>16, <3>1, PlacedConcat
    <3>4. (out \o W) \o Q \in Seq(M)
      <4> DEFINE u == out \o W
      <4>1. u \in Seq(M) /\ Q \in Seq(M)
        BY <1>16, <3>1
      <4> HIDE DEF u, M, Q
      <4>2. u \o Q \in Seq(M)
        BY <4>1
      <4> QED BY <4>2 DEF u
    <3>5. Upto(p + 1, (p + 1) - 1) = <<>>
      BY <1>2, <1>4, NonePlaced
    <3>6. (p + 1)..((p + 1) - 1) \subseteq LooseSet(chunk)
      BY <1>4
    <3>7. Between(chunk, p + 1, pending', out', p + 1)
      <4> HIDE DEF W, Q, M
      <4> QED BY <3>2, <3>3, <3>4, <3>5, <3>6 DEF Between, M
    <3>8. p + 1 \in 1..p + 1
      BY <1>4
    <3> QED BY <1>4, <3>2, <3>7, <3>8 DEF Going
  <2>2. CASE ~(Len(P) > 1)
    <3>1. p \in LooseSet(chunk)
      <4> HIDE DEF P
      <4>1. Len(P) \in Nat /\ P # <<>>
        BY <1>18
      <4>2. Len(P) = 1
        <5> DEFINE v == Len(P)
        <5>1. v \in Nat /\ v # 0 /\ ~(v > 1)
          <6>1. P \in Seq(M)
            <7> DEFINE k == Upto(m, p - 1)  R == Splits!TablePieces(p, k)
            <7>1. R \in Seq(M)
              BY <1>2, <1>4, <1>12, <1>15, PiecesRight
            <7>2. R = P
              BY <1>11 DEF P
            <7> HIDE DEF R, M
            <7> QED BY <7>1, <7>2
          <6> HIDE DEF M
          <6> QED BY <2>2, <4>1, <6>1
        <5> HIDE DEF v
        <5>2. v = 1
          BY <5>1
        <5> QED BY <5>2 DEF v
      <4> QED BY <1>18, <4>2
    <3>2. out' = out \o W /\ pending' = Append(h, p)
      <4> HIDE DEF P, Q, W
      <4> QED BY <1>1, <1>16, <1>17, <2>2
    <3>3. pending' = Upto(m, (p + 1) - 1)
      <4>1. Append(Upto(m, p - 1), p) = Upto(m, p)
        BY <1>4, <1>12, UptoAppend
      <4> QED BY <1>4, <1>11, <3>2, <4>1
    <3>4. m..(p + 1) - 1 \subseteq LooseSet(chunk)
      <4>1. \A k \in m..p : k = p \/ k \in j..p - 1
        BY <1>4, <1>6, <1>11, <1>12
      <4> QED BY <1>4, <1>6, <3>1, <4>1
    <3>5. Between(chunk, p + 1, pending', out', m)
      <4> HIDE DEF W
      <4> QED BY <1>16, <3>2, <3>3, <3>4 DEF Between
    <3>6. didSplit' \/ out' = <<>>
      <4>1. CASE didSplit \/ Len(G) > 1
        BY <1>1, <4>1
      <4>2. CASE ~didSplit /\ ~(Len(G) > 1)
        <5>1. out = <<>>
          BY <1>3, <4>2 DEF Going
        <5>2. Len(F) = 0 /\ F \in Seq(Seq(I))
          <6> DEFINE A == Seq(I)
          <6>1. F \in Seq(A) /\ Len(G) = Len(F) + 1
            BY <1>9
          <6> HIDE DEF F, A
          <6>2. Len(F) = 0
            <7> DEFINE v == Len(F)  u == Len(G)
            <7>1. v \in Nat /\ u = v + 1 /\ ~(u > 1)
              BY <4>2, <6>1
            <7> HIDE DEF v, u
            <7>2. v = 0
              BY <7>1
            <7> QED BY <7>2 DEF v
          <6> QED BY <6>1, <6>2 DEF A
        <5>3. F = <<>>
          <6> DEFINE A == Seq(I)
          <6>1. F \in Seq(A) /\ Len(F) = 0
            BY <5>2
          <6> HIDE DEF F, A
          <6> QED BY <6>1
        <5>4. W = <<>>
          <6> HIDE DEF F
          <6> QED BY <5>3 DEF WholeChunks
        <5> HIDE DEF W
        <5> QED BY <3>2, <5>1, <5>4
      <4> QED BY <4>1, <4>2
    <3>7. m \in 1..p + 1
      BY <1>4, <1>12
    <3> QED BY <1>4, <3>5, <3>6, <3>7 DEF Going
  <2> QED BY <2>1, <2>2
<1>20. didSplit' \in BOOLEAN
  BY <1>1
<1> QED BY <1>1, <1>2, <1>19, <1>20 DEF SplitInv

-----------------------------------------------------------------------------
(* What the chunks of a cut chunk keep *)

\* What was looked at so far are the items before e, those from j wait.
Seen(c, s, o, j, e) == s = Upto(j, e - 1) /\ Placed(c, o, 1, j)

\* What was looked at ends where the waiting items do.
LEMMA SeenIs ==
    ASSUME SplitInv
    PROVE  \E e \in 1..Len(chunk) + 1 : \E j \in 1..e :
              /\ Seen(chunk, pending, out, j, e)
              /\ (IF place > Len(chunk) THEN Len(chunk) ELSE place - 1) = e - 1
<1> DEFINE n == Len(chunk)
<1>1. chunk \in Chunks /\ n \in Nat
  BY ItemsAre DEF SplitInv
<1>2. CASE Going(chunk, place, pending, out, didSplit)
  <2>1. place \in 1..n + 1
    BY <1>2 DEF Going
  <2>2. (IF place > n THEN n ELSE place - 1) = place - 1
    BY <1>1, <2>1
  <2>3. PICK j \in 1..place : Between(chunk, place, pending, out, j)
    BY <1>2 DEF Going
  <2>4. Seen(chunk, pending, out, j, place)
    BY <2>3 DEF Seen, Between
  <2> QED BY <2>1, <2>2, <2>4
<1>3. CASE Over(chunk, place, pending, out)
  <2>1. place = n + 2 /\ pending = <<>> /\ Placed(chunk, out, 1, n + 1)
    BY <1>3 DEF Over
  <2>2. n + 1 \in 1..n + 1 /\ place > n /\ (n + 1) - 1 = n
    BY <1>1, <2>1
  <2>3. Upto(n + 1, (n + 1) - 1) = <<>>
    BY <1>1, <2>2, NonePlaced
  <2>4. Seen(chunk, pending, out, n + 1, n + 1)
    BY <2>1, <2>3 DEF Seen
  <2> QED BY <2>2, <2>4
<1> QED BY <1>2, <1>3 DEF SplitInv

\* The invariant implies the type invariant,
LEMMA ChunksTyped ==
    ASSUME SplitInv PROVE Splits!TypeOK /\ out \in Seq(NewSet)
<1> DEFINE n == Len(chunk)
<1>1. chunk \in Chunks /\ n \in Nat /\ DOMAIN chunk = 1..n /\ didSplit \in BOOLEAN
  BY ItemsAre DEF SplitInv
<1>2. place \in 1..n + 2
  BY <1>1 DEF SplitInv, Going, Over
<1>3. PICK e \in 1..n + 1 : \E j \in 1..e : Seen(chunk, pending, out, j, e)
  BY SeenIs
<1>4. PICK j \in 1..e : Seen(chunk, pending, out, j, e)
  BY <1>3
<1>5. /\ pending = Upto(j, e - 1) /\ out \in Seq(ChunkSet(chunk, 1, j))
      /\ e \in Nat /\ j \in Nat /\ j \in 1..n + 1 /\ e \in j..n + 1 /\ 1 <= j /\ j <= j /\ 1 <= 1 /\ 1 \in 1..j
  BY <1>1, <1>4 DEF Seen, Placed
<1>6. pending \in Seq(1..n)
  <2>1. n + 1 \in e..n + 1
    BY <1>1, <1>5
  <2> QED BY <1>1, <1>5, <2>1, StartsJoin
<1>7. Splits!ToSet(pending) \subseteq DOMAIN chunk
  <2>1. \A k \in DOMAIN pending : pending[k] \in 1..n
    BY <1>6
  <2>2. ToSet(pending) \subseteq 1..n
    BY <2>1 DEF ToSet
  <2> QED BY <1>1, <2>2, SplitOperators
<1>8. ASSUME NEW k \in DOMAIN out
      PROVE  /\ out[k].held # <<>>
             /\ \A l \in DOMAIN out[k].held : Splits!Piece(out[k].held[l])
             /\ out[k].over \in BOOLEAN
  <2> DEFINE x == out[k]  H == HeldSet(chunk, 1, j)
  <2>1. x \in ChunkSet(chunk, 1, j)
    <3> DEFINE A == ChunkSet(chunk, 1, j)
    <3>1. out \in Seq(A)
      BY <1>5
    <3> HIDE DEF A
    <3>2. out[k] \in A
      BY <1>8, <3>1
    <3> QED BY <3>2 DEF A
  <2> HIDE DEF x
  <2>2. x.held \in Seq(H) /\ x.held # <<>> /\ x.over \in BOOLEAN
    BY <2>1 DEF ChunkSet
  <2>3. ASSUME NEW l \in DOMAIN x.held PROVE Splits!Piece(x.held[l])
    <3> DEFINE h == x.held  q == h[l]
    <3>1. q \in H
      <4>1. h \in Seq(H) /\ l \in DOMAIN h
        BY <2>2, <2>3
      <4> HIDE DEF h, H
      <4> QED BY <4>1
    <3> HIDE DEF q
    <3>2. /\ q \in PieceSet /\ q.item \in 1..j - 1
          /\ (q.rows = <<>> <=> chunk[q.item].kind # "table")
          /\ ToSet(q.rows) \subseteq 1..Len(RowsIn(chunk, q.item))
      BY <3>1 DEF HeldSet
    <3>3. q.item \in 1..n /\ q.part \in 0..2
      BY <1>1, <1>5, <3>2 DEF PieceSet
    <3>4. RowsIn(chunk, q.item) \in Seq(Nat)
      BY <1>1, <3>3, ItemsAre
    <3>5. Splits!SizesOf(q.item) = RowsIn(chunk, q.item) /\ (Splits!IsTable(q.item) <=> chunk[q.item].kind = "table")
      BY <1>1, SizesAre
    <3>6. DOMAIN RowsIn(chunk, q.item) = 1..Len(RowsIn(chunk, q.item))
      <4> DEFINE R == RowsIn(chunk, q.item)
      <4> HIDE DEF R
      <4>1. R \in Seq(Nat)
        BY <3>4 DEF R
      <4> QED BY <4>1 DEF R
    <3>7. Splits!ToSet(q.rows) \subseteq DOMAIN Splits!SizesOf(q.item)
      BY <3>2, <3>5, <3>6, SplitOperators
    <3> QED BY <1>1, <3>2, <3>3, <3>5, <3>7 DEF Splits!Piece, q
  <2> QED BY <2>2, <2>3 DEF x
<1>9. out \in Seq(NewSet)
  BY <1>5, ChunksAreNew
<1> QED BY <1>1, <1>2, <1>7, <1>8, <1>9 DEF Splits!TypeOK

\* that the evidence is kept,
LEMMA EvidenceIsKept ==
    ASSUME SplitInv PROVE Splits!EvidenceKept
<1> DEFINE n == Len(chunk)
           seen == IF place > n THEN n ELSE place - 1
           a == Splits!OutKeys
           b == Splits!KeysOf(Splits!WholeOnes(pending))
           shown == a \o b
<1>1. chunk \in Chunks /\ n \in Nat
  BY ItemsAre DEF SplitInv
<1>2. PICK e \in 1..n + 1 : \E j \in 1..e : Seen(chunk, pending, out, j, e) /\ seen = e - 1
  BY SeenIs
<1>3. PICK j \in 1..e : Seen(chunk, pending, out, j, e) /\ seen = e - 1
  BY <1>2
<1> HIDE DEF seen
<1>4. /\ pending = Upto(j, e - 1) /\ Placed(chunk, out, 1, j) /\ seen = e - 1
      /\ e \in Nat /\ j \in Nat /\ 1 \in 1..n + 1 /\ j \in 1..n + 1 /\ e \in j..n + 1 /\ 1 <= e
  BY <1>1, <1>3 DEF Seen
<1>5. Splits!TypeOK /\ out \in Seq(NewSet)
  BY ChunksTyped
<1>6. a = Shown(out)
  BY SplitOperators DEF Splits!OutKeys, Shown
<1>7. b = Splits!KeysOf(WholesOf(chunk, Upto(j, e - 1)))
  BY <1>1, <1>4, SizesAre
<1>8. Upto(j, e - 1) \in Seq(1..n) /\ b \in Seq(KeySet)
  <2>1. n + 1 \in e..n + 1
    BY <1>1, <1>4
  <2> QED BY <1>1, <1>4, <1>7, <2>1, StartsJoin
<1>9. a \in Seq(KeySet) /\ Sound(a) /\ Splits!Starts(a) = ItemStarts(chunk, 1, j)
  BY <1>4, <1>5, <1>6, ShownIs DEF Placed
<1>10. Sound(b) /\ Splits!Starts(b) = ItemStarts(chunk, j, e)
  <2>1. Sound(b)
    BY <1>1, <1>7, <1>8, WholesSound
  <2> QED BY <1>7, <2>1 DEF ItemStarts
<1> HIDE DEF a, b
<1>11. Splits!Starts(shown) = ItemStarts(chunk, 1, e)
  <2>1. ItemStarts(chunk, 1, e) = ItemStarts(chunk, 1, j) \o ItemStarts(chunk, j, e)
    <3>1. j \in 1..n + 1 /\ e \in j..n + 1
      BY <1>4
    <3> QED BY <1>1, <1>4, <3>1, StartsJoin
  <2> QED BY <1>8, <1>9, <1>10, <2>1, StartsAre
<1>12. Splits!Starts(Splits!KeysOf(Splits!WholeOnes([i \in 1..seen |-> i]))) = ItemStarts(chunk, 1, e)
  <2>1. [i \in 1..seen |-> i] = Upto(1, e - 1)
    <3>1. (e - 1) - 1 + 1 = e - 1 /\ \A i \in 1..e - 1 : 1 + i - 1 = i
      BY <1>4
    <3> QED BY <1>4, <3>1 DEF Upto
  <2> QED BY <1>1, <2>1, SizesAre DEF ItemStarts
<1>13. Sound(shown) /\ shown \in Seq(KeySet)
  <2>1. Sound(shown)
    BY <1>8, <1>9, <1>10, SoundConcat
  <2>2. shown \in Seq(KeySet)
    BY <1>8, <1>9, ConcatIs
  <2> QED BY <2>1, <2>2
<1>14. \A k \in DOMAIN shown : shown[k][3] = 1 =>
          k < Len(shown) /\ shown[k + 1] = <<shown[k][1], shown[k][2], 2>>
  <2> HIDE DEF shown
  <2>1. DOMAIN shown = 1..Len(shown)
    BY <1>13
  <2> QED BY <1>13, <2>1 DEF Sound
<1> HIDE DEF shown
<1> QED BY <1>5, <1>11, <1>12, <1>14 DEF Splits!EvidenceKept, shown, seen, a, b

\* that groups stay whole,
LEMMA GroupsStayWhole ==
    ASSUME SplitInv PROVE Splits!GroupsWhole
<1> DEFINE n == Len(chunk)
<1>1. chunk \in Chunks /\ n \in Nat
  BY ItemsAre DEF SplitInv
<1>2. PICK e \in 1..n + 1 : \E j \in 1..e : Seen(chunk, pending, out, j, e)
  BY SeenIs
<1>3. PICK j \in 1..e : Seen(chunk, pending, out, j, e)
  BY <1>2
<1>4. /\ Chained(LinkSet(chunk), out) /\ out \in Seq(ChunkSet(chunk, 1, j))
      /\ j \in Nat /\ j <= n + 1
  BY <1>1, <1>3 DEF Seen, Placed
<1>5. ASSUME NEW k \in 1..Len(out) - 1,
             Splits!Last(out[k].held).item = out[k + 1].held[1].item,
             NEW g \in DOMAIN Splits!GroupsOf(Splits!Last(out[k].held).item),
             {Splits!Last(Splits!Last(out[k].held).rows), out[k + 1].held[1].rows[1]}
                \subseteq Splits!ToSet(Splits!GroupsOf(Splits!Last(out[k].held).item)[g])
      PROVE  LET l == Splits!Last(out[k].held)
             IN  chunk[l.item].label + Splits!Texts(l.item)
                     + Splits!RowsSize(l.item, Splits!GroupsOf(l.item)[g]) > Maximum
  <2> DEFINE x == out[k]  l == Last(x.held)  r == out[k + 1].held[1]  i == l.item
             N == Numbered(chunk[i].groups)
  <2>1. LinkOk(chunk, l, r)
    <3>1. <<out[k], out[k + 1]>> \in LinkSet(chunk)
      BY <1>4 DEF Chained
    <3> QED BY <3>1 DEF LinkSet
  <2>2. Splits!Last(out[k].held) = l
    BY SplitOperators
  <2>3. Splits!GroupsOf(i) = N
    BY <1>1, SizesAre
  <2>4. i \in 1..n
    <3>1. x \in ChunkSet(chunk, 1, j)
      <4> DEFINE A == ChunkSet(chunk, 1, j)
      <4>1. out \in Seq(A) /\ Len(out) \in Nat
        BY <1>4
      <4> HIDE DEF A
      <4>2. out[k] \in A
        BY <4>1
      <4> QED BY <4>2 DEF A
    <3> DEFINE H == HeldSet(chunk, 1, j)  h == x.held
    <3>2. h \in Seq(H) /\ h # <<>>
      BY <3>1 DEF ChunkSet
    <3> HIDE DEF H, h
    <3>3. Last(h) \in H
      BY <3>2, FrontLastIs
    <3>4. l \in H
      BY <3>3 DEF h
    <3> HIDE DEF l
    <3>5. l.item \in 1..j - 1
      BY <3>4 DEF H, HeldSet
    <3> QED BY <1>1, <1>4, <3>5
  <2>5. N \in Seq(Seq(Nat))
    <3>1. chunk[i].groups \in Seq(Seq(Nat))
      BY <1>1, <2>4, ItemsAre
    <3> QED BY <3>1, NumberedIs
  <2>6. g \in 1..Len(N)
    <3>1. g \in DOMAIN N
      BY <1>5, <2>2, <2>3
    <3> DEFINE A == Seq(Nat)
    <3>2. N \in Seq(A)
      BY <2>5
    <3> HIDE DEF N, A
    <3> QED BY <3>1, <3>2
  <2>7. Splits!Texts(i) = MapTotal(TextWeights(chunk), Upto(1, i - 1))
    <3>1. 1 \in 1..i
      BY <1>1, <2>4
    <3>2. Upto(1, i - 1) \in Seq(1..n)
      BY <1>1, <2>4, <3>1, TextsBefore
    <3>3. [q \in 1..i - 1 |-> q] = Upto(1, i - 1)
      <4> HIDE DEF i
      <4>1. (i - 1) - 1 + 1 = i - 1 /\ \A q \in 1..i - 1 : 1 + q - 1 = q
        BY <1>1, <2>4
      <4> QED BY <4>1 DEF Upto
    <3> HIDE DEF i
    <3> QED BY <1>1, <3>2, <3>3, SizesAre DEF Splits!Texts
  <2>8. Splits!RowsSize(i, N[g]) = MapTotal(RowsIn(chunk, i), N[g])
    BY <1>1, SizesAre
  <2>9. l.item = r.item /\ {Last(l.rows), r.rows[1]} \subseteq ToSet(N[g])
    BY <1>5, <2>2, <2>3, SplitOperators
  <2> HIDE DEF l, r, N
  <2>10. chunk[i].label + MapTotal(TextWeights(chunk), Upto(1, i - 1)) + MapTotal(RowsIn(chunk, i), N[g]) > Maximum
    BY <2>1, <2>6, <2>9 DEF LinkOk, N
  <2>11. chunk[i].label + Splits!Texts(i) + Splits!RowsSize(i, Splits!GroupsOf(i)[g]) > Maximum
    BY <2>3, <2>7, <2>8, <2>10
  <2> QED BY <2>2, <2>11
<1> QED BY <1>5 DEF Splits!GroupsWhole

\* and that only one row or item is too large.
LEMMA OneRowTooLarge ==
    ASSUME SplitInv PROVE Splits!OnlyOneRowTooLarge
<1> DEFINE n == Len(chunk)
<1>1. chunk \in Chunks /\ n \in Nat
  BY ItemsAre DEF SplitInv
<1>2. ASSUME place <= n + 1, NEW k \in DOMAIN out, out[k].over
      PROVE  LET l == Splits!Last(out[k].held)
             IN  IF Splits!IsTable(l.item)
                 THEN /\ Len(l.rows) = 1
                      /\ Len(out[k].held) > 1 =>
                            chunk[l.item].label + Splits!RowsSize(l.item, l.rows) > Maximum
                 ELSE Len(out[k].held) = 1
  <2>1. Going(chunk, place, pending, out, didSplit)
    BY <1>1, <1>2 DEF SplitInv, Over
  <2>2. out \in Seq(ModestSet(chunk))
    BY <2>1 DEF Going, Between
  <2> DEFINE M == ModestSet(chunk)  x == out[k]  l == Last(x.held)
  <2>3. x \in M
    <3>1. out \in Seq(M)
      BY <2>2
    <3> HIDE DEF M
    <3> QED BY <1>2, <3>1
  <2>4. Alone(chunk, x)
    BY <1>2, <2>3 DEF ModestSet
  <2>5. Splits!Last(out[k].held) = l
    BY SplitOperators
  <2>6. (Splits!IsTable(l.item) <=> chunk[l.item].kind = "table")
        /\ Splits!RowsSize(l.item, l.rows) = MapTotal(RowsIn(chunk, l.item), l.rows)
    BY <1>1, SizesAre
  <2> HIDE DEF l
  <2> QED BY <2>4, <2>5, <2>6 DEF Alone, l
<1> QED BY <1>2 DEF Splits!OnlyOneRowTooLarge

\* Steps of the other three parts leave the chunk alone.
LEMMA SplitStepKeeps ==
    ASSUME SplitInv, [TablesNext]_allVars PROVE SplitInv'
<1>1. CASE Splits!Next
  BY <1>1, HoldKeeps, SplitTableKeeps, FinishKeeps DEF Splits!Next
<1>2. CASE UNCHANGED splitVars
  <2>1. /\ chunk' = chunk /\ place' = place /\ pending' = pending /\ out' = out /\ didSplit' = didSplit
    BY <1>2 DEF splitVars
  <2> QED BY <2>1 DEF SplitInv
<1> QED BY <1>1, <1>2 DEF TablesNext, SweepStep, RowsStep, CutStep, SplitStep, allVars

\* For every chunk and every budget: a chunk that is cut at its tables keeps its
\* evidence once and in order, a group of rows that fits with the texts before
\* it is never cut, and what is over the maximum is one item or one row
\* (_split_large_table_chunk).
THEOREM SplitsAreRight == TablesSpec => []SplitsRight
<1>1. TablesInit => SplitInv
  BY SplitBegins DEF TablesInit
<1>2. SplitInv /\ [TablesNext]_allVars => SplitInv'
  BY SplitStepKeeps
<1>3. SplitInv => SplitsRight
  BY EvidenceIsKept, GroupsStayWhole, OneRowTooLarge DEF SplitsRight, Splits!SplitsRight
<1> QED BY <1>1, <1>2, <1>3, PTL DEF TablesSpec

=============================================================================
