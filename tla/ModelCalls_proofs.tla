-------------------------- MODULE ModelCalls_proofs --------------------------
(***************************************************************************)
(* Proofs about ModelCalls, for all documents, recognizers, numbers of     *)
(* threads and configurations of a call: no page is lost, mixed up or told *)
(* out of order, however the threads end, and how often a call is served,  *)
(* how long it sleeps and after which failures it is repeated.             *)
(***************************************************************************)
EXTENDS ModelCalls, Induction

-----------------------------------------------------------------------------
(* Lemmas about lists of pages *)
\* The pages of a list whose pages differ can be put in order: of those at a set
\* of its places, the largest comes last, behind the others in order.
LEMMA OrderExists ==
    ASSUME NEW n \in Nat, NEW key \in [1..n -> Int],
           \A j, k \in 1..n : key[j] = key[k] => j = k
    PROVE  \E place \in [1..n -> 1..n] :
              /\ \A i \in 1..n : \E k \in 1..n : place[k] = i
              /\ \A j, k \in 1..n : j < k => key[place[j]] < key[place[k]]
<1> DEFINE Orders(s, m, f) ==
              /\ f \in [1..m -> s]
              /\ \A i \in s : \E k \in 1..m : f[k] = i
              /\ \A j, k \in 1..m : j < k => key[f[j]] < key[f[k]]
           S == {m \in 0..n : \A s \in SUBSET (1..n) : Cardinality(s) = m => \E f : Orders(s, m, f)}
<1>0. IsFiniteSet(1..n)
  BY FS_Interval
<1>1. 0 \in S
  <2> SUFFICES ASSUME NEW s \in SUBSET (1..n), Cardinality(s) = 0 PROVE \E f : Orders(s, 0, f)
    OBVIOUS
  <2>1. s = {} /\ 1..0 = {}
    <3>1. IsFiniteSet(s)
      BY <1>0, FS_Subset
    <3> QED BY <3>1, FS_EmptySet
  <2>2. Orders(s, 0, [i \in 1..0 |-> i])
    BY <2>1
  <2> QED BY <2>2
<1>2. ASSUME NEW m \in 0..n - 1, m \in S PROVE m + 1 \in S
  <2> SUFFICES ASSUME NEW s \in SUBSET (1..n), Cardinality(s) = m + 1
               PROVE  \E f : Orders(s, m + 1, f)
    OBVIOUS
  <2>1. IsFiniteSet(s) /\ s # {}
    <3>1. IsFiniteSet(s)
      BY <1>0, FS_Subset
    <3> QED BY <3>1, FS_EmptySet
  <2>2. PICK x \in s : \A y \in s : key[y] <= key[x]
    BY <2>1, LargestKey
  <2>3. PICK f : Orders(s \ {x}, m, f)
    <3>1. Cardinality(s \ {x}) = m
      <4>1. Cardinality(s \ {x}) = Cardinality(s) - 1
        BY <2>1, FS_RemoveElement
      <4>2. m \in Int /\ Cardinality(s) = m + 1
        OBVIOUS
      <4> QED BY <4>1, <4>2
    <3> QED BY <1>2, <3>1
  <2> DEFINE g == [i \in 1..m + 1 |-> IF i = m + 1 THEN x ELSE f[i]]
  <2>4. \A i \in 1..m + 1 : i = m + 1 \/ i \in 1..m
    OBVIOUS
  <2>5. m + 1 \in 1..m + 1 /\ \A i \in 1..m : i \in 1..m + 1 /\ i # m + 1
    OBVIOUS
  <2>6. g \in [1..m + 1 -> s]
    BY <2>3, <2>4
  <2>7. g[m + 1] = x /\ \A i \in 1..m : g[i] = f[i]
    BY <2>5
  <2> HIDE DEF g
  <2>8. \A i \in s : \E k \in 1..m + 1 : g[k] = i
    BY <2>3, <2>5, <2>7
  <2>9. ASSUME NEW j \in 1..m + 1, NEW k \in 1..m + 1, j < k PROVE key[g[j]] < key[g[k]]
    <3>1. j \in 1..m
      BY <2>9
    <3>2. CASE k = m + 1
      <4>1. f[j] \in s \ {x}
        BY <2>3, <3>1
      <4>2. key[f[j]] <= key[x] /\ key[f[j]] # key[x] /\ key[f[j]] \in Int /\ key[x] \in Int
        BY <2>2, <4>1
      <4>3. g[j] = f[j] /\ g[k] = x
        BY <2>7, <3>1, <3>2
      <4>4. key[f[j]] < key[x]
        BY <4>2
      <4> QED BY <4>3, <4>4
    <3>3. CASE k \in 1..m
      BY <2>3, <2>7, <2>9, <3>1, <3>3
    <3> QED BY <2>4, <3>2, <3>3
  <2>10. Orders(s, m + 1, g)
    BY <2>6, <2>8, <2>9
  <2> QED BY <2>10
<1>3. n \in S
  <2>1. 0 \in Int /\ n \in Int /\ n \in 0..n
    OBVIOUS
  <2>2. 0..n \subseteq S
    <3> HIDE DEF S
    <3> QED BY <1>1, <1>2, <2>1, IntervalInduction
  <2> QED BY <2>1, <2>2
<1>4. Cardinality(1..n) = n
  BY FS_Interval
<1>5. PICK f : Orders(1..n, n, f)
  BY <1>3, <1>4
<1> QED BY <1>5

\* What InPageOrder returns of a list without two failures of a page.
LEMMA PagesOrdered ==
    ASSUME NEW A, \A f \in A : f.page \in Int, NEW list \in Seq(A),
           \A j, k \in 1..Len(list) : list[j].page = list[k].page => j = k
    PROVE  LET sorted == InPageOrder(list)
           IN  /\ sorted \in Seq(A) /\ Len(sorted) = Len(list)
               /\ \A k \in 1..Len(list) : \E j \in 1..Len(list) : sorted[k] = list[j]
               /\ \A j \in 1..Len(list) : \E k \in 1..Len(list) : sorted[k] = list[j]
               /\ \A j, k \in 1..Len(list) : j < k => sorted[j].page < sorted[k].page
<1> DEFINE n == Len(list)
           key == [k \in 1..n |-> list[k].page]
           Sorts(s) == /\ s \in [1..n -> ToSet(list)]
                       /\ \A f \in ToSet(list) : \E k \in 1..n : s[k] = f
                       /\ \A j, k \in 1..n : j < k => s[j].page < s[k].page
<1>1. n \in Nat /\ DOMAIN list = 1..n /\ \A k \in 1..n : list[k] \in A
  OBVIOUS
<1>2. ToSet(list) = {list[k] : k \in 1..n}
  BY <1>1 DEF ToSet
<1>3. key \in [1..n -> Int] /\ \A j, k \in 1..n : key[j] = key[k] => j = k
  BY <1>1
<1>4. PICK place \in [1..n -> 1..n] :
         /\ \A i \in 1..n : \E k \in 1..n : place[k] = i
         /\ \A j, k \in 1..n : j < k => key[place[j]] < key[place[k]]
  <2> HIDE DEF n, key
  <2> QED BY <1>1, <1>3, OrderExists
<1> DEFINE order == [k \in 1..n |-> list[place[k]]]
<1>5. Sorts(order)
  <2>1. order \in [1..n -> ToSet(list)]
    BY <1>2, <1>4
  <2>2. \A f \in ToSet(list) : \E k \in 1..n : order[k] = f
    BY <1>2, <1>4
  <2>3. \A j, k \in 1..n : j < k => order[j].page < order[k].page
    BY <1>4
  <2> QED BY <2>1, <2>2, <2>3
<1> DEFINE sorted == InPageOrder(list)
<1>6. sorted = CHOOSE s \in [1..n -> ToSet(list)] :
                  /\ \A f \in ToSet(list) : \E k \in 1..n : s[k] = f
                  /\ \A j, k \in 1..n : j < k => s[j].page < s[k].page
  BY <1>1 DEF InPageOrder
<1>7. Sorts(sorted)
  <2> HIDE DEF sorted, order, n
  <2> QED BY <1>5, <1>6
<1>8. sorted \in Seq(A) /\ Len(sorted) = n
  <2>1. ToSet(list) \subseteq A
    BY <1>1, <1>2
  <2>2. sorted \in [1..n -> A]
    <3> HIDE DEF sorted, n
    <3> QED BY <1>7, <2>1
  <2> HIDE DEF sorted
  <2> QED BY <1>1, <2>2
<1> HIDE DEF sorted, n
<1>9. \A k \in 1..n : \E j \in 1..n : sorted[k] = list[j]
  BY <1>2, <1>7
<1>10. \A j \in 1..n : \E k \in 1..n : sorted[k] = list[j]
  BY <1>2, <1>7
<1> QED BY <1>7, <1>8, <1>9, <1>10 DEF n, sorted

\* Appending to a list adds the one element to what it holds.
LEMMA ToSetAppend ==
    ASSUME NEW A, NEW s \in Seq(A), NEW e \in A
    PROVE  ToSet(Append(s, e)) = ToSet(s) \cup {e}
<1>1. /\ DOMAIN Append(s, e) = 1..Len(s) + 1 /\ DOMAIN s = 1..Len(s) /\ Len(s) \in Nat
      /\ Append(s, e)[Len(s) + 1] = e
      /\ \A k \in 1..Len(s) : Append(s, e)[k] = s[k]
  BY AppendProperties
<1>2. /\ Len(s) + 1 \in 1..Len(s) + 1
      /\ \A k \in 1..Len(s) + 1 : k \in 1..Len(s) \/ k = Len(s) + 1
      /\ \A k \in 1..Len(s) : k \in 1..Len(s) + 1
  BY <1>1
<1> QED BY <1>1, <1>2 DEF ToSet

\* Where the elements of two lists are in their concatenation.
LEMMA Concatenated ==
    ASSUME NEW S, NEW s \in Seq(S), NEW t \in Seq(S)
    PROVE  /\ s \o t \in Seq(S) /\ Len(s \o t) = Len(s) + Len(t)
           /\ \A k \in 1..Len(s) : (s \o t)[k] = s[k]
           /\ \A k \in 1..Len(t) : (s \o t)[Len(s) + k] = t[k]
OBVIOUS

-----------------------------------------------------------------------------
(* The recognition of pages *)

\* Pages by their numbers, and how far the recognition of one has come.
Pages == DOMAIN pages
Recorded(p) == task[p] = "recorded"
Busy(p) == task[p] \in {"gateway", "local", "local_uncertain", "ended"}
WarningTypes == {"render_failed", "degraded", "structure", "empty", "uncertain", "failed"}

\* The loop over the pages: which it has come to, and which of them are scanned.
PagesWalked ==
    /\ at = 1 \/ phase # "configure"
    /\ at = Len(pages) + 1 \/ phase \notin {"ocr", "assemble", "done"}
    /\ \A k \in 1..Len(scanned) : scanned[k] < at
    /\ \A j, k \in 1..Len(scanned) : j < k => scanned[j] < scanned[k]
    /\ \A p \in Pages : task[p] = "none" <=> p \notin ToSet(scanned)

\* Where the recognition of pages is, and what was recorded of those that ended.
PagesRecognized ==
    /\ phase \in {"configure", "pages", "rejected"} =>
          \A p \in Pages : task[p] \in {"none", "queued"}
    /\ phase \in {"assemble", "done"} => \A p \in Pages : task[p] \in {"none", "recorded"}
    /\ \A p \in Pages : Recorded(p) <=> p \in ToSet(results)
    /\ \A p \in Pages : task[p] \in {"ended", "recorded"} => outcome[p] \in CallbackAnswers
    /\ \A p \in Pages : text[p] = IF Recorded(p) /\ HasText(outcome[p]) THEN p ELSE 0

\* Without threads one page is recognized at a time, in order.
InTurn ==
    (Serial /\ phase = "ocr") =>
        /\ \A p, q \in Pages : Busy(p) /\ Busy(q) => p = q
        /\ \A p, q \in Pages : Busy(p) /\ task[q] = "queued" => p < q
        /\ \A p, q \in Pages : Recorded(p) /\ (Busy(q) \/ task[q] = "queued") => p < q

Ascend(list) == \A j, k \in 1..Len(list) : j < k => list[j].page < list[k].page

\* A page whose text is not known has one failure, and no other page has one.
FailuresTold ==
    /\ \A j, k \in 1..Len(failures) : failures[j].page = failures[k].page => j = k
    /\ \A k \in 1..Len(failures) : Recorded(failures[k].page) /\ text[failures[k].page] = 0
    /\ \A p \in Pages : Recorded(p) /\ text[p] = 0 => \E k \in 1..Len(failures) : failures[k].page = p
    /\ Serial \/ phase \in {"assemble", "done"} => Ascend(failures)

\* What is known of the pages before they are put together.
Collected ==
    /\ warnings \in Seq([page : Pages, type : WarningTypes])
    /\ phase # "done" =>
          /\ \A k \in 1..Len(warnings) : ~Lost(warnings[k])
          /\ \A p \in Pages : segments[p] = IF p < at /\ p \notin ToSet(scanned) THEN {p} ELSE {}
    /\ DOMAIN segments = Pages
    /\ \A p \in Pages : segments[p] \subseteq {p}

PagesInv ==
    /\ TypeOK
    /\ PagesWalked /\ PagesRecognized /\ InTurn /\ FailuresTold /\ Collected
    /\ PagesAccounted /\ FailuresInPageOrder

\* Pages are numbers, from 1 to the last.
LEMMA PageNumbers ==
    ASSUME TypeOK
    PROVE  /\ Len(pages) \in Nat /\ Pages = 1..Len(pages) /\ IsFiniteSet(Pages)
           /\ workers \in Nat
           /\ Len(scanned) \in Nat /\ DOMAIN scanned = 1..Len(scanned)
           /\ ToSet(scanned) = {scanned[k] : k \in 1..Len(scanned)}
           /\ ToSet(scanned) \subseteq Pages
           /\ Len(results) \in Nat /\ DOMAIN results = 1..Len(results)
           /\ ToSet(results) = {results[k] : k \in 1..Len(results)}
           /\ Len(failures) \in Nat /\ DOMAIN failures = 1..Len(failures)
           /\ \A k \in 1..Len(failures) : failures[k].page \in Pages
<1>1. pages \in Seq({"native", "scanned", "degraded"}) /\ workers \in Nat
  BY RecognitionAssumption DEF TypeOK, InputsAssumption
<1>2. Len(pages) \in Nat /\ DOMAIN pages = 1..Len(pages)
  BY <1>1
<1>3. IsFiniteSet(1..Len(pages))
  BY <1>2, FS_Interval
<1>4. /\ scanned \in Seq(Pages) /\ results \in Seq(ToSet(scanned))
      /\ failures \in Seq([page : Pages, status : CallbackAnswers])
  BY DEF TypeOK, Pages
<1>5. /\ Len(scanned) \in Nat /\ DOMAIN scanned = 1..Len(scanned)
      /\ \A k \in 1..Len(scanned) : scanned[k] \in Pages
      /\ Len(results) \in Nat /\ DOMAIN results = 1..Len(results)
      /\ Len(failures) \in Nat /\ DOMAIN failures = 1..Len(failures)
      /\ \A k \in 1..Len(failures) : failures[k].page \in Pages
  <2>1. ASSUME NEW S, NEW s \in Seq(S)
        PROVE  Len(s) \in Nat /\ DOMAIN s = 1..Len(s) /\ \A k \in 1..Len(s) : s[k] \in S
    OBVIOUS
  <2>2. \A k \in 1..Len(failures) : failures[k] \in [page : Pages, status : CallbackAnswers]
    BY <1>4, <2>1
  <2> QED BY <1>4, <2>1, <2>2
<1> QED BY <1>1, <1>2, <1>3, <1>5 DEF Pages, ToSet

\* Threads that take up no page make fewer pages in work.
LEMMA RunningShrinks ==
    ASSUME TypeOK, Running' \subseteq Running, Serial' = Serial, workers' = workers
    PROVE  (Cardinality(Running) <= IF Serial THEN 1 ELSE workers)'
<1>1. IsFiniteSet(Running) /\ Running \in SUBSET Pages
  <2>1. Running \in SUBSET Pages
    BY DEF Running, Pages
  <2> QED BY <2>1, PageNumbers, FS_Subset
<1>2. Cardinality(Running') <= Cardinality(Running) /\ Cardinality(Running') \in Nat
      /\ Cardinality(Running) \in Nat
  BY <1>1, FS_Subset, FS_CardinalityType
<1>3. Cardinality(Running) <= IF Serial THEN 1 ELSE workers
  BY DEF TypeOK
<1>4. workers \in Nat
  BY PageNumbers
<1> QED BY <1>2, <1>3, <1>4

LEMMA InitPages == Init => PagesInv
<1> SUFFICES ASSUME Init PROVE PagesInv
  OBVIOUS
<1>1. pages \in Seq({"native", "scanned", "degraded"}) /\ workers \in Nat
  BY RecognitionAssumption DEF Init, InputsAssumption
<1>2. /\ Len(pages) \in Nat /\ DOMAIN pages = 1..Len(pages)
      /\ phase = "configure" /\ at = 1 /\ scanned = <<>> /\ png = {}
      /\ task = [p \in Pages |-> "none"] /\ outcome = [p \in Pages |-> "none"]
      /\ results = <<>> /\ text = [p \in Pages |-> 0] /\ failures = <<>>
      /\ segments = [p \in Pages |-> {}] /\ warnings = <<>>
      /\ Len(scanned) = 0 /\ Len(failures) = 0 /\ Len(warnings) = 0
  BY <1>1 DEF Init, Pages
<1>3. ToSet(scanned) = {} /\ ToSet(results) = {}
  BY <1>2 DEF ToSet
<1>4. TypeOK
  <2>1. Running = {} /\ Cardinality({}) = 0
    BY <1>2, FS_EmptySet DEF Running, Pages
  <2>2. Cardinality(Running) <= IF Serial THEN 1 ELSE workers
    BY <1>1, <2>1 DEF Serial
  <2>3. /\ scanned \in Seq(DOMAIN pages) /\ results \in Seq(ToSet(scanned)) /\ IsInjective(results)
        /\ failures \in Seq([page : DOMAIN pages, status : CallbackAnswers])
    BY <1>2 DEF IsInjective
  <2>4. at \in 1..Len(pages) + 1 /\ png \subseteq ToSet(scanned)
    BY <1>2
  <2>5. /\ pages \in Documents /\ options \in Options /\ workers \in Workers
    BY DEF Init
  <2> QED BY <1>2, <2>2, <2>3, <2>4, <2>5 DEF TypeOK, Pages
<1>5. PagesWalked /\ PagesRecognized /\ InTurn
  BY <1>2, <1>3 DEF PagesWalked, PagesRecognized, InTurn, Recorded
<1>6. FailuresTold
  BY <1>2 DEF FailuresTold, Recorded, Ascend
<1>7. Collected
  BY <1>2, <1>3 DEF Collected, Pages
<1>8. PagesAccounted /\ FailuresInPageOrder
  BY <1>2 DEF PagesAccounted, FailuresInPageOrder
<1> QED BY <1>4, <1>5, <1>6, <1>7, <1>8 DEF PagesInv

\* Nothing changes.
LEMMA StutterPages ==
    ASSUME PagesInv, UNCHANGED vars
    PROVE  PagesInv'
<1> USE DEF vars, document, collected, recognized, recorded
<1>1. TypeOK'
  BY DEF PagesInv, TypeOK, Running, Serial
<1>2. PagesWalked'
  BY DEF PagesInv, PagesWalked, Pages
<1>3. PagesRecognized'
  BY DEF PagesInv, PagesRecognized, Pages, Recorded
<1>4. InTurn'
  BY DEF PagesInv, InTurn, Pages, Recorded, Busy, Serial
<1>5. FailuresTold'
  BY DEF PagesInv, FailuresTold, Pages, Recorded, Serial, Ascend
<1>6. Collected'
  BY DEF PagesInv, Collected, Pages
<1>7. PagesAccounted' /\ FailuresInPageOrder'
  BY DEF PagesInv, PagesAccounted, FailuresInPageOrder
<1> QED BY <1>1, <1>2, <1>3, <1>4, <1>5, <1>6, <1>7 DEF PagesInv

\* Warnings that no text was lost.
Other == {w \in [page : Pages, type : WarningTypes] : ~Lost(w)}

LEMMA OtherWarnings ==
    ASSUME NEW list
    PROVE  (list \in Seq([page : Pages, type : WarningTypes]) /\ \A k \in 1..Len(list) : ~Lost(list[k]))
              <=> list \in Seq(Other)
<1> DEFINE W == [page : Pages, type : WarningTypes]
<1>1. \A w : w \in Other <=> w \in W /\ ~Lost(w)
  BY DEF Other
<1>2. CASE list \in Seq(W)
  <2>1. \A k \in 1..Len(list) : list[k] \in W
    <3> HIDE DEF W
    <3> QED BY <1>2
  <2>2. (\A k \in 1..Len(list) : list[k] \in Other) <=> list \in Seq(Other)
    <3> HIDE DEF W
    <3> QED BY <1>2
  <2> QED BY <1>1, <1>2, <2>1, <2>2
<1>3. CASE list \in Seq(Other)
  <2>1. \A k \in 1..Len(list) : list[k] \in Other
    BY <1>3
  <2>2. list \in Seq(W)
    <3> HIDE DEF W
    <3> QED BY <1>1, <1>3
  <2> QED BY <1>1, <1>3, <2>1, <2>2
<1> QED BY <1>2, <1>3

LEMMA ConfigurePages ==
    ASSUME PagesInv, Configure
    PROVE  PagesInv'
<1>1. /\ phase = "configure" /\ phase' \in {"rejected", "pages"}
      /\ UNCHANGED <<pages, options, workers, at, scanned, png, task, outcome, results, text,
                     failures, segments, warnings>>
  BY DEF Configure, document, collected, recognized, recorded
<1>2. TypeOK'
  BY <1>1 DEF PagesInv, TypeOK, Running, Serial
<1>3. PagesWalked'
  BY <1>1 DEF PagesInv, PagesWalked, Pages
<1>4. PagesRecognized' /\ InTurn'
  BY <1>1 DEF PagesInv, PagesRecognized, InTurn, Pages, Recorded
<1>5. FailuresTold'
  BY <1>1 DEF PagesInv, FailuresTold, Pages, Recorded, Serial, Ascend
<1>6. Collected'
  BY <1>1 DEF PagesInv, Collected, Pages
<1>7. PagesAccounted' /\ FailuresInPageOrder'
  BY <1>1 DEF PagesAccounted, FailuresInPageOrder
<1> QED BY <1>2, <1>3, <1>4, <1>5, <1>6, <1>7 DEF PagesInv

LEMMA EndPagesPages ==
    ASSUME PagesInv, EndPages
    PROVE  PagesInv'
<1>1. /\ phase = "pages" /\ phase' = "ocr" /\ at > Len(pages)
      /\ UNCHANGED <<pages, options, workers, at, scanned, png, task, outcome, results, text,
                     failures, segments, warnings>>
  BY DEF EndPages, document, collected, recognized, recorded
<1>2. TypeOK'
  BY <1>1 DEF PagesInv, TypeOK, Running, Serial
<1>3. PagesWalked'
  <2>1. at = Len(pages) + 1
    <3>1. Len(pages) \in Nat /\ at \in 1..Len(pages) + 1
      BY PageNumbers DEF PagesInv, TypeOK
    <3> QED BY <1>1, <3>1
  <2> QED BY <1>1, <2>1 DEF PagesInv, PagesWalked, Pages
<1>4. PagesRecognized' /\ InTurn'
  BY <1>1 DEF PagesInv, PagesRecognized, InTurn, Pages, Recorded, Busy
<1>5. FailuresTold'
  BY <1>1 DEF PagesInv, FailuresTold, Pages, Recorded, Serial, Ascend
<1>6. Collected'
  BY <1>1 DEF PagesInv, Collected, Pages
<1>7. PagesAccounted' /\ FailuresInPageOrder'
  BY <1>1 DEF PagesAccounted, FailuresInPageOrder
<1> QED BY <1>2, <1>3, <1>4, <1>5, <1>6, <1>7 DEF PagesInv

LEMMA ReadPagePages ==
    ASSUME PagesInv, ReadPage
    PROVE  PagesInv'
<1>1. /\ phase = "pages" /\ phase' = "pages" /\ at <= Len(pages) /\ at' = at + 1
      /\ segments' = [segments EXCEPT ![at] = {at}]
      /\ UNCHANGED <<pages, options, workers, scanned, png, task, outcome, results, text,
                     failures, warnings>>
  BY DEF ReadPage, document, recognized, recorded
<1>2. /\ Len(pages) \in Nat /\ at \in 1..Len(pages) + 1 /\ Pages = 1..Len(pages)
      /\ ToSet(scanned) = {scanned[k] : k \in 1..Len(scanned)}
      /\ \A k \in 1..Len(scanned) : scanned[k] \in Int
  BY PageNumbers, SMTT(30) DEF PagesInv, TypeOK
<1>3. at \in Pages /\ at' \in 1..Len(pages) + 1
  BY <1>1, <1>2
<1>4. TypeOK'
  BY <1>1, <1>3 DEF PagesInv, TypeOK, Running, Serial
<1>5. PagesWalked'
  BY <1>1, <1>2 DEF PagesInv, PagesWalked, Pages
<1>6. PagesRecognized' /\ InTurn'
  BY <1>1 DEF PagesInv, PagesRecognized, InTurn, Pages, Recorded
<1>7. FailuresTold'
  BY <1>1 DEF PagesInv, FailuresTold, Pages, Recorded, Serial, Ascend
<1>8. Collected'
  <2>1. at \notin ToSet(scanned)
    BY <1>2 DEF PagesInv, PagesWalked
  <2>2. DOMAIN segments = Pages
    BY DEF PagesInv, Collected
  <2>3. \A p \in Pages : segments'[p] = IF p < at' /\ p \notin ToSet(scanned) THEN {p} ELSE {}
    <3> SUFFICES ASSUME NEW p \in Pages
                 PROVE  segments'[p] = IF p < at' /\ p \notin ToSet(scanned) THEN {p} ELSE {}
      OBVIOUS
    <3>1. CASE p = at
      BY <1>1, <1>2, <2>1, <2>2, <3>1
    <3>2. CASE p # at
      <4>1. segments'[p] = segments[p]
        BY <1>1, <2>2, <3>2
      <4>2. p < at + 1 <=> p < at
        BY <1>2, <3>2
      <4> QED BY <1>1, <4>1, <4>2 DEF PagesInv, Collected
    <3> QED BY <3>1, <3>2
  <2> QED BY <1>1, <2>3 DEF PagesInv, Collected, Pages
<1>9. PagesAccounted' /\ FailuresInPageOrder'
  BY <1>1 DEF PagesAccounted, FailuresInPageOrder
<1> QED BY <1>4, <1>5, <1>6, <1>7, <1>8, <1>9 DEF PagesInv

LEMMA ScanPagePages ==
    ASSUME PagesInv, ScanPage
    PROVE  PagesInv'
<1>1. PICK rendered \in {"yes", "missing", "failed"} :
         /\ png' = IF rendered = "yes" THEN png \cup {at} ELSE png
         /\ warnings' = warnings
                \o (IF rendered = "failed" THEN << Warning(at, "render_failed") >> ELSE <<>>)
                \o (IF pages[at] = "degraded" THEN << Warning(at, "degraded") >> ELSE <<>>)
  BY DEF ScanPage
<1>2. /\ phase = "pages" /\ phase' = "pages" /\ at <= Len(pages) /\ at' = at + 1
      /\ scanned' = Append(scanned, at)
      /\ task' = [task EXCEPT ![at] = "queued"]
      /\ UNCHANGED <<pages, options, workers, outcome, results, text, failures, segments>>
  BY DEF ScanPage, document, recorded
<1>3. /\ Len(pages) \in Nat /\ at \in 1..Len(pages) + 1 /\ Pages = 1..Len(pages) /\ workers \in Nat
      /\ Len(scanned) \in Nat
      /\ ToSet(scanned) = {scanned[k] : k \in 1..Len(scanned)}
      /\ \A k \in 1..Len(scanned) : scanned[k] \in Pages /\ scanned[k] \in Int
  BY PageNumbers, SMTT(30) DEF PagesInv, TypeOK
<1>4. at \in Pages /\ at' \in 1..Len(pages) + 1
  BY <1>2, <1>3
<1>5. /\ scanned \in Seq(Pages) /\ scanned' \in Seq(Pages) /\ Len(scanned') = Len(scanned) + 1
      /\ scanned'[Len(scanned) + 1] = at
      /\ \A k \in 1..Len(scanned) : scanned'[k] = scanned[k]
      /\ \A k \in 1..Len(scanned) + 1 : k \in 1..Len(scanned) \/ k = Len(scanned) + 1
  <2>1. scanned \in Seq(Pages)
    BY DEF PagesInv, TypeOK, Pages
  <2> QED BY <1>2, <1>3, <1>4, <2>1, AppendProperties
<1>6. ToSet(scanned)' = ToSet(scanned) \cup {at}
  BY <1>2, <1>4, <1>5, ToSetAppend
<1>7. at \notin ToSet(scanned)
  BY <1>3 DEF PagesInv, PagesWalked
<1>8. DOMAIN task = Pages /\ task' \in [Pages -> {"none", "queued"}]
      /\ \A p \in Pages : task'[p] = IF p = at THEN "queued" ELSE task[p]
  <2>1. DOMAIN task = Pages /\ \A p \in Pages : task[p] \in {"none", "queued"}
    BY <1>2 DEF PagesInv, TypeOK, PagesRecognized, Pages
  <2> QED BY <1>2, <1>4, <2>1
<1>9. TypeOK'
  <2>1. (Cardinality(Running) <= IF Serial THEN 1 ELSE workers)'
    <3>1. Running' = {}
      BY <1>2, <1>8 DEF Running, Pages
    <3>2. workers' \in Nat
      BY <1>2, <1>3
    <3>3. Cardinality(Running') = 0
      BY <3>1, FS_EmptySet
    <3>4. Serial' \/ ~Serial'
      OBVIOUS
    <3> QED BY <3>2, <3>3, <3>4
  <2>2. results \in Seq(ToSet(scanned)')
    <3>1. results \in Seq(ToSet(scanned))
      BY DEF PagesInv, TypeOK
    <3>2. ToSet(scanned) \subseteq ToSet(scanned)'
      BY <1>6
    <3> HIDE DEF Pages
    <3> QED BY <3>1, <3>2
  <2>3. png' \subseteq ToSet(scanned)'
    BY <1>1, <1>6 DEF PagesInv, TypeOK
  <2> QED BY <1>2, <1>4, <1>5, <1>8, <2>1, <2>2, <2>3 DEF PagesInv, TypeOK, Pages
<1>10. PagesWalked'
  <2>1. \A k \in 1..Len(scanned') : scanned'[k] < at'
    BY <1>2, <1>3, <1>5 DEF PagesInv, PagesWalked
  <2>2. \A j, k \in 1..Len(scanned') : j < k => scanned'[j] < scanned'[k]
    <3> SUFFICES ASSUME NEW j \in 1..Len(scanned'), NEW k \in 1..Len(scanned'), j < k
                 PROVE  scanned'[j] < scanned'[k]
      OBVIOUS
    <3>0. j \in 1..Len(scanned) /\ k \in 1..Len(scanned) + 1
      BY <1>3, <1>5
    <3>1. CASE k = Len(scanned) + 1
      BY <1>5, <3>0, <3>1 DEF PagesInv, PagesWalked
    <3>2. CASE k \in 1..Len(scanned)
      BY <1>5, <3>0, <3>2 DEF PagesInv, PagesWalked
    <3> QED BY <1>5, <3>0, <3>1, <3>2
  <2>3. \A p \in Pages : task'[p] = "none" <=> p \notin ToSet(scanned)'
    BY <1>6, <1>8 DEF PagesInv, PagesWalked
  <2> QED BY <1>2, <2>1, <2>2, <2>3 DEF PagesWalked, Pages
<1>11. PagesRecognized' /\ InTurn'
  <2>1. \A p \in Pages : ~Recorded(p) /\ ~Recorded(p)' /\ task'[p] \notin {"ended", "recorded"}
    BY <1>2, <1>8 DEF PagesInv, PagesRecognized, Recorded
  <2> QED BY <1>2, <1>8, <2>1 DEF PagesInv, PagesRecognized, InTurn, Pages
<1>12. FailuresTold'
  <2>1. \A p \in Pages : ~Recorded(p) /\ ~Recorded(p)'
    BY <1>2, <1>8 DEF PagesInv, PagesRecognized, Recorded
  <2>2. 1..Len(failures) = {}
    BY <2>1, PageNumbers DEF PagesInv, FailuresTold
  <2> QED BY <1>2, <2>1, <2>2 DEF FailuresTold, Pages, Ascend
<1>13. Collected'
  <2>1. warnings \in Seq(Other)
    BY <1>2, OtherWarnings DEF PagesInv, Collected
  <2>2. Warning(at, "render_failed") \in Other /\ Warning(at, "degraded") \in Other
    BY <1>4 DEF Warning, Other, WarningTypes, Lost
  <2>3. \A w \in Other : <<w>> \in Seq(Other) /\ <<>> \in Seq(Other)
    OBVIOUS
  <2>4. ASSUME NEW s \in Seq(Other), NEW t \in Seq(Other), NEW u \in Seq(Other)
        PROVE  s \o t \o u \in Seq(Other)
    BY ConcatProperties
  <2>5. warnings' \in Seq(Other)
    BY <1>1, <2>1, <2>2, <2>3, <2>4
  <2>6. /\ warnings' \in Seq([page : Pages, type : WarningTypes])
        /\ \A k \in 1..Len(warnings') : ~Lost(warnings'[k])
    BY <2>5, OtherWarnings
  <2>7. (/\ warnings \in Seq([page : Pages, type : WarningTypes])
         /\ \A k \in 1..Len(warnings) : ~Lost(warnings[k]))'
    BY <1>2, <2>6 DEF Pages, Lost
  <2>8. \A p \in Pages : (p < at' /\ p \notin ToSet(scanned)') <=> (p < at /\ p \notin ToSet(scanned))
    <3> SUFFICES ASSUME NEW p \in Pages
                 PROVE  (p < at' /\ p \notin ToSet(scanned)') <=> (p < at /\ p \notin ToSet(scanned))
      OBVIOUS
    <3>1. p < at' <=> p < at \/ p = at
      BY <1>2, <1>3
    <3>2. ~(at < at)
      BY <1>3
    <3>3. p \in ToSet(scanned)' <=> p \in ToSet(scanned) \/ p = at
      BY <1>6
    <3> QED BY <3>1, <3>2, <3>3
  <2>9. \A p \in Pages : segments'[p] = IF p < at' /\ p \notin ToSet(scanned)' THEN {p} ELSE {}
    BY <1>2, <2>8 DEF PagesInv, Collected
  <2> QED BY <1>2, <2>7, <2>9 DEF PagesInv, Collected, Pages
<1>14. PagesAccounted' /\ FailuresInPageOrder'
  BY <1>2 DEF PagesAccounted, FailuresInPageOrder
<1> QED BY <1>9, <1>10, <1>11, <1>12, <1>13, <1>14 DEF PagesInv

\* The recognition of a page goes on: a thread takes the page, goes from one
\* recognizer to another, or has its answer.
LEMMA PageGoesOn ==
    ASSUME PagesInv, NEW p \in Pages, NEW t \in {"gateway", "local", "local_uncertain", "ended"},
           NEW answer, t = "ended" => answer \in CallbackAnswers,
           phase = "ocr",
           \/ Busy(p) /\ task[p] # "ended"
           \/ /\ task[p] = "queued" /\ t # "ended"
              /\ \A q \in Pages : task[q] = "queued" => p <= q
              /\ IF Serial THEN Running \cup Ended = {} ELSE Cardinality(Running) < workers,
           task' = [task EXCEPT ![p] = t],
           outcome' = IF t = "ended" THEN [outcome EXCEPT ![p] = answer] ELSE outcome,
           UNCHANGED <<document, phase, collected, recorded, segments, warnings>>
    PROVE  PagesInv'
<1>1. /\ phase' = "ocr"
      /\ UNCHANGED <<pages, options, workers, at, scanned, png, results, text,
                     failures, segments, warnings>>
  BY DEF document, collected, recorded
<1>2. /\ task \in [Pages -> {"none", "queued", "gateway", "local", "local_uncertain", "ended", "recorded"}]
      /\ outcome \in [Pages -> CallbackAnswers \cup {"none"}]
      /\ \A q \in Pages : q \in Int
      /\ workers \in Nat
  BY PageNumbers DEF PagesInv, TypeOK, Pages
<1>3. /\ task' \in [Pages -> {"none", "queued", "gateway", "local", "local_uncertain", "ended", "recorded"}]
      /\ task'[p] = t /\ \A q \in Pages : q # p => task'[q] = task[q]
  BY <1>2
<1>4. /\ outcome' \in [Pages -> CallbackAnswers \cup {"none"}]
      /\ t = "ended" => outcome'[p] \in CallbackAnswers
      /\ \A q \in Pages : q # p => outcome'[q] = outcome[q]
  BY <1>2
<1>5. TypeOK'
  <2>1. (Cardinality(Running) <= IF Serial THEN 1 ELSE workers)'
    <3>1. CASE Busy(p) /\ task[p] # "ended"
      <4>1. Running' \subseteq Running
        BY <1>1, <1>2, <1>3, <3>1 DEF Running, Pages, Busy
      <4> QED BY <1>1, <4>1, RunningShrinks DEF PagesInv, Serial
    <3>2. CASE task[p] = "queued" /\ IF Serial THEN Running \cup Ended = {} ELSE Cardinality(Running) < workers
      <4>1. Running' \subseteq Running \cup {p}
        BY <1>1, <1>3 DEF Running, Pages
      <4>2. IsFiniteSet(Running)
        <5>1. Running \in SUBSET Pages
          BY DEF Running, Pages
        <5> QED BY <5>1, PageNumbers, FS_Subset DEF PagesInv
      <4>3. Cardinality(Running \cup {p}) <= Cardinality(Running) + 1 /\ IsFiniteSet(Running \cup {p})
            /\ Cardinality(Running) \in Nat
        <5>1. Cardinality(Running) \in Nat
          BY <4>2, FS_CardinalityType
        <5>2. /\ IsFiniteSet(Running \cup {p})
              /\ \/ Cardinality(Running \cup {p}) = Cardinality(Running)
                 \/ Cardinality(Running \cup {p}) = Cardinality(Running) + 1
          BY <4>2, FS_AddElement
        <5> QED BY <5>1, <5>2
      <4>4. Cardinality(Running') <= Cardinality(Running \cup {p}) /\ Cardinality(Running') \in Nat
            /\ Cardinality(Running \cup {p}) \in Nat
        BY <4>1, <4>3, FS_Subset, FS_CardinalityType
      <4>5. Serial => Cardinality(Running) = 0
        <5>1. Serial => Running = {}
          BY <3>2
        <5> QED BY <5>1, FS_EmptySet
      <4>6. ~Serial => Cardinality(Running) + 1 <= workers
        BY <1>2, <3>2, <4>3
      <4>7. Cardinality(Running') <= IF Serial THEN 1 ELSE workers
        BY <1>2, <4>3, <4>4, <4>5, <4>6
      <4>8. Serial' = Serial
        BY <1>1 DEF Serial
      <4> QED BY <1>1, <4>7, <4>8
    <3> QED BY <3>1, <3>2
  <2> QED BY <1>1, <1>3, <1>4, <2>1 DEF PagesInv, TypeOK, Pages
<1>6. task[p] # "none" /\ ~Recorded(p) /\ ~Recorded(p)' /\ Busy(p)'
  BY <1>3 DEF Busy, Recorded
<1>7. PagesWalked'
  <2>1. \A q \in Pages : task'[q] = "none" <=> task[q] = "none"
    BY <1>3, <1>6
  <2> QED BY <1>1, <2>1 DEF PagesInv, PagesWalked, Pages
<1>8. \A q \in Pages : Recorded(q)' <=> Recorded(q)
  BY <1>3, <1>6 DEF Recorded
<1>9. PagesRecognized'
  <2>1. \A q \in Pages : task'[q] \in {"ended", "recorded"} => outcome'[q] \in CallbackAnswers
    BY <1>3, <1>4, <1>6 DEF PagesInv, PagesRecognized, Recorded
  <2>2. \A q \in Pages : text[q] = IF Recorded(q)' /\ HasText(outcome'[q]) THEN q ELSE 0
    BY <1>4, <1>6, <1>8 DEF PagesInv, PagesRecognized
  <2>3. \A q \in Pages : Recorded(q)' <=> q \in ToSet(results)
    BY <1>8 DEF PagesInv, PagesRecognized
  <2> QED BY <1>1, <2>1, <2>2, <2>3 DEF PagesRecognized, Pages
<1>10. InTurn'
  <2> SUFFICES ASSUME Serial
               PROVE  /\ \A q, r \in Pages : Busy(q)' /\ Busy(r)' => q = r
                      /\ \A q, r \in Pages : Busy(q)' /\ task'[r] = "queued" => q < r
                      /\ \A q, r \in Pages : Recorded(q)' /\ (Busy(r)' \/ task'[r] = "queued") => q < r
    BY <1>1 DEF InTurn, Serial, Pages
  <2>1. /\ \A q, r \in Pages : Busy(q) /\ Busy(r) => q = r
        /\ \A q, r \in Pages : Busy(q) /\ task[r] = "queued" => q < r
        /\ \A q, r \in Pages : Recorded(q) /\ (Busy(r) \/ task[r] = "queued") => q < r
    BY DEF PagesInv, InTurn
  <2>2. \A q \in Pages : q # p => (Busy(q)' <=> Busy(q))
    BY <1>3 DEF Busy
  <2>3. CASE Busy(p)
    BY <1>3, <1>6, <1>8, <2>1, <2>2, <2>3 DEF Busy
  <2>4. CASE task[p] = "queued" /\ Running \cup Ended = {} /\ \A q \in Pages : task[q] = "queued" => p <= q
    <3>1. \A q \in Pages : ~Busy(q)
      BY <2>4 DEF Running, Ended, Busy, Pages
    <3>2. \A q \in Pages : Busy(q)' => q = p
      BY <2>2, <3>1
    <3>3. \A r \in Pages : task'[r] = "queued" => task[r] = "queued" /\ r # p
      BY <1>3
    <3>4. \A r \in Pages : task'[r] = "queued" => p < r
      BY <1>2, <2>4, <3>3
    <3> QED BY <1>8, <2>1, <2>4, <3>2, <3>3, <3>4
  <2> QED BY <2>3, <2>4
<1>11. FailuresTold'
  <2>1. \A k \in 1..Len(failures) : failures[k].page \in Pages
    BY PageNumbers DEF PagesInv
  <2> QED BY <1>1, <1>8, <2>1 DEF PagesInv, FailuresTold, Pages, Serial, Ascend
<1>12. Collected'
  BY <1>1 DEF PagesInv, Collected, Pages
<1>13. PagesAccounted' /\ FailuresInPageOrder'
  BY <1>1 DEF PagesAccounted, FailuresInPageOrder
<1> QED BY <1>5, <1>7, <1>9, <1>10, <1>11, <1>12, <1>13 DEF PagesInv

LEMMA TakePages ==
    ASSUME PagesInv, Take
    PROVE  PagesInv'
<1> DEFINE p == CHOOSE q \in Queued : \A r \in Queued : q <= r
           asks == Callback \/ (Vision /\ p \in png)
           t == IF asks THEN "gateway" ELSE "local"
<1>1. /\ phase = "ocr" /\ Queued # {}
      /\ IF Serial THEN Running \cup Ended = {} ELSE Cardinality(Running) < workers
      /\ task' = [task EXCEPT ![p] = t]
      /\ outcome' = outcome
      /\ UNCHANGED <<document, phase, collected, recorded, segments, warnings>>
  BY DEF Take
<1>2. p \in Queued /\ \A r \in Queued : p <= r
  <2>1. Len(pages) \in Nat /\ Queued \in SUBSET (1..Len(pages))
    BY PageNumbers DEF PagesInv, Queued, Pages
  <2>2. \A r \in Queued : r \in Int
    BY <2>1
  <2>3. \E q \in Queued : \A r \in Queued : q <= r
    <3> DEFINE key == [i \in 1..Len(pages) |-> 0 - i]
    <3>1. key \in [1..Len(pages) -> Int]
      BY <2>1
    <3>2. PICK q \in Queued : \A r \in Queued : key[r] <= key[q]
      <4> HIDE DEF key
      <4> QED BY <1>1, <2>1, <3>1, LargestKey
    <3>3. ASSUME NEW r \in Queued PROVE q <= r
      <4>1. key[r] = 0 - r /\ key[q] = 0 - q /\ key[r] <= key[q]
        BY <2>1, <3>2
      <4> QED BY <2>2, <4>1
    <3> QED BY <3>3
  <2> QED BY <2>3
<1>3. p \in Pages /\ task[p] = "queued" /\ \A q \in Pages : task[q] = "queued" => p <= q
  BY <1>2 DEF Queued, Pages
<1>4. t \in {"gateway", "local"}
  OBVIOUS
<1> HIDE DEF p, t
<1> QED BY <1>1, <1>3, <1>4, PageGoesOn

LEMMA AnswerPages ==
    ASSUME PagesInv, NEW p \in Pages, AskCallback(p) \/ AskVision(p) \/ AskLocal(p)
    PROVE  PagesInv'
<1>1. phase = "ocr"
  <2>1. task[p] \in {"gateway", "local", "local_uncertain"}
    BY DEF AskCallback, AskVision, AskLocal
  <2> QED BY <2>1 DEF PagesInv, PagesRecognized, TypeOK
<1>2. /\ Busy(p) /\ task[p] # "ended"
      /\ UNCHANGED <<document, phase, collected, recorded, segments, warnings>>
  BY DEF Busy, AskCallback, AskVision, AskLocal
<1>3. \/ \E answer \in CallbackAnswers : EndTask(p, answer)
      \/ \E t \in {"local", "local_uncertain"} : task' = [task EXCEPT ![p] = t] /\ outcome' = outcome
  <2>1. CASE AskCallback(p)
    BY <2>1 DEF AskCallback
  <2>2. CASE AskVision(p)
    <3>1. PICK answer \in VisionAnswers :
            CASE answer = "raised" -> task' = [task EXCEPT ![p] = "local"] /\ UNCHANGED outcome
              [] answer = "uncertain" -> /\ task' = [task EXCEPT ![p] = "local_uncertain"]
                                         /\ UNCHANGED outcome
              [] OTHER -> EndTask(p, answer)
      BY <2>2 DEF AskVision
    <3>2. CASE answer = "raised"
      BY <3>1, <3>2
    <3>3. CASE answer = "uncertain"
      BY <3>1, <3>3
    <3>4. CASE answer # "raised" /\ answer # "uncertain"
      BY <3>1, <3>4 DEF CallbackAnswers
    <3> QED BY <3>2, <3>3, <3>4
  <2>3. CASE AskLocal(p)
    <3>1. PICK answer \in {"string", "blank", ""} :
             EndTask(p, IF answer # "" THEN answer
                        ELSE IF task[p] = "local_uncertain" THEN "uncertain" ELSE "blank")
      BY <2>3 DEF AskLocal
    <3> DEFINE found == IF answer # "" THEN answer
                        ELSE IF task[p] = "local_uncertain" THEN "uncertain" ELSE "blank"
    <3>2. found \in CallbackAnswers
      BY DEF CallbackAnswers, VisionAnswers
    <3> HIDE DEF found
    <3> QED BY <3>1, <3>2 DEF found
  <2> QED BY <2>1, <2>2, <2>3
<1>4. CASE \E answer \in CallbackAnswers : EndTask(p, answer)
  <2>1. PICK answer \in CallbackAnswers : EndTask(p, answer)
    BY <1>4
  <2>2. task' = [task EXCEPT ![p] = "ended"] /\ outcome' = [outcome EXCEPT ![p] = answer]
    BY <2>1 DEF EndTask
  <2> QED BY <1>1, <1>2, <2>2, PageGoesOn
<1>5. CASE \E t \in {"local", "local_uncertain"} : task' = [task EXCEPT ![p] = t] /\ outcome' = outcome
  <2>1. PICK t \in {"local", "local_uncertain"} : task' = [task EXCEPT ![p] = t] /\ outcome' = outcome
    BY <1>5
  <2> QED BY <1>1, <1>2, <2>1, PageGoesOn
<1> QED BY <1>3, <1>4, <1>5

LEMMA RecordPages ==
    ASSUME PagesInv, NEW p \in Pages, Record(p)
    PROVE  PagesInv'
<1> DEFINE failed == ~HasText(outcome[p])
           failure == [page |-> p, status |-> outcome[p]]
           Failure == [page : Pages, status : CallbackAnswers]
           State == {"none", "queued", "gateway", "local", "local_uncertain", "ended", "recorded"}
<1>1. /\ phase = "ocr" /\ phase' = "ocr" /\ task[p] = "ended"
      /\ task' = [task EXCEPT ![p] = "recorded"]
      /\ results' = Append(results, p)
      /\ text' = [text EXCEPT ![p] = IF failed THEN 0 ELSE p]
      /\ failures' = IF failed THEN Append(failures, failure) ELSE failures
      /\ UNCHANGED <<pages, options, workers, at, scanned, png, outcome, segments, warnings>>
  BY DEF Record, document, collected
<1>2. /\ task \in [Pages -> State] /\ text \in [Pages -> Pages \cup {0}]
      /\ outcome \in [Pages -> CallbackAnswers \cup {"none"}]
      /\ results \in Seq(ToSet(scanned)) /\ IsInjective(results) /\ failures \in Seq(Failure)
  BY DEF PagesInv, TypeOK, Pages
<1>3. /\ p \in ToSet(scanned) /\ p \notin ToSet(results) /\ ~Recorded(p) /\ Busy(p)
      /\ outcome[p] \in CallbackAnswers
  BY <1>1 DEF PagesInv, PagesWalked, PagesRecognized, Recorded, Busy
<1>4. \A q \in Pages : q \in Int /\ q # 0
  BY PageNumbers DEF PagesInv
<1>5. /\ task' \in [Pages -> State] /\ task'[p] = "recorded"
      /\ \A q \in Pages : q # p => task'[q] = task[q]
      /\ text' \in [Pages -> Pages \cup {0}] /\ text'[p] = IF failed THEN 0 ELSE p
      /\ \A q \in Pages : q # p => text'[q] = text[q]
  BY <1>1, <1>2
<1>6. /\ results' \in Seq(ToSet(scanned)) /\ ToSet(results)' = ToSet(results) \cup {p}
      /\ IsInjective(results)'
  <2>1. /\ Len(results) \in Nat /\ DOMAIN results = 1..Len(results)
        /\ Len(results') = Len(results) + 1 /\ DOMAIN results' = 1..Len(results) + 1
        /\ results' \in Seq(ToSet(scanned))
        /\ results'[Len(results) + 1] = p
        /\ \A k \in 1..Len(results) : results'[k] = results[k]
    BY <1>1, <1>2, <1>3, AppendProperties
  <2>2. ToSet(results)' = ToSet(results) \cup {p}
    BY <1>1, <1>2, <1>3, ToSetAppend
  <2>3. \A k \in 1..Len(results) : results[k] # p
    BY <1>3, <2>1 DEF ToSet
  <2>4. \A k \in 1..Len(results) + 1 : k \in 1..Len(results) \/ k = Len(results) + 1
    BY <2>1
  <2>5. IsInjective(results')
    <3>1. \A j, k \in 1..Len(results) : results[j] = results[k] => j = k
      BY <1>2, <2>1 DEF IsInjective
    <3>2. \A j, k \in 1..Len(results) + 1 : results'[j] = results'[k] => j = k
      BY <2>1, <2>3, <2>4, <3>1
    <3> QED BY <2>1, <3>2 DEF IsInjective
  <2> QED BY <2>1, <2>2, <2>5 DEF IsInjective
<1>7. failures' \in Seq(Failure)
  <2>1. failure \in Failure
    BY <1>3
  <2> HIDE DEF Failure, failure
  <2> QED BY <1>1, <1>2, <2>1, AppendProperties
<1>8. TypeOK'
  <2>1. (Cardinality(Running) <= IF Serial THEN 1 ELSE workers)'
    <3>1. Running' \subseteq Running
      BY <1>1, <1>5 DEF Running, Pages
    <3> QED BY <1>1, <3>1, RunningShrinks DEF PagesInv, Serial
  <2> QED BY <1>1, <1>5, <1>6, <1>7, <2>1 DEF PagesInv, TypeOK, Pages
<1>9. PagesWalked'
  <2>1. \A q \in Pages : task'[q] = "none" <=> task[q] = "none"
    BY <1>1, <1>5
  <2> QED BY <1>1, <2>1 DEF PagesInv, PagesWalked, Pages
<1>10. /\ \A q \in Pages : Recorded(q)' <=> Recorded(q) \/ q = p
       /\ \A q \in Pages : Busy(q)' <=> Busy(q) /\ q # p
  BY <1>1, <1>5 DEF Recorded, Busy
<1>11. PagesRecognized'
  <2>1. \A q \in Pages : Recorded(q)' <=> q \in ToSet(results)'
    BY <1>6, <1>10 DEF PagesInv, PagesRecognized
  <2>2. \A q \in Pages : task'[q] \in {"ended", "recorded"} => outcome'[q] \in CallbackAnswers
    BY <1>1, <1>3, <1>5 DEF PagesInv, PagesRecognized
  <2>3. \A q \in Pages : text'[q] = IF Recorded(q)' /\ HasText(outcome'[q]) THEN q ELSE 0
    BY <1>1, <1>5, <1>10 DEF PagesInv, PagesRecognized
  <2> QED BY <1>1, <2>1, <2>2, <2>3 DEF PagesRecognized, Pages
<1>12. InTurn'
  <2> SUFFICES ASSUME Serial
               PROVE  /\ \A q, r \in Pages : Busy(q)' /\ Busy(r)' => q = r
                      /\ \A q, r \in Pages : Busy(q)' /\ task'[r] = "queued" => q < r
                      /\ \A q, r \in Pages : Recorded(q)' /\ (Busy(r)' \/ task'[r] = "queued") => q < r
    BY <1>1 DEF InTurn, Serial, Pages
  <2>1. /\ \A q, r \in Pages : Busy(q) /\ Busy(r) => q = r
        /\ \A q, r \in Pages : Busy(q) /\ task[r] = "queued" => q < r
        /\ \A q, r \in Pages : Recorded(q) /\ (Busy(r) \/ task[r] = "queued") => q < r
    BY <1>1 DEF PagesInv, InTurn
  <2>2. \A r \in Pages : task'[r] = "queued" => task[r] = "queued"
    BY <1>5
  <2> QED BY <1>3, <1>10, <2>1, <2>2
<1>13. FailuresTold'
  <2>1. /\ Len(failures) \in Nat /\ \A k \in 1..Len(failures) : failures[k].page \in Pages
        /\ \A j, k \in 1..Len(failures) : failures[j].page = failures[k].page => j = k
        /\ \A k \in 1..Len(failures) : Recorded(failures[k].page) /\ text[failures[k].page] = 0
        /\ \A q \in Pages : Recorded(q) /\ text[q] = 0 => \E k \in 1..Len(failures) : failures[k].page = q
    BY PageNumbers DEF PagesInv, FailuresTold
  <2>2. \A k \in 1..Len(failures) : failures[k].page # p
    BY <1>3, <2>1
  <2>3. CASE ~failed
    <3>1. /\ \A k \in 1..Len(failures) : task'[failures[k].page] = "recorded" /\ text'[failures[k].page] = 0
          /\ \A q \in Pages : task'[q] = "recorded" /\ text'[q] = 0
                => \E k \in 1..Len(failures) : failures[k].page = q
      BY <1>4, <1>5, <2>1, <2>2, <2>3 DEF Recorded
    <3>2. failures' = failures
      BY <1>1, <2>3
    <3>3. Serial' => Ascend(failures)'
      BY <1>1, <3>2 DEF PagesInv, FailuresTold, Serial, Ascend
    <3>4. Serial' \/ phase' \in {"assemble", "done"} => Ascend(failures)'
      BY <1>1, <3>3
    <3>5. \A j, k \in 1..Len(failures) : failures[j].page = failures[k].page => j = k
      BY <2>1
    <3> QED BY ONLY <1>1, <3>1, <3>2, <3>4, <3>5 DEF FailuresTold, Pages, Recorded
  <2>4. CASE failed
    <3>1. /\ Len(failures') = Len(failures) + 1 /\ failures'[Len(failures) + 1].page = p
          /\ \A k \in 1..Len(failures) : failures'[k] = failures[k]
      <4>1. failures' = Append(failures, failure) /\ failure.page = p /\ failure \in Failure
        BY <1>1, <1>3, <2>4
      <4> HIDE DEF Failure, failure
      <4>2. /\ Len(failures') = Len(failures) + 1 /\ failures'[Len(failures) + 1] = failure
            /\ \A k \in 1..Len(failures) : failures'[k] = failures[k]
        BY <1>2, <4>1, AppendProperties
      <4> QED BY <4>1, <4>2
    <3>2. /\ Len(failures) + 1 \in 1..Len(failures')
          /\ \A k \in 1..Len(failures) : k \in 1..Len(failures')
          /\ \A k \in 1..Len(failures') : k \in 1..Len(failures) \/ k = Len(failures) + 1
      BY <2>1, <3>1
    <3>3. /\ \A k \in 1..Len(failures) : task'[failures[k].page] = "recorded" /\ text'[failures[k].page] = 0
          /\ task'[p] = "recorded" /\ text'[p] = 0
      BY <1>5, <2>1, <2>2, <2>4 DEF Recorded
    <3>4. \A k \in 1..Len(failures') : task'[failures'[k].page] = "recorded" /\ text'[failures'[k].page] = 0
      <4> SUFFICES ASSUME NEW k \in 1..Len(failures')
                   PROVE  task'[failures'[k].page] = "recorded" /\ text'[failures'[k].page] = 0
        OBVIOUS
      <4>1. CASE k \in 1..Len(failures)
        BY <3>1, <3>3, <4>1
      <4>2. CASE k = Len(failures) + 1
        BY <3>1, <3>3, <4>2
      <4> QED BY <3>2, <4>1, <4>2
    <3>5. \A q \in Pages : task'[q] = "recorded" /\ text'[q] = 0 => \E k \in 1..Len(failures') : failures'[k].page = q
      <4> SUFFICES ASSUME NEW q \in Pages, task'[q] = "recorded", text'[q] = 0
                   PROVE  \E k \in 1..Len(failures') : failures'[k].page = q
        OBVIOUS
      <4>1. CASE q = p
        BY <3>1, <3>2, <4>1
      <4>2. CASE q # p
        <5>1. PICK k \in 1..Len(failures) : failures[k].page = q
          BY <1>5, <2>1, <4>2 DEF Recorded
        <5> QED BY <3>1, <3>2, <5>1
      <4> QED BY <4>1, <4>2
    <3>6. \A j, k \in 1..Len(failures') : failures'[j].page = failures'[k].page => j = k
      <4> SUFFICES ASSUME NEW j \in 1..Len(failures'), NEW k \in 1..Len(failures'),
                          failures'[j].page = failures'[k].page
                   PROVE  j = k
        OBVIOUS
      <4>1. CASE j \in 1..Len(failures) /\ k \in 1..Len(failures)
        BY <2>1, <3>1, <4>1
      <4>2. CASE j = Len(failures) + 1 /\ k \in 1..Len(failures)
        BY <2>2, <3>1, <4>2
      <4>3. CASE j \in 1..Len(failures) /\ k = Len(failures) + 1
        BY <2>2, <3>1, <4>3
      <4> QED BY <3>2, <4>1, <4>2, <4>3
    <3>7. Serial' => Ascend(failures)'
      <4> SUFFICES ASSUME Serial, NEW j \in 1..Len(failures'), NEW k \in 1..Len(failures'), j < k
                   PROVE  failures'[j].page < failures'[k].page
        BY <1>1 DEF Serial, Ascend
      <4>1. j \in 1..Len(failures)
        BY <2>1, <3>1
      <4>2. CASE k \in 1..Len(failures)
        BY <3>1, <4>1, <4>2 DEF PagesInv, FailuresTold, Ascend
      <4>3. CASE k = Len(failures) + 1
        <5>1. Recorded(failures[j].page) /\ failures[j].page \in Pages
          BY <2>1, <4>1
        <5>2. failures[j].page < p
          BY <1>1, <1>3, <5>1 DEF PagesInv, InTurn
        <5> QED BY <3>1, <4>1, <4>3, <5>2
      <4> QED BY <3>2, <4>2, <4>3
    <3> QED BY <1>1, <3>4, <3>5, <3>6, <3>7 DEF FailuresTold, Pages, Recorded
  <2> QED BY <2>3, <2>4
<1>14. Collected'
  BY <1>1 DEF PagesInv, Collected, Pages
<1>15. PagesAccounted' /\ FailuresInPageOrder'
  BY <1>1 DEF PagesAccounted, FailuresInPageOrder
<1> QED BY <1>8, <1>9, <1>11, <1>12, <1>13, <1>14, <1>15 DEF PagesInv

\* When as many pages are recorded as are scanned, all of them are.
LEMMA AllRecorded ==
    ASSUME PagesInv, Len(results) = Len(scanned)
    PROVE  ToSet(results) = ToSet(scanned)
<1> DEFINE n == Len(scanned)
<1>1. /\ n \in Nat /\ DOMAIN scanned = 1..n /\ DOMAIN results = 1..n
      /\ ToSet(scanned) = {scanned[k] : k \in 1..n} /\ ToSet(results) = {results[k] : k \in 1..n}
      /\ \A k \in 1..n : scanned[k] \in Int
  <2>1. TypeOK
    BY DEF PagesInv
  <2>2. ToSet(scanned) \subseteq Int /\ n \in Nat /\ ToSet(scanned) = {scanned[k] : k \in 1..n}
    BY <2>1, PageNumbers
  <2> QED BY <2>1, <2>2, PageNumbers
<1>2. IsFiniteSet(1..n) /\ Cardinality(1..n) = n
  <2>1. n \in Int /\ 1 \in Int
    BY <1>1
  <2> HIDE DEF n
  <2>2. IsFiniteSet(1..n) /\ Cardinality(1..n) = IF 1 > n THEN 0 ELSE n - 1 + 1
    BY <2>1, FS_Interval
  <2> QED BY <1>1, <2>2
<1>3. scanned \in [1..n -> ToSet(scanned)] /\ results \in [1..n -> ToSet(scanned)]
  <2>1. scanned \in Seq(Pages) /\ results \in Seq(ToSet(scanned))
    BY DEF PagesInv, TypeOK, Pages
  <2>2. \A k \in 1..n : results[k] \in ToSet(scanned)
    BY <1>1, <2>1
  <2>3. scanned = [k \in 1..n |-> scanned[k]] /\ results = [k \in 1..n |-> results[k]]
    BY <1>1, <2>1
  <2>4. \A k \in 1..n : scanned[k] \in ToSet(scanned)
    BY <1>1
  <2> HIDE DEF n
  <2> QED BY <2>2, <2>3, <2>4
<1>4. \A j, k \in 1..n : scanned[j] = scanned[k] => j = k
  <2>1. \A j, k \in 1..n : j < k => scanned[j] < scanned[k]
    BY DEF PagesInv, PagesWalked
  <2> SUFFICES ASSUME NEW j \in 1..n, NEW k \in 1..n, j # k PROVE scanned[j] # scanned[k]
    OBVIOUS
  <2>2. j < k \/ k < j
    BY <1>1
  <2>3. scanned[j] < scanned[k] \/ scanned[k] < scanned[j]
    BY <2>1, <2>2
  <2> QED BY <1>1, <2>3
<1>5. scanned \in Surjection(1..n, ToSet(scanned)) /\ scanned \in Injection(1..n, ToSet(scanned))
  BY <1>1, <1>3, <1>4 DEF Surjection, Injection, IsInjective
<1>6. IsFiniteSet(ToSet(scanned)) /\ Cardinality(ToSet(scanned)) = n
  BY <1>2, <1>5, FS_Surjection
<1>7. results \in Injection(1..n, ToSet(scanned))
  <2>1. IsInjective(results)
    BY DEF PagesInv, TypeOK
  <2> QED BY <1>1, <1>3, <2>1 DEF Injection, IsInjective
<1>8. results \in Surjection(1..n, ToSet(scanned))
  BY <1>2, <1>6, <1>7, FS_Injection
<1> QED BY <1>1, <1>8 DEF Surjection

LEMMA EndOcrPages ==
    ASSUME PagesInv, EndOcr
    PROVE  PagesInv'
<1> DEFINE Failure == [page : Pages, status : CallbackAnswers]
<1>1. /\ phase = "ocr" /\ phase' = "assemble" /\ Len(results) = Len(scanned)
      /\ failures' = IF Serial THEN failures ELSE InPageOrder(failures)
      /\ UNCHANGED <<pages, options, workers, at, scanned, png, task, outcome, results, text,
                     segments, warnings>>
  BY DEF EndOcr, document, collected, recognized
<1>2. /\ failures \in Seq(Failure) /\ Len(failures) \in Nat
      /\ \A k \in 1..Len(failures) : failures[k].page \in Pages
      /\ \A f \in Failure : f.page \in Int
      /\ \A j, k \in 1..Len(failures) : failures[j].page = failures[k].page => j = k
  <2>1. failures \in Seq(Failure) /\ Pages \subseteq Int
    BY PageNumbers DEF PagesInv, TypeOK, Pages
  <2> QED BY <2>1, PageNumbers DEF PagesInv, FailuresTold
<1>3. /\ failures' \in Seq(Failure) /\ Len(failures') = Len(failures)
      /\ \A k \in 1..Len(failures) : \E j \in 1..Len(failures) : failures'[k] = failures[j]
      /\ \A j \in 1..Len(failures) : \E k \in 1..Len(failures) : failures'[k] = failures[j]
      /\ \A j, k \in 1..Len(failures) : j < k => failures'[j].page < failures'[k].page
  <2>1. CASE Serial
    <3>1. failures' = failures /\ Ascend(failures)
      BY <1>1, <2>1 DEF PagesInv, FailuresTold
    <3> HIDE DEF Failure
    <3> QED BY <1>2, <3>1 DEF Ascend
  <2>2. CASE ~Serial
    <3>1. failures' = InPageOrder(failures)
      BY <1>1, <2>2
    <3> HIDE DEF Failure
    <3> QED BY <1>2, <3>1, PagesOrdered
  <2> QED BY <2>1, <2>2
<1>4. TypeOK'
  <2>1. (Cardinality(Running) <= IF Serial THEN 1 ELSE workers)'
    BY <1>1 DEF PagesInv, TypeOK, Running, Serial
  <2> QED BY <1>1, <1>3, <2>1 DEF PagesInv, TypeOK, Pages
<1>5. PagesWalked'
  BY <1>1 DEF PagesInv, PagesWalked, Pages
<1>6. PagesRecognized'
  <2>1. \A p \in Pages : task[p] \in {"none", "recorded"}
    BY <1>1, AllRecorded DEF PagesInv, PagesWalked, PagesRecognized, Recorded
  <2> QED BY <1>1, <2>1 DEF PagesInv, PagesRecognized, Pages, Recorded
<1>7. InTurn'
  BY <1>1 DEF InTurn
<1>8. FailuresTold'
  <2>1. /\ \A k \in 1..Len(failures) : task[failures[k].page] = "recorded" /\ text[failures[k].page] = 0
        /\ \A p \in Pages : task[p] = "recorded" /\ text[p] = 0 => \E k \in 1..Len(failures) : failures[k].page = p
    BY DEF PagesInv, FailuresTold, Recorded
  <2>2. \A k \in 1..Len(failures) : task[failures'[k].page] = "recorded" /\ text[failures'[k].page] = 0
    <3> SUFFICES ASSUME NEW k \in 1..Len(failures)
                 PROVE  task[failures'[k].page] = "recorded" /\ text[failures'[k].page] = 0
      OBVIOUS
    <3>1. PICK j \in 1..Len(failures) : failures'[k] = failures[j]
      BY <1>3
    <3>2. task[failures[j].page] = "recorded" /\ text[failures[j].page] = 0
      BY <2>1
    <3> QED BY <3>1, <3>2
  <2>3. \A p \in Pages : task[p] = "recorded" /\ text[p] = 0 => \E k \in 1..Len(failures) : failures'[k].page = p
    <3> SUFFICES ASSUME NEW p \in Pages, task[p] = "recorded", text[p] = 0
                 PROVE  \E k \in 1..Len(failures) : failures'[k].page = p
      OBVIOUS
    <3>1. PICK j \in 1..Len(failures) : failures[j].page = p
      BY <2>1
    <3>2. PICK k \in 1..Len(failures) : failures'[k] = failures[j]
      BY <1>3
    <3> QED BY <3>1, <3>2
  <2>4. \A j, k \in 1..Len(failures) : failures'[j].page = failures'[k].page => j = k
    <3> SUFFICES ASSUME NEW j \in 1..Len(failures), NEW k \in 1..Len(failures), j # k
                 PROVE  failures'[j].page # failures'[k].page
      OBVIOUS
    <3>1. failures'[j].page \in Int /\ failures'[k].page \in Int
      <4>1. failures'[j] \in Failure /\ failures'[k] \in Failure
        <5> HIDE DEF Failure
        <5>1. failures' \in Seq(Failure) /\ Len(failures') = Len(failures)
          BY <1>3
        <5> QED BY <5>1
      <4> HIDE DEF Failure
      <4> QED BY <1>2, <4>1
    <3>2. j < k \/ k < j
      BY <1>2
    <3>3. failures'[j].page < failures'[k].page \/ failures'[k].page < failures'[j].page
      BY <1>3, <3>2
    <3> QED BY <3>1, <3>3
  <2>5. Ascend(failures)'
    BY <1>3 DEF Ascend
  <2> QED BY <1>1, <1>3, <2>2, <2>3, <2>4, <2>5 DEF FailuresTold, Pages, Recorded
<1>9. Collected'
  BY <1>1 DEF PagesInv, Collected, Pages
<1>10. PagesAccounted' /\ FailuresInPageOrder'
  BY <1>1 DEF PagesAccounted, FailuresInPageOrder
<1> QED BY <1>4, <1>5, <1>6, <1>7, <1>8, <1>9, <1>10 DEF PagesInv

LEMMA AssemblePages ==
    ASSUME PagesInv, Assemble
    PROVE  PagesInv'
<1> DEFINE W == [page : Pages, type : WarningTypes]
           Type(f) == CASE f.status = "no_text" -> "empty"
                        [] f.status = "uncertain" -> "uncertain"
                        [] OTHER -> "failed"
           told == [k \in DOMAIN failures |-> Warning(failures[k].page, Type(failures[k]))]
           m == Len(failures)
<1>1. PICK noted \in SUBSET {p \in DOMAIN pages : text[p] # 0} :
        LET Structure(p) == IF p \in noted THEN << Warning(p, "structure") >> ELSE <<>>
        IN  warnings' = warnings
              \o FlattenSeq([k \in DOMAIN results |-> Structure(results[k])])
              \o told
  BY DEF Assemble
<1>2. /\ phase = "assemble" /\ phase' = "done"
      /\ segments' = [p \in Pages |-> IF text[p] = 0 THEN segments[p] ELSE segments[p] \cup {text[p]}]
      /\ UNCHANGED <<pages, options, workers, at, scanned, png, task, outcome, results, text, failures>>
  BY DEF Assemble, document, collected, recognized, recorded, Pages
<1> DEFINE Structure(p) == IF p \in noted THEN << Warning(p, "structure") >> ELSE <<>>
           noting == [k \in DOMAIN results |-> Structure(results[k])]
           before == warnings \o FlattenSeq(noting)
           n == Len(before)
<1>3. /\ m \in Nat /\ DOMAIN failures = 1..m /\ \A k \in 1..m : failures[k].page \in Pages
      /\ \A p \in Pages : p \in Int
      /\ ToSet(results) \subseteq Pages /\ Len(results) \in Nat /\ DOMAIN results = 1..Len(results)
      /\ ToSet(results) = {results[k] : k \in 1..Len(results)}
  <2>1. results \in Seq(ToSet(scanned)) /\ ToSet(scanned) \subseteq Pages
    BY PageNumbers DEF PagesInv, TypeOK
  <2>2. ToSet(results) \subseteq ToSet(scanned)
    BY <2>1 DEF ToSet
  <2> QED BY <2>1, <2>2, PageNumbers DEF PagesInv
<1>4. before \in Seq(Other) /\ n \in Nat
  <2>1. warnings \in Seq(Other)
    BY <1>2, OtherWarnings DEF PagesInv, Collected
  <2>2. \A p \in Pages : Structure(p) \in Seq(Other)
    <3> SUFFICES ASSUME NEW p \in Pages PROVE Structure(p) \in Seq(Other)
      OBVIOUS
    <3>1. Warning(p, "structure") \in Other
      BY DEF Warning, Other, WarningTypes, Lost
    <3> QED BY <3>1
  <2>3. noting \in Seq(Seq(Other))
    <3>1. \A k \in 1..Len(results) : Structure(results[k]) \in Seq(Other)
      BY <1>3, <2>2
    <3> HIDE DEF Structure
    <3> QED BY <1>3, <3>1
  <2>4. FlattenSeq(noting) \in Seq(Other)
    <3> HIDE DEF noting
    <3> QED BY <2>3, FlattenIn
  <2> HIDE DEF noting
  <2> QED BY <2>1, <2>4, ConcatProperties
<1>5. \A k \in 1..m : /\ Type(failures[k]) \in {"empty", "uncertain", "failed"}
  OBVIOUS
<1>6. /\ told \in Seq(W) /\ Len(told) = m
      /\ \A k \in 1..m : told[k].page = failures[k].page /\ Lost(told[k])
  <2>1. ASSUME NEW k \in 1..m
        PROVE  /\ Warning(failures[k].page, Type(failures[k])) \in W
               /\ Warning(failures[k].page, Type(failures[k])).page = failures[k].page
               /\ Lost(Warning(failures[k].page, Type(failures[k])))
    <3> HIDE DEF Type
    <3> QED BY <1>3, <1>5 DEF Warning, Lost, WarningTypes
  <2>2. told = [k \in 1..m |-> Warning(failures[k].page, Type(failures[k]))]
    BY <1>3
  <2> HIDE DEF m, W, Type
  <2>3. told \in Seq(W) /\ Len(told) = m
    BY <1>3, <2>1, <2>2
  <2> QED BY <2>1, <2>2, <2>3
<1>7. warnings' = before \o told
  BY <1>1
<1> HIDE DEF before, told, n, m
<1>8. before \in Seq(W) /\ \A k \in 1..n : ~Lost(before[k])
  BY <1>4, OtherWarnings DEF n
<1>9. /\ warnings' \in Seq(W) /\ DOMAIN warnings' = 1..n + m
      /\ \A k \in 1..n : warnings'[k] = before[k]
      /\ \A k \in 1..m : warnings'[n + k] = told[k]
  <2> HIDE DEF W
  <2>1. before \in Seq(W) /\ told \in Seq(W) /\ Len(before) = n /\ Len(told) = m
    BY <1>6, <1>8 DEF n
  <2>2. /\ before \o told \in Seq(W) /\ Len(before \o told) = n + m
        /\ \A k \in 1..n : (before \o told)[k] = before[k]
        /\ \A k \in 1..m : (before \o told)[n + k] = told[k]
    <3>1. /\ before \o told \in Seq(W) /\ Len(before \o told) = Len(before) + Len(told)
          /\ \A k \in 1..Len(before) : (before \o told)[k] = before[k]
          /\ \A k \in 1..Len(told) : (before \o told)[Len(before) + k] = told[k]
      <4>1. before \o told \in Seq(W)
        BY <2>1, Concatenated
      <4>2. Len(before \o told) = Len(before) + Len(told)
        BY <2>1, Concatenated
      <4>3. \A k \in 1..Len(before) : (before \o told)[k] = before[k]
        BY <2>1, Concatenated
      <4>4. \A k \in 1..Len(told) : (before \o told)[Len(before) + k] = told[k]
        BY <2>1, Concatenated
      <4> QED BY <4>1, <4>2, <4>3, <4>4
    <3> QED BY <2>1, <3>1
  <2>3. DOMAIN warnings' = 1..n + m
    BY <1>3, <1>4, <1>7, <2>2
  <2> QED BY <1>7, <2>2, <2>3
<1>10. \A k \in 1..n + m : Lost(warnings'[k]) => k \notin 1..n
  BY <1>8, <1>9
<1>11. \A k \in 1..n + m : k \notin 1..n => k - n \in 1..m /\ n + (k - n) = k
  BY <1>3, <1>4
<1>12. FailuresInPageOrder'
  <2> SUFFICES ASSUME NEW j \in 1..n + m, NEW k \in 1..n + m, j < k,
                      Lost(warnings'[j]), Lost(warnings'[k])
               PROVE  warnings'[j].page < warnings'[k].page
    BY <1>9 DEF FailuresInPageOrder, Lost
  <2>1. j - n \in 1..m /\ n + (j - n) = j /\ k - n \in 1..m /\ n + (k - n) = k /\ j - n < k - n
    BY <1>3, <1>4, <1>10, <1>11
  <2>2. warnings'[j] = told[j - n] /\ warnings'[k] = told[k - n]
    BY <1>9, <2>1
  <2>3. failures[j - n].page < failures[k - n].page
    BY <1>2, <2>1 DEF PagesInv, FailuresTold, Ascend, m
  <2> QED BY <1>6, <2>1, <2>2, <2>3
<1>13. \A p \in Pages : segments'[p] = IF text[p] = 0 /\ p \in ToSet(scanned) THEN {} ELSE {p}
  <2> SUFFICES ASSUME NEW p \in Pages
               PROVE  segments'[p] = IF text[p] = 0 /\ p \in ToSet(scanned) THEN {} ELSE {p}
    OBVIOUS
  <2>1. segments[p] = IF p \notin ToSet(scanned) THEN {p} ELSE {}
    <3>1. p < at
      BY <1>2, PageNumbers DEF PagesInv, PagesWalked
    <3> QED BY <1>2, <3>1 DEF PagesInv, Collected
  <2>2. text[p] # 0 => text[p] = p
    BY DEF PagesInv, PagesRecognized
  <2>3. segments'[p] = IF text[p] = 0 THEN segments[p] ELSE segments[p] \cup {text[p]}
    BY <1>2
  <2> QED BY <2>1, <2>2, <2>3
<1>14. \A p \in Pages : Recorded(p) <=> p \in ToSet(scanned)
  BY <1>2 DEF PagesInv, PagesWalked, PagesRecognized, Recorded
<1>15. PagesAccounted'
  <2> SUFFICES ASSUME NEW p \in Pages
               PROVE  Cardinality({k \in 1..n + m : warnings'[k].page = p /\ Lost(warnings'[k])})
                        = IF segments'[p] = {} THEN 1 ELSE 0
    BY <1>2, <1>9 DEF PagesAccounted, Pages, Lost
  <2> DEFINE mine == {k \in 1..n + m : warnings'[k].page = p /\ Lost(warnings'[k])}
  <2>1. \A k \in mine : k - n \in 1..m /\ n + (k - n) = k /\ failures[k - n].page = p
    BY <1>6, <1>9, <1>10, <1>11
  <2>2. CASE text[p] = 0 /\ p \in ToSet(scanned)
    <3>1. PICK j \in 1..m : failures[j].page = p
      BY <1>14, <2>2 DEF PagesInv, FailuresTold, m
    <3>2. n + j \in mine
      <4>1. n + j \in 1..n + m
        BY <1>3, <1>4
      <4> QED BY <1>6, <1>9, <3>1, <4>1
    <3>3. ASSUME NEW k \in mine PROVE k = n + j
      <4>1. k - n = j
        BY <2>1, <3>1 DEF PagesInv, FailuresTold, m
      <4> QED BY <1>4, <2>1, <4>1
    <3>4. mine = {n + j}
      <4> HIDE DEF mine
      <4> QED BY <3>2, <3>3
    <3>5. Cardinality(mine) = 1
      BY <3>4, FS_Singleton
    <3>6. segments'[p] = {}
      BY <1>13, <2>2
    <3> QED BY <3>5, <3>6
  <2>3. CASE ~(text[p] = 0 /\ p \in ToSet(scanned))
    <3>1. ASSUME NEW k \in mine PROVE FALSE
      <4>1. Recorded(p) /\ text[p] = 0
        BY <2>1 DEF PagesInv, FailuresTold, m
      <4> QED BY <1>14, <2>3, <4>1
    <3>2. mine = {}
      <4> HIDE DEF mine
      <4> QED BY <3>1
    <3>3. Cardinality(mine) = 0
      BY <3>2, FS_EmptySet
    <3>4. segments'[p] # {}
      BY <1>13, <2>3
    <3> QED BY <3>3, <3>4
  <2> QED BY <2>2, <2>3
<1>16. TypeOK'
  <2>1. (Cardinality(Running) <= IF Serial THEN 1 ELSE workers)'
    BY <1>2 DEF PagesInv, TypeOK, Running, Serial
  <2> QED BY <1>2, <2>1 DEF PagesInv, TypeOK
<1>17. PagesWalked'
  BY <1>2 DEF PagesInv, PagesWalked, Pages
<1>18. PagesRecognized' /\ InTurn'
  BY <1>2 DEF PagesInv, PagesRecognized, InTurn, Pages, Recorded
<1>19. FailuresTold'
  BY <1>2 DEF PagesInv, FailuresTold, Pages, Recorded, Serial, Ascend
<1>20. Collected'
  <2>1. DOMAIN segments' = Pages /\ \A p \in Pages : segments'[p] \subseteq {p}
    BY <1>2, <1>13
  <2> QED BY <1>2, <1>9, <2>1 DEF Collected, Pages
<1> QED BY <1>12, <1>15, <1>16, <1>17, <1>18, <1>19, <1>20 DEF PagesInv

LEMMA PagesStep == PagesInv /\ [Next]_vars => PagesInv'
<1> SUFFICES ASSUME PagesInv, [Next]_vars PROVE PagesInv'
  OBVIOUS
<1>1. CASE Configure
  BY <1>1, ConfigurePages
<1>2. CASE ReadPage
  BY <1>2, ReadPagePages
<1>3. CASE ScanPage
  BY <1>3, ScanPagePages
<1>4. CASE EndPages
  BY <1>4, EndPagesPages
<1>5. CASE Take
  BY <1>5, TakePages
<1>6. ASSUME NEW p \in DOMAIN pages, Recognize(p) PROVE PagesInv'
  <2>1. p \in Pages
    BY DEF Pages
  <2> QED BY <1>6, <2>1, RecordPages, AnswerPages DEF Recognize
<1>7. CASE EndOcr
  BY <1>7, EndOcrPages
<1>8. CASE Assemble
  BY <1>8, AssemblePages
<1>9. CASE UNCHANGED vars
  BY <1>9, StutterPages
<1> QED BY <1>1, <1>2, <1>3, <1>4, <1>5, <1>6, <1>7, <1>8, <1>9 DEF Next

\* What PdfOcr promises of pages follows.
LEMMA PagesFollow == PagesInv => PagesRight
<1> SUFFICES ASSUME PagesInv PROVE PagesRight
  OBVIOUS
<1>1. \A p \in DOMAIN pages : segments[p] \subseteq {p} /\ text[p] \in {p, 0}
  BY DEF PagesInv, Collected, PagesRecognized, Pages
<1> QED BY <1>1 DEF PagesInv, PagesRight, TextOnOwnPage

-----------------------------------------------------------------------------
(* A call of the gateway *)

\* 2^n is a natural number, and each is twice the one before.
LEMMA PowersDouble ==
    /\ Call!PowerOfTwo[0] = 1
    /\ \A n \in Nat : Call!PowerOfTwo[n] \in Nat
    /\ \A n \in Nat : Call!PowerOfTwo[n + 1] = 2 * Call!PowerOfTwo[n]
<1> DEFINE first == 1
           step == [p \in Nat \X Nat |-> 2 * p[2]]
<1>1. PICK f : Follows(f, Nat, first, step)
  <2>1. first \in Nat /\ step \in StepsOn(Nat)
    BY DEF StepsOn
  <2> HIDE DEF first, step
  <2> QED BY <2>1, Recursion
<1>2. f \in [Nat -> Nat] /\ f[0] = 1 /\ \A n \in Nat : f[n + 1] = 2 * f[n]
  BY <1>1 DEF Follows
<1>3. f = [n \in Nat |-> IF n = 0 THEN 1 ELSE 2 * f[n - 1]]
  <2>1. ASSUME NEW n \in Nat PROVE f[n] = IF n = 0 THEN 1 ELSE 2 * f[n - 1]
    <3>1. CASE n = 0
      BY <1>2, <3>1
    <3>2. CASE n # 0
      <4>1. n - 1 \in Nat /\ (n - 1) + 1 = n
        BY <3>2
      <4>2. f[(n - 1) + 1] = 2 * f[n - 1]
        BY <1>2, <4>1
      <4> QED BY <3>2, <4>1, <4>2
    <3> QED BY <3>1, <3>2
  <2> QED BY <1>2, <2>1
<1> DEFINE g == CHOOSE g : g = [n \in Nat |-> IF n = 0 THEN 1 ELSE 2 * g[n - 1]]
<1>4. Call!PowerOfTwo = g
  BY DEF Call!PowerOfTwo
<1>5. g = [n \in Nat |-> IF n = 0 THEN 1 ELSE 2 * g[n - 1]]
  BY <1>3
<1> HIDE DEF g
<1>6. g[0] = 1 /\ \A n \in Nat : g[n + 1] = 2 * g[n]
  <2>1. g[0] = 1
    BY <1>5
  <2>2. ASSUME NEW n \in Nat PROVE g[n + 1] = 2 * g[n]
    <3>1. n + 1 \in Nat /\ n + 1 # 0 /\ (n + 1) - 1 = n
      OBVIOUS
    <3>2. g[n + 1] = IF n + 1 = 0 THEN 1 ELSE 2 * g[(n + 1) - 1]
      BY <1>5, <3>1
    <3> QED BY <3>1, <3>2
  <2> QED BY <2>1, <2>2
<1>7. Nat \subseteq {n \in Nat : g[n] \in Nat}
  <2> DEFINE S == {n \in Nat : g[n] \in Nat}
  <2>1. 0 \in S
    BY <1>6
  <2>2. \A n \in Nat : n \in S => n + 1 \in S
    BY <1>6
  <2> HIDE DEF S
  <2>3. Nat \subseteq S
    BY <2>1, <2>2, SetInduction
  <2> QED BY <2>3 DEF S
<1> QED BY <1>4, <1>6, <1>7

\* What the attempts so far were: every one but the last was retried, for a
\* failure that may be, and the answer that counts came after all of them.
Counted ==
    /\ Call!TypeOK
    /\ maxRetries \in Nat /\ backoff \in Nat
    /\ progress \in {"sending", "received", "returned"} => Len(errors) = attempt
    /\ progress = "sleeping" => Len(errors) = attempt + 1 /\ attempt < maxRetries
    /\ progress \in {"sending", "sleeping"} => served <= Len(errors)
    /\ served <= attempt + 1

RetriedTransient ==
    /\ \A i \in 1..attempt : Call!ShouldRetry(errors[i])
    /\ progress = "sleeping" => Call!ShouldRetry(errors[attempt + 1])

CallInv == Counted /\ RetriedTransient

LEMMA InitCall == Call!Init => CallInv
<1> SUFFICES ASSUME Call!Init PROVE CallInv
  OBVIOUS
<1>1. /\ maxRetries \in Retries /\ backoff \in Backoffs /\ progress = "sending" /\ attempt = 0
      /\ errors = <<>> /\ slept = 0 /\ served = 0
  BY DEF Call!Init
<1>2. maxRetries \in Nat /\ backoff \in Nat
  BY <1>1, CallAssumption DEF Call!SettingsAssumption
<1>3. Len(errors) = 0 /\ errors \in Seq(Call!Failures) /\ backoff * (1 - 1) = 0
  BY <1>1, <1>2
<1>4. slept = backoff * (Call!PowerOfTwo[attempt] - 1)
  BY <1>1, <1>3, PowersDouble
<1> QED BY <1>1, <1>2, <1>3, <1>4 DEF CallInv, Counted, RetriedTransient, Call!TypeOK

LEMMA FailCall ==
    ASSUME CallInv, NEW f \in Call!Failures, NEW reached \in BOOLEAN, Call!Fail(f, reached)
    PROVE  CallInv'
<1>1. /\ progress = "sending" /\ Len(errors) = attempt /\ served <= attempt
      /\ errors' = Append(errors, f)
      /\ served' \in {served, served + 1}
      /\ maxRetries' = maxRetries /\ backoff' = backoff /\ slept' = slept
      /\ \/ progress' = "raised" /\ attempt' = attempt
         \/ Call!MayRetry(f) /\ progress' = "sleeping" /\ attempt' = attempt
         \/ Call!MayRetry(f) /\ Call!Delay = 0 /\ progress' = "sending" /\ attempt' = attempt + 1
  <2>1. attempt \in Nat /\ backoff \in Nat /\ Call!Delay \in Nat
    <3>1. attempt \in Nat /\ backoff \in Nat
      BY DEF CallInv, Counted, Call!TypeOK
    <3>2. Call!PowerOfTwo[attempt] \in Nat
      BY <3>1, PowersDouble
    <3>3. Call!Delay = backoff * Call!PowerOfTwo[attempt]
      BY DEF Call!Delay
    <3> QED BY <3>1, <3>2, <3>3
  <2>2. ~(Call!Delay > 0) => Call!Delay = 0
    BY <2>1
  <2>3. progress = "sending" /\ Len(errors) = attempt /\ served <= attempt
    BY DEF CallInv, Counted, Call!Fail
  <2>4. /\ errors' = Append(errors, f)
        /\ served' \in {served, served + 1}
        /\ maxRetries' = maxRetries /\ backoff' = backoff /\ slept' = slept
        /\ IF ~Call!MayRetry(f) THEN progress' = "raised" /\ attempt' = attempt
           ELSE IF Call!Delay > 0 THEN progress' = "sleeping" /\ attempt' = attempt
           ELSE progress' = "sending" /\ attempt' = attempt + 1
    BY DEF Call!Fail
  <2> QED BY <2>2, <2>3, <2>4
<1>2. /\ maxRetries \in Nat /\ backoff \in Nat /\ attempt \in Nat /\ attempt <= maxRetries
      /\ served \in Nat /\ errors \in Seq(Call!Failures)
      /\ slept = backoff * (Call!PowerOfTwo[attempt] - 1)
  BY DEF CallInv, Counted, Call!TypeOK
<1>3. /\ errors' \in Seq(Call!Failures) /\ Len(errors') = attempt + 1
      /\ \A i \in 1..attempt : errors'[i] = errors[i]
      /\ errors'[attempt + 1] = f
  <2>1. Append(errors, f) \in Seq(Call!Failures) /\ Len(Append(errors, f)) = Len(errors) + 1
    BY <1>2, AppendProperties
  <2> QED BY <1>1, <1>2, <2>1, AppendProperties
<1>4. slept' = backoff' * (Call!PowerOfTwo[attempt'] - 1)
  <2>1. CASE attempt' = attempt
    BY <1>1, <1>2, <2>1
  <2>2. CASE Call!Delay = 0 /\ attempt' = attempt + 1
    <3> DEFINE d == Call!PowerOfTwo[attempt]
    <3>1. d \in Nat /\ Call!PowerOfTwo[attempt + 1] = 2 * d
      BY <1>2, PowersDouble
    <3>2. backoff * d = 0
      BY <2>2 DEF Call!Delay
    <3> HIDE DEF d
    <3>3. backoff = 0 \/ d = 0
      BY <1>2, <3>1, <3>2
    <3>4. backoff * (2 * d - 1) = backoff * (d - 1)
      BY <1>2, <3>1, <3>3
    <3> QED BY <1>1, <1>2, <2>2, <3>1, <3>4 DEF d
  <2> QED BY <1>1, <2>1, <2>2
<1>5. Call!MayRetry(f) => Call!ShouldRetry(f) /\ attempt < maxRetries
  BY DEF Call!MayRetry
<1>6. Call!TypeOK'
  <2>1. maxRetries \in Retries /\ backoff \in Backoffs
    BY DEF CallInv, Counted, Call!TypeOK
  <2>2. /\ attempt' \in 0..maxRetries' /\ Len(errors') \in {attempt', attempt' + 1} /\ served' \in Nat
        /\ progress' \in {"sending", "sleeping", "received", "returned", "raised"}
    BY <1>1, <1>2, <1>3, <1>5
  <2>3. errors' \in Seq(Call!Failures')
    BY <1>3 DEF Call!Failures
  <2> QED BY <1>1, <1>4, <2>1, <2>2, <2>3 DEF Call!TypeOK
<1>7. Counted'
  BY <1>1, <1>2, <1>3, <1>5, <1>6 DEF Counted
<1>8. RetriedTransient'
  <2>1. \A i \in 1..attempt : Call!ShouldRetry(errors'[i])
    BY <1>3 DEF CallInv, RetriedTransient
  <2>2. \A i \in 1..attempt + 1 : i \in 1..attempt \/ i = attempt + 1
    BY <1>2
  <2>3. Call!MayRetry(f) => \A i \in 1..attempt + 1 : Call!ShouldRetry(errors'[i])
    BY <1>3, <1>5, <2>1, <2>2
  <2>4. attempt + 1 \in 1..attempt + 1
    BY <1>2
  <2>5. /\ \A i \in 1..attempt' : Call!ShouldRetry(errors'[i])
        /\ progress' = "sleeping" => Call!ShouldRetry(errors'[attempt' + 1])
    BY <1>1, <2>1, <2>3, <2>4
  <2> QED BY <2>5 DEF RetriedTransient, Call!ShouldRetry
<1> QED BY <1>7, <1>8 DEF CallInv

LEMMA WakeCall ==
    ASSUME CallInv, Call!Wake
    PROVE  CallInv'
<1>1. /\ progress = "sleeping" /\ progress' = "sending" /\ attempt' = attempt + 1
      /\ slept' = slept + backoff * Call!PowerOfTwo[attempt]
      /\ UNCHANGED <<maxRetries, backoff, errors, served>>
  BY DEF Call!Wake, Call!Delay
<1>2. /\ maxRetries \in Nat /\ backoff \in Nat /\ attempt \in Nat /\ attempt < maxRetries
      /\ served \in Nat /\ Len(errors) = attempt + 1 /\ served <= attempt + 1
      /\ slept = backoff * (Call!PowerOfTwo[attempt] - 1)
  BY <1>1 DEF CallInv, Counted, Call!TypeOK
<1>3. slept' = backoff' * (Call!PowerOfTwo[attempt'] - 1)
  <2> DEFINE d == Call!PowerOfTwo[attempt]
  <2>1. d \in Nat /\ Call!PowerOfTwo[attempt + 1] = 2 * d
    BY <1>2, PowersDouble
  <2> HIDE DEF d
  <2>2. backoff * (d - 1) + backoff * d = backoff * (2 * d - 1)
    BY <1>2, <2>1
  <2> QED BY <1>1, <1>2, <2>1, <2>2 DEF d
<1>4. Call!TypeOK'
  BY <1>1, <1>2, <1>3 DEF CallInv, Counted, Call!TypeOK, Call!Failures
<1>5. Counted'
  BY <1>1, <1>2, <1>4 DEF Counted
<1>6. RetriedTransient'
  <2>1. \A i \in 1..attempt + 1 : i \in 1..attempt \/ i = attempt + 1
    BY <1>2
  <2>2. \A i \in 1..attempt + 1 : Call!ShouldRetry(errors[i])
    BY <1>1, <2>1 DEF CallInv, RetriedTransient
  <2> QED BY <1>1, <2>2 DEF RetriedTransient, Call!ShouldRetry
<1> QED BY <1>5, <1>6 DEF CallInv

LEMMA CallStutter ==
    ASSUME CallInv, UNCHANGED callVars
    PROVE  CallInv'
BY DEF CallInv, callVars, Counted, RetriedTransient, Call!TypeOK, Call!Failures, Call!ShouldRetry

LEMMA CallSteps == CallInv /\ Call!Next => CallInv'
<1> SUFFICES ASSUME CallInv, Call!Next PROVE CallInv'
  OBVIOUS
<1>1. ASSUME NEW f \in Call!Failures, NEW reached \in BOOLEAN, Call!Fail(f, reached) PROVE CallInv'
  BY <1>1, FailCall
<1>2. CASE Call!Wake
  BY <1>2, WakeCall
<1>3. CASE Call!Receive
  BY <1>3 DEF Call!Receive, CallInv, Counted, RetriedTransient, Call!TypeOK, Call!Failures, Call!ShouldRetry
<1>4. ASSUME NEW valid \in BOOLEAN, Call!Parse(valid) PROVE CallInv'
  BY <1>4 DEF Call!Parse, CallInv, Counted, RetriedTransient, Call!TypeOK, Call!Failures, Call!ShouldRetry
<1> QED BY <1>1, <1>2, <1>3, <1>4 DEF Call!Next

-----------------------------------------------------------------------------
(* Both *)

LEMMA InvHolds == CallsSpec => [](PagesInv /\ CallInv)
<1>1. CallsInit => PagesInv /\ CallInv
  BY InitPages, InitCall DEF CallsInit
<1>2. PagesInv /\ CallInv /\ [OcrStep \/ CallStep]_allVars => PagesInv' /\ CallInv'
  <2> SUFFICES ASSUME PagesInv, CallInv, [OcrStep \/ CallStep]_allVars PROVE PagesInv' /\ CallInv'
    OBVIOUS
  <2>1. CASE OcrStep
    BY <2>1, PagesStep, CallStutter DEF OcrStep
  <2>2. CASE CallStep
    BY <2>2, CallSteps, StutterPages DEF CallStep
  <2>3. CASE UNCHANGED allVars
    <3>1. UNCHANGED vars /\ UNCHANGED callVars
      BY <2>3 DEF allVars
    <3> QED BY <3>1, StutterPages, CallStutter
  <2> QED BY <2>1, <2>2, <2>3
<1> QED BY <1>1, <1>2, PTL DEF CallsSpec

\* The provider serves a call at most max_retries + 1 times, answers that got
\* lost included.
THEOREM CallsServedBounded == CallsSpec => []WorkBounded
<1>1. CallInv => WorkBounded
  BY DEF CallInv, Counted, Call!TypeOK, WorkBounded, Call!WorkBounded
<1> QED BY <1>1, InvHolds, PTL

\* A call is only repeated after a transient failure: never after a status
\* that is not one to retry, and never after a failure of another kind.
THEOREM RepeatedForTransient == CallsSpec => []OnlyTransientRetried
<1>1. CallInv => OnlyTransientRetried
  BY CallAssumption DEF CallInv, RetriedTransient, OnlyTransientRetried, Call!OnlyTransientRetried,
     Call!ShouldRetry, Call!SettingsAssumption
<1> QED BY <1>1, InvHolds, PTL

\* A call sleeps less than the backoff that would follow, with one retry for each
\* failure. Of every page of a document that was read there is evidence, read
\* from that page, or one warning that says it is lost, whatever recognizers
\* answer or raise and in whatever order threads end; lost pages are told in order.
THEOREM AllAreAccounted == CallsSpec => []CallsAccounted
<1>1. PagesInv /\ CallInv => CallsAccounted
  BY PagesFollow DEF CallInv, Counted, CallsAccounted
<1> QED BY <1>1, InvHolds, PTL

=============================================================================
