--------------------------- MODULE WindowPlanning ---------------------------
(***************************************************************************)
(* EvidenceUnitAgenticChunker up to the merged chunk list: the windows are *)
(* planned by a thread pool (executor.map), each by one call to an LLM     *)
(* planner whose plan may be refused, and the results are then joined in   *)
(* window order by one thread, which asks about every seam between two     *)
(* planned windows whether the chunks on both sides belong together.       *)
(*                                                                         *)
(* Source evidence is numbered 1..Length in document order: one number for *)
(* a unit, or for one row of a table.  A view is what one window shows of  *)
(* one unit: the whole unit or, with an input budget, some rows of a table *)
(* that is then spread over several windows.  A chunk carries the evidence *)
(* it holds, whether it is fallback evidence, and the types of the         *)
(* warnings attached to it.                                                *)
(***************************************************************************)
EXTENDS Integers, Sequences, FiniteSets, SequencesExt

CONSTANTS
    ViewCount,         \* how many views the windows show
    ViewLast,          \* the last evidence of each view
    ViewUnit,          \* the unit each view shows
    WindowCount,       \* how many planning windows there are
    WindowLast,        \* the last view of each window
    OverBudget,        \* windows whose prompt cannot be made to fit
    MaxUnits,          \* max_units_per_chunk
    MaxConcurrency,    \* max_workers of the pool
    CanAskBoundary     \* a boundary_merge_fn or an LLM gateway is configured

Views == 1..ViewCount
Windows == 1..WindowCount

ASSUME ViewAssumption ==
    /\ ViewCount \in Nat \ {0}
    /\ ViewLast \in [Views -> Nat \ {0}]
    /\ \A v \in 1..ViewCount - 1 : ViewLast[v] < ViewLast[v + 1]
    /\ ViewUnit \in [Views -> Nat]
ASSUME WindowAssumption ==
    /\ WindowCount \in Nat \ {0}
    /\ WindowLast \in [Windows -> Views]
    /\ WindowLast[WindowCount] = ViewCount
    /\ \A w \in 1..WindowCount - 1 : WindowLast[w] < WindowLast[w + 1]
ASSUME SettingsAssumption ==
    /\ OverBudget \subseteq Windows
    /\ MaxUnits \in Nat \ {0}
    /\ MaxConcurrency \in Nat \ {0}
    /\ CanAskBoundary \in BOOLEAN

Length == ViewLast[ViewCount]

ViewFirst(v) == IF v = 1 THEN 1 ELSE ViewLast[v - 1] + 1
FirstView(w) == IF w = 1 THEN 1 ELSE WindowLast[w - 1] + 1
EvidenceFirst(w) == ViewFirst(FirstView(w))
EvidenceLast(w) == ViewLast[WindowLast[w]]
WindowEvidence(w) == EvidenceFirst(w)..EvidenceLast(w)

UnitAt(k) == ViewUnit[CHOOSE v \in Views : k \in ViewFirst(v)..ViewLast[v]]

-----------------------------------------------------------------------------
(* Chunks *)

WarningType == {"plan_input_budget_exceeded", "chunk_exceeds_max_units",
                "boundary_merge_failed", "boundary_merge_exceeds_max_units"}

Chunk == [evidence : Seq(Int), fallback : BOOLEAN, warnings : SUBSET WarningType]

Held(c) == {c.evidence[i] : i \in 1..Len(c.evidence)}
SourceUnits(c) == {UnitAt(k) : k \in Held(c)}

Run(a, b) == [i \in 1..b - a + 1 |-> a + i - 1]    \* evidence a..b, in order

ExceedsMaxUnits(units) ==
    IF Cardinality(units) > MaxUnits THEN {"chunk_exceeds_max_units"} ELSE {}

\* _chunk_from_items: the chunk of one plan item.
PlannedChunk(a, b) ==
    [evidence |-> Run(a, b), fallback |-> FALSE,
     warnings |-> ExceedsMaxUnits({UnitAt(k) : k \in a..b})]

\* _repair_omitted_table_rows and _fallback_chunks: evidence nobody planned.
UnplannedChunk(a, b, warned) ==
    [evidence |-> Run(a, b), fallback |-> TRUE, warnings |-> warned]

\* The chunk holds a run of evidence, each once and in source order.
Contiguous(c) ==
    /\ Len(c.evidence) > 0
    /\ \A j \in 1..Len(c.evidence) - 1 : c.evidence[j + 1] = c.evidence[j] + 1

\* The chunks hold evidence a..b, each once and in source order.
Tiles(cs, a, b) ==
    /\ Len(cs) > 0
    /\ \A i \in 1..Len(cs) : Contiguous(cs[i])
    /\ \A i \in 1..Len(cs) - 1 : cs[i + 1].evidence[1] = Last(cs[i].evidence) + 1
    /\ cs[1].evidence[1] = a
    /\ Last(Last(cs).evidence) = b

\* What ChunkPlanMaterializer.materialize returns when it does not raise:
\* plan items and repairs that _validate_primary_coverage lets through.  The
\* repairs stay within one view.
AcceptedPlans(w) ==
    LET InOneView(a, b) == \E v \in FirstView(w)..WindowLast[w] :
                                ViewFirst(v) <= a /\ b <= ViewLast[v]
        Runs == {r \in WindowEvidence(w) \X WindowEvidence(w) : r[1] <= r[2]}
        Candidates == {PlannedChunk(r[1], r[2]) : r \in Runs}
            \cup {UnplannedChunk(r[1], r[2], {}) : r \in {s \in Runs : InOneView(s[1], s[2])}}
    IN  {cs \in UNION {[1..n -> Candidates] : n \in 1..Cardinality(WindowEvidence(w))} :
            Tiles(cs, EvidenceFirst(w), EvidenceLast(w))}

\* ChunkPlanMaterializer.fallback: one chunk for every view of the window.
FallbackPlan(w, warned) ==
    [i \in 1..WindowLast[w] - FirstView(w) + 1 |->
        LET v == FirstView(w) + i - 1
        IN  UnplannedChunk(ViewFirst(v), ViewLast[v], warned)]

-----------------------------------------------------------------------------
VARIABLES
    phase,       \* what chunk() is doing
    stage,       \* how far each window is in the pool
    planned,     \* the _WindowResult of each window: chunks
    fellBack,    \*   and whether it has a fallback_reason
    cursor,      \* the last window already joined
    chunks       \* the joined list

vars == <<phase, stage, planned, fellBack, cursor, chunks>>

TypeOK ==
    /\ phase \in {"planning", "joining", "joined"}
    /\ stage \in [Windows -> {"queued", "asked", "done"}]
    /\ planned \in [Windows -> Seq(Chunk)]
    /\ fellBack \in [Windows -> BOOLEAN]
    /\ cursor \in 0..WindowCount
    /\ chunks \in Seq(Chunk)

Init ==
    /\ phase = "planning"
    /\ stage = [w \in Windows |-> "queued"]
    /\ planned = [w \in Windows |-> <<>>]
    /\ fellBack = [w \in Windows |-> FALSE]
    /\ cursor = 0
    /\ chunks = <<>>

-----------------------------------------------------------------------------
(* The pool *)

Running == {w \in Windows : stage[w] = "asked"}

\* A free worker takes the first queued window.
Taken(w) ==
    /\ stage[w] = "queued"
    /\ \A v \in 1..w - 1 : stage[v] # "queued"
    /\ Cardinality(Running) < MaxConcurrency

Deliver(w, cs, fb) ==
    /\ stage' = [stage EXCEPT ![w] = "done"]
    /\ planned' = [planned EXCEPT ![w] = cs]
    /\ fellBack' = [fellBack EXCEPT ![w] = fb]
    /\ UNCHANGED <<phase, cursor, chunks>>

\* _chunk_budgeted_window: a prompt that does not fit is never sent.
SkipPlanner(w) ==
    /\ Taken(w)
    /\ w \in OverBudget
    /\ Deliver(w, FallbackPlan(w, {"plan_input_budget_exceeded"}), TRUE)

\* _chunk_window calls plan_fn.
AskPlanner(w) ==
    /\ Taken(w)
    /\ w \notin OverBudget
    /\ stage' = [stage EXCEPT ![w] = "asked"]
    /\ UNCHANGED <<phase, planned, fellBack, cursor, chunks>>

\* plan_fn returns a plan and materialize accepts or repairs it.
AcceptPlan(w) ==
    /\ stage[w] = "asked"
    /\ \E cs \in AcceptedPlans(w) : Deliver(w, cs, FALSE)

\* Bug variant: a refused window goes back to the queue, again and again.
RefusePlanRequeue(w) ==
    /\ stage[w] = "asked"
    /\ stage' = [stage EXCEPT ![w] = "queued"]
    /\ UNCHANGED <<phase, planned, fellBack, cursor, chunks>>

\* plan_fn or materialize raises.
RefusePlan(w) ==
    /\ stage[w] = "asked"
    /\ Deliver(w, FallbackPlan(w, {}), TRUE)

-----------------------------------------------------------------------------
(* _merge_window_boundaries *)

\* executor.map has yielded the last result.  _restore_planning_rows rebuilds
\* the rows of a table view from the original table: the evidence is the same.
StartJoining ==
    /\ phase = "planning"
    /\ \A w \in Windows : stage[w] = "done"
    /\ phase' = "joining"
    /\ cursor' = 1
    /\ chunks' = planned[1]
    /\ UNCHANGED <<stage, planned, fellBack>>

\* Bug variant: only the right-hand window is looked at.
MayAskAfterFallback(w) == CanAskBoundary /\ ~fellBack[w]

MayAsk(w) == CanAskBoundary /\ ~fellBack[w - 1] /\ ~fellBack[w]

Join(w, joined) ==
    /\ phase = "joining"
    /\ cursor < WindowCount
    /\ w = cursor + 1
    /\ cursor' = w
    /\ chunks' = joined
    /\ UNCHANGED <<phase, stage, planned, fellBack>>

Warned(cs, type) ==
    [cs EXCEPT ![Len(cs)] = [evidence |-> @.evidence, fallback |-> @.fallback,
                             warnings |-> @.warnings \cup {type}]]

\* Bug variant: the metadata of the merged chunk is a copy of the left one's.
MergedLeftMarks(left, right) ==
    [evidence |-> left.evidence \o right.evidence,
     fallback |-> left.fallback, warnings |-> left.warnings]

\* _merge_adjacent_chunks
Merged(left, right) ==
    [evidence |-> left.evidence \o right.evidence,
     fallback |-> left.fallback \/ right.fallback,
     warnings |-> left.warnings \cup right.warnings
                    \cup ExceedsMaxUnits(SourceUnits(left) \cup SourceUnits(right))]

TooMany(w) == Cardinality(SourceUnits(Last(chunks)) \cup SourceUnits(planned[w][1])) > MaxUnits

\* Bug variant: results are put in front of the list.
KeepSeamInFront(w) == Join(w, planned[w] \o chunks)

\* Nobody may be asked about the seam, or the answer is "keep".
KeepSeam(w) == Join(w, chunks \o planned[w])

\* The question does not fit the budget, or the answer never came.
LoseAnswer(w) ==
    /\ phase = "joining" /\ w = cursor + 1 /\ MayAsk(w)
    /\ Join(w, Warned(chunks, "boundary_merge_failed") \o planned[w])

\* The answer is "merge", but the merged chunk would be too large.
RefuseMerge(w) ==
    /\ phase = "joining" /\ w = cursor + 1 /\ MayAsk(w)
    /\ TooMany(w)
    /\ Join(w, Warned(chunks, "boundary_merge_exceeds_max_units") \o planned[w])

\* Bug variant: the merged chunk also stays at the head of its window.
MergeSeamWithoutPop(w) ==
    /\ phase = "joining" /\ w = cursor + 1 /\ MayAsk(w)
    /\ ~TooMany(w)
    /\ Join(w, [chunks EXCEPT ![Len(chunks)] = Merged(@, planned[w][1])] \o planned[w])

\* The answer is "merge".
MergeSeam(w) ==
    /\ phase = "joining" /\ w = cursor + 1 /\ MayAsk(w)
    /\ ~TooMany(w)
    /\ Join(w, [chunks EXCEPT ![Len(chunks)] = Merged(@, planned[w][1])] \o Tail(planned[w]))

Return ==
    /\ phase = "joining"
    /\ cursor = WindowCount
    /\ phase' = "joined"
    /\ UNCHANGED <<stage, planned, fellBack, cursor, chunks>>

-----------------------------------------------------------------------------
Pool(w) == SkipPlanner(w) \/ AskPlanner(w) \/ AcceptPlan(w) \/ RefusePlan(w)
Joining(w) == KeepSeam(w) \/ LoseAnswer(w) \/ RefuseMerge(w) \/ MergeSeam(w)

Next ==
    \/ \E w \in Windows : Pool(w) \/ Joining(w)
    \/ StartJoining
    \/ Return
    \/ phase = "joined" /\ UNCHANGED vars

Spec == Init /\ [][Next]_vars

\* Every worker keeps working (a planner call ends: the LLM client has a
\* timeout), and so does the calling thread.
Fairness ==
    /\ \A w \in Windows : WF_vars(Pool(w)) /\ WF_vars(Joining(w))
    /\ WF_vars(StartJoining)
    /\ WF_vars(Return)

FairSpec == Spec /\ Fairness

-----------------------------------------------------------------------------
(* Properties *)

\* In whatever order the pool finishes, and whatever is planned, refused,
\* merged or kept apart, the joined list holds exactly the evidence of the
\* windows joined so far, each once and in document order.
JoinedTiles == phase # "planning" => Tiles(chunks, 1, EvidenceLast(cursor))

\* That is so of every state, and every state has its type.
SourceCovered == TypeOK /\ JoinedTiles

\* Merging over a seam, even over several in a row and with a table whose
\* views lie in both windows, never makes a chunk of more than MaxUnits units.
MergedChunksFit ==
    \A i \in 1..Len(chunks) :
        \/ Cardinality(SourceUnits(chunks[i])) <= MaxUnits
        \/ \E w \in Windows : Held(chunks[i]) \subseteq WindowEvidence(w)

\* A window that was not planned is never merged with a neighbour: no chunk
\* holds its evidence together with evidence of another window. And a caller
\* can tell from the joined list which evidence was never shown to the planner:
\* its chunk still says so, and says that it is a fallback.
FallbackStaysApart ==
    \A i \in 1..Len(chunks), w \in Windows :
        Held(chunks[i]) \cap WindowEvidence(w) # {} =>
            /\ fellBack[w] => Held(chunks[i]) \subseteq WindowEvidence(w)
            /\ w \in OverBudget =>
                  chunks[i].fallback /\ "plan_input_budget_exceeded" \in chunks[i].warnings

\* What joining merges, it may merge.
MergesRight == MergedChunksFit /\ FallbackStaysApart

\* Joining one more window loses nothing that was known of a piece of
\* evidence: the chunk that holds it afterwards has every warning, and the
\* fallback mark, of the chunk (or window result) that held it before.
MarksOf(c, d) == d.warnings \subseteq c.warnings /\ (d.fallback => c.fallback)
MarksKept ==
    [][\A w \in Windows : Joining(w) =>
          \A j \in 1..Len(chunks') :
              \A d \in {chunks[i] : i \in 1..Len(chunks)}
                          \cup {planned[w][i] : i \in 1..Len(planned[w])} :
                  Held(d) \cap Held(chunks'[j]) # {} => MarksOf(chunks'[j], d)]_vars

\* chunk() gets through planning and joining.
Returns == <>(phase = "joined")

\* Planning and joining keep the promise of EvidenceFlow, with what the
\* joined list holds as the evidence handed on.
Frontier ==
    IF chunks = <<>> THEN 0
    ELSE LET k == Last(Last(chunks).evidence)
         IN  IF Tiles(chunks, 1, k) THEN k ELSE 0 - 1
Flow == INSTANCE EvidenceFlow WITH frontier <- Frontier, closed <- (phase = "joined")
HandsOnInOrder == Flow!Spec

=============================================================================
