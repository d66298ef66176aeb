------------------------------ MODULE Enrichment ------------------------------
(***************************************************************************)
(* RagChunkEnricher.enrich: the final chunks are given a summary, keywords *)
(* and questions.  With a token budget the chunks are asked about in       *)
(* batches, by a pool of threads; a batch that fails, or whose answer      *)
(* misses a chunk, is asked about again chunk by chunk.  The caller takes  *)
(* the results of the batches in their order.                              *)
(*                                                                         *)
(* A text is the chunk it describes and who wrote it.  The model answers   *)
(* a batch with a list of ids, one for each text; id 0 stands for an id    *)
(* that no chunk has.                                                      *)
(***************************************************************************)
EXTENDS Integers, Sequences, FiniteSets

CONSTANTS
    Cost,          \* token cost of each chunk
    Budget,        \* batch_token_budget
    Concurrency,   \* max_concurrency
    Modes          \* which of "batches", "single", "heuristic" are configured

ASSUME CostAssumption == Cost \in Seq(Nat \ {0}) /\ Cost # <<>>
ASSUME BudgetAssumption == Budget \in Nat \ {0}
ASSUME PoolAssumption == Concurrency \in Nat \ {0}
ASSUME ModesAssumption == Modes \subseteq {"batches", "single", "heuristic"}

Chunks == DOMAIN Cost
Length == Len(Cost)

VARIABLES
    mode,          \* how the enricher is configured
    needs,         \* the chunks that _needs_enrichment
    tasks,         \* the tasks of the pool, in the order they were submitted
    asked,         \* how many requests named each chunk
    texts,         \* the chunks the caller has so far, in order
    returned

vars == <<mode, needs, tasks, asked, texts, returned>>

-----------------------------------------------------------------------------
(* Batches *)

\* Bug variant: the chunk that no longer fits still goes along.
PutLate(s, c) ==
    IF s.current # <<>> /\ s.cost > Budget
    THEN [full |-> Append(s.full, s.current), current |-> <<c>>, cost |-> Cost[c]]
    ELSE [full |-> s.full, current |-> Append(s.current, c), cost |-> s.cost + Cost[c]]

\* _token_budget_batches takes one more chunk.
Put(s, c) ==
    IF s.current # <<>> /\ s.cost + Cost[c] > Budget
    THEN [full |-> Append(s.full, s.current), current |-> <<c>>, cost |-> Cost[c]]
    ELSE [full |-> s.full, current |-> Append(s.current, c), cost |-> s.cost + Cost[c]]

Packed[n \in 0..Length] ==
    IF n = 0 THEN [full |-> <<>>, current |-> <<>>, cost |-> 0] ELSE Put(Packed[n - 1], n)

Batches == Append(Packed[Length].full, Packed[Length].current)

-----------------------------------------------------------------------------
(* The enrichment of one chunk *)

Text(about, by) == [about |-> about, by |-> by]
Enriched(c, text, method, warned) ==
    [chunk |-> c, text |-> text, method |-> method, warned |-> warned]
Before(c) == Text(c, "before")

\* Bug variant: a failed request always leaves the chunk as it was.
AfterFailurePreserved(c) == Enriched(c, Before(c), "preserved", TRUE)

AfterFailure(c) ==
    IF c \in needs THEN Enriched(c, Text(c, "heuristic"), "heuristic", TRUE)
    ELSE Enriched(c, Before(c), "preserved", TRUE)

HeuristicIfNeeded(c) ==
    IF c \in needs THEN Enriched(c, Text(c, "heuristic"), "heuristic", FALSE)
    ELSE Enriched(c, Before(c), "none", FALSE)

\* A field the model left empty is filled in by heuristics, and nobody is told.
Answered(c, blank) == Text(c, IF c \in blank THEN "filled" ELSE "model")

\* _parse_batch_enrichment: a text belongs to the chunk whose id it has.  Ids
\* of no chunk of the batch are skipped, and every chunk needs a text.
Parsed(batch, ids, blank) ==
    [complete |-> \A i \in DOMAIN batch : \E k \in DOMAIN ids : ids[k] = batch[i],
     text |-> [i \in DOMAIN batch |-> Answered(batch[i], blank)]]

-----------------------------------------------------------------------------
(* The pool *)

Task(batch, at) == [batch |-> batch, at |-> at, done |-> <<>>]
Running(t) == tasks[t].at \in {"batch", "alone"}
Asked(S) == [c \in Chunks |-> IF c \in S THEN asked[c] + 1 ELSE asked[c]]
InBatch(t) == {tasks[t].batch[i] : i \in DOMAIN tasks[t].batch}

Init ==
    /\ mode \in Modes
    /\ needs \in SUBSET Chunks
    /\ tasks = CASE mode = "batches" -> [i \in DOMAIN Batches |-> Task(Batches[i], "queued")]
                 [] mode = "single" -> [c \in Chunks |-> Task(<<c>>, "queued")]
                 [] mode = "heuristic" -> <<>>
    /\ asked = [c \in Chunks |-> 0]
    /\ texts = <<>>
    /\ returned = FALSE

\* Bug variant: a thread whose batch failed is not free again.
TakeUnfreed(t) ==
    /\ tasks[t].at = "queued"
    /\ \A u \in 1..t - 1 : tasks[u].at # "queued"
    /\ Cardinality({u \in DOMAIN tasks : Running(u) \/
           \E i \in DOMAIN tasks[u].done : tasks[u].done[i].warned}) < Concurrency
    /\ tasks' = [tasks EXCEPT ![t].at = IF mode = "batches" THEN "batch" ELSE "alone"]
    /\ UNCHANGED <<mode, needs, asked, texts, returned>>

\* A free thread takes the task that waits longest.
Take(t) ==
    /\ tasks[t].at = "queued"
    /\ \A u \in 1..t - 1 : tasks[u].at # "queued"
    /\ Cardinality({u \in DOMAIN tasks : Running(u)}) < Concurrency
    /\ tasks' = [tasks EXCEPT ![t].at = IF mode = "batches" THEN "batch" ELSE "alone"]
    /\ UNCHANGED <<mode, needs, asked, texts, returned>>

\* The request for a batch was answered, with a text for each of ids, those of
\* blank with empty fields.
BatchAnswered(t, ids, blank) ==
    LET parsed == Parsed(tasks[t].batch, ids, blank)
    IN  /\ tasks[t].at = "batch"
        /\ tasks' = IF parsed.complete
                    THEN [tasks EXCEPT ![t].at = "done",
                             ![t].done = [i \in DOMAIN parsed.text |->
                                 Enriched(tasks[t].batch[i], parsed.text[i], "llm_batch", FALSE)]]
                    ELSE [tasks EXCEPT ![t].at = "alone"]
        /\ asked' = Asked(InBatch(t))
        /\ UNCHANGED <<mode, needs, texts, returned>>

\* The request for a batch failed, or its answer was no answer.
BatchFails(t) ==
    /\ tasks[t].at = "batch"
    /\ tasks' = [tasks EXCEPT ![t].at = "alone"]
    /\ asked' = Asked(InBatch(t))
    /\ UNCHANGED <<mode, needs, texts, returned>>

\* The next chunk of a task that is asked about alone.
Current(t) == tasks[t].batch[Len(tasks[t].done) + 1]

\* _enrich_chunk for the current chunk.
ChunkDone(t, outcome) ==
    /\ tasks[t].at = "alone"
    /\ tasks' = [tasks EXCEPT ![t].done = Append(tasks[t].done, outcome),
                              ![t].at = IF Len(tasks[t].done) + 1 = Len(tasks[t].batch)
                                        THEN "done" ELSE "alone"]
    /\ asked' = Asked({Current(t)})
    /\ UNCHANGED <<mode, needs, texts, returned>>

\* The request for one chunk was answered, or it failed.
ChunkAnswered(t, blank) ==
    /\ tasks[t].at = "alone"
    /\ ChunkDone(t, Enriched(Current(t), Answered(Current(t), blank), "llm", FALSE))

ChunkFails(t) ==
    /\ tasks[t].at = "alone"
    /\ ChunkDone(t, AfterFailure(Current(t)))

-----------------------------------------------------------------------------
(* The caller *)

\* Bug variant: results are taken as they come.
CollectAsCompleted(t) ==
    /\ ~returned /\ tasks[t].at = "done"
    /\ texts' = texts \o tasks[t].done
    /\ tasks' = [tasks EXCEPT ![t].at = "taken"]
    /\ UNCHANGED <<mode, needs, asked, returned>>

\* executor.map yields the results in the order of the batches.
Collect(t) ==
    /\ ~returned /\ tasks[t].at = "done"
    /\ \A u \in 1..t - 1 : tasks[u].at = "taken"
    /\ texts' = texts \o tasks[t].done
    /\ tasks' = [tasks EXCEPT ![t].at = "taken"]
    /\ UNCHANGED <<mode, needs, asked, returned>>

\* Without a model every chunk gets by with heuristics.
EnrichHeuristically ==
    /\ ~returned /\ mode = "heuristic" /\ texts = <<>>
    /\ texts' = [c \in Chunks |-> HeuristicIfNeeded(c)]
    /\ UNCHANGED <<mode, needs, tasks, asked, returned>>

Return ==
    /\ ~returned
    /\ \A t \in DOMAIN tasks : tasks[t].at = "taken"
    /\ mode = "heuristic" => texts # <<>>
    /\ returned' = TRUE
    /\ UNCHANGED <<mode, needs, tasks, asked, texts>>

AnswersTo(batch) == UNION {[1..n -> 0..Length] : n \in 0..Len(batch)}

Work(t) ==
    \/ \E ids \in AnswersTo(tasks[t].batch), blank \in SUBSET InBatch(t) :
          BatchAnswered(t, ids, blank)
    \/ BatchFails(t)
    \/ \E blank \in SUBSET InBatch(t) : ChunkAnswered(t, blank)
    \/ ChunkFails(t)

Next ==
    \/ \E t \in DOMAIN tasks : Take(t) \/ Work(t) \/ Collect(t)
    \/ EnrichHeuristically
    \/ Return

Spec == Init /\ [][Next]_vars

\* Every thread goes on with its request, which is answered or times out, idle
\* threads take work, and the caller takes what is ready.
FairSpec ==
    /\ Spec
    /\ \A t \in 1..Length :
          /\ WF_vars(t \in DOMAIN tasks /\ Take(t))
          /\ WF_vars(t \in DOMAIN tasks /\ Work(t))
          /\ WF_vars(t \in DOMAIN tasks /\ Collect(t))
    /\ WF_vars(EnrichHeuristically \/ Return)

-----------------------------------------------------------------------------
(* Properties *)

OutcomeType == [chunk : Chunks, text : [about : Chunks,
                                        by : {"before", "heuristic", "filled", "model"}],
                method : {"none", "preserved", "heuristic", "llm", "llm_batch"}, warned : BOOLEAN]

\* A task knows the results of a first part of its batch, and of all of it
\* when it is done.
TypeOK ==
    /\ mode \in Modes
    /\ needs \subseteq Chunks
    /\ \A t \in DOMAIN tasks :
          /\ tasks[t].batch \in Seq(Chunks) /\ tasks[t].batch # <<>>
          /\ tasks[t].at \in {"queued", "batch", "alone", "done", "taken"}
          /\ tasks[t].done \in Seq(OutcomeType)
          /\ tasks[t].at \in {"queued", "batch"} => tasks[t].done = <<>>
          /\ tasks[t].at = "alone" => Len(tasks[t].done) < Len(tasks[t].batch)
          /\ tasks[t].at \in {"done", "taken"} => Len(tasks[t].done) = Len(tasks[t].batch)
    /\ asked \in [Chunks -> Nat]
    /\ texts \in Seq(OutcomeType)
    /\ returned \in BOOLEAN

\* No chunk carries the summary of another, however the answer was ordered and
\* whatever ids it named.
TextOfOwnChunk == \A i \in DOMAIN texts : texts[i].text.about = texts[i].chunk

\* A text that boundary repair or materialization declared stale or missing
\* never survives, even if every request fails.
NoStaleText == \A i \in DOMAIN texts : texts[i].chunk \in needs => texts[i].text.by # "before"

\* With a model configured, a chunk whose text no answer of the model stands
\* behind says so, and the others do not.
FailureShows ==
    mode # "heuristic" =>
        \A i \in DOMAIN texts : texts[i].warned <=> texts[i].text.by \notin {"model", "filled"}

\* What a chunk is shown with is about it, and its origin is told truly.
TextsRight == TextOfOwnChunk /\ NoStaleText /\ FailureShows

\* What the first n chunks cost, and what the batch rule allows: more than one
\* chunk only within the budget.
CostUpTo[n \in 0..Length] == IF n = 0 THEN 0 ELSE CostUpTo[n - 1] + Cost[n]
WithinBudget(b) == Len(b) > 1 => CostUpTo[b[Len(b)]] - CostUpTo[b[1] - 1] <= Budget

\* The requests that are made: tasks keep their chunks and what was made of
\* them, a batch of several chunks is within the budget, and a chunk costs at
\* most one request of its own and a share in one for its batch.
RequestsBounded ==
    /\ TypeOK
    /\ \A t \in DOMAIN tasks : WithinBudget(tasks[t].batch)
    /\ \A c \in Chunks : asked[c] <= (IF mode = "batches" THEN 2 ELSE 1)

\* The chunks come back once each and in their order, whichever thread was
\* first, and enrich returns when all of them have.
Frontier == IF \A i \in DOMAIN texts : texts[i].chunk = i THEN Len(texts) ELSE 0 - 1
Flow == INSTANCE EvidenceFlow WITH frontier <- Frontier, closed <- returned
ReturnsInOrder == Flow!Spec

\* enrich returns whatever the model answers.
Returns == <>returned

=============================================================================
