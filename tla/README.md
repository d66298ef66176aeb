# A verification development for rag-document-parser

`rag_document_parser` turns office documents (HTML, Markdown, HWP5, HWPX, PDF,
XLSX) into *evidence units*, and evidence units into *chunks* for retrieval,
with the help of a language model (LLM). This directory holds TLA+ models of
the parts of it whose correctness is not visible from one function: the
threads, the repairs of what an LLM answers, the passes that rearrange a list
of chunks, the retries, the index arithmetic of spanning table cells, and the
order in which the format backends turn a file into units. TLC
checks the models on small instances; TLAPS proves some of the results for
every size. Paths below are relative to `src/rag_document_parser/` in the
repository unless they say otherwise.

What the program must not do is easy to say, and every model is about one part
of it: **evidence of the source must be in the chunks, once and in document
order**, whatever the LLM answers, whichever thread is first and whatever
fails; what is reported of a chunk (warnings, fallback marks, texts that are
out of date) must stay with the evidence it is about; limits on sizes must hold
at the end; and calls must end.

## 1. Inventory

| Component | Where | State it keeps | What it does | What is hard in it |
|---|---|---|---|---|
| Agentic chunker: planning and joining | `chunk/agentic.py` 96–300 | windows, one result per window, the joined list | plans windows on a thread pool, falls back where the planner fails, asks at each seam whether to merge | interleavings, partial failure, chains of merges over several windows |
| Planning budget | `chunk/planning_budget.py` | slices, recursive halving | cuts units and tables into windows whose request fits a token budget | a counter from outside that may answer anything or raise; odd halves; indivisible rows |
| Plan materializer | `chunk/materialization.py` | assignments so far, chunks so far | checks and repairs a plan of an LLM, puts back what it left out, accepts or refuses it | plans are arbitrary; repairs are inserted among repaired chunks |
| Row lookup of tables | `chunk/materialization.py` 480–600 | spans waiting and active during one sweep | finds and continues cells that span a cut between rows | off-by-one at both ends of a span, overlapping spans, gaps in row indexes, cutting what was cut before |
| Chunk boundaries | `chunk/agentic.py` 480–830, 1390–1500 | one list, six passes over it | joins fallback texts, moves headings, joins row groups, separates cases, forms and oversized chunks | each pass edits chunks that passes before have edited; deleted chunks carry warnings |
| Table splits | `chunk/agentic.py` 860–1150 | pending context, chunks cut so far | packs a large chunk group by group, row by row, and by fragments | sums of title, label and repeated texts decide; evidence held back for the next table |
| Fragments of a row | `chunk/table_fragmentation.py` | a bisection and a list of fragments | cuts one row over the limit into fragments | token counts that need not grow with the text |
| Enrichment | `chunk/enrichment.py` | batches, futures, results | asks a model for summaries in batches on a pool, then chunk by chunk | answers out of order or with wrong ids, batches that fail, stale texts |
| LLM gateway | `llm.py` | attempt number | one request with retries and backoff | answers lost after they were served; `HTTPError` is a `URLError` |
| Assets and parser | `evidence_unit_extraction/assets.py`, `storage.py`, `pipeline/parser.py` | the bucket, assets stored so far | stores images and resolves references to them | failed and half-failed PUTs, crashes, calls at the same time |
| PDF recognition | `evidence_unit_extraction/formats/pdf/ocr.py`, `backend.py` | pages to recognize, results by page | recognizes pages on a thread pool, with a callback, a vision model or locally | completion order, failures of single pages, fallback |
| Planning prompt and tokens | `chunk/planning_prompt.py`, `chunk/tokens.py` | none | formats requests, counts tokens | – |
| Models, schema, ports | `models.py`, `evidence_unit_extraction/schema/`, `ports/` | none | data classes, a lookup of backends by suffix | – |
| Renderer | `renderer/` | none | Markdown and HTML of a chunk | – |
| PDF tables and diagrams | `evidence_unit_extraction/formats/pdf/` | page by page | reads tables from geometry, continues tables over pages | heuristics |
| XLSX backend | `.../formats/xlsx/` | a stack of XML elements with running counts; the regions of a sheet | refuses packages over its limits; cuts sheets into regions, headers and rows | limits over sums of parts; merged ranges cut by regions and headers |
| HWP5 backend | `.../formats/hwp5/` | open tables, drawing and containers while records are read; blocks, then units | sections, cell grids, layout tables, drawings put together, recognized images | one record closes several things; spans that overlap; numbers over sections |
| HWPX backend | `.../formats/hwpx/` | paragraphs ahead, assets so far | layout tables, tables with headers and children, flowcharts, recognized images | text before and behind an object; headers joined by spans |
| HTML and Markdown backends | `.../formats/html/`, `.../formats/markdown/` | open elements, section path; collected lines | repair of markup, aligned text, blocks and grids | malformed markup; text over several siblings; flushing |
| Validation scripts | `scripts/` (of the repository) | fixtures and outputs on disk, buckets, child processes | validate and scan samples of a corpus | reruns over old files, timeouts, drivers left behind |

How they interact. `pipeline/parser.py` calls one backend for a file, then
stores its assets and resolves references, and returns units. The chunker takes
the units: the planning budget cuts them into windows; a pool thread formats
each window's request, calls `plan_fn` (usually an LLM gateway) and hands the
answer to the materializer; the calling thread joins the windows; the six
passes redraw boundaries; large tables are split, down to fragments of rows;
and the enricher writes texts with a pool of its own. The gateway is shared by
planner, boundary questions and enricher and keeps no state between calls. The
token counter, the planner, the boundary function and the OCR functions are
callbacks of the user. The validation scripts run the parser in processes of
their own, with the file system and an object store between them.

## 2. Modules

| Module | Stands for | State and actions against the code |
|---|---|---|
| `EvidenceFlow` | what every stage promises | abstract: `frontier` is how much evidence was handed on in order; a stage may hand on more and close at the end |
| `WindowPlanning` | `EvidenceUnitAgenticChunker.chunk`, `_chunk_window`, `_chunk_budgeted_window`, `_merge_window_boundaries` | `stage`, `planned`, `fellBack` per window are the futures; `Pool(w)` is a pool thread (`AskPlanner`, then `AcceptPlan` or `RefusePlan`, or `SkipPlanner`); `Joining(w)` is one turn of the joining loop with its four outcomes |
| `PlanningWindows` | `PlanInputBudget.windows` | `stack` is the recursion of `split_window` and `split_rows`, `result` the list returned; whether a window fits is a free choice, and the counter may raise |
| `PlanMaterializer` | `ChunkPlanMaterializer.materialize` and `fallback` | one action `ReadItem` for a plan item, `Refuse` for every exception, `Accept`/`Reject` for the end with its repairs |
| `Planning` | nothing by itself | a behaviour is one of `PlanningWindows` or one of `PlanMaterializer`, so that one run and one proof speak of both |
| `ChunkBoundaries` | `_improve_chunk_boundaries` and its six passes | `todo` and `result` are the iterators of a pass; one action for each turn of a loop |
| `TableSplits` | `_split_large_table_chunk` | `pending`, `out`, `didSplit` are the locals of the loop over items |
| `TableRows` | `TableRowIndex.subset`, `_restore_planning_rows`, `_join_table_row_boundaries`, `_split_table_item_by_rows` | `pieces` of a table with their clipped and continued cells through three stages of cutting |
| `RowSweep` | the loop of `TableRowIndex.__init__` | `waiting`, `active`, one action per row |
| `RowFragments` | `split_oversized_row` | the bisection and the children of one cell after the other; the tokenizer is a free choice that is remembered |
| `TableCutting` | nothing by itself | a behaviour is one of `TableRows`, `RowSweep`, `RowFragments` or `TableSplits`, so that one run and one proof speak of them |
| `Enrichment` | `RagChunkEnricher.enrich` | `tasks` are the futures, `Work` a thread, `Collect` the caller |
| `LlmGateway` | `complete_model` with `_read_response_with_retries` | one attempt per `Fail` or `Receive`, the sleep, one `Parse` |
| `AssetUpload` | `RagDocumentParser.parse`, `upload_assets`, `resolve_units`, the S3 store | `bucket` is shared, `call[c]` the progress of a call; `PutFails(c, TRUE)` stored the object and lost the answer; `Crash` |
| `PdfOcr` | `PdfBackend.parse` as far as it recognizes, `run_ocr_pages`, `ocr_page_with_vision` | `task` per page is its future, `Record` the order of completion |
| `ModelCalls` | nothing by itself | a behaviour is one of `LlmGateway` or one of `PdfOcr`, so that one run and one proof speak of both |
| `Uploads` | nothing by itself | a behaviour is one of `AssetUpload`, `PdfSizeValidation` or `HwpxSampleScan`, so that one run and one proof speak of them |
| `PdfSizeValidation` | `scripts/validate_pdf_clic_size_samples.py` | `stage` of the parent and `work` of the worker; `fixture`, `outputs` and the bucket are on disk and outlive `Crash` and a new start |
| `HwpxSampleScan` | `scripts/scan_hwpx_clic_minio_size_samples.py` | one bucket after the other, `chosen` waiting for evaluation, `driver` the browser process |
| `XlsxPreflight` | `XlsxPackageValidator` | one action for the start and one for the end of an element, by kind of part; `stack` the open elements, with the running counts of the handlers |
| `XlsxSheets` | `XlsxBackend.parse`, `xlsx/regions.py`, `xlsx/worksheet_parser.py` | one action per stage of a sheet: merges, declared tables, regions, and one region emitted |
| `Hwp5Tables` | `Hwp5TableBuilder`, `Hwp5TableSourceProjector` | operators: the grid, the headers, the source rows of one table |
| `Hwp5Section` | `Hwp5SectionParser` | `parser` holds the locals of `_parse_section`; one action for each branch of its loop, and the three closing steps before it as actions of their own, forced by the record that is handled |
| `Hwp5Document` | the rest of `Hwp5Backend.parse` | three stages over a list of blocks: layout tables, drawings, units; then one recognition per image |
| `HwpxDocument` | `HwpxBackend.parse` | `todo` is the generator of paragraphs with its recursion; `Extract`, `EmitTable`, `EmitPicture`, `EmitText` are the branches of the loop |
| `HtmlText` | `HtmlRepairer`, `html/text.py` | operators on token sequences and rows of text |
| `HtmlDocument` | `HtmlDocumentParser`, `html/table_extraction.py` | `stack` is the recursion of `_walk_blocks`, one action per branch |
| `MarkdownDocument` | `_units_from_markdown` | one action per kind of line |

The `MC…` modules hold the constants of the runs. Three are for one module.
Six run components side by side that do not touch, each behaviour being one of
them, so that one run can ask what belongs together:

- `MCPlanning`: `PlanningWindows`, `PlanMaterializer`, composed in `Planning`,
  about which the theorems are;
- `MCTableRows`: `TableRows`, `RowSweep`, `RowFragments`, `TableSplits`, composed in
  `TableCutting`, about which the theorems are;
- `MCModelCalls`: `LlmGateway`, `PdfOcr`, composed in `ModelCalls`, about which
  the theorems are;
- `MCUploads`: `AssetUpload`, `PdfSizeValidation`, `HwpxSampleScan`, composed in
  `Uploads`, about which the theorems are;
- `MCXlsx`: `XlsxSheets`, `XlsxPreflight`;
- `MCDocuments`: the modules of HWP5, HWPX, HTML and Markdown.

`…_proofs` modules hold the theorems. `Induction` holds the
lemmas several of them cite: induction over an index, recursive functions, folds,
flattened sequences, lists that are cut and joined. A definition whose comment starts with "Bug variant" is a plausible mistake in the code of the definition that follows
it. No run uses it; put in the place of the definition it varies, it makes TLC
refute the property that PROJECT.json names beside it, so that each property is
known to be able to fail.

**Refinement.** `EvidenceFlow` is the abstract specification. `WindowPlanning`,
`PlanningWindows` and `Enrichment` implement it (`HandsOnInOrder`,
`ReturnsInOrder`): each instantiates it with a `frontier` computed from its
list (-1 once the list is no prefix, which no step of `EvidenceFlow` allows)
and its own return as `closed`.

**What is abstracted.** Evidence is numbers or `<<unit, row>>` pairs. Texts,
titles, prompts and reasons are left out. What a text looks like (a heading, a
form) is an attribute of the unit. Where the code asks something that it cannot
control (planner, boundary answer, token counter, OCR, store) the model chooses
freely among everything the caller can see. `TableSplits` keeps token sums,
because its decisions are what it is about; it adds them up, where a tokenizer
may count a joined text a little differently.

## 3. Runs

Every run passes except the three of section 5.

| Run | Question | Bounds, and why they are enough |
|---|---|---|
| `window_planning` | Do pool order, failures, merges and refused merges keep all evidence, marks and limits, and does `chunk()` end? | Four windows, two workers, limit of two units. Two text windows, two views of one table in two windows, and a window over the budget: merges can chain over three windows, the limit is reached both with and without a shared table, and the fallback has a neighbour. |
| `planning` | Do halved windows tile the document, keep to their slices, keep the rows of a cut table to themselves, and stop; does every plan end in full, ordered coverage, by repair or by refusal? | Five units, tables of five and two rows (odd and even halves), slices of three with a shorter last one; every answer of the counter, and its exceptions. Three plan items of up to two operations out of seventeen on text, table with a gap in its indexes, text. Omitted rows at the start, middle and end, double and overlapping assignments and every refused operation occur. |
| `chunk_boundaries` | Do six passes keep evidence, notes and flags, and draw the boundaries they promise? | Every division of some 200 four-unit documents (and table documents with a row group, one of them a table that looks like the start of a form) into items and chunks, with every set of fallback chunks of up to two units (planning falls back unit by unit, and a merge over a seam joins two such chunks up to the limit); limit two units. Four units are enough for two passes to touch one chunk after the other, and for a chunk to be deleted between two others. That cases and forms stay apart is asked of chunks of several units only: the code never takes apart a chunk of one unit, so the rows of a table that looks like a form stay together. |
| `table_rows` | Do rows keep showing their cells through repeated cutting; does the sweep find them; do fragments spell a row; is a chunk cut at its tables without loss and only where it must be? | Four tables with nested, overlapping and overlong spans, missing and repeated indexes, cut at all places three times; all lists of up to two spans over rows 1–5; one or two cells of up to six characters and two children under every tokenizer; chunks of up to four items of nine shapes around target 6 and maximum 10, two tables with context before and between them. Spans are independent in the sweep, so two show every interaction. |
| `enrichment` | Is every text of its own chunk and fresh, do failures show, do chunks return in order, and does the call end? | Costs 2, 2, 5, 1 with budget 4: an exact batch, a chunk over the budget, a single one; two threads; every answer to a batch. |
| `model_calls` | Is the work of a call bounded and only the transient repeated; is each page accounted for, once, with its own text, and are failures in order? | 0 to 3 retries, no backoff and two others, a status of either kind. Documents of up to three pages, one and two threads, all recognizers: three pages on two threads complete in an order that differs from any simple one. |
| `uploads` | Is what a result names stored, unchanged, for its own document; does a report agree with its files and workers, also when the script starts again; does a validation end; are samples distinct and browsers stopped? | Two calls, three documents that number their images alike (one with a dangling reference), two tries each: keys are per document and image, so a third call adds no conflict. Five PDFs in two folders and two bands of size, two faults and two starts: an old output can meet a new worker, and a torn file a second download. Three stores of up to seven HWPX documents with equal contents in different buckets. |
| `xlsx` | Is every package refused that is over a limit or misleading (not that no other is); are regions apart and complete; is each cell shown once? | Sheets of four rows and three columns with merged ranges that cross headers, regions and tables, declared tables that meet found regions, filters and hidden sheets, over two sheets with a limit on the cells of both. Package parts of up to five elements of every kind, limits of one to three, so that each is met and passed. |
| `documents` | Are grids whole, is each text in one place and in order, do images keep their numbers, do containers enclose their parts, is only what begins no markup escaped, and once? | HWP5: all tables of three rows in twelve patterns with spans, and three record scripts of eight positions over two sections, cut at every place. HWPX: all pairs of seventeen paragraphs (texts, drawings, pictures, layout tables at two depths, flowcharts) and the tables above. HTML: sources of up to four fragments of markup, rows with gaps, pages of up to three blocks (aligned rows in and out of links, around a heading in a link; lists in items and in lists), tables of five rows with spans. Markdown: files of up to six lines of five kinds. Two blocks show every order, a third what is between them. |

Type invariants are part of a property of each run (`SourceCovered`,
`ResultRight`, `EvidenceAndNotesKept`, `RequestsBounded`, `AssetsRight`,
`CallsAccounted`, `CutsWellFormed`, `FragmentsRight`). Some properties are
conjunctions of what their comment lists: `BoundariesDrawn` is what the passes
of `ChunkBoundaries` are for (no chunk is left over the limit and an oversized
one on the way says so, headings lead, row groups stay whole, cases and forms
stay apart, sections are not joined through a chunk without one); `MergesRight`,
`TextsRight`, `SplitsRight`, `PagesRight`, `ReportRight` and `ScanRight` are
conjunctions of the same kind, and `PagesInOrder`, `GridWhole` and `MarkupRight`
ask the same of each format.

`CHECK_DEADLOCK FALSE` is set where a run ends: a call returns or raises once.
`Planning` keeps stuttering explicitly instead.

## 4. Fairness

Liveness is checked where the code has a loop or a pool that could hang.

- `WindowPlanning`: weak fairness of each window's pool work and of the calling
  thread. A planner call ends, since the gateway sets a timeout for each
  request and bounds its retries; a `plan_fn` of the user that never returns
  would hang the program, and is excluded.
- `Enrichment`: the same for each task and the caller.
- `PlanningWindows` (`WindowsStep` in `Planning`), `RowFragments` (`CutStep` in
  `TableCutting`): one thread that calls nothing that waits, so weak fairness of
  the next step.
- `PdfSizeValidation`: weak fairness of what parent and worker do by themselves
  (`PdfProgress` in `Uploads`), and of the timeout of a parse that does not end
  (`PdfTimesOut`, the `timeout` of `subprocess.run`). Crashes and new starts are not fair.
- `PdfOcr`: weak fairness of its next step (`CallsFairSpec` in `ModelCalls`); only
  the run of section 5 uses it.

No strong fairness is assumed anywhere.

## 5. Where documents and code disagree

Three runs end in a counterexample.

- `boundary_marks`. `chunk/agentic.py` 673 says that moving the last evidence
  out of a chunk must not erase its repairs. Its warnings do move, but the mark
  that the chunk stands for a planner failure (`_fallback_reason`) does not:
  `FailuresKept` fails for a fallback chunk that consists of one heading.
- `pdf_ocr_empty`. `README.md` 576 of the repository says that local OCR is
  tried when vision OCR "fails or returns empty text". An empty string of the
  vision model becomes the answer `no_text`, which is believed:
  `EmptyTriedLocally` fails.
- `html_lists`. The design of the HTML backend
  (`docs/superpowers/specs/2026-06-26-html-backend-design.md` 58 of the
  repository) says that text from `li` becomes plain text evidence. Of a list
  only the items directly in it are read (`document_parser.py` 168):
  `ListItemsRead` fails for an item of a list that stands in another list and
  not in an item of it.

Also met while modelling, but not kept as runs:

- `README.md` 576 says `ocr_fn` takes precedence when `ocr_llm` is configured
  as well; `PdfBackend.__post_init__` (`pdf/backend.py` 143) raises
  `ValueError`.
- `agentic.py` 1020 speaks of keeping a fitting title suffix with the table
  behind it. Only the whole run of titles at the end is tried: when it does not
  fit, or when nothing but titles is held back, a last title that would fit by
  itself is left behind as well.
- `tests/test_planning_budget.py` 151 is named for keeping the provenance of
  spans over repeated row splitting. The code does so for tables planned in
  views (`ViewsTellOrigin`); a piece that the plan itself cut out by rows is
  split out of its own clipped rows, and its continued cells then name the row
  and height of the first cut.

## 6. Proofs

TLAPS checks these for all values of the constants that satisfy the named
assumptions of the modules (windows and units are nonempty and adjoin; limits
are positive; tables have ascending indexes; the statuses to retry are not
the others, and a document to recognize is a finite list of pages; the assets of a document are distinct, and the number of tries is
a natural number; PDFs have an identity and a size, the bands of size do not
overlap and there is at least one, as for the quantiles; a store of HWPX is a
list and a bucket wants at least one sample; the rows of a table are numbered
from 1 and only texts look like headings; a chunk to cut has items, and a table
has groups of rows, none empty, as one without rows is none to
`_is_splittable_table_item`).

| Theorem | Says | Argument |
|---|---|---|
| `WindowPlanning_proofs!TypeCorrect`, `SourceAlwaysCovered` | `[]TypeOK`, `[]SourceCovered`: the joined list holds the evidence of the windows joined so far once, in order | That the joined list tiles its evidence (`JoinedTiles`) is not inductive alone: merging takes the head of a result that is not joined yet. `Inv` adds `ResultsCover` (each finished window's chunks tile its evidence) and `JoinsAll` (joining starts only when all windows are done). Lemmas about tilings: concatenating two, replacing the last chunk, dropping the first. |
| `WindowPlanning_proofs!MergesOnlyWhatItMay`, `MarksStay`, `JoiningHandsOnInOrder` | `[]MergesRight`, `MarksKept`, and the module implements `EvidenceFlow` | `MergeInv` adds to `MergesRight` that nothing is joined while windows are still planned, and that a window over the budget is never asked for: it falls back, and every chunk of its result carries the fallback mark and the warning, so no merge can take one in. The marks of a piece of evidence only grow at a merge, because the merged chunk has those of both. The refinement maps a turn of the joining loop to handing on the window's evidence; everything else stutters. |
| `Enrichment_proofs!TypeCorrect`, `TextsAreRight`, `RequestsAreBounded`, `ReturnsAllInOrder` | `[]TextsRight`, `[]RequestsBounded`, and `enrich` implements `EvidenceFlow` | The batches come from a fold over the costs; by induction along the fold they are runs of chunks, adjoin, and are within the budget or single. `IInv` has three parts: what a task may hold in each of its phases (`TasksRight`), that the requests in which a chunk was named are bounded by how far its task has come (`AskedRight`), and that what was collected is the texts of the first n tasks in order, for some n (`TextsInOrder`). |
| `ChunkBoundaries_proofs!KeepsEvidenceAndNotes`, `FlagsStaleTexts` | `[]EvidenceAndNotesKept`, `[]StaleTextFlagged`, for all documents, all divisions planning may make of them and every limit | The evidence of a list is a flattened sequence of keys. A pass replaces a segment of the list by another that is `Reworked` from it: the same keys in order, every key with the warnings it had, flags where texts went stale. `Reworked` composes, along folds and along the list, so that each action is one lemma about a segment. A heading that moves could lose its chunk's warnings if its unit were elsewhere too; that it is not follows from the keys of the document being distinct for units without rows. |
| `ChunkBoundaries_proofs!DrawsBoundaries` | `[]BoundariesDrawn`: what each pass draws, the passes behind it leave drawn | `BInv` says of every chunk of `todo`, `result` and `run` which of the splitting passes are behind it (`Drawn`, by `Visited` and `Made`), and keeps for lists what a pass says of neighbours. Three parts had to be strengthened: a run of short texts holds no two neighbours of different sections (`Linked`); an item of another section behind a heading has nothing but headings of its own section in front of it (`Leading`), or moving those on could leave the heading at an end; a pair of chunks that could not be joined still cannot when the second takes in a third (`StaysApart`). Parts of drawn chunks are drawn (`DrawnPart`), so later passes undo nothing. |
| `Planning_proofs!TypeCorrect`, `WindowsCutRight`, `WindowsHandOnInOrder` | a window holds units of one slice only, and one with some but not all rows of a table holds nothing else; and the module implements `EvidenceFlow`; for all documents, slice sizes and token counters | `Inv` says that the jobs on the stack adjoin, from what was handed on to the end of the slice (`StackCovers`), that each is whole units or rows of one unit, within a slice (`StackWellCut`), and that the result is a prefix (`ResultPrefix`). Halving replaces the first job by two that adjoin. A job becomes a window as it is (`JobCutRight`); slices begin at the multiples of the window size, so that what is within one meets no other (`SlicesEven`, `PartOfSlice`). The refinement is step by step: emitting hands on, everything else stutters, returning closes. |
| `Planning_proofs!PlansEndRight` | `[]ResultRight`: for every window and any answers of the planner, the chunks at the end hold each unit and row once and in order, and name as context only what an earlier chunk shows | Coverage at the end is what `Accept` checks and what the fallback builds, so the argument is about context while chunks are still put in. `PlanInv` adds that, while the plan is read, what it has claimed is shown by its chunks (`Covered` within `Shown`), which is what a later item may name; that a chunk with no context may be put in at any place without one that names context losing its source (`InsertedIn`); and that so may all repairs, one after the other (`FoldedIn`). Repairs have no context (`Repairs`), and those of rows begin at a row, as `contiguous_ranges` gives nonempty ranges only (`RunsAre`). Pairs of rows are taken to start at or before their end: `_normalize_row_ranges` refuses all others, which the model counts as malformed. |
| `ModelCalls_proofs!CallsServedBounded`, `RepeatedForTransient` | a provider serves a call at most `max_retries + 1` times; what is repeated was transient | `Counted` relates attempts, failures and served requests; `RetriedTransient` says so of every failure before the present one, also while sleeping. |
| `ModelCalls_proofs!AllAreAccounted` | `[]CallsAccounted`: every page of a document that was read has evidence, read from it, or exactly one warning that it is lost, and these are in page order; the sleeps of a call double and stay below the next backoff; for all documents, recognizers, numbers of threads and settings | `PagesInv` says where each page is, between the loop and the threads (`PagesWalked`, `PagesRecognized`), that without threads pages are in work one by one (`InTurn`), and that the recorded pages without a text are those of the failures, each once (`FailuresTold`). That counting the results is enough to end is the pigeonhole: they are distinct and among the scanned pages, so as many means all. `InPageOrder` picks an ordered list of the failures; that there is one is an induction (`OrderExists`), and that it holds the same failures follows (`PagesOrdered`). Behind the loop `Collected` says what evidence a page has, so putting the texts in leaves exactly the pages of the failures without any. |
| `TableCutting_proofs!SweepRight` | `[]ContextRight`: the sweep finds for each row of any table exactly the cells that span down to it | `IInv` adds `Swept`: every cell is waiting, active or ended before the next row, by its first and last row. |
| `TableCutting_proofs!FragmentsAreRight` | `[]FragmentsRight`: the fragments of a row that is over the maximum spell its cells once and in order, and each was seen to fit where it is returned, for all rows, all choices of repeated cells and all tokenizers | `Lossless` relates the fragments so far to the place `at` of the loops: per cell, what is spelled is the text up to `done` and the children before the next. It is about flattened sequences of fragments, so each branch of the code is a lemma about appending or extending the last fragment. `Standing` says which cell is in work, and that what the bisection would cut off now was seen to fit; `FitSoFar` that every fragment was asked for as it stands. The tokenizer's answers only grow, so a fragment that fitted still does. |
| `TableCutting_proofs!SplitsAreRight` | `[]SplitsRight`: the chunks of a chunk that is cut at its tables, with what still waits, show its items and rows once and in order, the two parts of a row in fragments one after the other; a group of rows that fits with the texts before it is never cut; what is over the maximum is one item, or one row with its context, for all chunks, targets and maxima | `SplitInv` says that the new chunks are `Placed`: they show the items before some item j, in order, and every two that follow one another are linked (`LinkOk`: another item, or a group that had to be cut); and that the items from j on wait, of which tables over the maximum have a single row (`LooseSet`). The code cuts with two folds, the packing of what waits (`WithItem`) and the collecting of groups (`WithGroup`); both keep the flattened list, by induction along the fold. For the size of a piece it matters that what was seen to fit is not what is measured later: the evidence before a table is measured beside its first group or first row (`FirstSize`), the row beside that evidence or beside the texts of it (`Overhead`). `SplitFits` shows that a piece over the maximum is then a single row, and too large without the evidence if there is any. |
| `Uploads_proofs!TypeCorrect`, `ResultsNameStoredAssets`, `ObjectsStay` | what a result names is stored with its bytes, its references are to assets of its document, and a stored object never changes, for any number of calls, documents and assets | `BucketOK`: a key belongs to one document and asset, so whoever writes it writes the same bytes, and what a try after a lost answer or a crash finds is what it would store. That results are stored is not inductive alone: `Good` says of a call in every phase that what it has put so far is in the store, so that it still is when the call resolves. |
| `Uploads_proofs!ReportsAreRight` | `[]ReportRight`: the samples of a size validation are of distinct PDFs and names, the manifest says what was downloaded, each result is of its own sample and of this run, and the bucket says the same, for any PDFs, crashes, torn files, timeouts and new starts | `PdfInv` says how far each stage has come. While samples are picked, those of a band are numbered by how many of its objects are used, and a band with fewer objects than quantiles ends the script, so that the search near a quantile always finds one that is left (`SamplesPicked`). While they are downloaded, those before `at` are as large as listed (`Downloaded`), which is what tells a torn file. `AtWork` says for each step of the worker what it has stored and recorded of the present sample: at its exit all of it, so that a parent that believes the output, or that writes a failure over it, agrees with the bucket. Results before stay right because names are distinct: the worker writes under the name of its own sample only. |
| `Uploads_proofs!ScansAreRight` | `[]ScanRight`: no content is sampled twice over the three buckets, a bucket has as many samples as wanted unless every content is taken, each screenshot belongs to a result that shows it, no browser outlives the screenshots, for any store, bucket size and failures | `ScanInv` adds that what was seen is what is sampled or waits to be (`Unique`), and that every document not read yet is among the candidates (`Filled`), for which the order of preference must lose none: `PassKeeps` says so of a pass, along its fold. That a picture goes to the result it was taken of needs the samples of a bucket to be numbered apart (`Numbered`), and each target to aim at one of them (`Aims`, along the fold of `_screenshot_targets`: `TargetsAim`). |

`Induction` holds what several of these proofs need and no library module
states: induction over finite sets, intervals and sequences (by the least
counterexample among the finite subsets, from the library's theorems on finite
sets), the unfolding of a fold over a sequence into one state per element
(`SetsFold`, `FoldPrefixes`), and the flattening of sequences of sequences
(`MapFlat`, `FlattenAppend`), with lists that are cut into parts, joined and
linked at the seams (`Upto`, `Apart`, `Chained`). An induction is stated over a set of the cases
that hold, as a theorem with an operator as parameter cannot be used here.

Only model-checked: liveness and everything under fairness (`Returns`,
`WindowsReturn`, `CuttingEnds`, `ValidationEnds`), which the installed provers do
not reach; that a plan in source order is never thrown away (`GapsRepaired`);
`TableRows` and the format backends. Those of the backends that declare recursive operators
over nested data (tables in cells, elements in elements: `HtmlDocument`,
`Hwp5Document`, `HwpxDocument`, `XlsxSheets`) hold no theorems, as the prover
loses its SMT backend there.

## 7. Not modelled, and why

- Prompts, token counting, data classes, rendering: functions without state;
  where a count matters it is a free choice.
- What recognizes a heading, a form or a diagram in text and geometry:
  heuristics without a specification to check against. For the same reason the
  tables, diagrams and segments of PDFs: nearly every step of theirs compares
  coordinates in floating point or Korean wording, and a model that takes the
  answers as given would keep little of the code.
- In the backends: how bytes and XML become records, cells and elements (an
  unreadable file raises); number formats, charts and drawings of XLSX; the
  geometry of drawings and the edges of diagrams of HWP5 and HWPX; labels of
  columns and the wording of source texts.
- Signing and transport of requests: I/O. Their failures are modelled.
- The validation scripts that only loop over a corpus.

What the models of the backends show of the code besides, because their
properties had to be stated around it. None of it contradicts a document of the
repository:

- HTML: a link around aligned rows names its target behind each of them when it
  ends, and their source texts are made anew then: rows before a heading in the
  link are written under that heading, while their `section_path` is that of
  their place (`TextsInOrder` asks for both as they are); text and lists
  directly in a list are not read; spans of header cells are not expanded, cells of a row beyond the
  headers are dropped, and of two equal header names one hides the other in the
  source text; the text of a figure without an image, a second image of a figure
  and images in paragraphs and list items are not read.
- Markdown: lines that look like a table but are fewer than three become a
  table unit that shows nothing (`LinesInOrder` asks for the lines that are
  shown); cells beyond the header are cut off.
- HWP5: an open drawing object is not closed by the header of another control
  at its level; a picture or a line drops the texts of its object; a table
  without a valid cell drops the tables in it; in tables that omit blank cells a
  span may be repeated below its end.
- HWPX: outside of layout tables a paragraph with a table or picture drops the
  text and further objects beside it, and a box with text drops the text beside
  it; images and children in rows that become a flowchart are dropped, an image
  that was stored stays an asset without a reference; the headers of a table
  whose data rows all become a flowchart are dropped; equal texts appear in a
  flowchart once.

## 8. Plan

Done, in this order: `EvidenceFlow`, `WindowPlanning` and its proofs,
`PlanMaterializer`, `ChunkBoundaries`, `TableSplits`, `PlanningWindows` and its
proofs, `Enrichment`, `LlmGateway`, `AssetUpload` and its proofs,
`TableRows`, `RowSweep`, `RowFragments` and the proofs about both, `PdfOcr`; then `PdfSizeValidation`
and `HwpxSampleScan` beside `AssetUpload`, composed in `Uploads` and proved, `XlsxSheets`, `XlsxPreflight`,
`Hwp5Tables`, `Hwp5Section`, `Hwp5Document`, `HtmlText`, `HtmlDocument`,
`MarkdownDocument` and `HwpxDocument`.

Next, models:

1. Tables continued over pages in the PDF backend, with the answers of its
   heuristics as attributes of a page.
2. A composition of the chunker's stages, each at its `EvidenceFlow`
   interface, to show that the whole of `chunk()` implements it.

Proofs came with their modules; then those of `WindowPlanning` about merges, marks
and `EvidenceFlow`, of `Enrichment`, of `ChunkBoundaries`, of `ModelCalls` and of `PlanMaterializer`,
each on the lemmas of `Induction`.

Next, proofs:

1. `PlanMaterializer`: `GapsRepaired`.
2. `TableRows`: `CutsWellFormed`, `RowsShowTheirCells`.

## Running

    tlc -config WindowPlanning.cfg MCWindowPlanning
    tlapm WindowPlanning_proofs.tla

Each run of section 3 is `<Name>.cfg` with the module `MC<Name>` of the same
name; `ChunkBoundariesMark.cfg` goes with `MCChunkBoundaries`, `PdfOcrEmpty.cfg` with
`MCModelCalls` and `DocumentsLists.cfg` with `MCDocuments`.
