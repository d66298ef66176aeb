------------------------------- MODULE PdfOcr -------------------------------
(***************************************************************************)
(* How pages of a PDF that have no usable text are read: PdfBackend.parse  *)
(* (pdf/backend.py) collects them, run_ocr_pages (pdf/ocr.py) has them     *)
(* recognized on threads, and their texts and failures join the document.  *)
(*                                                                         *)
(* A recognizer is a callback, a vision model with local recognition       *)
(* behind it, or local recognition alone. What is read of a page with      *)
(* native text, and how recognized text is cut, is left out.               *)
(***************************************************************************)
EXTENDS Integers, Sequences, FiniteSets, SequencesExt

CONSTANTS
    Documents,   \* sequences of pages: "native", "scanned" or "degraded"
    Options,     \* sets of recognizers given: "ocr_fn", "ocr_llm", "ocr_gateway"
    Workers      \* values of max_ocr_workers

InputsAssumption ==
    /\ \A d \in Documents : d \in Seq({"native", "scanned", "degraded"})
    /\ Options \subseteq SUBSET {"ocr_fn", "ocr_llm", "ocr_gateway"}
    /\ Workers \subseteq Nat

VARIABLES
    pages, options, workers,
    phase,       \* "configure", "pages", "ocr", "assemble", "done" or "rejected"
    at,          \* the page the loop has come to
    scanned,     \* the pages to recognize, in order
    png,         \* pages that could be rendered
    task,        \* per page, where its recognition is
    outcome,     \* what recognition made of a page, once it ended
    results,     \* pages in the order their texts were recorded
    text,        \* the recorded texts: the page that was read, or 0 for none
    failures,    \* recorded failures [page, status]
    segments,    \* evidence per page
    warnings     \* [page, type] in order

document == <<pages, options, workers>>
collected == <<at, scanned, png>>
recognized == <<task, outcome>>
recorded == <<results, text, failures>>
vars == <<document, phase, collected, recognized, recorded, segments, warnings>>

Callback == options \cap {"ocr_fn", "ocr_gateway"} # {}
Vision == options = {"ocr_llm"}

\* What a callback may do: answer with a structured result, with a string that
\* is blank or not, or raise. A vision model answers structured or raises.
VisionAnswers == {"extracted", "no_text", "uncertain", "raised"}
CallbackAnswers == VisionAnswers \cup {"string", "blank"}
HasText(answer) == answer \in {"extracted", "string"}

Init ==
    /\ pages \in Documents /\ options \in Options /\ workers \in Workers
    /\ phase = "configure"
    /\ at = 1 /\ scanned = <<>> /\ png = {}
    /\ task = [p \in DOMAIN pages |-> "none"] /\ outcome = [p \in DOMAIN pages |-> "none"]
    /\ results = <<>> /\ text = [p \in DOMAIN pages |-> 0] /\ failures = <<>>
    /\ segments = [p \in DOMAIN pages |-> {}] /\ warnings = <<>>

Configure ==
    /\ phase = "configure"
    /\ phase' = IF Cardinality(options) > 1 THEN "rejected" ELSE "pages"
    /\ UNCHANGED <<document, collected, recognized, recorded, segments, warnings>>

-----------------------------------------------------------------------------
(* The pages.                                                              *)

Warning(p, type) == [page |-> p, type |-> type]

\* ocr_fallback_reason: a page with garbled text only when someone can help.
NeedsOcr(p) == pages[p] = "scanned" \/ (pages[p] = "degraded" /\ options # {})

ReadPage ==
    /\ phase = "pages" /\ at <= Len(pages)
    /\ ~NeedsOcr(at)
    /\ segments' = [segments EXCEPT ![at] = {at}]
    /\ at' = at + 1
    /\ UNCHANGED <<document, phase, scanned, png, recognized, recorded, warnings>>

\* The page is rendered if someone will look at it; that may fail, with a
\* warning, or be impossible for want of a library, without one.
ScanPage ==
    /\ phase = "pages" /\ at <= Len(pages)
    /\ NeedsOcr(at)
    /\ \E rendered \in IF options = {} THEN {"missing"} ELSE {"yes", "missing", "failed"} :
          /\ png' = IF rendered = "yes" THEN png \cup {at} ELSE png
          /\ warnings' = warnings
                \o (IF rendered = "failed" THEN << Warning(at, "render_failed") >> ELSE <<>>)
                \o (IF pages[at] = "degraded" THEN << Warning(at, "degraded") >> ELSE <<>>)
    /\ scanned' = Append(scanned, at)
    /\ task' = [task EXCEPT ![at] = "queued"]
    /\ at' = at + 1
    /\ UNCHANGED <<document, phase, outcome, recorded, segments>>

EndPages ==
    /\ phase = "pages" /\ at > Len(pages)
    /\ phase' = "ocr"
    /\ UNCHANGED <<document, collected, recognized, recorded, segments, warnings>>

-----------------------------------------------------------------------------
(* Recognition of one page, on a thread.                                   *)

Serial == workers <= 1 \/ Len(scanned) = 1
Running == {p \in DOMAIN pages : task[p] \in {"gateway", "local", "local_uncertain"}}
Queued == {p \in DOMAIN pages : task[p] = "queued"}
Ended == {p \in DOMAIN pages : task[p] = "ended"}

\* A thread takes the next page; without threads, once the last is recorded.
\* A vision model is only asked about a page that was rendered.
Take ==
    /\ phase = "ocr" /\ Queued # {}
    /\ IF Serial THEN Running \cup Ended = {} ELSE Cardinality(Running) < workers
    /\ LET p == CHOOSE q \in Queued : \A r \in Queued : q <= r
           asks == Callback \/ (Vision /\ p \in png)
       IN  task' = [task EXCEPT ![p] = IF asks THEN "gateway" ELSE "local"]
    /\ UNCHANGED <<document, phase, collected, outcome, recorded, segments, warnings>>

EndTask(p, answer) ==
    /\ task' = [task EXCEPT ![p] = "ended"]
    /\ outcome' = [outcome EXCEPT ![p] = answer]

AskCallback(p) ==
    /\ task[p] = "gateway" /\ Callback
    /\ \E answer \in CallbackAnswers : EndTask(p, answer)
    /\ UNCHANGED <<document, phase, collected, recorded, segments, warnings>>

\* ocr_page_with_vision: when the model fails or is not sure, the page is
\* recognized locally; that it has no text is believed.
AskVision(p) ==
    /\ task[p] = "gateway" /\ Vision
    /\ \E answer \in VisionAnswers :
          CASE answer = "raised" -> task' = [task EXCEPT ![p] = "local"] /\ UNCHANGED outcome
            [] answer = "uncertain" -> /\ task' = [task EXCEPT ![p] = "local_uncertain"]
                                       /\ UNCHANGED outcome
            [] OTHER -> EndTask(p, answer)
    /\ UNCHANGED <<document, phase, collected, recorded, segments, warnings>>

\* ocr_page: never raises; "blank" is text of spaces, which is still text to
\* the fallback, "" is none.
AskLocal(p) ==
    /\ task[p] \in {"local", "local_uncertain"}
    /\ \E answer \in {"string", "blank", ""} :
          EndTask(p, IF answer # "" THEN answer
                     ELSE IF task[p] = "local_uncertain" THEN "uncertain" ELSE "blank")
    /\ UNCHANGED <<document, phase, collected, recorded, segments, warnings>>

-----------------------------------------------------------------------------
(* Results, in the order they come.                                        *)

\* _record_ocr_result, for pages as they complete.
Record(p) ==
    /\ phase = "ocr" /\ task[p] = "ended"
    /\ task' = [task EXCEPT ![p] = "recorded"]
    /\ results' = Append(results, p)
    /\ text' = [text EXCEPT ![p] = IF HasText(outcome[p]) THEN p ELSE 0]
    /\ failures' = IF HasText(outcome[p]) THEN failures
                   ELSE Append(failures, [page |-> p, status |-> outcome[p]])
    /\ UNCHANGED <<document, phase, collected, outcome, segments, warnings>>

\* Bug variant: failures stay in the order they came.
EndOcrUnsorted ==
    /\ phase = "ocr"
    /\ Len(results) = Len(scanned)
    /\ phase' = "assemble"
    /\ UNCHANGED <<document, collected, recognized, recorded, segments, warnings>>

\* failures.sort(key=page_number); a page fails at most once.
InPageOrder(list) ==
    CHOOSE sorted \in [DOMAIN list -> ToSet(list)] :
        /\ \A f \in ToSet(list) : \E k \in DOMAIN list : sorted[k] = f
        /\ \A j, k \in DOMAIN list : j < k => sorted[j].page < sorted[k].page

\* All are recorded; threads leave their failures in any order.
EndOcr ==
    /\ phase = "ocr"
    /\ Len(results) = Len(scanned)
    /\ failures' = IF Serial THEN failures ELSE InPageOrder(failures)
    /\ phase' = "assemble"
    /\ UNCHANGED <<document, collected, recognized, results, text, segments, warnings>>

\* The texts become evidence of their pages and the failures warnings
\* (ocr_warnings). Of the structure of a text, nothing or something is noted.
Assemble ==
    /\ phase = "assemble"
    /\ segments' = [p \in DOMAIN pages |-> IF text[p] = 0 THEN segments[p]
                                           ELSE segments[p] \cup {text[p]}]
    /\ \E noted \in SUBSET {p \in DOMAIN pages : text[p] # 0} :
          LET Structure(p) == IF p \in noted THEN << Warning(p, "structure") >> ELSE <<>>
              Type(f) == CASE f.status = "no_text" -> "empty"
                           [] f.status = "uncertain" -> "uncertain"
                           [] OTHER -> "failed"
          IN  warnings' = warnings
                \o FlattenSeq([k \in DOMAIN results |-> Structure(results[k])])
                \o [k \in DOMAIN failures |-> Warning(failures[k].page, Type(failures[k]))]
    /\ phase' = "done"
    /\ UNCHANGED <<document, collected, recognized, recorded>>

Recognize(p) == Record(p) \/ AskCallback(p) \/ AskVision(p) \/ AskLocal(p)
Next ==
    \/ Configure \/ ReadPage \/ ScanPage \/ EndPages
    \/ Take \/ (\E p \in DOMAIN pages : Recognize(p))
    \/ EndOcr \/ Assemble

Spec == Init /\ [][Next]_vars

\* The caller's thread and the threads of the pool go on; a call to a
\* recognizer returns or raises, as each has a timeout.
FairSpec == Spec /\ WF_vars(Next)

-----------------------------------------------------------------------------
(* Properties.                                                             *)

\* The type of the state; pages are recognized at most workers at a time.
TypeOK ==
    /\ pages \in Documents /\ options \in Options /\ workers \in Workers
    /\ phase \in {"configure", "pages", "ocr", "assemble", "done", "rejected"}
    /\ at \in 1..Len(pages) + 1
    /\ scanned \in Seq(DOMAIN pages) /\ png \subseteq ToSet(scanned)
    /\ task \in [DOMAIN pages -> {"none", "queued", "gateway", "local", "local_uncertain",
                                  "ended", "recorded"}]
    /\ outcome \in [DOMAIN pages -> CallbackAnswers \cup {"none"}]
    /\ results \in Seq(ToSet(scanned)) /\ IsInjective(results)
    /\ text \in [DOMAIN pages -> DOMAIN pages \cup {0}]
    /\ failures \in Seq([page : DOMAIN pages, status : CallbackAnswers])
    /\ Cardinality(Running) <= IF Serial THEN 1 ELSE workers

Lost(warning) == warning.type \in {"failed", "empty", "uncertain"}

\* A document that was read has, of every page, evidence or exactly one
\* warning that its text could not be recognized, not both: a page that fails
\* takes nothing from the others and is never silent (_record_ocr_result).
PagesAccounted ==
    phase = "done" =>
        \A p \in DOMAIN pages :
            Cardinality({k \in DOMAIN warnings : warnings[k].page = p /\ Lost(warnings[k])})
                = IF segments[p] = {} THEN 1 ELSE 0

\* What is said of a page was read from it, in whatever order pages complete.
TextOnOwnPage ==
    /\ TypeOK
    /\ \A p \in DOMAIN pages : segments[p] \subseteq {p} /\ text[p] \in {p, 0}

\* Failures are reported in page order, however the threads ended.
FailuresInPageOrder ==
    phase = "done" =>
        \A j, k \in DOMAIN warnings :
            (j < k /\ Lost(warnings[j]) /\ Lost(warnings[k])) => warnings[j].page < warnings[k].page

\* All of it: no page is lost, mixed up or told out of order (run_ocr_pages).
PagesRight == PagesAccounted /\ TextOnOwnPage /\ FailuresInPageOrder

\* "If vision OCR fails or returns empty text, the backend falls back to the
\* local OCR path."
EmptyTriedLocally ==
    [][\A p \in DOMAIN pages :
          (Vision /\ task[p] = "gateway" /\ task'[p] # "gateway")
              => (task'[p] \in {"local", "local_uncertain"} \/ HasText(outcome'[p]))]_vars

=============================================================================
