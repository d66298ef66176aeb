--------------------------- MODULE HwpxSampleScan ---------------------------
(***************************************************************************)
(* scripts/scan_hwpx_clic_minio_size_samples.py: three buckets (small,     *)
(* medium, large) that each order all documents of a store by preference,  *)
(* samples that no content gives twice, the evaluation of each, and        *)
(* screenshots of some results with a browser driver in a process of its   *)
(* own. Documents are numbered by size and name; a content stands for its  *)
(* SHA-256. Groups and families are what a document's path says of it.     *)
(***************************************************************************)
EXTENDS Integers, Sequences, SequencesExt

CONSTANTS
    Stores,      \* sequences of [group, family, content, kinds]
    PerBucket    \* samples wanted of each bucket

StoresAssumption ==
    /\ \A s \in Stores : s \in Seq(ToSet(s))
    /\ PerBucket \in Nat \ {0}    \* else the script ends at once

VARIABLES
    store,       \* the documents, in order of size
    stage,
    bucket,      \* 1..3 while buckets are sampled
    candidates,  \* what is left of the bucket's candidates
    chosen,      \* raw samples of this bucket that wait for their evaluation
    seen,        \* contents sampled so far, over all buckets
    skipped,     \* documents passed over as duplicates
    sampled,     \* the evaluated samples
    targets,     \* screenshots that are still to be taken
    driver,      \* the browser driver: "off", "starting" or "up"
    session,     \* whether a browser session is open
    shots,       \* screenshots attached to the report
    warned       \* whether the report warns of the screenshots
vars == <<store, stage, bucket, candidates, chosen, seen, skipped, sampled,
          targets, driver, session, shots, warned>>

(***************************************************************************)
(* The order in which a bucket looks at the documents.                     *)
(***************************************************************************)
\* In three passes: one of each group and family first, then of each family,
\* then the rest.
Wanted(pass, acc, d) ==
    LET new == \A i \in DOMAIN acc.list : acc.list[i] # d
        unseen == store[d].family \notin acc.families
    IN CASE pass = 1 -> store[d].group \notin acc.groups /\ unseen
         [] pass = 2 -> new /\ unseen
         [] pass = 3 -> new

Added(acc, d) ==
    [list |-> Append(acc.list, d), groups |-> acc.groups \cup {store[d].group},
     families |-> acc.families \cup {store[d].family}]

Pass(pass, acc0, order) ==
    FoldLeft(LAMBDA acc, d : IF Wanted(pass, acc, d) THEN Added(acc, d) ELSE acc, acc0, order)

Bump(order) ==
    LET none == [list |-> <<>>, groups |-> {}, families |-> {}]
    IN Pass(3, Pass(2, Pass(1, none, order), order), order).list

Upto(n) == [i \in 1..n |-> i]

Candidates(b) ==
    LET n == Len(store)
        middle == (n - PerBucket) \div 2
    IN CASE n < PerBucket -> IF b = 1 THEN Upto(n) ELSE <<>>
         [] n >= PerBucket /\ b = 1 -> Bump(Upto(n))
         [] n >= PerBucket /\ b = 2 -> Bump(SubSeq(Upto(n), middle + 1, n) \o Upto(middle))
         [] OTHER -> Bump([i \in 1..n |-> n + 1 - i])

Init ==
    /\ store \in Stores /\ stage = "read" /\ bucket = 1
    /\ candidates = Candidates(1)
    /\ chosen = <<>> /\ seen = {} /\ skipped = <<>> /\ sampled = <<>> /\ targets = <<>>
    /\ driver = "off" /\ session = FALSE /\ shots = <<>> /\ warned = FALSE

(***************************************************************************)
(* _select_unique_raw_samples, one document a step, and the evaluation of  *)
(* what it chose. A read that fails ends the script.                       *)
(***************************************************************************)
Document == Head(candidates)

\* Bug variant: each bucket knows only its own contents.
IsDuplicateInBucket(d) == \E i \in DOMAIN chosen : store[chosen[i]].content = store[d].content
IsDuplicate(d) == store[d].content \in seen

ReadRaw ==
    /\ stage = "read" /\ candidates # <<>> /\ Len(chosen) < PerBucket
    /\ IF IsDuplicate(Document)
       THEN skipped' = Append(skipped, Document) /\ UNCHANGED <<seen, chosen>>
       ELSE /\ seen' = seen \cup {store[Document].content}
            /\ chosen' = Append(chosen, Document) /\ UNCHANGED skipped
    /\ candidates' = Tail(candidates)
    /\ UNCHANGED <<store, stage, bucket, sampled, targets, driver, session, shots, warned>>

ReadFails ==
    /\ stage = "read" /\ candidates # <<>> /\ Len(chosen) < PerBucket
    /\ stage' = "failed"
    /\ UNCHANGED <<store, bucket, candidates, chosen, seen, skipped, sampled, targets, driver, session, shots, warned>>

BucketChosen ==
    /\ stage = "read" /\ (candidates = <<>> \/ Len(chosen) >= PerBucket)
    /\ stage' = "validate"
    /\ UNCHANGED <<store, bucket, candidates, chosen, seen, skipped, sampled, targets, driver, session, shots, warned>>

IndexInBucket == Cardinality({i \in DOMAIN sampled : sampled[i].bucket = bucket}) + 1

\* Parse, assets, html: whatever raises makes the sample a failed one.
SaveAndValidate(ok) ==
    /\ stage = "validate" /\ chosen # <<>>
    /\ sampled' = Append(sampled, [bucket |-> bucket, index |-> IndexInBucket,
                                   doc |-> Head(chosen), ok |-> ok])
    /\ chosen' = Tail(chosen)
    /\ UNCHANGED <<store, stage, bucket, candidates, seen, skipped, targets, driver, session, shots, warned>>

(***************************************************************************)
(* _screenshot_targets: a diagram and an image once, a table per bucket.   *)
(***************************************************************************)
Slot(s, label) == <<IF label = "table" THEN s.bucket ELSE 0, label>>

WithTarget(acc, s, label) ==
    IF s.ok /\ label \in store[s.doc].kinds /\ \A i \in DOMAIN acc : acc[i].slot # Slot(s, label)
    THEN Append(acc, [bucket |-> s.bucket, index |-> s.index, label |-> label, slot |-> Slot(s, label)])
    ELSE acc

WithTargets(acc, s) ==
    WithTarget(WithTarget(WithTarget(acc, s, "diagram"), s, "asset"), s, "table")

Targets(list) == FoldLeft(WithTargets, <<>>, list)

NextBucket ==
    /\ stage = "validate" /\ chosen = <<>>
    /\ IF bucket < 3
       THEN /\ bucket' = bucket + 1 /\ stage' = "read"
            /\ candidates' = Candidates(bucket + 1) /\ UNCHANGED targets
       ELSE /\ targets' = Targets(sampled)
            /\ stage' = IF Targets(sampled) = <<>> THEN "report" ELSE "screenshots"
            /\ UNCHANGED <<bucket, candidates>>
    /\ UNCHANGED <<store, chosen, seen, skipped, sampled, driver, session, shots, warned>>

(***************************************************************************)
(* The driver. Each request of it ends or fails in time.                   *)
(***************************************************************************)
NoDriver ==
    /\ stage = "screenshots" /\ driver = "off"
    /\ stage' = "report" /\ warned' = TRUE
    /\ UNCHANGED <<store, bucket, candidates, chosen, seen, skipped, sampled, targets, driver, session, shots>>

StartDriver ==
    /\ stage = "screenshots" /\ driver = "off"
    /\ driver' = "starting"
    /\ UNCHANGED <<store, stage, bucket, candidates, chosen, seen, skipped, sampled, targets, session, shots, warned>>

OpenSession ==
    /\ stage = "screenshots" /\ driver = "starting"
    /\ driver' = "up" /\ session' = TRUE
    /\ UNCHANGED <<store, stage, bucket, candidates, chosen, seen, skipped, sampled, targets, shots, warned>>

\* _attach_screenshot: to the first document of that bucket and index.
Attached(t) ==
    LET match == {i \in DOMAIN sampled : sampled[i].bucket = t.bucket /\ sampled[i].index = t.index}
    IN [doc |-> sampled[CHOOSE i \in match : \A j \in match : i <= j].doc, label |-> t.label]

Capture ==
    /\ stage = "screenshots" /\ driver = "up" /\ targets # <<>>
    /\ shots' = Append(shots, Attached(Head(targets)))
    /\ targets' = Tail(targets)
    /\ UNCHANGED <<store, stage, bucket, candidates, chosen, seen, skipped, sampled, driver, session, warned>>

\* Any request of the driver, or the storing of a picture, raises: both
\* finally clauses run. What was captured before stays attached.
DriverFails ==
    /\ stage = "screenshots" /\ driver \in {"starting", "up"} /\ session' = FALSE
    /\ stage' = "report" /\ warned' = TRUE /\ driver' = "off"
    /\ UNCHANGED <<store, bucket, candidates, chosen, seen, skipped, sampled, targets, shots>>

CloseDriver ==
    /\ stage = "screenshots" /\ driver = "up" /\ targets = <<>>
    /\ session' = FALSE /\ driver' = "off" /\ stage' = "report"
    /\ UNCHANGED <<store, bucket, candidates, chosen, seen, skipped, sampled, targets, shots, warned>>

WriteReport ==
    /\ stage = "report"
    /\ stage' = "done"
    /\ UNCHANGED <<store, bucket, candidates, chosen, seen, skipped, sampled, targets, driver, session, shots, warned>>

Next ==
    \/ ReadRaw \/ ReadFails \/ BucketChosen \/ NextBucket
    \/ \E ok \in BOOLEAN : SaveAndValidate(ok)
    \/ NoDriver \/ StartDriver \/ OpenSession \/ Capture \/ DriverFails \/ CloseDriver \/ WriteReport

Spec == Init /\ [][Next]_vars

-----------------------------------------------------------------------------
TypeOK ==
    /\ bucket \in 1..3 /\ driver \in {"off", "starting", "up"} /\ session \in BOOLEAN
    /\ stage \in {"read", "validate", "screenshots", "report", "done", "failed"}

Contents == {store[d].content : d \in DOMAIN store}

\* No content is sampled twice, in one bucket or in two, and a bucket gets
\* fewer samples than wanted only when every content is taken.
SamplesUnique ==
    /\ \A i, j \in DOMAIN sampled :
          store[sampled[i].doc].content = store[sampled[j].doc].content => i = j
    /\ stage \in {"report", "done"} /\ Len(store) >= PerBucket => \A b \in 1..3 :
          LET got == {i \in DOMAIN sampled : sampled[i].bucket = b} IN
          \/ Cardinality(got) = PerBucket
          \/ Contents = {store[sampled[i].doc].content : i \in {i \in DOMAIN sampled : sampled[i].bucket <= b}}

\* A screenshot is of a result that shows what the label says, and no driver
\* or session outlives the screenshots, however they end.
ShotsRight ==
    /\ \A i \in DOMAIN shots :
          /\ shots[i].label \in store[shots[i].doc].kinds
          /\ \E s \in DOMAIN sampled : sampled[s].doc = shots[i].doc /\ sampled[s].ok
    /\ stage \in {"report", "done"} => driver = "off" /\ ~session
    /\ stage = "report" /\ targets # <<>> => warned

ScanRight == TypeOK /\ SamplesUnique /\ ShotsRight

=============================================================================
