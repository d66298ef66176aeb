------------------------- MODULE PdfSizeValidation -------------------------
(***************************************************************************)
(* scripts/validate_pdf_clic_size_samples.py: the script lists the PDFs of *)
(* a store, picks samples by size, downloads them next to its manifest,    *)
(* and parses each in a worker process of its own that is killed when it   *)
(* takes too long. Worker and parent write to one bucket and one output    *)
(* directory; both outlive a run that fails, and a run that is started     *)
(* again under the same name finds what the last one left.                 *)
(*                                                                         *)
(* A content is a number, 0 is none; its bytes matter by their length      *)
(* (Size). Torn is what a write that was cut off leaves.                   *)
(***************************************************************************)
EXTENDS Integers, Sequences, SequencesExt, FiniteSets

CONSTANTS
    Keys,        \* numbers of the objects, in the order of their names
    Folder,      \* [Keys -> folder]: the first part of an object's name
    Generic,     \* the keys whose file name says nothing of the document
    Size,        \* [contents -> bytes]
    Broken,      \* the contents that raise when they are parsed
    Endless,     \* the contents whose parse takes longer than the limit
    Torn,        \* the content of a file whose write was cut off
    Remotes,     \* the stores to start from, a set of [Keys -> contents]
    Newer,       \* the pairs of an object and a content that may replace it
    Bands,       \* sequence of [lower, upper]
    Tenths,      \* the quantiles, in tenths
    Reach,       \* how far around a quantile a better name is looked for
    MaxFaults,   \* bound: failures injected in a behaviour
    MaxRuns      \* bound: how often the script is started

SourcesAssumption ==
    /\ Keys \subseteq Nat /\ IsFiniteSet(Keys) /\ Keys \subseteq DOMAIN Folder
    /\ Size \in [DOMAIN Size -> Nat] /\ 0 \notin DOMAIN Size /\ Torn \in DOMAIN Size
    /\ Remotes \subseteq [Keys -> DOMAIN Size]
\* There are bands (_BANDS), which are apart, and quantiles (_QUANTILES).
SamplesAssumption ==
    /\ Bands \in Seq([lower : Nat, upper : Nat]) /\ Bands # <<>>
    /\ \A a, b \in DOMAIN Bands : a < b => Bands[a].upper <= Bands[b].lower
    /\ Tenths \in Seq(0..10) /\ Tenths # <<>>
    /\ Reach \in Nat /\ MaxFaults \in Nat /\ MaxRuns \in Nat \ {0}

VARIABLES
    remote,      \* the source store
    fixture,     \* files of the samples on disk
    bucket,      \* objects of each sample in the result bucket
    outputs,     \* worker-output.json of each sample
    run, stage, listed, samples, manifest, at, results,
    work,        \* what the worker does next
    parsed,      \* what the worker's parse came to
    report,      \* the failure that the parent is reporting
    faults
vars == <<remote, fixture, bucket, outputs, run, stage, listed, samples,
          manifest, at, results, work, parsed, report, faults>>

Fixtures == (DOMAIN Bands) \X (DOMAIN Tenths) \X {Folder[k] : k \in Keys}
Nothing == [source |-> 0, evidence |-> 0, html |-> 0, metrics |-> "none"]

Distance(a, b) == IF a < b THEN b - a ELSE a - b
Smallest(S) == CHOOSE x \in S : \A y \in S : x <= y

(***************************************************************************)
(* Selection. round() of n * t / 10 takes the even neighbour of a half.    *)
(***************************************************************************)
Rounded(n, t) ==
    LET low == (n * t) \div 10
        rest == (n * t) % 10
    IN IF rest > 5 \/ (rest = 5 /\ low % 2 = 1) THEN low + 1 ELSE low

\* _list_pdfs: sorted by size; objects of one size stay in name order.
SizesAscend(s) ==
    \A i, j \in DOMAIN s : i < j =>
        \/ Size[remote[s[i]]] < Size[remote[s[j]]]
        \/ Size[remote[s[i]]] = Size[remote[s[j]]] /\ s[i] < s[j]

InBand(o, b) == Bands[b].lower < o.size /\ o.size <= Bands[b].upper

\* The listed objects of a band, in their order.
BandObjects(b) ==
    FlattenSeq([i \in DOMAIN listed |-> IF InBand(listed[i], b) THEN <<listed[i]>> ELSE <<>>])

\* The first unused object of the window by score, else any unused one.
NearQuantile(objects, t, used) ==
    LET index == Rounded(Len(objects) - 1, t) + 1
        window == {i \in DOMAIN objects : Distance(i, index) <= Reach}
        score(i) == <<IF objects[i].key \in Generic THEN 1 ELSE 0,
                      Distance(i, index), objects[i].key>>
        before(s, q) == \/ s[1] < q[1]
                        \/ s[1] = q[1] /\ s[2] < q[2]
                        \/ s[1] = q[1] /\ s[2] = q[2] /\ s[3] <= q[3]
        near == {i \in window : objects[i].key \notin used}
    IN IF near # {}
       THEN objects[CHOOSE i \in near : \A j \in near : before(score(i), score(j))]
       ELSE objects[Smallest({i \in DOMAIN objects : objects[i].key \notin used})]

IdOf(s) == <<s.band, s.index, Folder[s.key]>>
Id == IdOf(samples[at])

(***************************************************************************)
(* The parent, until the workers.                                          *)
(***************************************************************************)
Init ==
    /\ remote \in Remotes
    /\ fixture = [f \in Fixtures |-> 0] /\ bucket = [f \in Fixtures |-> Nothing]
    /\ outputs = [f \in Fixtures |-> [run |-> 0, status |-> "none"]]
    /\ run = 1 /\ stage = "list" /\ listed = <<>> /\ samples = <<>> /\ manifest = <<>>
    /\ at = 1 /\ results = <<>> /\ work = "off" /\ parsed = "none" /\ report = "none"
    /\ faults = 0

ListPdfs ==
    /\ stage = "list"
    /\ \E order \in SetToSeqs(Keys) :
          /\ SizesAscend(order)
          /\ listed' = [i \in DOMAIN order |-> [key |-> order[i], size |-> Size[remote[order[i]]]]]
    /\ stage' = "select" /\ at' = 1
    /\ UNCHANGED <<remote, fixture, bucket, outputs, run, samples, manifest, results, work, parsed, report, faults>>

\* The next sample of band number at, or the next band. A band with fewer
\* objects than quantiles raises.
SelectSample ==
    /\ stage = "select"
    /\ \E objects \in {BandObjects(at)},
          used \in {{samples[i].key : i \in {i \in DOMAIN samples : samples[i].band = at}}} :
         IF Len(objects) < Len(Tenths)
         THEN stage' = "failed" /\ UNCHANGED <<samples, at>>
         ELSE IF Cardinality(used) < Len(Tenths)
         THEN /\ samples' = Append(samples,
                    LET n == Cardinality(used) + 1
                        o == NearQuantile(objects, Tenths[n], used)
                    IN [band |-> at, index |-> n, key |-> o.key, size |-> o.size])
              /\ UNCHANGED <<stage, at>>
         ELSE /\ at' = IF at < Len(Bands) THEN at + 1 ELSE 1
              /\ stage' = IF at < Len(Bands) THEN stage ELSE "download"
              /\ UNCHANGED samples
    /\ UNCHANGED <<remote, fixture, bucket, outputs, run, listed, manifest, results, work, parsed, report, faults>>

IsComplete(f, size) == fixture[f] # 0 /\ Size[fixture[f]] = size

DownloadSample ==
    /\ stage = "download" /\ at <= Len(samples)
    /\ fixture' = IF IsComplete(Id, samples[at].size) THEN fixture
                  ELSE [fixture EXCEPT ![Id] = remote[samples[at].key]]
    /\ IF IsComplete(Id, samples[at].size) \/ Size[remote[samples[at].key]] = samples[at].size
       THEN at' = at + 1 /\ stage' = stage
       ELSE at' = at /\ stage' = "failed"
    /\ UNCHANGED <<remote, bucket, outputs, run, listed, samples, manifest, results, work, parsed, report, faults>>

WriteManifest ==
    /\ stage = "download" /\ at > Len(samples)
    /\ manifest' = [i \in DOMAIN samples |->
                      [id |-> IdOf(samples[i]), bytes |-> Size[fixture[IdOf(samples[i])]],
                       sha256 |-> fixture[IdOf(samples[i])]]]
    /\ stage' = "validate" /\ at' = 1
    /\ UNCHANGED <<remote, fixture, bucket, outputs, run, listed, samples, results, work, parsed, report, faults>>

StartWorker ==
    /\ stage = "validate" /\ at <= Len(samples) /\ work = "off" /\ report = "none"
    /\ work' = "parse" /\ parsed' = "none"
    /\ UNCHANGED <<remote, fixture, bucket, outputs, run, stage, listed, samples, manifest, at, results, report, faults>>

(***************************************************************************)
(* The worker: parse, source, then on success assets, evidence and html,   *)
(* then metrics, then its output file, then exit 0. Its own timeout is off *)
(* (per_document_timeout=0). A PUT that raises ends it with another status.*)
(***************************************************************************)
WorkerParse ==
    /\ work = "parse" /\ fixture[Id] \notin Endless
    /\ parsed' = IF fixture[Id] \in Broken THEN "parse_error" ELSE "ok"
    /\ work' = "source"
    /\ UNCHANGED <<remote, fixture, bucket, outputs, run, stage, listed, samples, manifest, at, results, report, faults>>

After(step) ==
    CASE step = "source" -> IF parsed = "ok" THEN "evidence" ELSE "metrics"
      [] step = "evidence" -> "html"
      [] step = "html" -> "metrics"
      [] step = "metrics" -> "record"

Stored(step) ==
    [bucket EXCEPT ![Id] =
        CASE step = "source" -> [@ EXCEPT !.source = fixture[Id]]
          [] step = "evidence" -> [@ EXCEPT !.evidence = fixture[Id]]
          [] step = "html" -> [@ EXCEPT !.html = fixture[Id]]
          [] step = "metrics" -> [@ EXCEPT !.metrics = parsed]]

WorkerPut ==
    /\ work \in {"source", "evidence", "html", "metrics"}
    /\ bucket' = Stored(work)
    /\ work' = After(work)
    /\ UNCHANGED <<remote, fixture, outputs, run, stage, listed, samples, manifest, at, results, parsed, report, faults>>

\* A PUT that raises may have stored its object.
WorkerPutFails(served) ==
    /\ work \in {"source", "evidence", "html", "metrics"}
    /\ faults < MaxFaults /\ faults' = faults + 1
    /\ bucket' = IF served THEN Stored(work) ELSE bucket
    /\ work' = "failed"
    /\ UNCHANGED <<remote, fixture, outputs, run, stage, listed, samples, manifest, at, results, parsed, report>>

WorkerRecord ==
    /\ work = "record"
    /\ outputs' = [outputs EXCEPT ![Id] = [run |-> run, status |-> parsed]]
    /\ work' = "exit"
    /\ UNCHANGED <<remote, fixture, bucket, run, stage, listed, samples, manifest, at, results, parsed, report, faults>>

(***************************************************************************)
(* What the parent makes of the worker (_validate_sample_with_subprocess). *)
(***************************************************************************)
Result(status, from) == [id |-> Id, status |-> status, run |-> from]

Collect ==
    /\ work = "exit"
    /\ results' = Append(results, Result(outputs[Id].status, outputs[Id].run))
    /\ at' = at + 1 /\ work' = "off"
    /\ UNCHANGED <<remote, fixture, bucket, outputs, run, stage, listed, samples, manifest, parsed, report, faults>>

\* Bug variant: a worker that failed is read like one that did not, when an
\* output file is there (subprocess.run without check=True).
WorkerFailedUnchecked ==
    /\ work = "failed"
    /\ IF outputs[Id].status # "none"
       THEN /\ results' = Append(results, Result(outputs[Id].status, outputs[Id].run))
            /\ at' = at + 1 /\ report' = "none"
       ELSE report' = "parse_error" /\ UNCHANGED <<at, results>>
    /\ work' = "off"
    /\ UNCHANGED <<remote, fixture, bucket, outputs, run, stage, listed, samples, manifest, parsed, faults>>
WorkerFailed ==
    /\ work = "failed"
    /\ report' = "parse_error" /\ work' = "off"
    /\ UNCHANGED <<remote, fixture, bucket, outputs, run, stage, listed, samples, manifest, at, results, parsed, faults>>

\* Bug variant: a parse without end is waited for.
TimesOutPatient ==
    /\ work \notin {"off", "parse"}
    /\ faults < MaxFaults
    /\ faults' = faults + 1 /\ report' = "timeout" /\ work' = "off"
    /\ UNCHANGED <<remote, fixture, bucket, outputs, run, stage, listed, samples, manifest, at, results, parsed>>
\* The worker is killed wherever it is, even with its output written, or while
\* it exits.
TimesOut ==
    /\ work # "off"
    /\ LET endless == work = "parse" /\ fixture[Id] \in Endless
       IN /\ endless \/ faults < MaxFaults
          /\ faults' = IF endless THEN faults ELSE faults + 1
    /\ report' = "timeout" /\ work' = "off"
    /\ UNCHANGED <<remote, fixture, bucket, outputs, run, stage, listed, samples, manifest, at, results, parsed>>

\* _failed_worker_result: the source and the metrics are put again.
ReportFailure ==
    /\ stage = "validate" /\ report # "none"
    /\ bucket' = [bucket EXCEPT ![Id].source = fixture[Id], ![Id].metrics = report]
    /\ results' = Append(results, Result(report, run))
    /\ at' = at + 1 /\ report' = "none"
    /\ UNCHANGED <<remote, fixture, outputs, run, stage, listed, samples, manifest, work, parsed, faults>>

WriteSummary ==
    /\ stage = "validate" /\ at > Len(samples)
    /\ stage' = "done"
    /\ UNCHANGED <<remote, fixture, bucket, outputs, run, listed, samples, manifest, at, results, work, parsed, report, faults>>

(***************************************************************************)
(* The environment: the script is interrupted (the child with it), or a    *)
(* PUT of its own raises, or an object of the source is replaced; a run    *)
(* that ended is started again.                                            *)
(***************************************************************************)
Interrupted(torn) ==
    /\ stage \notin {"failed", "done"}
    /\ faults < MaxFaults /\ faults' = faults + 1
    /\ torn => stage = "download" /\ at <= Len(samples) /\ ~IsComplete(Id, samples[at].size)
    /\ fixture' = IF torn THEN [fixture EXCEPT ![Id] = Torn] ELSE fixture
    /\ stage' = "failed" /\ work' = "off" /\ report' = "none"
    /\ UNCHANGED <<remote, bucket, outputs, run, listed, samples, manifest, at, results, parsed>>

Replaced(k, c) ==
    /\ faults < MaxFaults /\ faults' = faults + 1
    /\ <<k, c>> \in Newer /\ remote[k] # c
    /\ remote' = [remote EXCEPT ![k] = c]
    /\ UNCHANGED <<fixture, bucket, outputs, run, stage, listed, samples, manifest, at, results, work, parsed, report>>

StartAgain ==
    /\ stage \in {"failed", "done"} /\ run < MaxRuns
    /\ run' = run + 1 /\ stage' = "list"
    /\ listed' = <<>> /\ samples' = <<>> /\ manifest' = <<>> /\ at' = 1 /\ results' = <<>>
    /\ work' = "off" /\ parsed' = "none" /\ report' = "none"
    /\ UNCHANGED <<remote, fixture, bucket, outputs, faults>>

Progress ==
    \/ ListPdfs \/ SelectSample \/ DownloadSample \/ WriteManifest \/ StartWorker
    \/ WorkerParse \/ WorkerPut \/ WorkerRecord \/ Collect \/ WorkerFailed \/ ReportFailure
    \/ WriteSummary

Next ==
    \/ Progress \/ TimesOut \/ StartAgain
    \/ \E served \in BOOLEAN : WorkerPutFails(served)
    \/ \E torn \in BOOLEAN : Interrupted(torn)
    \/ \E k \in Keys, c \in DOMAIN Size \ {Torn} : Replaced(k, c)

Spec == Init /\ [][Next]_vars /\ WF_vars(Progress) /\ WF_vars(TimesOut)

-----------------------------------------------------------------------------
TypeOK ==
    /\ fixture \in [Fixtures -> DOMAIN Size \cup {0}] /\ remote \in [Keys -> DOMAIN Size]
    /\ at \in 1..(Len(samples) + 1) /\ run \in 1..MaxRuns
    /\ stage \in {"list", "select", "download", "validate", "failed", "done"}

\* No object is a sample twice, and each sample is of its band.
SamplesDistinct ==
    \A i, j \in DOMAIN samples :
        /\ InBand(samples[i], samples[i].band)
        /\ i # j => samples[i].key # samples[j].key

\* While workers run, each sample's file is whole and what the manifest says.
FixturesRight ==
    stage = "validate" => \A i \in DOMAIN samples :
        /\ Size[fixture[IdOf(samples[i])]] = samples[i].size
        /\ manifest[i].sha256 = fixture[IdOf(samples[i])] /\ manifest[i].bytes = samples[i].size

\* Results are of this run, one per sample in order, and the bucket agrees
\* with them: the metrics say the same, and an evaluated document is there.
ResultsRight ==
    \A i \in DOMAIN results :
        LET r == results[i] IN
        LET b == bucket[r.id] IN
        /\ r.id = IdOf(samples[i]) /\ r.run = run
        /\ b.source = fixture[r.id] /\ b.metrics = r.status
        /\ r.status = "ok" => b.evidence = fixture[r.id] /\ b.html = fixture[r.id]

\* The report of a run agrees with its files and with the bucket.
ReportRight ==
    /\ TypeOK /\ SamplesDistinct /\ FixturesRight /\ ResultsRight
    /\ stage = "done" => Len(results) = Len(samples)

\* However long a parse takes, the run ends.
RunEnds == []<>(stage \in {"done", "failed"})

=============================================================================
