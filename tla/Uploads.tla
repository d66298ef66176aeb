------------------------------ MODULE Uploads ------------------------------
(***************************************************************************)
(* What writes to the object store: the images of parsed documents         *)
(* (AssetUpload), the size validation of PDFs (PdfSizeValidation) and the  *)
(* sample scan of HWPX (HwpxSampleScan). A behaviour is one of the three;  *)
(* the other two stay where they begin.                                    *)
(***************************************************************************)
EXTENDS AssetUpload

CONSTANTS
    Objects, Folder, Generic, Size, Broken, Endless, Torn, Remotes, Newer,
    Bands, Tenths, Reach, MaxFaults, MaxRuns,    \* as in PdfSizeValidation
    Stores, PerBucket                            \* as in HwpxSampleScan

VARIABLES
    part,                                                     \* which of the three
    remote, fixture, results, outputs, run, stage, listed,    \* PdfSizeValidation
    samples, manifest, at, documents, work, parsed, report, faults,
    store, step, size, candidates, chosen, seen, skipped,     \* HwpxSampleScan
    sampled, targets, driver, session, shots, warned

Pdf == INSTANCE PdfSizeValidation WITH Keys <- Objects, bucket <- documents
Scan == INSTANCE HwpxSampleScan WITH stage <- step, bucket <- size

ASSUME PdfAssumption == Pdf!SourcesAssumption /\ Pdf!SamplesAssumption
ASSUME ScanAssumption == Scan!StoresAssumption

pdfVars == <<remote, fixture, results, outputs, run, stage, listed, samples, manifest, at,
             documents, work, parsed, report, faults>>
scanVars == <<store, step, size, candidates, chosen, seen, skipped, sampled, targets, driver,
              session, shots, warned>>
allVars == <<part, vars, pdfVars, scanVars>>

\* Only one of the three begins with a choice.
UploadsInit ==
    /\ part \in {"upload", "pdf", "scan"}
    /\ IF part = "upload" THEN TRUE ELSE hasStore = TRUE
    /\ IF part = "pdf" THEN TRUE ELSE remote = CHOOSE r \in Remotes : TRUE
    /\ IF part = "scan" THEN TRUE ELSE store = CHOOSE s \in Stores : TRUE
    /\ Init /\ Pdf!Init /\ Scan!Init

UploadStep == part = "upload" /\ Next /\ UNCHANGED <<part, pdfVars, scanVars>>
PdfStep == part = "pdf" /\ Pdf!Next /\ UNCHANGED <<part, vars, scanVars>>
ScanStep == part = "scan" /\ Scan!Next /\ UNCHANGED <<part, vars, pdfVars>>
UploadsNext == UploadStep \/ PdfStep \/ ScanStep

UploadsSpec == UploadsInit /\ [][UploadsNext]_allVars

\* What parent and worker of a validation do by themselves, and the timeout of
\* a parse that does not end.
PdfProgress == part = "pdf" /\ Pdf!Progress /\ UNCHANGED <<part, vars, scanVars>>
PdfTimesOut == part = "pdf" /\ Pdf!TimesOut /\ UNCHANGED <<part, vars, scanVars>>
UploadsFairSpec == UploadsSpec /\ WF_allVars(PdfProgress) /\ WF_allVars(PdfTimesOut)

\* The report of a size validation agrees with its files, its workers and the
\* bucket, also when it is started again after a crash
\* (PdfSizeValidation!ReportRight).
ReportRight == Pdf!ReportRight

\* The validation of sizes ends, even when a parse does not.
ValidationEnds == part = "pdf" => Pdf!RunEnds

\* Samples of a scan are of distinct contents in all its buckets, and its
\* browser never outlives the screenshots (HwpxSampleScan!ScanRight).
ScanRight == Scan!ScanRight

=============================================================================
