----------------------------- MODULE ModelCalls -----------------------------
(***************************************************************************)
(* What waits for models: the recognition of pages, and a call of the      *)
(* gateway. A behaviour is one of PdfOcr or of LlmGateway; the other stays *)
(* where it begins.                                                        *)
(***************************************************************************)
EXTENDS PdfOcr

CONSTANTS Retries, Backoffs, RetryStatus, OtherStatus   \* as in LlmGateway

VARIABLES
    part,        \* "call" or "pages"
    maxRetries, backoff, progress, attempt, errors, slept, served

Call == INSTANCE LlmGateway WITH phase <- progress, failures <- errors

ASSUME RecognitionAssumption == InputsAssumption
ASSUME CallAssumption == Call!SettingsAssumption

callVars == <<maxRetries, backoff, progress, attempt, errors, slept, served>>
allVars == <<part, vars, callVars>>

\* Only a call has retries and only pages are recognized.
CallsInit ==
    /\ Init /\ Call!Init
    /\ \/ part = "call" /\ pages = <<>> /\ options = {} /\ workers = 1
       \/ part = "pages" /\ maxRetries = 0 /\ backoff = 0

OcrStep == part = "pages" /\ Next /\ UNCHANGED <<part, callVars>>
CallStep == part = "call" /\ Call!Next /\ UNCHANGED <<part, vars>>

CallsSpec == CallsInit /\ [][OcrStep \/ CallStep]_allVars

\* The recognition of pages under the fairness of FairSpec.
CallsFairSpec == CallsSpec /\ WF_allVars(OcrStep)

\* Retries answer for failures, one each, with sleeps that double; and every page
\* is accounted for, by what was read from it or by one warning, failures told
\* in page order (LlmGateway!TypeOK, PdfOcr!PagesRight).
CallsAccounted == Call!TypeOK /\ PagesRight

\* The provider serves a call at most once more than "max_retries", whatever
\* answers were lost.
WorkBounded == Call!WorkBounded

\* "Authentication, request-shape, and JSON parsing failures are not retried".
OnlyTransientRetried == Call!OnlyTransientRetried

=============================================================================
