------------------------------ MODULE LlmGateway ------------------------------
(***************************************************************************)
(* OpenAICompatibleLlmGateway: one call of complete_model.  The request is *)
(* sent again after a transient failure, with a backoff that doubles, and  *)
(* what comes back at last is parsed once.                                 *)
(*                                                                         *)
(* The provider may have worked on a request whose answer never arrived,   *)
(* so the same request can be served more than once.                       *)
(***************************************************************************)
EXTENDS Integers, Sequences

CONSTANTS
    Retries,       \* the values of max_retries looked at
    Backoffs,      \* the values of retry_backoff_seconds looked at
    RetryStatus,   \* retry_status_codes
    OtherStatus    \* the other statuses of a failed request

SettingsAssumption ==
    /\ Retries \subseteq Nat
    /\ Backoffs \subseteq Nat
    /\ RetryStatus \cap OtherStatus = {}

\* What urlopen and read raise: an HTTPError (which is a URLError too), a
\* URLError, a TimeoutError, a ConnectionError, or anything else.
Failures ==
    [class : {"http"}, status : RetryStatus \cup OtherStatus]
        \cup {[class |-> c, status |-> 0] : c \in {"url", "timeout", "connection", "other"}}

\* The request may have reached the provider before it failed like this.
MayBeServed(f) == f.class \in {"timeout", "connection", "other"}

VARIABLES
    maxRetries, backoff,   \* the configuration
    phase,                 \* "sending", "sleeping", "received", "returned", "raised"
    attempt,               \* retries so far
    failures,              \* how the attempts failed
    slept,                 \* the time slept between attempts
    served                 \* how often the provider worked on the request

vars == <<maxRetries, backoff, phase, attempt, failures, slept, served>>

-----------------------------------------------------------------------------

\* Bug variant: an HTTPError is retried as the URLError it is.
ShouldRetryAnyUrlError(f) ==
    f.class \in {"http", "url", "timeout", "connection"}

\* _should_retry_llm_error
ShouldRetry(f) ==
    IF f.class = "http" THEN f.status \in RetryStatus
    ELSE f.class \in {"url", "timeout", "connection"}

MayRetry(f) == ShouldRetry(f) /\ attempt < maxRetries

PowerOfTwo[n \in Nat] == IF n = 0 THEN 1 ELSE 2 * PowerOfTwo[n - 1]

Delay == backoff * PowerOfTwo[attempt]

Init ==
    /\ maxRetries \in Retries
    /\ backoff \in Backoffs
    /\ phase = "sending"
    /\ attempt = 0
    /\ failures = <<>>
    /\ slept = 0
    /\ served = 0

\* The attempt fails with f, after the provider did or did not serve it.
Fail(f, reached) ==
    /\ phase = "sending"
    /\ reached => MayBeServed(f)
    /\ failures' = Append(failures, f)
    /\ served' = IF reached THEN served + 1 ELSE served
    /\ IF ~MayRetry(f) THEN phase' = "raised" /\ UNCHANGED attempt
       ELSE IF Delay > 0 THEN phase' = "sleeping" /\ UNCHANGED attempt
       ELSE phase' = "sending" /\ attempt' = attempt + 1
    /\ UNCHANGED <<maxRetries, backoff, slept>>

Wake ==
    /\ phase = "sleeping"
    /\ slept' = slept + Delay
    /\ phase' = "sending"
    /\ attempt' = attempt + 1
    /\ UNCHANGED <<maxRetries, backoff, failures, served>>

Receive ==
    /\ phase = "sending"
    /\ phase' = "received"
    /\ served' = served + 1
    /\ UNCHANGED <<maxRetries, backoff, attempt, failures, slept>>

\* Bug variant: what does not parse is asked for again.
ParseOrAskAgain(valid) ==
    /\ phase = "received"
    /\ phase' = IF valid THEN "returned" ELSE "sending"
    /\ UNCHANGED <<maxRetries, backoff, attempt, failures, slept, served>>

\* The body is no completion, its content is not JSON or not the model, or it
\* is what was asked for.
Parse(valid) ==
    /\ phase = "received"
    /\ phase' = IF valid THEN "returned" ELSE "raised"
    /\ UNCHANGED <<maxRetries, backoff, attempt, failures, slept, served>>

Next ==
    \/ \E f \in Failures, reached \in BOOLEAN : Fail(f, reached)
    \/ Wake
    \/ Receive
    \/ \E valid \in BOOLEAN : Parse(valid)

Spec == Init /\ [][Next]_vars

-----------------------------------------------------------------------------
(* Properties *)

\* Every retry answers for exactly one failure, and the backoff doubles from
\* one to the next: together the sleeps stay below the backoff that would follow.
TypeOK ==
    /\ maxRetries \in Retries /\ backoff \in Backoffs
    /\ phase \in {"sending", "sleeping", "received", "returned", "raised"}
    /\ attempt \in 0..maxRetries
    /\ failures \in Seq(Failures)
    /\ Len(failures) \in {attempt, attempt + 1}
    /\ phase \in {"sending", "received", "returned"} => Len(failures) = attempt
    /\ slept = backoff * (PowerOfTwo[attempt] - 1) /\ served \in Nat

\* "max_retries" bounds the work of a call: the provider serves it at most once
\* more than that, whatever answers were lost.
WorkBounded == served <= maxRetries + 1

\* "Authentication, request-shape, and JSON parsing failures are not retried":
\* whatever was followed by another attempt was a transient failure.
OnlyTransientRetried ==
    \A i \in 1..attempt :
        /\ failures[i].class # "other"
        /\ failures[i].class = "http" => failures[i].status \notin OtherStatus

=============================================================================
