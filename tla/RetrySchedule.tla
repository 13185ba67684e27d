--------------------------- MODULE RetrySchedule ---------------------------
(***************************************************************************)
(* The retry loop of one doUpload whose every attempt fails: how often it  *)
(* tries and how long it waits, for every retry setting the config file    *)
(* can hold, with the machine's integers.  What interleaves with the loop  *)
(* (progress events, other services, Ctrl+C) is in Uploader.               *)
(***************************************************************************)
EXTENDS RetryPolicy

CONSTANTS
    Retries,     \* the values of max_retries to try
    Delays,      \* the values of retry_delay_seconds to try
    Failure,     \* the errors an attempt can end with
    MaxFailures  \* bound: failed attempts followed

ASSUME ScheduleAssumption ==
    /\ Retries \subseteq (-MaxInt - 1)..MaxInt \cup {None}
    /\ Delays  \subseteq (-MaxInt - 1)..MaxInt \cup {None}
    /\ Failure \subseteq ErrorRec
    /\ MaxFailures \in Nat \ {0}

VARIABLES
    maxRetries, delaySeconds,  \* the config file's keys
    phase,                     \* "try", "wait" or "over"
    attempt,                   \* doUpload's attempt
    err,                       \* what the last attempt failed with
    wait                       \* what sleepContext is given

vars == <<maxRetries, delaySeconds, phase, attempt, err, wait>>

settings      == RetrySettings(maxRetries, delaySeconds)
totalAttempts == TotalAttempts(settings.maxRetries)
base          == BaseDelay(settings.delaySeconds)

TypeOK ==
    /\ maxRetries \in Retries /\ delaySeconds \in Delays
    /\ phase \in {"try", "wait", "over"}
    /\ attempt \in 0..MaxFailures
    /\ err \in Failure \cup {None}
    /\ wait \in 0..MaxInt

Init ==
    /\ maxRetries \in Retries /\ delaySeconds \in Delays
    /\ attempt = IF 1 <= totalAttempts THEN 1 ELSE 0
    /\ phase = IF 1 <= totalAttempts THEN "try" ELSE "over"
    /\ err = None
    /\ wait = 0

\* Mutant: one retry fewer than configured.
Fail_OffByOne(e) ==
    /\ phase = "try"
    /\ err' = e
    /\ \/ /\ attempt >= totalAttempts - 1 \/ ~isRetryableError(e)
          /\ phase' = "over"
          /\ UNCHANGED wait
       \/ /\ attempt < totalAttempts - 1 /\ isRetryableError(e)
          /\ phase' = "wait"
          /\ wait' \in retryBackoff(attempt, base)
    /\ UNCHANGED <<maxRetries, delaySeconds, attempt>>

\* An attempt fails: give up, or wait before the next.
Fail(e) ==
    /\ phase = "try"
    /\ err' = e
    /\ \/ /\ attempt >= totalAttempts \/ ~isRetryableError(e)
          /\ phase' = "over"
          /\ UNCHANGED wait
       \/ /\ attempt < totalAttempts /\ isRetryableError(e)
          /\ phase' = "wait"
          /\ wait' \in retryBackoff(attempt, base)
    /\ UNCHANGED <<maxRetries, delaySeconds, attempt>>

\* The wait is over: the loop's attempt++ and its condition.
NextAttempt ==
    /\ phase = "wait"
    /\ attempt < MaxFailures
    /\ attempt' = attempt + 1
    /\ phase' = "try"
    /\ wait' = 0
    /\ UNCHANGED <<maxRetries, delaySeconds, err>>

Next == (\E e \in Failure : Fail(e)) \/ NextAttempt

Spec == Init /\ [][Next]_vars

-----------------------------------------------------------------------------

\* x after n - 1 doublings, however large.
Doubled(x, n) ==
    LET d[i \in 1..n] == IF i = 1 THEN x ELSE 2 * d[i-1]
    IN  d[n]

\* README's "Each wait doubles per attempt and is capped at 30 seconds", with
\* the documented jitter of a quarter: the wait after attempt k is a quarter
\* away from the base doubled k - 1 times or from the cap at most (the
\* truncation to a whole unit aside).  For the settings whose Duration does
\* not overflow.
BackoffDoublesToTheCap ==
    LET exact == Doubled(settings.delaySeconds * Second, attempt)
        ideal == IF exact < MaxBackoff THEN exact ELSE MaxBackoff
    IN  phase = "wait" /\ settings.delaySeconds * Second <= MaxInt
            => /\ 4 * wait + 4 > 3 * ideal \/ wait = ideal
               /\ 4 * wait <= 5 * ideal

\* The errors README names: "rate limiting (429), or server-side errors (5xx)"
\* and dropped connections are retried; "bad requests, auth errors, or 403/404"
\* are not.  The codes README leaves open are in neither set.
DocumentedTransient(e) == ~e.canceled /\ (e.network \/ e.status = 429 \/ e.status \in 500..599)
DocumentedPermanent(e) == e.canceled
                          \/ (~e.network /\ ~e.text /\ e.status \in {400, 401, 403, 404})

\* The loop ends early for no other reason than it should: a transient error
\* is reported after exactly one attempt plus the configured retries, and a
\* permanent one is never followed by a wait.
RetriesAsDocumented ==
    /\ phase = "over" /\ err # None /\ DocumentedTransient(err)
           => attempt = settings.maxRetries + 1
    /\ phase = "wait" => ~DocumentedPermanent(err) /\ attempt <= settings.maxRetries

\* retry.go: "maxBackoff caps how long a single retry wait can grow to".
WaitIsCapped == wait <= MaxBackoff

\* config.go: MaxRetries counts "re-attempts per service after the initial
\* upload fails": there is an initial upload whatever the setting.
InitialUploadIsTried == attempt >= 1

=============================================================================
