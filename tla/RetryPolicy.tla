---------------------------- MODULE RetryPolicy ----------------------------
(***************************************************************************)
(* The pure part of the upload retries: internal/uploader/retry.go and the *)
(* retry settings of internal/config/config.go.  No state here: Uploader   *)
(* and RetrySchedule use these operators.                                  *)
(*                                                                         *)
(* An error is what the classifier can tell apart, a record                *)
(*   canceled  context.Canceled is in its chain                            *)
(*   network   its chain has io.EOF, one of transientErrnos or a net.Error *)
(*             that timed out                                              *)
(*   text      its message contains one of transientPatterns               *)
(*   status    the code of the first "status NNN" of its message, 0: none  *)
(***************************************************************************)
EXTENDS Integers

CONSTANTS
    MaxInt,      \* the largest int and time.Duration of the build
    Second,      \* time.Second, in units of time.Duration
    MaxBackoff,  \* maxBackoff, in the same units
    None         \* a key the config file does not have

ASSUME WidthAssumption ==
    /\ MaxInt \in Nat /\ Second \in Nat /\ MaxBackoff \in Nat
    /\ 0 < Second /\ Second <= MaxBackoff
    /\ 2 * MaxBackoff <= MaxInt
    /\ None \notin Int

DefaultMaxRetries        == 2
DefaultRetryDelaySeconds == 2

ErrorRec == [canceled : BOOLEAN, network : BOOLEAN, text : BOOLEAN, status : Nat]

\* Two's complement: what an int holds after an operation whose result is n.
Wrap(n) == ((n + MaxInt + 1) % (2 * (MaxInt + 1))) - MaxInt - 1

-----------------------------------------------------------------------------

\* AppConfig.RetrySettings for one of its two fields: an absent key means the
\* default, a negative value means 0.
Setting(configured, default) ==
    IF configured = None THEN default
    ELSE IF configured < 0 THEN 0 ELSE configured

RetrySettings(maxRetries, delaySeconds) ==
    [maxRetries   |-> Setting(maxRetries, DefaultMaxRetries),
     delaySeconds |-> Setting(delaySeconds, DefaultRetryDelaySeconds)]

\* UploadManager.retrySettings: seconds to a Duration.
BaseDelay(delaySeconds) == Wrap(delaySeconds * Second)

\* doUpload's totalAttempts.
TotalAttempts(maxRetries) == Wrap(maxRetries + 1)

-----------------------------------------------------------------------------

retryableStatus_No425(code) == code \in {408, 429} \/ code > 500
retryableStatus(code) == code \in {408, 425, 429} \/ code >= 500

isRetryableError_IgnoresCancel(e) == e.network \/ e.text \/ retryableStatus(e.status)
isRetryableError(e) ==
    /\ ~e.canceled
    /\ e.network \/ e.text \/ retryableStatus(e.status)

\* The nominal wait after failedAttempt failures: base doubled failedAttempt - 1
\* times, while it is below the cap, then cut to the cap.
nominalBackoff_Uncapped(failedAttempt, base) ==
    LET d[i \in 1..failedAttempt] ==
            IF i = 1 THEN base
            ELSE IF d[i-1] < MaxBackoff THEN Wrap(2 * d[i-1]) ELSE d[i-1]
    IN  d[failedAttempt]

nominalBackoff(failedAttempt, base) ==
    LET d[i \in 1..failedAttempt] ==
            IF i = 1 THEN base
            ELSE IF d[i-1] < MaxBackoff THEN Wrap(2 * d[i-1]) ELSE d[i-1]
    IN  IF d[failedAttempt] > MaxBackoff THEN MaxBackoff ELSE d[failedAttempt]

\* The waits retryBackoff may return: a base that is not positive means none;
\* otherwise floor(d * x) for an x of [0.75, 1.25), the jitter applied last.
retryBackoff(failedAttempt, base) ==
    IF base <= 0 THEN {0}
    ELSE LET d == nominalBackoff(failedAttempt, base)
         IN  {w \in 0..(2 * d) : 3 * d < 4 * w + 4 /\ 4 * w < 5 * d}

=============================================================================
