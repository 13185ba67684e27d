------------------------------ MODULE Interim ------------------------------
(***************************************************************************)
(* internal/services/interim.go: one service's upload of one file, with    *)
(* the retries the uploader makes of it, against the API and the storage   *)
(* behind it.  The client makes one call at a time; a call or its answer   *)
(* can be lost, and a call the client has given up on can still arrive     *)
(* later.  The server is external: it is what api-refs/interim.md and the  *)
(* client's handling of its answers say of it.                             *)
(***************************************************************************)
EXTENDS Integers, FiniteSets

CONSTANTS
    Sizes,             \* file sizes, in units of data
    Offers,            \* the intents the server may answer with
    MaxParts,          \* bound: parts the server declares
    PartBatch,         \* interimPartBatch
    CompleteAttempts,  \* interimCompleteAttempts
    MaxAttempts,       \* attempts the uploader makes
    None

ASSUME InterimAssumption ==
    /\ Sizes \subseteq Nat
    /\ MaxParts \in Nat \ {0} /\ PartBatch \in Nat \ {0}
    /\ CompleteAttempts \in Nat \ {0} /\ MaxAttempts \in Nat \ {0}

Attempts == 1..MaxAttempts
Parts    == 1..MaxParts

\* What the client keeps of an intent (interimIntent).  hasComplete: there is
\* a complete_url or an upload_id to build it from.
Intent == [mode : {"single", "multipart"}, partSize : Nat \ {0}, partCount : Parts,
           hasComplete : BOOLEAN, hasAbort : BOOLEAN]
ASSUME OffersAssumption == Offers \subseteq Intent /\ None \notin Intent

Calls     == {"create", "put", "urls", "part", "report", "complete", "abort"}
Transfers == {"put", "part"}   \* made with interimStreamingClient: no timeout
Request   == [kind : Calls, attempt : Attempts, part : 0..MaxParts, from : Nat, len : Nat]

\* "ok": a 2xx the client can use; "unusable": a 2xx it cannot; "conflict": a
\* 409 interimRetryableConflict accepts; "transient", "permanent": other
\* statuses, as the uploader classifies them.
Statuses == {"ok", "unusable", "conflict", "transient", "permanent"}
Answer   == [status : Statuses, intent : Offers \cup {None}, numbers : SUBSET Parts]

\* How an attempt ended: the status that ended it, no answer ("lost"), a check
\* of the client's own ("local"), or the context in a wait ("cancelled").
Outcomes  == Statuses \cup {"lost", "local", "cancelled"}
Retryable == {"transient", "lost"}

Piece == [from : Nat, len : Nat]

ASSUME NoneAssumption == None \notin Answer /\ None \notin Outcomes /\ None \notin Piece

VARIABLES
    size,       \* of the file
    cancelled,  \* ctx.Err() # nil
    attempt,    \* the uploader's attempt
    pc,         \* the call being made, or "start", "sleep", "failed", "ok"
    intent,     \* the intent in hand, None until createIntent returns one
    part,       \* the part number uploadMultipart is at
    urls,       \* the numbers in byNumber
    offset,     \* bytes taken from the reader
    tries,      \* complete's attempt
    aborted,    \* abort has been called in this attempt
    outcome,    \* per attempt, None while it runs
    answer,     \* the answer to the client's call, None while it waits
    net,        \* calls on their way
    server      \* per attempt, the intent it created there

clientVars == <<attempt, pc, intent, part, urls, offset, tries, aborted, outcome>>
vars == <<size, cancelled, clientVars, answer, net, server>>

ServerStates == {"none", "open", "committed", "aborted", "expired"}
ServerRecord == [state : ServerStates, intent : Offers \cup {None},
                 stored : [Parts -> Piece \cup {None}], reported : SUBSET Parts]

TypeOK ==
    /\ size \in Sizes /\ cancelled \in BOOLEAN
    /\ attempt \in Attempts
    /\ pc \in Calls \cup {"start", "sleep", "failed", "ok"}
    /\ intent \in Offers \cup {None}
    /\ part \in 0..MaxParts /\ urls \in SUBSET Parts
    /\ offset \in Nat /\ tries \in 0..CompleteAttempts
    /\ aborted \in BOOLEAN
    /\ outcome \in [Attempts -> Outcomes \cup {None}]
    /\ answer = None \/ (answer \in Answer /\ pc \in Calls)
    /\ net \subseteq Request
    /\ server \in [Attempts -> ServerRecord]

\* An intent nothing is stored under, and what the server has before there is one.
Empty(state, i) == [state |-> state, intent |-> i,
                    stored |-> [n \in Parts |-> None], reported |-> {}]
NoRecord        == Empty("none", None)

Init ==
    /\ size \in Sizes /\ cancelled = FALSE
    /\ attempt = 1 /\ pc = "start" /\ intent = None
    /\ part = 0 /\ urls = {} /\ offset = 0 /\ tries = 0 /\ aborted = FALSE
    /\ outcome = [a \in Attempts |-> None]
    /\ answer = None /\ net = {}
    /\ server = [a \in Attempts |-> NoRecord]

-----------------------------------------------------------------------------
(* Calls.  net/http sends nothing on a context that is already cancelled;  *)
(* the call then ends unanswered.                                          *)

Ask(kind, n, from, len) ==
    /\ pc' = kind
    /\ part' = n
    /\ answer' = None
    /\ net' = IF cancelled THEN net
              ELSE net \cup {[kind |-> kind, attempt |-> attempt, part |-> n,
                              from |-> from, len |-> len]}

\* Mutant: the cleanup runs on the upload's own context.
Fail_AbortOnContext(why, i) ==
    /\ outcome' = [outcome EXCEPT ![attempt] = why]
    /\ answer' = None
    /\ IF i # None /\ i.hasAbort /\ ~cancelled
       THEN /\ pc' = "abort" /\ aborted' = TRUE
            /\ net' = net \cup {[kind |-> "abort", attempt |-> attempt, part |-> part,
                                 from |-> 0, len |-> 0]}
       ELSE /\ pc' = "failed"
            /\ UNCHANGED <<aborted, net>>

\* Upload returns an error; the deferred function aborts the intent, on a
\* context of its own, if there is one and it has an abort URL.
Fail(why, i) ==
    /\ outcome' = [outcome EXCEPT ![attempt] = why]
    /\ answer' = None
    /\ IF i # None /\ i.hasAbort
       THEN /\ pc' = "abort" /\ aborted' = TRUE
            /\ net' = net \cup {[kind |-> "abort", attempt |-> attempt, part |-> part,
                                 from |-> 0, len |-> 0]}
       ELSE /\ pc' = "failed"
            /\ UNCHANGED <<aborted, net>>

\* The client's call was answered with that status.
Answered(kind, status) == pc = kind /\ answer # None /\ answer.status = status

-----------------------------------------------------------------------------
(* The client.                                                             *)

ExpectedParts(i) == (size + i.partSize - 1) \div i.partSize

\* Mutant: the last part is taken to be a full one.
PartLength_AlwaysFull(i, n) == i.partSize

PartLength(i, n) == IF n < i.partCount THEN i.partSize
                    ELSE size - (i.partCount - 1) * i.partSize

Batch(i, n) == {m \in Parts : n <= m /\ m < n + PartBatch /\ m <= i.partCount}

\* Upload is called.  An empty file is refused before any call.
Start ==
    /\ pc = "start"
    /\ \/ /\ size > 0
          /\ Ask("create", 0, 0, 0)
          /\ UNCHANGED <<aborted, outcome>>
       \/ /\ size = 0
          /\ Fail("local", intent)
          /\ UNCHANGED part
    /\ UNCHANGED <<size, cancelled, attempt, intent, urls, offset, tries, server>>

\* createIntent returns an intent and Upload branches on its mode.  A part
\* count that does not fit the file ends the attempt.
IntentCreated ==
    /\ Answered("create", "ok")
    /\ LET i == answer.intent IN
       /\ intent' = i
       /\ \/ /\ i.mode = "single"
             /\ Ask("put", 1, 0, size)
             /\ offset' = size
             /\ UNCHANGED <<aborted, outcome>>
          \/ /\ i.mode = "multipart" /\ ExpectedParts(i) = i.partCount
             /\ Ask("urls", 1, 0, 0)
             /\ UNCHANGED <<offset, aborted, outcome>>
          \/ /\ i.mode = "multipart" /\ ExpectedParts(i) # i.partCount
             /\ Fail("local", i)
             /\ UNCHANGED <<part, offset>>
    /\ UNCHANGED <<size, cancelled, attempt, urls, tries, server>>

\* One turn of the part loop: PUT part n if there is a URL in us for it and
\* its length makes sense.
PutPart(n, us) ==
    LET length == PartLength(intent, n)
        fits   == n \in us /\ length > 0 /\ length <= intent.partSize IN
    \/ /\ fits
       /\ Ask("part", n, offset, length)
       /\ offset' = offset + length
       /\ UNCHANGED <<aborted, outcome>>
    \/ /\ ~fits
       /\ Fail("local", intent)
       /\ UNCHANGED <<part, offset>>

\* requestPartURLs returns; the first part of the batch follows.
URLsReceived ==
    /\ Answered("urls", "ok")
    /\ urls' = answer.numbers
    /\ PutPart(part, answer.numbers)
    /\ UNCHANGED <<size, cancelled, attempt, intent, tries, server>>

\* putPart returns the ETag; reportPart sends it on with the length.
PartStored ==
    /\ Answered("part", "ok")
    /\ Ask("report", part, 0, PartLength(intent, part))
    /\ UNCHANGED <<size, cancelled, attempt, intent, urls, offset, tries, aborted, outcome, server>>

\* complete's first call, if there is an address for it.
BeginComplete ==
    \/ /\ intent.hasComplete
       /\ Ask("complete", part, 0, 0)
       /\ tries' = 1
       /\ UNCHANGED <<aborted, outcome>>
    \/ /\ ~intent.hasComplete
       /\ Fail("local", intent)
       /\ UNCHANGED <<part, tries>>

\* putObject returns.
ObjectStored ==
    /\ Answered("put", "ok")
    /\ BeginComplete
    /\ UNCHANGED <<size, cancelled, attempt, intent, urls, offset, server>>

\* Mutant: the loop runs over byNumber, in the order of a map.
PartReported_MapOrder ==
    /\ Answered("report", "ok")
    /\ \/ /\ part = intent.partCount
          /\ BeginComplete
          /\ UNCHANGED <<urls, offset>>
       \/ /\ part < intent.partCount
          /\ \/ /\ urls \ {part} = {}
                /\ Ask("urls", part + 1, 0, 0)
                /\ UNCHANGED <<urls, offset, aborted, outcome>>
             \/ /\ urls' = urls \ {part}
                /\ \E n \in urls' : PutPart(n, urls')
          /\ UNCHANGED tries
    /\ UNCHANGED <<size, cancelled, attempt, intent, server>>

\* Mutant: one part too many.
PartReported_PastTheEnd ==
    /\ Answered("report", "ok")
    /\ \/ /\ part > intent.partCount
          /\ BeginComplete
          /\ UNCHANGED <<urls, offset>>
       \/ /\ part <= intent.partCount
          /\ Ask("urls", part + 1, 0, 0)
          /\ UNCHANGED <<urls, offset, tries, aborted, outcome>>
    /\ UNCHANGED <<size, cancelled, attempt, intent, server>>

\* reportPart returns: the next part of the batch, the next batch, or the end
\* of uploadMultipart.
PartReported ==
    /\ Answered("report", "ok")
    /\ \/ /\ part = intent.partCount
          /\ BeginComplete
          /\ UNCHANGED offset
       \/ /\ part < intent.partCount
          /\ IF part % PartBatch = 0
             THEN /\ Ask("urls", part + 1, 0, 0)
                  /\ UNCHANGED <<offset, aborted, outcome>>
             ELSE PutPart(part + 1, urls)
          /\ UNCHANGED tries
    /\ UNCHANGED <<size, cancelled, attempt, intent, urls, server>>

\* complete returns the file.
Completed ==
    /\ Answered("complete", "ok")
    /\ pc' = "ok"
    /\ outcome' = [outcome EXCEPT ![attempt] = "ok"]
    /\ answer' = None
    /\ UNCHANGED <<size, cancelled, attempt, intent, part, urls, offset, tries, aborted, net, server>>

\* Mutant: after the last conflict complete returns without an error.
CompleteConflict_LastIsFine ==
    /\ Answered("complete", "conflict")
    /\ pc' = IF tries = CompleteAttempts THEN "ok" ELSE "sleep"
    /\ outcome' = IF tries = CompleteAttempts THEN [outcome EXCEPT ![attempt] = "ok"] ELSE outcome
    /\ answer' = None
    /\ UNCHANGED <<size, cancelled, attempt, intent, part, urls, offset, tries, aborted, net, server>>

\* complete was told 409: it gives up at the last attempt, or waits.
CompleteConflict ==
    /\ Answered("complete", "conflict")
    /\ IF tries = CompleteAttempts
       THEN Fail("conflict", intent)
       ELSE /\ pc' = "sleep" /\ answer' = None
            /\ UNCHANGED <<aborted, outcome, net>>
    /\ UNCHANGED <<size, cancelled, attempt, intent, part, urls, offset, tries, server>>

\* Mutant: the attempt is not counted.
CompleteAgain_NoCount ==
    /\ pc = "sleep"
    /\ Ask("complete", part, 0, 0)
    /\ UNCHANGED <<size, cancelled, attempt, intent, urls, offset, tries, aborted, outcome, server>>

\* interimSleep returns true.
CompleteAgain ==
    /\ pc = "sleep"
    /\ Ask("complete", part, 0, 0)
    /\ tries' = tries + 1
    /\ UNCHANGED <<size, cancelled, attempt, intent, urls, offset, aborted, outcome, server>>

\* interimSleep returns false.
SleepCancelled ==
    /\ pc = "sleep" /\ cancelled
    /\ Fail("cancelled", intent)
    /\ UNCHANGED <<size, cancelled, attempt, intent, part, urls, offset, tries, server>>

\* Any call but abort's comes back with an error status or a body of no use.
Refused ==
    /\ pc \in Calls \ {"abort"} /\ answer # None
    /\ answer.status \in {"unusable", "transient", "permanent"}
    /\ Fail(answer.status, intent)
    /\ UNCHANGED <<size, cancelled, attempt, intent, part, urls, offset, tries, server>>

\* Mutant: a completion that got no answer is asked again, and the error of
\* the last 409 is the one reported.
Unanswered_CompleteAgain ==
    /\ pc \in Calls \ {"abort"}
    /\ IF pc = "complete" /\ tries > 1
       THEN IF tries = CompleteAttempts
            THEN /\ Fail("conflict", intent)
                 /\ UNCHANGED <<part, tries>>
            ELSE /\ Ask("complete", part, 0, 0)
                 /\ tries' = tries + 1
                 /\ UNCHANGED <<aborted, outcome>>
       ELSE /\ Fail("lost", intent)
            /\ UNCHANGED <<part, tries>>
    /\ UNCHANGED <<size, cancelled, attempt, intent, urls, offset, server>>

\* Mutant: the transfers are made without the context.
Unanswered_NoContext ==
    /\ pc \in Calls \ ({"abort"} \cup Transfers)
    /\ Fail("lost", intent)
    /\ UNCHANGED <<size, cancelled, attempt, intent, part, urls, offset, tries, server>>

\* Any call but abort's ends without an answer: the connection fails, the
\* client's timeout ends it, or the context does.  It may arrive all the same.
Unanswered ==
    /\ pc \in Calls \ {"abort"}
    /\ Fail("lost", intent)
    /\ UNCHANGED <<size, cancelled, attempt, intent, part, urls, offset, tries, server>>

\* abort returns, answered or not.
AbortReturns ==
    /\ pc = "abort"
    /\ pc' = "failed" /\ answer' = None
    /\ UNCHANGED <<size, cancelled, attempt, intent, part, urls, offset, tries, aborted,
                   outcome, net, server>>

\* The uploader tries again: a fresh reader and a fresh intent.
Retry ==
    /\ pc = "failed" /\ outcome[attempt] \in Retryable
    /\ ~cancelled /\ attempt < MaxAttempts
    /\ attempt' = attempt + 1
    /\ pc' = "start" /\ intent' = None
    /\ part' = 0 /\ urls' = {} /\ offset' = 0 /\ tries' = 0 /\ aborted' = FALSE
    /\ UNCHANGED <<size, cancelled, outcome, answer, net, server>>

\* Ctrl+C or SIGTERM.
Cancel ==
    /\ ~cancelled
    /\ cancelled' = TRUE
    /\ UNCHANGED <<size, clientVars, answer, net, server>>

-----------------------------------------------------------------------------
(* The server and the storage.  A call that is not the one the client is   *)
(* waiting for is handled, and its answer goes nowhere.                    *)

IsAwaited(r) == pc = r.kind /\ attempt = r.attempt /\ part = r.part /\ answer = None

Reply(r, status, i, numbers) ==
    /\ net' = net \ {r}
    /\ answer' = IF IsAwaited(r) THEN [status |-> status, intent |-> i, numbers |-> numbers]
                 ELSE answer
    /\ UNCHANGED <<size, cancelled, clientVars>>

\* Any call may be turned down: a rate limit, a server error, a bad request.
TurnDown(r) ==
    /\ \E status \in {"transient", "permanent"} : Reply(r, status, None, {})
    /\ UNCHANGED server

\* POST /uploads.  The geometry of the answer is whatever the server says.
CreateIntent(r) ==
    /\ r.kind = "create"
    /\ \E i \in Offers, status \in {"ok", "unusable"} :
          /\ Reply(r, status, i, {})
          /\ server' = [server EXCEPT ![r.attempt] = Empty("open", i)]

\* The presigned PUT of the object or of a part.  Storage takes it whatever
\* has become of the intent; a part's answer may lack the ETag.
Store(r) ==
    /\ r.kind \in Transfers
    /\ \E status \in IF r.kind = "put" THEN {"ok"} ELSE {"ok", "unusable"} :
          Reply(r, status, None, {})
    /\ server' = [server EXCEPT ![r.attempt].stored[r.part] = [from |-> r.from, len |-> r.len]]

\* POST parts_url: URLs for the batch, or for some of it.
SignParts(r) ==
    /\ r.kind = "urls"
    /\ LET s == server[r.attempt] IN
       IF s.state = "open"
       THEN \/ \E given \in SUBSET Batch(s.intent, r.part) \ {{}} : Reply(r, "ok", None, given)
            \/ Reply(r, "unusable", None, {})
       ELSE Reply(r, "permanent", None, {})
    /\ UNCHANGED server

\* PUT parts_url/n: only for a part that is in storage with that length.
RecordPart(r) ==
    /\ r.kind = "report"
    /\ LET s == server[r.attempt] IN
       IF s.state = "open" /\ s.stored[r.part] # None /\ s.stored[r.part].len = r.len
       THEN /\ Reply(r, "ok", None, {})
            /\ server' = [server EXCEPT ![r.attempt].reported = @ \cup {r.part}]
       ELSE /\ Reply(r, "permanent", None, {})
            /\ UNCHANGED server

\* All the server needs is there.
Complete(s) == IF s.intent.mode = "single" THEN s.stored[1] # None
               ELSE s.reported = 1..s.intent.partCount

\* POST complete_url.  Idempotent; 409 while the object is not there, or not
\* visible yet.  A gateway may fail the call after the commit.
Commit(r) ==
    /\ r.kind = "complete"
    /\ LET s == server[r.attempt] IN
       \/ /\ s.state = "committed" \/ (s.state = "open" /\ Complete(s))
          /\ \E status \in {"ok", "unusable", "transient"} : Reply(r, status, None, {})
          /\ server' = [server EXCEPT ![r.attempt].state = "committed"]
       \/ /\ s.state = "open"
          /\ Reply(r, "conflict", None, {})
          /\ UNCHANGED server
       \/ /\ s.state \notin {"open", "committed"}
          /\ Reply(r, "permanent", None, {})
          /\ UNCHANGED server

\* DELETE abort_url: closes the intent and drops what was stored; 409, and no
\* effect, once committed.
Abort(r) ==
    /\ r.kind = "abort"
    /\ Reply(r, "ok", None, {})
    /\ LET i == server[r.attempt].intent IN
       server' = IF server[r.attempt].state # "open" THEN server
                 ELSE [server EXCEPT ![r.attempt] = Empty("aborted", i)]

\* The janitor closes an intent nobody completed in time.
Expire(a) ==
    /\ server[a].state = "open"
    /\ server' = [server EXCEPT ![a].state = "expired"]
    /\ UNCHANGED <<size, cancelled, clientVars, answer, net>>

\* A call is lost on its way.
Lose(r) ==
    /\ net' = net \ {r}
    /\ UNCHANGED <<size, cancelled, clientVars, answer, server>>

-----------------------------------------------------------------------------

Client ==
    \/ Start \/ IntentCreated \/ ObjectStored \/ URLsReceived \/ PartStored \/ PartReported
    \/ Completed \/ CompleteConflict \/ CompleteAgain \/ SleepCancelled
    \/ Refused \/ AbortReturns \/ Retry

Environment ==
    \/ \E r \in net : \/ TurnDown(r) \/ CreateIntent(r) \/ Store(r) \/ SignParts(r)
                      \/ RecordPart(r) \/ Commit(r) \/ Abort(r) \/ Lose(r)
    \/ \E a \in Attempts : Expire(a)
    \/ Cancel

Next == Client \/ Unanswered \/ Environment

\* A call ends by the client's 5-minute timeout or by the context.  Transfers
\* have no timeout: only the context ends one that storage never answers.
TimesOut == (pc \in Transfers => cancelled) /\ Unanswered

Fairness == WF_vars(Client) /\ WF_vars(TimesOut)

Spec == Init /\ [][Next]_vars /\ Fairness

-----------------------------------------------------------------------------

\* The pieces in storage are the file, each byte at its place.
IsWholeFile(s) ==
    LET count == IF s.intent.mode = "single" THEN 1 ELSE s.intent.partCount IN
    /\ \A n \in 1..count : s.stored[n] # None
    /\ s.stored[1].from = 0
    /\ \A n \in 1..(count - 1) : s.stored[n + 1].from = s.stored[n].from + s.stored[n].len
    /\ s.stored[count].from + s.stored[count].len = size

\* What the server has committed, for whichever attempt, is the whole file in
\* order: the forward-only reader, the batches of URLs and the part lengths
\* agree whatever geometry the server declared (interim.go:320).
CommittedFilesAreWhole ==
    \A a \in Attempts : server[a].state = "committed" => IsWholeFile(server[a])

\* Upload returns a result only for a file the server has committed, whatever
\* was lost, late or retried before (interim.go:484).
SuccessIsCommitted == pc = "ok" => server[attempt].state = "committed"

\* An attempt that ended on a definite refusal, a check of the client or a
\* cancelled wait has left no file behind, and none of its late calls makes
\* one: a file without a result comes only from an answer that was lost, was of
\* no use, or hid the commit behind a server error (interim.go:497).
RefusedUploadsAreNotCommitted ==
    \A a \in Attempts :
        outcome[a] \in {"conflict", "permanent", "local", "cancelled"}
            => server[a].state # "committed"

\* Every attempt that fails with an intent in hand aborts it, cancelled or
\* not, and one that succeeds never does (interim.go:159).
FailedUploadsAreAborted ==
    /\ pc = "failed" /\ intent # None => aborted = intent.hasAbort
    /\ pc = "ok" => ~aborted

\* A multipart upload completes only when the reader is at its end, and never
\* asks it for more than the file has (interim.go:463).
EveryByteIsSent ==
    /\ offset <= size
    /\ pc \in {"complete", "sleep"} => offset = size

\* Nothing but a transfer can keep Upload from returning: completion is not
\* asked for forever, and the cleanup cannot hang (interim.go:484, 534).
OnlyTransfersStall == <>[](pc \in {"ok", "failed"} \cup Transfers)

\* Ctrl+C ends an upload wherever it is, a transfer included.
CancelledUploadsEnd == cancelled ~> pc \in {"ok", "failed"}

\* api-refs/interim.md: "Any failure after an intent is created triggers a
\* best-effort DELETE abort_url".  Of an intent the client was told of.
AnsweredIntentsAreAborted ==
    LET s == server[attempt] IN
    pc = "failed" /\ outcome[attempt] # "lost" /\ s.state # "none"
        => (s.intent.hasAbort => aborted)

=============================================================================
