# A TLA+ model of manyup

manyup uploads files to several file hosts at once from the command line. The
part of it that is hard to get right is not the uploads themselves but what runs
around them: a goroutine per service, a ticker per transfer, one bounded channel
that all of them send on, a display that reads it, Ctrl+C that may come anywhere,
retries, and hosts whose upload takes several calls of which any can be lost.
This directory models that and checks it: with TLC on small instances, with
TLAPS for every value of the constants.

Paths are relative to the repository, which appears as `src/` in `PROJECT.json`;
its `map` says which lines each definition stands for.

## The system

| Component | State | Operations | Talks to |
|---|---|---|---|
| Upload manager `internal/uploader/uploader.go` | per call: valid services, results; per service: attempt, `res` | `UploadFile`, `uploadParallel`, `uploadSequential`, `doUpload`, `attemptUpload` | services (call), channel (send), context (read), WaitGroup and mutex |
| Progress reader `uploader/progress_reader.go` | bytes read (atomic), `done`/`stopped` channels | `Read`, `Close`, ticker goroutine | progress channel |
| Retry policy `uploader/retry.go`, `config.RetrySettings` | none | classify an error, compute a backoff, interruptible sleep | upload manager |
| Upload command and display `main.go` | bars, index, line count; context, signal channel | file loop, display goroutine, signal goroutine | upload manager, progress channel |
| Configuration store `internal/config` | `config.json` and a copy in memory | load, save, set credential, toggle, retry settings | config command, upload command |
| Config command and credential check `main.go`, `services/verify.go` | the loaded config during a prompt and a check | set, mode, retry, select, menu | configuration store, services |
| interim `services/interim.go` | the intent, reader position, part, completion attempt | intent, single or multipart upload, completion, abort | API, storage |
| mocha, storage.to, zincdrive, vikingfile | upload session, part, batch | the same in four other protocols | API, storage |
| 0x0, buzzheavier, datanodes, fuckingfast, gofile, pixeldrain | none between requests | one or two requests | API |
| Registry `internal/plugin` | names, fixed at start | lookup | everyone |
| Self-update `internal/update` | the binary and its temporary and old copies on disk | find asset, download, validate, replace, clean up | GitHub |
| HTTP client `internal/httpclient` | one shared client | `Get` | services |

What makes each correct, and what makes it hard:

* **Upload manager and progress reader.** Every service that can upload has one
  result; the events of a service form a stream that starts, counts each attempt
  up from zero and ends once; nothing is sent after `close(progressCh)`; all of it
  ends. Hard: the ticker is still alive when `Upload` returns, the channel may be
  full, `select` chooses at random, and cancellation is read at some points only.
* **Retry policy.** A transient error uses all attempts, a permanent one exactly
  one; waits double and stay near a cap. Hard: integer overflow in settings the
  config file may hold, and the jitter.
* **Upload command.** The bars agree with the results and nothing is unshown at
  exit. Hard: the display infers batches of files from the events alone.
* **interim.** A result means a committed, whole file; a definite failure means
  none; reservations are released. Hard: lost answers, calls that arrive after the
  client gave up, a server-chosen geometry against a forward-only reader.
* **Other hosts.** A link is that of this attempt's file; what is stored is the
  file, in order; a failed attempt leaves no file unless it failed at or after
  its commit; the services that clean up ask for it, whatever failed. Hard: mocha's share can
  fail after the file is stored, gofile and buzzheavier take an answer without a link for a
  success, the answer to an abort is ignored, storage.to and vikingfile trust the server's count of parts, zincdrive never
  aborts, late calls of one attempt arrive during the next.
* **Configuration store and command.** What can be read was written by somebody
  who started from something that was there; a refused credential is not in it. Hard:
  `Save` truncates then writes; `config set` holds a loaded copy for as long as a
  prompt and a network check take; an answer that says nothing of the credential.
* **Self-update.** A binary that runs, at every instant; only forward. Hard: kills
  between the two renames of Windows, two updates on one folder, a way back that
  can fail, downloads that end early.

`PROJECT.json` lists the hazards one by one, at their lines, with the properties
that cover each or the reason why none does.

## Modules

```
RetryPolicy ---- RetrySchedule            (MCRetrySchedule)
     |                \----- RetryScheduleProofs
     |
  Uploader                                (MCUploader)
     |  |------- ProgressStream (INSTANCE: Uploader implements it)
     |  \------- UploaderProofs -- UploaderStreamProofs
     |                                  |
UploadCommand -- ProgressDisplay        | (MCUploadCommand)
     \------------------------ UploadCommandProofs

  Interim ------ InterimProofs            (MCInterim)

HostSession -- Mocha, StorageTo, ZincDrive, VikingFile, OneRequest
                  \------ Hosts           (MCHosts)
                            \--- HostsProofs

RetryPolicy, CredentialCheck
     |
ConfigStore ---- ConfigStoreProofs        (MCConfigStore)
     \---------- Settings (INSTANCE: ConfigStore implements it)

SelfUpdate ----- SelfUpdateProofs         (MCSelfUpdate)
```

**RetryPolicy** holds the pure functions: `RetrySettings`, `BaseDelay` and
`TotalAttempts` with integers of a given width (`Wrap`), `isRetryableError` over
error records (cancelled, network failure, text that matches a pattern, status
code) and `retryBackoff` as the set of waits the jitter allows.

**RetrySchedule** is the loop of one `doUpload` all of whose attempts fail: how
often it tries and how long it waits, for any setting.

**Uploader** is the package `internal/uploader` with everything that runs under
`UploadFile`. `call` is where `UploadFile` is, `pc[s]` where the `doUpload` of
service `s` is, `tick[s]` where its ticker goroutine is, `ch` is `progressCh`.
A step is what one goroutine does between two points where another can observe
it; `wg.Wait` is `ParallelWait`, the handshake of `Close` is `CloseReader` with
`TickDone` and `TickSend`, a blocked send is a disabled `Send`. The upload of
a service is any number of `Read`s followed by `UploadReturns` with success or any
error. `Cancel` may happen at any time. Actions:

| Code | Actions |
|---|---|
| `UploadFile` | `CallUploadFile`, `ValidateCredentials`, `ReturnResult` |
| `uploadParallel` / `uploadSequential` | `uploadParallel`, `ParallelWait`, `Collect` / `uploadSequential`, `NextService` |
| `doUpload` | `SendStarting`, `BeginAttempt`, `GiveUp` or `Decide`, `SendRetry`, `BackoffElapsed`, `BackoffCancelled`, `EndLoop`, `SendTerminal` |
| `attemptUpload`, `progressReader` | `OpenFile`, `newProgressReader`, `Read`, `UploadReturns`, `CloseReader`, `Tick`, `TickDone`, `TickSend` |

**ProgressStream** is what the package promises to the reader of the channel,
service by service, without goroutines, channel or context. Uploader implements
it: `StreamsArePromised` is `Stream!Spec` with `view`, what the reader has taken
from the channel so far, as the refinement mapping.

**ProgressDisplay** is `progressDisplay.handle` on its bars. **UploadCommand**
composes it with Uploader: the channel's reader becomes the display goroutine, the
free `Cancel` becomes the signal goroutine, which takes one signal from a channel
of one, and the caller becomes the file loop that closes the channel, waits for
the display and exits.

**Interim** is the client of one host, one call at a time, with the network and
the server. `pc` is the call under way, `net` the calls that are travelling,
`server[a]` the intent that attempt `a` created. A call can be lost, answered,
answered with something useless, turned down, or given up (`Unanswered`) and
still arrive; a gateway may report a server error after a commit; storage takes a
presigned PUT even for a closed intent. `Fail` is every error return of `Upload`
with its deferred `abort`. `Retry` is the uploader's next attempt: a new reader
and a new intent. The server and the network are external: they follow
`api-refs/interim.md` and what the client does with their answers.

**HostSession** is what the other services share: the state of a client with one
call under way, the network, and a server that keeps one session per attempt. Its
steps (`Ask`, `PutData`, `FailAndAbort`, ...) are what the clients are written
in. **Mocha**, **StorageTo**, **ZincDrive** and **VikingFile** are one client each,
with an action per answer it goes on from and an operator `*Error` for what it does
when a call fails; **OneRequest** is the six services whose link comes with
the answer to the upload itself. **Hosts** puts them together: the service is
chosen in `Init`, `Refused` and `Unanswered` are the error returns of all of
them, `TimesOut` is the timeout of `httpclient`, `Retry` the uploader's next attempt.
The servers are external. They open sessions with the geometry the constant
`Offers` lists, some of it odd; they may turn any call down, answer it with a body that
lacks what the client needs, send some of the URLs asked for, or commit and still
report an error; any call may be given up and arrive later. Two of these are let pass
by the code, and the properties name them. A 2xx answer that lacks only its link
(status `linkless`) fails the attempt of every service but gofile and buzzheavier, which
report a success with an empty or a bare URL (`LinksUnchecked`, `Accepts`). An abort that
is turned down leaves its session open (`refused`): mocha and storage.to make that call
once and do not look at the answer.

| Service | Calls (`pc`) | When it fails |
|---|---|---|
| mocha | `init`, then `urls` by the batch and `part` (or `part` alone through the relay), `complete`, `publish` (the share) | abort, up to and including `complete` |
| storage.to | `init`, then `put`, or `urls` once for those missing, `part`, `complete`; `publish` (confirm) | abort inside the multipart upload |
| zincdrive | `sign` and `put`, or `init`, per part `urls` and `part`, `complete`; `publish` (confirm) | nothing |
| vikingfile | `init` (with the URLs), `part`, `complete` (with the link) | nothing |
| datanodes | `init` (the server to use), `put` | nothing |
| 0x0, buzzheavier, fuckingfast, gofile, pixeldrain | `put` | nothing |

**CredentialCheck** holds the pure functions behind `config set`: what the
verifiers make of a status and a body, for one request or for interim's two.
**ConfigStore** is `config.json` under several processes: `Run` loads and
edits, `Prompt` and `Check` are what `config set` waits for, `MenuLoad`, `MenuLine` and
`MenuSave` the menu, `OpenFile` and `WriteFile` the two halves of `Save`, `CutShort`
a process that dies or a write that fails. `history` is the configurations the file has held,
and serves the properties only, as do `touched` and `unsure`. **Settings** is what a user may rely on: what
can be read is one legal change away from something that was current
before, or cannot be read at all. It allows lost changes, because the code loses
them: two commands that overlap both start from the old file.

**SelfUpdate** is the install folder under several manyup processes: `exec`,
`old` and a `temp` per process, with `image` the name a running image has on
Windows, where a file that runs can be renamed but not removed or overwritten.
One action per system call of `ApplyTo`, each of which may fail; `Kill` may come
between any two.

`MC*` modules give the constants their values. Operators named `X_Word`
next to `X` are deliberately wrong variants of `X`, each marked "Mutant": they
are used nowhere, and exist to show that a property notices the mistake.

## Runs

| Run | Checks | Instance |
|---|---|---|
| `retry_schedule` | `BackoffDoublesToTheCap`: waits against a doubling that does not overflow. `RetriesAsDocumented`: which errors are tried how often. | 8-bit integers, half seconds; default, small, negative, large and overflowing settings; 15 errors |
| `uploader` | `NoSendAfterClose`, `ResultsMatchEvents`, `EveryServiceAnswers`, `TransientFailuresUseAllAttempts` | two files, two services with credentials, one without, one unknown; two attempts; channel of 2; both modes |
| `uploader_live` | `StreamsArePromised` (refinement, with its liveness), `UploadsEnd` | one file, two services, channel of 1 |
| `upload_command` | `OneBarPerService`, `BarsShowTheResults`, `UnfinishedServicesHaveBars`; no deadlock before the exit; liveness `CommandEnds` | two files, two services, channel of 1 |
| `interim` | `CommittedFilesAreWhole`, `SuccessIsCommitted`, `RefusedUploadsAreNotCommitted`, `FailedUploadsAreAborted`, `EveryByteIsSent`; liveness `OnlyTransfersStall`, `CancelledUploadsEnd` | two attempts; empty file, single PUT, four parts over two batches, wrong part count, no completion or abort URL; two completion calls |
| `hosts` | `StoredFilesAreInOrder`, `SuccessIsPublished`, `OnlyCommitsStoreFiles`, `SessionsAreGivenUp`; liveness `UploadsEnd` | each of ten services; files of 0, 2 and 5 units; parts of two or three; two attempts |
| `config_store` | `UnrefusedCredentialsOnly`, `FreshSavesLoseNothing`, `StoreImplementsSettings` (refinement) | two processes, two commands of twelve; no file, or one with settings typed by hand |
| `self_update` | `AWorkingBinaryRemains`, `FailedUpdatesLeaveABinary`, `TempFilesAreRemoved`, `UpdatesGoForward`; liveness `UpdatesEnd` | two processes, three releases, Windows and Unix |

Four runs show a disagreement between the code and what is written about it:

| Run | The code | The text |
|---|---|---|
| `retry_cap` | jitter is applied after the cap, so a wait can reach 37.5 s | README: "capped at 30 seconds" |
| `cancelled_in_backoff` | an upload cancelled in a backoff wait keeps its last error | comment in `doUpload`: the aborted branch is for this case too |
| `display_reset` | bars are dropped in the middle of a parallel batch if those that started have all ended | comment in `handle`: "If the previous batch finished" |
| `interim_unaborted` | `createIntent` drops an intent it cannot use without aborting it | `api-refs/interim.md`: "Any failure after an intent is created" aborts |

### Bounds

* *Two services.* The services share only the channel, the results and the
  WaitGroup; a second one is needed for every interleaving among those, a third
  only adds more senders to a channel that two already fill.
* *Two files.* The second shows what a first leaves behind: bars, readers, events
  still in the channel.
* *Channel of 1 or 2* for the program's 100: small enough to be full, and a
  sender behind a full channel is the case that matters.
* *Two attempts* give a first, a retry and a last one. Longer schedules are in
  `retry_schedule`, which needs no interleaving.
* *8-bit integers* for 64-bit ones: the settings overflow at the same places.
  `MaxBackoff` is 30 s as in the code, `Second` is two units.
* *Four parts, batches of three*: a batch that is full, one that is not, and parts
  in the middle; the last part is shorter. In the code a batch is 100.
* *Two completion calls* for five: one that is retried and a last one.
* *`hosts`*: five units in parts of two make three parts, with a batch of two
  URLs that is full and one that is not, and a last part that is shorter; an empty
  file and one of exactly a part are the edges. Two attempts let the calls of the
  first arrive during the second.
* *`config_store`*: two commands overlap in every way two can. Three would add a
  save on top of a mixed file; that takes the run beyond its time. Processes are
  symmetric. Four services cover the three kinds of verifier and none.
* *`self_update`*: two processes; each runs as often as it likes but is killed at most
  once, for its temporary file stays. Releases 0.9.9, 0.10.0 and 1.0.0 tell a comparison of numbers
  from others.

### Fairness

`Uploader`: a goroutine that can run does (WF); in the ticker's `select` a `done`
that is ready is not passed over for ever (SF), because `select` chooses at random.
A tick, a `Read` and Ctrl+C need not happen. That `Upload` returns is weakly fair:
the HTTP client's timeout of five minutes ends every request. `UploadCommand` takes
these over, with the display and main for the reader and the caller. interim's transfers
switch that timeout off; for them it is an assumption about the storage, and
`Interim` shows it is the only one: under fairness of the client and of calls
that do have a timeout, an upload that does not end is inside a transfer
(`OnlyTransfersStall`), and Ctrl+C ends it there too (`CancelledUploadsEnd`). No
fairness is assumed of interim's server, storage or network.

`Hosts`: the client reads an answer it has and makes its next call (WF), and a call
without an answer times out (WF), which `httpclient` sees to for all of these
services. None of servers and network. `SelfUpdate`: the steps of an update go on
(WF), the download because of its timeout; not `CheckLatest`, whose request has none, nor
`Launch`, `Kill` or `Publish`. `ConfigStore` states none: nothing there must
happen.

`retry_schedule`, `retry_cap` and the interim runs switch deadlock checking off:
the loop stops when it is over, and the upload when it has ended. So do `hosts`,
`config_store` (no commands left) and `self_update` (every process killed, or no
binary under the name). `uploader` and
`upload_command` check it; their last state stutters explicitly.

## Proofs

Every safety invariant and every action property that a passing run checks is
proved for every value of the constants: any services, files, settings, channel
capacity, geometry and number of processes and attempts, and any interleaving.
So is the safety half of both refinements. What the proofs assume of the constants is
the ASSUMEs of the models, which TLC evaluates in the runs, and one
hypothesis, named below.

| Module | Theorem | States |
|---|---|---|
| UploaderProofs | `TypeCorrect` | `TypeOK` |
| | `NeverSendsAfterClose` | `NoSendAfterClose` |
| UploaderStreamProofs | `AllServicesAnswer` | `EveryServiceAnswers` |
| | `AllAttemptsAreUsed` | `TransientFailuresUseAllAttempts` |
| | `ResultsAndEventsAgree` | `ResultsMatchEvents` |
| | `ImplementsStream` | `Stream!Init /\ [][Stream!Next]_view`, the safety of `StreamsArePromised` |
| UploadCommandProofs | `CommandUploads` | a behaviour of `UploadCommand` is one of Uploader's `Init` and `Next` |
| | `BarsAreUnique`, `UnfinishedServicesAreShown`, `TheLastBarsAreRight` | `OneBarPerService`, `UnfinishedServicesHaveBars`, `BarsShowTheResults` |
| RetryScheduleProofs | `TypeCorrect`, `WaitsDoubleToTheCap`, `RetriesFollowTheDocs` | `TypeOK`, `BackoffDoublesToTheCap`, `RetriesAsDocumented` |
| | `WaitsStayNearTheCap` | no wait exceeds 5/4 of the cap, overflowing settings included |
| InterimProofs | `TypeCorrect`, `CommitsAreWhole`, `ResultsAreCommitted` | `TypeOK`, `CommittedFilesAreWhole`, `SuccessIsCommitted` |
| | `RefusalsLeaveNoFile`, `TheFileIsReadToItsEnd`, `AbortsItsFailures` | `RefusedUploadsAreNotCommitted`, `EveryByteIsSent`, `FailedUploadsAreAborted` |
| HostsProofs | `TypeCorrect`, `StoredInOrder`, `SuccessHasALink` | `TypeOK`, `StoredFilesAreInOrder`, `SuccessIsPublished` |
| | `FilesComeFromCommits`, `FailuresLeaveNothingOpen` | `OnlyCommitsStoreFiles`, `SessionsAreGivenUp` |
| ConfigStoreProofs | `TypeCorrect`, `OnlyUnrefusedAreSaved` | `TypeOK`, `UnrefusedCredentialsOnly` |
| | `FreshSavesKeepTheRest`, `ImplementsSettings` | `FreshSavesLoseNothing`, `StoreImplementsSettings` |
| SelfUpdateProofs | `TypeCorrect`, `ABinaryAlwaysRuns`, `TheNameHasABinary` | `TypeOK`, `AWorkingBinaryRemains`, `FailedUpdatesLeaveABinary` |
| | `NoTempFileIsLeft`, `NeverBackwards` | `TempFilesAreRemoved`, `UpdatesGoForward` |

In each module the inductive invariant comes first, in named parts; then the facts about
operators; then one lemma per group of actions with one step per action; the
theorems come last. TLC looked for a violation of each invariant, on the instances of
the runs, before it was proved; on the largest, UploadCommand with room for every event, it
was stopped after twelve million states.

### Uploader

`NoSendAfterClose` is not inductive: that the channel is closed says nothing about
a ticker in a state where its service believes to be done. `IndInv` adds the
argument the code relies on, in four parts: a ticker lives only between
`newProgressReader` and the end of `Close` (`TickersAreInside`); a `doUpload`
runs only inside `UploadFile`, in parallel only for services the WaitGroup counts,
in sequence one at a time (`UploadsAreInside`); where `res` is read it has been set
(`ResIsSet`); and the channel is closed only when the caller is idle after its
last file (`ClosedAtTheEnd`). Closed then implies idle, idle implies nobody
uploads, and nobody uploads implies no ticker.

*Results.* `AnswersInv` says where the result of each service is while `UploadFile` runs. In
sequence the results are those of the first services and the queue holds the rest,
but for the one that runs; in parallel a service has its one result when it no longer
runs. That the validated services are different ones and have credentials
(`ValidServices`, `UploadsHaveCredentials`) carries both. `ValidIsDue` compares those services with the selection itself, place by place, as the
credential loop passes them (`Past`), and with it the results are compared with the
selection and not with what the loop happened to keep. `AttemptsAreLeft` bounds the attempt
at each place of `doUpload` and says that a retry has a transient failure behind it;
`EndsAreExhausted` follows the error into the result.
`AllAttemptsAreUsed` has the hypothesis `settings.maxRetries < MaxInt`: with the
largest integer the number of attempts overflows, no attempt is made, and the
property is false. That is a fact about the code, listed among the hazards.

*Events.* The events in the channel are not the reader's view yet, so the invariant
has to speak of what the reader *will* know. `Coming(ch, view, k)` says
that taking the events of `ch` one by one leads from `view` to `k`, each by a step of
ProgressStream; `Stands(s, k[s])` ties `k` to where `doUpload` and the ticker of `s`
are; `Agrees(k)` ties it to the results. A send appends a promised event to the trace,
a receive takes its first one, and nothing else moves `k`. Both `ResultsMatchEvents`
and the refinement follow.

### UploadCommand

The display decides from the events alone where a file ends, so its bars
are right only if what is in the channel is. `FilesApart` says so: between two starts
of a service another file begins, with an event before which everything
has ended, and a service about to start may do so. It is kept by the uploader (a file
starts only when `UploadFile` has returned for the file before) and consumed by
`handle`, which resets at exactly such an event. `BarsFit` relates each bar to what
was read of its service, `EndsFit` orders close, drain and exit. Since `CommandSpec` is a
behaviour of the uploader's steps (`CommandUploads`), the uploader's invariants are used
as they are.

### RetrySchedule

The model computes the backoff as the code does, with a loop that doubles
and stops at the cap, and wraps. `BackoffDoublesToTheCap` compares
it with a doubling that never overflows. Both are recursive functions; induction
over them is done first-order, from the least number at which the claim would fail
(`LeastNatural`, from the well-foundedness of `<`). Iterates exist and are unique, the code's
loop is one, and it is the minimum of the exact doubling and the cap.
`WaitsFit` bounds the jitter. `WidthAssumption` makes room for twice the cap in
an integer, which the doubling needs.

### Interim and Hosts

Both have a client with one call under way, a server per attempt, and calls of
earlier attempts still on their way. The properties speak of the server; the reasons for
them are on the client and in the network. The invariants therefore have a part each for:

* *the client's place in the file* (`ReaderFits`): after part `n` was cut the reader
  stands at the sum of the lengths so far, and at the end when completion is called;
* *calls on their way* (`CallsFit`, `CallsCarryTheirPiece`): a call carries the piece
  of its part under the geometry of the session *of its own attempt*, so a late
  one cannot put a wrong piece into a later session;
* *the server's record* (`ServerFits`, `PiecesFit`): what an open session has of
  a part is that piece;
* *commits* (`CommitsFit`, `CommitsAreReached`): a committed file is known of,
  or its attempt ended in one of the ways in which the client cannot know;
* *clean-up* (`AbortIsDue`, `FailuresAreGivenUp`).

`Hosts` has the parts once for all services, with the part size and the count of
each service as operators (`PartSize`, `Total`), and one lemma per client that its
actions are instances of `AskStep`, `PutPart`, `FailStep` and so on. In place of
products, pieces are stated with `Before`, the bytes before a part, and the
non-linear arithmetic is in three lemmas (`NextProduct`, `BeforeFacts`, `ChunkFacts`);
`GeometryFits` and `PartFacts` do that for Interim.

### ConfigStore

`FileIsLatest` ties what can be read to the last entry of `history`. `CopiesFit` is the
heart: wherever a process is, its copy is one change away from a configuration the file
has held, and what its command has no business with is as in the *last* one unless
another saved since (`touched`). `Clean`
says the tokens in it are ones their services did not refuse; `CheckFacts` proves that of the
verifiers, status by status. The refinement maps a `WriteFile` that leaves a
readable file to `Save`, the truncation before it or a write that gives no JSON to `Lose`, and all
else to a stutter: `ChangeIsASave` and `SaveIsASave` find, for each command, the
configuration in `past` that it is one change away from.

### SelfUpdate

`AWorkingBinaryRemains` needs to know why two updates cannot both be between the renames
of Windows: a process there runs the image it moved aside, and `.old` in use can be neither
removed nor overwritten (`OneSwapAtATime`, `ImagesAreThere`). That an image in use is still the
build its process was started as (`ImagesAreThere`) is what makes the way back of
`FailedUpdatesLeaveABinary` restore the right one. What is about to be installed was accepted by the
download's checks and is later than the version that asked for it
(`AcceptedFilesAreWhole`, `TargetsAreLater`). `NewerIsLater` relates the code's comparison of
versions to the order of publication, from `PublishedInOrder`.

### What the proofs assume

* Shape and bounds of the constants: `UploaderAssumption`, `ScheduleAssumption`,
  `WidthAssumption`, `InterimAssumption`, `HostAssumption`, `StoreAssumption`,
  `ReleasesAssumption` and the like.
* That a special value is none of the others: `NilAssumption` (Uploader and
  HostSession), `NoneAssumption`, `AbsentAssumption`, `FileAssumption`.
* What a server may offer: `OffersAssumption` (a part size is positive, the count of parts
  is within the bound), `MochaAssumption`, `StorageToAssumption`, `VikingAssumption`. They do not say
  that an offer makes sense for the file.
* `PartsAssumption`: the bound on parts is large enough for the files and part sizes;
  in the code nothing bounds them.
* `ValuesAssumption`, `CommandAssumption`: the commands are those `cmdConfig` does not turn
  down.
* `PublishedInOrder`: each release is newer than those published before it.

### Only model-checked

Liveness stays with TLC, as fairness and ENABLED are beyond the prover: `UploadsEnd`
(Uploader and Hosts), `CommandEnds`, `OnlyTransfersStall`, `CancelledUploadsEnd`,
`UpdatesEnd`, and the fairness of ProgressStream in `StreamsArePromised`. So do the four
statements that do not hold.

## What is left out

* Terminal lines, colours, speed and ETA: a `printResult` that the display draws
  over cannot be seen in this model.
* The text of errors. `RetryPolicy` has a flag for a message that happens to
  match a transient pattern; `RetriesAsDocumented` speaks of the errors whose kind
  is unambiguous.
* Time. Waits are computed in RetrySchedule and have no length elsewhere; a
  tick and a timeout may come at any moment.
* The file is assumed not to change while it is uploaded; the selection is assumed
  to hold no name twice; `getCredentials` is the constant `HasCredentials`.
* A retry setting of the largest integer (`MaxRetries + 1` overflows and no attempt
  is made) is stated as `InitialUploadIsTried` in RetrySchedule, and not checked.
* Names, content types and headers; a name that would break a URL (pixeldrain) or
  a token saved with a space around it cannot be seen here.
* A server whose count of parts is too small for the file (storage.to, vikingfile)
  makes the client store the beginning of it. `StoredFilesAreInOrder` asks for the
  whole file only if the count covers it. What zincdrive, vikingfile and a client that
  could not read the first answer leave open is left to the server.
* gofile and buzzheavier report a success without a link if the answer has none, and
  an abort that mocha or storage.to turn down leaves the session to them. Both are what the
  code does; `SuccessIsPublished` and `SessionsAreGivenUp` hold but for these. interim's
  `FailedUploadsAreAborted` says that the abort is called, not that it is heeded.
* That an answer which says nothing of a credential does not refuse it is in the
  definitions of CredentialCheck only; `UnrefusedCredentialsOnly` is about the refusals.
* Commands that overlap lose one of the changes, and a save cut short leaves a
  file that later commands refuse. Both are what the code does and what Settings allows.
* Two saves whose writes mix are one of the two texts or no JSON; that the mix
  parses as something else is left out.
* In SelfUpdate, a download that ends early without an announced length passes
  the code's checks: `AWorkingBinaryRemains` leaves out this one file, by name
  (`Undetectable`). A way back that fails too, its error ignored (`Rollback`), and a kill
  between the two renames of Windows leave the binary under `.old` only:
  `FailedUpdatesLeaveABinary` names both (`broken`). README.md's "the existing binary is left
  untouched" and the comment in `ApplyTo` ("Never leave the install without a working
  binary") do not hold there.
  The deferred removal of the temporary file is taken to succeed. Release
  JSON, version text, asset names and platforms are one outcome of `CheckLatest`.
* Help, completion and listing commands only print; installers and the release
  workflow run outside the program.

## Plan

Modelling and the safety proofs are done. Worth doing next:

1. The safety part of the liveness arguments as theorems: a variant that the steps of
   `doUpload` and of a host's loop decrease (attempts left, then parts left), from
   which the ends TLC checks follow by fairness alone.
2. That an upload of Hosts or Interim is an `UploadReturns` of Uploader: today
   Uploader allows any outcome, which covers them, and no theorem says so.
3. The lines of the terminal, so that `printResult` drawing over the display can be seen.
