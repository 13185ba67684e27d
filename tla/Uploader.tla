------------------------------ MODULE Uploader ------------------------------
(***************************************************************************)
(* internal/uploader: UploadManager.UploadFile and everything that runs    *)
(* under it - the goroutine of each service (doUpload), the ticker         *)
(* goroutine of each progressReader - with the progress channel they share *)
(* and the context Ctrl+C cancels.  The caller and the reader of the       *)
(* channel are here as far as the package relies on them; UploadCommand    *)
(* puts the real ones of main.go in their place.                           *)
(*                                                                         *)
(* A step is what one goroutine does between two points where another can  *)
(* be seen: a channel operation, a read of the context, a shared counter.  *)
(***************************************************************************)
EXTENDS RetryPolicy, Sequences, FiniteSets

CONSTANTS
    Service,         \* service names
    Selected,        \* cfg.SelectedServices, a sequence of names
    Registered,      \* the names the registry knows
    HasCredentials,  \* services whose required credentials are all set
    FileSize,        \* stat.Size(), in chunks a Read returns
    Capacity,        \* of progressCh
    MaxRetries,      \* max_retries of the config file, or None
    RetryDelay,      \* retry_delay_seconds, or None
    Failure,         \* the errors an attempt may end with
    Aborted,         \* the error of a result nobody attempted
    MaxCalls         \* bound: UploadFile calls the caller makes

ASSUME UploaderAssumption ==
    /\ Selected \in Seq(Service)
    /\ \A i, j \in 1..Len(Selected) : Selected[i] = Selected[j] => i = j
    /\ Registered \subseteq Service /\ HasCredentials \subseteq Service
    /\ FileSize \in Nat /\ Capacity \in Nat \ {0} /\ MaxCalls \in Nat
    /\ MaxRetries \in Int \cup {None} /\ RetryDelay \in Int \cup {None}
    /\ Failure \subseteq ErrorRec
    /\ None \notin Failure /\ Aborted \notin Failure \cup {None}

VARIABLES
    mode,       \* cfg.UploadMode, loaded once
    cancelled,  \* ctx.Err() # nil
    calls,      \* UploadFile calls begun
    call,       \* where UploadFile is
    queue,      \* the services its current loop has not come to yet
    valid,      \* validServices
    results,    \* MultiResult.Results
    pc,         \* where the doUpload of each service is
    attempt,    \* its attempt
    res,        \* its res: None is nil
    read,       \* bytesRead of its current progressReader
    tick,       \* where that reader's tick goroutine is
    snap,       \* the bytesRead tick loaded for the event it is sending
    ch,         \* progressCh
    closed,     \* close(progressCh) was called
    view        \* what the reader of ch knows of each service

callVars    == <<calls, call, queue, valid, results>>
uploadVars  == <<pc, attempt, res>>
readerVars  == <<read, tick, snap>>
channelVars == <<ch, closed, view>>
vars == <<mode, cancelled, callVars, uploadVars, readerVars, channelVars>>

settings == RetrySettings(MaxRetries, RetryDelay)
Attempts == TotalAttempts(settings.maxRetries)
Delay    == BaseDelay(settings.delaySeconds)

CallStates   == {"idle", "validate", "loop", "run", "wait", "returned"}
UploadStates == {"idle", "starting", "check", "open", "track", "transfer",
                 "close", "decide", "retry", "sleep", "finish", "collect"}
TickStates   == {"off", "select", "emit", "final", "stopped"}
EventStates  == {"starting", "uploading", "retry", "done", "error"}

Progress == [service : Service, state : EventStates, bytes : 0..FileSize, attempt : Nat]
Result   == [err : Failure \cup {None, Aborted}, after : Nat]
View     == [state : EventStates \cup {"none"}, bytes : 0..FileSize, failed : Nat]

\* nil is no result.
ASSUME NilAssumption == None \notin Result

TypeOK ==
    /\ mode \in {"parallel", "sequential"}
    /\ cancelled \in BOOLEAN /\ closed \in BOOLEAN
    /\ calls \in 0..MaxCalls
    /\ call \in CallStates
    /\ queue \in Seq(Service) /\ valid \in Seq(Service)
    /\ results \in Seq([service : Service, err : Failure \cup {None, Aborted}, after : Nat])
    /\ pc \in [Service -> UploadStates]
    /\ attempt \in [Service -> Nat]
    /\ res \in [Service -> Result \cup {None}]
    /\ read \in [Service -> 0..FileSize]
    /\ tick \in [Service -> TickStates]
    /\ snap \in [Service -> 0..FileSize]
    /\ ch \in Seq(Progress)
    /\ view \in [Service -> View]

Init ==
    /\ mode \in {"parallel", "sequential"}
    /\ cancelled = FALSE
    /\ calls = 0 /\ call = "idle"
    /\ queue = <<>> /\ valid = <<>> /\ results = <<>>
    /\ pc = [s \in Service |-> "idle"]
    /\ attempt = [s \in Service |-> 0]
    /\ res = [s \in Service |-> None]
    /\ read = [s \in Service |-> 0]
    /\ tick = [s \in Service |-> "off"]
    /\ snap = [s \in Service |-> 0]
    /\ ch = <<>> /\ closed = FALSE
    /\ view = [s \in Service |-> [state |-> "none", bytes |-> 0, failed |-> 0]]

-----------------------------------------------------------------------------
(* The channel.  A sender waits while it is full.                          *)

Send(s, state, bytes, att) ==
    /\ Len(ch) < Capacity
    /\ ch' = Append(ch, [service |-> s, state |-> state, bytes |-> bytes, attempt |-> att])
    /\ UNCHANGED <<closed, view>>

\* The reader takes the next event.
Receive ==
    /\ ch # <<>>
    /\ LET p == Head(ch) IN
       view' = [view EXCEPT ![p.service] =
                   [state  |-> p.state,
                    bytes  |-> IF p.state \in {"done", "error"} THEN @.bytes ELSE p.bytes,
                    failed |-> IF p.state = "starting" THEN 0
                               ELSE IF p.state = "retry" THEN p.attempt ELSE @.failed]]
    /\ ch' = Tail(ch)
    /\ UNCHANGED <<mode, cancelled, callVars, uploadVars, readerVars, closed>>

\* Ctrl+C or SIGTERM.
Cancel ==
    /\ ~cancelled
    /\ cancelled' = TRUE
    /\ UNCHANGED <<mode, callVars, uploadVars, readerVars, channelVars>>

-----------------------------------------------------------------------------
(* UploadFile and the caller.                                              *)

\* The caller's next file.  A file that cannot be opened, or a selection the
\* registry knows nothing of, is an error at once.
CallUploadFile ==
    /\ call = "idle" /\ calls < MaxCalls
    /\ calls' = calls + 1
    /\ results' = <<>> /\ valid' = <<>>
    /\ \/ call' = "idle" /\ queue' = <<>>
       \/ /\ \E i \in 1..Len(Selected) : Selected[i] \in Registered
          /\ call' = "validate" /\ queue' = Selected
    /\ UNCHANGED <<mode, cancelled, uploadVars, readerVars, channelVars>>

\* Mutant: the first service without credentials ends the loop.
ValidateCredentials_Break ==
    /\ call = "validate" /\ queue # <<>>
    /\ LET s == Head(queue) IN
       \/ s \notin Registered /\ queue' = Tail(queue) /\ UNCHANGED <<valid, channelVars>>
       \/ /\ s \in Registered \cap HasCredentials
          /\ queue' = Tail(queue) /\ valid' = Append(valid, s)
          /\ UNCHANGED channelVars
       \/ /\ s \in Registered \ HasCredentials
          /\ queue' = <<>> /\ Send(s, "error", 0, 0)
          /\ UNCHANGED valid
    /\ UNCHANGED <<mode, cancelled, calls, call, results, uploadVars, readerVars>>

\* One turn of the credential loop; resolveServices had dropped the names
\* nobody registered.
ValidateCredentials ==
    /\ call = "validate" /\ queue # <<>>
    /\ queue' = Tail(queue)
    /\ LET s == Head(queue) IN
       \/ s \notin Registered /\ UNCHANGED <<valid, channelVars>>
       \/ /\ s \in Registered \cap HasCredentials
          /\ valid' = Append(valid, s)
          /\ UNCHANGED channelVars
       \/ /\ s \in Registered \ HasCredentials
          /\ Send(s, "error", 0, 0)
          /\ UNCHANGED valid
    /\ UNCHANGED <<mode, cancelled, calls, call, results, uploadVars, readerVars>>

\* uploadParallel starts a goroutine for each service.
uploadParallel ==
    /\ call = "validate" /\ queue = <<>> /\ mode = "parallel"
    /\ call' = "wait"
    /\ pc' = [s \in Service |-> IF \E i \in 1..Len(valid) : valid[i] = s
                                THEN "starting" ELSE pc[s]]
    /\ UNCHANGED <<mode, cancelled, calls, queue, valid, results, attempt, res,
                   readerVars, channelVars>>

uploadSequential ==
    /\ call = "validate" /\ queue = <<>> /\ mode = "sequential"
    /\ call' = "loop" /\ queue' = valid
    /\ UNCHANGED <<mode, cancelled, calls, valid, results, uploadVars, readerVars, channelVars>>

\* One turn of uploadSequential's loop, which ends when cancelled.
NextService ==
    /\ call = "loop"
    /\ IF queue = <<>> \/ cancelled
       THEN /\ call' = "returned" /\ queue' = <<>>
            /\ UNCHANGED pc
       ELSE /\ call' = "run" /\ queue' = Tail(queue)
            /\ pc' = [pc EXCEPT ![Head(queue)] = "starting"]
    /\ UNCHANGED <<mode, cancelled, calls, valid, results, attempt, res,
                   readerVars, channelVars>>

\* wg.Wait() of uploadParallel.
ParallelWait ==
    /\ call = "wait"
    /\ \A i \in 1..Len(valid) : pc[valid[i]] = "idle"
    /\ call' = "returned"
    /\ UNCHANGED <<mode, cancelled, calls, queue, valid, results, uploadVars,
                   readerVars, channelVars>>

\* UploadFile returns its MultiResult; what the caller does with it is its own.
ReturnResult ==
    /\ call = "returned"
    /\ call' = "idle"
    /\ UNCHANGED <<mode, cancelled, calls, queue, valid, results, uploadVars,
                   readerVars, channelVars>>

\* The caller has no more files.
CloseChannel ==
    /\ call = "idle" /\ calls = MaxCalls /\ ~closed
    /\ closed' = TRUE
    /\ UNCHANGED <<mode, cancelled, callVars, uploadVars, readerVars, ch, view>>

-----------------------------------------------------------------------------
(* doUpload, the goroutine of one service (of UploadFile itself when       *)
(* sequential).                                                            *)

Goto(s, where) == pc' = [pc EXCEPT ![s] = where]

SendStarting(s) ==
    /\ pc[s] = "starting"
    /\ Send(s, "starting", 0, 0)
    /\ Goto(s, "check")
    /\ attempt' = [attempt EXCEPT ![s] = 1]
    /\ UNCHANGED <<mode, cancelled, callVars, res, readerVars>>

\* The head of the retry loop.  Out of attempts or cancelled, it ends with what
\* res holds, or with the "aborted" result if no attempt was made.
BeginAttempt(s) ==
    /\ pc[s] = "check"
    /\ attempt[s] <= Attempts /\ ~cancelled
    /\ Goto(s, "open")
    /\ UNCHANGED <<mode, cancelled, callVars, attempt, res, readerVars, channelVars>>

EndLoop(s) ==
    /\ pc[s] = "check"
    /\ attempt[s] > Attempts \/ cancelled
    /\ Goto(s, "finish")
    /\ res' = [res EXCEPT ![s] = IF @ = None THEN [err |-> Aborted, after |-> 0] ELSE @]
    /\ UNCHANGED <<mode, cancelled, callVars, attempt, readerVars, channelVars>>

\* A failure that can happen now: context.Canceled needs a cancelled context.
Possible(e) == e.canceled => cancelled

\* attemptUpload opens the file again, which may fail: no reader then.
OpenFile(s) ==
    /\ pc[s] = "open"
    /\ \/ Goto(s, "track") /\ UNCHANGED res
       \/ \E e \in Failure :
              /\ Possible(e)
              /\ res' = [res EXCEPT ![s] = [err |-> e, after |-> 0]]
              /\ Goto(s, "decide")
    /\ UNCHANGED <<mode, cancelled, callVars, attempt, readerVars, channelVars>>

\* newProgressReader: a first event, a counter at 0 (CloseReader left it there)
\* and the ticker.
newProgressReader(s) ==
    /\ pc[s] = "track"
    /\ Send(s, "uploading", 0, 0)
    /\ tick' = [tick EXCEPT ![s] = "select"]
    /\ Goto(s, "transfer")
    /\ UNCHANGED <<mode, cancelled, callVars, attempt, res, read, snap>>

\* Mutant: the body may go on past the size the file had.
Read_PastTheEnd(s) ==
    /\ pc[s] \in {"transfer", "close"}
    /\ read[s] <= FileSize
    /\ read' = [read EXCEPT ![s] = @ + 1]
    /\ UNCHANGED <<mode, cancelled, callVars, uploadVars, tick, snap, channelVars>>

\* The service's request body takes the next chunk.  It may still do so when
\* Upload has returned: the server can answer before it has read everything.
Read(s) ==
    /\ pc[s] \in {"transfer", "close"}
    /\ read[s] < FileSize
    /\ read' = [read EXCEPT ![s] = @ + 1]
    /\ UNCHANGED <<mode, cancelled, callVars, uploadVars, tick, snap, channelVars>>

\* svc.Upload returns, and pr.Close() closes pr.done.  The services are opaque
\* here: one may answer at any point of the transfer.
UploadReturns(s) ==
    /\ pc[s] = "transfer"
    /\ \/ res' = [res EXCEPT ![s] = [err |-> None, after |-> 0]]
       \/ \E e \in Failure :
              /\ Possible(e)
              /\ res' = [res EXCEPT ![s] = [err |-> e, after |-> 0]]
    /\ Goto(s, "close")
    /\ UNCHANGED <<mode, cancelled, callVars, attempt, readerVars, channelVars>>

\* Mutant: Close does not wait for the ticker.
CloseReader_NoWait(s) ==
    /\ pc[s] = "close"
    /\ Goto(s, "decide")
    /\ UNCHANGED <<mode, cancelled, callVars, attempt, res, readerVars, channelVars>>

\* The rest of Close: <-pr.stopped.  The reader is dropped.
CloseReader(s) ==
    /\ pc[s] = "close" /\ tick[s] = "stopped"
    /\ tick' = [tick EXCEPT ![s] = "off"]
    /\ read' = [read EXCEPT ![s] = 0]
    /\ Goto(s, "decide")
    /\ UNCHANGED <<mode, cancelled, callVars, attempt, res, snap, channelVars>>

\* Mutant: permanent failures are retried too.
GiveUp_RetryAll(s) == attempt[s] >= Attempts \/ cancelled

GiveUp(s) == \/ attempt[s] >= Attempts
             \/ cancelled
             \/ ~isRetryableError(res[s].err)

\* The attempt is over: success, a failure that is final, or a retry.
Decide(s) ==
    /\ pc[s] = "decide"
    /\ \/ /\ res[s].err = None
          /\ Goto(s, "finish") /\ UNCHANGED res
       \/ /\ res[s].err # None /\ GiveUp(s)
          /\ res' = [res EXCEPT ![s].after = IF attempt[s] > 1 THEN attempt[s] ELSE 0]
          /\ Goto(s, "finish")
       \/ /\ res[s].err # None /\ ~GiveUp(s)
          /\ Goto(s, "retry") /\ UNCHANGED res
    /\ UNCHANGED <<mode, cancelled, callVars, attempt, readerVars, channelVars>>

SendRetry(s) ==
    /\ pc[s] = "retry"
    /\ Send(s, "retry", 0, attempt[s])
    /\ Goto(s, "sleep")
    /\ UNCHANGED <<mode, cancelled, callVars, attempt, res, readerVars>>

\* Mutant: attempt is not counted.
BackoffElapsed_NoCount(s) ==
    /\ pc[s] = "sleep"
    /\ Delay <= 0 => ~cancelled
    /\ Goto(s, "check")
    /\ UNCHANGED <<mode, cancelled, callVars, attempt, res, readerVars, channelVars>>

\* sleepContext returns true: the timer fired (it may win against a cancelled
\* context), or there was nothing to wait for and the context is alive.
BackoffElapsed(s) ==
    /\ pc[s] = "sleep"
    /\ Delay <= 0 => ~cancelled
    /\ attempt' = [attempt EXCEPT ![s] = @ + 1]
    /\ Goto(s, "check")
    /\ UNCHANGED <<mode, cancelled, callVars, res, readerVars, channelVars>>

\* sleepContext returns false; res keeps the last failure.
BackoffCancelled(s) ==
    /\ pc[s] = "sleep" /\ cancelled
    /\ Goto(s, "finish")
    /\ UNCHANGED <<mode, cancelled, callVars, attempt, res, readerVars, channelVars>>

\* Mutant: the terminal event is decided by the number of attempts.
SendTerminal_ByAttempts(s) ==
    /\ pc[s] = "finish"
    /\ Send(s, IF attempt[s] < Attempts THEN "done" ELSE "error", 0, 0)
    /\ Goto(s, "collect")
    /\ UNCHANGED <<mode, cancelled, callVars, attempt, res, readerVars>>

\* The terminal event (it carries no counts: the display keeps its own).
SendTerminal(s) ==
    /\ pc[s] = "finish"
    /\ Send(s, IF res[s].err = None THEN "done" ELSE "error", 0, 0)
    /\ Goto(s, "collect")
    /\ UNCHANGED <<mode, cancelled, callVars, attempt, res, readerVars>>

\* doUpload returned: its result is appended, under mu when parallel.  Its
\* locals are gone.
Collect(s) ==
    /\ pc[s] = "collect"
    /\ results' = Append(results, [service |-> s, err |-> res[s].err, after |-> res[s].after])
    /\ call' = IF call = "run" THEN "loop" ELSE call
    /\ attempt' = [attempt EXCEPT ![s] = 0]
    /\ res' = [res EXCEPT ![s] = None]
    /\ Goto(s, "idle")
    /\ UNCHANGED <<mode, cancelled, calls, queue, valid, readerVars, channelVars>>

-----------------------------------------------------------------------------
(* tick, the goroutine of one progressReader.                              *)

\* A tick: emitProgress loads the counter.  Nothing is sent once a file that is
\* not empty has been read to its end.
Tick(s) ==
    /\ tick[s] = "select"
    /\ FileSize = 0 \/ read[s] < FileSize
    /\ tick' = [tick EXCEPT ![s] = "emit"]
    /\ snap' = [snap EXCEPT ![s] = read[s]]
    /\ UNCHANGED <<mode, cancelled, callVars, uploadVars, read, channelVars>>

\* <-pr.done: the final event is loaded, whatever was read.
TickDone(s) ==
    /\ tick[s] = "select" /\ pc[s] = "close"
    /\ tick' = [tick EXCEPT ![s] = "final"]
    /\ snap' = [snap EXCEPT ![s] = read[s]]
    /\ UNCHANGED <<mode, cancelled, callVars, uploadVars, read, channelVars>>

\* The event is sent; after the final one the goroutine ends.
TickSend(s) ==
    /\ tick[s] \in {"emit", "final"}
    /\ Send(s, "uploading", snap[s], 0)
    /\ tick' = [tick EXCEPT ![s] = IF @ = "final" THEN "stopped" ELSE "select"]
    /\ snap' = [snap EXCEPT ![s] = 0]
    /\ UNCHANGED <<mode, cancelled, callVars, uploadVars, read>>

-----------------------------------------------------------------------------

\* Nothing is left to do.
Finished ==
    /\ closed /\ ch = <<>>
    /\ UNCHANGED vars

\* What each goroutine does: UploadFile and its caller, the doUpload of a
\* service with the body it hands to its service, and a ticker.
UploadFileGoes == ValidateCredentials \/ uploadParallel \/ uploadSequential
                  \/ NextService \/ ParallelWait
CallerGoes     == CallUploadFile \/ ReturnResult \/ CloseChannel

doUploadGoes(s) == \/ SendStarting(s) \/ BeginAttempt(s) \/ EndLoop(s) \/ OpenFile(s)
                   \/ newProgressReader(s) \/ UploadReturns(s) \/ CloseReader(s)
                   \/ Decide(s) \/ SendRetry(s) \/ BackoffElapsed(s) \/ BackoffCancelled(s)
                   \/ SendTerminal(s) \/ Collect(s)

Ticking(s) == Tick(s) \/ TickDone(s) \/ TickSend(s)

Next ==
    \/ Receive \/ Cancel
    \/ CallerGoes \/ UploadFileGoes
    \/ \E s \in Service : doUploadGoes(s) \/ Read(s) \/ Ticking(s)
    \/ Finished

-----------------------------------------------------------------------------
(* Fairness.  Every goroutine that can go on does (WF).  That Upload       *)
(* returns is owed to the 5 minutes of httpclient; interim's transfers     *)
(* drop them, and there it is assumed of the storage (see Interim,         *)
(* OnlyTransfersStall).  Weak fairness of a send is less than Go gives,    *)
(* which queues the senders of a full channel.  When pr.done and the       *)
(* ticker are both ready, select picks one at random: done is not passed   *)
(* over for ever (SF).  Ctrl+C, the next chunk of a body and a tick need   *)
(* not come.                                                               *)

Fairness ==
    /\ WF_vars(Receive)
    /\ WF_vars(UploadFileGoes \/ CallerGoes)
    /\ \A s \in Service : /\ WF_vars(doUploadGoes(s))
                          /\ WF_vars(TickSend(s))
                          /\ SF_vars(TickDone(s))

Spec == Init /\ [][Next]_vars /\ Fairness

-----------------------------------------------------------------------------
(* Properties.                                                             *)

\* A send on the closed progressCh would panic: once it is closed (main.go does
\* so when the last UploadFile has returned) no goroutine of the package may
\* still have an event to send.  It takes wg.Wait and the handshake of
\* progressReader.Close.
NoSendAfterClose ==
    closed => /\ call = "idle"
              /\ \A s \in Service : pc[s] = "idle" /\ tick[s] = "off"

\* The last thing said about s, sent or still in the channel.
LastState(s) ==
    LET sent == {i \in 1..Len(ch) : ch[i].service = s}
    IN  IF sent = {} THEN view[s].state
        ELSE ch[CHOOSE i \in sent : \A j \in sent : j <= i].state

\* Results and progress agree: a service whose result is in has sent its
\* terminal event, nothing after it, and "done" exactly if it succeeded.
ResultsMatchEvents ==
    \A i \in 1..Len(results) :
        LastState(results[i].service) = IF results[i].err = None THEN "done" ELSE "error"

\* The places of the selection whose service is uploaded to: the registry knows
\* it and its credentials are set.
Due == {k \in 1..Len(Selected) : Selected[k] \in Registered \cap HasCredentials}

\* Every selected service with credentials, and no other, has exactly one result
\* when UploadFile returns, whichever services were skipped before it: all of them
\* at least when not cancelled or parallel, in the order of the selection when
\* sequential, where a cancellation cuts off the last ones (uploader.go:83).
EveryServiceAnswers ==
    call = "returned" =>
        LET Answers(i, k) == results[i].service = Selected[k]
            answered == {k \in Due : \E i \in 1..Len(results) : Answers(i, k)}
        IN  /\ \A i \in 1..Len(results) : \E k \in Due : Answers(i, k)
            /\ \A i, j \in 1..Len(results) : results[i].service = results[j].service => i = j
            /\ mode = "parallel" \/ ~cancelled => answered = Due
            /\ mode = "sequential" =>
                  /\ \A i, j \in 1..Len(results), k, l \in Due :
                        i < j /\ Answers(i, k) /\ Answers(j, l) => k < l
                  /\ \A k, l \in Due : k < l /\ l \in answered => k \in answered

\* s waits for another attempt or makes one, after it has made one already.
Retrying(s) == \/ pc[s] \in {"retry", "sleep"}
               \/ pc[s] \in {"check", "open", "track", "transfer"} /\ attempt[s] > 1

\* Retries are neither left out nor wasted: unless cancelled, a transient failure
\* is reported only when all attempts are used up, and says how many; and another
\* attempt is announced, waited for or made only after one that failed, with a
\* transient failure - a success or a permanent failure costs no attempt more.
TransientFailuresUseAllAttempts ==
    /\ \A i \in 1..Len(results) :
          LET r == results[i]
          IN  ~cancelled => /\ r.err # Aborted
                            /\ r.err # None /\ isRetryableError(r.err)
                                   => r.after = IF Attempts > 1 THEN Attempts ELSE 0
    /\ \A s \in Service : Retrying(s) =>
          res[s] # None /\ res[s].err # None /\ isRetryableError(res[s].err)

\* The package keeps its promise to the reader of progressCh, with the liveness
\* of it: whatever starts ends.
Stream == INSTANCE ProgressStream WITH
    Service <- Service, HasCredentials <- HasCredentials, FileSize <- FileSize,
    Attempts <- Attempts, view <- view

StreamsArePromised == Stream!Spec

\* UploadFile always returns: no service waits for ever on the channel, on its
\* ticker or on a retry, and the reader gets everything that was sent.
UploadsEnd == <>(closed /\ ch = <<>>)

\* doUpload on a cancellation "before the first attempt or during a backoff wait"
\* (the comment where res is nil): a service cancelled while it sleeps is
\* reported aborted.
CancelledInBackoffIsAborted ==
    [][\A s \in Service :
          BackoffCancelled(s) => (res[s].err = Aborted)']_vars

=============================================================================
