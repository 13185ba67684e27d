------------------------ MODULE UploaderStreamProofs ------------------------
(***************************************************************************)
(* More proofs about Uploader: the results of a call and the events on     *)
(* progressCh, for any services, settings, channel capacity and number of  *)
(* calls.  Every service answers once, no retry is left out, results and   *)
(* events agree, and each step is a step of ProgressStream or none.        *)
(***************************************************************************)
EXTENDS UploaderProofs, SequenceTheorems

-----------------------------------------------------------------------------
(* The results of a call.                                                  *)

\* The services of a call are different ones, registered and with credentials;
\* while they are being validated, none of those to come is among them.
ValidServices ==
    /\ \A i, j \in 1..Len(valid) : valid[i] = valid[j] => i = j
    /\ \A i \in 1..Len(valid) : valid[i] \in HasCredentials
    /\ call = "validate" =>
          /\ results = <<>>
          /\ \A i, j \in 1..Len(queue) : queue[i] = queue[j] => i = j
          /\ \A i \in 1..Len(valid), j \in 1..Len(queue) : valid[i] # queue[j]

\* Nothing is uploaded to without credentials.
UploadsHaveCredentials == \A s \in Service : Running(s) => s \in HasCredentials

ModeDecides ==
    /\ call \in {"loop", "run"} => mode = "sequential"
    /\ call = "wait" => mode = "parallel"

\* Sequential: the results are those of the first services, the queue holds the
\* others, but for the one that runs.
InSequence ==
    mode = "sequential" /\ call \in {"loop", "run", "returned"} =>
        /\ Len(results) <= Len(valid)
        /\ \A i \in 1..Len(results) : results[i].service = valid[i]
        /\ call = "loop" =>
              /\ Len(queue) = Len(valid) - Len(results)
              /\ \A i \in 1..Len(queue) : queue[i] = valid[Len(results) + i]
        /\ call = "run" =>
              /\ Len(queue) = Len(valid) - Len(results) - 1
              /\ \A i \in 1..Len(queue) : queue[i] = valid[Len(results) + 1 + i]
              /\ \A s \in Service : Running(s) => s = valid[Len(results) + 1]
        /\ call = "returned" => Len(results) = Len(valid) \/ cancelled

\* Parallel: a service has its one result when it no longer runs.
InParallel ==
    mode = "parallel" /\ call \in {"wait", "returned"} =>
        /\ \A i, j \in 1..Len(results) : results[i].service = results[j].service => i = j
        /\ \A j \in 1..Len(results) : \E i \in 1..Len(valid) : results[j].service = valid[i]
        /\ \A i \in 1..Len(valid) :
              ~Running(valid[i]) => \E j \in 1..Len(results) : results[j].service = valid[i]

\* What has a result does not run.
ResultsAreOver == \A i \in 1..Len(results) : ~Running(results[i].service)

\* Places of the selection the credential loop is past.
Past == IF call = "validate" THEN Len(Selected) - Len(queue) ELSE Len(Selected)

\* The services of a call are the due ones of the selection the loop is past, in
\* their order; while it runs, the rest of the selection is still to come.
ValidIsDue ==
    /\ \A i \in 1..Len(valid) : \E k \in Due : k <= Past /\ valid[i] = Selected[k]
    /\ \A i, j \in 1..Len(valid), k, l \in Due :
          i < j /\ valid[i] = Selected[k] /\ valid[j] = Selected[l] => k < l
    /\ call # "idle" => \A k \in Due : k <= Past => \E i \in 1..Len(valid) : valid[i] = Selected[k]
    /\ call = "validate" => /\ Len(queue) <= Len(Selected)
                            /\ \A i \in 1..Len(queue) : queue[i] = Selected[Past + i]

AnswersInv == /\ ValidServices /\ UploadsHaveCredentials /\ ModeDecides
              /\ InSequence /\ InParallel /\ ResultsAreOver

-----------------------------------------------------------------------------
(* The attempts.                                                           *)

\* A retry follows only a transient failure, and the loop goes on only with attempts left.
AttemptsAreLeft ==
    \A s \in Service :
        /\ pc[s] \in {"open", "track", "transfer", "close", "decide"} => attempt[s] <= Attempts
        /\ pc[s] \in {"retry", "sleep"} => attempt[s] < Attempts
        /\ pc[s] = "check" => attempt[s] = 1 \/ attempt[s] <= Attempts
        /\ pc[s] \in {"check", "open", "track", "transfer", "close", "decide", "retry", "sleep"}
              => attempt[s] >= 1
        /\ pc[s] \in {"idle", "starting"} => res[s] = None
        /\ pc[s] \in {"check", "retry", "sleep"} /\ res[s] # None => res[s].err # None
        /\ Retrying(s) => res[s] # None /\ res[s].err # None /\ isRetryableError(res[s].err)

\* The result of an upload nobody cancelled: not aborted, and a transient failure
\* only when the last attempt had it.
Exhausted(r) ==
    /\ r.err # Aborted
    /\ r.err # None /\ isRetryableError(r.err) => r.after = IF Attempts > 1 THEN Attempts ELSE 0

EndsAreExhausted ==
    ~cancelled =>
        /\ \A s \in Service : pc[s] \in {"finish", "collect"} => Exhausted(res[s])
        /\ \A s \in Service : pc[s] \notin {"finish", "collect"} /\ res[s] # None
                                  => res[s].err # Aborted
        /\ \A i \in 1..Len(results) : Exhausted(results[i])

-----------------------------------------------------------------------------
(* The events.                                                             *)

\* What the reader knows of a service once it has taken event p, having known v.
Shown(v, p) ==
    [state  |-> p.state,
     bytes  |-> IF p.state \in {"done", "error"} THEN v.bytes ELSE p.bytes,
     failed |-> IF p.state = "starting" THEN 0
                ELSE IF p.state = "retry" THEN p.attempt ELSE v.failed]

\* A step of ProgressStream for s, from v to w.
Promised(s, v, w) ==
    \/ s \notin HasCredentials /\ w = [state |-> "error", bytes |-> 0, failed |-> 0]
    \/ /\ s \in HasCredentials /\ v.state \in Stream!Quiet
       /\ w = [state |-> "starting", bytes |-> 0, failed |-> 0]
    \/ /\ v.state \in {"starting", "retry"}
       /\ w = [state |-> "uploading", bytes |-> 0, failed |-> v.failed]
    \/ /\ v.state = "uploading"
       /\ \E b \in v.bytes..FileSize : w = [v EXCEPT !.bytes = b]
    \/ /\ v.state \in Stream!Active /\ v.failed + 1 < Attempts
       /\ w = [state |-> "retry", bytes |-> 0, failed |-> v.failed + 1]
    \/ v.state = "uploading" /\ w = [v EXCEPT !.state = "done"]
    \/ v.state \in Stream!Active /\ w = [v EXCEPT !.state = "error"]

\* Event p takes the reader from knowing k to knowing l, as promised.
Leads(k, p, l) ==
    LET s == p.service
    IN  l = [k EXCEPT ![s] = Shown(k[s], p)] /\ Promised(s, k[s], Shown(k[s], p))

\* T[n] is what the reader, knowing v, knows after the first n events of c.
Trace(c, v, T) ==
    /\ T \in [0..Len(c) -> [Service -> View]]
    /\ T[0] = v
    /\ \A n \in 1..Len(c) : Leads(T[n - 1], c[n], T[n])

\* The places of the events of s.
Sent(c, s) == {i \in 1..Len(c) : c[i].service = s}

\* LastState(s) = x: it says which event is the last one.
LastIs(c, v, s, x) ==
    \/ Sent(c, s) = {} /\ x = v[s].state
    \/ \E i \in Sent(c, s) : (\A j \in Sent(c, s) : j <= i) /\ x = c[i].state

\* The reader, knowing v, will know k once it has taken every event of c.
Coming(c, v, k) ==
    /\ \E T : Trace(c, v, T) /\ T[Len(c)] = k
    /\ \A s \in Service : LastIs(c, v, s, k[s].state)

\* Where doUpload and its ticker are when they have sent everything up to v.
Stands(s, v) ==
    /\ s \notin HasCredentials => v.bytes = 0 /\ v.failed = 0
    /\ pc[s] \in {"idle", "starting"} => v.state \in Stream!Quiet
    /\ pc[s] \in {"check", "open", "track"} => v.state \in {"starting", "retry"}
    /\ pc[s] \in {"transfer", "close"} => v.state = "uploading" /\ v.bytes <= read[s]
    /\ tick[s] \in {"emit", "final"} => v.bytes <= snap[s] /\ snap[s] <= read[s]
    /\ pc[s] \in {"decide", "retry", "finish"} => v.state \in Stream!Active
    /\ pc[s] \in {"decide", "finish"} /\ res[s].err = None => v.state = "uploading"
    /\ pc[s] \in {"check", "open", "track", "transfer", "close", "decide", "retry"}
          => v.failed + 1 = attempt[s]
    /\ pc[s] = "sleep" => v.state = "retry" /\ v.failed = attempt[s]
    /\ pc[s] = "collect" => v.state = IF res[s].err = None THEN "done" ELSE "error"

\* The results say what the last events say.
Agrees(k) ==
    \A i \in 1..Len(results) :
        k[results[i].service].state = IF results[i].err = None THEN "done" ELSE "error"

StreamInv ==
    \E k \in [Service -> View] : /\ Coming(ch, view, k) /\ Agrees(k)
                                 /\ \A s \in Service : Stands(s, k[s])

-----------------------------------------------------------------------------

\* A step of doUpload other than its last moves its own goroutine, and nothing
\* that UploadFile keeps.
LEMMA UploadMoves ==
    ASSUME TypeOK, NEW s \in Service, doUploadGoes(s), ~Collect(s)
    PROVE  /\ UNCHANGED <<mode, cancelled, calls, call, queue, valid, results>>
           /\ pc[s] # "idle" /\ pc'[s] # "idle"
           /\ \A t \in Service \ {s} : pc'[t] = pc[t]
  <1> USE DEF callVars, Goto
  <1>1. CASE SendStarting(s) \/ BeginAttempt(s) \/ EndLoop(s) \/ OpenFile(s)
    BY <1>1 DEF SendStarting, BeginAttempt, EndLoop, OpenFile, TypeOK
  <1>2. CASE newProgressReader(s) \/ UploadReturns(s) \/ CloseReader(s)
    BY <1>2 DEF newProgressReader, UploadReturns, CloseReader, TypeOK
  <1>3. CASE Decide(s) \/ SendRetry(s) \/ BackoffElapsed(s) \/ BackoffCancelled(s)
             \/ SendTerminal(s)
    BY <1>3 DEF Decide, SendRetry, BackoffElapsed, BackoffCancelled, SendTerminal, TypeOK
  <1> QED
    BY <1>1, <1>2, <1>3 DEF doUploadGoes

\* A result names its service.
LEMMA ResultsAreTyped ==
    ASSUME TypeOK
    PROVE  /\ results \in Seq(ResultRec)
           /\ \A i \in 1..Len(results) : results[i] \in ResultRec /\ results[i].service \in Service
  <1>1. results \in Seq(ResultRec)
    BY DEF TypeOK, ResultRec
  <1>2. \A i \in 1..Len(results) : results[i] \in ResultRec
    BY <1>1, ElementOfSeq
  <1> QED
    BY <1>1, <1>2 DEF ResultRec

\* Nothing that a call keeps changes, and no upload begins or ends.
LEMMA AnswersFrame ==
    ASSUME AnswersInv, UNCHANGED <<mode, call, queue, valid, results>>, cancelled => cancelled',
           \A t \in Service : (pc'[t] # "idle") = (pc[t] # "idle"),
           TypeOK
    PROVE  AnswersInv'
  <1> USE DEF AnswersInv, Running
  <1>1. ValidServices' /\ UploadsHaveCredentials' /\ ModeDecides'
    BY DEF ValidServices, UploadsHaveCredentials, ModeDecides
  <1>2. InSequence'
    BY DEF InSequence
  <1>3. \A i \in 1..Len(valid) : valid[i] \in Service
    BY DEF TypeOK
  <1>4. InParallel'
    <2> SUFFICES ASSUME mode = "parallel", call \in {"wait", "returned"} PROVE InParallel'
      BY DEF InParallel
    <2>1. \A i \in 1..Len(valid) :
             pc'[valid[i]] = "idle" => \E j \in 1..Len(results) : results[j].service = valid[i]
      BY <1>3 DEF InParallel
    <2>2. /\ \A i, j \in 1..Len(results) : results[i].service = results[j].service => i = j
          /\ \A j \in 1..Len(results) : \E i \in 1..Len(valid) : results[j].service = valid[i]
      BY DEF InParallel
    <2> QED
      BY <2>1, <2>2, Zenon DEF InParallel, Running
  <1>5. \A i \in 1..Len(results) : results[i].service \in Service
    BY ResultsAreTyped
  <1>6. ResultsAreOver'
    BY <1>5 DEF ResultsAreOver
  <1> QED
    BY <1>1, <1>2, <1>4, <1>6

\* The initial state.
LEMMA InitAnswers == Init => AnswersInv
  BY DEF Init, AnswersInv, ValidServices, UploadsHaveCredentials, ModeDecides, InSequence,
         InParallel, ResultsAreOver, Running

\* Every step keeps the books of a call.
LEMMA AnswersStep == IndInv /\ AnswersInv /\ [Next]_vars => AnswersInv'
  <1> SUFFICES ASSUME IndInv, AnswersInv, [Next]_vars PROVE AnswersInv'
    OBVIOUS
  <1> USE ConstantFacts DEF vars, callVars, uploadVars, readerVars, channelVars
  <1>0. /\ TypeOK /\ UploadsAreInside
        /\ ValidServices /\ UploadsHaveCredentials /\ ModeDecides
        /\ InSequence /\ InParallel /\ ResultsAreOver
    BY DEF IndInv, AnswersInv
  <1>s. /\ valid \in Seq(Service) /\ queue \in Seq(Service) /\ results \in Seq(ResultRec)
        /\ mode \in {"parallel", "sequential"} /\ call \in CallStates
        /\ pc \in [Service -> UploadStates]
    BY <1>0 DEF TypeOK, ResultRec
  <1>1. CASE Receive \/ Cancel \/ Finished \/ CloseChannel \/ UNCHANGED vars
    BY <1>0, <1>1, AnswersFrame DEF Receive, Cancel, Finished, CloseChannel
  <1>2. ASSUME NEW s \in Service, Read(s) \/ Ticking(s) PROVE AnswersInv'
    BY <1>0, <1>2, AnswersFrame DEF Read, Ticking, Tick, TickDone, TickSend
  <1>3. ASSUME NEW s \in Service, doUploadGoes(s), ~Collect(s) PROVE AnswersInv'
    <2>1. \A t \in Service : (pc'[t] # "idle") = (pc[t] # "idle")
      BY <1>0, <1>3, UploadMoves
    <2> QED
      BY <1>0, <1>3, <2>1, UploadMoves, AnswersFrame
  <1>4. CASE CallUploadFile
    <2>1. \A s \in Service : ~Running(s)
      BY <1>0, <1>4 DEF CallUploadFile, UploadsAreInside
    <2>2. /\ pc' = pc /\ mode' = mode /\ results' = <<>> /\ valid' = <<>>
          /\ call' \in {"idle", "validate"} /\ (call' = "validate" => queue' = Selected)
      BY <1>4 DEF CallUploadFile
    <2>3. \A i, j \in 1..Len(Selected) : Selected[i] = Selected[j] => i = j
      BY UploaderAssumption
    <2> QED
      BY <1>0, <2>1, <2>2, <2>3
         DEF AnswersInv, ValidServices, UploadsHaveCredentials, ModeDecides, InSequence,
             InParallel, ResultsAreOver, Running
  <1>5. CASE ValidateCredentials
    <2>1. /\ call = "validate" /\ queue # <<>> /\ queue' = Tail(queue)
          /\ UNCHANGED <<mode, call, results, pc>>
          /\ \/ valid' = valid
             \/ Head(queue) \in HasCredentials /\ valid' = Append(valid, Head(queue))
      BY <1>5 DEF ValidateCredentials
    <2>2. /\ Len(queue') = Len(queue) - 1
          /\ \A i \in 1..Len(queue') : queue'[i] = queue[i + 1]
          /\ Head(queue) = queue[1] /\ Len(queue) \in Nat \ {0}
      BY <1>s, <2>1
    <2>3. ValidServices'
      <3>0. /\ \A i, j \in 1..Len(queue) : queue[i] = queue[j] => i = j
            /\ \A i \in 1..Len(valid), j \in 1..Len(queue) : valid[i] # queue[j]
            /\ \A i, j \in 1..Len(valid) : valid[i] = valid[j] => i = j
            /\ \A i \in 1..Len(valid) : valid[i] \in HasCredentials
            /\ results = <<>>
        BY <1>0, <2>1 DEF ValidServices
      <3>1. \A i, j \in 1..Len(queue') : queue'[i] = queue'[j] => i = j
        BY ONLY <2>2, <3>0
      <3>2. \A j \in 1..Len(queue') : queue'[j] # queue[1]
        BY ONLY <2>2, <3>0
      <3>5. \A i \in 1..Len(valid), j \in 1..Len(queue') : valid[i] # queue'[j]
        BY ONLY <2>2, <3>0
      <3>3. CASE valid' = valid
        BY <2>1, <3>0, <3>1, <3>3, <3>5 DEF ValidServices
      <3>4. CASE Head(queue) \in HasCredentials /\ valid' = Append(valid, Head(queue))
        <4>1. /\ Len(valid') = Len(valid) + 1 /\ Len(valid) \in Nat
              /\ \A i \in 1..Len(valid') :
                    valid'[i] = IF i <= Len(valid) THEN valid[i] ELSE queue[1]
          BY <1>s, <2>2, <3>4
        <4>2. \A i \in 1..Len(valid) : valid[i] # queue[1]
          BY ONLY <2>2, <3>0
        <4>3. \A i, j \in 1..Len(valid') : valid'[i] = valid'[j] => i = j
          BY ONLY <3>0, <4>1, <4>2
        <4>4. \A i \in 1..Len(valid') : valid'[i] \in HasCredentials
          <5>1. queue[1] \in HasCredentials
            BY <2>2, <3>4
          <5> QED
            BY ONLY <3>0, <4>1, <5>1
        <4>5. \A i \in 1..Len(valid'), j \in 1..Len(queue') : valid'[i] # queue'[j]
          BY ONLY <3>2, <3>5, <4>1
        <4> QED
          BY <2>1, <3>0, <3>1, <4>3, <4>4, <4>5 DEF ValidServices
      <3> QED
        BY <2>1, <3>3, <3>4
    <2> QED
      BY <1>0, <2>1, <2>3
         DEF AnswersInv, UploadsHaveCredentials, ModeDecides, InSequence, InParallel,
             ResultsAreOver, Running
  <1>6. CASE uploadParallel
    <2>1. /\ call = "validate" /\ mode = "parallel" /\ call' = "wait" /\ results = <<>>
          /\ UNCHANGED <<mode, valid, results>>
      BY <1>0, <1>6 DEF uploadParallel, ValidServices
    <2>2. \A i \in 1..Len(valid) : valid[i] \in Service /\ pc'[valid[i]] = "starting"
      BY <1>s, <1>6 DEF uploadParallel
    <2>3. \A s \in Service : pc'[s] # "idle" => \E i \in 1..Len(valid) : valid[i] = s
      BY <1>0, <1>s, <1>6, <2>1 DEF uploadParallel, UploadsAreInside, Running
    <2>4. UploadsHaveCredentials'
      BY <1>0, <2>3 DEF UploadsHaveCredentials, ValidServices, Running
    <2> QED
      BY <1>0, <2>1, <2>2, <2>4
         DEF AnswersInv, ValidServices, ModeDecides, InSequence, InParallel, ResultsAreOver, Running
  <1>7. CASE uploadSequential
    <2>1. /\ call = "validate" /\ mode = "sequential" /\ call' = "loop" /\ results = <<>>
          /\ queue' = valid /\ UNCHANGED <<mode, valid, results, pc>>
      BY <1>0, <1>7 DEF uploadSequential, ValidServices
    <2>2. Len(valid) \in Nat
      BY <1>s
    <2> QED
      BY <1>0, <2>1, <2>2
         DEF AnswersInv, ValidServices, UploadsHaveCredentials, ModeDecides, InSequence,
             InParallel, ResultsAreOver, Running
  <1>8. CASE NextService
    <2>1. /\ call = "loop" /\ mode = "sequential"
          /\ UNCHANGED <<mode, cancelled, valid, results>>
      BY <1>0, <1>8 DEF NextService, ModeDecides
    <2>2. /\ Len(results) <= Len(valid)
          /\ \A i \in 1..Len(results) : results[i].service = valid[i]
          /\ Len(queue) = Len(valid) - Len(results)
          /\ \A i \in 1..Len(queue) : queue[i] = valid[Len(results) + i]
      BY <1>0, <2>1 DEF InSequence
    <2>3. Len(valid) \in Nat /\ Len(results) \in Nat /\ Len(queue) \in Nat
      BY <1>s
    <2>4. \A s \in Service : ~Running(s)
      BY <1>0, <2>1 DEF UploadsAreInside
    <2>5. CASE queue = <<>> \/ cancelled
      <3>1. call' = "returned" /\ pc' = pc
        BY <1>8, <2>5 DEF NextService
      <3>2. Len(results) = Len(valid) \/ cancelled
        BY <2>2, <2>3, <2>5
      <3> QED
        BY <1>0, <2>1, <2>2, <3>1, <3>2
           DEF AnswersInv, ValidServices, UploadsHaveCredentials, ModeDecides, InSequence,
               InParallel, ResultsAreOver, Running
    <2>6. CASE ~(queue = <<>> \/ cancelled)
      <3>1. /\ call' = "run" /\ queue' = Tail(queue)
            /\ pc' = [pc EXCEPT ![Head(queue)] = "starting"]
        BY <1>8, <2>6 DEF NextService
      <3>2. /\ Len(queue') = Len(queue) - 1 /\ Len(queue) > 0
            /\ \A i \in 1..Len(queue') : queue'[i] = queue[i + 1]
            /\ Head(queue) = queue[1] /\ queue[1] \in Service
        BY <1>s, <2>6, <3>1
      <3>3. Head(queue) = valid[Len(results) + 1] /\ Len(results) + 1 \in 1..Len(valid)
        BY <2>2, <2>3, <3>2
      <3>4. \A s \in Service : Running(s)' <=> s = valid[Len(results) + 1]
        <4>1. Head(queue) \in Service
          BY <3>2
        <4>2. \A s \in Service : pc'[s] = IF s = Head(queue) THEN "starting" ELSE pc[s]
          BY <1>s, <3>1, <4>1
        <4>3. ASSUME NEW s \in Service PROVE Running(s)' <=> s = Head(queue)
          <5>1. pc[s] = "idle"
            BY <2>4 DEF Running
          <5> QED
            BY <4>2, <5>1 DEF Running
        <4> QED
          BY <3>3, <4>3
      <3>5. ASSUME NEW i \in 1..Len(queue') PROVE queue'[i] = valid[Len(results) + 1 + i]
        <4>1. queue'[i] = queue[i + 1] /\ i + 1 \in 1..Len(queue)
          BY <2>3, <3>2
        <4>2. queue[i + 1] = valid[Len(results) + (i + 1)]
          BY <2>2, <4>1
        <4>3. Len(results) + (i + 1) = Len(results) + 1 + i
          BY <2>3
        <4> QED
          BY <4>1, <4>2, <4>3
      <3>6. InSequence'
        BY <2>1, <2>2, <2>3, <3>1, <3>2, <3>4, <3>5 DEF InSequence
      <3>7. UploadsHaveCredentials' /\ ValidServices'
        BY <1>0, <2>1, <3>1, <3>3, <3>4 DEF UploadsHaveCredentials, ValidServices
      <3>8. ResultsAreOver'
        <4>1. \A i \in 1..Len(results) : /\ results[i].service \in Service
                                         /\ results[i].service # valid[Len(results) + 1]
          BY <1>0, <1>s, <2>2, <2>3, <3>3 DEF ValidServices, ResultRec
        <4> QED
          BY <2>1, <3>4, <4>1 DEF ResultsAreOver
      <3> QED
        BY <2>1, <3>1, <3>6, <3>7, <3>8 DEF AnswersInv, ModeDecides, InParallel
    <2> QED
      BY <2>5, <2>6
  <1>9. CASE ParallelWait
    <2>1. /\ call = "wait" /\ mode = "parallel" /\ call' = "returned"
          /\ UNCHANGED <<mode, valid, results, pc>>
      BY <1>0, <1>9 DEF ParallelWait, ModeDecides
    <2> QED
      BY <1>0, <2>1
         DEF AnswersInv, ValidServices, UploadsHaveCredentials, ModeDecides, InSequence,
             InParallel, ResultsAreOver, Running
  <1>10. CASE ReturnResult
    BY <1>0, <1>10
       DEF ReturnResult, AnswersInv, ValidServices, UploadsHaveCredentials, ModeDecides,
           InSequence, InParallel, ResultsAreOver, Running
  <1>11. ASSUME NEW s \in Service, Collect(s) PROVE AnswersInv'
    <2>1. /\ Running(s) /\ UNCHANGED <<mode, cancelled, queue, valid>>
          /\ call' = IF call = "run" THEN "loop" ELSE call
          /\ results' = Append(results, [service |-> s, err |-> res[s].err, after |-> res[s].after])
      BY <1>11 DEF Collect, Running
    <2>2. \A t \in Service : Running(t)' <=> Running(t) /\ t # s
      BY <1>s, <1>11 DEF Collect, Goto, Running
    <2>3. /\ Len(results') = Len(results) + 1 /\ Len(results) \in Nat /\ Len(valid) \in Nat
          /\ \A i \in 1..Len(results) : results'[i] = results[i]
          /\ results'[Len(results) + 1].service = s
      BY <1>s, <2>1
    <2>4. call \in {"run", "wait"}
      BY <1>0, <2>1 DEF UploadsAreInside
    <2>5. \A i \in 1..Len(results) : results[i].service \in Service /\ results[i].service # s
      <3>1. \A i \in 1..Len(results) : results[i].service \in Service
        BY <1>0, ResultsAreTyped
      <3>2. \A i \in 1..Len(results) : ~Running(results[i].service)
        BY <1>0 DEF ResultsAreOver
      <3> QED
        BY <2>1, <3>1, <3>2
    <2>6. ResultsAreOver'
      BY <1>0, <2>2, <2>3, <2>5 DEF ResultsAreOver
    <2>7. ValidServices' /\ UploadsHaveCredentials' /\ ModeDecides'
      BY <1>0, <2>1, <2>2, <2>4 DEF ValidServices, UploadsHaveCredentials, ModeDecides
    <2>8. InSequence'
      <3>1. CASE call = "run"
        <4>1. /\ mode = "sequential" /\ call' = "loop" /\ s = valid[Len(results) + 1]
              /\ Len(queue) = Len(valid) - Len(results) - 1
              /\ \A i \in 1..Len(queue) : queue[i] = valid[Len(results) + 1 + i]
              /\ \A i \in 1..Len(results) : results[i].service = valid[i]
          BY <1>0, <2>1, <3>1 DEF InSequence, ModeDecides
        <4>2. Len(queue) \in Nat
          BY <1>s
        <4>3. \A i \in 1..Len(results') : results'[i].service = valid[i]
          BY <2>3, <4>1
        <4> QED
          BY <2>1, <2>3, <4>1, <4>2, <4>3 DEF InSequence
      <3>2. CASE call = "wait"
        BY <1>0, <2>1, <3>2 DEF InSequence, ModeDecides
      <3> QED
        BY <2>4, <3>1, <3>2
    <2>9. InParallel'
      <3>1. CASE call = "run"
        BY <1>0, <2>1, <3>1 DEF InParallel, ModeDecides
      <3>2. CASE call = "wait"
        <4>1. mode = "parallel" /\ call' = "wait"
          BY <1>0, <2>1, <3>2 DEF ModeDecides
        <4>2. \E i \in 1..Len(valid) : valid[i] = s
          BY <1>0, <2>1, <3>2 DEF UploadsAreInside
        <4>3. \A i, j \in 1..Len(results') : results'[i].service = results'[j].service => i = j
          <5>1. \A i, j \in 1..Len(results) : results[i].service = results[j].service => i = j
            BY <1>0, <3>2, <4>1 DEF InParallel
          <5> QED
            <6> SUFFICES ASSUME NEW i \in 1..Len(results'), NEW j \in 1..Len(results'),
                                results'[i].service = results'[j].service
                         PROVE  i = j
              OBVIOUS
            <6>1. CASE i = Len(results) + 1 \/ j = Len(results) + 1
              BY <2>3, <2>5, <6>1
            <6>2. CASE i # Len(results) + 1 /\ j # Len(results) + 1
              BY <2>3, <5>1, <6>2
            <6> QED
              BY <6>1, <6>2
        <4>4. \A j \in 1..Len(results') : \E i \in 1..Len(valid) : results'[j].service = valid[i]
          <5>1. \A j \in 1..Len(results) : \E i \in 1..Len(valid) : results[j].service = valid[i]
            BY <1>0, <3>2, <4>1 DEF InParallel
          <5>2. \A j \in 1..Len(results') : j \in 1..Len(results) \/ j = Len(results) + 1
            BY <2>3
          <5> QED
            BY <2>3, <4>2, <5>1, <5>2
        <4>5. ASSUME NEW i \in 1..Len(valid), ~Running(valid[i])'
              PROVE  \E j \in 1..Len(results') : results'[j].service = valid[i]
          <5>1. CASE valid[i] = s
            BY <2>3, <5>1
          <5>2. CASE valid[i] # s
            <6>1. ~Running(valid[i]) /\ valid[i] \in Service
              BY <1>s, <2>1, <2>2, <4>5, <5>2 DEF Running
            <6>2. PICK j \in 1..Len(results) : results[j].service = valid[i]
              BY <1>0, <3>2, <4>1, <6>1 DEF InParallel
            <6> QED
              BY <2>3, <6>2
          <5> QED
            BY <5>1, <5>2
        <4> QED
          BY <2>1, <4>1, <4>3, <4>4, <4>5 DEF InParallel, Running
      <3> QED
        BY <2>4, <3>1, <3>2
    <2> QED
      BY <2>6, <2>7, <2>8, <2>9 DEF AnswersInv
  <1> QED
    BY <1>1, <1>2, <1>3, <1>4, <1>5, <1>6, <1>7, <1>8, <1>9, <1>10, <1>11
       DEF Next, CallerGoes, UploadFileGoes

-----------------------------------------------------------------------------

\* A step of doUpload changes nothing of another service's.
LEMMA LocalsAreLocal ==
    ASSUME TypeOK, NEW s \in Service, NEW t \in Service \ {s}, doUploadGoes(s)
    PROVE  pc'[t] = pc[t] /\ attempt'[t] = attempt[t] /\ res'[t] = res[t]
  <1> USE DEF Goto
  <1>0. /\ pc \in [Service -> UploadStates] /\ attempt \in [Service -> Nat]
        /\ res \in [Service -> Result \cup {None}]
    BY DEF TypeOK
  <1>1. CASE SendStarting(s) \/ BeginAttempt(s) \/ EndLoop(s) \/ OpenFile(s)
             \/ newProgressReader(s)
    BY <1>0, <1>1 DEF SendStarting, BeginAttempt, EndLoop, OpenFile, newProgressReader
  <1>2. CASE UploadReturns(s) \/ CloseReader(s) \/ Decide(s) \/ SendRetry(s)
    BY <1>0, <1>2 DEF UploadReturns, CloseReader, Decide, SendRetry
  <1>3. CASE BackoffElapsed(s) \/ BackoffCancelled(s) \/ SendTerminal(s) \/ Collect(s)
    BY <1>0, <1>3 DEF BackoffElapsed, BackoffCancelled, SendTerminal, Collect
  <1> QED
    BY <1>1, <1>2, <1>3 DEF doUploadGoes

\* The number of attempts is an integer, one more than the retries unless that
\* overflows.
LEMMA AttemptsFacts ==
    /\ Attempts \in Int
    /\ settings.maxRetries < MaxInt => Attempts = settings.maxRetries + 1 /\ 1 <= Attempts
  <1>1. MaxInt \in Nat /\ MaxRetries \in Int \cup {None}
    BY WidthAssumption, UploaderAssumption
  <1> DEFINE m == settings.maxRetries
  <1>2. m \in Nat
    BY <1>1 DEF settings, RetrySettings, Setting, DefaultMaxRetries
  <1>3. Attempts = ((m + 1 + MaxInt + 1) % (2 * (MaxInt + 1))) - MaxInt - 1
    BY DEF Attempts, TotalAttempts, Wrap
  <1> HIDE DEF m
  <1> DEFINE n == m + 1 + MaxInt + 1
             w == 2 * (MaxInt + 1)
  <1>4. n \in Nat /\ w \in Nat \ {0}
    BY <1>1, <1>2
  <1>5. Attempts = (n % w) - MaxInt - 1
    BY <1>3
  <1>6. m < MaxInt => n < w
    BY <1>1, <1>2
  <1> HIDE DEF n, w
  <1>7. n % w \in 0..(w - 1)
    BY <1>4
  <1>8. n < w => n % w = n
    BY <1>4
  <1>9. m < MaxInt => Attempts = n - MaxInt - 1
    BY <1>5, <1>6, <1>8
  <1> QED
    BY <1>1, <1>2, <1>4, <1>5, <1>7, <1>9 DEF n, m

\* Every step keeps the count of the attempts.
LEMMA AttemptsStep == IndInv /\ AttemptsAreLeft /\ [Next]_vars => AttemptsAreLeft'
  <1> SUFFICES ASSUME IndInv, AttemptsAreLeft, [Next]_vars PROVE AttemptsAreLeft'
    OBVIOUS
  <1> USE ConstantFacts DEF vars, callVars, uploadVars, readerVars, channelVars, Retrying
  <1>0. /\ pc \in [Service -> UploadStates] /\ attempt \in [Service -> Nat]
        /\ res \in [Service -> Result \cup {None}] /\ Attempts \in Int
        /\ ResIsSet /\ UploadsAreInside
    BY AttemptsFacts DEF IndInv, TypeOK
  <1> DEFINE Counted(s) ==
                 /\ pc[s] \in {"open", "track", "transfer", "close", "decide"} => attempt[s] <= Attempts
                 /\ pc[s] \in {"retry", "sleep"} => attempt[s] < Attempts
                 /\ pc[s] = "check" => attempt[s] = 1 \/ attempt[s] <= Attempts
                 /\ pc[s] \in {"check", "open", "track", "transfer", "close", "decide", "retry", "sleep"}
                       => attempt[s] >= 1
                 /\ pc[s] \in {"idle", "starting"} => res[s] = None
                 /\ pc[s] \in {"check", "retry", "sleep"} /\ res[s] # None => res[s].err # None
                 /\ Retrying(s) => res[s] # None /\ res[s].err # None /\ isRetryableError(res[s].err)
  <1>1. \A s \in Service : Counted(s)
    BY DEF AttemptsAreLeft
  <1> SUFFICES ASSUME NEW t \in Service PROVE Counted(t)'
    BY DEF AttemptsAreLeft
  <1>2. ASSUME UNCHANGED <<pc, attempt, res>> PROVE Counted(t)'
    BY <1>1, <1>2
  <1>3. CASE Receive \/ Cancel \/ CallerGoes \/ Finished \/ UNCHANGED vars
    BY <1>2, <1>3 DEF Receive, Cancel, CallerGoes, CallUploadFile, ReturnResult, CloseChannel, Finished
  <1>4. ASSUME NEW s \in Service, Read(s) \/ Ticking(s) PROVE Counted(t)'
    BY <1>2, <1>4 DEF Read, Ticking, Tick, TickDone, TickSend
  <1>5. CASE UploadFileGoes
    <2>1. attempt' = attempt /\ res' = res
      BY <1>5 DEF UploadFileGoes, ValidateCredentials, uploadParallel, uploadSequential,
                  NextService, ParallelWait
    <2>2. pc'[t] = pc[t] \/ (pc[t] = "idle" /\ pc'[t] = "starting")
      <3>1. CASE uploadParallel \/ NextService
        <4>1. pc[t] = "idle"
          BY <1>0, <3>1 DEF uploadParallel, NextService, UploadsAreInside, Running
        <4>2. CASE uploadParallel
          BY <4>1, <4>2 DEF uploadParallel
        <4>3. CASE NextService
          BY <1>0, <4>1, <4>3 DEF NextService
        <4> QED
          BY <3>1, <4>2, <4>3
      <3> QED
        BY <1>5, <3>1 DEF UploadFileGoes, ValidateCredentials, uploadSequential, ParallelWait
    <2> QED
      BY <1>1, <2>1, <2>2
  <1>6. ASSUME NEW s \in Service, doUploadGoes(s), s # t PROVE Counted(t)'
    <2>1. pc'[t] = pc[t] /\ attempt'[t] = attempt[t] /\ res'[t] = res[t]
      BY <1>6, LocalsAreLocal DEF IndInv
    <2> QED
      BY <1>1, <2>1
  <1>7. ASSUME doUploadGoes(t) PROVE Counted(t)'
    <2> USE DEF Goto
    <2>1. CASE SendStarting(t)
      BY <1>0, <1>1, <2>1 DEF SendStarting
    <2>2. CASE BeginAttempt(t)
      BY <1>0, <1>1, <2>2 DEF BeginAttempt
    <2>3. CASE EndLoop(t)
      BY <1>0, <1>1, <2>3 DEF EndLoop
    <2>4. CASE OpenFile(t)
      <3>1. /\ pc[t] = "open" /\ attempt' = attempt
            /\ (pc'[t] = "track" /\ res' = res) \/ pc'[t] = "decide"
        BY <1>0, <2>4 DEF OpenFile
      <3> QED
        BY <1>0, <1>1, <3>1
    <2>5. CASE newProgressReader(t)
      BY <1>0, <1>1, <2>5 DEF newProgressReader
    <2>6. CASE UploadReturns(t)
      <3>1. pc[t] = "transfer" /\ pc'[t] = "close" /\ attempt' = attempt
        BY <1>0, <2>6 DEF UploadReturns
      <3> QED
        BY <1>0, <1>1, <3>1
    <2>7. CASE CloseReader(t)
      BY <1>0, <1>1, <2>7 DEF CloseReader
    <2>8. CASE Decide(t)
      <3>1. \/ pc'[t] = "finish"
            \/ /\ pc'[t] = "retry" /\ res' = res /\ res[t].err # None /\ ~(attempt[t] >= Attempts)
               /\ isRetryableError(res[t].err)
        BY <1>0, <2>8 DEF Decide, GiveUp
      <3>2. pc[t] = "decide" /\ attempt' = attempt /\ res[t] # None
        BY <1>0, <2>8 DEF Decide, ResIsSet
      <3> QED
        BY <1>0, <1>1, <3>1, <3>2
    <2>9. CASE SendRetry(t)
      BY <1>0, <1>1, <2>9 DEF SendRetry
    <2>10. CASE BackoffElapsed(t)
      <3>1. pc[t] = "sleep" /\ pc'[t] = "check" /\ attempt'[t] = attempt[t] + 1 /\ res' = res
        BY <1>0, <2>10 DEF BackoffElapsed
      <3> QED
        BY <1>0, <1>1, <3>1
    <2>11. CASE BackoffCancelled(t)
      BY <1>0, <1>1, <2>11 DEF BackoffCancelled
    <2>12. CASE SendTerminal(t)
      BY <1>0, <1>1, <2>12 DEF SendTerminal
    <2>13. CASE Collect(t)
      BY <1>0, <1>1, <2>13 DEF Collect
    <2> QED
      BY <1>7, <2>1, <2>2, <2>3, <2>4, <2>5, <2>6, <2>7, <2>8, <2>9, <2>10, <2>11, <2>12,
         <2>13 DEF doUploadGoes
  <1> QED
    BY <1>3, <1>4, <1>5, <1>6, <1>7 DEF Next

\* Every step keeps the ends exhausted, if there is an attempt at all.
LEMMA EndsStep ==
    ASSUME 1 <= Attempts, IndInv, AttemptsAreLeft, EndsAreExhausted, [Next]_vars
    PROVE  EndsAreExhausted'
  <1> USE ConstantFacts DEF vars, callVars, uploadVars, readerVars, channelVars
  <1>0. /\ pc \in [Service -> UploadStates] /\ attempt \in [Service -> Nat]
        /\ res \in [Service -> Result \cup {None}] /\ Attempts \in Int
        /\ results \in Seq(ResultRec) /\ TypeOK
        /\ ResIsSet /\ UploadsAreInside
    BY AttemptsFacts, ResultsAreTyped DEF IndInv, TypeOK
  <1>a. Aborted \notin Failure \cup {None}
    BY UploaderAssumption
  <1> DEFINE Good(s) == /\ pc[s] \in {"finish", "collect"} => Exhausted(res[s])
                        /\ pc[s] \notin {"finish", "collect"} /\ res[s] # None
                              => res[s].err # Aborted
  <1> SUFFICES ASSUME ~cancelled'
               PROVE  /\ \A t \in Service : Good(t)'
                      /\ (\A i \in 1..Len(results) : Exhausted(results[i]))'
    BY DEF EndsAreExhausted
  <1>1. ~cancelled
    <2>1. CASE \E s \in Service : doUploadGoes(s) /\ ~Collect(s)
      BY <1>0, <2>1, UploadMoves
    <2>2. CASE \E s \in Service : Collect(s) \/ Read(s) \/ Ticking(s)
      BY <2>2 DEF Collect, Read, Ticking, Tick, TickDone, TickSend
    <2>3. CASE Receive \/ Cancel \/ CallerGoes \/ Finished \/ UNCHANGED vars
      BY <2>3 DEF Receive, Cancel, CallerGoes, CallUploadFile, ReturnResult, CloseChannel, Finished
    <2>4. CASE UploadFileGoes
      BY <2>4 DEF UploadFileGoes, ValidateCredentials, uploadParallel, uploadSequential,
                  NextService, ParallelWait
    <2> QED
      BY <2>1, <2>2, <2>3, <2>4 DEF Next
  <1>2. /\ \A s \in Service : Good(s)
        /\ \A i \in 1..Len(results) : Exhausted(results[i])
    BY <1>1 DEF EndsAreExhausted
  <1>3. ASSUME UNCHANGED <<pc, res>>, results' = results \/ results' = <<>>
        PROVE  /\ \A t \in Service : Good(t)'
               /\ (\A i \in 1..Len(results) : Exhausted(results[i]))'
    BY <1>2, <1>3 DEF Exhausted
  <1>4. CASE Receive \/ Cancel \/ CallerGoes \/ Finished \/ UNCHANGED vars
    BY <1>3, <1>4 DEF Receive, Cancel, CallerGoes, CallUploadFile, ReturnResult, CloseChannel, Finished
  <1>5. ASSUME NEW s \in Service, Read(s) \/ Ticking(s)
        PROVE  /\ \A t \in Service : Good(t)'
               /\ (\A i \in 1..Len(results) : Exhausted(results[i]))'
    BY <1>3, <1>5 DEF Read, Ticking, Tick, TickDone, TickSend
  <1>6. CASE UploadFileGoes
    <2>1. res' = res /\ results' = results
      BY <1>6 DEF UploadFileGoes, ValidateCredentials, uploadParallel, uploadSequential,
                  NextService, ParallelWait
    <2>2. ASSUME NEW t \in Service
          PROVE  pc'[t] = pc[t] \/ (pc[t] = "idle" /\ pc'[t] = "starting")
      <3>1. CASE uploadParallel \/ NextService
        <4>1. pc[t] = "idle"
          BY <1>0, <3>1 DEF uploadParallel, NextService, UploadsAreInside, Running
        <4>2. CASE uploadParallel
          BY <4>1, <4>2 DEF uploadParallel
        <4>3. CASE NextService
          BY <1>0, <4>1, <4>3 DEF NextService
        <4> QED
          BY <3>1, <4>2, <4>3
      <3> QED
        BY <1>6, <3>1 DEF UploadFileGoes, ValidateCredentials, uploadSequential, ParallelWait
    <2> QED
      BY <1>2, <2>1, <2>2 DEF Exhausted
  <1>7. ASSUME NEW s \in Service, doUploadGoes(s)
        PROVE  /\ \A t \in Service : Good(t)'
               /\ (\A i \in 1..Len(results) : Exhausted(results[i]))'
    <2> USE DEF Goto
    <2>o. ASSUME NEW t \in Service \ {s} PROVE Good(t)'
      BY <1>0, <1>2, <1>7, LocalsAreLocal DEF Exhausted
    <2>c. ASSUME ~Collect(s) PROVE (\A i \in 1..Len(results) : Exhausted(results[i]))'
      BY <1>0, <1>2, <1>7, <2>c, UploadMoves DEF Exhausted
    <2>1. CASE SendStarting(s) \/ BeginAttempt(s) \/ newProgressReader(s) \/ CloseReader(s)
               \/ SendRetry(s) \/ BackoffElapsed(s)
      <3>1. /\ res' = res /\ pc'[s] \notin {"finish", "collect"}
            /\ pc[s] \notin {"finish", "collect"} /\ ~Collect(s)
        BY <1>0, <2>1 DEF SendStarting, BeginAttempt, newProgressReader, CloseReader, SendRetry,
                          BackoffElapsed, Collect
      <3> QED
        BY <1>2, <2>o, <2>c, <3>1
    <2>2. CASE EndLoop(s) \/ BackoffCancelled(s)
      <3>1. pc[s] = "check" /\ attempt[s] > Attempts
        BY <1>1, <2>2 DEF EndLoop, BackoffCancelled
      <3>2. (attempt[s] = 1 \/ attempt[s] <= Attempts) /\ attempt[s] \in Nat
        BY <1>0, <3>1 DEF AttemptsAreLeft
      <3> QED
        BY <1>0, <3>1, <3>2
    <2>3. CASE OpenFile(s) \/ UploadReturns(s)
      <3>1. /\ pc'[s] \notin {"finish", "collect"} /\ pc[s] \notin {"finish", "collect"} /\ ~Collect(s)
        BY <1>0, <2>3 DEF OpenFile, UploadReturns, Collect
      <3>2. res'[s] = res[s] \/ res'[s].err \in Failure \cup {None}
        BY <1>0, <2>3 DEF OpenFile, UploadReturns
      <3> QED
        BY <1>2, <1>a, <2>o, <2>c, <3>1, <3>2
    <2>4. CASE Decide(s)
      <3>1. pc[s] = "decide" /\ res[s] \in Result /\ res[s].err # Aborted /\ ~Collect(s)
        BY <1>0, <1>2, <2>4 DEF Decide, ResIsSet, Collect
      <3>2. attempt[s] <= Attempts /\ attempt[s] >= 1 /\ attempt[s] \in Nat
        BY <1>0, <3>1 DEF AttemptsAreLeft
      <3>3. CASE res[s].err = None
        <4>1. pc'[s] = "finish" /\ res' = res
          BY <1>0, <2>4, <3>3 DEF Decide
        <4> QED
          BY <2>o, <2>c, <3>1, <3>3, <4>1 DEF Exhausted
      <3>4. CASE res[s].err # None /\ GiveUp(s)
        <4> DEFINE n == IF attempt[s] > 1 THEN attempt[s] ELSE 0
        <4>1. pc'[s] = "finish" /\ res' = [res EXCEPT ![s] = [res[s] EXCEPT !.after = n]]
          BY <1>0, <2>4, <3>4 DEF Decide
        <4>2. res'[s].err = res[s].err /\ res'[s].after = n
          BY <1>0, <3>1, <4>1 DEF Result
        <4>3. isRetryableError(res[s].err) => attempt[s] = Attempts
          BY <1>0, <1>1, <3>2, <3>4 DEF GiveUp
        <4>4. Exhausted(res[s])'
          BY <3>1, <4>2, <4>3 DEF Exhausted
        <4> QED
          BY <2>o, <2>c, <3>1, <4>1, <4>4
      <3>5. CASE res[s].err # None /\ ~GiveUp(s)
        <4>1. pc'[s] = "retry" /\ res' = res
          BY <1>0, <2>4, <3>5 DEF Decide
        <4> QED
          BY <1>2, <2>o, <2>c, <3>1, <4>1
      <3> QED
        BY <2>4, <3>3, <3>4, <3>5 DEF Decide
    <2>5. CASE SendTerminal(s)
      <3>1. res' = res /\ pc[s] = "finish" /\ pc'[s] = "collect" /\ ~Collect(s)
        BY <1>0, <2>5 DEF SendTerminal, Collect
      <3> QED
        BY <1>2, <2>o, <2>c, <3>1 DEF Exhausted
    <2>6. CASE Collect(s)
      <3> DEFINE r == [service |-> s, err |-> res[s].err, after |-> res[s].after]
      <3>1. results' = Append(results, r) /\ res'[s] = None /\ pc'[s] = "idle" /\ pc[s] = "collect"
        BY <1>0, <2>6 DEF Collect
      <3>2. r.err = res[s].err /\ r.after = res[s].after /\ Exhausted(res[s])
        BY <1>2, <3>1
      <3>3. Exhausted(r)
        BY <3>2 DEF Exhausted
      <3> HIDE DEF r
      <3>4. /\ Len(results') = Len(results) + 1 /\ Len(results) \in Nat
            /\ \A i \in 1..Len(results') : i \in 1..Len(results) \/ i = Len(results) + 1
            /\ \A i \in 1..Len(results) : results'[i] = results[i]
            /\ results'[Len(results) + 1] = r
        BY <1>0, <3>1
      <3>5. (\A i \in 1..Len(results) : Exhausted(results[i]))'
        BY <1>2, <3>3, <3>4 DEF Exhausted
      <3> QED
        BY <2>o, <3>1, <3>5
    <2> QED
      BY <1>7, <2>1, <2>2, <2>3, <2>4, <2>5, <2>6 DEF doUploadGoes
  <1> QED
    BY <1>4, <1>5, <1>6, <1>7 DEF Next

-----------------------------------------------------------------------------

\* The books and the counts hold in every reachable state.
THEOREM AnswersHold == Spec => [](AnswersInv /\ AttemptsAreLeft)
  <1>1. Init => AnswersInv /\ AttemptsAreLeft
    BY InitAnswers DEF Init, AttemptsAreLeft, Retrying
  <1>2. IndInv /\ AnswersInv /\ AttemptsAreLeft /\ [Next]_vars => (AnswersInv /\ AttemptsAreLeft)'
    BY AnswersStep, AttemptsStep
  <1> QED
    BY <1>1, <1>2, IndInvHolds, PTL DEF Spec

\* The credential loop passes one place of the selection after the other, and
\* nothing else changes which services are due.
LEMMA DueStep == IndInv /\ ValidIsDue /\ [Next]_vars => ValidIsDue'
  <1> SUFFICES ASSUME IndInv, ValidIsDue, [Next]_vars PROVE ValidIsDue'
    OBVIOUS
  <1> USE ConstantFacts DEF vars, callVars, uploadVars, readerVars, channelVars
  <1>s. Selected \in Seq(Service) /\ Len(Selected) \in Nat
    BY UploaderAssumption
  <1>0. /\ TypeOK /\ valid \in Seq(Service) /\ queue \in Seq(Service) /\ UploadsAreInside
        /\ Selected \in Seq(Service) /\ Len(Selected) \in Nat
    BY <1>s DEF IndInv, TypeOK
  <1>i. \A k, l \in 1..Len(Selected) : Selected[k] = Selected[l] => k = l
    BY UploaderAssumption
  <1>d. Due \subseteq 1..Len(Selected) /\ \A k \in Due : k \in Nat /\ k <= Len(Selected)
    BY <1>0 DEF Due
  <1>f. ASSUME valid' = valid, call' # "validate", call' # "idle" => call # "idle",
               call = "validate" => queue = <<>>
        PROVE  ValidIsDue'
    <2>1. Past = Len(Selected) /\ Past' = Len(Selected)
      BY <1>0, <1>f DEF Past
    <2> QED
      BY <1>f, <2>1 DEF ValidIsDue
  <1>1. ASSUME UNCHANGED <<valid, call, queue>> PROVE ValidIsDue'
    BY <1>1 DEF ValidIsDue, Past
  <1>2. CASE Receive \/ Cancel \/ Finished \/ CloseChannel \/ UNCHANGED vars
    BY <1>1, <1>2 DEF Receive, Cancel, Finished, CloseChannel
  <1>3. ASSUME NEW s \in Service, Read(s) \/ Ticking(s) PROVE ValidIsDue'
    BY <1>1, <1>3 DEF Read, Ticking, Tick, TickDone, TickSend
  <1>4. ASSUME NEW s \in Service, doUploadGoes(s), ~Collect(s) PROVE ValidIsDue'
    BY <1>0, <1>1, <1>4, UploadMoves
  <1>5. ASSUME NEW s \in Service, Collect(s) PROVE ValidIsDue'
    <2>1. call \in {"run", "wait"}
      BY <1>0, <1>5 DEF Collect, UploadsAreInside, Running
    <2> QED
      BY <1>5, <1>f, <2>1 DEF Collect
  <1>6. CASE uploadParallel \/ uploadSequential \/ NextService \/ ParallelWait \/ ReturnResult
    <2>1. /\ valid' = valid /\ call' # "validate" /\ call # "idle"
          /\ call = "validate" => queue = <<>>
      BY <1>6 DEF uploadParallel, uploadSequential, NextService, ParallelWait, ReturnResult
    <2> QED
      BY <1>f, <2>1
  <1>7. CASE CallUploadFile
    <2>1. /\ valid' = <<>> /\ call' \in {"idle", "validate"}
          /\ call' = "validate" => queue' = Selected
      BY <1>7 DEF CallUploadFile
    <2>2. Len(valid') = 0
      BY <2>1
    <2>3. call' = "validate" => Past' = 0
      BY <1>0, <2>1 DEF Past
    <2>4. \A k \in Due : ~(k <= 0)
      BY <1>d
    <2>5. call' = "validate" => \A i \in 1..Len(queue') : queue'[i] = Selected[Past' + i]
      BY <1>0, <2>1, <2>3
    <2> QED
      BY <1>0, <2>1, <2>2, <2>3, <2>4, <2>5 DEF ValidIsDue
  <1>8. CASE ValidateCredentials
    <2> DEFINE n == Past
               s == Selected[n + 1]
    <2>1. /\ call = "validate" /\ call' = "validate" /\ queue # <<>> /\ queue' = Tail(queue)
          /\ \/ Head(queue) \notin Registered \cap HasCredentials /\ valid' = valid
             \/ Head(queue) \in Registered \cap HasCredentials /\ valid' = Append(valid, Head(queue))
      BY <1>8 DEF ValidateCredentials
    <2>2. /\ Len(queue') = Len(queue) - 1 /\ Len(queue) \in Nat \ {0}
          /\ \A i \in 1..Len(queue') : queue'[i] = queue[i + 1]
          /\ Head(queue) = queue[1]
      BY <1>0, <2>1
    <2>3. /\ n = Len(Selected) - Len(queue) /\ Len(queue) <= Len(Selected)
          /\ \A i \in 1..Len(queue) : queue[i] = Selected[n + i]
      BY <2>1 DEF ValidIsDue, Past
    <2>4. n \in Nat /\ n + 1 \in 1..Len(Selected) /\ Past' = n + 1
      <3>1. Past' = Len(Selected) - Len(queue')
        BY <2>1 DEF Past
      <3> HIDE DEF n
      <3> QED
        BY ONLY <1>s, <2>2, <2>3, <3>1
    <2>5. Head(queue) = s
      BY <2>2, <2>3
    <2>6. /\ \A i \in 1..Len(valid) : \E k \in Due : k <= n /\ valid[i] = Selected[k]
          /\ \A i, j \in 1..Len(valid), k, l \in Due :
                i < j /\ valid[i] = Selected[k] /\ valid[j] = Selected[l] => k < l
          /\ \A k \in Due : k <= n => \E i \in 1..Len(valid) : valid[i] = Selected[k]
      BY <2>1 DEF ValidIsDue
    <2> HIDE DEF n
    <2>7. \A i \in 1..Len(queue') : queue'[i] = Selected[n + 1 + i]
      <3> SUFFICES ASSUME NEW i \in 1..Len(queue') PROVE queue'[i] = Selected[n + 1 + i]
        OBVIOUS
      <3>1. i + 1 \in 1..Len(queue) /\ n + (i + 1) = n + 1 + i
        BY ONLY <2>2, <2>4
      <3> QED
        BY <2>2, <2>3, <3>1
    <2>8. Len(queue') <= Len(Selected)
      BY <1>0, <2>2, <2>3
    <2>9. CASE s \notin Registered \cap HasCredentials /\ valid' = valid
      <3>1. n + 1 \notin Due
        BY <2>9 DEF Due
      <3>2. \A k \in Due : k <= n + 1 => k <= n
        BY <1>d, <2>4, <3>1
      <3>3. \A k \in Due : k <= n => k <= n + 1
        BY <1>d, <2>4
      <3> QED
        BY <2>1, <2>4, <2>6, <2>7, <2>8, <2>9, <3>2, <3>3 DEF ValidIsDue
    <2>10. CASE s \in Registered \cap HasCredentials /\ valid' = Append(valid, s)
      <3>1. n + 1 \in Due
        BY <2>4, <2>10 DEF Due
      <3>2. /\ Len(valid') = Len(valid) + 1 /\ Len(valid) \in Nat
            /\ \A i \in 1..Len(valid) : valid'[i] = valid[i]
            /\ valid'[Len(valid) + 1] = s
        <4>1. s \in Service
          BY <1>0, <2>4
        <4> QED
          BY <1>0, <2>10, <4>1
      <3>3. \A k \in Due : k <= n + 1 => k <= n \/ k = n + 1
        BY <1>d, <2>4
      <3>4. \A i \in 1..Len(valid') : \E k \in Due : k <= n + 1 /\ valid'[i] = Selected[k]
        <4>1. \A k \in Due : k <= n => k <= n + 1
          BY <1>d, <2>4
        <4>2. \A i \in 1..Len(valid') : i \in 1..Len(valid) \/ i = Len(valid) + 1
          BY <3>2
        <4>3. n + 1 <= n + 1
          BY <2>4
        <4> QED
          BY <2>6, <3>1, <3>2, <4>1, <4>2, <4>3
      <3>5. \A k \in Due : k <= n + 1 => \E i \in 1..Len(valid') : valid'[i] = Selected[k]
        <4>1. Len(valid) + 1 \in 1..Len(valid') /\ \A i \in 1..Len(valid) : i \in 1..Len(valid')
          BY <3>2
        <4> QED
          BY <2>6, <3>2, <3>3, <4>1
      <3>6. ASSUME NEW i \in 1..Len(valid'), NEW j \in 1..Len(valid'), NEW k \in Due, NEW l \in Due,
                   i < j, valid'[i] = Selected[k], valid'[j] = Selected[l]
            PROVE  k < l
        <4>1. i \in 1..Len(valid) /\ (j \in 1..Len(valid) \/ j = Len(valid) + 1)
          BY <3>2, <3>6
        <4>2. CASE j \in 1..Len(valid)
          BY <2>6, <3>2, <3>6, <4>1, <4>2
        <4>3. CASE j = Len(valid) + 1
          <5>1. l = n + 1
            BY <1>d, <1>i, <2>4, <3>2, <3>6, <4>3
          <5>2. PICK m \in Due : m <= n /\ valid[i] = Selected[m]
            BY <2>6, <4>1
          <5>3. m = k
            BY <1>d, <1>i, <3>2, <3>6, <4>1, <5>2
          <5> QED
            BY <1>d, <2>4, <5>1, <5>2, <5>3
        <4> QED
          BY <4>1, <4>2, <4>3
      <3> QED
        BY <2>1, <2>4, <2>7, <2>8, <3>4, <3>5, <3>6 DEF ValidIsDue
    <2> QED
      BY <2>1, <2>5, <2>9, <2>10
  <1> QED
    BY <1>2, <1>3, <1>4, <1>5, <1>6, <1>7, <1>8 DEF Next, CallerGoes, UploadFileGoes, doUploadGoes

\* Which services a call is for, in every reachable state.
THEOREM DueHolds == Spec => []ValidIsDue
  <1>1. Init => ValidIsDue
    BY DEF Init, ValidIsDue
  <1> QED
    BY <1>1, DueStep, IndInvHolds, PTL DEF Spec

\* Every selected service with credentials, and no other, has exactly one result
\* when UploadFile returns, whichever services were skipped; in the order of the
\* selection when sequential, where a cancellation may cut off the last ones.
THEOREM AllServicesAnswer == Spec => []EveryServiceAnswers
  <1>1. IndInv /\ AnswersInv /\ ValidIsDue => EveryServiceAnswers
    <2> SUFFICES ASSUME IndInv, AnswersInv, ValidIsDue, call = "returned" PROVE EveryServiceAnswers
      BY DEF EveryServiceAnswers
    <2> DEFINE name(i) == results[i].service
               answered == {k \in Due : \E i \in 1..Len(results) : name(i) = Selected[k]}
    <2>1. /\ TypeOK /\ Len(valid) \in Nat /\ mode \in {"parallel", "sequential"}
          /\ Len(results) \in Nat /\ Selected \in Seq(Service) /\ Len(Selected) \in Nat
      BY ConstantFacts, ResultsAreTyped DEF IndInv, TypeOK
    <2>2. Due \subseteq 1..Len(Selected)
      BY DEF Due
    <2>3. /\ \A i \in 1..Len(valid) : \E k \in Due : valid[i] = Selected[k]
          /\ \A i, j \in 1..Len(valid), k, l \in Due :
                i < j /\ valid[i] = Selected[k] /\ valid[j] = Selected[l] => k < l
          /\ \A k \in Due : \E i \in 1..Len(valid) : valid[i] = Selected[k]
          /\ \A i, j \in 1..Len(valid) : valid[i] = valid[j] => i = j
      <3>1. Past = Len(Selected) /\ \A k \in Due : k <= Len(Selected)
        BY <2>1, <2>2 DEF Past
      <3> QED
        BY <3>1 DEF ValidIsDue, AnswersInv, ValidServices
    <2>4. CASE mode = "parallel"
      <3>1. \A i \in 1..Len(valid) : valid[i] \in Service /\ ~Running(valid[i])
        BY <2>1 DEF IndInv, TypeOK, UploadsAreInside
      <3>2. /\ \A i, j \in 1..Len(results) : name(i) = name(j) => i = j
            /\ \A j \in 1..Len(results) : \E i \in 1..Len(valid) : name(j) = valid[i]
            /\ \A i \in 1..Len(valid) : \E j \in 1..Len(results) : name(j) = valid[i]
        BY <2>4, <3>1 DEF AnswersInv, InParallel
      <3>3. \A j \in 1..Len(results) : \E k \in Due : name(j) = Selected[k]
        BY <2>3, <3>2
      <3>4. \A k \in Due : \E j \in 1..Len(results) : name(j) = Selected[k]
        BY <2>3, <3>2
      <3>5. answered = Due
        BY <3>4
      <3> QED
        BY <2>4, <3>2, <3>3, <3>5 DEF EveryServiceAnswers
    <2>5. CASE mode = "sequential"
      <3>1. /\ Len(results) <= Len(valid)
            /\ \A i \in 1..Len(results) : name(i) = valid[i] /\ i \in 1..Len(valid)
            /\ Len(results) = Len(valid) \/ cancelled
        BY <2>1, <2>5 DEF AnswersInv, InSequence
      <3>2. \A i \in 1..Len(results) : \E k \in Due : name(i) = Selected[k]
        BY <2>3, <3>1
      <3>3. \A i, j \in 1..Len(results) : name(i) = name(j) => i = j
        BY <2>3, <3>1
      <3>4. \A i, j \in 1..Len(results), k, l \in Due :
               i < j /\ name(i) = Selected[k] /\ name(j) = Selected[l] => k < l
        BY <2>3, <3>1
      <3>5. ~cancelled => answered = Due
        <4>1. ASSUME ~cancelled, NEW k \in Due PROVE \E i \in 1..Len(results) : name(i) = Selected[k]
          BY <2>3, <3>1, <4>1
        <4> QED
          BY <4>1
      <3>6. ASSUME NEW k \in Due, NEW l \in Due, k < l, l \in answered PROVE k \in answered
        <4>1. PICK i \in 1..Len(results) : name(i) = Selected[l]
          BY <3>6
        <4>2. PICK m \in 1..Len(valid) : valid[m] = Selected[k]
          BY <2>3
        <4>3. k \in Nat /\ l \in Nat /\ i \in Nat /\ m \in Nat /\ m >= 1
          BY <2>1, <2>2
        <4>4. ~(i < m)
          BY <2>3, <3>1, <3>6, <4>1, <4>2, <4>3
        <4>5. m \in 1..Len(results) /\ name(m) = Selected[k]
          BY <2>1, <3>1, <4>1, <4>2, <4>3, <4>4
        <4> QED
          BY <4>5
      <3> QED
        BY <2>5, <3>2, <3>3, <3>4, <3>5, <3>6 DEF EveryServiceAnswers
    <2> QED
      BY <2>1, <2>4, <2>5
  <1> QED
    BY <1>1, IndInvHolds, AnswersHold, DueHolds, PTL

\* For every max_retries but the largest int, whose number of attempts
\* overflows: unless it is cancelled, an upload is reported a transient failure
\* only after all its attempts, and never aborted; and another attempt follows only
\* a transient failure, cancelled or not.
THEOREM AllAttemptsAreUsed ==
    ASSUME settings.maxRetries < MaxInt
    PROVE  Spec => []TransientFailuresUseAllAttempts
  <1>1. 1 <= Attempts
    BY AttemptsFacts
  <1>2. Init => EndsAreExhausted
    BY DEF Init, EndsAreExhausted
  <1>3. IndInv /\ AttemptsAreLeft /\ EndsAreExhausted /\ [Next]_vars => EndsAreExhausted'
    BY <1>1, EndsStep
  <1>4. EndsAreExhausted /\ AttemptsAreLeft => TransientFailuresUseAllAttempts
    BY DEF EndsAreExhausted, Exhausted, AttemptsAreLeft, TransientFailuresUseAllAttempts
  <1>5. Spec => []EndsAreExhausted
    BY <1>2, <1>3, IndInvHolds, AnswersHold, PTL DEF Spec
  <1> QED
    BY <1>4, <1>5, AnswersHold, PTL

-----------------------------------------------------------------------------

\* The last event is the one LastState chooses.
LEMMA LastIsLastState ==
    ASSUME NEW s, NEW x, LastIs(ch, view, s, x)
    PROVE  LastState(s) = x
  <1> DEFINE Max(i) == i \in Sent(ch, s) /\ \A j \in Sent(ch, s) : j <= i
  <1>0. Sent(ch, s) \subseteq Int
    BY DEF Sent
  <1>1. CASE Sent(ch, s) = {}
    BY <1>1 DEF LastIs, LastState, Sent
  <1>2. CASE Sent(ch, s) # {}
    <2>1. PICK m : Max(m) /\ x = ch[m].state
      BY <1>2 DEF LastIs
    <2>2. \A i : Max(i) => i = m
      BY <1>0, <2>1
    <2> HIDE DEF Max
    <2>3. (CHOOSE i : Max(i)) = m
      BY <2>1, <2>2
    <2>4. (CHOOSE i \in Sent(ch, s) : \A j \in Sent(ch, s) : j <= i) = m
      BY <2>3 DEF Max
    <2> QED
      BY <1>2, <2>1, <2>4 DEF LastState, Sent
  <1> QED
    BY <1>1, <1>2

\* An event is one: its fields have their types.
LEMMA EventFacts ==
    ASSUME NEW c \in Seq(Progress)
    PROVE  \A n \in 1..Len(c) :
               /\ c[n] \in Progress /\ c[n].service \in Service /\ c[n].state \in EventStates
               /\ c[n].bytes \in 0..FileSize /\ c[n].attempt \in Nat
  <1>1. \A n \in 1..Len(c) : c[n] \in Progress
    BY ElementOfSeq
  <1> QED
    BY <1>1 DEF Progress

\* What is shown is a view.
LEMMA ShownFacts ==
    ASSUME NEW v \in View, NEW p \in Progress
    PROVE  Shown(v, p) \in View
  BY DEF Shown, View, Progress, EventStates

\* A promised event is sent: it is what the reader will know last.
LEMMA SentComes ==
    ASSUME NEW c \in Seq(Progress), NEW v, NEW k \in [Service -> View], Coming(c, v, k),
           NEW p \in Progress, NEW l, Leads(k, p, l)
    PROVE  l \in [Service -> View] /\ Coming(Append(c, p), v, l)
  <1> DEFINE N == Len(c)
             s == p.service
             d == Append(c, p)
  <1>0. /\ N \in Nat /\ Len(d) = N + 1 /\ d[N + 1] = p
        /\ \A i \in 1..N : d[i] = c[i]
        /\ s \in Service
    BY DEF Progress
  <1> HIDE DEF d
  <1>1. l \in [Service -> View] /\ l[s] = Shown(k[s], p) /\ \A t \in Service \ {s} : l[t] = k[t]
    <2>1. Shown(k[s], p) \in View
      BY <1>0, ShownFacts
    <2> QED
      BY <1>0, <2>1 DEF Leads
  <1>2. PICK T : Trace(c, v, T) /\ T[N] = k
    BY DEF Coming
  <1> DEFINE S == [n \in 0..(N + 1) |-> IF n = N + 1 THEN l ELSE T[n]]
  <1>3. Trace(d, v, S)
    <2>1. T \in [0..N -> [Service -> View]]
      BY <1>2 DEF Trace
    <2>2. S \in [0..(N + 1) -> [Service -> View]]
      BY <1>0, <1>1, <2>1
    <2>3. S[0] = v
      BY <1>0, <1>2 DEF Trace
    <2>4. ASSUME NEW n \in 1..(N + 1) PROVE Leads(S[n - 1], d[n], S[n])
      <3>1. CASE n = N + 1
        <4>1. S[n - 1] = k /\ d[n] = p /\ S[n] = l
          BY <1>0, <1>2, <3>1
        <4> QED
          BY <4>1
      <3>2. CASE n \in 1..N
        <4>1. S[n - 1] = T[n - 1] /\ d[n] = c[n] /\ S[n] = T[n]
          BY <1>0, <3>2
        <4> QED
          BY <1>2, <3>2, <4>1 DEF Trace
      <3> QED
        BY <1>0, <3>1, <3>2
    <2> HIDE DEF S
    <2> QED
      BY <1>0, <2>2, <2>3, <2>4 DEF Trace
  <1>4. S[N + 1] = l
    BY <1>0
  <1>5. ASSUME NEW t \in Service PROVE LastIs(d, v, t, l[t].state)
    <2>1. CASE t = s
      <3>1. Sent(d, t) = Sent(c, t) \cup {N + 1}
        BY <1>0, <2>1 DEF Sent
      <3>2. \A j \in Sent(d, t) : j <= N + 1
        BY <1>0, <3>1 DEF Sent
      <3>3. l[t].state = p.state
        BY <1>1, <2>1 DEF Shown
      <3> QED
        BY <1>0, <3>1, <3>2, <3>3 DEF LastIs
    <2>2. CASE t # s
      <3>1. Sent(d, t) = Sent(c, t)
        BY <1>0, <2>2 DEF Sent
      <3>2. LastIs(c, v, t, k[t].state) /\ l[t] = k[t]
        BY <1>1, <2>2 DEF Coming
      <3>3. \A i \in Sent(c, t) : d[i] = c[i]
        BY <1>0 DEF Sent
      <3> QED
        BY <3>1, <3>2, <3>3 DEF LastIs
    <2> QED
      BY <2>1, <2>2
  <1> HIDE DEF S
  <1>6. Coming(d, v, l)
    BY <1>0, <1>3, <1>4, <1>5 DEF Coming
  <1> QED
    BY <1>1, <1>6 DEF d

\* The first event is taken: it leads where it was promised to, and the reader
\* comes to know the same in the end.
LEMMA TakenComes ==
    ASSUME NEW c \in Seq(Progress), c # <<>>, NEW v, NEW k \in [Service -> View], Coming(c, v, k)
    PROVE  \E w \in [Service -> View] : Leads(v, Head(c), w) /\ Coming(Tail(c), w, k)
  <1> DEFINE N == Len(c)
             d == Tail(c)
             p == Head(c)
  <1>0. /\ N \in Nat \ {0} /\ Len(d) = N - 1 /\ p = c[1]
        /\ \A i \in 1..(N - 1) : d[i] = c[i + 1]
        /\ c[1].service \in Service
    <2>1. c[1].service \in Service
      BY EventFacts
    <2> QED
      BY <2>1
  <1> HIDE DEF d, p
  <1>2. PICK T : Trace(c, v, T) /\ T[N] = k
    BY DEF Coming
  <1> DEFINE S == [n \in 0..(N - 1) |-> T[n + 1]]
             w == T[1]
  <1>1. /\ w \in [Service -> View] /\ Leads(v, p, w)
        /\ w[p.service].state = p.state /\ \A t \in Service \ {p.service} : w[t] = v[t]
    <2>1. T \in [0..N -> [Service -> View]] /\ Leads(T[0], c[1], T[1]) /\ T[0] = v
      BY <1>0, <1>2 DEF Trace
    <2>2. v \in [Service -> View]
      BY <1>0, <2>1
    <2> QED
      BY <1>0, <2>1, <2>2 DEF Leads, Shown
  <1>3. Trace(d, w, S)
    <2>1. T \in [0..N -> [Service -> View]]
      BY <1>2 DEF Trace
    <2>2. S \in [0..(N - 1) -> [Service -> View]]
      BY <1>0, <2>1
    <2>3. S[0] = w
      BY <1>0
    <2>4. ASSUME NEW n \in 1..(N - 1) PROVE Leads(S[n - 1], d[n], S[n])
      <3>1. S[n - 1] = T[(n + 1) - 1] /\ d[n] = c[n + 1] /\ S[n] = T[n + 1]
        BY <1>0
      <3> QED
        BY <1>0, <1>2, <3>1 DEF Trace
    <2> HIDE DEF S
    <2> QED
      BY <1>0, <2>2, <2>3, <2>4 DEF Trace
  <1>4. S[N - 1] = k
    BY <1>0, <1>2
  <1>5. ASSUME NEW t \in Service PROVE LastIs(d, w, t, k[t].state)
    <2>0. LastIs(c, v, t, k[t].state)
      BY DEF Coming
    <2>1. \A i : i \in Sent(d, t) <=> i \in Nat /\ i # 0 /\ i + 1 \in Sent(c, t)
      BY <1>0 DEF Sent
    <2>a. /\ Sent(c, t) \subseteq 1..N /\ Sent(d, t) \subseteq 1..(N - 1)
          /\ 1 \in Sent(c, t) <=> p.service = t
      BY <1>0 DEF Sent
    <2>b. Sent(d, t) = {} => Sent(c, t) \subseteq {1}
      <3> SUFFICES ASSUME Sent(d, t) = {}, NEW i \in Sent(c, t), i # 1 PROVE FALSE
        OBVIOUS
      <3>1. i \in 2..N
        BY <1>0, <2>a
      <3>2. i - 1 \in Sent(d, t)
        <4>1. i - 1 \in Nat /\ i - 1 # 0 /\ (i - 1) + 1 = i
          BY <1>0, <3>1
        <4> QED
          BY ONLY <2>1, <4>1
      <3> QED
        BY <3>2
    <2>2. CASE Sent(d, t) = {}
      <3>1. CASE p.service = t
        <4>1. Sent(c, t) = {1}
          BY ONLY <2>a, <2>b, <2>2, <3>1
        <4>2. k[t].state = p.state
          BY <1>0, <2>0, <4>1 DEF LastIs
        <4> QED
          BY <1>1, <2>2, <3>1, <4>2 DEF LastIs
      <3>2. CASE p.service # t
        <4>1. Sent(c, t) = {}
          BY <2>a, <2>b, <2>2, <3>2
        <4> QED
          BY <1>1, <2>0, <2>2, <3>2, <4>1 DEF LastIs
      <3> QED
        BY <3>1, <3>2
    <2>3. CASE Sent(d, t) # {}
      <3>1. PICK j : j \in Sent(d, t)
        BY <2>3
      <3>2. PICK i \in Sent(c, t) : (\A n \in Sent(c, t) : n <= i) /\ k[t].state = c[i].state
        BY <2>0, <2>1, <3>1 DEF LastIs
      <3>3. i \in 2..N
        BY <1>0, <2>1, <3>1, <3>2 DEF Sent
      <3>4. i - 1 \in Sent(d, t) /\ d[i - 1] = c[i]
        <4>1. i - 1 \in Nat /\ i - 1 # 0 /\ (i - 1) + 1 = i /\ i - 1 \in 1..(N - 1)
          BY <1>0, <3>3
        <4> QED
          BY ONLY <1>0, <2>1, <3>2, <4>1
      <3>5. \A n \in Sent(d, t) : n <= i - 1
        BY <2>1, <3>2, <3>3
      <3> QED
        BY <3>2, <3>4, <3>5 DEF LastIs
    <2> QED
      BY <2>2, <2>3
  <1> HIDE DEF S, w
  <1>6. Coming(d, w, k)
    BY <1>0, <1>3, <1>4, <1>5 DEF Coming
  <1> QED
    BY <1>1, <1>6 DEF d, p

\* Where a goroutine that does nothing stands.
LEMMA StandsFrame ==
    ASSUME NEW t, NEW v, Stands(t, v), pc'[t] = pc[t], attempt'[t] = attempt[t], res'[t] = res[t],
           tick'[t] = tick[t], read'[t] = read[t], snap'[t] = snap[t]
    PROVE  Stands(t, v)'
  BY DEF Stands

\* A step of one service's goroutines changes nothing of another service's.
LEMMA ReadersAreLocal ==
    ASSUME TypeOK, NEW s \in Service, NEW t \in Service \ {s}, doUploadGoes(s) \/ Read(s) \/ Ticking(s)
    PROVE  /\ pc'[t] = pc[t] /\ attempt'[t] = attempt[t] /\ res'[t] = res[t]
           /\ tick'[t] = tick[t] /\ read'[t] = read[t] /\ snap'[t] = snap[t]
  <1> USE DEF uploadVars, readerVars
  <1>0. /\ tick \in [Service -> TickStates] /\ read \in [Service -> 0..FileSize]
        /\ snap \in [Service -> 0..FileSize]
    BY DEF TypeOK
  <1>1. CASE doUploadGoes(s)
    <2>1. pc'[t] = pc[t] /\ attempt'[t] = attempt[t] /\ res'[t] = res[t]
      BY <1>1, LocalsAreLocal
    <2>2. CASE newProgressReader(s) \/ CloseReader(s)
      BY <1>0, <2>1, <2>2 DEF newProgressReader, CloseReader
    <2>3. CASE ~(newProgressReader(s) \/ CloseReader(s))
      BY <1>1, <2>1, <2>3
         DEF doUploadGoes, SendStarting, BeginAttempt, EndLoop, OpenFile, UploadReturns, Decide,
             SendRetry, BackoffElapsed, BackoffCancelled, SendTerminal, Collect
    <2> QED
      BY <2>2, <2>3
  <1>2. CASE Read(s) \/ Ticking(s)
    BY <1>0, <1>2 DEF Read, Ticking, Tick, TickDone, TickSend
  <1> QED
    BY <1>1, <1>2

\* A step that sends an event of s as promised keeps the stream, if s then stands
\* where the event says, has no result yet and nothing changes for the others.
LEMMA SendStep ==
    ASSUME TypeOK, NEW k \in [Service -> View], Coming(ch, view, k), Agrees(k),
           \A t \in Service : Stands(t, k[t]),
           NEW s \in Service, NEW p \in Progress, p.service = s,
           ch' = Append(ch, p), view' = view, results' = results,
           \A i \in 1..Len(results) : results[i].service # s,
           \A t \in Service \ {s} : Stands(t, k[t])',
           Promised(s, k[s], Shown(k[s], p)), Stands(s, Shown(k[s], p))'
    PROVE  StreamInv'
  <1> DEFINE l == [k EXCEPT ![s] = Shown(k[s], p)]
  <1>1. Leads(k, p, l)
    BY DEF Leads
  <1>2. ch \in Seq(Progress)
    BY DEF TypeOK
  <1>3. l \in [Service -> View] /\ Coming(ch', view', l)
    BY <1>1, <1>2, SentComes
  <1>4. l[s] = Shown(k[s], p) /\ \A t \in Service \ {s} : l[t] = k[t]
    OBVIOUS
  <1> HIDE DEF l
  <1>5. \A i \in 1..Len(results) : results[i].service \in Service
    BY ResultsAreTyped
  <1>6. Agrees(l)'
    BY <1>4, <1>5 DEF Agrees
  <1>7. \A t \in Service : Stands(t, l[t])'
    BY <1>4
  <1> QED
    BY <1>3, <1>6, <1>7 DEF StreamInv

\* Every step keeps the stream: nothing is sent but what ProgressStream allows.
LEMMA StreamStep ==
    ASSUME IndInv, AnswersInv, AttemptsAreLeft, StreamInv, [Next]_vars
    PROVE  StreamInv'
  <1> USE ConstantFacts DEF vars, callVars, uploadVars, readerVars, channelVars
  <1>0. /\ TypeOK /\ ResIsSet /\ UploadsAreInside /\ TickersAreInside /\ ResultsAreOver
        /\ pc \in [Service -> UploadStates] /\ attempt \in [Service -> Nat]
        /\ res \in [Service -> Result \cup {None}] /\ tick \in [Service -> TickStates]
        /\ read \in [Service -> 0..FileSize] /\ snap \in [Service -> 0..FileSize]
        /\ results \in Seq(ResultRec) /\ ch \in Seq(Progress) /\ Attempts \in Int
    BY AttemptsFacts, ResultsAreTyped DEF IndInv, TypeOK, AnswersInv
  <1>k. PICK k \in [Service -> View] : /\ Coming(ch, view, k) /\ Agrees(k)
                                       /\ \A t \in Service : Stands(t, k[t])
    BY DEF StreamInv
  <1>v. ASSUME NEW t \in Service
        PROVE  /\ k[t] \in View /\ k[t].state \in EventStates \cup {"none"}
               /\ k[t].bytes \in 0..FileSize /\ k[t].failed \in Nat
               /\ k[t] = [state |-> k[t].state, bytes |-> k[t].bytes, failed |-> k[t].failed]
    <2>1. k[t] \in View
      OBVIOUS
    <2> QED
      BY <2>1 DEF View
  <1>r. ASSUME NEW t \in Service, pc[t] # "idle"
        PROVE  \A i \in 1..Len(results) : results[i].service # t
    BY <1>0, <1>r DEF ResultsAreOver, Running
  <1>1. ASSUME UNCHANGED <<ch, view>>, Agrees(k)', \A t \in Service : Stands(t, k[t])'
        PROVE  StreamInv'
    <2>1. Coming(ch', view', k)
      BY <1>k, <1>1
    <2> QED
      BY <1>1, <2>1 DEF StreamInv
  <1>2. ASSUME UNCHANGED <<pc, attempt, res, read, tick, snap>>
        PROVE  \A t \in Service : Stands(t, k[t])'
    BY <1>k, <1>2, StandsFrame
  <1>3. CASE Cancel \/ CallerGoes \/ Finished \/ UNCHANGED vars
    <2>1. UNCHANGED <<ch, view, pc, attempt, res, read, tick, snap>>
      BY <1>3 DEF Cancel, CallerGoes, CallUploadFile, ReturnResult, CloseChannel, Finished
    <2>2. results' = results \/ results' = <<>>
      BY <1>3 DEF Cancel, CallerGoes, CallUploadFile, ReturnResult, CloseChannel, Finished
    <2>3. Agrees(k)'
      BY <1>k, <2>2 DEF Agrees
    <2> QED
      BY <1>1, <1>2, <2>1, <2>3
  <1>4. CASE Receive
    <2>1. /\ ch # <<>> /\ ch' = Tail(ch)
          /\ view' = [view EXCEPT ![Head(ch).service] = Shown(view[Head(ch).service], Head(ch))]
          /\ UNCHANGED <<results, pc, attempt, res, read, tick, snap>>
      BY <1>4 DEF Receive, Shown
    <2>2. PICK w \in [Service -> View] : Leads(view, Head(ch), w) /\ Coming(Tail(ch), w, k)
      BY <1>0, <1>k, <2>1, TakenComes
    <2>3. w = view'
      BY <2>1, <2>2 DEF Leads
    <2>4. Agrees(k)'
      BY <1>k, <2>1 DEF Agrees
    <2> QED
      BY <1>2, <2>1, <2>2, <2>3, <2>4 DEF StreamInv
  <1>5. CASE ValidateCredentials
    <2>1. UNCHANGED <<view, results, pc, attempt, res, read, tick, snap>>
      BY <1>5 DEF ValidateCredentials, Send
    <2>2. CASE ch' = ch
      <3>1. Agrees(k)'
        BY <1>k, <2>1 DEF Agrees
      <3> QED
        BY <1>1, <1>2, <2>1, <2>2, <3>1
    <2>3. CASE ch' # ch
      <3>0. Head(queue) \in Service
        BY <1>0, <1>5 DEF ValidateCredentials, TypeOK
      <3>s. PICK s \in Service : s = Head(queue)
        BY <3>0
      <3> DEFINE p == [service |-> s, state |-> "error", bytes |-> 0, attempt |-> 0]
      <3>1. s \notin HasCredentials /\ ch' = Append(ch, p)
        BY <1>5, <2>3, <3>s DEF ValidateCredentials, Send
      <3>2. p \in Progress /\ p.service = s
        BY <3>1 DEF Progress, EventStates
      <3>3. \A i \in 1..Len(results) : results[i].service # s
        BY <1>5 DEF ValidateCredentials, AnswersInv, ValidServices
      <3>4. Shown(k[s], p) = [state |-> "error", bytes |-> 0, failed |-> 0]
        BY <1>k, <3>1 DEF Shown, Stands
      <3>5. \A t \in Service : Stands(t, k[t])'
        BY <1>2, <2>1
      <3>6. pc[s] = "idle" /\ tick[s] = "off"
        BY <1>0, <1>5, <3>1 DEF ValidateCredentials, UploadsAreInside, TickersAreInside, Running, TickStates
      <3>7. Stands(s, Shown(k[s], p))'
        BY <2>1, <3>4, <3>6 DEF Stands, Stream!Quiet
      <3>8. Promised(s, k[s], Shown(k[s], p))
        BY <3>1, <3>4 DEF Promised
      <3> HIDE DEF p
      <3> QED
        BY <1>0, <1>k, <2>1, <3>1, <3>2, <3>3, <3>5, <3>7, <3>8, SendStep
    <2> QED
      BY <2>2, <2>3
  <1>6. CASE uploadParallel \/ uploadSequential \/ NextService \/ ParallelWait
    <2>1. UNCHANGED <<ch, view, results, attempt, res, read, tick, snap>>
      BY <1>6 DEF uploadParallel, uploadSequential, NextService, ParallelWait
    <2>2. ASSUME NEW t \in Service
          PROVE  pc'[t] = pc[t] \/ (pc[t] = "idle" /\ pc'[t] = "starting")
      <3>1. CASE uploadParallel \/ NextService
        <4>1. pc[t] = "idle"
          BY <1>0, <3>1 DEF uploadParallel, NextService, UploadsAreInside, Running
        <4>2. CASE uploadParallel
          BY <4>1, <4>2 DEF uploadParallel
        <4>3. CASE NextService
          BY <1>0, <4>1, <4>3 DEF NextService
        <4> QED
          BY <3>1, <4>2, <4>3
      <3> QED
        BY <1>6, <3>1 DEF uploadSequential, ParallelWait
    <2>3. Agrees(k)'
      BY <1>k, <2>1 DEF Agrees
    <2>4. \A t \in Service : Stands(t, k[t])'
      BY <1>k, <2>1, <2>2 DEF Stands
    <2> QED
      BY <1>1, <2>1, <2>3, <2>4
  <1>7. ASSUME NEW s \in Service, Read(s) \/ Tick(s) \/ TickDone(s)
        PROVE  StreamInv'
    <2>1. UNCHANGED <<ch, view, results, pc, attempt, res>>
      BY <1>7 DEF Read, Tick, TickDone
    <2>2. Agrees(k)'
      BY <1>k, <2>1 DEF Agrees
    <2>3. Stands(s, k[s])'
      <3>1. pc[s] \in {"transfer", "close"}
        BY <1>0, <1>7 DEF Read, Tick, TickDone, TickersAreInside
      <3>2. CASE Read(s)
        <4>1. read'[s] = read[s] + 1 /\ tick' = tick /\ snap' = snap /\ read[s] \in Nat
          BY <1>0, <3>2 DEF Read
        <4>2. Stands(s, k[s]) /\ k[s].bytes \in Int /\ snap[s] \in Int
          BY <1>0, <1>k, <1>v
        <4>3. k[s].bytes <= read[s] => k[s].bytes <= read'[s]
          BY <4>1, <4>2
        <4>4. snap[s] <= read[s] => snap[s] <= read'[s]
          BY <4>1, <4>2
        <4> QED
          BY ONLY <2>1, <4>1, <4>2, <4>3, <4>4 DEF Stands
      <3>3. CASE Tick(s) \/ TickDone(s)
        <4>1. snap'[s] = read[s] /\ read' = read /\ read[s] \in Nat
          BY <1>0, <3>3 DEF Tick, TickDone
        <4> QED
          BY <1>0, <1>k, <1>v, <2>1, <3>1, <4>1 DEF Stands
      <3> QED
        BY <1>7, <3>2, <3>3
    <2>4. \A t \in Service : Stands(t, k[t])'
      BY <1>0, <1>k, <1>7, <2>3, ReadersAreLocal, StandsFrame DEF Ticking
    <2> QED
      BY <1>1, <2>1, <2>2, <2>4
  <1>8. ASSUME NEW s \in Service, TickSend(s) PROVE StreamInv'
    <2>0. PICK b \in 0..FileSize : b = snap[s]
      BY <1>0
    <2> DEFINE p == [service |-> s, state |-> "uploading", bytes |-> b, attempt |-> 0]
    <2>1. /\ ch' = Append(ch, p) /\ view' = view
          /\ tick'[s] \in {"select", "stopped"}
          /\ UNCHANGED <<results, pc, attempt, res, read>>
      BY <1>0, <1>8, <2>0 DEF TickSend, Send
    <2>2. p \in Progress /\ p.service = s
      BY <1>0 DEF Progress, EventStates
    <2>3. tick[s] \in {"emit", "final"} /\ pc[s] \in {"transfer", "close"}
      BY <1>0, <1>8 DEF TickSend, TickersAreInside
    <2>4. /\ k[s].state = "uploading" /\ k[s].bytes <= b /\ b <= read[s]
          /\ k[s].failed + 1 = attempt[s] /\ (s \notin HasCredentials => k[s].bytes = 0 /\ k[s].failed = 0)
      BY <1>k, <2>0, <2>3 DEF Stands
    <2>5. Shown(k[s], p) = [state |-> "uploading", bytes |-> b, failed |-> k[s].failed]
      BY DEF Shown
    <2>6. b \in k[s].bytes..FileSize
      BY <1>0, <1>v, <2>4
    <2>7. Shown(k[s], p) = [k[s] EXCEPT !.bytes = b]
      <3>1. k[s] = [state |-> k[s].state, bytes |-> k[s].bytes, failed |-> k[s].failed]
        BY <1>v
      <3> QED
        BY ONLY <2>4, <2>5, <3>1
    <2>8. Promised(s, k[s], Shown(k[s], p))
      BY <2>4, <2>6, <2>7 DEF Promised
    <2>c. s \in HasCredentials
      BY <2>3 DEF AnswersInv, UploadsHaveCredentials, Running
    <2>9. Stands(s, Shown(k[s], p))'
      BY <2>1, <2>3, <2>4, <2>5, <2>c DEF Stands
    <2>10. \A t \in Service \ {s} : Stands(t, k[t])'
      BY <1>0, <1>k, <1>8, ReadersAreLocal, StandsFrame DEF Ticking
    <2>11. \A i \in 1..Len(results) : results[i].service # s
      BY <1>r, <2>3
    <2> HIDE DEF p
    <2> QED
      BY <1>0, <1>k, <2>1, <2>2, <2>8, <2>9, <2>10, <2>11, SendStep
  <1>9. ASSUME NEW s \in Service, doUploadGoes(s) PROVE StreamInv'
    <2> USE DEF Goto
    <2>o. \A t \in Service \ {s} : Stands(t, k[t])'
      BY <1>0, <1>k, <1>9, ReadersAreLocal, StandsFrame
    <2>h. pc[s] # "idle" /\ s \in HasCredentials
      <3>1. pc[s] # "idle"
        BY <1>9 DEF doUploadGoes, SendStarting, BeginAttempt, EndLoop, OpenFile,
                    newProgressReader, UploadReturns, CloseReader, Decide, SendRetry,
                    BackoffElapsed, BackoffCancelled, SendTerminal, Collect
      <3> QED
        BY <3>1 DEF AnswersInv, UploadsHaveCredentials, Running
    <2>s. \A i \in 1..Len(results) : results[i].service # s
      BY <1>r, <2>h
    <2>k. /\ Stands(s, k[s]) /\ k[s].failed \in Nat
          /\ k[s] = [state |-> k[s].state, bytes |-> k[s].bytes, failed |-> k[s].failed]
      BY <1>k, <1>v
    <2>q. ASSUME UNCHANGED <<ch, view, results>>, Stands(s, k[s])' PROVE StreamInv'
      <3>1. Agrees(k)'
        BY <1>k, <2>q DEF Agrees
      <3> QED
        BY <1>1, <2>o, <2>q, <3>1
    <2>e. ASSUME NEW p \in Progress, p.service = s, ch' = Append(ch, p), view' = view,
                 results' = results, Promised(s, k[s], Shown(k[s], p)), Stands(s, Shown(k[s], p))'
          PROVE  StreamInv'
      BY <1>0, <1>k, <2>e, <2>o, <2>s, SendStep
    <2>1. CASE SendStarting(s)
      <3> DEFINE p == [service |-> s, state |-> "starting", bytes |-> 0, attempt |-> 0]
      <3>1. /\ ch' = Append(ch, p) /\ view' = view /\ pc'[s] = "check" /\ attempt'[s] = 1
            /\ UNCHANGED <<results, tick>> /\ pc[s] = "starting"
        BY <1>0, <2>1 DEF SendStarting, Send
      <3>2. p \in Progress /\ p.service = s
        BY DEF Progress, EventStates
      <3>3. Shown(k[s], p) = [state |-> "starting", bytes |-> 0, failed |-> 0]
        BY DEF Shown
      <3>4. Promised(s, k[s], Shown(k[s], p))
        BY <2>h, <2>k, <3>1, <3>3 DEF Promised, Stands
      <3>5. tick[s] = "off"
        BY <1>0, <3>1 DEF TickersAreInside
      <3>6. Stands(s, Shown(k[s], p))'
        BY <2>h, <3>1, <3>3, <3>5 DEF Stands
      <3> HIDE DEF p
      <3> QED
        BY <2>e, <3>1, <3>2, <3>4, <3>6
    <2>2. CASE BeginAttempt(s) \/ OpenFile(s)
      <3>1. /\ UNCHANGED <<ch, view, results, tick, attempt>> /\ pc[s] \in {"check", "open"}
            /\ pc'[s] \in {"open", "track"} \/ (pc'[s] = "decide" /\ \E e \in Failure : res'[s].err = e)
        BY <1>0, <2>2 DEF BeginAttempt, OpenFile
      <3>2. tick[s] = "off"
        BY <1>0, <3>1 DEF TickersAreInside
      <3>3. Stands(s, k[s])'
        BY <2>k, <3>1, <3>2 DEF Stands, Stream!Active
      <3> QED
        BY <2>q, <3>1, <3>3
    <2>3. CASE EndLoop(s)
      <3>1. /\ UNCHANGED <<ch, view, results, tick>> /\ pc[s] = "check" /\ pc'[s] = "finish"
            /\ res'[s] = IF res[s] = None THEN [err |-> Aborted, after |-> 0] ELSE res[s]
        BY <1>0, <2>3 DEF EndLoop
      <3>2. tick[s] = "off" /\ (res[s] # None => res[s].err # None) /\ Aborted # None
        BY <1>0, <3>1, UploaderAssumption DEF TickersAreInside, AttemptsAreLeft
      <3>3. res'[s].err # None
        BY <3>1, <3>2
      <3>4. Stands(s, k[s])'
        BY <2>k, <3>1, <3>2, <3>3 DEF Stands, Stream!Active
      <3> QED
        BY <2>q, <3>1, <3>4
    <2>4. CASE newProgressReader(s)
      <3> DEFINE p == [service |-> s, state |-> "uploading", bytes |-> 0, attempt |-> 0]
      <3>1. /\ ch' = Append(ch, p) /\ view' = view /\ pc'[s] = "transfer" /\ tick'[s] = "select"
            /\ UNCHANGED <<results, attempt, read>> /\ pc[s] = "track"
        BY <1>0, <2>4 DEF newProgressReader, Send
      <3>2. p \in Progress /\ p.service = s
        BY DEF Progress, EventStates
      <3>3. Shown(k[s], p) = [state |-> "uploading", bytes |-> 0, failed |-> k[s].failed]
        BY DEF Shown
      <3>4. Promised(s, k[s], Shown(k[s], p))
        BY <2>k, <3>1, <3>3 DEF Promised, Stands
      <3>5. 0 <= read[s]
        BY <1>0
      <3>6. Stands(s, Shown(k[s], p))'
        BY <2>h, <2>k, <3>1, <3>3, <3>5 DEF Stands
      <3> HIDE DEF p
      <3> QED
        BY <2>e, <3>1, <3>2, <3>4, <3>6
    <2>5. CASE UploadReturns(s)
      <3>1. /\ UNCHANGED <<ch, view, results, tick, attempt, read, snap>>
            /\ pc[s] = "transfer" /\ pc'[s] = "close"
        BY <1>0, <2>5 DEF UploadReturns
      <3>2. Stands(s, k[s])'
        BY <2>k, <3>1 DEF Stands
      <3> QED
        BY <2>q, <3>1, <3>2
    <2>6. CASE CloseReader(s)
      <3>1. /\ UNCHANGED <<ch, view, results, res, attempt, snap>> /\ tick'[s] = "off"
            /\ pc[s] = "close" /\ pc'[s] = "decide"
        BY <1>0, <2>6 DEF CloseReader
      <3>2. Stands(s, k[s])'
        BY <2>k, <3>1 DEF Stands, Stream!Active
      <3> QED
        BY <2>q, <3>1, <3>2
    <2>7. CASE Decide(s)
      <3>1. /\ UNCHANGED <<ch, view, results, attempt, tick>> /\ pc[s] = "decide"
            /\ \/ pc'[s] = "finish" /\ res' = res
               \/ pc'[s] = "finish" /\ res[s].err # None
                  /\ \E n : res' = [res EXCEPT ![s] = [res[s] EXCEPT !.after = n]]
               \/ pc'[s] = "retry" /\ res' = res
        BY <1>0, <2>7 DEF Decide
      <3>2. tick[s] = "off" /\ res[s] \in Result
        BY <1>0, <3>1 DEF TickersAreInside, ResIsSet
      <3>3. res'[s].err = res[s].err
        BY <1>0, <3>1, <3>2 DEF Result
      <3>4. Stands(s, k[s])'
        BY <2>k, <3>1, <3>2, <3>3 DEF Stands
      <3> QED
        BY <2>q, <3>1, <3>4
    <2>8. CASE SendRetry(s)
      <3>0. PICK n \in Nat : n = attempt[s]
        BY <1>0
      <3> DEFINE p == [service |-> s, state |-> "retry", bytes |-> 0, attempt |-> n]
      <3>1. /\ ch' = Append(ch, p) /\ view' = view /\ pc'[s] = "sleep"
            /\ UNCHANGED <<results, attempt, tick>> /\ pc[s] = "retry"
        BY <1>0, <2>8, <3>0 DEF SendRetry, Send
      <3>2. p \in Progress /\ p.service = s
        BY DEF Progress, EventStates
      <3>3. Shown(k[s], p) = [state |-> "retry", bytes |-> 0, failed |-> n]
        BY DEF Shown
      <3>4. n = k[s].failed + 1 /\ n < Attempts /\ k[s].state \in Stream!Active
        BY <2>k, <3>0, <3>1 DEF Stands, AttemptsAreLeft
      <3>5. Promised(s, k[s], Shown(k[s], p))
        BY <3>3, <3>4 DEF Promised
      <3>6. tick[s] = "off"
        BY <1>0, <3>1 DEF TickersAreInside
      <3>7. Stands(s, Shown(k[s], p))'
        BY <2>h, <3>0, <3>1, <3>3, <3>6 DEF Stands
      <3> HIDE DEF p
      <3> QED
        BY <2>e, <3>1, <3>2, <3>5, <3>7
    <2>9. CASE BackoffElapsed(s)
      <3>1. /\ UNCHANGED <<ch, view, results, tick>> /\ pc[s] = "sleep" /\ pc'[s] = "check"
            /\ attempt'[s] = attempt[s] + 1
        BY <1>0, <2>9 DEF BackoffElapsed
      <3>2. tick[s] = "off"
        BY <1>0, <3>1 DEF TickersAreInside
      <3>3. Stands(s, k[s])'
        BY <2>k, <3>1, <3>2 DEF Stands
      <3> QED
        BY <2>q, <3>1, <3>3
    <2>10. CASE BackoffCancelled(s)
      <3>1. /\ UNCHANGED <<ch, view, results, tick, res>> /\ pc[s] = "sleep" /\ pc'[s] = "finish"
        BY <1>0, <2>10 DEF BackoffCancelled
      <3>2. tick[s] = "off" /\ res[s].err # None
        BY <1>0, <3>1 DEF TickersAreInside, ResIsSet, AttemptsAreLeft
      <3>3. Stands(s, k[s])'
        BY <2>k, <3>1, <3>2 DEF Stands, Stream!Active
      <3> QED
        BY <2>q, <3>1, <3>3
    <2>11. CASE SendTerminal(s)
      <3>0. PICK state \in {"done", "error"} : state = IF res[s].err = None THEN "done" ELSE "error"
        OBVIOUS
      <3> DEFINE p == [service |-> s, state |-> state, bytes |-> 0, attempt |-> 0]
      <3>1. /\ ch' = Append(ch, p) /\ view' = view /\ pc'[s] = "collect"
            /\ UNCHANGED <<results, res, tick>> /\ pc[s] = "finish"
        BY <1>0, <2>11, <3>0 DEF SendTerminal, Send
      <3>2. p \in Progress /\ p.service = s
        BY DEF Progress, EventStates
      <3>3. Shown(k[s], p) = [state |-> state, bytes |-> k[s].bytes, failed |-> k[s].failed]
        BY DEF Shown
      <3>4. Shown(k[s], p) = [k[s] EXCEPT !.state = state]
        BY <2>k, <3>3
      <3>5. k[s].state \in Stream!Active /\ (state = "done" => k[s].state = "uploading")
        BY <2>k, <3>0, <3>1 DEF Stands
      <3>6. Promised(s, k[s], Shown(k[s], p))
        BY <3>4, <3>5 DEF Promised
      <3>7. tick[s] = "off"
        BY <1>0, <3>1 DEF TickersAreInside
      <3>8. Stands(s, Shown(k[s], p))'
        BY <2>h, <3>0, <3>1, <3>3, <3>7 DEF Stands
      <3> HIDE DEF p
      <3> QED
        BY <2>e, <3>1, <3>2, <3>6, <3>8
    <2>12. CASE Collect(s)
      <3>0. PICK r \in ResultRec : r = [service |-> s, err |-> res[s].err, after |-> res[s].after]
        <4>1. res[s] \in Result
          BY <1>0, <2>12 DEF Collect, ResIsSet
        <4> QED
          BY <4>1 DEF Result, ResultRec
      <3>1. /\ UNCHANGED <<ch, view, tick>> /\ pc[s] = "collect" /\ pc'[s] = "idle"
            /\ results' = Append(results, r)
        BY <1>0, <2>12, <3>0 DEF Collect
      <3>2. /\ r.service = s /\ k[s].state = IF r.err = None THEN "done" ELSE "error"
            /\ k[s].state \in Stream!Quiet
        BY <2>k, <3>0, <3>1 DEF Stands, Stream!Quiet
      <3>3. Agrees(k)'
        <4>1. /\ \A i \in 1..Len(results') : i \in 1..Len(results) \/ i = Len(results) + 1
              /\ \A i \in 1..Len(results) : results'[i] = results[i]
              /\ results'[Len(results) + 1] = r
          BY <1>0, <3>1
        <4> QED
          BY <1>k, <3>2, <4>1 DEF Agrees
      <3>4. tick[s] = "off"
        BY <1>0, <3>1 DEF TickersAreInside
      <3>5. Stands(s, k[s])'
        BY <2>h, <3>1, <3>2, <3>4 DEF Stands
      <3> QED
        BY <1>1, <2>o, <3>1, <3>3, <3>5
    <2> QED
      BY <1>9, <2>1, <2>2, <2>3, <2>4, <2>5, <2>6, <2>7, <2>8, <2>9, <2>10, <2>11, <2>12
         DEF doUploadGoes
  <1> QED
    BY <1>3, <1>4, <1>5, <1>6, <1>7, <1>8, <1>9 DEF Next, UploadFileGoes, Ticking

-----------------------------------------------------------------------------

\* Nothing has been sent yet.
LEMMA InitStream == Init => StreamInv
  <1> SUFFICES ASSUME Init PROVE StreamInv
    OBVIOUS
  <1> DEFINE T == [n \in 0..0 |-> view]
  <1>0. view \in [Service -> View]
    BY InitInv DEF IndInv, TypeOK
  <1>1. ch = <<>> /\ Len(ch) = 0 /\ results = <<>>
    BY DEF Init
  <1>2. Trace(ch, view, T) /\ T[Len(ch)] = view
    BY <1>0, <1>1 DEF Trace
  <1>3. \A s \in Service : LastIs(ch, view, s, view[s].state)
    BY <1>1 DEF LastIs, Sent
  <1>4. Coming(ch, view, view)
    BY <1>2, <1>3 DEF Coming
  <1>5. \A s \in Service : Stands(s, view[s])
    BY DEF Init, Stands, Stream!Quiet
  <1> QED
    BY <1>0, <1>1, <1>4, <1>5 DEF StreamInv, Agrees

\* The stream is kept in every reachable state.
THEOREM StreamHolds == Spec => []StreamInv
  <1>1. IndInv /\ AnswersInv /\ AttemptsAreLeft /\ StreamInv /\ [Next]_vars => StreamInv'
    BY StreamStep
  <1> QED
    BY InitStream, <1>1, IndInvHolds, AnswersHold, PTL DEF Spec

\* Results and progress agree: a service whose result is in has sent its terminal
\* event, nothing after it, and "done" exactly if it succeeded.
THEOREM ResultsAndEventsAgree == Spec => []ResultsMatchEvents
  <1>1. IndInv /\ StreamInv => ResultsMatchEvents
    <2> SUFFICES ASSUME IndInv, StreamInv PROVE ResultsMatchEvents
      OBVIOUS
    <2>1. PICK k \in [Service -> View] : Coming(ch, view, k) /\ Agrees(k)
      BY DEF StreamInv
    <2>2. \A i \in 1..Len(results) : results[i].service \in Service
      BY ResultsAreTyped DEF IndInv
    <2>3. \A s \in Service : LastState(s) = k[s].state
      BY <2>1, LastIsLastState DEF Coming
    <2> QED
      BY <2>1, <2>2, <2>3 DEF Agrees, ResultsMatchEvents
  <1> QED
    BY <1>1, IndInvHolds, StreamHolds, PTL

\* A promised event, taken, is a step of ProgressStream.
LEMMA PromisedIsNext ==
    ASSUME view \in [Service -> View], NEW s \in Service, NEW w,
           view' = [view EXCEPT ![s] = w], Promised(s, view[s], w)
    PROVE  Stream!Next
  <1>1. CASE s \notin HasCredentials /\ w = [state |-> "error", bytes |-> 0, failed |-> 0]
    BY <1>1 DEF Stream!Next, Stream!Skip, Stream!To
  <1>2. CASE /\ s \in HasCredentials /\ view[s].state \in Stream!Quiet
             /\ w = [state |-> "starting", bytes |-> 0, failed |-> 0]
    BY <1>2 DEF Stream!Next, Stream!Start, Stream!To
  <1>3. CASE /\ view[s].state \in {"starting", "retry"}
             /\ w = [state |-> "uploading", bytes |-> 0, failed |-> view[s].failed]
    BY <1>3 DEF Stream!Next, Stream!Attempt, Stream!To
  <1>4. CASE /\ view[s].state = "uploading"
             /\ \E b \in view[s].bytes..FileSize : w = [view[s] EXCEPT !.bytes = b]
    BY <1>4 DEF Stream!Next, Stream!Advance, Stream!To
  <1>5. CASE /\ view[s].state \in Stream!Active /\ view[s].failed + 1 < Attempts
             /\ w = [state |-> "retry", bytes |-> 0, failed |-> view[s].failed + 1]
    BY <1>5 DEF Stream!Next, Stream!Retry, Stream!To
  <1>6. CASE view[s].state = "uploading" /\ w = [view[s] EXCEPT !.state = "done"]
    BY <1>6 DEF Stream!Next, Stream!Finish, Stream!To
  <1>7. CASE view[s].state \in Stream!Active /\ w = [view[s] EXCEPT !.state = "error"]
    BY <1>7 DEF Stream!Next, Stream!Finish, Stream!To
  <1> QED
    BY <1>1, <1>2, <1>3, <1>4, <1>5, <1>6, <1>7 DEF Promised

\* Every step of Uploader is a step of ProgressStream or leaves what its reader
\* knows: the safety of the promise StreamsArePromised, for every channel
\* capacity, file size and number of attempts.
THEOREM ImplementsStream == Spec => Stream!Init /\ [][Stream!Next]_view
  <1>1. Init => Stream!Init
    BY DEF Init, Stream!Init
  <1>2. IndInv /\ StreamInv /\ [Next]_vars => [Stream!Next]_view
    <2> SUFFICES ASSUME IndInv, StreamInv, [Next]_vars, view' # view PROVE Stream!Next
      OBVIOUS
    <2> USE DEF vars, callVars, uploadVars, readerVars, channelVars
    <2>1. Receive
      <3>1. CASE Cancel \/ CallerGoes \/ UploadFileGoes \/ Finished \/ UNCHANGED vars
        BY <3>1 DEF Cancel, CallerGoes, CallUploadFile, ReturnResult, CloseChannel, UploadFileGoes,
                    ValidateCredentials, uploadParallel, uploadSequential, NextService,
                    ParallelWait, Finished, Send
      <3>2. CASE \E s \in Service : doUploadGoes(s) \/ Read(s) \/ Ticking(s)
        BY <3>2 DEF doUploadGoes, Ticking, Send, SendStarting, BeginAttempt, EndLoop, OpenFile,
                    newProgressReader, Read, UploadReturns, CloseReader, Decide, SendRetry,
                    BackoffElapsed, BackoffCancelled, SendTerminal, Collect, Tick, TickDone, TickSend
      <3> QED
        BY <3>1, <3>2 DEF Next
    <2>2. view \in [Service -> View] /\ ch \in Seq(Progress) /\ ch # <<>>
      BY <2>1 DEF IndInv, TypeOK, Receive
    <2>3. PICK k \in [Service -> View] : Coming(ch, view, k)
      BY DEF StreamInv
    <2>4. PICK w : Leads(view, Head(ch), w)
      BY <2>2, <2>3, TakenComes
    <2> DEFINE s == Head(ch).service
    <2>5. s \in Service
      BY <2>2, EventFacts
    <2>6. view' = [view EXCEPT ![s] = Shown(view[s], Head(ch))]
      BY <2>1 DEF Receive, Shown
    <2> QED
      BY <2>2, <2>4, <2>5, <2>6, PromisedIsNext DEF Leads
  <1>3. Spec => []([Stream!Next]_view)
    BY <1>2, IndInvHolds, StreamHolds, PTL DEF Spec
  <1> QED
    BY <1>1, <1>3, PTL DEF Spec

=============================================================================
