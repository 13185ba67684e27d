--------------------------- MODULE UploaderProofs ---------------------------
(***************************************************************************)
(* Proofs about Uploader, for any services, selection, settings, channel   *)
(* capacity and number of calls: its type invariant, and that nothing is   *)
(* sent on progressCh once it is closed.                                   *)
(***************************************************************************)
EXTENDS Uploader, TLAPS

ResultRec == [service : Service, err : Failure \cup {None, Aborted}, after : Nat]

\* The goroutines that still have something to do.
Running(s) == pc[s] # "idle"

\* A ticker lives only between newProgressReader and the end of Close.
TickersAreInside ==
    \A s \in Service : tick[s] # "off" => pc[s] \in {"transfer", "close"}

\* Where doUpload reads res, an attempt or EndLoop has set it.
ResIsSet ==
    \A s \in Service :
        pc[s] \in {"close", "decide", "retry", "sleep", "finish", "collect"} => res[s] # None

\* doUpload runs only inside UploadFile: in parallel for valid services, which
\* wg.Wait covers; in sequence for one service at a time.
UploadsAreInside ==
    /\ \A s \in Service : Running(s) => call \in {"run", "wait"}
    /\ \A s \in Service : call = "wait" /\ Running(s) => \E i \in 1..Len(valid) : valid[i] = s
    /\ \A s, t \in Service : call = "run" /\ Running(s) /\ Running(t) => s = t

ClosedAtTheEnd == closed => call = "idle" /\ calls = MaxCalls

IndInv == TypeOK /\ TickersAreInside /\ ResIsSet /\ UploadsAreInside /\ ClosedAtTheEnd

-----------------------------------------------------------------------------

\* The assumptions on the constants that the proofs use, in one place.
LEMMA ConstantFacts ==
    /\ Selected \in Seq(Service)
    /\ FileSize \in Nat /\ MaxCalls \in Nat
    /\ None \notin Failure /\ None \notin Result
  BY UploaderAssumption, NilAssumption

\* The initial state satisfies the inductive invariant.
LEMMA InitInv == Init => IndInv
  <1> SUFFICES ASSUME Init PROVE IndInv
    OBVIOUS
  <1> USE ConstantFacts
  <1>1. TypeOK
    <2>1. 0 \in 0..FileSize /\ 0 \in 0..MaxCalls
      OBVIOUS
    <2>2. [state |-> "none", bytes |-> 0, failed |-> 0] \in View
      BY <2>1 DEF View, EventStates
    <2>3. /\ pc \in [Service -> UploadStates]
          /\ attempt \in [Service -> Nat]
          /\ res \in [Service -> Result \cup {None}]
          /\ tick \in [Service -> TickStates]
      BY DEF Init, UploadStates, TickStates
    <2>4. /\ read \in [Service -> 0..FileSize]
          /\ snap \in [Service -> 0..FileSize]
          /\ view \in [Service -> View]
      BY <2>1, <2>2 DEF Init
    <2>5. /\ queue \in Seq(Service) /\ valid \in Seq(Service) /\ ch \in Seq(Progress)
          /\ results \in Seq(ResultRec)
      BY DEF Init
    <2> QED
      BY <2>1, <2>3, <2>4, <2>5 DEF Init, TypeOK, CallStates, ResultRec
  <1>2. TickersAreInside /\ ResIsSet /\ UploadsAreInside /\ ClosedAtTheEnd
    BY DEF Init, TickersAreInside, ResIsSet, UploadsAreInside, ClosedAtTheEnd, Running
  <1> QED
    BY <1>1, <1>2 DEF IndInv

-----------------------------------------------------------------------------

\* A send appends one event to the channel and touches nothing else of it.
LEMMA SendFacts ==
    ASSUME ch \in Seq(Progress), NEW s \in Service, NEW state \in EventStates,
           NEW b \in 0..FileSize, NEW n \in Nat, Send(s, state, b, n)
    PROVE  ch' \in Seq(Progress) /\ closed' = closed /\ view' = view
  BY DEF Send, Progress

-----------------------------------------------------------------------------

\* Every step keeps the types.  ResIsSet is needed where a field of res is read.
LEMMA TypeStep == IndInv /\ [Next]_vars => TypeOK'
  <1> SUFFICES ASSUME IndInv, [Next]_vars PROVE TypeOK'
    OBVIOUS
  <1> USE ConstantFacts DEF IndInv, vars, callVars, uploadVars, readerVars, channelVars
  <1>1. CASE Receive
    <2> DEFINE p == Head(ch)
               v == [state  |-> p.state,
                     bytes  |-> IF p.state \in {"done", "error"} THEN view[p.service].bytes
                                ELSE p.bytes,
                     failed |-> IF p.state = "starting" THEN 0
                                ELSE IF p.state = "retry" THEN p.attempt
                                ELSE view[p.service].failed]
    <2>1. p \in Progress /\ Tail(ch) \in Seq(Progress)
      BY <1>1 DEF Receive, TypeOK
    <2>2. view[p.service] \in View
      BY <2>1 DEF TypeOK, Progress
    <2>3. v \in View
      BY <2>1, <2>2 DEF View, Progress, EventStates
    <2>4. view' = [view EXCEPT ![p.service] = v]
      BY <1>1 DEF Receive
    <2>5. view' \in [Service -> View]
      BY <2>1, <2>3, <2>4 DEF TypeOK, Progress
    <2> QED
      BY <1>1, <2>1, <2>5 DEF Receive, TypeOK
  <1>2. CASE Cancel
    BY <1>2 DEF Cancel, TypeOK, CallStates, UploadStates, TickStates, Goto
  <1>3. CASE CallUploadFile
    <2>1. calls' \in 0..MaxCalls
      BY <1>3 DEF CallUploadFile, TypeOK
    <2>2. call' \in CallStates
      BY <1>3 DEF CallUploadFile, CallStates
    <2>3. queue' = <<>> \/ queue' = Selected
      BY <1>3 DEF CallUploadFile
    <2>4. queue' \in Seq(Service)
      <3>1. <<>> \in Seq(Service) /\ Selected \in Seq(Service)
        OBVIOUS
      <3> QED
        BY ONLY <2>3, <3>1
    <2>5. valid' \in Seq(Service) /\ results' \in Seq(ResultRec)
      BY <1>3 DEF CallUploadFile
    <2> QED
      BY <1>3, <2>1, <2>2, <2>4, <2>5 DEF CallUploadFile, TypeOK, ResultRec
  <1>4. CASE ValidateCredentials
    <2>1. Head(queue) \in Service /\ Tail(queue) \in Seq(Service)
      BY <1>4 DEF ValidateCredentials, TypeOK
    <2>2. valid' \in Seq(Service)
      <3>1. valid' = valid \/ valid' = Append(valid, Head(queue))
        BY <1>4 DEF ValidateCredentials
      <3>2. valid \in Seq(Service)
        BY DEF TypeOK
      <3> QED
        BY ONLY <2>1, <3>1, <3>2
    <2>3. ch' \in Seq(Progress) /\ closed' = closed /\ view' = view
      BY <1>4, <2>1, SendFacts DEF ValidateCredentials, TypeOK, EventStates
    <2> QED
      BY <1>4, <2>1, <2>2, <2>3 DEF ValidateCredentials, TypeOK
  <1>5. CASE uploadParallel
    BY <1>5 DEF uploadParallel, TypeOK, CallStates, UploadStates, TickStates, Goto
  <1>6. CASE uploadSequential
    BY <1>6 DEF uploadSequential, TypeOK, CallStates, UploadStates, TickStates, Goto
  <1>7. CASE NextService
    <2>1. CASE queue = <<>> \/ cancelled
      <3>1. call' = "returned" /\ queue' = <<>> /\ pc' = pc
        BY <1>7, <2>1 DEF NextService
      <3>2. queue' \in Seq(Service)
        BY <3>1
      <3> QED
        BY <1>7, <3>1, <3>2 DEF NextService, TypeOK, CallStates
    <2>2. CASE ~(queue = <<>> \/ cancelled)
      <3>1. Head(queue) \in Service /\ Tail(queue) \in Seq(Service)
        BY <2>2 DEF TypeOK
      <3>2. pc' \in [Service -> UploadStates]
        BY <1>7, <2>2, <3>1 DEF NextService, TypeOK, UploadStates
      <3> QED
        BY <1>7, <2>2, <3>1, <3>2 DEF NextService, TypeOK, CallStates
    <2> QED
      BY <2>1, <2>2
  <1>8. CASE ParallelWait
    BY <1>8 DEF ParallelWait, TypeOK, CallStates, UploadStates, TickStates, Goto
  <1>9. CASE ReturnResult
    BY <1>9 DEF ReturnResult, TypeOK, CallStates, UploadStates, TickStates, Goto
  <1>10. CASE CloseChannel
    BY <1>10 DEF CloseChannel, TypeOK, CallStates, UploadStates, TickStates, Goto
  <1>11. CASE Finished
    BY <1>11 DEF Finished, TypeOK, CallStates, UploadStates, TickStates, Goto
  <1>12. ASSUME NEW s \in Service, SendStarting(s) PROVE TypeOK'
    BY <1>12, SendFacts DEF SendStarting, TypeOK, CallStates, UploadStates, TickStates, Goto, EventStates
  <1>13. ASSUME NEW s \in Service, BeginAttempt(s) PROVE TypeOK'
    BY <1>13 DEF BeginAttempt, TypeOK, CallStates, UploadStates, TickStates, Goto
  <1>14. ASSUME NEW s \in Service, EndLoop(s) PROVE TypeOK'
    <2>1. [err |-> Aborted, after |-> 0] \in Result
      BY DEF Result
    <2>2. res' \in [Service -> Result \cup {None}]
      BY <1>14, <2>1 DEF EndLoop, TypeOK
    <2>3. pc' \in [Service -> UploadStates]
      BY <1>14 DEF EndLoop, TypeOK, Goto, UploadStates
    <2> QED
      BY <1>14, <2>2, <2>3 DEF EndLoop, TypeOK
  <1>15. ASSUME NEW s \in Service, OpenFile(s) PROVE TypeOK'
    <2>1. \A e \in Failure : [err |-> e, after |-> 0] \in Result
      BY DEF Result
    <2>2. res' \in [Service -> Result \cup {None}]
      BY <1>15, <2>1 DEF OpenFile, TypeOK
    <2>3. pc' \in [Service -> UploadStates]
      BY <1>15 DEF OpenFile, TypeOK, Goto, UploadStates
    <2> QED
      BY <1>15, <2>2, <2>3 DEF OpenFile, TypeOK
  <1>16. ASSUME NEW s \in Service, newProgressReader(s) PROVE TypeOK'
    BY <1>16, SendFacts DEF newProgressReader, TypeOK, CallStates, UploadStates, TickStates, Goto, EventStates
  <1>17. ASSUME NEW s \in Service, Read(s) PROVE TypeOK'
    BY <1>17 DEF Read, TypeOK, CallStates, UploadStates, TickStates, Goto
  <1>18. ASSUME NEW s \in Service, UploadReturns(s) PROVE TypeOK'
    <2>1. \A e \in Failure \cup {None} : [err |-> e, after |-> 0] \in Result
      BY DEF Result
    <2>2. res' \in [Service -> Result \cup {None}]
      <3>1. \E e \in Failure \cup {None} : res' = [res EXCEPT ![s] = [err |-> e, after |-> 0]]
        BY <1>18 DEF UploadReturns
      <3> QED
        BY <2>1, <3>1 DEF TypeOK
    <2>3. pc' \in [Service -> UploadStates]
      BY <1>18 DEF UploadReturns, TypeOK, Goto, UploadStates
    <2> QED
      BY <1>18, <2>2, <2>3 DEF UploadReturns, TypeOK
  <1>19. ASSUME NEW s \in Service, CloseReader(s) PROVE TypeOK'
    BY <1>19 DEF CloseReader, TypeOK, CallStates, UploadStates, TickStates, Goto
  <1>20. ASSUME NEW s \in Service, Decide(s) PROVE TypeOK'
    <2>1. res[s] \in Result
      BY <1>20 DEF Decide, TypeOK, ResIsSet
    <2>2. \A n \in Nat : [res[s] EXCEPT !.after = n] \in Result
      BY <2>1 DEF Result
    <2>3. attempt[s] \in Nat
      BY DEF TypeOK
    <2>4. \/ UNCHANGED res
          \/ \E n \in Nat : res' = [res EXCEPT ![s] = [@ EXCEPT !.after = n]]
      BY <1>20, <2>3 DEF Decide
    <2>5. res' \in [Service -> Result \cup {None}]
      BY <2>2, <2>4 DEF TypeOK
    <2>6. pc' \in [Service -> UploadStates]
      BY <1>20 DEF Decide, TypeOK, Goto, UploadStates
    <2> QED
      BY <1>20, <2>5, <2>6 DEF Decide, TypeOK
  <1>21. ASSUME NEW s \in Service, SendRetry(s) PROVE TypeOK'
    BY <1>21, SendFacts DEF SendRetry, TypeOK, CallStates, UploadStates, TickStates, Goto, EventStates
  <1>22. ASSUME NEW s \in Service, BackoffElapsed(s) PROVE TypeOK'
    BY <1>22 DEF BackoffElapsed, TypeOK, CallStates, UploadStates, TickStates, Goto
  <1>23. ASSUME NEW s \in Service, BackoffCancelled(s) PROVE TypeOK'
    BY <1>23 DEF BackoffCancelled, TypeOK, CallStates, UploadStates, TickStates, Goto
  <1>24. ASSUME NEW s \in Service, SendTerminal(s) PROVE TypeOK'
    <2>1. \E state \in EventStates : Send(s, state, 0, 0)
      BY <1>24 DEF SendTerminal, EventStates
    <2>2. ch' \in Seq(Progress) /\ closed' = closed /\ view' = view
      BY <2>1, SendFacts DEF TypeOK
    <2>3. pc' \in [Service -> UploadStates]
      BY <1>24 DEF SendTerminal, TypeOK, Goto, UploadStates
    <2> QED
      BY <1>24, <2>2, <2>3 DEF SendTerminal, TypeOK
  <1>25. ASSUME NEW s \in Service, Collect(s) PROVE TypeOK'
    <2>1. res[s] \in Result
      BY <1>25 DEF Collect, TypeOK, ResIsSet
    <2>2. [service |-> s, err |-> res[s].err, after |-> res[s].after] \in ResultRec
      BY <2>1 DEF Result, ResultRec
    <2>3. results' \in Seq(ResultRec)
      BY <1>25, <2>2 DEF Collect, TypeOK, ResultRec
    <2>4. pc' \in [Service -> UploadStates] /\ call' \in CallStates
      BY <1>25 DEF Collect, TypeOK, Goto, UploadStates, CallStates
    <2> QED
      BY <1>25, <2>3, <2>4 DEF Collect, TypeOK, ResultRec
  <1>26. ASSUME NEW s \in Service, Tick(s) PROVE TypeOK'
    BY <1>26 DEF Tick, TypeOK, CallStates, UploadStates, TickStates, Goto
  <1>27. ASSUME NEW s \in Service, TickDone(s) PROVE TypeOK'
    BY <1>27 DEF TickDone, TypeOK, CallStates, UploadStates, TickStates, Goto
  <1>28. ASSUME NEW s \in Service, TickSend(s) PROVE TypeOK'
    <2>1. snap[s] \in 0..FileSize /\ "uploading" \in EventStates
      BY DEF TypeOK, EventStates
    <2>2. ch' \in Seq(Progress) /\ closed' = closed /\ view' = view
      BY <1>28, <2>1, SendFacts DEF TickSend, TypeOK
    <2>3. tick' \in [Service -> TickStates]
      BY <1>28 DEF TickSend, TypeOK, TickStates
    <2>4. snap' \in [Service -> 0..FileSize]
      BY <1>28 DEF TickSend, TypeOK
    <2> QED
      BY <1>28, <2>2, <2>3, <2>4 DEF TickSend, TypeOK
  <1>29. CASE UNCHANGED vars
    BY <1>29 DEF TypeOK
  <1> QED
    BY <1>1, <1>2, <1>3, <1>4, <1>5, <1>6, <1>7, <1>8, <1>9, <1>10, <1>11,
       <1>12, <1>13, <1>14, <1>15, <1>16, <1>17, <1>18, <1>19, <1>20, <1>21,
       <1>22, <1>23, <1>24, <1>25, <1>26, <1>27, <1>28, <1>29
       DEF Next, CallerGoes, UploadFileGoes, doUploadGoes, Ticking

-----------------------------------------------------------------------------

\* A doUpload that is running and moves on, still running, stays where it may be.
LEMMA MovingStaysInside ==
    ASSUME IndInv, NEW s \in Service, NEW w, Running(s), w # "idle", Goto(s, w),
           UNCHANGED <<call, valid>>
    PROVE  UploadsAreInside'
  BY DEF IndInv, TypeOK, UploadsAreInside, Running, Goto

\* Nothing starts or stops running.
LEMMA StayingStaysInside ==
    ASSUME UploadsAreInside, UNCHANGED <<pc, call, valid>>
    PROVE  UploadsAreInside'
  BY DEF UploadsAreInside, Running

\* Every step keeps the tickers inside their attempt, res set where it is read
\* and the uploads inside their call.
LEMMA InsideStep ==
    IndInv /\ [Next]_vars => (TickersAreInside /\ ResIsSet /\ UploadsAreInside)'
  <1> DEFINE Inv == TickersAreInside /\ ResIsSet /\ UploadsAreInside
  <1> SUFFICES ASSUME IndInv, [Next]_vars PROVE Inv'
    OBVIOUS
  <1> USE ConstantFacts DEF IndInv, vars, callVars, uploadVars, readerVars, channelVars
  <1>1. CASE Receive
    BY <1>1, StayingStaysInside DEF Receive, TypeOK, TickersAreInside, ResIsSet
  <1>2. CASE Cancel
    BY <1>2, StayingStaysInside DEF Cancel, TypeOK, TickersAreInside, ResIsSet
  <1>3. CASE CallUploadFile
    BY <1>3 DEF CallUploadFile, TickersAreInside, ResIsSet, UploadsAreInside, Running
  <1>4. CASE ValidateCredentials
    BY <1>4 DEF ValidateCredentials, TickersAreInside, ResIsSet, UploadsAreInside, Running
  <1>5. CASE uploadParallel
    BY <1>5 DEF uploadParallel, TypeOK, TickersAreInside, ResIsSet, UploadsAreInside, Running
  <1>6. CASE uploadSequential
    BY <1>6 DEF uploadSequential, TickersAreInside, ResIsSet, UploadsAreInside, Running
  <1>7. CASE NextService
    <2>1. \A t \in Service : ~Running(t) /\ tick[t] = "off"
      BY <1>7 DEF NextService, UploadsAreInside, TickersAreInside, Running
    <2>2. CASE queue = <<>> \/ cancelled
      BY <1>7, <2>1, <2>2 DEF NextService, TickersAreInside, ResIsSet, UploadsAreInside, Running
    <2>3. CASE ~(queue = <<>> \/ cancelled)
      <3>1. Head(queue) \in Service
        BY <2>3 DEF TypeOK
      <3>2. \A t \in Service : pc'[t] = IF t = Head(queue) THEN "starting" ELSE "idle"
        BY <1>7, <2>1, <2>3, <3>1 DEF NextService, TypeOK, Running
      <3> QED
        BY <1>7, <2>1, <2>3, <3>1, <3>2
           DEF NextService, TickersAreInside, ResIsSet, UploadsAreInside, Running
    <2> QED
      BY <2>2, <2>3
  <1>8. CASE ParallelWait
    <2>1. \A t \in Service : ~Running(t)
      BY <1>8 DEF ParallelWait, UploadsAreInside, Running
    <2> QED
      BY <1>8, <2>1 DEF ParallelWait, TickersAreInside, ResIsSet, UploadsAreInside, Running
  <1>9. CASE ReturnResult
    BY <1>9 DEF ReturnResult, TickersAreInside, ResIsSet, UploadsAreInside, Running
  <1>10. CASE CloseChannel
    BY <1>10, StayingStaysInside DEF CloseChannel, TypeOK, TickersAreInside, ResIsSet
  <1>11. CASE Finished
    BY <1>11, StayingStaysInside DEF Finished, TypeOK, TickersAreInside, ResIsSet
  <1>12. ASSUME NEW s \in Service, SendStarting(s) PROVE Inv'
    <2>1. UploadsAreInside'
      BY <1>12, MovingStaysInside DEF SendStarting, Running
    <2> QED
      BY <1>12, <2>1 DEF SendStarting, Goto, TypeOK, TickersAreInside, ResIsSet
  <1>13. ASSUME NEW s \in Service, BeginAttempt(s) PROVE Inv'
    <2>1. UploadsAreInside'
      BY <1>13, MovingStaysInside DEF BeginAttempt, Running
    <2> QED
      BY <1>13, <2>1 DEF BeginAttempt, Goto, TypeOK, TickersAreInside, ResIsSet
  <1>14. ASSUME NEW s \in Service, EndLoop(s) PROVE Inv'
    <2>1. UploadsAreInside'
      BY <1>14, MovingStaysInside DEF EndLoop, Running
    <2>2. TickersAreInside'
      BY <1>14 DEF EndLoop, Goto, TypeOK, TickersAreInside
    <2>3. \A e \in Failure \cup {None, Aborted} : [err |-> e, after |-> 0] # None
      BY DEF Result
    <2>4. ResIsSet'
      BY <1>14, <2>3 DEF EndLoop, Goto, TypeOK, ResIsSet
    <2> QED
      BY <2>1, <2>2, <2>4
  <1>15. ASSUME NEW s \in Service, OpenFile(s) PROVE Inv'
    <2>1. \E w \in {"track", "decide"} : Goto(s, w)
      BY <1>15 DEF OpenFile
    <2>2. UploadsAreInside'
      BY <1>15, <2>1, MovingStaysInside DEF OpenFile, Running
    <2>3. TickersAreInside'
      BY <1>15, <2>1 DEF OpenFile, Goto, TypeOK, TickersAreInside
    <2>4. ResIsSet'
      <3>1. \A e \in Failure : [err |-> e, after |-> 0] # None
        BY DEF Result
      <3> QED
        BY <1>15, <3>1 DEF OpenFile, Goto, TypeOK, ResIsSet
    <2> QED
      BY <2>2, <2>3, <2>4
  <1>16. ASSUME NEW s \in Service, newProgressReader(s) PROVE Inv'
    <2>1. UploadsAreInside'
      BY <1>16, MovingStaysInside DEF newProgressReader, Running
    <2> QED
      BY <1>16, <2>1 DEF newProgressReader, Goto, TypeOK, TickersAreInside, ResIsSet
  <1>17. ASSUME NEW s \in Service, Read(s) PROVE Inv'
    BY <1>17, StayingStaysInside DEF Read, TypeOK, TickersAreInside, ResIsSet
  <1>18. ASSUME NEW s \in Service, UploadReturns(s) PROVE Inv'
    <2>1. UploadsAreInside'
      BY <1>18, MovingStaysInside DEF UploadReturns, Running
    <2>2. TickersAreInside'
      BY <1>18 DEF UploadReturns, Goto, TypeOK, TickersAreInside
    <2>3. \A e \in Failure \cup {None, Aborted} : [err |-> e, after |-> 0] # None
      BY DEF Result
    <2>4. ResIsSet'
      BY <1>18, <2>3 DEF UploadReturns, Goto, TypeOK, ResIsSet
    <2> QED
      BY <2>1, <2>2, <2>4
  <1>19. ASSUME NEW s \in Service, CloseReader(s) PROVE Inv'
    <2>1. UploadsAreInside'
      BY <1>19, MovingStaysInside DEF CloseReader, Running
    <2> QED
      BY <1>19, <2>1 DEF CloseReader, Goto, TypeOK, TickersAreInside, ResIsSet
  <1>20. ASSUME NEW s \in Service, Decide(s) PROVE Inv'
    <2>1. \E w \in {"finish", "retry"} : Goto(s, w)
      BY <1>20 DEF Decide
    <2>2. UploadsAreInside'
      BY <1>20, <2>1, MovingStaysInside DEF Decide, Running
    <2>3. TickersAreInside'
      BY <1>20, <2>1 DEF Decide, Goto, TypeOK, TickersAreInside
    <2>4. ResIsSet'
      <3>1. res[s] \in Result /\ attempt[s] \in Nat
        BY <1>20 DEF Decide, TypeOK, ResIsSet
      <3>2. \A k \in Nat : [res[s] EXCEPT !.after = k] \in Result
        BY <3>1 DEF Result
      <3>3. res'[s] \in Result /\ \A t \in Service \ {s} : res'[t] = res[t]
        <4>1. \/ UNCHANGED res
              \/ \E k \in Nat : res' = [res EXCEPT ![s] = [@ EXCEPT !.after = k]]
          BY <1>20, <3>1 DEF Decide
        <4> QED
          BY <3>1, <3>2, <4>1 DEF TypeOK
      <3> QED
        BY <1>20, <2>1, <3>3 DEF Decide, Goto, TypeOK, ResIsSet
    <2> QED
      BY <2>2, <2>3, <2>4
  <1>21. ASSUME NEW s \in Service, SendRetry(s) PROVE Inv'
    <2>1. UploadsAreInside'
      BY <1>21, MovingStaysInside DEF SendRetry, Running
    <2> QED
      BY <1>21, <2>1 DEF SendRetry, Goto, TypeOK, TickersAreInside, ResIsSet
  <1>22. ASSUME NEW s \in Service, BackoffElapsed(s) PROVE Inv'
    <2>1. UploadsAreInside'
      BY <1>22, MovingStaysInside DEF BackoffElapsed, Running
    <2> QED
      BY <1>22, <2>1 DEF BackoffElapsed, Goto, TypeOK, TickersAreInside, ResIsSet
  <1>23. ASSUME NEW s \in Service, BackoffCancelled(s) PROVE Inv'
    <2>1. UploadsAreInside'
      BY <1>23, MovingStaysInside DEF BackoffCancelled, Running
    <2> QED
      BY <1>23, <2>1 DEF BackoffCancelled, Goto, TypeOK, TickersAreInside, ResIsSet
  <1>24. ASSUME NEW s \in Service, SendTerminal(s) PROVE Inv'
    <2>1. UploadsAreInside'
      BY <1>24, MovingStaysInside DEF SendTerminal, Running
    <2> QED
      BY <1>24, <2>1 DEF SendTerminal, Goto, TypeOK, TickersAreInside, ResIsSet
  <1>25. ASSUME NEW s \in Service, Collect(s) PROVE Inv'
    <2>1. \A t \in Service : pc'[t] = IF t = s THEN "idle" ELSE pc[t]
      BY <1>25 DEF Collect, Goto, TypeOK
    <2>2. Running(s) /\ tick[s] = "off"
      BY <1>25 DEF Collect, Running, TickersAreInside
    <2>3. TickersAreInside' /\ ResIsSet'
      BY <1>25, <2>1, <2>2 DEF Collect, TypeOK, TickersAreInside, ResIsSet
    <2>4. UploadsAreInside'
      BY <1>25, <2>1, <2>2 DEF Collect, UploadsAreInside, Running
    <2> QED
      BY <2>3, <2>4
  <1>26. ASSUME NEW s \in Service, Tick(s) PROVE Inv'
    BY <1>26, StayingStaysInside DEF Tick, TypeOK, TickersAreInside, ResIsSet
  <1>27. ASSUME NEW s \in Service, TickDone(s) PROVE Inv'
    BY <1>27, StayingStaysInside DEF TickDone, TypeOK, TickersAreInside, ResIsSet
  <1>28. ASSUME NEW s \in Service, TickSend(s) PROVE Inv'
    BY <1>28, StayingStaysInside DEF TickSend, TypeOK, TickersAreInside, ResIsSet
  <1>29. CASE UNCHANGED vars
    BY <1>29 DEF TickersAreInside, ResIsSet, UploadsAreInside, Running
  <1> QED
    BY <1>1, <1>2, <1>3, <1>4, <1>5, <1>6, <1>7, <1>8, <1>9, <1>10, <1>11,
       <1>12, <1>13, <1>14, <1>15, <1>16, <1>17, <1>18, <1>19, <1>20, <1>21,
       <1>22, <1>23, <1>24, <1>25, <1>26, <1>27, <1>28, <1>29
       DEF Next, CallerGoes, UploadFileGoes, doUploadGoes, Ticking

\* The channel is closed after the last call has returned, and nobody calls again.
LEMMA ClosedStep == IndInv /\ [Next]_vars => ClosedAtTheEnd'
  <1> SUFFICES ASSUME IndInv, [Next]_vars PROVE ClosedAtTheEnd'
    OBVIOUS
  <1> USE ConstantFacts DEF IndInv, vars, callVars, uploadVars, readerVars, channelVars
  <1>1. CASE \E s \in Service : doUploadGoes(s) \/ Read(s) \/ Ticking(s)
    <2>1. closed' = closed /\ calls' = calls
      BY <1>1 DEF doUploadGoes, Ticking, Send, SendStarting, BeginAttempt, EndLoop, OpenFile,
                  newProgressReader, Read, UploadReturns, CloseReader, Decide, SendRetry,
                  BackoffElapsed, BackoffCancelled, SendTerminal, Collect, Tick, TickDone, TickSend
    <2>2. call' = call \/ call \in {"run", "wait"}
      BY <1>1 DEF doUploadGoes, Ticking, Send, SendStarting, BeginAttempt, EndLoop, OpenFile,
                  newProgressReader, Read, UploadReturns, CloseReader, Decide, SendRetry,
                  BackoffElapsed, BackoffCancelled, SendTerminal, Collect, Tick, TickDone, TickSend
    <2> QED
      BY <2>1, <2>2 DEF ClosedAtTheEnd
  <1>2. CASE CallerGoes
    <2>1. CASE CallUploadFile
      <3>1. ~closed /\ closed' = closed
        BY <2>1 DEF CallUploadFile, ClosedAtTheEnd
      <3> QED
        BY <3>1 DEF ClosedAtTheEnd
    <2>2. CASE ReturnResult \/ CloseChannel
      BY <2>2 DEF ReturnResult, CloseChannel, ClosedAtTheEnd
    <2> QED
      BY <1>2, <2>1, <2>2 DEF CallerGoes
  <1>3. CASE UploadFileGoes
    <2>1. call # "idle" /\ closed' = closed
      BY <1>3 DEF UploadFileGoes, ValidateCredentials, uploadParallel, uploadSequential,
                  NextService, ParallelWait, Send
    <2> QED
      BY <2>1 DEF ClosedAtTheEnd
  <1>4. CASE Receive \/ Cancel \/ Finished \/ UNCHANGED vars
    BY <1>4 DEF Receive, Cancel, Finished, ClosedAtTheEnd
  <1> QED
    BY <1>1, <1>2, <1>3, <1>4 DEF Next

-----------------------------------------------------------------------------

\* The inductive invariant holds in every state Uploader reaches.
THEOREM IndInvHolds == Spec => []IndInv
  <1>1. IndInv /\ [Next]_vars => IndInv'
    BY TypeStep, InsideStep, ClosedStep DEF IndInv
  <1> QED
    BY InitInv, <1>1, PTL DEF Spec

\* Uploader's variables have their types, whatever the constants.
THEOREM TypeCorrect == Spec => []TypeOK
  BY IndInvHolds, PTL DEF IndInv

\* No goroutine of the package can send on progressCh once it is closed, whatever
\* the services, settings, channel capacity and number of files: the send that
\* would panic cannot happen.
THEOREM NeverSendsAfterClose == Spec => []NoSendAfterClose
  <1>1. IndInv => NoSendAfterClose
    BY DEF IndInv, ClosedAtTheEnd, UploadsAreInside, TickersAreInside, Running, NoSendAfterClose
  <1> QED
    BY IndInvHolds, <1>1, PTL

=============================================================================
