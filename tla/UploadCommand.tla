--------------------------- MODULE UploadCommand ---------------------------
(***************************************************************************)
(* manyup upload: cmdUpload of main.go, which calls UploadFile once per    *)
(* file, with the goroutine that watches for Ctrl+C and the goroutine that *)
(* shows the progress.  Uploader's steps are taken as they are; its reader *)
(* becomes the display, its Cancel the signal, its caller the file loop.   *)
(***************************************************************************)
EXTENDS Uploader, ProgressDisplay

VARIABLES
    sigCh,     \* signals in sigCh, whose capacity is 1
    watching,  \* the signal goroutine still waits for its one signal
    drained,   \* the display goroutine closed done
    exited     \* main returned

commandVars == <<sigCh, watching, drained, exited>>
allVars     == <<vars, displayVars, commandVars>>

CommandInit ==
    /\ Init /\ DisplayInit
    /\ sigCh = 0 /\ watching = TRUE
    /\ drained = FALSE /\ exited = FALSE

\* for p := range progressCh { display.handle(p) }
DisplayHandles ==
    /\ Receive
    /\ handle(Head(ch))
    /\ UNCHANGED commandVars

\* The range ends with the channel closed and empty.
DisplayEnds ==
    /\ closed /\ ch = <<>> /\ ~drained
    /\ drained' = TRUE
    /\ UNCHANGED <<vars, displayVars, sigCh, watching, exited>>

\* Ctrl+C: delivered if there is room, else dropped.  One after the signal that
\* cancelled stays in sigCh unread, and is left out.
Signal ==
    /\ ~exited /\ watching /\ sigCh = 0
    /\ sigCh' = 1
    /\ UNCHANGED <<vars, displayVars, watching, drained, exited>>

\* The signal goroutine cancels the context, once; it takes no second signal.
SignalCancels ==
    /\ ~exited /\ watching /\ sigCh = 1
    /\ sigCh' = 0 /\ watching' = FALSE
    /\ Cancel
    /\ UNCHANGED <<displayVars, drained, exited>>

\* The file loop with its printResult, then close(progressCh).
FileLoop == CallerGoes /\ UNCHANGED <<displayVars, commandVars>>

\* Mutant: main returns without <-done.
Exit_NoWait ==
    /\ closed /\ ~exited
    /\ exited' = TRUE
    /\ UNCHANGED <<vars, displayVars, sigCh, watching, drained>>

\* Mutant: main also waits for the goroutine that waits for a signal.
Exit_WaitsForSignal ==
    /\ closed /\ drained /\ ~watching /\ ~exited
    /\ exited' = TRUE
    /\ UNCHANGED <<vars, displayVars, sigCh, watching, drained>>

\* <-done, and cmdUpload returns.
Exit ==
    /\ closed /\ drained /\ ~exited
    /\ exited' = TRUE
    /\ UNCHANGED <<vars, displayVars, sigCh, watching, drained>>

Uploads ==
    /\ \/ UploadFileGoes
       \/ \E s \in Service : doUploadGoes(s) \/ Read(s) \/ Ticking(s)
    /\ UNCHANGED <<displayVars, commandVars>>

\* The process is gone.
Gone == exited /\ UNCHANGED allVars

CommandNext == \/ DisplayHandles \/ DisplayEnds \/ Signal \/ SignalCancels
               \/ FileLoop \/ Exit \/ Uploads \/ Gone

Silent(A) == A /\ UNCHANGED <<displayVars, commandVars>>

\* Uploader's fairness: main and the display go on, and each doUpload and its
\* ticker, which services without credentials never start.  Ctrl+C need not come.
CommandFairness ==
    /\ WF_allVars(Silent(UploadFileGoes \/ CallerGoes) \/ Exit)
    /\ WF_allVars(DisplayHandles \/ DisplayEnds)
    /\ \A s \in HasCredentials : /\ WF_allVars(Silent(doUploadGoes(s)))
                                 /\ WF_allVars(Silent(TickSend(s)))
                                 /\ SF_allVars(Silent(TickDone(s)))

CommandSpec == CommandInit /\ [][CommandNext]_allVars /\ CommandFairness

-----------------------------------------------------------------------------
(* Properties.                                                             *)

\* The display draws no service twice and finds every bar where its index says:
\* the bars of one file have all finished before the first "starting" of the
\* next is handled, because UploadFile waits for its services and the channel
\* keeps their order.
OneBarPerService ==
    /\ lineCount = Len(bars)
    /\ DOMAIN barIndex = {bars[i].name : i \in 1..Len(bars)}
    /\ \A i \in 1..Len(bars) : barIndex[bars[i].name] = i

\* When the command exits, nothing it was told is left unshown: every bar on the
\* terminal has finished, and says what the result of its service says.
BarsShowTheResults ==
    exited => /\ ch = <<>>
              /\ \A i \in 1..Len(bars) : bars[i].status \in Terminal
              /\ \A i \in 1..Len(bars), j \in 1..Len(results) :
                    bars[i].name = results[j].service
                        => (bars[i].status = "done") = (results[j].err = None)

\* While services of a file still upload, none of them is without its bar: what
\* the display has read of a service that has not ended is on the terminal.
UnfinishedServicesHaveBars ==
    \A s \in Service :
        view[s].state \in {"starting", "uploading", "retry"} =>
            /\ s \in DOMAIN barIndex
            /\ bars[barIndex[s]].status =
                  IF view[s].state = "retry" THEN "retry" ELSE ""
            /\ bars[barIndex[s]].bytes = view[s].bytes

\* The command ends, Ctrl+C or not: the file loop, the goroutines of its uploads,
\* their tickers and the display wait for one another over one channel, and none
\* of them for ever (main.go:144-181).
CommandEnds == <>exited

\* AddBar's comment in the source: "If the previous batch finished, reset so bars
\* start fresh" - so when all the progress of a parallel file has been shown,
\* every service it uploaded to has a bar.
ParallelBatchKeepsItsBars ==
    mode = "parallel" /\ call = "returned" /\ ch = <<>> =>
        \A j \in 1..Len(results) : results[j].service \in DOMAIN barIndex

=============================================================================
