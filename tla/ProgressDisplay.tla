-------------------------- MODULE ProgressDisplay --------------------------
(***************************************************************************)
(* progressDisplay of main.go: the bars on the terminal, one action per    *)
(* case of handle.  Colours, percentages and cursor movement are left out. *)
(***************************************************************************)
EXTENDS Naturals, Sequences

VARIABLES
    bars,      \* d.bars, in the order they are drawn
    barIndex,  \* d.barIndex: the names that have a bar, and which
    lineCount  \* d.lineCount

displayVars == <<bars, barIndex, lineCount>>

Terminal == {"done", "error"}

DisplayInit == bars = <<>> /\ barIndex = <<>> /\ lineCount = 0

\* Mutant: a bar that waits for a retry counts as finished.
batchDone_AnyStatus == bars # <<>> /\ \A i \in 1..Len(bars) : bars[i].status # ""
\* Mutant: a failed bar does not count as finished.
batchDone_OnlyDone == bars # <<>> /\ \A i \in 1..Len(bars) : bars[i].status = "done"
batchDone == bars # <<>> /\ \A i \in 1..Len(bars) : bars[i].status \in Terminal

\* "starting": a new bar, after a reset if all the bars there are have finished.
AddBar(name) ==
    LET old   == IF batchDone THEN <<>> ELSE bars
        index == IF batchDone THEN <<>> ELSE barIndex
        count == IF batchDone THEN 0 ELSE lineCount
    IN  /\ bars' = Append(old, [name |-> name, status |-> "", bytes |-> 0])
        /\ barIndex' = [n \in DOMAIN index \cup {name} |->
                           IF n = name THEN Len(old) + 1 ELSE index[n]]
        /\ lineCount' = count + 1

\* Any other event redraws the bar of its service, if it has one.
UpdateBar(p) ==
    /\ IF p.service \in DOMAIN barIndex
       THEN bars' = [bars EXCEPT ![barIndex[p.service]] =
                [name   |-> @.name,
                 status |-> IF p.state = "uploading" THEN "" ELSE p.state,
                 bytes  |-> CASE p.state = "uploading" -> p.bytes
                              [] p.state = "retry"     -> 0
                              [] OTHER                 -> @.bytes]]
       ELSE UNCHANGED bars
    /\ UNCHANGED <<barIndex, lineCount>>

handle(p) == IF p.state = "starting" THEN AddBar(p.service) ELSE UpdateBar(p)

=============================================================================
