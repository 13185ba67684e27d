------------------------ MODULE UploadCommandProofs ------------------------
(***************************************************************************)
(* Proofs about UploadCommand, for any services, settings, channel         *)
(* capacity and number of files: the display draws each service once, none *)
(* that still uploads is without its bar, and what the terminal shows at   *)
(* the end is what the results say.                                        *)
(***************************************************************************)
EXTENDS UploadCommand, UploaderStreamProofs

-----------------------------------------------------------------------------
(* The files in the channel.                                               *)

\* Before event m of c, which the reader takes knowing v, s has ended or has
\* not begun.
Over(c, v, s, m) ==
    \/ \E i \in 1..(m - 1) : /\ c[i].service = s /\ c[i].state \in Stream!Quiet
                             /\ \A j \in (i + 1)..(m - 1) : c[j].service # s
    \/ v[s].state \in Stream!Quiet /\ \A j \in 1..(m - 1) : c[j].service # s
AllOver(c, v, m) == \A s \in Service : Over(c, v, s, m)

\* Event m is the first start of a file.
Opens(c, v, m) == m \in 1..Len(c) /\ c[m].state = "starting" /\ AllOver(c, v, m)

\* Where s starts in c; 0 if it is already on the display, in names.
Starts(c, names, s) ==
    {j \in 0..Len(c) : IF j = 0 THEN s \in names
                       ELSE c[j].service = s /\ c[j].state = "starting"}

\* Between two starts of a service another file begins.
StartsApart(c, v, names) ==
    \A s \in Service : \A j, k \in Starts(c, names, s) :
        j < k => \E m \in (j + 1)..k : Opens(c, v, m)

\* If s started next, a file would have begun since it last did.
MayStart(c, v, names, s) ==
    \A j \in Starts(c, names, s) :
        (\E m \in (j + 1)..Len(c) : Opens(c, v, m)) \/ AllOver(c, v, Len(c) + 1)

FilesApart ==
    /\ StartsApart(ch, view, DOMAIN barIndex)
    /\ \A s \in Service : pc[s] = "starting" => MayStart(ch, view, DOMAIN barIndex, s)

-----------------------------------------------------------------------------
(* The display.                                                            *)

BarRec == [name : Service, status : {"", "retry", "done", "error"}, bytes : 0..FileSize]

\* The status of a bar whose service is in that state.
StatusOf(state) == IF state \in {"starting", "uploading"} THEN "" ELSE state

\* A bar shows what was last read of its service, and every service that has
\* started and not ended has one.
BarsFit ==
    /\ bars \in Seq(BarRec)
    /\ OneBarPerService
    /\ \A i \in 1..Len(bars) :
          LET v == view[bars[i].name] IN
          v.state # "none" /\ bars[i].status = StatusOf(v.state) /\ bars[i].bytes = v.bytes
    /\ \A s \in Service : view[s].state \in Stream!Active => s \in DOMAIN barIndex

\* The command ends after the channel is closed and empty.
EndsFit ==
    /\ drained => closed /\ ch = <<>>
    /\ exited => drained

CommandInv == FilesApart /\ BarsFit /\ EndsFit

-----------------------------------------------------------------------------

\* What comes later in the channel does not change what came before.
LEMMA OverAppended ==
    ASSUME NEW c \in Seq(Progress), NEW v, NEW p \in Progress, NEW m \in 1..(Len(c) + 1)
    PROVE  AllOver(Append(c, p), v, m) <=> AllOver(c, v, m)
  <1> DEFINE d == Append(c, p)
  <1>1. Len(c) \in Nat /\ \A i \in 1..(m - 1) : d[i] = c[i]
    OBVIOUS
  <1> HIDE DEF d
  <1>2. ASSUME NEW s \in Service PROVE Over(d, v, s, m) <=> Over(c, v, s, m)
    <2>1. \A i \in 1..(m - 1) : (i + 1)..(m - 1) \subseteq 1..(m - 1)
      BY <1>1
    <2> QED
      BY <1>1, <2>1 DEF Over
  <1> QED
    BY <1>2 DEF AllOver, d

LEMMA OpensAppended ==
    ASSUME NEW c \in Seq(Progress), NEW v, NEW p \in Progress, NEW m, Opens(c, v, m)
    PROVE  Opens(Append(c, p), v, m)
  <1>1. /\ m \in 1..Len(c) /\ m \in 1..(Len(c) + 1) /\ m \in 1..Len(Append(c, p))
        /\ Append(c, p)[m] = c[m]
    BY DEF Opens
  <1> QED
    BY <1>1, OverAppended DEF Opens

\* When an event is taken, what is over before a later one stays over.
LEMMA OverTaken ==
    ASSUME NEW c \in Seq(Progress), c # <<>>, NEW v, NEW w, NEW m \in 1..Len(c),
           w[c[1].service].state = c[1].state,
           \A t \in Service \ {c[1].service} : w[t] = v[t],
           AllOver(c, v, m + 1)
    PROVE  AllOver(Tail(c), w, m)
  <1> DEFINE d == Tail(c)
             N == Len(c)
  <1>1. N \in Nat \ {0} /\ \A i \in 1..(N - 1) : d[i] = c[i + 1]
    OBVIOUS
  <1> HIDE DEF d, N
  <1> SUFFICES ASSUME NEW s \in Service PROVE Over(d, w, s, m)
    BY DEF AllOver, d
  <1>2. m \in 1..N
    BY DEF N
  <1>3. CASE \E i \in 2..m : /\ c[i].service = s /\ c[i].state \in Stream!Quiet
                             /\ \A j \in (i + 1)..m : c[j].service # s
    <2>1. PICK i \in 2..m : /\ c[i].service = s /\ c[i].state \in Stream!Quiet
                            /\ \A j \in (i + 1)..m : c[j].service # s
      BY <1>3
    <2>2. i - 1 \in 1..(m - 1) /\ d[i - 1] = c[i]
      BY <1>1, <1>2, <2>1
    <2>3. ASSUME NEW j \in ((i - 1) + 1)..(m - 1) PROVE d[j].service # s
      <3>1. j + 1 \in (i + 1)..m /\ d[j] = c[j + 1]
        BY <1>1, <1>2, <2>1
      <3> QED
        BY <2>1, <3>1
    <2> QED
      BY <2>1, <2>2, <2>3 DEF Over
  <1>4. CASE \A j \in 2..m : c[j].service # s
    <2>1. \A j \in 1..(m - 1) : d[j].service # s
      <3> SUFFICES ASSUME NEW j \in 1..(m - 1) PROVE d[j].service # s
        OBVIOUS
      <3>1. j + 1 \in 2..m /\ d[j] = c[j + 1]
        BY <1>1, <1>2
      <3> QED
        BY <1>4, <3>1
    <2>2. w[s].state \in Stream!Quiet
      <3>1. CASE s = c[1].service
        <4>1. c[1].state \in Stream!Quiet
          <5>1. Over(c, v, s, m + 1)
            BY DEF AllOver
          <5>2. 1 \in 1..((m + 1) - 1)
            BY <1>2
          <5>3. PICK i \in 1..m : c[i].service = s /\ c[i].state \in Stream!Quiet
            BY <3>1, <5>1, <5>2 DEF Over
          <5>4. i = 1
            BY <1>2, <1>4, <5>3
          <5> QED
            BY <5>3, <5>4
        <4> QED
          BY <3>1, <4>1
      <3>2. CASE s # c[1].service
        <4>1. v[s].state \in Stream!Quiet
          <5>1. Over(c, v, s, m + 1) /\ (m + 1) - 1 = m
            BY <1>2 DEF AllOver
          <5>2. \A i \in 1..m : c[i].service # s
            BY <1>2, <1>4, <3>2
          <5> QED
            BY <5>1, <5>2 DEF Over
        <4> QED
          BY <3>2, <4>1
      <3> QED
        BY <3>1, <3>2
    <2> QED
      BY <2>1, <2>2 DEF Over
  <1>5. \/ \E i \in 2..m : /\ c[i].service = s /\ c[i].state \in Stream!Quiet
                           /\ \A j \in (i + 1)..m : c[j].service # s
        \/ \A j \in 2..m : c[j].service # s
    <2>1. Over(c, v, s, m + 1) /\ (m + 1) - 1 = m
      BY <1>2 DEF AllOver
    <2>2. CASE \E i \in 1..m : /\ c[i].service = s /\ c[i].state \in Stream!Quiet
                               /\ \A j \in (i + 1)..m : c[j].service # s
      BY <1>2, <2>2
    <2>3. CASE \A j \in 1..m : c[j].service # s
      BY <1>2, <2>3
    <2> QED
      BY <2>1, <2>2, <2>3 DEF Over
  <1> QED
    BY <1>3, <1>4, <1>5

\* At the end of the channel: over is what the last events leave quiet.
LEMMA OverAtEnd ==
    ASSUME NEW c \in Seq(Progress), NEW v, NEW k, Coming(c, v, k)
    PROVE  AllOver(c, v, Len(c) + 1) <=> \A s \in Service : k[s].state \in Stream!Quiet
  <1> DEFINE N == Len(c)
  <1>1. N \in Nat /\ (N + 1) - 1 = N
    OBVIOUS
  <1> SUFFICES ASSUME NEW s \in Service
               PROVE  Over(c, v, s, N + 1) <=> k[s].state \in Stream!Quiet
    BY DEF AllOver
  <1>2. LastIs(c, v, s, k[s].state)
    BY DEF Coming
  <1> HIDE DEF N
  <1>3. Sent(c, s) = {i \in 1..N : c[i].service = s}
    BY DEF Sent, N
  <1>4. CASE Sent(c, s) = {} /\ k[s].state = v[s].state
    BY <1>1, <1>3, <1>4 DEF Over
  <1>5. ASSUME NEW i \in Sent(c, s), \A j \in Sent(c, s) : j <= i, k[s].state = c[i].state
        PROVE  Over(c, v, s, N + 1) <=> k[s].state \in Stream!Quiet
    <2>1. i \in 1..N /\ c[i].service = s /\ \A j \in (i + 1)..N : c[j].service # s
      BY <1>1, <1>3, <1>5
    <2>2. ASSUME NEW n \in 1..N, c[n].service = s, \A j \in (n + 1)..N : c[j].service # s
          PROVE  n = i
      BY <1>1, <2>1, <2>2
    <2> QED
      BY <1>1, <1>5, <2>1, <2>2 DEF Over
  <1> QED
    BY <1>2, <1>4, <1>5 DEF LastIs

-----------------------------------------------------------------------------

\* A start that may be sent keeps the files apart; any other event does too.
LEMMA StartsAppended ==
    ASSUME NEW c \in Seq(Progress), NEW v, NEW names, NEW p \in Progress,
           StartsApart(c, v, names),
           p.state = "starting" => MayStart(c, v, names, p.service)
    PROVE  StartsApart(Append(c, p), v, names)
  <1> DEFINE d == Append(c, p)
             N == Len(c)
  <1>1. N \in Nat /\ Len(d) = N + 1 /\ d[N + 1] = p /\ \A i \in 1..N : d[i] = c[i]
    OBVIOUS
  <1>2. \A m : Opens(c, v, m) => Opens(d, v, m)
    BY OpensAppended
  <1>3. AllOver(d, v, N + 1) <=> AllOver(c, v, N + 1)
    BY <1>1, OverAppended
  <1> HIDE DEF d
  <1> SUFFICES ASSUME NEW s \in Service, NEW j \in Starts(d, names, s), NEW k \in Starts(d, names, s),
                      j < k
               PROVE  \E m \in (j + 1)..k : Opens(d, v, m)
    BY DEF StartsApart, d
  <1>4. j \in Starts(c, names, s) /\ j \in 0..N /\ k \in 1..(N + 1)
    BY <1>1 DEF Starts
  <1>5. CASE k \in 1..N
    <2>1. k \in Starts(c, names, s)
      BY <1>1, <1>5 DEF Starts
    <2> QED
      BY <1>2, <1>4, <2>1 DEF StartsApart
  <1>6. CASE k = N + 1
    <2>1. p.state = "starting" /\ p.service = s
      BY <1>1, <1>4, <1>6 DEF Starts
    <2>2. CASE \E m \in (j + 1)..N : Opens(c, v, m)
      BY <1>1, <1>2, <1>4, <1>6, <2>2
    <2>3. CASE AllOver(c, v, N + 1)
      <3>1. Opens(d, v, N + 1)
        BY <1>1, <1>3, <2>1, <2>3 DEF Opens
      <3> QED
        BY <1>1, <1>4, <1>6, <3>1
    <2> QED
      BY <1>4, <2>1, <2>2, <2>3 DEF MayStart
  <1> QED
    BY <1>4, <1>5, <1>6

\* What may start may still do so when another service has sent an event, one
\* that begins or ends an upload if none was under way.
LEMMA MayStartAppended ==
    ASSUME NEW c \in Seq(Progress), NEW v, NEW names, NEW p \in Progress, NEW s \in Service,
           MayStart(c, v, names, s), p.state = "starting" => p.service # s,
           AllOver(c, v, Len(c) + 1) => p.state \in Stream!Quiet \cup {"starting"}
    PROVE  MayStart(Append(c, p), v, names, s)
  <1> DEFINE d == Append(c, p)
             N == Len(c)
  <1>1. N \in Nat /\ Len(d) = N + 1 /\ d[N + 1] = p /\ \A i \in 1..N : d[i] = c[i]
    OBVIOUS
  <1>2. \A m : Opens(c, v, m) => Opens(d, v, m)
    BY OpensAppended
  <1>3. \A m \in 1..(N + 1) : AllOver(d, v, m) <=> AllOver(c, v, m)
    BY <1>1, OverAppended
  <1> HIDE DEF d
  <1> SUFFICES ASSUME NEW j \in Starts(d, names, s)
               PROVE  (\E m \in (j + 1)..(N + 1) : Opens(d, v, m)) \/ AllOver(d, v, N + 2)
    BY <1>1 DEF MayStart, d
  <1>4. j \in Starts(c, names, s) /\ j \in 0..N
    BY <1>1 DEF Starts
  <1>5. CASE \E m \in (j + 1)..N : Opens(c, v, m)
    BY <1>1, <1>2, <1>4, <1>5
  <1>6. CASE AllOver(c, v, N + 1)
    <2>1. CASE p.state = "starting"
      <3>1. Opens(d, v, N + 1)
        BY <1>1, <1>3, <1>6, <2>1 DEF Opens
      <3> QED
        BY <1>1, <1>4, <3>1
    <2>2. CASE p.state \in Stream!Quiet
      <3> SUFFICES ASSUME NEW t \in Service PROVE Over(d, v, t, N + 2)
        BY DEF AllOver
      <3>1. Over(d, v, t, N + 1) /\ (N + 1) - 1 = N /\ (N + 2) - 1 = N + 1
        BY <1>1, <1>3, <1>6 DEF AllOver
      <3>2. CASE p.service = t
        <4>1. N + 1 \in 1..(N + 1) /\ ((N + 1) + 1)..(N + 1) = {}
          BY <1>1
        <4> QED
          BY <1>1, <2>2, <3>1, <3>2, <4>1 DEF Over
      <3>3. CASE p.service # t
        <4>1. \A j2 \in 1..(N + 1) : j2 \in 1..N \/ j2 = N + 1
          BY <1>1
        <4>2. CASE v[t].state \in Stream!Quiet /\ \A j2 \in 1..N : d[j2].service # t
          BY <1>1, <3>1, <3>3, <4>1, <4>2 DEF Over
        <4>3. ASSUME NEW i \in 1..N, d[i].service = t, d[i].state \in Stream!Quiet,
                     \A j2 \in (i + 1)..N : d[j2].service # t
              PROVE  Over(d, v, t, N + 2)
          <5>1. \A j2 \in (i + 1)..(N + 1) : d[j2].service # t
            BY <1>1, <3>3, <4>3
          <5>2. i \in 1..(N + 1)
            BY <1>1
          <5> QED
            BY <3>1, <4>3, <5>1, <5>2 DEF Over
        <4> QED
          BY <3>1, <4>2, <4>3 DEF Over
      <3> QED
        BY <3>2, <3>3
    <2> QED
      BY <1>6, <2>1, <2>2
  <1> QED
    BY <1>4, <1>5, <1>6 DEF MayStart

\* What the display keeps when it takes the first event of c: the service that
\* starts, and nothing else if the event opens a file.
Keeps(c, v, names, kept) ==
    \A t \in kept : \/ t = c[1].service /\ c[1].state = "starting"
                    \/ t \in names /\ ~Opens(c, v, 1)

\* Every start that is left was one before, and the file that follows it is
\* still to come.
LEMMA StartsTaken ==
    ASSUME NEW c \in Seq(Progress), c # <<>>, NEW v, NEW names, NEW kept,
           Keeps(c, v, names, kept), NEW s \in Service, NEW j \in Starts(Tail(c), kept, s)
    PROVE  /\ j > 0 => j + 1 \in Starts(c, names, s)
           /\ \E i \in Starts(c, names, s) :
                 i <= j + 1 /\ \A m : m > i /\ Opens(c, v, m) => m > j + 1
  <1> DEFINE d == Tail(c)
             N == Len(c)
  <1>1. N \in Nat \ {0} /\ Len(d) = N - 1 /\ \A i \in 1..(N - 1) : d[i] = c[i + 1]
    OBVIOUS
  <1> HIDE DEF d
  <1>2. j \in 0..(N - 1)
    BY <1>1 DEF Starts, d
  <1>3. CASE j > 0
    <2>1. j + 1 \in Starts(c, names, s)
      BY <1>1, <1>2, <1>3 DEF Starts, d
    <2> QED
      BY <1>2, <2>1
  <1>4. CASE j = 0
    <2>1. s \in kept
      BY <1>4 DEF Starts
    <2>2. CASE s = c[1].service /\ c[1].state = "starting"
      <3>1. 1 \in Starts(c, names, s)
        BY <1>1, <2>2 DEF Starts
      <3> QED
        BY <1>4, <3>1
    <2>3. CASE s \in names /\ ~Opens(c, v, 1)
      <3>1. 0 \in Starts(c, names, s)
        BY <1>1, <2>3 DEF Starts
      <3>2. \A m : m > 0 /\ Opens(c, v, m) => m > 1
        BY <1>1, <2>3 DEF Opens
      <3> QED
        BY <1>4, <3>1, <3>2
    <2> QED
      BY <2>1, <2>2, <2>3 DEF Keeps
  <1> QED
    BY <1>2, <1>3, <1>4

\* Taking an event keeps the files apart, and leaves to start what might.
LEMMA FilesTaken ==
    ASSUME NEW c \in Seq(Progress), c # <<>>, NEW v, NEW w, NEW names, NEW kept,
           w[c[1].service].state = c[1].state,
           \A t \in Service \ {c[1].service} : w[t] = v[t],
           Keeps(c, v, names, kept)
    PROVE  /\ StartsApart(c, v, names) => StartsApart(Tail(c), w, kept)
           /\ \A s \in Service : MayStart(c, v, names, s) => MayStart(Tail(c), w, kept, s)
  <1> DEFINE d == Tail(c)
             N == Len(c)
  <1>1. N \in Nat \ {0} /\ Len(d) = N - 1 /\ \A i \in 1..(N - 1) : d[i] = c[i + 1]
    OBVIOUS
  <1>2. \A m \in 1..N : AllOver(c, v, m + 1) => AllOver(d, w, m)
    BY OverTaken
  <1>3. ASSUME NEW s \in Service, NEW j \in Starts(d, kept, s)
        PROVE  /\ j > 0 => j + 1 \in Starts(c, names, s)
               /\ \E i \in Starts(c, names, s) :
                     i <= j + 1 /\ \A m : m > i /\ Opens(c, v, m) => m > j + 1
    BY <1>3, StartsTaken
  <1> HIDE DEF d
  <1>4. ASSUME NEW m, Opens(c, v, m), m > 1
        PROVE  Opens(d, w, m - 1)
    <2>1. m \in 1..N /\ m - 1 \in 1..N /\ m - 1 \in 1..(N - 1) /\ (m - 1) + 1 = m
      BY <1>1, <1>4 DEF Opens
    <2>2. AllOver(d, w, m - 1)
      BY <1>2, <1>4, <2>1 DEF Opens
    <2> QED
      BY <1>1, <1>4, <2>1, <2>2 DEF Opens
  <1>5. ASSUME NEW s \in Service, NEW j \in Starts(d, kept, s)
        PROVE  j \in 0..(N - 1)
    BY <1>1 DEF Starts
  <1>6. ASSUME NEW s \in Service, NEW i \in Starts(c, names, s)
        PROVE  i \in 0..N
    BY DEF Starts
  <1>7. ASSUME StartsApart(c, v, names) PROVE StartsApart(d, w, kept)
    <2> SUFFICES ASSUME NEW s \in Service, NEW j \in Starts(d, kept, s), NEW k \in Starts(d, kept, s),
                        j < k
                 PROVE  \E m \in (j + 1)..k : Opens(d, w, m)
      BY DEF StartsApart
    <2>1. j \in 0..(N - 1) /\ k \in 1..(N - 1)
      BY <1>5
    <2>2. k + 1 \in Starts(c, names, s)
      BY <1>3, <2>1
    <2>3. PICK i \in Starts(c, names, s) :
             i <= j + 1 /\ \A m : m > i /\ Opens(c, v, m) => m > j + 1
      BY <1>3
    <2>4. i \in 0..N /\ i < k + 1
      BY <1>6, <2>1, <2>3
    <2>5. PICK m \in (i + 1)..(k + 1) : Opens(c, v, m)
      BY <1>7, <2>2, <2>4 DEF StartsApart
    <2>6. m > j + 1 /\ m \in Int
      BY <2>3, <2>4, <2>5
    <2>7. Opens(d, w, m - 1) /\ m - 1 \in (j + 1)..k
      BY <1>4, <2>1, <2>5, <2>6
    <2> QED
      BY <2>7
  <1>8. ASSUME NEW s \in Service, MayStart(c, v, names, s) PROVE MayStart(d, w, kept, s)
    <2> SUFFICES ASSUME NEW j \in Starts(d, kept, s), ~AllOver(d, w, Len(d) + 1)
                 PROVE  \E m \in (j + 1)..Len(d) : Opens(d, w, m)
      BY DEF MayStart
    <2>1. j \in 0..(N - 1) /\ ~AllOver(c, v, N + 1)
      BY <1>1, <1>2, <1>5
    <2>2. PICK i \in Starts(c, names, s) :
             i <= j + 1 /\ \A m : m > i /\ Opens(c, v, m) => m > j + 1
      BY <1>3
    <2>3. PICK m \in (i + 1)..N : Opens(c, v, m)
      BY <1>8, <2>1 DEF MayStart
    <2>4. i \in 0..N /\ m \in Int /\ m > j + 1
      BY <1>6, <2>2, <2>3
    <2>5. Opens(d, w, m - 1) /\ m - 1 \in (j + 1)..(N - 1)
      BY <1>1, <1>4, <2>1, <2>3, <2>4
    <2> QED
      BY <1>1, <2>5
  <1> QED
    BY <1>7, <1>8 DEF d

-----------------------------------------------------------------------------
(* The steps of the command.                                               *)

\* What is proved of Uploader, which CommandSpec keeps as well.
UploaderInv == IndInv /\ AnswersInv /\ AttemptsAreLeft /\ StreamInv

\* The command takes Uploader's steps, or leaves its variables alone.
LEMMA StepsOfUploader == [CommandNext]_allVars => [Next]_vars
  BY DEF CommandNext, DisplayHandles, DisplayEnds, Signal, SignalCancels, FileLoop, Exit,
         Uploads, Gone, Next, allVars

\* The initial state satisfies the invariant of Uploader and of the display.
LEMMA CommandInitInv == CommandInit => UploaderInv /\ CommandInv
  <1> SUFFICES ASSUME CommandInit PROVE UploaderInv /\ CommandInv
    OBVIOUS
  <1>1. Init /\ bars = <<>> /\ barIndex = <<>> /\ lineCount = 0 /\ ~drained /\ ~exited
    BY DEF CommandInit, DisplayInit
  <1>2. UploaderInv
    BY <1>1, InitInv, InitAnswers, InitStream DEF UploaderInv, Init, AttemptsAreLeft, Retrying
  <1>3. /\ Len(ch) = 0 /\ Len(bars) = 0 /\ bars \in Seq(BarRec) /\ DOMAIN barIndex = {}
        /\ \A s \in Service : pc[s] = "idle" /\ view[s].state = "none"
    BY <1>1 DEF Init
  <1>4. FilesApart
    BY <1>3 DEF FilesApart, StartsApart, Starts
  <1>5. BarsFit
    BY <1>1, <1>3 DEF BarsFit, OneBarPerService, Stream!Active
  <1> QED
    BY <1>1, <1>2, <1>4, <1>5 DEF CommandInv, EndsFit

\* Uploader's invariant is kept.
LEMMA UploaderStep ==
    ASSUME UploaderInv, [CommandNext]_allVars
    PROVE  UploaderInv'
  <1>1. [Next]_vars
    BY StepsOfUploader
  <1> QED
    BY <1>1, TypeStep, InsideStep, ClosedStep, AnswersStep, AttemptsStep, StreamStep
       DEF IndInv, UploaderInv

\* A service on its way through an attempt has started and not ended, and so has
\* no file begun since.
LEMMA AttemptsAreSeen ==
    ASSUME UploaderInv, NEW s \in Service, pc[s] \in {"track", "transfer", "close", "retry"}
    PROVE  ~AllOver(ch, view, Len(ch) + 1)
  <1>1. PICK k \in [Service -> View] : Coming(ch, view, k) /\ Stands(s, k[s])
    BY DEF UploaderInv, StreamInv
  <1>2. ch \in Seq(Progress)
    BY DEF UploaderInv, IndInv, TypeOK
  <1>3. k[s].state \notin Stream!Quiet
    BY <1>1 DEF Stands, Stream!Quiet, Stream!Active
  <1> QED
    BY <1>1, <1>2, <1>3, OverAtEnd

\* When no upload runs, everything in the channel is over.
LEMMA NoneRunsNoneIsSeen ==
    ASSUME UploaderInv, \A s \in Service : ~Running(s)
    PROVE  AllOver(ch, view, Len(ch) + 1)
  <1>1. PICK k \in [Service -> View] : /\ Coming(ch, view, k)
                                       /\ \A s \in Service : Stands(s, k[s])
    BY DEF UploaderInv, StreamInv
  <1>2. ch \in Seq(Progress)
    BY DEF UploaderInv, IndInv, TypeOK
  <1>3. \A s \in Service : k[s].state \in Stream!Quiet
    BY <1>1 DEF Stands, Running
  <1> QED
    BY <1>1, <1>2, <1>3, OverAtEnd

\* The goroutines that send: what they leave in the channel, and who may start.
Sends(p) ==
    /\ ch' = Append(ch, p)
    /\ p.state = "starting" => pc[p.service] = "starting" /\ pc'[p.service] # "starting"
    /\ AllOver(ch, view, Len(ch) + 1) => p.state \in Stream!Quiet \cup {"starting"}
    /\ \A t \in Service : pc'[t] = "starting" => pc[t] = "starting"

StartsAFile ==
    /\ ch' = ch
    /\ \A t \in Service : pc'[t] = "starting" =>
          pc[t] = "starting" \/ AllOver(ch, view, Len(ch) + 1)

\* A step of Uploader other than its reader's: it sends one event or none, no
\* event when the channel is closed, and nothing that could start already stops.
LEMMA OtherSteps ==
    ASSUME UploaderInv,
           \/ Cancel \/ CallerGoes \/ UploadFileGoes
           \/ \E s \in Service : doUploadGoes(s) \/ Read(s) \/ Ticking(s)
           \/ UNCHANGED vars
    PROVE  /\ view' = view
           /\ StartsAFile \/ \E p \in Progress : Sends(p)
           /\ closed => ch' = ch /\ closed'
  <1> USE DEF vars, callVars, uploadVars, readerVars, channelVars
  <1>0. /\ pc \in [Service -> UploadStates] /\ tick \in [Service -> TickStates]
        /\ attempt \in [Service -> Nat] /\ snap \in [Service -> 0..FileSize]
        /\ ch \in Seq(Progress) /\ queue \in Seq(Service)
        /\ TickersAreInside /\ UploadsAreInside /\ 0 \in 0..FileSize
    BY ConstantFacts DEF UploaderInv, IndInv, TypeOK
  <1>c. closed => call = "idle" /\ \A s \in Service : pc[s] = "idle" /\ tick[s] = "off"
    BY DEF UploaderInv, IndInv, ClosedAtTheEnd, UploadsAreInside, TickersAreInside, Running
  <1>1. CASE Cancel \/ CallerGoes \/ UNCHANGED vars
    BY <1>1 DEF Cancel, CallerGoes, CallUploadFile, ReturnResult, CloseChannel, StartsAFile
  <1>2. CASE ValidateCredentials
    <2>1. CASE ch' = ch
      BY <1>2, <1>c, <2>1 DEF ValidateCredentials, StartsAFile, Send
    <2>2. CASE ch' # ch
      <3>1. PICK s \in Service : s = Head(queue)
        BY <1>0, <1>2 DEF ValidateCredentials
      <3> DEFINE p == [service |-> s, state |-> "error", bytes |-> 0, attempt |-> 0]
      <3>2. ch' = Append(ch, p) /\ view' = view /\ pc' = pc /\ ~closed
        BY <1>2, <1>c, <2>2, <3>1 DEF ValidateCredentials, Send
      <3>3. p \in Progress /\ p.state = "error"
        BY <1>0 DEF Progress, EventStates
      <3> HIDE DEF p
      <3>4. Sends(p)
        BY <3>2, <3>3 DEF Sends, Stream!Quiet
      <3> QED
        BY <3>2, <3>3, <3>4
    <2> QED
      BY <2>1, <2>2
  <1>3. CASE uploadParallel \/ NextService
    <2>1. UNCHANGED <<ch, view, closed>> /\ call \in {"validate", "loop"}
      BY <1>3 DEF uploadParallel, NextService
    <2>2. \A s \in Service : ~Running(s)
      BY <1>0, <2>1 DEF UploadsAreInside
    <2>3. AllOver(ch, view, Len(ch) + 1)
      BY <2>2, NoneRunsNoneIsSeen
    <2> QED
      BY <2>1, <2>3 DEF StartsAFile
  <1>4. CASE uploadSequential \/ ParallelWait
    BY <1>4 DEF uploadSequential, ParallelWait, StartsAFile
  <1>5. ASSUME NEW s \in Service, Read(s) \/ Tick(s) \/ TickDone(s)
        PROVE  UNCHANGED <<ch, view, closed, pc>>
    BY <1>5 DEF Read, Tick, TickDone
  <1>6. ASSUME NEW s \in Service, NEW p \in Progress, ch' = Append(ch, p), view' = view,
               p.state \in {"uploading", "retry"}, pc[s] \in {"track", "transfer", "close", "retry"},
               \A t \in Service : pc'[t] = "starting" => pc[t] = "starting"
        PROVE  view' = view /\ Sends(p) /\ ~closed
    <2>1. ~AllOver(ch, view, Len(ch) + 1)
      BY <1>6, AttemptsAreSeen
    <2> QED
      BY <1>6, <1>c, <2>1 DEF Sends
  <1>7. ASSUME NEW s \in Service, TickSend(s)
        PROVE  view' = view /\ (\E p \in Progress : Sends(p)) /\ ~closed
    <2>1. PICK b \in 0..FileSize : b = snap[s]
      BY <1>0
    <2> DEFINE p == [service |-> s, state |-> "uploading", bytes |-> b, attempt |-> 0]
    <2>2. ch' = Append(ch, p) /\ view' = view /\ pc' = pc /\ tick[s] # "off"
      BY <1>7, <2>1 DEF TickSend, Send
    <2>3. p \in Progress /\ p.state = "uploading"
      BY DEF Progress, EventStates
    <2>4. pc[s] \in {"transfer", "close"}
      BY <1>0, <2>2 DEF TickersAreInside
    <2> HIDE DEF p
    <2> QED
      BY <1>6, <2>2, <2>3, <2>4
  <1>8. ASSUME NEW s \in Service, doUploadGoes(s)
        PROVE  /\ view' = view /\ closed' = closed /\ ~closed
               /\ StartsAFile \/ \E p \in Progress : Sends(p)
    <2> USE DEF Goto
    <2>0. ~closed
      <3>1. pc[s] # "idle"
        BY <1>8 DEF doUploadGoes, SendStarting, BeginAttempt, EndLoop, OpenFile,
                    newProgressReader, UploadReturns, CloseReader, Decide, SendRetry,
                    BackoffElapsed, BackoffCancelled, SendTerminal, Collect
      <3> QED
        BY <1>c, <3>1
    <2>1. CASE SendStarting(s)
      <3> DEFINE p == [service |-> s, state |-> "starting", bytes |-> 0, attempt |-> 0]
      <3>1. /\ ch' = Append(ch, p) /\ UNCHANGED <<view, closed>>
            /\ pc[s] = "starting" /\ pc' = [pc EXCEPT ![s] = "check"]
        BY <2>1 DEF SendStarting, Send
      <3>2. p \in Progress /\ p.state = "starting" /\ p.service = s
        BY <1>0 DEF Progress, EventStates
      <3> HIDE DEF p
      <3>3. Sends(p)
        BY <1>0, <3>1, <3>2 DEF Sends
      <3> QED
        BY <2>0, <3>1, <3>2, <3>3
    <2>2. CASE newProgressReader(s)
      <3> DEFINE p == [service |-> s, state |-> "uploading", bytes |-> 0, attempt |-> 0]
      <3>1. /\ ch' = Append(ch, p) /\ UNCHANGED <<view, closed>>
            /\ pc[s] = "track" /\ pc' = [pc EXCEPT ![s] = "transfer"]
        BY <2>2 DEF newProgressReader, Send
      <3>2. p \in Progress /\ p.state = "uploading"
        BY <1>0 DEF Progress, EventStates
      <3>3. \A t \in Service : pc'[t] = "starting" => pc[t] = "starting"
        BY <1>0, <3>1
      <3> HIDE DEF p
      <3> QED
        BY <1>6, <2>0, <3>1, <3>2, <3>3
    <2>3. CASE SendRetry(s)
      <3>0. PICK n \in Nat : n = attempt[s]
        BY <1>0
      <3> DEFINE p == [service |-> s, state |-> "retry", bytes |-> 0, attempt |-> n]
      <3>1. /\ ch' = Append(ch, p) /\ UNCHANGED <<view, closed>>
            /\ pc[s] = "retry" /\ pc' = [pc EXCEPT ![s] = "sleep"]
        BY <2>3, <3>0 DEF SendRetry, Send
      <3>2. p \in Progress /\ p.state = "retry"
        BY <1>0 DEF Progress, EventStates
      <3>3. \A t \in Service : pc'[t] = "starting" => pc[t] = "starting"
        BY <1>0, <3>1
      <3> HIDE DEF p
      <3> QED
        BY <1>6, <2>0, <3>1, <3>2, <3>3
    <2>4. CASE SendTerminal(s)
      <3>0. PICK state \in {"done", "error"} : state = IF res[s].err = None THEN "done" ELSE "error"
        OBVIOUS
      <3> DEFINE p == [service |-> s, state |-> state, bytes |-> 0, attempt |-> 0]
      <3>1. /\ ch' = Append(ch, p) /\ UNCHANGED <<view, closed>>
            /\ pc' = [pc EXCEPT ![s] = "collect"]
        BY <2>4, <3>0 DEF SendTerminal, Send
      <3>2. p \in Progress /\ p.state \in {"done", "error"}
        BY <1>0 DEF Progress, EventStates
      <3>3. \A t \in Service : pc'[t] = "starting" => pc[t] = "starting"
        BY <1>0, <3>1
      <3> HIDE DEF p
      <3>4. Sends(p)
        BY <3>1, <3>2, <3>3 DEF Sends, Stream!Quiet
      <3> QED
        BY <2>0, <3>1, <3>2, <3>4
    <2>5. CASE BeginAttempt(s) \/ EndLoop(s) \/ OpenFile(s) \/ UploadReturns(s) \/ CloseReader(s)
      BY <1>0, <2>0, <2>5
         DEF BeginAttempt, EndLoop, OpenFile, UploadReturns, CloseReader, StartsAFile
    <2>6. CASE Decide(s) \/ BackoffElapsed(s) \/ BackoffCancelled(s) \/ Collect(s)
      BY <1>0, <2>0, <2>6 DEF Decide, BackoffElapsed, BackoffCancelled, Collect, StartsAFile
    <2> QED
      BY <1>8, <2>1, <2>2, <2>3, <2>4, <2>5, <2>6 DEF doUploadGoes
  <1>9. ASSUME NEW s \in Service, Read(s) \/ Tick(s) \/ TickDone(s)
        PROVE  view' = view /\ ch' = ch /\ closed' = closed /\ StartsAFile
    BY <1>5, <1>9 DEF StartsAFile
  <1> QED
    BY <1>1, <1>2, <1>3, <1>4, <1>7, <1>8, <1>9 DEF UploadFileGoes, Ticking

\* A step that the display does not see keeps the files apart.
LEMMA FilesStayApart ==
    ASSUME UploaderInv, FilesApart, view' = view, UNCHANGED displayVars,
           StartsAFile \/ \E p \in Progress : Sends(p)
    PROVE  FilesApart'
  <1> DEFINE names == DOMAIN barIndex
  <1>0. ch \in Seq(Progress) /\ UNCHANGED names
    BY DEF UploaderInv, IndInv, TypeOK, displayVars
  <1>1. CASE StartsAFile
    <2>1. StartsApart(ch, view, names)'
      BY <1>0, <1>1 DEF FilesApart, StartsAFile
    <2>2. ASSUME NEW s \in Service, pc'[s] = "starting" PROVE MayStart(ch', view', names', s)
      BY <1>0, <1>1, <2>2 DEF FilesApart, StartsAFile, MayStart
    <2> QED
      BY <2>1, <2>2 DEF FilesApart
  <1>2. ASSUME NEW p \in Progress, Sends(p) PROVE FilesApart'
    <2>0. p.service \in Service /\ ch' = Append(ch, p)
      BY <1>2 DEF Progress, Sends
    <2>1. p.state = "starting" => MayStart(ch, view, names, p.service)
      BY <1>2, <2>0 DEF FilesApart, Sends
    <2>2. StartsApart(Append(ch, p), view, names)
      BY <1>0, <2>1, StartsAppended DEF FilesApart
    <2>3. ASSUME NEW s \in Service, pc'[s] = "starting"
          PROVE  MayStart(Append(ch, p), view, names, s)
      <3>1. MayStart(ch, view, names, s)
        BY <1>2, <2>3 DEF FilesApart, Sends
      <3>2. p.state = "starting" => p.service # s
        BY <1>2, <2>3 DEF Sends
      <3>3. AllOver(ch, view, Len(ch) + 1) => p.state \in Stream!Quiet \cup {"starting"}
        BY <1>2 DEF Sends
      <3> HIDE DEF names
      <3> QED
        BY <1>0, <3>1, <3>2, <3>3, MayStartAppended
    <2> QED
      BY <1>0, <2>0, <2>2, <2>3 DEF FilesApart
  <1> QED
    BY <1>1, <1>2

\* What the display finds when an event is taken: the event is promised, and
\* the bars show what is known before it.
LEMMA TakenIsPromised ==
    ASSUME UploaderInv, Receive
    PROVE  LET p == ch[1] IN
           /\ ch # <<>> /\ p \in Progress /\ Head(ch) = p /\ ch' = Tail(ch)
           /\ view' = [view EXCEPT ![p.service] = Shown(view[p.service], p)]
           /\ Promised(p.service, view[p.service], Shown(view[p.service], p))
           /\ UNCHANGED <<pc, closed>>
  <1>0. /\ ch \in Seq(Progress) /\ ch # <<>>
    BY DEF UploaderInv, IndInv, TypeOK, Receive
  <1>1. ch[1] \in Progress /\ Head(ch) = ch[1]
    BY <1>0
  <1>2. PICK k \in [Service -> View] : Coming(ch, view, k)
    BY DEF UploaderInv, StreamInv
  <1>3. PICK w : Leads(view, Head(ch), w)
    BY <1>0, <1>2, TakenComes
  <1> QED
    BY <1>0, <1>1, <1>3 DEF Receive, Leads, Shown, uploadVars, readerVars

\* What is promised, event by event.
LEMMA PromisedFacts ==
    ASSUME NEW s \in Service, NEW v \in View, NEW p \in Progress, Promised(s, v, Shown(v, p))
    PROVE  /\ p.state = "starting" => v.state \in Stream!Quiet /\ p.bytes = 0
           /\ p.state \in {"uploading", "retry"} => v.state \in Stream!Active
           /\ p.state = "retry" => p.bytes = 0
  <1>1. p.state \in EventStates /\ Shown(v, p).state = p.state
    BY DEF Progress, Shown
  <1>2. Shown(v, p).bytes = IF p.state \in {"done", "error"} THEN v.bytes ELSE p.bytes
    BY DEF Shown
  <1>3. v = [state |-> v.state, bytes |-> v.bytes, failed |-> v.failed]
    BY DEF View
  <1> DEFINE w == Shown(v, p)
  <1>4. w.state = p.state /\ Promised(s, v, w)
    BY <1>1
  <1> HIDE DEF w
  <1>5. w.state = "starting" => v.state \in Stream!Quiet /\ w.bytes = 0
    BY <1>3, <1>4 DEF Promised
  <1>6. w.state \in {"uploading", "retry"} => v.state \in Stream!Active
    BY <1>3, <1>4 DEF Promised, Stream!Active
  <1>7. w.state = "retry" => w.bytes = 0
    BY <1>3, <1>4 DEF Promised
  <1> QED
    BY <1>1, <1>2, <1>5, <1>6, <1>7 DEF w

\* When all that was read is over, a display with bars has finished them.
LEMMA OverIsDone ==
    ASSUME BarsFit, bars # <<>>, \A s \in Service : view[s].state \in Stream!Quiet
    PROVE  batchDone
  <1>1. ASSUME NEW i \in 1..Len(bars) PROVE bars[i].status \in Terminal
    <2>1. bars[i] \in BarRec
      BY ElementOfSeq DEF BarsFit
    <2> QED
      BY <2>1 DEF BarsFit, BarRec, StatusOf, Terminal, Stream!Quiet
  <1> QED
    BY <1>1 DEF batchDone

\* A finished display shows no service that is still under way.
LEMMA DoneIsOver ==
    ASSUME BarsFit, batchDone, NEW s \in Service
    PROVE  view[s].state \notin Stream!Active
  <1> SUFFICES ASSUME view[s].state \in Stream!Active PROVE FALSE
    OBVIOUS
  <1>1. PICK i \in 1..Len(bars) : bars[i].name = s
    BY DEF BarsFit, OneBarPerService
  <1> QED
    BY <1>1 DEF BarsFit, StatusOf, batchDone, Terminal, Stream!Active

\* Handling an event keeps the bars in line with what was read, and the files
\* apart.
LEMMA HandleStep ==
    ASSUME UploaderInv, FilesApart, BarsFit, DisplayHandles
    PROVE  FilesApart' /\ BarsFit'
  <1> DEFINE p == ch[1]
             s == p.service
             v == view[s]
             w == Shown(v, p)
             names == DOMAIN barIndex
  <1>1. /\ ch # <<>> /\ p \in Progress /\ Head(ch) = p /\ ch' = Tail(ch)
        /\ view' = [view EXCEPT ![s] = w] /\ Promised(s, v, w)
        /\ UNCHANGED <<pc, closed>>
    BY TakenIsPromised DEF DisplayHandles
  <1>2. /\ ch \in Seq(Progress) /\ view \in [Service -> View] /\ Len(ch) \in Nat \ {0}
    BY <1>1 DEF UploaderInv, IndInv, TypeOK
  <1>3. /\ s \in Service /\ v \in View /\ p.state \in EventStates /\ p.bytes \in 0..FileSize
    BY <1>1, <1>2 DEF Progress
  <1>4. /\ view'[s] = w /\ w.state = p.state
        /\ w.bytes = (IF p.state \in {"done", "error"} THEN v.bytes ELSE p.bytes)
        /\ \A t \in Service \ {s} : view'[t] = view[t]
    BY <1>1, <1>2, <1>3 DEF Shown
  <1>5. /\ p.state = "starting" => v.state \in Stream!Quiet /\ p.bytes = 0
        /\ p.state \in {"uploading", "retry"} => v.state \in Stream!Active
        /\ p.state = "retry" => p.bytes = 0
    BY <1>1, <1>3, PromisedFacts
  <1>6. handle(p)
    BY <1>1 DEF DisplayHandles
  <1>7. /\ bars \in Seq(BarRec) /\ OneBarPerService /\ Len(bars) \in Nat
        /\ \A i \in 1..Len(bars) :
              /\ bars[i] \in BarRec /\ bars[i].name \in Service
              /\ view[bars[i].name].state # "none"
              /\ bars[i].status = StatusOf(view[bars[i].name].state)
              /\ bars[i].bytes = view[bars[i].name].bytes
        /\ \A t \in Service : view[t].state \in Stream!Active => t \in names
    <2>1. bars \in Seq(BarRec) /\ Len(bars) \in Nat
      BY LenProperties DEF BarsFit
    <2>2. \A i \in 1..Len(bars) : bars[i] \in BarRec
      BY <2>1, ElementOfSeq
    <2>3. \A i \in 1..Len(bars) : bars[i].name \in Service
      BY <2>2 DEF BarRec
    <2> QED
      BY <2>1, <2>2, <2>3 DEF BarsFit
  <1>8. ASSUME Keeps(ch, view, names, DOMAIN barIndex') PROVE FilesApart'
    <2> DEFINE kept == DOMAIN barIndex'
               seen == view'
    <2>1. /\ seen[ch[1].service].state = ch[1].state
          /\ \A t \in Service \ {ch[1].service} : seen[t] = view[t]
      BY <1>4
    <2> HIDE DEF kept, seen, names, p, s, v, w
    <2>2. Keeps(ch, view, names, kept)
      BY <1>8 DEF kept
    <2>3. /\ StartsApart(ch, view, names) => StartsApart(Tail(ch), seen, kept)
          /\ \A t \in Service : MayStart(ch, view, names, t) => MayStart(Tail(ch), seen, kept, t)
      BY <1>1, <1>2, <2>1, <2>2, FilesTaken
    <2> QED
      BY <1>1, <2>3 DEF FilesApart, kept, seen, names
  <1>9. Opens(ch, view, 1) /\ bars # <<>> => batchDone
    <2> SUFFICES ASSUME Opens(ch, view, 1), bars # <<>> PROVE batchDone
      OBVIOUS
    <2>1. \A t \in Service : Over(ch, view, t, 1)
      BY DEF Opens, AllOver
    <2>2. 1..(1 - 1) = {}
      OBVIOUS
    <2>3. \A t \in Service : view[t].state \in Stream!Quiet
      BY <2>1, <2>2 DEF Over
    <2> QED
      BY <2>3, OverIsDone
  <1>10. bars = <<>> => names = {}
    BY <1>7 DEF OneBarPerService
  <1>11. CASE p.state = "starting"
    <2>0. AddBar(s)
      BY <1>6, <1>11 DEF handle
    <2>1. PICK new \in BarRec : new = [name |-> s, status |-> "", bytes |-> 0]
      <3>1. 0 \in 0..FileSize
        BY ConstantFacts
      <3>2. [name |-> s, status |-> "", bytes |-> 0] \in BarRec
        BY <1>3, <3>1 DEF BarRec
      <3> QED
        BY <3>2
    <2>n. new.name = s /\ new.status = "" /\ new.bytes = 0
      BY <2>1
    <2>2. w.state = "starting" /\ w.bytes = 0 /\ StatusOf("starting") = ""
      BY <1>4, <1>5, <1>11 DEF StatusOf
    <2>3. CASE batchDone
      <3>1. /\ bars' = Append(<<>>, new) /\ lineCount' = 1
            /\ barIndex' = [n \in {s} |-> 1]
        <4>1. DOMAIN <<>> = {} /\ Len(<<>>) = 0
          OBVIOUS
        <4>2. /\ bars' = Append(<<>>, new) /\ lineCount' = 0 + 1
              /\ barIndex' = [n \in DOMAIN <<>> \cup {s} |-> IF n = s THEN Len(<<>>) + 1
                                                            ELSE <<>>[n]]
          BY <2>0, <2>1, <2>3 DEF AddBar
        <4>3. barIndex' = [n \in {s} |-> 1]
          BY <4>1, <4>2
        <4> QED
          BY <4>2, <4>3
      <3>2. bars' \in Seq(BarRec) /\ Len(bars') = 1 /\ bars'[1] = new
        BY <3>1
      <3>3. DOMAIN barIndex' = {s} /\ barIndex'[s] = 1
        BY <3>1
      <3>4. \A t \in Service : view'[t].state \in Stream!Active => t = s
        BY <1>4, <2>3, DoneIsOver
      <3>5. OneBarPerService'
        <4>1. 1..1 = {1}
          OBVIOUS
        <4>2. {bars'[i].name : i \in 1..Len(bars')} = {s}
          BY <2>n, <3>2, <4>1
        <4>3. bars'[1].name = s /\ \A i \in 1..Len(bars') : i = 1
          BY <2>n, <3>2, <4>1
        <4> QED
          BY <3>1, <3>2, <3>3, <4>2, <4>3 DEF OneBarPerService
      <3> HIDE DEF p, s, w
      <3>6. BarsFit'
        <4>1. \A i \in 1..Len(bars') : i = 1
          BY <3>2
        <4>2. bars'[1].name = s /\ bars'[1].status = StatusOf(w.state) /\ bars'[1].bytes = w.bytes
          BY <2>n, <2>2, <3>2
        <4> QED
          BY <1>4, <2>2, <3>2, <3>3, <3>4, <3>5, <4>1, <4>2 DEF BarsFit
      <3>7. Keeps(ch, view, names, DOMAIN barIndex')
        BY <1>11, <3>3 DEF Keeps, p, s
      <3> QED
        BY <1>8, <3>6, <3>7
    <2>4. CASE ~batchDone
      <3>0. s \notin names
        <4> SUFFICES ASSUME s \in names PROVE FALSE
          OBVIOUS
        <4>1. 0 \in Starts(ch, names, s) /\ 1 \in Starts(ch, names, s)
          BY <1>2, <1>11 DEF Starts
        <4>2. PICK m \in (0 + 1)..1 : Opens(ch, view, m)
          BY <1>3, <4>1 DEF FilesApart, StartsApart
        <4>3. Opens(ch, view, 1)
          BY <4>2
        <4> QED
          BY <1>9, <1>10, <2>4, <4>3
      <3> DEFINE N == Len(bars)
      <3>1. /\ bars' = Append(bars, new) /\ lineCount' = lineCount + 1
            /\ barIndex' = [n \in names \cup {s} |-> IF n = s THEN N + 1 ELSE barIndex[n]]
        BY <2>0, <2>1, <2>4 DEF AddBar
      <3>2. /\ bars' \in Seq(BarRec) /\ Len(bars') = N + 1 /\ bars'[N + 1] = new
            /\ \A i \in 1..N : bars'[i] = bars[i]
        BY <1>7, <3>1
      <3>3. \A i \in 1..N : bars[i].name \in names /\ bars[i].name # s
        BY <1>7, <3>0 DEF OneBarPerService
      <3>4. /\ DOMAIN barIndex' = names \cup {s} /\ barIndex'[s] = N + 1
            /\ \A i \in 1..N : barIndex'[bars[i].name] = i
        BY <1>7, <3>1, <3>3 DEF OneBarPerService
      <3>5. \A i \in 1..(N + 1) : i \in 1..N \/ i = N + 1
        BY <1>7
      <3>6. OneBarPerService'
        <4>1. lineCount' = Len(bars') /\ N + 1 \in 1..(N + 1) /\ 1..N \subseteq 1..(N + 1)
          BY <1>7, <3>1, <3>2 DEF OneBarPerService
        <4>2. \A i \in 1..Len(bars') : barIndex'[bars'[i].name] = i
          BY <2>n, <3>2, <3>4, <3>5
        <4>3. DOMAIN barIndex' = {bars'[i].name : i \in 1..Len(bars')}
          <5>1. names = {bars[i].name : i \in 1..N}
            BY <1>7 DEF OneBarPerService
          <5> QED
            <6>1. {bars'[i].name : i \in 1..Len(bars')} =
                     {bars'[i].name : i \in 1..N} \cup {bars'[N + 1].name}
              BY <3>2, <3>5, <4>1
            <6>2. {bars'[i].name : i \in 1..N} = {bars[i].name : i \in 1..N}
              BY <3>2
            <6> QED
              BY <2>n, <3>2, <3>4, <5>1, <6>1, <6>2
        <4> QED
          BY <4>1, <4>2, <4>3 DEF OneBarPerService
      <3>7. \A i \in 1..(N + 1) : LET u == view'[bars'[i].name] IN
               u.state # "none" /\ bars'[i].status = StatusOf(u.state) /\ bars'[i].bytes = u.bytes
        <4>1. CASE TRUE
          <5> SUFFICES ASSUME NEW i \in 1..(N + 1)
                       PROVE  LET u == view'[bars'[i].name] IN
                              /\ u.state # "none" /\ bars'[i].status = StatusOf(u.state)
                              /\ bars'[i].bytes = u.bytes
            OBVIOUS
          <5>1. CASE i \in 1..N
            <6>1. view'[bars[i].name] = view[bars[i].name] /\ bars'[i] = bars[i]
              BY <1>4, <1>7, <3>2, <3>3, <5>1
            <6> QED
              BY <1>7, <5>1, <6>1
          <5>2. CASE i = N + 1
            <6>1. bars'[i] = new /\ view'[s] = w
              BY <1>4, <3>2, <5>2
            <6> QED
              BY <2>n, <2>2, <6>1
          <5> QED
            BY <3>5, <5>1, <5>2
        <4> QED
          BY <4>1
      <3>8. \A t \in Service : view'[t].state \in Stream!Active => t \in DOMAIN barIndex'
        BY <1>4, <1>7, <3>4
      <3>9. BarsFit'
        BY <3>2, <3>6, <3>7, <3>8 DEF BarsFit
      <3>10. Keeps(ch, view, names, DOMAIN barIndex')
        <4>1. \A t \in names : ~Opens(ch, view, 1)
          BY <1>9, <1>10, <2>4
        <4> QED
          BY <1>11, <3>4, <4>1 DEF Keeps
      <3> QED
        BY <1>8, <3>9, <3>10
    <2> QED
      BY <2>3, <2>4
  <1>12. CASE p.state # "starting"
    <2>0. UpdateBar(p) /\ UNCHANGED <<barIndex, lineCount>>
      BY <1>6, <1>12 DEF handle, UpdateBar
    <2>1. Keeps(ch, view, names, DOMAIN barIndex')
      BY <1>12, <2>0 DEF Keeps, Opens
    <2>2. \A t \in Service : view'[t].state \in Stream!Active => t \in DOMAIN barIndex'
      <3>1. p.state \in Stream!Active => v.state \in Stream!Active
        BY <1>5, <1>12 DEF Stream!Active
      <3> QED
        BY <1>3, <1>4, <1>7, <2>0, <3>1
    <2>3. CASE s \notin names
      <3>1. bars' = bars
        BY <2>0, <2>3 DEF UpdateBar
      <3>2. \A i \in 1..Len(bars) : view'[bars[i].name] = view[bars[i].name]
        BY <1>4, <1>7, <2>3 DEF OneBarPerService
      <3>3. OneBarPerService'
        BY <1>7, <2>0, <3>1 DEF OneBarPerService
      <3>4. \A i \in 1..Len(bars) : LET u == view'[bars[i].name] IN
               u.state # "none" /\ bars[i].status = StatusOf(u.state) /\ bars[i].bytes = u.bytes
        BY <1>7, <3>2
      <3> QED
        BY <1>7, <1>8, <2>1, <2>2, <3>1, <3>3, <3>4 DEF BarsFit
    <2>4. CASE s \in names
      <3>1. PICK m \in 1..Len(bars) : bars[m].name = s
        BY <1>7, <2>4 DEF OneBarPerService
      <3>2. barIndex[s] = m
        BY <1>7, <3>1 DEF OneBarPerService
      <3> DEFINE new == [name   |-> bars[m].name,
                         status |-> IF p.state = "uploading" THEN "" ELSE p.state,
                         bytes  |-> CASE p.state = "uploading" -> p.bytes
                                      [] p.state = "retry"     -> 0
                                      [] OTHER                 -> bars[m].bytes]
      <3>3. bars' = [bars EXCEPT ![m] = new]
        BY <2>0, <2>4, <3>2 DEF UpdateBar
      <3>4. /\ new.name = s /\ new.status = StatusOf(w.state) /\ new.bytes = w.bytes
            /\ w.state # "none" /\ new \in BarRec
        <4>1. new.name = s /\ new.status = StatusOf(w.state) /\ w.state # "none"
          BY <1>3, <1>4, <1>12, <3>1 DEF StatusOf, EventStates
        <4>2. new.bytes = w.bytes
          BY <1>3, <1>4, <1>5, <1>7, <1>12, <3>1 DEF EventStates
        <4>3. w.bytes \in 0..FileSize
          BY <1>3, <1>4 DEF View
        <4>4. new.status \in {"", "retry", "done", "error"}
          BY <1>3, <1>12 DEF EventStates
        <4>5. new = [name |-> new.name, status |-> new.status, bytes |-> new.bytes]
          OBVIOUS
        <4> QED
          BY <1>3, <4>1, <4>2, <4>3, <4>4, <4>5 DEF BarRec
      <3> HIDE DEF new
      <3>5. /\ bars' \in Seq(BarRec) /\ Len(bars') = Len(bars)
            /\ \A i \in 1..Len(bars) : bars'[i] = IF i = m THEN new ELSE bars[i]
        BY <1>7, <3>3, <3>4, ExceptSeq
      <3>6. \A i \in 1..Len(bars) : bars'[i].name = bars[i].name
        BY <3>1, <3>4, <3>5
      <3>7. OneBarPerService'
        <4>1. {bars'[i].name : i \in 1..Len(bars')} = {bars[i].name : i \in 1..Len(bars)}
          BY <3>5, <3>6
        <4> QED
          BY <1>7, <2>0, <3>5, <3>6, <4>1 DEF OneBarPerService
      <3>8. ASSUME NEW i \in 1..Len(bars)
            PROVE  /\ view'[bars'[i].name].state # "none"
                   /\ bars'[i].status = StatusOf(view'[bars'[i].name].state)
                   /\ bars'[i].bytes = view'[bars'[i].name].bytes
        <4>1. CASE i = m
          BY <1>4, <3>4, <3>5, <4>1
        <4>2. CASE i # m
          <5>1. bars'[i] = bars[i]
            BY <3>5, <4>2
          <5>2. bars[i].name # s
            BY <1>7, <3>1, <4>2 DEF OneBarPerService
          <5>3. view'[bars[i].name] = view[bars[i].name]
            BY <1>4, <1>7, <5>2
          <5> QED
            BY <1>7, <5>1, <5>3
        <4> QED
          BY <4>1, <4>2
      <3> QED
        BY <1>8, <2>1, <2>2, <3>5, <3>7, <3>8 DEF BarsFit
    <2> QED
      BY <2>3, <2>4
  <1> QED
    BY <1>11, <1>12

-----------------------------------------------------------------------------

\* Every step of the command keeps the display in line with the channel.
LEMMA CommandStep ==
    ASSUME UploaderInv, CommandInv, [CommandNext]_allVars
    PROVE  CommandInv'
  <1> USE DEF CommandInv
  <1>1. CASE DisplayHandles
    <2>1. FilesApart' /\ BarsFit'
      BY <1>1, HandleStep
    <2>2. ch # <<>> /\ UNCHANGED <<closed, drained, exited>>
      BY <1>1 DEF DisplayHandles, Receive, commandVars
    <2>3. EndsFit'
      BY <2>2 DEF EndsFit
    <2> QED
      BY <2>1, <2>3
  <1>2. CASE ~DisplayHandles
    <2>1. /\ UNCHANGED displayVars
          /\ \/ Cancel \/ CallerGoes \/ UploadFileGoes
             \/ \E s \in Service : doUploadGoes(s) \/ Read(s) \/ Ticking(s)
             \/ UNCHANGED vars
      BY <1>2 DEF CommandNext, DisplayEnds, Signal, SignalCancels, FileLoop, Exit, Uploads, Gone,
                  allVars
    <2>2. /\ view' = view
          /\ StartsAFile \/ \E p \in Progress : Sends(p)
          /\ closed => ch' = ch /\ closed'
      BY <2>1, OtherSteps
    <2>3. FilesApart'
      BY <2>1, <2>2, FilesStayApart
    <2>4. BarsFit'
      BY <2>1, <2>2 DEF BarsFit, OneBarPerService, displayVars
    <2>5. /\ drained' = drained \/ (closed /\ ch = <<>> /\ drained')
          /\ exited' = exited \/ (drained /\ drained')
      BY <1>2 DEF CommandNext, DisplayEnds, Signal, SignalCancels, FileLoop, Exit, Uploads, Gone,
                  allVars, commandVars
    <2>6. EndsFit'
      BY <2>2, <2>5 DEF EndsFit
    <2> QED
      BY <2>3, <2>4, <2>6
  <1> QED
    BY <1>1, <1>2

\* The command is an uploader: whatever is proved of the steps of Uploader holds
\* of the command too.
THEOREM CommandUploads == CommandSpec => Init /\ [][Next]_vars
  <1>1. CommandInit => Init
    BY DEF CommandInit
  <1> QED
    BY <1>1, StepsOfUploader, PTL DEF CommandSpec

\* The invariants of Uploader and of the display hold in every state the command
\* reaches.
THEOREM CommandInvHolds == CommandSpec => [](UploaderInv /\ CommandInv)
  <1>1. UploaderInv /\ CommandInv /\ [CommandNext]_allVars => (UploaderInv /\ CommandInv)'
    BY UploaderStep, CommandStep
  <1> QED
    BY CommandInitInv, <1>1, PTL DEF CommandSpec

\* The display draws no service twice and finds every bar where its index says,
\* for any number of services, files and events under way.
THEOREM BarsAreUnique == CommandSpec => []OneBarPerService
  <1>1. CommandInv => OneBarPerService
    BY DEF CommandInv, BarsFit
  <1> QED
    BY CommandInvHolds, <1>1, PTL

\* What the display has read of a service that has not ended is on the terminal:
\* no reset takes the bar of a service that still uploads.
THEOREM UnfinishedServicesAreShown == CommandSpec => []UnfinishedServicesHaveBars
  <1>1. CommandInv => UnfinishedServicesHaveBars
    <2> SUFFICES ASSUME CommandInv, NEW s \in Service, view[s].state \in Stream!Active
                 PROVE  /\ s \in DOMAIN barIndex
                        /\ bars[barIndex[s]].status = IF view[s].state = "retry" THEN "retry" ELSE ""
                        /\ bars[barIndex[s]].bytes = view[s].bytes
      BY DEF UnfinishedServicesHaveBars, Stream!Active
    <2>1. BarsFit /\ s \in DOMAIN barIndex
      BY DEF CommandInv, BarsFit
    <2>2. PICK i \in 1..Len(bars) : bars[i].name = s
      BY <2>1 DEF BarsFit, OneBarPerService
    <2>3. barIndex[s] = i
      BY <2>1, <2>2 DEF BarsFit, OneBarPerService
    <2>4. bars[i].status = StatusOf(view[s].state) /\ bars[i].bytes = view[s].bytes
      BY <2>1, <2>2 DEF BarsFit
    <2> QED
      BY <2>1, <2>3, <2>4 DEF StatusOf, Stream!Active
  <1> QED
    BY CommandInvHolds, <1>1, PTL

\* When the command exits nothing it was told is left unshown: every bar has
\* finished and says what the result of its service says.
THEOREM TheLastBarsAreRight == CommandSpec => []BarsShowTheResults
  <1>1. UploaderInv /\ CommandInv => BarsShowTheResults
    <2> SUFFICES ASSUME UploaderInv, CommandInv, exited
                 PROVE  /\ ch = <<>>
                        /\ \A i \in 1..Len(bars) : bars[i].status \in Terminal
                        /\ \A i \in 1..Len(bars), j \in 1..Len(results) :
                              bars[i].name = results[j].service
                                  => (bars[i].status = "done") = (results[j].err = None)
      BY DEF BarsShowTheResults
    <2>1. closed /\ ch = <<>> /\ Len(ch) = 0
      BY DEF CommandInv, EndsFit
    <2>2. \A s \in Service : pc[s] = "idle"
      BY <2>1 DEF UploaderInv, IndInv, ClosedAtTheEnd, UploadsAreInside, Running
    <2>3. PICK k : Coming(ch, view, k) /\ Agrees(k) /\ \A s \in Service : Stands(s, k[s])
      BY DEF UploaderInv, StreamInv
    <2>4. k = view
      BY <2>1, <2>3 DEF Coming, Trace
    <2>5. \A s \in Service : view[s].state \in Stream!Quiet
      BY <2>2, <2>3, <2>4 DEF Stands
    <2>6. /\ bars \in Seq(BarRec)
          /\ \A i \in 1..Len(bars) : /\ view[bars[i].name].state # "none"
                                     /\ bars[i].status = StatusOf(view[bars[i].name].state)
      BY DEF CommandInv, BarsFit
    <2>7. ASSUME NEW i \in 1..Len(bars)
          PROVE  /\ view[bars[i].name].state \in {"done", "error"}
                 /\ bars[i].status = view[bars[i].name].state
      <3>1. bars[i] \in BarRec
        BY <2>6, ElementOfSeq
      <3>2. bars[i].name \in Service
        BY <3>1 DEF BarRec
      <3> QED
        BY <2>5, <2>6, <3>2 DEF StatusOf, Stream!Quiet
    <2>8. ASSUME NEW i \in 1..Len(bars), NEW j \in 1..Len(results),
                 bars[i].name = results[j].service
          PROVE  (bars[i].status = "done") = (results[j].err = None)
      BY <2>3, <2>4, <2>7, <2>8 DEF Agrees
    <2> QED
      BY <2>1, <2>7, <2>8 DEF Terminal
  <1> QED
    BY CommandInvHolds, <1>1, PTL

=============================================================================
