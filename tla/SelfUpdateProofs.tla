-------------------------- MODULE SelfUpdateProofs --------------------------
(***************************************************************************)
(* Proofs about SelfUpdate, for any number of processes, of updates at     *)
(* once and of kills, and any published versions: its type invariant and   *)
(* every safety property of the module.                                    *)
(***************************************************************************)
EXTENDS SelfUpdate, SequenceTheorems, TLAPS

Images == {"none", "exec", "old"}

\* What downloadTo accepted, until it is renamed.
Accepted == {"validate", "stale", "aside", "install", "chmod", "replace"}

\* Between the two renames of a Windows update.
Swapping == {"install", "rollback"}

\* A temporary file that downloadTo accepted is of the release asked for, and
\* whole as far as its announced length tells.
AcceptedFilesAreWhole ==
    \A p \in Process : pc[p] \in Accepted =>
        /\ temp[p] \in File /\ temp[p].version = target[p]
        /\ temp[p].holds = "beginning" => ~temp[p].announced
        /\ pc[p] = "replace" => temp[p].executable

\* An update goes to a later release than the one it runs as.
TargetsAreLater ==
    \A p \in Process : pc[p] \in Updating \cup {"temp"} => version[p] < target[p]

\* Which way of replacing the binary is the system's.
StepsFitTheSystem ==
    \A p \in Process : /\ pc[p] \in Swapping \cup {"aside"} => os = "windows"
                       /\ pc[p] \in {"chmod", "replace"} => os = "unix"

\* Windows: a process runs the image of a file that is there, runs, and is the
\* build the process was started as.
ImagesAreThere ==
    os = "windows" =>
        \A p \in Process : /\ pc[p] \in Running => image[p] # "none"
                           /\ image[p] = "exec" => Runs(exec) /\ exec.version = version[p]
                           /\ image[p] = "old" => Runs(old) /\ old.version = version[p]

\* Windows: a process between its renames runs the file it moved aside, which
\* keeps every other process from moving one there.
OneSwapAtATime ==
    /\ \A p \in Process : pc[p] \in Swapping => image[p] = "old"
    /\ \A p, q \in Process : pc[p] \in Swapping /\ pc[q] \in Swapping => p = q

\* The name has a file outside the swaps, but for one that was broken off.
NameIsThere ==
    exec = Absent => /\ os = "windows"
                     /\ broken \/ \E p \in Process : pc[p] \in Swapping

IndInv ==
    /\ TypeOK /\ AcceptedFilesAreWhole /\ TargetsAreLater /\ StepsFitTheSystem
    /\ ImagesAreThere /\ OneSwapAtATime
    /\ AWorkingBinaryRemains /\ NameIsThere /\ TempFilesAreRemoved

-----------------------------------------------------------------------------

\* The assumptions on the constants, as the proofs use them.
LEMMA ConstantFacts ==
    /\ Releases \in Seq(Nat \X Nat \X Nat) /\ Len(Releases) \in Nat /\ Len(Releases) > 0
    /\ Absent \notin File
    /\ Version \subseteq Nat /\ 0 \in Version /\ 1..Len(Releases) \subseteq Version
  <1>1. Len(Releases) \in Nat /\ Len(Releases) > 0
    BY ReleasesAssumption
  <1> QED
    BY <1>1, ReleasesAssumption, AbsentAssumption DEF Version

\* A build is a file.
LEMMA InstalledFacts ==
    ASSUME NEW v \in Version
    PROVE  /\ Installed(v) \in File /\ Installed(v) # Absent
           /\ Runs(Installed(v)) /\ Installed(v).version = v
  <1>1. Installed(v) \in File
    BY DEF Installed, File
  <1>2. Installed(v) # Absent
    BY <1>1, ConstantFacts
  <1>3. Installed(v).executable = TRUE /\ Installed(v).holds = "binary"
    BY DEF Installed
  <1> QED
    BY <1>1, <1>2, <1>3 DEF Installed, Runs

\* The initial state satisfies the inductive invariant.
LEMMA InitInv == Init => IndInv
  <1> SUFFICES ASSUME Init PROVE IndInv
    OBVIOUS
  <1> USE ConstantFacts DEF Init
  <1>1. PICK v \in Version : exec = Installed(v)
    OBVIOUS
  <1>2. exec \in File /\ exec # Absent /\ Runs(exec) /\ old \in File \cup {Absent}
    BY <1>1, InstalledFacts
  <1>3. TypeOK
    <2>1. /\ temp \in [Process -> File \cup {Absent}]
          /\ pc \in [Process -> Running \cup {"off", "killed"}]
          /\ version \in [Process -> Version] /\ target \in [Process -> Version]
          /\ image \in [Process -> {"none", "exec", "old"}]
      OBVIOUS
    <2>2. os \in Systems /\ latest \in 1..Len(Releases) /\ broken \in BOOLEAN
      BY 1 \in 1..Len(Releases)
    <2> QED
      BY <1>2, <2>1, <2>2 DEF TypeOK
  <1>4. AcceptedFilesAreWhole /\ TargetsAreLater /\ StepsFitTheSystem
    BY DEF AcceptedFilesAreWhole, TargetsAreLater, StepsFitTheSystem, Accepted, Updating, Swapping
  <1>5. ImagesAreThere /\ OneSwapAtATime
    BY DEF ImagesAreThere, OneSwapAtATime, Running, Updating, Swapping
  <1>6. AWorkingBinaryRemains /\ NameIsThere /\ TempFilesAreRemoved
    BY <1>2 DEF AWorkingBinaryRemains, NameIsThere, TempFilesAreRemoved
  <1> QED
    BY <1>3, <1>4, <1>5, <1>6 DEF IndInv

-----------------------------------------------------------------------------

\* A process that ends goes off with its temporary file and its image, and
\* touches nothing of another.
LEMMA ExitFacts ==
    ASSUME TypeOK, NEW p \in Process, NEW images \in [Process -> Images],
           ExitsFrom(p, images)
    PROVE  /\ temp' \in [Process -> File \cup {Absent}]
           /\ pc' \in [Process -> Running \cup {"off", "killed"}]
           /\ version' \in [Process -> Version] /\ target' \in [Process -> Version]
           /\ image' \in [Process -> Images]
           /\ pc'[p] = "off" /\ temp'[p] = Absent /\ image'[p] = "none"
           /\ \A q \in Process \ {p} :
                  /\ pc'[q] = pc[q] /\ temp'[q] = temp[q] /\ image'[q] = images[q]
                  /\ version'[q] = version[q] /\ target'[q] = target[q]
  BY ConstantFacts DEF TypeOK, ExitsFrom, GoTo, Images

\* The image of a process follows its file.
LEMMA MovedFacts ==
    ASSUME TypeOK, NEW from \in {"exec", "old"}, NEW to \in {"exec", "old"}
    PROVE  /\ Moved(from, to) \in [Process -> Images]
           /\ \A q \in Process : Moved(from, to)[q] = IF image[q] = from THEN to ELSE image[q]
  BY DEF TypeOK, Moved, Images

\* Every step keeps the types.
LEMMA TypeStep == IndInv /\ [Next]_vars => TypeOK'
  <1> SUFFICES ASSUME IndInv, [Next]_vars PROVE TypeOK'
    OBVIOUS
  <1> USE ConstantFacts DEF vars
  <1>0. TypeOK /\ AcceptedFilesAreWhole
    BY DEF IndInv
  <1>i. image \in [Process -> Images]
    BY <1>0 DEF TypeOK, Images
  <1>1. CASE Publish
    BY <1>0, <1>1 DEF Publish, TypeOK
  <1> SUFFICES ASSUME NEW p \in Process,
                      \/ Launch(p) \/ Cleanup(p) \/ Leave(p) \/ CheckLatest(p)
                      \/ UpdateStep(p) \/ Kill(p) \/ UNCHANGED vars
               PROVE  TypeOK'
    BY <1>0, <1>1 DEF Next, TypeOK
  <1> DEFINE Frame == /\ os' \in Systems /\ latest' \in 1..Len(Releases)
                      /\ exec' \in File \cup {Absent} /\ old' \in File \cup {Absent}
                      /\ broken' \in BOOLEAN
  <1>e. ASSUME Frame, NEW images \in [Process -> Images], ExitsFrom(p, images)
        PROVE  TypeOK'
    <2>1. /\ temp' \in [Process -> File \cup {Absent}]
          /\ pc' \in [Process -> Running \cup {"off", "killed"}]
          /\ version' \in [Process -> Version] /\ target' \in [Process -> Version]
          /\ image' \in [Process -> {"none", "exec", "old"}]
          /\ pc'[p] = "off"
          /\ \A q \in Process \ {p} : pc'[q] = pc[q] /\ temp'[q] = temp[q]
      BY <1>0, <1>e, ExitFacts DEF Images
    <2>2. ASSUME NEW q \in Process,
                 pc'[q] \in {"stale", "aside", "install", "chmod", "replace"}
          PROVE  temp'[q] # Absent /\ temp'[q].holds # "page"
      BY <1>0, <2>1, <2>2 DEF TypeOK
    <2> QED
      BY <1>e, <2>1, <2>2 DEF TypeOK
  <1>2. ASSUME Frame, Exits(p) PROVE TypeOK'
    BY <1>i, <1>e, <1>2 DEF Exits
  <1>3. ASSUME Frame, NEW step \in Running, GoTo(p, step), temp' = temp, version' = version,
               image' = image, target' = target,
               step \in {"stale", "aside", "install", "chmod", "replace"}
                   => temp[p] # Absent /\ temp[p].holds # "page"
        PROVE  TypeOK'
    BY <1>0, <1>i, <1>3 DEF TypeOK, GoTo
  <1>4. CASE Launch(p)
    BY <1>0, <1>4 DEF Launch, TypeOK, GoTo, Runs, Running, File
  <1>5. CASE Cleanup(p)
    BY <1>0, <1>5 DEF Cleanup, TypeOK, GoTo, Running
  <1>6. CASE Leave(p)
    BY <1>0, <1>2, <1>6 DEF Leave, TypeOK
  <1>7. CASE CheckLatest(p)
    <2>1. CASE Exits(p)
      BY <1>0, <1>2, <1>7, <2>1 DEF CheckLatest, TypeOK
    <2> QED
      BY <1>0, <1>7, <2>1 DEF CheckLatest, TypeOK, GoTo, Running
  <1>8. CASE CreateTemp(p)
    <2>1. CASE Exits(p)
      BY <1>0, <1>2, <1>8, <2>1 DEF CreateTemp, TypeOK
    <2>2. [Installed(0) EXCEPT !.holds = "beginning", !.executable = FALSE] \in File
      BY DEF Installed, File
    <2>3. CASE ~Exits(p)
      <3>1. /\ temp' = [temp EXCEPT ![p] = [Installed(0) EXCEPT !.holds = "beginning",
                                                              !.executable = FALSE]]
            /\ pc' = [pc EXCEPT ![p] = "download"]
            /\ UNCHANGED <<os, latest, exec, old, version, image, target, broken>>
        BY <1>8, <2>3 DEF CreateTemp, GoTo
      <3>2. /\ temp' \in [Process -> File \cup {Absent}]
            /\ pc' \in [Process -> Running \cup {"off", "killed"}]
        BY <1>0, <2>2, <3>1 DEF TypeOK, Running, Updating
      <3> QED
        BY <1>0, <3>1, <3>2 DEF TypeOK
    <2> QED
      BY <1>0, <1>2, <1>8, <2>1, <2>3 DEF CreateTemp, TypeOK
  <1>9. CASE Download(p)
    <2>1. CASE Exits(p)
      BY <1>0, <1>2, <1>9, <2>1 DEF Download, TypeOK
    <2>2. \A f \in [holds : {"binary", "beginning", "page"}, version : {target[p]},
                    announced : BOOLEAN, executable : {FALSE}] : f \in File
      BY <1>0 DEF File, TypeOK
    <2>3. CASE ~Exits(p)
      <3>1. PICK f \in File : /\ temp' = [temp EXCEPT ![p] = f]
                              /\ pc' = [pc EXCEPT ![p] = "validate"]
                              /\ UNCHANGED <<os, latest, exec, old, version, image, target, broken>>
        BY <1>9, <2>2, <2>3 DEF Download, GoTo
      <3>2. /\ temp' \in [Process -> File \cup {Absent}]
            /\ pc' \in [Process -> Running \cup {"off", "killed"}]
        BY <1>0, <3>1 DEF TypeOK, Running, Updating
      <3> QED
        BY <1>0, <3>1, <3>2 DEF TypeOK
    <2> QED
      BY <2>1, <2>3
  <1>10. CASE ValidateBinary(p)
    <2>1. Frame
      BY <1>0, <1>10 DEF ValidateBinary, TypeOK
    <2>2. CASE hasExecutableHeader(temp[p])
      <3>1. temp[p] \in File
        BY <1>0, <1>10 DEF ValidateBinary, AcceptedFilesAreWhole, Accepted
      <3>2. temp[p].holds # "page" /\ temp[p] # Absent
        BY <2>2, <3>1 DEF hasExecutableHeader
      <3> QED
        BY <1>3, <1>10, <2>1, <2>2, <3>2 DEF ValidateBinary, Running, Updating
    <2> QED
      BY <1>2, <1>10, <2>1, <2>2 DEF ValidateBinary
  <1>11. CASE RemoveStale(p)
    <2>1. Frame
      BY <1>0, <1>11 DEF RemoveStale, TypeOK
    <2>2. CASE Exits(p)
      BY <1>2, <2>1, <2>2
    <2>3. temp[p] # Absent /\ temp[p].holds # "page"
      BY <1>0, <1>11 DEF RemoveStale, TypeOK
    <2> QED
      BY <1>3, <1>11, <2>1, <2>2, <2>3 DEF RemoveStale, Running, Updating
  <1>12. CASE MoveAside(p)
    <2>1. Frame
      BY <1>0, <1>12 DEF MoveAside, TypeOK
    <2>2. CASE Exits(p)
      BY <1>2, <2>1, <2>2
    <2>3. temp[p] # Absent /\ temp[p].holds # "page"
      BY <1>0, <1>12 DEF MoveAside, TypeOK
    <2>4. Moved("exec", "old") \in [Process -> Images]
      BY <1>0, MovedFacts
    <2> QED
      BY <1>0, <1>12, <2>1, <2>2, <2>3, <2>4 DEF MoveAside, TypeOK, GoTo, Running, Updating, Images
  <1>13. CASE Install(p)
    <2>1. temp[p] # Absent /\ temp[p] \in File \cup {Absent} /\ temp[p].holds # "page"
      BY <1>0, <1>13 DEF Install, TypeOK
    <2>2. Frame
      BY <1>0, <1>13, <2>1 DEF Install, TypeOK
    <2>3. CASE Exits(p)
      BY <1>2, <2>2, <2>3
    <2> QED
      BY <1>3, <1>13, <2>1, <2>2, <2>3 DEF Install, Running, Updating
  <1>14. CASE Rollback(p)
    <2>1. Frame
      BY <1>0, <1>14 DEF Rollback, TypeOK
    <2>2. Moved("old", "exec") \in [Process -> Images]
      BY <1>0, MovedFacts
    <2>3. CASE ExitsFrom(p, Moved("old", "exec"))
      BY <1>e, <2>1, <2>2, <2>3
    <2> QED
      BY <1>2, <1>14, <2>1, <2>3 DEF Rollback
  <1>15. CASE Chmod(p)
    <2>1. Frame
      BY <1>0, <1>15 DEF Chmod, TypeOK
    <2>2. CASE Exits(p)
      BY <1>2, <2>1, <2>2
    <2>3. temp[p] \in File /\ temp[p].holds # "page"
      BY <1>0, <1>15 DEF Chmod, TypeOK
    <2>4. /\ [temp[p] EXCEPT !.executable = TRUE] \in File
          /\ [temp[p] EXCEPT !.executable = TRUE].holds # "page"
      BY <2>3 DEF File
    <2>5. temp' = [temp EXCEPT ![p] = [temp[p] EXCEPT !.executable = TRUE]] \/ Exits(p)
      BY <1>0, <1>15 DEF Chmod, TypeOK
    <2> QED
      BY <1>0, <1>15, <2>1, <2>2, <2>4, <2>5 DEF Chmod, TypeOK, GoTo, Running, Updating
  <1>16. CASE Replace(p)
    <2>1. temp[p] \in File \cup {Absent}
      BY <1>0 DEF TypeOK
    <2>2. Frame
      BY <1>0, <1>16, <2>1 DEF Replace, TypeOK
    <2> QED
      BY <1>2, <1>16, <2>2 DEF Replace
  <1>17. CASE Kill(p)
    BY <1>0, <1>17 DEF Kill, TypeOK, GoTo
  <1>18. CASE UNCHANGED vars
    BY <1>0, <1>18 DEF TypeOK
  <1> QED
    BY <1>4, <1>5, <1>6, <1>7, <1>8, <1>9, <1>10, <1>11, <1>12, <1>13, <1>14, <1>15,
       <1>16, <1>17, <1>18 DEF UpdateStep

-----------------------------------------------------------------------------

\* What a process does by itself or what is done to it.
Step(p) == \/ Launch(p) \/ Cleanup(p) \/ Leave(p) \/ CheckLatest(p)
           \/ UpdateStep(p) \/ Kill(p)

\* A process changes the state of no other, but for the name of its image, and
\* never the system.
LEMMA OthersKeepTheirs ==
    ASSUME TypeOK, NEW p \in Process, Step(p)
    PROVE  /\ os' = os
           /\ \A q \in Process \ {p} : /\ pc'[q] = pc[q] /\ temp'[q] = temp[q]
                                       /\ version'[q] = version[q] /\ target'[q] = target[q]
  <1> DEFINE Others == \A q \in Process \ {p} :
                           /\ pc'[q] = pc[q] /\ temp'[q] = temp[q]
                           /\ version'[q] = version[q] /\ target'[q] = target[q]
  <1> USE DEF GoTo
  <1>1. ASSUME Exits(p) PROVE Others
    BY <1>1 DEF Exits, ExitsFrom, TypeOK
  <1>2. ASSUME ExitsFrom(p, Moved("old", "exec")) PROVE Others
    BY <1>2 DEF ExitsFrom, TypeOK
  <1>3. CASE Launch(p) \/ Cleanup(p) \/ Kill(p)
    BY <1>3 DEF Launch, Cleanup, Kill, TypeOK
  <1>4. CASE Leave(p) \/ CheckLatest(p) \/ CreateTemp(p)
    <2>1. Others
      BY <1>1, <1>4 DEF Leave, CheckLatest, CreateTemp, TypeOK
    <2> QED
      BY <1>4, <2>1 DEF Leave, CheckLatest, CreateTemp
  <1>5. CASE Download(p)
    <2>1. ASSUME ~Exits(p) PROVE Others
      <3>1. PICK f : /\ temp' = [temp EXCEPT ![p] = f] /\ pc' = [pc EXCEPT ![p] = "validate"]
                     /\ UNCHANGED <<version, image, target>>
        BY <1>5, <2>1 DEF Download
      <3> QED
        BY <1>5, <3>1 DEF Download, TypeOK
    <2> QED
      BY <1>1, <1>5, <2>1 DEF Download
  <1>6. CASE ValidateBinary(p) \/ RemoveStale(p)
    BY <1>1, <1>6 DEF ValidateBinary, RemoveStale, TypeOK
  <1>7. CASE MoveAside(p) \/ Install(p) \/ Rollback(p)
    BY <1>1, <1>2, <1>7 DEF MoveAside, Install, Rollback, TypeOK
  <1>8. CASE Chmod(p) \/ Replace(p)
    BY <1>1, <1>8 DEF Chmod, Replace, TypeOK
  <1> QED
    BY <1>3, <1>4, <1>5, <1>6, <1>7, <1>8 DEF Step, UpdateStep

\* An earlier version does not compare as larger.
LEMMA CompareOfEarlier ==
    ASSUME NEW a, NEW b,
           a[1] \in Nat, a[2] \in Nat, a[3] \in Nat, b[1] \in Nat, b[2] \in Nat, b[3] \in Nat,
           \/ a[1] < b[1]
           \/ a[1] = b[1] /\ a[2] < b[2]
           \/ a[1] = b[1] /\ a[2] = b[2] /\ a[3] < b[3]
    PROVE  ~(Compare(a, b) > 0)
  <1>1. CASE a[1] # b[1]
    BY <1>1 DEF Compare
  <1>2. CASE a[1] = b[1] /\ a[2] # b[2]
    BY <1>2 DEF Compare
  <1>3. CASE a[1] = b[1] /\ a[2] = b[2]
    BY <1>3 DEF Compare
  <1> QED
    BY <1>1, <1>2, <1>3

\* The comparison agrees with the order of publication: a release that IsNewer
\* accepts was published later.
LEMMA NewerIsLater ==
    ASSUME NEW release \in 1..Len(Releases), NEW built \in Version, IsNewer(release, built)
    PROVE  built < release
  <1> USE ConstantFacts
  <1>1. CASE built = 0
    BY <1>1
  <1>2. CASE built # 0
    <2>1. built \in 1..Len(Releases)
      BY <1>2 DEF Version
    <2> DEFINE a == Releases[release]
               b == Releases[built]
    <2>2. \A i \in 1..Len(Releases) : Releases[i] \in Nat \X Nat \X Nat
      BY ElementOfSeq
    <2>3. /\ a[1] \in Nat /\ a[2] \in Nat /\ a[3] \in Nat
          /\ b[1] \in Nat /\ b[2] \in Nat /\ b[3] \in Nat
      BY <2>1, <2>2
    <2>4. Compare(a, b) > 0
      BY <1>2 DEF IsNewer
    <2>5. ASSUME built = release PROVE FALSE
      BY <2>3, <2>4, <2>5 DEF Compare
    <2>6. ASSUME release < built PROVE FALSE
      <3>1. \/ a[1] < b[1]
            \/ a[1] = b[1] /\ a[2] < b[2]
            \/ a[1] = b[1] /\ a[2] = b[2] /\ a[3] < b[3]
        BY <2>1, <2>6, PublishedInOrder
      <3>2. ~(Compare(a, b) > 0)
        BY <2>3, <3>1, CompareOfEarlier
      <3> QED
        BY <2>4, <3>2
    <2> QED
      BY <2>1, <2>5, <2>6
  <1> QED
    BY <1>1, <1>2

-----------------------------------------------------------------------------

\* Every step keeps what a process knows of its own update.
LEMMA ProcessStep ==
    IndInv /\ [Next]_vars =>
        AcceptedFilesAreWhole' /\ TargetsAreLater' /\ StepsFitTheSystem' /\ TempFilesAreRemoved'
  <1> SUFFICES ASSUME IndInv, [Next]_vars
               PROVE  AcceptedFilesAreWhole' /\ TargetsAreLater' /\ StepsFitTheSystem'
                      /\ TempFilesAreRemoved'
    OBVIOUS
  <1> DEFINE Good(p) ==
                 /\ pc[p] \in Accepted => /\ temp[p] \in File /\ temp[p].version = target[p]
                                          /\ temp[p].holds = "beginning" => ~temp[p].announced
                                          /\ pc[p] = "replace" => temp[p].executable
                 /\ pc[p] \in Updating \cup {"temp"} => version[p] < target[p]
                 /\ pc[p] \in Swapping \cup {"aside"} => os = "windows"
                 /\ pc[p] \in {"chmod", "replace"} => os = "unix"
                 /\ temp[p] # Absent => pc[p] \in Updating \cup {"killed"}
  <1> USE ConstantFacts DEF vars, Accepted, Updating, Swapping
  <1>0. TypeOK /\ TypeOK' /\ \A p \in Process : Good(p)
    BY TypeStep DEF IndInv, AcceptedFilesAreWhole, TargetsAreLater, StepsFitTheSystem,
                    TempFilesAreRemoved
  <1> SUFFICES ASSUME NEW q \in Process PROVE Good(q)'
    BY DEF AcceptedFilesAreWhole, TargetsAreLater, StepsFitTheSystem, TempFilesAreRemoved
  <1>1. CASE Publish \/ UNCHANGED vars
    BY <1>0, <1>1 DEF Publish
  <1>2. ASSUME NEW p \in Process, Step(p), p # q PROVE Good(q)'
    <2>1. /\ os' = os /\ pc'[q] = pc[q] /\ temp'[q] = temp[q]
          /\ version'[q] = version[q] /\ target'[q] = target[q]
      BY <1>0, <1>2, OthersKeepTheirs
    <2> QED
      BY <1>0, <2>1
  <1>3. ASSUME Step(q) PROVE Good(q)'
    <2> USE DEF GoTo
    <2>0. /\ pc \in [Process -> Running \cup {"off", "killed"}]
          /\ temp \in [Process -> File \cup {Absent}]
          /\ version \in [Process -> Version] /\ target \in [Process -> Version]
          /\ latest \in 1..Len(Releases) /\ os \in Systems
      BY <1>0 DEF TypeOK
    <2>1. ASSUME Exits(q) PROVE Good(q)'
      BY <2>0, <2>1 DEF Exits, ExitsFrom
    <2>2. ASSUME ExitsFrom(q, Moved("old", "exec")) PROVE Good(q)'
      BY <2>0, <2>2 DEF ExitsFrom
    <2>3. CASE Launch(q)
      BY <1>0, <2>0, <2>3 DEF Launch
    <2>4. CASE Cleanup(q)
      BY <1>0, <2>0, <2>4 DEF Cleanup
    <2>5. CASE Leave(q)
      BY <2>1, <2>5 DEF Leave
    <2>6. CASE CheckLatest(q)
      <3>1. CASE ~Exits(q)
        <4>1. version[q] < latest
          BY <2>0, <2>6, <3>1, NewerIsLater DEF CheckLatest
        <4> QED
          BY <1>0, <2>0, <2>6, <3>1, <4>1 DEF CheckLatest
      <3> QED
        BY <2>1, <3>1
    <2>7. CASE CreateTemp(q)
      BY <1>0, <2>0, <2>1, <2>7 DEF CreateTemp
    <2>8. CASE Download(q)
      <3>1. CASE ~Exits(q)
        <4>1. PICK f \in [holds : {"binary", "beginning", "page"}, version : {target[q]},
                          announced : BOOLEAN, executable : {FALSE}], large \in BOOLEAN :
                  /\ Complete(f, large) /\ temp' = [temp EXCEPT ![q] = f]
                  /\ pc' = [pc EXCEPT ![q] = "validate"] /\ UNCHANGED <<version, target, os>>
          BY <2>8, <3>1 DEF Download
        <4>2. f \in File /\ f.version = target[q] /\ (f.holds = "beginning" => ~f.announced)
          BY <2>0, <4>1 DEF File, Complete
        <4> QED
          BY <1>0, <2>0, <2>8, <4>1, <4>2 DEF Download
      <3> QED
        BY <2>1, <3>1
    <2>9. CASE ValidateBinary(q)
      BY <1>0, <2>0, <2>1, <2>9 DEF ValidateBinary
    <2>10. CASE RemoveStale(q)
      BY <1>0, <2>0, <2>1, <2>10 DEF RemoveStale, Systems
    <2>11. CASE MoveAside(q)
      BY <1>0, <2>0, <2>1, <2>11 DEF MoveAside
    <2>12. CASE Install(q)
      BY <1>0, <2>0, <2>1, <2>12 DEF Install
    <2>13. CASE Rollback(q)
      BY <2>1, <2>2, <2>13 DEF Rollback
    <2>14. CASE Chmod(q)
      <3>1. CASE ~Exits(q)
        <4> DEFINE f == [temp[q] EXCEPT !.executable = TRUE]
        <4>1. f \in File /\ f.version = temp[q].version /\ f.holds = temp[q].holds
              /\ f.announced = temp[q].announced /\ f.executable = TRUE
          BY <1>0, <2>14 DEF Chmod, File
        <4>2. temp' = [temp EXCEPT ![q] = f]
          BY <2>14, <3>1 DEF Chmod
        <4> HIDE DEF f
        <4> QED
          BY <1>0, <2>0, <2>14, <3>1, <4>1, <4>2 DEF Chmod
      <3> QED
        BY <2>1, <3>1
    <2>15. CASE Replace(q)
      BY <2>1, <2>15 DEF Replace
    <2>16. CASE Kill(q)
      BY <1>0, <2>0, <2>16 DEF Kill
    <2> QED
      BY <1>3, <2>3, <2>4, <2>5, <2>6, <2>7, <2>8, <2>9, <2>10, <2>11, <2>12, <2>13, <2>14,
         <2>15, <2>16 DEF Step, UpdateStep
  <1> QED
    BY <1>1, <1>2, <1>3 DEF Next, Step

-----------------------------------------------------------------------------

\* Every step keeps the images of Windows' processes and the swap to one
\* process.
LEMMA ImageStep == IndInv /\ [Next]_vars => ImagesAreThere' /\ OneSwapAtATime'
  <1> SUFFICES ASSUME IndInv, [Next]_vars PROVE ImagesAreThere' /\ OneSwapAtATime'
    OBVIOUS
  <1> USE DEF vars
  <1>0. /\ TypeOK /\ AcceptedFilesAreWhole /\ StepsFitTheSystem
        /\ ImagesAreThere /\ OneSwapAtATime
    BY DEF IndInv
  <1>1. CASE Publish \/ UNCHANGED vars
    BY <1>0, <1>1 DEF Publish, ImagesAreThere, OneSwapAtATime, Runs
  <1> SUFFICES ASSUME NEW p \in Process, Step(p) PROVE ImagesAreThere' /\ OneSwapAtATime'
    BY <1>1 DEF Next, Step
  <1> USE DEF GoTo
  <1>2. /\ os' = os
        /\ \A q \in Process \ {p} : pc'[q] = pc[q] /\ version'[q] = version[q]
    BY <1>0, OthersKeepTheirs
  <1>3. /\ pc \in [Process -> Running \cup {"off", "killed"}]
        /\ image \in [Process -> Images]
    BY <1>0 DEF TypeOK, Images
  \* a step that leaves the files and the other images alone
  <1>4. ASSUME exec' = exec, old' = old, version'[p] = version[p] \/ image'[p] = "none", pc'[p] \notin Swapping \/ pc[p] \in Swapping,
               \A q \in Process \ {p} : image'[q] = image[q],
               \/ image'[p] = image[p] /\ pc[p] \in Running
               \/ image'[p] = "none" /\ pc'[p] \notin Running
        PROVE  ImagesAreThere' /\ OneSwapAtATime'
    <2>1. ImagesAreThere'
      BY <1>0, <1>2, <1>4 DEF ImagesAreThere, Runs
    <2>2. ASSUME NEW q \in Process, pc'[q] \in Swapping
          PROVE  pc[q] \in Swapping /\ image'[q] = image[q]
      BY <1>2, <1>4, <2>2 DEF Running, Updating, Swapping
    <2> QED
      BY <1>0, <2>1, <2>2 DEF OneSwapAtATime
  <1>5. ASSUME exec' = exec, old' = old, Exits(p) PROVE ImagesAreThere' /\ OneSwapAtATime'
    BY <1>0, <1>4, <1>5, <1>3, ExitFacts DEF Exits, Running, Updating, Swapping
  \* a step inside the update, or out of it, that only the process itself sees
  <1>n. ASSUME exec' = exec, old' = old, image' = image, version' = version, pc[p] \in Running,
               pc'[p] \notin Swapping \/ pc[p] \in Swapping
        PROVE  ImagesAreThere' /\ OneSwapAtATime'
    <2>1. /\ \A q \in Process \ {p} : image'[q] = image[q]
          /\ image'[p] = image[p]
      BY <1>n
    <2> QED
      BY ONLY <1>4, <1>n, <2>1
  <1>6. CASE Launch(p)
    <2>1. Runs(exec) /\ exec' = exec /\ old' = old /\ version'[p] = exec.version
      BY <1>0, <1>6 DEF Launch, TypeOK
    <2>2. image'[p] = IF os = "windows" THEN "exec" ELSE "none"
      BY <1>3, <1>6 DEF Launch
    <2>3. pc'[p] = "cleanup" /\ \A q \in Process \ {p} : image'[q] = image[q]
      BY <1>3, <1>6 DEF Launch
    <2>4. ImagesAreThere'
      BY <1>0, <1>2, <2>1, <2>2, <2>3 DEF ImagesAreThere, Runs
    <2> QED
      BY <1>0, <1>2, <2>3, <2>4 DEF OneSwapAtATime, Swapping
  <1>7. CASE Cleanup(p)
    <2>1. exec' = exec /\ image' = image /\ version' = version /\ pc'[p] \in {"busy", "check"} /\ pc[p] = "cleanup"
      BY <1>3, <1>7 DEF Cleanup
    <2>2. os = "windows" => (old' = old \/ ~InUse("old"))
      BY <1>7 DEF Cleanup
    <2>3. ImagesAreThere'
      BY <1>0, <1>2, <2>1, <2>2 DEF ImagesAreThere, Runs, InUse, Running
    <2> QED
      BY <1>0, <1>2, <2>1, <2>3 DEF OneSwapAtATime, Swapping
  <1>8. CASE Leave(p)
    BY <1>5, <1>8 DEF Leave
  <1>9. CASE CheckLatest(p)
    <2>1. CASE ~Exits(p)
      <3>1. /\ pc[p] = "check" /\ pc'[p] = "temp"
            /\ exec' = exec /\ old' = old /\ image' = image /\ version' = version
        BY <1>3, <1>9, <2>1 DEF CheckLatest
      <3> QED
        BY <1>n, <3>1 DEF Running, Updating, Swapping
    <2> QED
      BY <1>5, <1>9, <2>1 DEF CheckLatest
  <1>10. CASE CreateTemp(p)
    <2>1. CASE ~Exits(p)
      <3>1. /\ pc[p] = "temp" /\ pc'[p] = "download"
            /\ exec' = exec /\ old' = old /\ image' = image /\ version' = version
        BY <1>3, <1>10, <2>1 DEF CreateTemp
      <3> QED
        BY <1>n, <3>1 DEF Running, Updating, Swapping
    <2> QED
      BY <1>5, <1>10, <2>1 DEF CreateTemp
  <1>11. CASE Download(p)
    <2>1. CASE ~Exits(p)
      <3>1. /\ pc[p] = "download" /\ pc'[p] = "validate"
            /\ exec' = exec /\ old' = old /\ image' = image /\ version' = version
        BY <1>3, <1>11, <2>1 DEF Download
      <3> QED
        BY <1>n, <3>1 DEF Running, Updating, Swapping
    <2> QED
      BY <1>5, <1>11, <2>1 DEF Download
  <1>12. CASE ValidateBinary(p)
    <2>1. CASE ~Exits(p)
      <3>1. /\ pc[p] = "validate" /\ pc'[p] = "stale"
            /\ exec' = exec /\ old' = old /\ image' = image /\ version' = version
        BY <1>3, <1>12, <2>1 DEF ValidateBinary
      <3> QED
        BY <1>n, <3>1 DEF Running, Updating, Swapping
    <2> QED
      BY <1>5, <1>12, <2>1 DEF ValidateBinary
  <1>13. CASE RemoveStale(p)
    <2>1. CASE ~Exits(p) \/ old' # old
      <3>1. /\ pc[p] = "stale" /\ old' = Absent /\ (old = Absent \/ ~InUse("old"))
            /\ pc'[p] \in {"aside", "chmod"} /\ exec' = exec /\ image' = image
            /\ version' = version
        BY <1>3, <1>13, <2>1 DEF RemoveStale
      <3>2. ImagesAreThere'
        BY <1>0, <1>2, <3>1 DEF ImagesAreThere, Runs, InUse, Running, Updating
      <3> QED
        BY <1>0, <1>2, <3>1, <3>2 DEF OneSwapAtATime, Swapping
    <2> QED
      BY <1>5, <1>13, <2>1 DEF RemoveStale
  <1>14. CASE MoveAside(p)
    <2>1. CASE ~Exits(p) \/ exec' # exec \/ old' # old
      <3>1. /\ pc[p] = "aside" /\ exec # Absent /\ ~InUse("old")
            /\ old' = exec /\ image' = Moved("exec", "old") /\ pc'[p] = "install"
            /\ version' = version
        BY <1>3, <1>14, <2>1 DEF MoveAside
      <3>2. \A q \in Process : image'[q] = IF image[q] = "exec" THEN "old" ELSE image[q]
        BY <1>0, <3>1, MovedFacts
      <3>3. os = "windows" /\ \A q \in Process : image[q] # "old"
        BY <1>0, <3>1 DEF StepsFitTheSystem, InUse
      <3>4. image[p] = "exec"
        BY <1>0, <1>3, <3>1, <3>3 DEF ImagesAreThere, Running, Updating, Images
      <3>5. \A q \in Process : image[q] = "exec" => Runs(exec) /\ exec.version = version[q]
        BY <1>0, <3>3 DEF ImagesAreThere
      <3>6. ImagesAreThere'
        BY <1>0, <1>2, <3>1, <3>2, <3>3, <3>4, <3>5 DEF ImagesAreThere, Runs, Running, Updating
      <3>7. \A q \in Process \ {p} : pc'[q] \notin Swapping
        BY <1>0, <1>2, <3>3 DEF OneSwapAtATime
      <3> QED
        BY <3>2, <3>4, <3>6, <3>7 DEF OneSwapAtATime
    <2> QED
      BY <1>5, <1>14, <2>1 DEF MoveAside
  <1>15. CASE Install(p)
    <2>1. CASE exec' = exec
      <3>1. pc[p] = "install" /\ old' = old
        BY <1>15 DEF Install
      <3>2. CASE ~Exits(p)
        <4>1. pc'[p] = "rollback" /\ image' = image /\ version' = version
          BY <1>3, <1>15, <3>2 DEF Install
        <4> QED
          BY <1>n, <2>1, <3>1, <4>1 DEF Running, Updating, Swapping
      <3> QED
        BY <1>5, <2>1, <3>1, <3>2
    <2>2. CASE exec' # exec
      <3>1. ~InUse("exec") /\ Exits(p) /\ old' = old
        BY <1>15, <2>2 DEF Install
      <3>2. /\ pc'[p] = "off" /\ image'[p] = "none"
            /\ \A q \in Process \ {p} : image'[q] = image[q]
        BY <1>0, <1>3, <3>1, ExitFacts DEF Exits
      <3>3. ImagesAreThere'
        BY <1>0, <1>2, <3>1, <3>2 DEF ImagesAreThere, Runs, InUse, Running, Updating
      <3> QED
        BY <1>0, <1>2, <3>2, <3>3 DEF OneSwapAtATime, Swapping
    <2> QED
      BY <2>1, <2>2
  <1>16. CASE Rollback(p)
    <2>1. CASE exec' = exec /\ old' = old /\ Exits(p)
      BY <1>5, <2>1
    <2>2. CASE ~(exec' = exec /\ old' = old /\ Exits(p))
      <3>1. /\ pc[p] = "rollback" /\ ~InUse("exec") /\ exec' = old /\ old # Absent
            /\ ExitsFrom(p, Moved("old", "exec"))
        BY <1>16, <2>2 DEF Rollback
      <3>2. /\ Moved("old", "exec") \in [Process -> Images]
            /\ \A q \in Process : Moved("old", "exec")[q] = IF image[q] = "old" THEN "exec" ELSE image[q]
        BY <1>0, MovedFacts
      <3>3. /\ pc'[p] = "off" /\ image'[p] = "none"
            /\ \A q \in Process \ {p} : image'[q] = Moved("old", "exec")[q]
        BY <1>0, <3>1, <3>2, ExitFacts
      <3>4. \A q \in Process \ {p} : image'[q] = IF image[q] = "old" THEN "exec" ELSE image[q]
        BY <3>2, <3>3
      <3>5. ImagesAreThere'
        BY <1>0, <1>2, <3>1, <3>3, <3>4 DEF ImagesAreThere, Runs, InUse, Running, Updating
      <3>6. \A q \in Process : pc'[q] \notin Swapping
        BY <1>0, <1>2, <3>1, <3>3 DEF OneSwapAtATime, Swapping
      <3> QED
        BY <3>5, <3>6 DEF OneSwapAtATime
    <2> QED
      BY <2>1, <2>2
  <1>17. CASE Chmod(p)
    <2>1. CASE ~Exits(p)
      <3>1. /\ pc[p] = "chmod" /\ pc'[p] = "replace"
            /\ exec' = exec /\ old' = old /\ image' = image /\ version' = version
        BY <1>3, <1>17, <2>1 DEF Chmod
      <3> QED
        BY <1>n, <3>1 DEF Running, Updating, Swapping
    <2> QED
      BY <1>5, <1>17, <2>1 DEF Chmod
  <1>18. CASE Replace(p)
    <2>1. os # "windows" /\ Exits(p)
      BY <1>0, <1>18 DEF Replace, StepsFitTheSystem
    <2>2. /\ pc'[p] = "off" /\ \A q \in Process \ {p} : image'[q] = image[q]
      BY <1>0, <1>3, <2>1, ExitFacts DEF Exits
    <2> QED
      BY <1>0, <1>2, <2>1, <2>2 DEF ImagesAreThere, OneSwapAtATime, Swapping
  <1>19. CASE Kill(p)
    <2>1. /\ exec' = exec /\ old' = old /\ pc'[p] = "killed" /\ image'[p] = "none"
          /\ \A q \in Process \ {p} : image'[q] = image[q]
      BY <1>3, <1>19 DEF Kill
    <2> QED
      BY <1>4, <2>1 DEF Running, Updating, Swapping
  <1> QED
    BY <1>6, <1>7, <1>8, <1>9, <1>10, <1>11, <1>12, <1>13, <1>14, <1>15, <1>16, <1>17,
       <1>18, <1>19 DEF Step, UpdateStep

\* Every step leaves a binary that runs, and the name without one only inside a
\* swap.
LEMMA BinaryStep == IndInv /\ [Next]_vars => AWorkingBinaryRemains' /\ NameIsThere'
  <1> SUFFICES ASSUME IndInv, [Next]_vars
               PROVE  AWorkingBinaryRemains' /\ NameIsThere'
    OBVIOUS
  <1> USE DEF vars
  <1>0. /\ TypeOK /\ AcceptedFilesAreWhole /\ StepsFitTheSystem
        /\ ImagesAreThere /\ OneSwapAtATime
        /\ AWorkingBinaryRemains /\ NameIsThere
    BY DEF IndInv
  <1>1. CASE Publish \/ UNCHANGED vars
    BY <1>0, <1>1 DEF Publish, AWorkingBinaryRemains, NameIsThere, Runs, Undetectable
  <1> SUFFICES ASSUME NEW p \in Process, Step(p)
               PROVE  AWorkingBinaryRemains' /\ NameIsThere'
    BY <1>1 DEF Next, Step
  <1> USE DEF GoTo
  <1>2. /\ os' = os
        /\ \A q \in Process \ {p} : pc'[q] = pc[q]
    BY <1>0, OthersKeepTheirs
  <1>3. /\ pc \in [Process -> Running \cup {"off", "killed"}]
        /\ image \in [Process -> Images]
    BY <1>0 DEF TypeOK, Images
  \* a step outside the swap that leaves the binary where it is
  <1>4. ASSUME exec' = exec, old' = old \/ os = "unix" \/ Runs(exec), broken' = broken,
               pc[p] \notin Swapping \/ pc'[p] \in Swapping
        PROVE  AWorkingBinaryRemains' /\ NameIsThere'
    <2>1. AWorkingBinaryRemains'
      BY <1>0, <1>2, <1>4 DEF AWorkingBinaryRemains, Runs, Undetectable
    <2>2. ASSUME NEW q \in Process, pc[q] \in Swapping PROVE pc'[q] \in Swapping
      BY <1>2, <1>4, <2>2
    <2> QED
      BY <1>0, <1>2, <1>4, <2>1, <2>2 DEF NameIsThere, Swapping
  \* a file under the name settles it
  <1>5. ASSUME exec' # Absent, Runs(exec)' \/ Undetectable(exec)' \/ (os' = "windows" /\ Runs(old)')
        PROVE  AWorkingBinaryRemains' /\ NameIsThere'
    BY <1>5 DEF AWorkingBinaryRemains, NameIsThere, Swapping
  \* Windows: what nobody runs with ".old" may go, the runner has the other one
  <1>6. ASSUME pc[p] \in Running, os = "windows", ~InUse("old") PROVE Runs(exec)
    BY <1>0, <1>3, <1>6 DEF ImagesAreThere, InUse, Images
  <1>7. CASE Launch(p) \/ Leave(p) \/ CheckLatest(p) \/ CreateTemp(p) \/ ValidateBinary(p)
             \/ Chmod(p)
    <2>1. exec' = exec /\ old' = old /\ broken' = broken
      BY <1>7 DEF Launch, Leave, CheckLatest, CreateTemp, ValidateBinary, Chmod
    <2>2. pc[p] \notin Swapping
      BY <1>7 DEF Launch, Leave, CheckLatest, CreateTemp, ValidateBinary, Chmod, Swapping
    <2> QED
      BY <1>4, <2>1, <2>2
  <1>8. CASE Cleanup(p)
    <2>1. pc[p] = "cleanup" /\ exec' = exec /\ broken' = broken
          /\ (old' = old \/ (os = "windows" /\ ~InUse("old")))
      BY <1>8 DEF Cleanup
    <2> QED
      BY <1>4, <1>6, <2>1 DEF Running, Swapping
  <1>9. CASE Download(p)
    BY <1>4, <1>9 DEF Download, Swapping
  <1>10. CASE RemoveStale(p)
    <2>1. /\ pc[p] = "stale" /\ exec' = exec /\ broken' = broken
          /\ (old' = old \/ ~InUse("old"))
      BY <1>10 DEF RemoveStale
    <2>2. os \in {"windows", "unix"}
      BY <1>0 DEF TypeOK, Systems
    <2> QED
      BY <1>4, <1>6, <2>1, <2>2 DEF Running, Updating, Swapping
  <1>11. CASE MoveAside(p)
    <2>1. pc[p] = "aside" /\ os = "windows" /\ broken' = broken
      BY <1>0, <1>11 DEF MoveAside, StepsFitTheSystem
    <2>2. CASE exec' = exec /\ old' = old
      BY <1>4, <2>1, <2>2 DEF Swapping
    <2>3. CASE ~(exec' = exec /\ old' = old)
      <3>1. ~InUse("old") /\ old' = exec /\ exec' = Absent /\ pc'[p] = "install"
        BY <1>3, <1>11, <2>3 DEF MoveAside
      <3>2. Runs(old)'
        BY <1>2, <1>6, <2>1, <3>1 DEF Runs, Running, Updating
      <3> QED
        BY <1>2, <2>1, <3>1, <3>2 DEF AWorkingBinaryRemains, NameIsThere, Swapping
    <2> QED
      BY <2>2, <2>3
  <1>12. CASE Install(p)
    <2>1. pc[p] = "install" /\ old' = old /\ broken' = broken /\ os = "windows"
      BY <1>0, <1>12 DEF Install, StepsFitTheSystem, Swapping
    <2>2. Runs(old)
      BY <1>0, <2>1 DEF ImagesAreThere, OneSwapAtATime, Swapping
    <2>3. CASE exec' = temp[p]
      <3>1. exec' # Absent
        BY <1>0, <2>1, <2>3 DEF TypeOK
      <3> QED
        BY <1>2, <1>5, <2>1, <2>2, <3>1 DEF Runs
    <2>4. CASE exec' # temp[p]
      BY <1>3, <1>4, <1>12, <2>1, <2>4 DEF Install, Swapping
    <2> QED
      BY <2>3, <2>4
  <1>13. CASE Rollback(p)
    <2>1. pc[p] = "rollback" /\ os = "windows"
      BY <1>0, <1>13 DEF Rollback, StepsFitTheSystem, Swapping
    <2>2. Runs(old) /\ old # Absent
      BY <1>0, <2>1 DEF ImagesAreThere, OneSwapAtATime, Swapping, Runs
    <2>3. CASE exec' = old
      BY <1>2, <1>5, <2>1, <2>2, <2>3 DEF Runs
    <2>4. CASE exec' # old
      <3>1. broken' = TRUE /\ exec' = exec /\ old' = old
        BY <1>13, <2>4 DEF Rollback
      <3> QED
        BY <1>0, <1>2, <2>1, <2>2, <3>1 DEF AWorkingBinaryRemains, NameIsThere, Runs
    <2> QED
      BY <2>3, <2>4
  <1>14. CASE Replace(p)
    <2>1. pc[p] = "replace" /\ os = "unix" /\ old' = old /\ broken' = broken
      BY <1>0, <1>14 DEF Replace, StepsFitTheSystem
    <2>2. CASE exec' = exec
      BY <1>4, <2>1, <2>2 DEF Swapping
    <2>3. CASE exec' = temp[p]
      <3>1. /\ temp[p] \in File /\ temp[p] # Absent /\ temp[p].holds # "page"
            /\ temp[p].holds = "beginning" => ~temp[p].announced
            /\ temp[p].executable
        BY <1>0, <2>1 DEF AcceptedFilesAreWhole, Accepted, TypeOK
      <3>2. temp[p].holds \in {"binary", "beginning"}
        BY <3>1 DEF File
      <3> QED
        BY <1>5, <2>3, <3>1, <3>2 DEF Runs, Undetectable
    <2> QED
      BY <1>14, <2>2, <2>3 DEF Replace
  <1>15. CASE Kill(p)
    <2>1. exec' = exec /\ old' = old /\ broken' = (broken \/ pc[p] \in Swapping)
      BY <1>15 DEF Kill, Swapping
    <2>2. AWorkingBinaryRemains'
      BY <1>0, <1>2, <2>1 DEF AWorkingBinaryRemains, Runs, Undetectable
    <2>3. NameIsThere'
      BY <1>0, <1>2, <2>1 DEF NameIsThere, Swapping
    <2> QED
      BY <2>2, <2>3
  <1> QED
    BY <1>7, <1>8, <1>9, <1>10, <1>11, <1>12, <1>13, <1>14, <1>15 DEF Step, UpdateStep

-----------------------------------------------------------------------------

\* The inductive invariant holds in every reachable state.
THEOREM IndInvHolds == Spec => []IndInv
  <1>1. IndInv /\ [Next]_vars => IndInv'
    BY TypeStep, ProcessStep, ImageStep, BinaryStep DEF IndInv
  <1> QED
    BY InitInv, <1>1, PTL DEF Spec

\* No step takes a file, a process or the folder out of its type, and what an
\* update is about to rename is there and is no web page.
THEOREM TypeCorrect == Spec => []TypeOK
  <1>1. IndInv => TypeOK
    BY DEF IndInv
  <1> QED
    BY IndInvHolds, <1>1, PTL

\* However many updates run at once, fail or are killed, wherever they are, the
\* user has a binary that runs, a cut download that announced no length aside.
THEOREM ABinaryAlwaysRuns == Spec => []AWorkingBinaryRemains
  <1>1. IndInv => AWorkingBinaryRemains
    BY DEF IndInv
  <1> QED
    BY IndInvHolds, <1>1, PTL

\* The name has no file only on Windows, inside a swap or after one that was
\* killed or whose way back failed too; inside a swap the build that runs the
\* update, and no other, is what was moved aside and would be put back.
THEOREM TheNameHasABinary == Spec => []FailedUpdatesLeaveABinary
  <1>1. IndInv => FailedUpdatesLeaveABinary
    <2> SUFFICES ASSUME IndInv PROVE FailedUpdatesLeaveABinary
      OBVIOUS
    <2>1. \A p \in Process : pc[p] \in Swapping => Runs(old) /\ old.version = version[p]
      BY DEF IndInv, ImagesAreThere, OneSwapAtATime, StepsFitTheSystem
    <2> QED
      BY <2>1 DEF IndInv, NameIsThere, FailedUpdatesLeaveABinary, Swapping
  <1> QED
    BY IndInvHolds, <1>1, PTL

\* Whatever way an update ends, its temporary file goes, unless it is killed.
THEOREM NoTempFileIsLeft == Spec => []TempFilesAreRemoved
  <1>1. IndInv => TempFilesAreRemoved
    BY DEF IndInv
  <1> QED
    BY IndInvHolds, <1>1, PTL

\* An update never installs what is not later than the build that ran it.
THEOREM NeverBackwards == Spec => UpdatesGoForward
  <1> DEFINE Forward == \A p \in Process :
                            pc[p] \in {"install", "replace"} /\ exec' # exec /\ exec' = temp[p]
                                => exec'.version > version[p]
  <1>1. IndInv /\ [Next]_vars => [Forward]_vars
    <2> SUFFICES ASSUME IndInv, NEW p \in Process, pc[p] \in {"install", "replace"},
                        exec' = temp[p]
                 PROVE  exec'.version > version[p]
      OBVIOUS
    <2>1. temp[p].version = target[p] /\ version[p] < target[p]
      BY DEF IndInv, AcceptedFilesAreWhole, TargetsAreLater, Accepted, Updating
    <2>2. version[p] \in Nat /\ target[p] \in Nat
      BY ConstantFacts DEF IndInv, TypeOK
    <2> QED
      BY <2>1, <2>2
  <1> QED
    BY IndInvHolds, <1>1, PTL DEF Spec, UpdatesGoForward

=============================================================================
