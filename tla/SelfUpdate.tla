----------------------------- MODULE SelfUpdate -----------------------------
(***************************************************************************)
(* "manyup update" next to other manyup processes: cmdUpdate in main.go    *)
(* and internal/update.  The install folder holds the binary, the ".old"   *)
(* copy a Windows update leaves, and a temporary file per update.  Any     *)
(* process may be killed between two steps.                                *)
(***************************************************************************)
EXTENDS Integers, Sequences

CONSTANTS
    Process,   \* processes, each of which may be started again and again
    Releases,  \* the published versions, <<major, minor, patch>>, oldest first
    Absent     \* no such file

ASSUME ReleasesAssumption == Releases \in Seq(Nat \X Nat \X Nat) /\ Len(Releases) > 0

\* Nothing is published under a version older than one that is out.
ASSUME PublishedInOrder ==
    \A i, j \in 1..Len(Releases) :
        i < j => LET a == Releases[i]
                     b == Releases[j]
                 IN  \/ a[1] < b[1]
                     \/ a[1] = b[1] /\ a[2] < b[2]
                     \/ a[1] = b[1] /\ a[2] = b[2] /\ a[3] < b[3]

Systems == {"windows", "unix"}

\* 0 is a build whose version is not X.Y.Z.
Version == 0..Len(Releases)

\* What a file holds: a binary, the beginning of one, or a web page; what the
\* download's length was announced to be; whether Unix may execute it.
File == [holds : {"binary", "beginning", "page"}, version : Version,
         announced : BOOLEAN, executable : BOOLEAN]

ASSUME AbsentAssumption == Absent \notin File

VARIABLES
    os,       \* the system
    latest,   \* what GitHub calls the latest release
    exec,     \* the installed binary
    old,      \* the same with ".old"
    temp,     \* each process's temporary file
    pc,       \* where each process is
    version,  \* the version it was built as
    image,    \* Windows: the name its running image has now
    target,   \* the release it is about to install
    broken    \* an update died, or could not go back, between its two renames

vars == <<os, latest, exec, old, temp, pc, version, image, target, broken>>

Updating == {"download", "validate", "stale", "aside", "install", "rollback", "chmod", "replace"}
Running  == Updating \cup {"cleanup", "busy", "check", "temp"}

TypeOK ==
    /\ os \in Systems /\ latest \in 1..Len(Releases)
    /\ exec \in File \cup {Absent} /\ old \in File \cup {Absent}
    /\ temp \in [Process -> File \cup {Absent}]
    /\ pc \in [Process -> Running \cup {"off", "killed"}]
    /\ version \in [Process -> Version] /\ target \in [Process -> Version]
    /\ image \in [Process -> {"none", "exec", "old"}]
    /\ broken \in BOOLEAN
    \* what is about to be renamed is there, and passed the checks
    /\ \A p \in Process : pc[p] \in {"stale", "aside", "install", "chmod", "replace"}
                             => temp[p] # Absent /\ temp[p].holds # "page"

Installed(v) == [holds |-> "binary", version |-> v, announced |-> TRUE, executable |-> TRUE]

Init ==
    /\ os \in Systems
    /\ latest = 1
    /\ \E v \in Version : exec = Installed(v)  \* built from source, perhaps ahead of latest
    /\ old \in {Absent, Installed(0)}
    /\ temp = [p \in Process |-> Absent]
    /\ pc = [p \in Process |-> "off"]
    /\ version = [p \in Process |-> 0] /\ target = [p \in Process |-> 0]
    /\ image = [p \in Process |-> "none"]
    /\ broken = FALSE

\* Only Unix asks for the permission.
Runs(f) == f # Absent /\ f.holds = "binary" /\ (os = "windows" \/ f.executable)

\* Windows keeps the file of a running image.
InUse(name) == \E p \in Process : image[p] = name

\* The image follows its file.
Moved(from, to) == [p \in Process |-> IF image[p] = from THEN to ELSE image[p]]

GoTo(p, step) == pc' = [pc EXCEPT ![p] = step]

\* The process is gone, its deferred os.Remove done; images is what the others
\* run.
ExitsFrom(p, images) ==
    /\ GoTo(p, "off")
    /\ temp' = [temp EXCEPT ![p] = Absent]
    /\ image' = [images EXCEPT ![p] = "none"]
    /\ version' = [version EXCEPT ![p] = 0] /\ target' = [target EXCEPT ![p] = 0]

Exits(p) == ExitsFrom(p, image)

-----------------------------------------------------------------------------

\* Mutant: the major version does not count.
Compare_NoMajor(a, b) ==
    IF a[2] # b[2] THEN a[2] - b[2] ELSE a[3] - b[3]

\* SemVer.Compare, as a difference.
Compare(a, b) ==
    IF a[1] # b[1] THEN a[1] - b[1]
    ELSE IF a[2] # b[2] THEN a[2] - b[2]
    ELSE a[3] - b[3]

IsNewer(release, built) ==
    IF built = 0 THEN TRUE ELSE Compare(Releases[release], Releases[built]) > 0

\* main, up to its first call.
Launch(p) ==
    /\ pc[p] = "off" /\ Runs(exec)
    /\ version' = [version EXCEPT ![p] = exec.version]
    /\ image' = [image EXCEPT ![p] = IF os = "windows" THEN "exec" ELSE "none"]
    /\ GoTo(p, "cleanup")
    /\ UNCHANGED <<os, latest, exec, old, temp, target, broken>>

\* CleanupPreviousBinary, then the command.
Cleanup(p) ==
    /\ pc[p] = "cleanup"
    /\ old' \in {old} \cup IF os = "windows" /\ ~InUse("old") THEN {Absent} ELSE {}
    /\ \E step \in {"busy", "check"} : GoTo(p, step)
    /\ UNCHANGED <<os, latest, exec, temp, version, image, target, broken>>

\* Another command ends.
Leave(p) ==
    /\ pc[p] = "busy" /\ Exits(p)
    /\ UNCHANGED <<os, latest, exec, old, broken>>

\* CheckLatest, IsNewer, FindAsset: an error, nothing new, nothing for this
\* platform, or a release to install.
CheckLatest(p) ==
    /\ pc[p] = "check"
    /\ \/ Exits(p)
       \/ /\ IsNewer(latest, version[p])
          /\ target' = [target EXCEPT ![p] = latest]
          /\ GoTo(p, "temp") /\ UNCHANGED <<temp, version, image>>
    /\ UNCHANGED <<os, latest, exec, old, broken>>

\* os.CreateTemp in the install folder, which may not be writable.
CreateTemp(p) ==
    /\ pc[p] = "temp"
    /\ \/ Exits(p)
       \/ /\ temp' = [temp EXCEPT ![p] = [Installed(0) EXCEPT !.holds = "beginning", !.executable = FALSE]]
          /\ GoTo(p, "download") /\ UNCHANGED <<version, image, target>>
    /\ UNCHANGED <<os, latest, exec, old, broken>>

\* Mutant: the announced length is not looked at.
Complete_NoLength(f, large) == large

\* downloadTo's checks once the body has ended: an announced length must have
\* arrived, and a megabyte at least.
Complete(f, large) == large /\ (f.holds = "beginning" => ~f.announced)

\* Mutant: a failed download starts over.
Download_StartsOver(p) ==
    /\ pc[p] = "download"
    /\ \/ GoTo(p, "temp") /\ temp' = [temp EXCEPT ![p] = Absent] /\ UNCHANGED <<version, image, target>>
       \/ \E f \in [holds : {"binary", "beginning", "page"}, version : {target[p]},
                    announced : BOOLEAN, executable : {FALSE}], large \in BOOLEAN :
             /\ Complete(f, large)
             /\ temp' = [temp EXCEPT ![p] = f]
             /\ GoTo(p, "validate") /\ UNCHANGED <<version, image, target>>
    /\ UNCHANGED <<os, latest, exec, old, broken>>

\* downloadTo: an error, the timeout, or a body that ended.
Download(p) ==
    /\ pc[p] = "download"
    /\ \/ Exits(p)
       \/ \E f \in [holds : {"binary", "beginning", "page"}, version : {target[p]},
                    announced : BOOLEAN, executable : {FALSE}], large \in BOOLEAN :
             /\ Complete(f, large)
             /\ temp' = [temp EXCEPT ![p] = f]
             /\ GoTo(p, "validate") /\ UNCHANGED <<version, image, target>>
    /\ UNCHANGED <<os, latest, exec, old, broken>>

\* Mutant: any file will do.
hasExecutableHeader_Any(f) == TRUE

\* The first bytes of a binary are there when it is cut later.
hasExecutableHeader(f) == f.holds \in {"binary", "beginning"}

\* Mutant: what is not a binary is left in the folder.
ValidateBinary_NoRemove(p) ==
    /\ pc[p] = "validate"
    /\ IF hasExecutableHeader(temp[p])
       THEN GoTo(p, "stale") /\ UNCHANGED image
       ELSE GoTo(p, "off") /\ image' = [image EXCEPT ![p] = "none"]
    /\ UNCHANGED <<os, latest, exec, old, broken, temp, version, target>>

ValidateBinary(p) ==
    /\ pc[p] = "validate"
    /\ IF hasExecutableHeader(temp[p])
       THEN GoTo(p, "stale") /\ UNCHANGED <<temp, version, image, target>>
       ELSE Exits(p)
    /\ UNCHANGED <<os, latest, exec, old, broken>>

\* An ".old" file must go first; a running image does not.
RemoveStale(p) ==
    /\ pc[p] = "stale"
    /\ \/ /\ old = Absent \/ ~InUse("old")
          /\ old' = Absent
          /\ GoTo(p, IF os = "windows" THEN "aside" ELSE "chmod")
          /\ UNCHANGED <<temp, version, image, target>>
       \/ old # Absent /\ Exits(p) /\ UNCHANGED old
    /\ UNCHANGED <<os, latest, exec, broken>>

\* Windows: the running binary is renamed.
MoveAside(p) ==
    /\ pc[p] = "aside"
    /\ \/ /\ exec # Absent /\ ~InUse("old")
          /\ old' = exec /\ exec' = Absent /\ image' = Moved("exec", "old")
          /\ GoTo(p, "install") /\ UNCHANGED <<temp, version, target>>
       \/ Exits(p) /\ UNCHANGED <<exec, old>>
    /\ UNCHANGED <<os, latest, broken>>

\* Mutant: the old binary is not put back.
Install_NoRollback(p) ==
    /\ pc[p] = "install"
    /\ \/ ~InUse("exec") /\ exec' = temp[p]
       \/ UNCHANGED exec
    /\ Exits(p)
    /\ UNCHANGED <<os, latest, old, broken>>

\* Windows: the new one is renamed in; when that fails the old one comes back.
Install(p) ==
    /\ pc[p] = "install"
    /\ \/ ~InUse("exec") /\ exec' = temp[p] /\ Exits(p)
       \/ GoTo(p, "rollback") /\ UNCHANGED <<exec, temp, version, image, target>>
    /\ UNCHANGED <<os, latest, old, broken>>

\* An error of this rename is ignored.
Rollback(p) ==
    /\ pc[p] = "rollback"
    /\ \/ /\ old # Absent /\ ~InUse("exec")
          /\ exec' = old /\ old' = Absent
          /\ ExitsFrom(p, Moved("old", "exec"))
          /\ UNCHANGED broken
       \/ Exits(p) /\ broken' = TRUE /\ UNCHANGED <<exec, old>>
    /\ UNCHANGED <<os, latest>>

\* Unix.
Chmod(p) ==
    /\ pc[p] = "chmod"
    /\ \/ /\ temp' = [temp EXCEPT ![p].executable = TRUE]
          /\ GoTo(p, "replace") /\ UNCHANGED <<version, image, target>>
       \/ Exits(p)
    /\ UNCHANGED <<os, latest, exec, old, broken>>

\* Unix: one rename.
Replace(p) ==
    /\ pc[p] = "replace"
    /\ exec' \in {exec, temp[p]}
    /\ Exits(p)
    /\ UNCHANGED <<os, latest, old, broken>>

UpdateStep(p) ==
    \/ CreateTemp(p) \/ Download(p) \/ ValidateBinary(p) \/ RemoveStale(p)
    \/ MoveAside(p) \/ Install(p) \/ Rollback(p) \/ Chmod(p) \/ Replace(p)

\* Killed, or the machine stops: no deferred call runs.
Kill(p) ==
    /\ pc[p] \in Running
    /\ GoTo(p, "killed")
    /\ image' = [image EXCEPT ![p] = "none"]
    /\ broken' = (broken \/ pc[p] \in {"install", "rollback"})
    /\ UNCHANGED <<os, latest, exec, old, temp, version, target>>

Publish ==
    /\ latest < Len(Releases) /\ latest' = latest + 1
    /\ UNCHANGED <<os, exec, old, temp, pc, version, image, target, broken>>

Next ==
    \/ Publish
    \/ \E p \in Process : Launch(p) \/ Cleanup(p) \/ Leave(p) \/ CheckLatest(p) \/ UpdateStep(p)
                          \/ Kill(p)

\* Every step of an update ends, the download with its timeout.  The request
\* of CheckLatest has none.
Spec == Init /\ [][Next]_vars /\ \A p \in Process : WF_vars(UpdateStep(p))

-----------------------------------------------------------------------------

\* The one thing the checks of a download cannot see.
Undetectable(f) == f # Absent /\ f.holds = "beginning" /\ ~f.announced

\* A user always has a binary that runs, under its name or, on Windows, with
\* ".old": at every instant of an update, of two at once, and after a kill
\* anywhere; a download that ended early without an announced length aside
\* (update.go, ApplyTo and downloadTo).
AWorkingBinaryRemains ==
    Runs(exec) \/ (os = "windows" /\ Runs(old)) \/ Undetectable(exec)

\* An update that fails at any step, alone or beside another, leaves the name
\* pointing to a binary; on Unix even a killed one does.  On Windows two cases are
\* left out, and broken says that one has come about: a way back that fails too
\* (its error is ignored, update.go:214-217) and a kill between the renames; the
\* binary is then under ".old" only.  Inside the swap, what was moved aside is the
\* very build that runs the update: a way back restores that one.
FailedUpdatesLeaveABinary ==
    /\ exec = Absent => /\ os = "windows"
                        /\ broken \/ \E p \in Process : pc[p] \in {"install", "rollback"}
    /\ \A p \in Process : pc[p] \in {"install", "rollback"} =>
           Runs(old) /\ old.version = version[p]

\* What an update installs is a later version than the build that ran it, in
\* the order of publication.  Not than the binary it replaces: of two updates
\* at once the one that asked first may finish last (main.go:831).
UpdatesGoForward ==
    [][\A p \in Process : pc[p] \in {"install", "replace"} /\ exec' # exec /\ exec' = temp[p]
                             => exec'.version > version[p]]_vars

\* Only a killed update leaves its temporary file in the install folder
\* (update.go:190, the deferred os.Remove).
TempFilesAreRemoved ==
    \A p \in Process : temp[p] # Absent => pc[p] \in Updating \cup {"killed"}

\* An update ends, whatever the network does, once it knows the latest release.
UpdatesEnd == \A p \in Process : pc[p] \in Updating \cup {"temp"} ~> pc[p] \in {"off", "killed"}

=============================================================================
