------------------------- MODULE ConfigStoreProofs --------------------------
(***************************************************************************)
(* Proofs about ConfigStore, for any number of processes and commands, any *)
(* services, keys and tokens and any file to start from: its type          *)
(* invariant, what reaches the disk, what a save leaves alone, and that it *)
(* implements Settings.                                                    *)
(***************************************************************************)
EXTENDS ConfigStore, TLAPS

-----------------------------------------------------------------------------
(* The inductive invariant.                                                *)

Steps == {"idle", "prompt", "check", "menu", "lines", "open", "write"}

\* No token in c is one its service was heard to refuse, but for those the file
\* had from the first.
Clean(c, u, first) ==
    \A s \in Verifiers :
        LET v == c.credentials[<<s, "API_TOKEN">>]
        IN  v = None \/ <<s, v>> \in Accepted \cup u
               \/ v = first.credentials[<<s, "API_TOKEN">>]

\* A command of that name has no business with what else there is in old.
Kept(name, old, new) ==
    /\ name \notin {"mode", "menu"} => new.mode = old.mode
    /\ name # "retry" => new.maxRetries = old.maxRetries /\ new.retryDelay = old.retryDelay
    /\ name \notin {"select", "menu"} => new.selected = old.selected
    /\ name # "set" => new.credentials = old.credentials

\* It changes one credential, or selects or drops one service.
OneChange(name, old, new) ==
    /\ Kept(name, old, new)
    /\ name = "set" => \E k \in Service \X Key : \A j \in Service \X Key :
                           j # k => new.credentials[j] = old.credentials[j]
    /\ name = "select" =>
          \E s \in Service : \/ s \notin old.selected /\ new.selected = old.selected \cup {s}
                             \/ s \in old.selected /\ new.selected = old.selected \ {s}

\* A process at that step has copy c of the configuration for command k: h is
\* what the file has held, u what the services did not say.  A fresh copy is
\* one nobody saved after.
CopyFits(step, c, k, fresh, h, u) ==
    step # "idle" =>
        /\ c \in Config /\ k \in Parsed
        /\ step \in {"prompt", "check"} => k.name = "set"
        /\ step \in {"menu", "lines"} => k.name = "menu"
        /\ k.name = "set" /\ step # "prompt" => k.value \in Token
        /\ Clean(c, u, h[1])
        /\ step \in {"prompt", "check"} => \E n \in 1..Len(h) : c = h[n]
        /\ step \in {"lines", "open", "write"} => \E n \in 1..Len(h) : OneChange(k.name, h[n], c)
        /\ step \in {"open", "write"} /\ k.name = "menu" => c.selected \subseteq Service
        /\ fresh => Kept(k.name, h[Len(h)], c)

Typed ==
    /\ file \in Config \cup {Absent, Broken}
    /\ pc \in [Process -> Steps]
    /\ cmd \in [Process -> Parsed \cup {None}] /\ cfg \in [Process -> Config \cup {None}]
    /\ left \in 0..MaxCommands
    /\ history \in Seq(Config) /\ Len(history) >= 1
    /\ touched \subseteq Process /\ unsure \subseteq Service \X Token

\* What can be read is what was saved last.
FileIsLatest ==
    /\ file \in Config => file = history[Len(history)]
    /\ file = Absent => history[Len(history)] = DefaultConfig

HistoryIsClean == \A n \in 1..Len(history) : Clean(history[n], unsure, history[1])

CopiesFit == \A p \in Process : CopyFits(pc[p], cfg[p], cmd[p], p \notin touched, history, unsure)

\* All of it.
IndInv == Typed /\ FileIsLatest /\ HistoryIsClean /\ CopiesFit

-----------------------------------------------------------------------------
(* Lemmas about the operators.                                             *)

\* The configuration of a first start is one.
LEMMA DefaultIsConfig == DefaultConfig \in Config /\ \A k \in Service \X Key : DefaultConfig.credentials[k] = None
  <1> DEFINE creds == [k \in Service \X Key |-> None]
  <1>1. creds \in [Service \X Key -> Token \cup {None}] /\ \A k \in Service \X Key : creds[k] = None
    OBVIOUS
  <1>2. DefaultConfig = [mode |-> "parallel", maxRetries |-> None, retryDelay |-> None,
                         selected |-> {}, credentials |-> creds]
    BY DEF DefaultConfig
  <1>3. "parallel" \in Mode
    BY ValuesAssumption
  <1> HIDE DEF creds
  <1> QED
    BY <1>1, <1>2, <1>3 DEF Config

\* A setting in force is a number that a file may hold.
LEMMA SettingFacts ==
    ASSUME NEW n \in Count \cup {None}, NEW default \in {2}
    PROVE  Setting(n, default) \in Nat /\ (default \in Count => Setting(n, default) \in Count)
  BY ValuesAssumption DEF Setting

\* A verifier's refusal, or no verdict at all, or a token the service accepts.
LEMMA CheckFacts ==
    ASSUME NEW s, NEW v, NEW e \in Exchanges(s, v), Decided(s, e),
           VerifyCredentials(s, e[1], e[2]) # "rejected"
    PROVE  <<s, v>> \in Accepted
  <1> SUFFICES ASSUME <<s, v>> \notin Accepted PROVE FALSE
    OBVIOUS
  <1>1. /\ e[1] \in Verdicts(s, v) \cup NoVerdict(s) /\ e[1] \notin NoVerdict(s)
        /\ e[2] \in {[status |-> 200, body |-> "no"]} \cup NoVerdict(s)
    BY DEF Exchanges, Decided
  <1>2. e[1] \in Verdicts(s, v)
    BY <1>1
  <1>3. CASE s = "datanodes"
    <2>1. e[1] = [status |-> 200, body |-> "no"] \/ e[1] = [status |-> 404, body |-> "no"]
      BY <1>2, <1>3 DEF Verdicts
    <2>2. DataNodesCheck(e[1]) = "rejected"
      BY <2>1 DEF DataNodesCheck, AccountCheck, authCheckOutcome
    <2> QED
      BY <1>3, <2>2 DEF VerifyCredentials
  <1>4. CASE s = "interim"
    <2>1. e[1] = [status |-> 200, body |-> "no"] \/ e[1] = [status |-> 401, body |-> "no"]
      BY <1>2, <1>4 DEF Verdicts
    <2>2. CASE e[1] = [status |-> 401, body |-> "no"]
      <3>1. AccountCheck(e[1]) = "rejected"
        BY <2>2 DEF AccountCheck, authCheckOutcome
      <3> QED
        BY <1>4, <3>1 DEF VerifyCredentials, InterimCheck
    <2>3. CASE e[1] = [status |-> 200, body |-> "no"]
      <3>1. e[1].status = 200 /\ e[1].body = "no"
        BY <2>3
      <3>2. e[2] = [status |-> 200, body |-> "no"]
        BY <1>1, <1>4, <3>1 DEF Decided
      <3>3. e[2].status = 200 /\ e[2].body = "no"
        BY <3>2
      <3>4. AccountCheck(e[1]) = "works"
        BY <3>1 DEF AccountCheck, authCheckOutcome
      <3>5. InterimCheck(e[1], e[2]) = "rejected"
        BY <3>1, <3>3, <3>4 DEF InterimCheck
      <3> QED
        BY <1>4, <3>5 DEF VerifyCredentials
    <2> QED
      BY <2>1, <2>2, <2>3
  <1>5. CASE s \notin {"datanodes", "interim"}
    <2>1. PICK code \in {400, 401, 403} : e[1] = [status |-> code, body |-> "no"]
      BY <1>2, <1>5 DEF Verdicts
    <2>2. AccountCheck(e[1]) = "rejected"
      BY <2>1 DEF AccountCheck, authCheckOutcome
    <2> QED
      BY <1>5, <2>2 DEF VerifyCredentials
  <1> QED
    BY <1>3, <1>4, <1>5

\* A copy stays clean and one change away as the history and the doubts grow.
LEMMA CopyStays ==
    ASSUME NEW step, NEW c, NEW k, NEW fresh \in BOOLEAN, NEW h \in Seq(Config), Len(h) >= 1,
           NEW new \in Config, NEW u, NEW v, u \subseteq v,
           CopyFits(step, c, k, fresh, h, u)
    PROVE  /\ CopyFits(step, c, k, fresh, h, v)
           /\ CopyFits(step, c, k, FALSE, h, v)
           /\ CopyFits(step, c, k, FALSE, Append(h, new), v)
  <1> SUFFICES ASSUME step # "idle"
               PROVE  /\ CopyFits(step, c, k, fresh, h, v)
                      /\ CopyFits(step, c, k, FALSE, h, v)
                      /\ CopyFits(step, c, k, FALSE, Append(h, new), v)
    BY DEF CopyFits
  <1>1. /\ Append(h, new) \in Seq(Config) /\ Len(Append(h, new)) = Len(h) + 1
        /\ \A n \in 1..Len(h) : Append(h, new)[n] = h[n] /\ n \in 1..Len(Append(h, new))
        /\ Append(h, new)[1] = h[1]
    OBVIOUS
  <1>2. Clean(c, v, h[1]) /\ Clean(c, v, Append(h, new)[1])
    BY <1>1 DEF CopyFits, Clean
  <1> DEFINE g == Append(h, new)
  <1>3. step \in {"prompt", "check"} => \E n \in 1..Len(g) : c = g[n]
    BY <1>1 DEF CopyFits
  <1>4. step \in {"lines", "open", "write"} => \E n \in 1..Len(g) : OneChange(k.name, g[n], c)
    <2>1. SUFFICES ASSUME step \in {"lines", "open", "write"}
                   PROVE  \E n \in 1..Len(g) : OneChange(k.name, g[n], c)
      OBVIOUS
    <2>2. PICK n \in 1..Len(h) : OneChange(k.name, h[n], c)
      BY <2>1 DEF CopyFits
    <2>3. g[n] = h[n] /\ n \in 1..Len(g)
      BY <1>1
    <2> QED
      BY <2>2, <2>3
  <1> HIDE DEF g
  <1>5. CopyFits(step, c, k, FALSE, g, v)
    BY <1>2, <1>3, <1>4 DEF CopyFits, g
  <1> QED
    BY <1>2, <1>5 DEF CopyFits, g

\* What Load returns is what was saved last.
LEMMA LoadFacts ==
    ASSUME IndInv, NEW c \in {DefaultConfig, file}, Load(c)
    PROVE  /\ c \in Config /\ c = history[Len(history)] /\ Len(history) \in 1..Len(history)
           /\ Clean(c, unsure, history[1])
  <1>1. c \in Config /\ c = history[Len(history)]
    BY DefaultIsConfig DEF IndInv, Typed, FileIsLatest, Load
  <1>2. Len(history) \in 1..Len(history)
    BY DEF IndInv, Typed
  <1> QED
    BY <1>1, <1>2 DEF IndInv, HistoryIsClean

\* What a command that asks nobody makes of it.
LEMMA EditedFacts ==
    ASSUME NEW c \in Config, NEW k \in Parsed
    PROVE  /\ Edited(c, k) \in Config /\ Kept(k.name, c, Edited(c, k))
           /\ k.name \in {"set", "menu"} => Edited(c, k) = c
           /\ k.name \notin {"set", "menu"} =>
                 /\ OneChange(k.name, c, Edited(c, k))
                 /\ Edited(c, k).credentials = c.credentials
  <1>1. CASE k.name \in {"set", "menu"}
    <2>1. Edited(c, k) = c
      BY <1>1 DEF Edited
    <2> QED
      BY <1>1, <2>1 DEF Kept
  <1>2. CASE k.name = "mode"
    <2>1. k.mode \in Mode /\ Edited(c, k) = [c EXCEPT !.mode = k.mode]
      BY <1>2, ValuesAssumption DEF Edited, Parsed, SetCommand
    <2> QED
      BY <1>2, <2>1 DEF Kept, OneChange, Config
  <1>3. CASE k.name = "select"
    <2>1. k.service \in Service /\ Edited(c, k) = ToggleService(c, k.service)
      BY <1>3 DEF Edited, Parsed, SetCommand
    <2>2. PICK new : /\ Edited(c, k) = [c EXCEPT !.selected = new] /\ new \in SUBSET (Service \cup Retired)
                     /\ \/ k.service \notin c.selected /\ new = c.selected \cup {k.service}
                        \/ k.service \in c.selected /\ new = c.selected \ {k.service}
      BY <2>1 DEF ToggleService, Config
    <2>3. /\ Edited(c, k) \in Config /\ Edited(c, k).selected = new
          /\ Edited(c, k).mode = c.mode /\ Edited(c, k).maxRetries = c.maxRetries
          /\ Edited(c, k).retryDelay = c.retryDelay /\ Edited(c, k).credentials = c.credentials
      BY <2>2 DEF Config
    <2>4. OneChange("select", c, Edited(c, k))
      BY <2>1, <2>2, <2>3 DEF OneChange, Kept
    <2> QED
      BY <1>3, <2>3, <2>4 DEF OneChange
  <1>4. CASE k.name = "retry"
    <2> DEFINE now   == RetrySettings(c.maxRetries, c.retryDelay).delaySeconds
               delay == IF k.delay = None THEN now ELSE k.delay
    <2>1. k.max \in Numbers /\ k.delay \in Numbers \cup {None}
      BY <1>4 DEF Parsed, SetCommand
    <2>2. now \in Count
      BY SettingFacts, ValuesAssumption DEF RetrySettings, DefaultRetryDelaySeconds, Config
    <2>3. delay \in Count /\ k.max \in Count
      BY <2>1, <2>2 DEF Numbers
    <2>4. Edited(c, k) = [mode |-> c.mode, maxRetries |-> k.max, retryDelay |-> delay,
                          selected |-> c.selected, credentials |-> c.credentials]
      BY <1>4 DEF Edited, SetRetrySettings
    <2> HIDE DEF delay
    <2>5. Edited(c, k) \in Config
      BY <2>3, <2>4 DEF Config
    <2> QED
      BY <1>4, <2>4, <2>5 DEF Kept, OneChange
  <1>5. k.name \in {"set", "menu", "mode", "select", "retry"}
    BY DEF Parsed, SetCommand
  <1> QED
    BY <1>1, <1>2, <1>3, <1>4, <1>5

-----------------------------------------------------------------------------
(* The steps.                                                              *)

\* The invariant holds of every file there may be at the start.
LEMMA InitInv == Init => IndInv
  <1> SUFFICES ASSUME Init PROVE IndInv
    OBVIOUS
  <1>1. file \in Config \cup {Absent}
    BY StoreAssumption DEF Init
  <1> DEFINE c == IF file = Absent THEN DefaultConfig ELSE file
  <1>2. c \in Config /\ history = <<c>>
    BY <1>1, DefaultIsConfig DEF Init
  <1>3. history \in Seq(Config) /\ Len(history) = 1 /\ history[1] = c
    BY <1>2
  <1>4. Typed
    BY <1>1, <1>3, StoreAssumption DEF Init, Typed, Steps
  <1>5. FileIsLatest
    BY <1>3, FileAssumption DEF FileIsLatest
  <1>6. HistoryIsClean
    BY <1>3 DEF HistoryIsClean, Clean
  <1>7. CopiesFit
    BY DEF Init, CopiesFit, CopyFits
  <1> QED
    BY <1>4, <1>5, <1>6, <1>7 DEF IndInv

\* A process does something by itself: its copy must fit, and the others' do.
LEMMA OwnStep ==
    ASSUME IndInv, NEW p \in Process, UNCHANGED <<file, history>>,
           NEW step \in Steps, NEW k \in Parsed \cup {None}, NEW c \in Config \cup {None},
           pc' = [pc EXCEPT ![p] = step], cmd' = [cmd EXCEPT ![p] = k], cfg' = [cfg EXCEPT ![p] = c],
           left' \in 0..MaxCommands, touched' = touched \/ touched' = touched \ {p},
           unsure \subseteq unsure', unsure' \subseteq Service \X Token,
           CopyFits(step, c, k, p \notin touched', history, unsure')
    PROVE  IndInv'
  <1>0. Typed /\ FileIsLatest /\ HistoryIsClean /\ CopiesFit
    BY DEF IndInv
  <1>1. Typed'
    BY <1>0 DEF Typed
  <1>2. FileIsLatest'
    BY <1>0 DEF FileIsLatest
  <1>3. HistoryIsClean'
    BY <1>0 DEF HistoryIsClean, Clean
  <1>4. ASSUME NEW q \in Process
        PROVE  CopyFits(pc'[q], cfg'[q], cmd'[q], q \notin touched', history, unsure')
    <2>1. CASE q = p
      BY <1>0, <2>1 DEF Typed
    <2>2. CASE q # p
      <3>1. /\ pc'[q] = pc[q] /\ cfg'[q] = cfg[q] /\ cmd'[q] = cmd[q]
            /\ (q \notin touched') = (q \notin touched)
        BY <1>0, <2>2 DEF Typed
      <3>2. CopyFits(pc[q], cfg[q], cmd[q], q \notin touched, history, unsure)
        BY <1>0 DEF CopiesFit
      <3>3. (q \notin touched) \in BOOLEAN /\ history \in Seq(Config) /\ Len(history) >= 1
        BY <1>0 DEF Typed
      <3>4. CopyFits(pc[q], cfg[q], cmd[q], q \notin touched, history, unsure')
        BY <3>2, <3>3, CopyStays, DefaultIsConfig
      <3> QED
        BY <3>1, <3>4
    <2> QED
      BY <2>1, <2>2
  <1>5. CopiesFit'
    BY <1>4 DEF CopiesFit
  <1> QED
    BY <1>1, <1>2, <1>3, <1>5 DEF IndInv

\* A process ends.
LEMMA EndStep ==
    ASSUME IndInv, NEW p \in Process, UNCHANGED <<file, history, left, touched, unsure>>, Ends(p)
    PROVE  IndInv'
  <1>1. /\ pc' = [pc EXCEPT ![p] = "idle"] /\ cmd' = [cmd EXCEPT ![p] = None]
        /\ cfg' = [cfg EXCEPT ![p] = None]
    BY DEF Ends, GoTo
  <1>2. left' \in 0..MaxCommands /\ unsure' \subseteq Service \X Token /\ "idle" \in Steps
    BY DEF IndInv, Typed, Steps
  <1>3. CopyFits("idle", None, None, p \notin touched', history, unsure')
    BY DEF CopyFits
  <1> QED
    BY <1>1, <1>2, <1>3, OwnStep

\* A save: the process opens the file, or writes it, whole or not, and the copies
\* of the others are no longer fresh.
LEMMA SaveStep ==
    ASSUME IndInv, NEW p \in Process, pc[p] # "idle", UNCHANGED <<left, unsure>>,
           NEW step \in Steps, NEW k \in Parsed \cup {None}, NEW c \in Config \cup {None},
           pc' = [pc EXCEPT ![p] = step], cmd' = [cmd EXCEPT ![p] = k], cfg' = [cfg EXCEPT ![p] = c],
           touched' = touched \cup (Process \ {p}),
           \/ file' = Broken /\ history' = history
           \/ file' = cfg[p] /\ history' = Append(history, cfg[p]),
           step = "idle" \/ (step = "write" /\ pc[p] = "open" /\ k = cmd[p] /\ c = cfg[p]
                             /\ history' = history)
    PROVE  IndInv'
  <1>0. Typed /\ FileIsLatest /\ HistoryIsClean /\ CopiesFit
    BY DEF IndInv
  <1>1. cfg[p] \in Config /\ Clean(cfg[p], unsure, history[1])
    BY <1>0 DEF CopiesFit, CopyFits
  <1>2. /\ history' \in Seq(Config) /\ Len(history') >= 1 /\ history'[1] = history[1]
        /\ \A n \in 1..Len(history') : \/ n \in 1..Len(history) /\ history'[n] = history[n]
                                       \/ n = Len(history') /\ history'[n] = cfg[p]
        /\ \/ file' = Broken /\ history' = history
           \/ file' = cfg[p] /\ history'[Len(history')] = cfg[p]
    <2>1. history \in Seq(Config) /\ Len(history) >= 1
      BY <1>0 DEF Typed
    <2>2. CASE file' = Broken /\ history' = history
      BY <2>1, <2>2
    <2>3. CASE file' = cfg[p] /\ history' = Append(history, cfg[p])
      <3>1. /\ Append(history, cfg[p]) \in Seq(Config)
            /\ Len(Append(history, cfg[p])) = Len(history) + 1
            /\ \A n \in 1..Len(history) : Append(history, cfg[p])[n] = history[n]
            /\ Append(history, cfg[p])[Len(history) + 1] = cfg[p]
        BY <1>1, <2>1
      <3> QED
        BY <2>1, <2>3, <3>1
    <2> QED
      BY <2>2, <2>3
  <1>3. Typed'
    BY <1>0, <1>1, <1>2 DEF Typed
  <1>4. FileIsLatest'
    BY <1>1, <1>2, FileAssumption DEF FileIsLatest
  <1>5. HistoryIsClean'
    <2>1. \A n \in 1..Len(history) : Clean(history[n], unsure, history[1])
      BY <1>0 DEF HistoryIsClean
    <2> QED
      BY <1>1, <1>2, <2>1 DEF HistoryIsClean
  <1>6. ASSUME NEW q \in Process
        PROVE  CopyFits(pc'[q], cfg'[q], cmd'[q], q \notin touched', history', unsure')
    <2>1. CASE q = p
      <3>1. pc'[q] = step /\ cfg'[q] = c /\ cmd'[q] = k /\ (q \notin touched') = (q \notin touched)
        BY <1>0, <2>1 DEF Typed
      <3>2. CASE step = "idle"
        BY <3>1, <3>2 DEF CopyFits
      <3>3. CASE step # "idle"
        <4>1. CopyFits(pc[p], cfg[p], cmd[p], p \notin touched, history, unsure)
          BY <1>0 DEF CopiesFit
        <4>2. CopyFits("write", cfg[p], cmd[p], p \notin touched, history, unsure)
          BY <3>3, <4>1 DEF CopyFits
        <4> QED
          BY <2>1, <3>1, <3>3, <4>2
      <3> QED
        BY <3>2, <3>3
    <2>2. CASE q # p
      <3>1. pc'[q] = pc[q] /\ cfg'[q] = cfg[q] /\ cmd'[q] = cmd[q] /\ (q \notin touched') = FALSE
        BY <1>0, <2>2 DEF Typed
      <3>2. CopyFits(pc[q], cfg[q], cmd[q], q \notin touched, history, unsure)
        BY <1>0 DEF CopiesFit
      <3>3. (q \notin touched) \in BOOLEAN /\ history \in Seq(Config) /\ Len(history) >= 1
        BY <1>0 DEF Typed
      <3>4. /\ CopyFits(pc[q], cfg[q], cmd[q], FALSE, history, unsure)
            /\ CopyFits(pc[q], cfg[q], cmd[q], FALSE, Append(history, cfg[p]), unsure)
        BY <1>1, <3>2, <3>3, CopyStays
      <3> QED
        BY <3>1, <3>4
    <2> QED
      BY <2>1, <2>2
  <1>7. CopiesFit'
    BY <1>6 DEF CopiesFit
  <1> QED
    BY <1>3, <1>4, <1>5, <1>7 DEF IndInv

\* What the invariant says of a process that is not idle.
LEMMA CopyFacts ==
    ASSUME IndInv, NEW p \in Process, pc[p] # "idle"
    PROVE  /\ cfg[p] \in Config /\ cmd[p] \in Parsed
           /\ CopyFits(pc[p], cfg[p], cmd[p], p \notin touched, history, unsure)
           /\ pc \in [Process -> Steps] /\ cfg = [cfg EXCEPT ![p] = cfg[p]]
           /\ cmd = [cmd EXCEPT ![p] = cmd[p]]
           /\ left \in 0..MaxCommands /\ unsure \subseteq Service \X Token
  BY DEF IndInv, Typed, CopiesFit, CopyFits

\* cmdConfig starts a command.
LEMMA RunStep ==
    ASSUME IndInv, NEW p \in Process, NEW k \in Command, Run(p, k)
    PROVE  IndInv'
  <1>1. /\ pc[p] = "idle" /\ left > 0 /\ left' = left - 1 /\ touched' = touched \ {p}
        /\ UNCHANGED <<file, history, unsure>> /\ k \in Parsed
    BY CommandAssumption DEF Run
  <1>2. left' \in 0..MaxCommands /\ unsure' \subseteq Service \X Token
    BY <1>1, StoreAssumption DEF IndInv, Typed
  <1>3. CASE UNCHANGED <<pc, cmd, cfg>>
    <2>1. /\ pc' = [pc EXCEPT ![p] = "idle"] /\ cmd' = [cmd EXCEPT ![p] = cmd[p]]
          /\ cfg' = [cfg EXCEPT ![p] = cfg[p]] /\ "idle" \in Steps
          /\ cmd[p] \in Parsed \cup {None} /\ cfg[p] \in Config \cup {None}
      BY <1>1, <1>3 DEF IndInv, Typed, Steps
    <2>2. CopyFits("idle", cfg[p], cmd[p], p \notin touched', history, unsure')
      BY DEF CopyFits
    <2> QED
      BY <1>1, <1>2, <2>1, <2>2, OwnStep
  <1>4. CASE \E c \in {DefaultConfig, file} :
                 /\ Load(c)
                 /\ cfg' = [cfg EXCEPT ![p] = Edited(c, k)]
                 /\ cmd' = [cmd EXCEPT ![p] = k]
                 /\ GoTo(p, FirstStep(k))
    <2>1. PICK c \in {DefaultConfig, file} :
                 /\ Load(c)
                 /\ cfg' = [cfg EXCEPT ![p] = Edited(c, k)]
                 /\ cmd' = [cmd EXCEPT ![p] = k]
                 /\ GoTo(p, FirstStep(k))
      BY <1>4
    <2>2. /\ c \in Config /\ c = history[Len(history)] /\ Len(history) \in 1..Len(history)
          /\ Clean(c, unsure, history[1])
      BY <2>1, LoadFacts
    <2> DEFINE new  == Edited(c, k)
               step == FirstStep(k)
    <2>3. /\ new \in Config /\ Kept(k.name, c, new)
          /\ k.name \in {"set", "menu"} => new = c
          /\ k.name \notin {"set", "menu"} =>
                OneChange(k.name, c, new) /\ new.credentials = c.credentials
      BY <1>1, <2>2, EditedFacts
    <2>4. /\ k.name = "set" => step = IF k.value = None THEN "prompt" ELSE "check"
          /\ k.name = "menu" => step = "menu"
          /\ k.name \notin {"set", "menu"} => step = "open"
          /\ k.name = "set" => k.value \in Token \cup {None}
      BY <1>1 DEF FirstStep, Parsed, SetCommand
    <2>5. pc' = [pc EXCEPT ![p] = step]
      BY <2>1 DEF GoTo
    <2> HIDE DEF new, step
    <2>6. Clean(new, unsure, history[1])
      BY <2>2, <2>3 DEF Clean
    <2>7. step \in Steps
      BY <2>4 DEF Steps
    <2>8. CopyFits(step, new, k, p \notin touched', history, unsure')
      BY <1>1, <2>2, <2>3, <2>4, <2>6 DEF CopyFits
    <2>9. cfg' = [cfg EXCEPT ![p] = new] /\ cmd' = [cmd EXCEPT ![p] = k]
      BY <2>1 DEF new
    <2> QED
      BY <1>1, <1>2, <2>3, <2>5, <2>7, <2>8, <2>9, OwnStep
  <1> QED
    BY <1>3, <1>4 DEF Run

\* A value is read, or none.
LEMMA PromptStep ==
    ASSUME IndInv, NEW p \in Process, Prompt(p)
    PROVE  IndInv'
  <1>1. pc[p] = "prompt" /\ UNCHANGED <<file, left, history, touched, unsure>>
    BY DEF Prompt
  <1>2. CASE Ends(p)
    BY <1>1, <1>2, EndStep
  <1>3. CASE (\E v \in Token : cmd' = [cmd EXCEPT ![p].value = v]) /\ GoTo(p, "check") /\ UNCHANGED cfg
    <2>1. PICK v \in Token : cmd' = [cmd EXCEPT ![p].value = v]
      BY <1>3
    <2> DEFINE k == [cmd[p] EXCEPT !.value = v]
    <2>2. /\ cmd[p] \in Parsed /\ cmd[p].name = "set" /\ cfg[p] \in Config
          /\ CopyFits("prompt", cfg[p], cmd[p], p \notin touched, history, unsure)
          /\ cfg' = [cfg EXCEPT ![p] = cfg[p]]
          /\ left' \in 0..MaxCommands /\ unsure' \subseteq Service \X Token
      BY <1>1, <1>3, CopyFacts DEF CopyFits
    <2>3. cmd[p] \in SetCommand
      BY <2>2 DEF Parsed
    <2>4. k \in SetCommand /\ k.value = v /\ k.name = "set"
      BY <2>3 DEF SetCommand
    <2>5. cmd' = [cmd EXCEPT ![p] = k] /\ pc' = [pc EXCEPT ![p] = "check"]
      BY <1>3, <2>1 DEF GoTo
    <2>6. k \in Parsed /\ "check" \in Steps
      BY <2>4 DEF Parsed, Steps
    <2> HIDE DEF k
    <2>7. CopyFits("check", cfg[p], k, p \notin touched', history, unsure')
      BY <1>1, <2>2, <2>4, <2>6 DEF CopyFits
    <2> QED
      BY <1>1, <2>2, <2>5, <2>6, <2>7, OwnStep
  <1> QED
    BY <1>2, <1>3 DEF Prompt

\* A credential that is saved is not one the service was heard to refuse.
LEMMA KeepStep ==
    ASSUME IndInv, NEW p \in Process, pc[p] = "check", UNCHANGED <<file, left, history, touched>>,
           cfg' = [cfg EXCEPT ![p] = SetCredential(@, cmd[p].service, cmd[p].key, cmd[p].value)],
           GoTo(p, "open"), UNCHANGED cmd,
           unsure \subseteq unsure', unsure' \subseteq Service \X Token,
           \/ cmd[p].key # "API_TOKEN" \/ cmd[p].service \notin Verifiers
           \/ <<cmd[p].service, cmd[p].value>> \in Accepted \cup unsure'
    PROVE  IndInv'
  <1> DEFINE k   == cmd[p]
             c   == cfg[p]
             new == SetCredential(c, k.service, k.key, k.value)
             key == <<k.service, k.key>>
  <1>1. /\ k \in Parsed /\ k.name = "set" /\ c \in Config /\ k.value \in Token
        /\ CopyFits("check", c, k, p \notin touched, history, unsure)
        /\ cmd' = [cmd EXCEPT ![p] = k] /\ left' \in 0..MaxCommands /\ cfg \in [Process -> Config \cup {None}]
    BY CopyFacts DEF CopyFits, IndInv, Typed
  <1>2. key \in Service \X Key
    BY <1>1 DEF Parsed, SetCommand
  <1>3. /\ new \in Config /\ new.mode = c.mode /\ new.maxRetries = c.maxRetries
        /\ new.retryDelay = c.retryDelay /\ new.selected = c.selected
        /\ \A j \in Service \X Key :
              new.credentials[j] = IF j = key THEN k.value ELSE c.credentials[j]
    BY <1>1, <1>2 DEF SetCredential, Config
  <1>4. cfg' = [cfg EXCEPT ![p] = new] /\ pc' = [pc EXCEPT ![p] = "open"] /\ "open" \in Steps
    BY <1>1 DEF GoTo, Steps
  <1> HIDE DEF new
  <1>5. Clean(new, unsure', history[1])
    <2> SUFFICES ASSUME NEW s \in Verifiers
                 PROVE  LET v == new.credentials[<<s, "API_TOKEN">>]
                        IN  v = None \/ <<s, v>> \in Accepted \cup unsure'
                               \/ v = history[1].credentials[<<s, "API_TOKEN">>]
      BY DEF Clean
    <2>1. <<s, "API_TOKEN">> \in Service \X Key
      BY CheckAssumption, ValuesAssumption
    <2>2. CASE <<s, "API_TOKEN">> = key
      <3>1. s = k.service /\ k.key = "API_TOKEN" /\ new.credentials[<<s, "API_TOKEN">>] = k.value
        BY <1>3, <2>1, <2>2
      <3> QED
        BY <3>1
    <2>3. CASE <<s, "API_TOKEN">> # key
      <3>1. new.credentials[<<s, "API_TOKEN">>] = c.credentials[<<s, "API_TOKEN">>]
        BY <1>3, <2>1, <2>3
      <3>2. Clean(c, unsure, history[1])
        BY <1>1 DEF CopyFits
      <3> QED
        BY <3>1, <3>2 DEF Clean
    <2> QED
      BY <2>2, <2>3
  <1>7. \E n \in 1..Len(history) : OneChange("set", history[n], new)
    <2>1. PICK n \in 1..Len(history) : c = history[n]
      BY <1>1 DEF CopyFits
    <2>2. OneChange("set", c, new)
      BY <1>2, <1>3 DEF OneChange, Kept
    <2> QED
      BY <2>1, <2>2
  <1>8. p \notin touched => Kept("set", history[Len(history)], new)
    BY <1>1, <1>3 DEF CopyFits, Kept
  <1>9. CopyFits("open", new, k, p \notin touched', history, unsure')
    BY <1>1, <1>3, <1>5, <1>7, <1>8 DEF CopyFits
  <1>10. /\ UNCHANGED <<file, history>> /\ touched' = touched
         /\ unsure \subseteq unsure' /\ unsure' \subseteq Service \X Token
         /\ k \in Parsed \cup {None} /\ new \in Config \cup {None}
    BY <1>1, <1>3
  <1> HIDE DEF k, c
  <1> QED
    BY ONLY IndInv, p \in Process, <1>1, <1>4, <1>9, <1>10, OwnStep

\* The service is asked about a credential.
LEMMA CheckStep ==
    ASSUME IndInv, NEW p \in Process, Check(p)
    PROVE  IndInv'
  <1> DEFINE c == cmd[p]
             Keep == /\ cfg' = [cfg EXCEPT ![p] = SetCredential(@, c.service, c.key, c.value)]
                     /\ GoTo(p, "open") /\ UNCHANGED cmd
  <1>1. pc[p] = "check" /\ UNCHANGED <<file, left, history, touched>>
    BY DEF Check
  <1>2. /\ c.service \in Service /\ c.value \in Token
        /\ unsure \subseteq Service \X Token
    BY <1>1, CopyFacts DEF CopyFits, Parsed, SetCommand
  <1>3. \/ (~isCredentialKey(c.key) \/ c.service \notin Verifiers) /\ Keep /\ UNCHANGED unsure
        \/ Ends(p) /\ UNCHANGED unsure
        \/ /\ c.key = "API_TOKEN" /\ c.service \in Verifiers
           /\ \E e \in Exchanges(c.service, c.value) :
                 /\ IF VerifyCredentials(c.service, e[1], e[2]) = "rejected"
                    THEN Ends(p) ELSE Keep
                 /\ unsure' = IF Decided(c.service, e) THEN unsure
                              ELSE unsure \cup {<<c.service, c.value>>}
    BY DEF Check
  <1>4. CASE (~isCredentialKey(c.key) \/ c.service \notin Verifiers) /\ Keep /\ UNCHANGED unsure
    <2>1. c.key # "API_TOKEN" \/ c.service \notin Verifiers
      BY <1>4 DEF isCredentialKey
    <2> QED
      BY <1>1, <1>2, <1>4, <2>1, KeepStep
  <1>5. CASE Ends(p) /\ UNCHANGED unsure
    BY <1>1, <1>5, EndStep
  <1>6. ASSUME NEW e \in Exchanges(c.service, c.value),
               IF VerifyCredentials(c.service, e[1], e[2]) = "rejected" THEN Ends(p) ELSE Keep,
               unsure' = IF Decided(c.service, e) THEN unsure
                         ELSE unsure \cup {<<c.service, c.value>>}
        PROVE  IndInv'
    <2>1. unsure \subseteq unsure' /\ unsure' \subseteq Service \X Token
      BY <1>2, <1>6
    <2>2. CASE Ends(p)
      <3>1. /\ pc' = [pc EXCEPT ![p] = "idle"] /\ cmd' = [cmd EXCEPT ![p] = None]
            /\ cfg' = [cfg EXCEPT ![p] = None]
        BY <2>2 DEF Ends, GoTo
      <3>2. left' \in 0..MaxCommands /\ "idle" \in Steps
        BY <1>1 DEF IndInv, Typed, Steps
      <3>3. CopyFits("idle", None, None, p \notin touched', history, unsure')
        BY DEF CopyFits
      <3> QED
        BY <1>1, <2>1, <3>1, <3>2, <3>3, OwnStep
    <2>3. CASE Keep /\ VerifyCredentials(c.service, e[1], e[2]) # "rejected"
      <3>1. <<c.service, c.value>> \in Accepted \cup unsure'
        BY <1>6, <2>3, CheckFacts
      <3> QED
        BY <1>1, <2>1, <2>3, <3>1, KeepStep
    <2> QED
      BY <1>6, <2>2, <2>3
  <1> QED
    BY <1>3, <1>4, <1>5, <1>6

\* The menu: it loads again, changes its copy line by line, and saves it.
LEMMA MenuStep ==
    ASSUME IndInv, NEW p \in Process, MenuLoad(p) \/ MenuLine(p) \/ MenuSave(p)
    PROVE  IndInv'
  <1>1. pc[p] \in {"menu", "lines"} /\ UNCHANGED <<file, left, history, unsure>>
    BY DEF MenuLoad, MenuLine, MenuSave
  <1> DEFINE k == cmd[p]
             c == cfg[p]
  <1>2. /\ k \in Parsed /\ k.name = "menu" /\ c \in Config
        /\ CopyFits(pc[p], c, k, p \notin touched, history, unsure)
        /\ pc \in [Process -> Steps] /\ cmd = [cmd EXCEPT ![p] = k]
        /\ left' \in 0..MaxCommands /\ unsure' \subseteq Service \X Token /\ unsure \subseteq unsure'
        /\ cfg \in [Process -> Config \cup {None}]
    BY <1>1, CopyFacts DEF CopyFits, IndInv, Typed
  <1>3. CASE MenuLoad(p)
    <2>1. pc[p] = "menu" /\ touched' = touched \ {p}
      BY <1>3 DEF MenuLoad
    <2>2. CASE \E d \in {DefaultConfig, file} :
                   Load(d) /\ cfg' = [cfg EXCEPT ![p] = d] /\ GoTo(p, "lines") /\ UNCHANGED cmd
      <3>1. PICK d \in {DefaultConfig, file} :
                   Load(d) /\ cfg' = [cfg EXCEPT ![p] = d] /\ GoTo(p, "lines") /\ UNCHANGED cmd
        BY <2>2
      <3>2. /\ d \in Config /\ d = history[Len(history)] /\ Len(history) \in 1..Len(history)
            /\ Clean(d, unsure, history[1])
        BY <3>1, LoadFacts
      <3>3. OneChange("menu", d, d) /\ Kept("menu", d, d)
        BY DEF OneChange, Kept
      <3>4. CopyFits("lines", d, k, p \notin touched', history, unsure')
        BY <1>1, <1>2, <3>2, <3>3 DEF CopyFits
      <3>5. /\ pc' = [pc EXCEPT ![p] = "lines"] /\ cmd' = [cmd EXCEPT ![p] = k] /\ "lines" \in Steps
            /\ UNCHANGED <<file, history>>
        BY <1>1, <1>2, <3>1 DEF GoTo, Steps
      <3> HIDE DEF k
      <3> QED
        BY <1>2, <2>1, <3>1, <3>2, <3>4, <3>5, OwnStep
    <2>3. CASE file = Broken /\ Ends(p)
      <3>1. /\ pc' = [pc EXCEPT ![p] = "idle"] /\ cmd' = [cmd EXCEPT ![p] = None]
            /\ cfg' = [cfg EXCEPT ![p] = None] /\ "idle" \in Steps /\ UNCHANGED <<file, history>>
        BY <1>1, <2>3 DEF Ends, GoTo, Steps
      <3>2. CopyFits("idle", None, None, p \notin touched', history, unsure')
        BY DEF CopyFits
      <3> QED
        BY <1>2, <2>1, <3>1, <3>2, OwnStep
    <2> QED
      BY <1>3, <2>2, <2>3 DEF MenuLoad
  <1>4. ASSUME NEW step \in {"lines", "open"}, pc[p] = "lines", NEW new \in Config,
               new.maxRetries = c.maxRetries, new.retryDelay = c.retryDelay,
               new.credentials = c.credentials,
               step = "open" => new.selected \subseteq Service,
               pc' = [pc EXCEPT ![p] = step], cfg' = [cfg EXCEPT ![p] = new],
               UNCHANGED <<cmd, touched>>
        PROVE  IndInv'
    <2>1. /\ Clean(c, unsure, history[1])
          /\ \E n \in 1..Len(history) : OneChange("menu", history[n], c)
          /\ p \notin touched => Kept("menu", history[Len(history)], c)
      BY <1>2, <1>4 DEF CopyFits
    <2>2. Clean(new, unsure, history[1])
      BY <1>4, <2>1 DEF Clean
    <2>3. \E n \in 1..Len(history) : OneChange("menu", history[n], new)
      BY <1>4, <2>1 DEF OneChange, Kept
    <2>4. p \notin touched => Kept("menu", history[Len(history)], new)
      BY <1>4, <2>1 DEF Kept
    <2>5. CopyFits(step, new, k, p \notin touched', history, unsure')
      BY <1>1, <1>2, <1>4, <2>2, <2>3, <2>4 DEF CopyFits
    <2>6. cmd' = [cmd EXCEPT ![p] = k] /\ step \in Steps /\ UNCHANGED <<file, history>>
      BY <1>1, <1>2, <1>4 DEF Steps
    <2> HIDE DEF k, c
    <2> QED
      BY <1>2, <1>4, <2>5, <2>6, OwnStep
  <1>5. CASE MenuLine(p)
    <2>1. pc[p] = "lines" /\ UNCHANGED <<pc, cmd, touched>>
      BY <1>5 DEF MenuLine
    <2>2. PICK new \in Config : /\ new.maxRetries = c.maxRetries /\ new.retryDelay = c.retryDelay
                               /\ new.credentials = c.credentials
                               /\ cfg' = [cfg EXCEPT ![p] = new]
      <3>1. ASSUME NEW chosen \in SUBSET (Service \cup Retired), NEW mode \in Mode
            PROVE  LET a == [c EXCEPT !.selected = chosen]
                       b == [c EXCEPT !.mode = mode]
                   IN  /\ a \in Config /\ a.maxRetries = c.maxRetries /\ a.retryDelay = c.retryDelay
                       /\ a.credentials = c.credentials
                       /\ b \in Config /\ b.maxRetries = c.maxRetries /\ b.retryDelay = c.retryDelay
                       /\ b.credentials = c.credentials
        BY <1>2 DEF Config
      <3>2. c.selected \subseteq Service \cup Retired
        BY <1>2 DEF Config
      <3>3. CASE \E s \in Service : cfg' = [cfg EXCEPT ![p] = ToggleService(@, s)]
        <4>1. PICK s \in Service : cfg' = [cfg EXCEPT ![p] = ToggleService(c, s)]
          BY <1>2, <3>3
        <4> DEFINE chosen == IF s \in c.selected THEN c.selected \ {s} ELSE c.selected \cup {s}
        <4>2. chosen \in SUBSET (Service \cup Retired)
          BY <3>2
        <4>3. cfg' = [cfg EXCEPT ![p] = [c EXCEPT !.selected = chosen]]
          BY <4>1 DEF ToggleService
        <4> HIDE DEF chosen
        <4> QED
          BY <3>1, <4>2, <4>3, ValuesAssumption
      <3>4. CASE cfg' = [cfg EXCEPT ![p].selected = @ \cup Service]
        BY <1>2, <3>1, <3>2, <3>4, ValuesAssumption
      <3>5. CASE cfg' = [cfg EXCEPT ![p].selected = @ \ Service]
        BY <1>2, <3>1, <3>2, <3>5, ValuesAssumption
      <3>6. CASE cfg' = [cfg EXCEPT ![p].mode = IF @ = "parallel" THEN "sequential" ELSE "parallel"]
        BY <1>2, <3>1, <3>2, <3>6, ValuesAssumption
      <3> QED
        BY <1>5, <3>3, <3>4, <3>5, <3>6 DEF MenuLine
    <2>3. pc' = [pc EXCEPT ![p] = "lines"]
      BY <1>2, <2>1
    <2> QED
      BY <1>4, <2>1, <2>2, <2>3
  <1>6. CASE MenuSave(p)
    <2>1. pc[p] = "lines" /\ UNCHANGED <<cmd, touched>> /\ pc' = [pc EXCEPT ![p] = "open"]
      BY <1>6 DEF MenuSave, GoTo
    <2> DEFINE new == [c EXCEPT !.selected = c.selected \cap Service]
    <2>2. cfg' = [cfg EXCEPT ![p] = new]
      BY <1>2, <1>6 DEF MenuSave
    <2>3. /\ new \in Config /\ new.maxRetries = c.maxRetries /\ new.retryDelay = c.retryDelay
          /\ new.credentials = c.credentials /\ new.selected \subseteq Service
      BY <1>2 DEF Config
    <2> HIDE DEF new
    <2> QED
      BY <1>4, <2>1, <2>2, <2>3
  <1> QED
    BY <1>3, <1>5, <1>6

\* A save opens the file, writes it, or fails.
LEMMA SavingStep ==
    ASSUME IndInv, NEW p \in Process, OpenFile(p) \/ WriteFile(p) \/ CutShort(p)
    PROVE  IndInv'
  <1>1. pc[p] # "idle" /\ UNCHANGED <<left, unsure>>
    BY DEF OpenFile, WriteFile, CutShort
  <1>2. /\ cfg[p] \in Config /\ cmd[p] \in Parsed
        /\ cfg = [cfg EXCEPT ![p] = cfg[p]] /\ cmd = [cmd EXCEPT ![p] = cmd[p]]
    BY <1>1, CopyFacts
  <1>3. "idle" \in Steps /\ "write" \in Steps
    BY DEF Steps
  <1>4. ASSUME Ends(p)
        PROVE  /\ pc' = [pc EXCEPT ![p] = "idle"] /\ cmd' = [cmd EXCEPT ![p] = None]
               /\ cfg' = [cfg EXCEPT ![p] = None]
    BY <1>4 DEF Ends, GoTo
  <1>5. CASE OpenFile(p)
    <2>1. CASE file' = Broken /\ GoTo(p, "write") /\ touched' = touched \cup (Process \ {p})
               /\ UNCHANGED <<cmd, cfg>>
      <3>1. /\ pc' = [pc EXCEPT ![p] = "write"] /\ cmd' = [cmd EXCEPT ![p] = cmd[p]]
            /\ cfg' = [cfg EXCEPT ![p] = cfg[p]] /\ pc[p] = "open" /\ history' = history
        BY <1>2, <1>5, <2>1 DEF GoTo, OpenFile
      <3> DEFINE step == "write"
                 k    == cmd[p]
                 c    == cfg[p]
      <3>2. /\ step \in Steps /\ k \in Parsed \cup {None} /\ c \in Config \cup {None}
            /\ pc' = [pc EXCEPT ![p] = step] /\ cmd' = [cmd EXCEPT ![p] = k] /\ cfg' = [cfg EXCEPT ![p] = c]
            /\ step = "write" /\ pc[p] = "open" /\ k = cmd[p] /\ c = cfg[p] /\ history' = history
        BY <1>2, <1>3, <3>1
      <3> HIDE DEF step, k, c
      <3> QED
        BY ONLY IndInv, p \in Process, <1>1, <2>1, <3>2, SaveStep
    <2>2. CASE Ends(p) /\ UNCHANGED <<file, touched>>
      <3>1. UNCHANGED history
        BY <1>5 DEF OpenFile
      <3> QED
        BY <1>1, <2>2, <3>1, EndStep
    <2> QED
      BY <1>5, <2>1, <2>2 DEF OpenFile
  <1>6. CASE WriteFile(p)
    <2>1. /\ file' = cfg[p] \/ file' = Broken
          /\ history' = IF file' = cfg[p] THEN Append(history, cfg[p]) ELSE history
          /\ touched' = touched \cup (Process \ {p}) /\ Ends(p)
      BY <1>6 DEF WriteFile
    <2>2. \/ file' = Broken /\ history' = history
          \/ file' = cfg[p] /\ history' = Append(history, cfg[p])
      BY <2>1
    <2> DEFINE step == "idle"
               k    == None
               c    == None
    <2>3. /\ step \in Steps /\ k \in Parsed \cup {None} /\ c \in Config \cup {None}
          /\ pc' = [pc EXCEPT ![p] = step] /\ cmd' = [cmd EXCEPT ![p] = k] /\ cfg' = [cfg EXCEPT ![p] = c]
          /\ step = "idle"
      BY <1>3, <1>4, <2>1
    <2> HIDE DEF step, k, c
    <2> QED
      BY ONLY IndInv, p \in Process, <1>1, <2>1, <2>2, <2>3, SaveStep
  <1>7. CASE CutShort(p)
    <2>1. (file' = file \/ file' = Broken) /\ Ends(p) /\ UNCHANGED <<history, touched>>
      BY <1>7 DEF CutShort
    <2>2. CASE file' = file
      BY <1>1, <2>1, <2>2, EndStep
    <2>3. CASE file' = Broken
      <3>1. Typed'
        BY <1>1, <1>3, <1>4, <2>1, <2>3 DEF IndInv, Typed
      <3>2. FileIsLatest' /\ HistoryIsClean'
        BY <1>1, <2>1, <2>3, FileAssumption DEF IndInv, FileIsLatest, HistoryIsClean
      <3>3. ASSUME NEW q \in Process
            PROVE  CopyFits(pc'[q], cfg'[q], cmd'[q], q \notin touched, history, unsure)
        <4>1. CASE q = p
          BY <1>4, <2>1, <4>1 DEF CopyFits, IndInv, Typed
        <4>2. CASE q # p
          BY <1>4, <2>1, <4>2 DEF CopiesFit, IndInv, Typed
        <4> QED
          BY <4>1, <4>2
      <3>4. CopiesFit'
        BY <1>1, <2>1, <3>3 DEF CopiesFit
      <3> QED
        BY <3>1, <3>2, <3>4 DEF IndInv
    <2> QED
      BY <2>1, <2>2, <2>3
  <1> QED
    BY <1>5, <1>6, <1>7

\* Every step keeps the invariant.
LEMMA StepInv == IndInv /\ [Next]_vars => IndInv'
  <1> SUFFICES ASSUME IndInv, [Next]_vars PROVE IndInv'
    OBVIOUS
  <1>1. CASE Next
    <2>1. PICK p \in Process :
             \/ \E command \in Command : Run(p, command)
             \/ Prompt(p) \/ Check(p) \/ MenuLoad(p) \/ MenuLine(p) \/ MenuSave(p)
             \/ OpenFile(p) \/ WriteFile(p) \/ CutShort(p)
      BY <1>1 DEF Next
    <2> QED
      BY <2>1, RunStep, PromptStep, CheckStep, MenuStep, SavingStep
  <1>2. CASE UNCHANGED vars
    BY <1>2 DEF vars, IndInv, Typed, FileIsLatest, HistoryIsClean, CopiesFit
  <1> QED
    BY <1>1, <1>2

-----------------------------------------------------------------------------
(* The theorems.                                                           *)

\* The inductive invariant holds of every behaviour of the store.
THEOREM IndInvHolds == Spec => []IndInv
  BY InitInv, StepInv, PTL DEF Spec

\* Every variable keeps its type; a value is there before it is checked or saved.
THEOREM TypeCorrect == Spec => []TypeOK
  <1>1. IndInv => TypeOK
    <2> SUFFICES ASSUME IndInv PROVE TypeOK
      OBVIOUS
    <2>1. ASSUME NEW p \in Process, pc[p] # "idle"
          PROVE  /\ cmd[p].name \in {"set", "mode", "retry", "select", "menu"}
                 /\ cfg[p] \in Config
                 /\ cmd[p].name = "set" /\ pc[p] # "prompt" => cmd[p].value \in Token
      BY <2>1, CopyFacts DEF CopyFits, Parsed, SetCommand
    <2> QED
      BY <2>1 DEF IndInv, Typed, TypeOK, Steps
  <1> QED
    BY IndInvHolds, <1>1, PTL

\* A token in the file is one its service accepts, one it could not be asked
\* about, or one that was there from the first, whichever processes wrote and
\* wherever they died (main.go's check before SetCredential, authCheckOutcome).
THEOREM OnlyUnrefusedAreSaved == Spec => []UnrefusedCredentialsOnly
  <1>1. IndInv => UnrefusedCredentialsOnly
    BY DEF IndInv, HistoryIsClean, Clean, UnrefusedCredentialsOnly
  <1> QED
    BY IndInvHolds, <1>1, PTL

\* Only a process that writes makes the history longer, by its own copy.
LEMMA OnlyWritesAreSaved ==
    ASSUME IndInv, [Next]_vars, history' # history
    PROVE  \E p \in Process : /\ WriteFile(p) /\ file' = cfg[p] /\ history' = Append(history, cfg[p])
                              /\ pc[p] = "write" /\ pc' = [pc EXCEPT ![p] = "idle"]
  <1>1. PICK p \in Process : \/ \E command \in Command : Run(p, command)
                            \/ Prompt(p) \/ Check(p) \/ MenuLoad(p) \/ MenuLine(p) \/ MenuSave(p)
                            \/ OpenFile(p) \/ WriteFile(p) \/ CutShort(p)
    BY DEF Next, vars
  <1>2. WriteFile(p)
    BY <1>1 DEF Run, Prompt, Check, MenuLoad, MenuLine, MenuSave, OpenFile, CutShort
  <1> QED
    BY <1>2 DEF WriteFile, Ends, GoTo

\* A command nobody saved beside starts from what was saved last, and leaves
\* alone in it what it has no business with (config.go, Load and Save).
THEOREM FreshSavesKeepTheRest == Spec => FreshSavesLoseNothing
  <1> DEFINE Keeps == \A p \in Process :
                 pc[p] = "write" /\ history' # history /\ pc'[p] = "idle" /\ p \notin touched
                    => \A f \in Foreign(cmd[p]) : file'[f] = Last(history)[f]
  <1>1. IndInv /\ [Next]_vars => Keeps
    <2> SUFFICES ASSUME IndInv, [Next]_vars, NEW p \in Process,
                        pc[p] = "write", history' # history, pc'[p] = "idle", p \notin touched,
                        NEW f \in Foreign(cmd[p])
                 PROVE  file'[f] = Last(history)[f]
      OBVIOUS
    <2>1. PICK q \in Process : /\ file' = cfg[q] /\ pc' = [pc EXCEPT ![q] = "idle"]
      BY OnlyWritesAreSaved
    <2>2. q = p
      BY <2>1 DEF IndInv, Typed
    <2>3. /\ cmd[p] \in Parsed /\ CopyFits("write", cfg[p], cmd[p], TRUE, history, unsure)
          /\ cfg[p] \in Config
      <3>1. (p \notin touched) = TRUE
        OBVIOUS
      <3> QED
        BY <3>1, CopyFacts
    <2>4. Kept(cmd[p].name, history[Len(history)], cfg[p])
      BY <2>3 DEF CopyFits
    <2>5. cmd[p].name \in {"set", "mode", "retry", "select", "menu"}
      BY <2>3 DEF Parsed, SetCommand
    <2> DEFINE old == history[Len(history)]
               new == cfg[p]
    <2>6. new[f] = old[f]
      <3> HIDE DEF old, new
      <3>1. Kept(cmd[p].name, old, new)
        BY <2>4 DEF old, new
      <3> QED
        BY <2>5, <3>1 DEF Kept, Foreign
    <2> QED
      BY <2>1, <2>2, <2>6 DEF Last
  <1> QED
    BY IndInvHolds, <1>1, PTL DEF Spec, FreshSavesLoseNothing

-----------------------------------------------------------------------------
(* The store implements Settings.                                          *)

\* What an upload runs with is never taken for an unreadable file.
LEMMA EffectiveFacts ==
    ASSUME NEW c \in Config
    PROVE  /\ Effective(c) # Broken
           /\ Effective(c) = [mode |-> c.mode, retries |-> RetrySettings(c.maxRetries, c.retryDelay),
                              selected |-> c.selected, credentials |-> c.credentials]
  <1> DEFINE r == RetrySettings(c.maxRetries, c.retryDelay)
  <1>1. r \in [maxRetries : Nat, delaySeconds : Nat]
    BY SettingFacts DEF RetrySettings, DefaultMaxRetries, DefaultRetryDelaySeconds, Config
  <1> HIDE DEF r
  <1>2. [mode |-> c.mode, retries |-> r, selected |-> c.selected, credentials |-> c.credentials]
            \in [mode : Mode, retries : [maxRetries : Nat, delaySeconds : Nat],
                selected : SUBSET (Service \cup Retired),
                credentials : [Service \X Key -> Token \cup {None}]]
    BY <1>1 DEF Config
  <1> QED
    BY <1>2, FileAssumption DEF Effective, r

\* A change of the configuration by one command is a step of Settings.
LEMMA ChangeIsASave ==
    ASSUME NEW old \in Config, NEW new \in Config, NEW name \in {"set", "mode", "retry", "select", "menu"},
           OneChange(name, old, new), name = "menu" => new.selected \subseteq Service
    PROVE  \/ Promise!SetsOneCredential(Effective(old), Effective(new))
           \/ Promise!TogglesOneService(Effective(old), Effective(new))
           \/ Promise!ChangesOnly("mode", Effective(old), Effective(new))
           \/ Promise!ChangesOnly("retries", Effective(old), Effective(new))
           \/ Promise!Selects(Effective(old), Effective(new))
  <1> DEFINE a == Effective(old)
             b == Effective(new)
  <1>1. /\ a = [mode |-> old.mode, retries |-> RetrySettings(old.maxRetries, old.retryDelay),
                selected |-> old.selected, credentials |-> old.credentials]
        /\ b = [mode |-> new.mode, retries |-> RetrySettings(new.maxRetries, new.retryDelay),
                selected |-> new.selected, credentials |-> new.credentials]
    BY EffectiveFacts
  <1>2. /\ a.mode = old.mode /\ b.mode = new.mode
        /\ a.selected = old.selected /\ b.selected = new.selected
        /\ a.credentials = old.credentials /\ b.credentials = new.credentials
        /\ old.maxRetries = new.maxRetries /\ old.retryDelay = new.retryDelay => a.retries = b.retries
        /\ DOMAIN a = {"mode", "retries", "selected", "credentials"}
        /\ DOMAIN a.credentials = Service \X Key
    BY <1>1 DEF Config
  <1> HIDE DEF a, b
  <1>3. Kept(name, old, new)
    BY DEF OneChange
  <1>4. CASE name = "set"
    <2>1. PICK k \in Service \X Key : \A j \in Service \X Key : j # k => new.credentials[j] = old.credentials[j]
      BY <1>4 DEF OneChange
    <2>2. \A i, j \in DOMAIN a.credentials :
              b.credentials[i] # a.credentials[i] /\ b.credentials[j] # a.credentials[j] => i = j
      BY <1>2, <2>1
    <2>3. b.mode = a.mode /\ b.retries = a.retries /\ b.selected = a.selected
      BY <1>2, <1>3, <1>4 DEF Kept
    <2>4. Promise!SetsOneCredential(a, b)
      BY <2>2, <2>3 DEF Promise!SetsOneCredential, Promise!Same
    <2> QED
      BY <2>4 DEF a, b
  <1>5. CASE name = "select"
    <2>1. b.mode = a.mode /\ b.retries = a.retries /\ b.credentials = a.credentials
      BY <1>2, <1>3, <1>5 DEF Kept
    <2>2. \E s \in Service : \/ s \notin a.selected /\ b.selected = a.selected \cup {s}
                             \/ s \in a.selected /\ b.selected = a.selected \ {s}
      BY <1>2, <1>5 DEF OneChange
    <2>3. Promise!TogglesOneService(a, b)
      BY <2>1, <2>2 DEF Promise!TogglesOneService, Promise!Same
    <2> QED
      BY <2>3 DEF a, b
  <1>6. CASE name = "mode"
    <2>1. b.retries = a.retries /\ b.selected = a.selected /\ b.credentials = a.credentials
      BY <1>2, <1>3, <1>6 DEF Kept
    <2>2. Promise!ChangesOnly("mode", a, b)
      BY <1>2, <2>1 DEF Promise!ChangesOnly, Promise!Same
    <2> QED
      BY <2>2 DEF a, b
  <1>7. CASE name = "retry"
    <2>1. b.mode = a.mode /\ b.selected = a.selected /\ b.credentials = a.credentials
      BY <1>2, <1>3, <1>7 DEF Kept
    <2>2. Promise!ChangesOnly("retries", a, b)
      BY <1>2, <2>1 DEF Promise!ChangesOnly, Promise!Same
    <2> QED
      BY <2>2 DEF a, b
  <1>8. CASE name = "menu"
    <2>1. b.retries = a.retries /\ b.credentials = a.credentials /\ b.selected \subseteq Service
      BY <1>2, <1>3, <1>8 DEF Kept
    <2>2. Promise!Selects(a, b)
      BY <2>1 DEF Promise!Selects, Promise!Same
    <2> QED
      BY <2>2 DEF a, b
  <1> QED
    BY <1>4, <1>5, <1>6, <1>7, <1>8

\* The state of Settings the store stands for.
Now == CASE file = Broken -> Broken
         [] file = Absent -> Effective(DefaultConfig)
         [] OTHER         -> Effective(file)
Held == {Effective(history[n]) : n \in 1..Len(history)}

\* A step that adds nothing to the history loses the file, or is none.
LEMMA NothingSaved ==
    ASSUME IndInv, [Next]_vars, history' = history
    PROVE  Promise!Lose \/ (Now' = Now /\ Held' = Held)
  <1>1. file' = file \/ file' = Broken
    <2>1. CASE Next
      <3>1. PICK p \in Process : \/ \E command \in Command : Run(p, command)
                                \/ Prompt(p) \/ Check(p) \/ MenuLoad(p) \/ MenuLine(p) \/ MenuSave(p)
                                \/ OpenFile(p) \/ WriteFile(p) \/ CutShort(p)
        BY <2>1 DEF Next
      <3>2. CASE WriteFile(p)
        <4>1. file' = cfg[p] \/ file' = Broken
          BY <3>2 DEF WriteFile
        <4>2. file' = cfg[p] => history' = Append(history, cfg[p])
          BY <3>2 DEF WriteFile
        <4>3. Len(history) \in Nat /\ (history' = Append(history, cfg[p]) => Len(history') = Len(history) + 1)
          BY DEF IndInv, Typed
        <4> QED
          BY <4>1, <4>2, <4>3
      <3>3. CASE OpenFile(p) \/ CutShort(p)
        BY <3>3 DEF OpenFile, CutShort
      <3>4. CASE \/ \E command \in Command : Run(p, command)
                 \/ Prompt(p) \/ Check(p) \/ MenuLoad(p) \/ MenuLine(p) \/ MenuSave(p)
        BY <3>4 DEF Run, Prompt, Check, MenuLoad, MenuLine, MenuSave
      <3> QED
        BY <3>1, <3>2, <3>3, <3>4
    <2> QED
      BY <2>1 DEF vars
  <1>2. Held' = Held
    BY DEF Held
  <1>3. CASE file' = file
    BY <1>2, <1>3 DEF Now
  <1>4. CASE file' = Broken
    <2>1. Now' = Broken
      BY <1>4, FileAssumption DEF Now
    <2> QED
      BY <1>2, <2>1 DEF Promise!Lose, Now, Held
  <1> QED
    BY <1>1, <1>3, <1>4

\* A save is one change away from what the process loaded.
LEMMA SaveIsASave ==
    ASSUME IndInv, [Next]_vars, history' # history
    PROVE  Promise!Save
  <1>1. PICK p \in Process : /\ file' = cfg[p] /\ history' = Append(history, cfg[p])
                            /\ pc[p] = "write"
    BY OnlyWritesAreSaved
  <1>2. /\ CopyFits("write", cfg[p], cmd[p], p \notin touched, history, unsure)
        /\ cfg[p] \in Config /\ cmd[p] \in Parsed /\ history \in Seq(Config)
    BY <1>1, CopyFacts DEF IndInv, Typed
  <1> DEFINE new == Effective(cfg[p])
  <1>3. PICK n \in 1..Len(history) : OneChange(cmd[p].name, history[n], cfg[p])
    BY <1>2 DEF CopyFits
  <1>4. history[n] \in Config /\ cmd[p].name \in {"set", "mode", "retry", "select", "menu"}
    BY <1>2 DEF Parsed, SetCommand
  <1>5. cmd[p].name = "menu" => cfg[p].selected \subseteq Service
    BY <1>2 DEF CopyFits
  <1> DEFINE old == Effective(history[n])
  <1>6. \/ Promise!SetsOneCredential(old, new)
        \/ Promise!TogglesOneService(old, new)
        \/ Promise!ChangesOnly("mode", old, new)
        \/ Promise!ChangesOnly("retries", old, new)
        \/ Promise!Selects(old, new)
    BY <1>2, <1>3, <1>4, <1>5, ChangeIsASave
  <1>7. new # Broken /\ cfg[p] # Broken /\ cfg[p] # Absent
    BY <1>2, EffectiveFacts, FileAssumption
  <1>8. Now' = new
    <2>1. file' # Broken /\ file' # Absent
      BY <1>1, <1>7
    <2>2. Now' = Effective(file)'
      BY <2>1 DEF Now
    <2> QED
      BY <1>1, <2>2 DEF Effective
  <1>9. old \in Held
    BY DEF Held
  <1>10. Held' = Held \cup {new}
    <2>1. /\ Len(history') = Len(history) + 1 /\ Len(history) \in Nat
          /\ \A i \in 1..Len(history) : history'[i] = history[i]
          /\ history'[Len(history) + 1] = cfg[p]
      BY <1>1, <1>2
    <2>2. Held' = {Effective(history'[i]) : i \in 1..Len(history')}
      BY DEF Held, Effective
    <2> QED
      BY <2>1, <2>2 DEF Held
  <1> HIDE DEF new, old
  <1>11. /\ Now' # Broken
         /\ \E o \in Held : \/ Promise!SetsOneCredential(o, Now')
                           \/ Promise!TogglesOneService(o, Now')
                           \/ Promise!ChangesOnly("mode", o, Now')
                           \/ Promise!ChangesOnly("retries", o, Now')
                           \/ Promise!Selects(o, Now')
         /\ Held' = Held \cup {Now'}
    BY <1>6, <1>7, <1>8, <1>9, <1>10
  <1> QED
    BY <1>11 DEF Promise!Save, Now, Held

\* Every configuration that can be read is one change of one kind away from an
\* earlier one, however loads, prompts, checks and saves of several processes
\* interleave and wherever they die (main.go, cmdConfig and cmdConfigMenu).
THEOREM ImplementsSettings == Spec => StoreImplementsSettings
  <1>1. Init => Promise!Init
    <2> SUFFICES ASSUME Init PROVE Promise!Init
      OBVIOUS
    <2>1. file \in Config \cup {Absent}
      BY StoreAssumption DEF Init
    <2> DEFINE c == IF file = Absent THEN DefaultConfig ELSE file
    <2>2. c \in Config /\ history = <<c>>
      BY <2>1, DefaultIsConfig DEF Init
    <2>3. Now = Effective(c)
      BY <2>1, FileAssumption DEF Now
    <2>4. Held = {Effective(c)}
      BY <2>2 DEF Held
    <2>5. Effective(c) # Broken
      BY <2>2, EffectiveFacts
    <2>6. Now # Broken /\ Held = {Now}
      BY <2>3, <2>4, <2>5
    <2> QED
      BY <2>6 DEF Promise!Init, Now, Held
  <1>2. IndInv /\ [Next]_vars => Promise!Save \/ Promise!Lose \/ (Now' = Now /\ Held' = Held)
    BY NothingSaved, SaveIsASave
  <1>3. IndInv /\ [Next]_vars => Promise!Next \/ (Now' = Now /\ Held' = Held)
    BY <1>2 DEF Promise!Next
  <1>4. IndInv /\ [Next]_vars =>
            [Promise!Next]_<<CASE file = Broken -> Broken
                               [] file = Absent -> Effective(DefaultConfig)
                               [] OTHER         -> Effective(file),
                             {Effective(history[n]) : n \in 1..Len(history)}>>
    BY <1>3 DEF Now, Held
  <1> QED
    BY IndInvHolds, <1>1, <1>4, PTL DEF Spec, StoreImplementsSettings, Promise!Spec

=============================================================================
