---------------------------- MODULE ConfigStore ----------------------------
(***************************************************************************)
(* config.json under several manyup processes at once: Load and Save of    *)
(* internal/config, and the commands of cmdConfig in main.go that load it, *)
(* ask the user or a service, and save.  A process may die anywhere.       *)
(***************************************************************************)
EXTENDS RetryPolicy, CredentialCheck, SequencesExt

CONSTANTS
    Process,
    Command,      \* the commands users type
    Key,          \* the credential keys they use
    Mode, Count,  \* the modes and numbers they use
    Retired,      \* names a file may select that no service has
    Initial,      \* the files there may be at the start
    Absent,       \* no file
    Broken,       \* a file that is no JSON: empty, or cut, or two in one
    MaxCommands   \* bound: commands run

Config == [mode : Mode, maxRetries : Count \cup {None}, retryDelay : Count \cup {None},
           selected : SUBSET (Service \cup Retired),
           credentials : [Service \X Key -> Token \cup {None}]]

ASSUME StoreAssumption == Initial \subseteq Config \cup {Absent} /\ MaxCommands \in Nat

\* The two modes there are, the credential the services read, and the numbers a
\* command or a default writes, among whatever a file may hold by hand.
ASSUME ValuesAssumption ==
    /\ {"parallel", "sequential"} \subseteq Mode /\ "API_TOKEN" \in Key
    /\ Count \subseteq Int /\ {0, DefaultRetryDelaySeconds} \subseteq Count

\* The commands cmdConfig does not turn down.
Numbers == Count \cap Nat
SetCommand == [name : {"set"}, service : Service, key : Key, value : Token \cup {None}]
Parsed == SetCommand
          \cup [name : {"mode"}, mode : {"parallel", "sequential"}]
          \cup [name : {"retry"}, max : Numbers, delay : Numbers \cup {None}]
          \cup [name : {"select"}, service : Service]
          \cup [name : {"menu"}]

ASSUME CommandAssumption == Command \subseteq Parsed

\* No file and one that cannot be read are not configurations, nor what an upload
\* would run with.
ASSUME FileAssumption ==
    /\ Absent # Broken /\ Absent \notin Config /\ Broken \notin Config
    /\ Broken \notin [mode : Mode, retries : [maxRetries : Nat, delaySeconds : Nat],
                      selected : SUBSET (Service \cup Retired),
                      credentials : [Service \X Key -> Token \cup {None}]]

VARIABLES
    file,     \* config.json: a Config, Absent or Broken
    pc,       \* where each process is
    cmd,      \* its command
    cfg,      \* its copy of the configuration
    left,     \* commands that may still be run
    history,  \* the configurations config.json has held, in order
    touched,  \* processes whose copy is older than another's save
    unsure    \* <<service, token>> saved although the service did not say

vars == <<file, pc, cmd, cfg, left, history, touched, unsure>>

TypeOK ==
    /\ file \in Config \cup {Absent, Broken}
    /\ pc \in [Process -> {"idle", "prompt", "check", "menu", "lines", "open", "write"}]
    /\ \A p \in Process : pc[p] # "idle" =>
          /\ cmd[p].name \in {"set", "mode", "retry", "select", "menu"}
          /\ cfg[p] \in Config
          /\ cmd[p].name = "set" /\ pc[p] # "prompt" => cmd[p].value \in Token
    /\ left \in 0..MaxCommands
    /\ history \in Seq(Config)
    /\ touched \subseteq Process
    /\ unsure \subseteq Service \X Token

DefaultConfig ==
    [mode |-> "parallel", maxRetries |-> None, retryDelay |-> None, selected |-> {},
     credentials |-> [k \in Service \X Key |-> None]]

\* Mutant: a file that does not parse counts as none.
Load_DefaultsOnError(result) == result = IF file \in {Absent, Broken} THEN DefaultConfig ELSE file

\* What Load returns; it has no result when the file does not parse.
Load(result) ==
    /\ file # Broken
    /\ result = IF file = Absent THEN DefaultConfig ELSE file

Init ==
    /\ file \in Initial
    /\ history = <<IF file = Absent THEN DefaultConfig ELSE file>>
    /\ pc = [p \in Process |-> "idle"]
    /\ cmd = [p \in Process |-> None] /\ cfg = [p \in Process |-> None]
    /\ left = MaxCommands
    /\ touched = {} /\ unsure = {}

-----------------------------------------------------------------------------

\* Mutant: a fresh ServiceConfig every time.
SetCredential_FreshService(c, service, key, value) ==
    [c EXCEPT !.credentials = [k \in Service \X Key |->
                                 IF k = <<service, key>> THEN value
                                 ELSE IF k[1] = service THEN None ELSE @[k]]]

SetCredential(c, service, key, value) == [c EXCEPT !.credentials[<<service, key>>] = value]

ToggleService(c, service) ==
    [c EXCEPT !.selected = IF service \in @ THEN @ \ {service} ELSE @ \cup {service}]

SetRetrySettings(c, max, delay) ==
    [mode |-> c.mode, maxRetries |-> max, retryDelay |-> delay,
     selected |-> c.selected, credentials |-> c.credentials]

\* The commands that ask nobody; config retry without a delay writes down the
\* one in force.
Edited(c, command) ==
    CASE command.name = "mode"   -> [c EXCEPT !.mode = command.mode]
      [] command.name = "select" -> ToggleService(c, command.service)
      [] command.name = "retry"  ->
            LET delay == RetrySettings(c.maxRetries, c.retryDelay).delaySeconds
            IN  SetRetrySettings(c, command.max, IF command.delay = None THEN delay ELSE command.delay)
      [] OTHER                   -> c

\* Where a command goes when its arguments are parsed.
FirstStep(command) ==
    CASE command.name = "set"  -> IF command.value = None THEN "prompt" ELSE "check"
      [] command.name = "menu" -> "menu"
      [] OTHER                 -> "open"

GoTo(p, step) == pc' = [pc EXCEPT ![p] = step]

\* The process exits, or it dies.
Ends(p) ==
    /\ GoTo(p, "idle")
    /\ cmd' = [cmd EXCEPT ![p] = None] /\ cfg' = [cfg EXCEPT ![p] = None]

\* cmdConfig up to the first thing it waits for.
Run(p, command) ==
    /\ pc[p] = "idle" /\ left > 0 /\ left' = left - 1
    /\ \/ \E c \in {DefaultConfig, file} :
             /\ Load(c)
             /\ cfg' = [cfg EXCEPT ![p] = Edited(c, command)]
             /\ cmd' = [cmd EXCEPT ![p] = command]
             /\ GoTo(p, FirstStep(command))
       \/ ~(\E c \in {DefaultConfig, file} : Load(c)) /\ UNCHANGED <<pc, cmd, cfg>>
    /\ touched' = touched \ {p}
    /\ UNCHANGED <<file, history, unsure>>

\* Mutant: end of input is an empty value.
Prompt_EmptyValue(p) ==
    /\ pc[p] = "prompt"
    /\ \E v \in Token \cup {None} : cmd' = [cmd EXCEPT ![p].value = v]
    /\ GoTo(p, "check") /\ UNCHANGED cfg
    /\ UNCHANGED <<file, left, history, touched, unsure>>

\* readSecretValue; nothing to read ends the command.
Prompt(p) ==
    /\ pc[p] = "prompt"
    /\ \/ /\ \E v \in Token : cmd' = [cmd EXCEPT ![p].value = v]
          /\ GoTo(p, "check") /\ UNCHANGED cfg
       \/ Ends(p)
    /\ UNCHANGED <<file, left, history, touched, unsure>>

\* authenticateCredential.  The verifiers read API_TOKEN and nothing else, so
\* they refuse the other names of a credential without asking.
Check(p) ==
    LET c == cmd[p]
        Keep == /\ cfg' = [cfg EXCEPT ![p] = SetCredential(@, c.service, c.key, c.value)]
                /\ GoTo(p, "open") /\ UNCHANGED cmd
    IN  /\ pc[p] = "check"
        /\ \/ /\ ~isCredentialKey(c.key) \/ c.service \notin Verifiers
              /\ Keep /\ UNCHANGED unsure
           \/ /\ isCredentialKey(c.key) /\ c.service \in Verifiers /\ c.key # "API_TOKEN"
              /\ Ends(p) /\ UNCHANGED unsure
           \/ /\ c.key = "API_TOKEN" /\ c.service \in Verifiers
              /\ \E e \in Exchanges(c.service, c.value) :
                    /\ IF VerifyCredentials(c.service, e[1], e[2]) = "rejected"
                       THEN Ends(p) ELSE Keep
                    /\ unsure' = IF Decided(c.service, e) THEN unsure
                                 ELSE unsure \cup {<<c.service, c.value>>}
        /\ UNCHANGED <<file, left, history, touched>>

\* cmdConfigMenu loads again.
MenuLoad(p) ==
    /\ pc[p] = "menu"
    /\ \/ \E c \in {DefaultConfig, file} :
             Load(c) /\ cfg' = [cfg EXCEPT ![p] = c] /\ GoTo(p, "lines") /\ UNCHANGED cmd
       \/ file = Broken /\ Ends(p)
    /\ touched' = touched \ {p}
    /\ UNCHANGED <<file, left, history, unsure>>

\* A line of the menu: a number, a, n or m.
MenuLine(p) ==
    /\ pc[p] = "lines"
    /\ \/ \E s \in Service : cfg' = [cfg EXCEPT ![p] = ToggleService(@, s)]
       \/ cfg' = [cfg EXCEPT ![p].selected = @ \cup Service]
       \/ cfg' = [cfg EXCEPT ![p].selected = @ \ Service]
       \/ cfg' = [cfg EXCEPT ![p].mode = IF @ = "parallel" THEN "sequential" ELSE "parallel"]
    /\ UNCHANGED <<file, pc, cmd, left, history, touched, unsure>>

\* An empty line, or end of input: only registered names are kept.
MenuSave(p) ==
    /\ pc[p] = "lines"
    /\ cfg' = [cfg EXCEPT ![p].selected = @ \cap Service]
    /\ GoTo(p, "open")
    /\ UNCHANGED <<file, cmd, left, history, touched, unsure>>

\* Save: the directory is made and the file opened, which empties it.
OpenFile(p) ==
    /\ pc[p] = "open"
    /\ \/ /\ file' = Broken /\ GoTo(p, "write")
          /\ touched' = touched \cup (Process \ {p})
          /\ UNCHANGED <<cmd, cfg>>
       \/ Ends(p) /\ UNCHANGED <<file, touched>>
    /\ UNCHANGED <<left, history, unsure>>

\* The bytes are written over what is there.  Where another process has
\* written meanwhile, the end of a longer text stays behind.
WriteFile(p) ==
    /\ pc[p] = "write"
    /\ file' \in {cfg[p]} \cup IF file \in {Broken, cfg[p]} THEN {} ELSE {Broken}
    /\ history' = IF file' = cfg[p] THEN Append(history, cfg[p]) ELSE history
    /\ touched' = touched \cup (Process \ {p})
    /\ Ends(p)
    /\ UNCHANGED <<left, unsure>>

\* The process is killed, or its write fails half way.
CutShort(p) ==
    /\ pc[p] # "idle"
    /\ file' \in {file} \cup IF pc[p] = "write" THEN {Broken} ELSE {}
    /\ Ends(p)
    /\ UNCHANGED <<left, history, touched, unsure>>

Next == \E p \in Process :
            \/ \E command \in Command : Run(p, command)
            \/ Prompt(p) \/ Check(p) \/ MenuLoad(p) \/ MenuLine(p) \/ MenuSave(p)
            \/ OpenFile(p) \/ WriteFile(p) \/ CutShort(p)

Spec == Init /\ [][Next]_vars

-----------------------------------------------------------------------------

\* README's "a token the service rejects is never written to disk": a token in
\* the file, under the key its service reads, is one the service accepts or one
\* it could not be asked about, whichever process wrote it and whatever the
\* file was before (main.go's check before SetCredential, authCheckOutcome).
UnrefusedCredentialsOnly ==
    \A n \in 1..Len(history) : \A s \in Verifiers :
        LET v == history[n].credentials[<<s, "API_TOKEN">>]
        IN  v = None \/ <<s, v>> \in Accepted \cup unsure
               \/ v = history[1].credentials[<<s, "API_TOKEN">>]

\* The settings a command has no business with.
Foreign(command) ==
    CASE command.name = "set"    -> {"mode", "maxRetries", "retryDelay", "selected"}
      [] command.name = "mode"   -> {"maxRetries", "retryDelay", "selected", "credentials"}
      [] command.name = "retry"  -> {"mode", "selected", "credentials"}
      [] command.name = "select" -> {"mode", "maxRetries", "retryDelay", "credentials"}
      [] command.name = "menu"   -> {"maxRetries", "retryDelay", "credentials"}

\* A command that no other overlapped leaves alone what it has no business
\* with: it starts from the last configuration that was saved whole, and from
\* no other, or saves nothing.  A file left empty by a crash is not taken for a
\* first start, which would lose every credential (config.go, Load and Save).
FreshSavesLoseNothing ==
    [][\A p \in Process :
         pc[p] = "write" /\ history' # history /\ pc'[p] = "idle" /\ p \notin touched
            => \A f \in Foreign(cmd[p]) : file'[f] = Last(history)[f]]_vars

\* What an upload would run with.
Effective(c) ==
    [mode |-> c.mode, retries |-> RetrySettings(c.maxRetries, c.retryDelay),
     selected |-> c.selected, credentials |-> c.credentials]

Promise == INSTANCE Settings WITH
    Unreadable <- Broken,
    current    <- CASE file = Broken -> Broken
                    [] file = Absent -> Effective(DefaultConfig)
                    [] OTHER         -> Effective(file),
    past       <- {Effective(history[n]) : n \in 1..Len(history)}

\* Every configuration that can be read is one change of one kind away from an
\* earlier one, however loads, prompts, checks and saves of several processes
\* interleave and wherever they die (main.go, cmdConfig and cmdConfigMenu).
StoreImplementsSettings == Promise!Spec

=============================================================================
