------------------------------ MODULE Settings ------------------------------
(***************************************************************************)
(* What the configuration is to its user: settings that commands change    *)
(* one at a time.  Two commands at once may lose one of the changes, and a *)
(* save cut short may lose the file, but what can be read never holds a    *)
(* change nobody made.  ConfigStore implements it.                         *)
(***************************************************************************)
CONSTANTS Service, Unreadable

VARIABLES
    current,  \* the settings an upload would run with, or Unreadable
    past      \* the settings that were current at some time

Init == current # Unreadable /\ past = {current}

Same(old, new, fields) == \A f \in fields : new[f] = old[f]

\* config set
SetsOneCredential(old, new) ==
    /\ Same(old, new, {"mode", "retries", "selected"})
    /\ \A a, b \in DOMAIN old.credentials :
          new.credentials[a] # old.credentials[a] /\ new.credentials[b] # old.credentials[b] => a = b

\* config select
TogglesOneService(old, new) ==
    /\ Same(old, new, {"mode", "retries", "credentials"})
    /\ \E s \in Service : \/ s \notin old.selected /\ new.selected = old.selected \cup {s}
                          \/ s \in old.selected /\ new.selected = old.selected \ {s}

\* config mode, config retry
ChangesOnly(field, old, new) == Same(old, new, DOMAIN old \ {field})

\* config menu
Selects(old, new) ==
    /\ Same(old, new, {"retries", "credentials"})
    /\ new.selected \subseteq Service

Save ==
    /\ current' # Unreadable
    /\ \E old \in past :
          \/ SetsOneCredential(old, current')
          \/ TogglesOneService(old, current')
          \/ ChangesOnly("mode", old, current')
          \/ ChangesOnly("retries", old, current')
          \/ Selects(old, current')
    /\ past' = past \cup {current'}

\* From the moment a save opens the file, for good if it gets no further.
Lose == current' = Unreadable /\ UNCHANGED past

Next == Save \/ Lose

Spec == Init /\ [][Next]_<<current, past>>

=============================================================================
