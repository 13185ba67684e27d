--------------------------- MODULE MCConfigStore ---------------------------
(* Two processes and every kind of command; services with a verifier of    *)
(* each sort and one without; a first start and a file with settings in    *)
(* it, some of them typed by hand.                                         *)
EXTENDS ConfigStore, TLC

CONSTANTS p, q, good, bad

MCService  == {"datanodes", "interim", "zincdrive", "vikingfile"}
MCAccepted == MCService \X {good}

Set(service, key, value) == [name |-> "set", service |-> service, key |-> key, value |-> value]
Retry(max, delay) == [name |-> "retry", max |-> max, delay |-> delay]

MCCommand ==
    {Set("zincdrive", "API_TOKEN", None), Set("interim", "API_TOKEN", bad),
     Set("datanodes", "API_TOKEN", bad), Set("datanodes", "API_TOKEN", good),
     Set("interim", "API_KEY", good), Set("vikingfile", "API_TOKEN", bad),
     Set("zincdrive", "folder", good),
     [name |-> "mode", mode |-> "sequential"], Retry(0, None), Retry(1, 3),
     [name |-> "select", service |-> "interim"], [name |-> "menu"]}

MCInitial ==
    {Absent,
     [DefaultConfig EXCEPT !.selected = {"zincdrive", "gone"}, !.retryDelay = 3, !.mode = "typo",
                           !.credentials[<<"zincdrive", "API_TOKEN">>] = good]}

\* Processes differ in nothing but their name.
Symmetry == Permutations({p, q})

=============================================================================
