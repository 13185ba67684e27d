-------------------------- MODULE MCUploadCommand --------------------------
(* Two services, two files. *)
EXTENDS UploadCommand

CONSTANTS a, b, c

MCService  == {a, b, c}
MCSelected == <<a, c, b>>
MCHas      == {a, b}

MCFailure  == {[canceled |-> FALSE, network |-> TRUE, text |-> FALSE, status |-> 0]}

=============================================================================
