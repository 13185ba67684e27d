----------------------------- MODULE MCUploader -----------------------------
(* Two services with credentials, one without and a name the registry does *)
(* not know; three kinds of failure.                                       *)
EXTENDS Uploader

CONSTANTS a, b, c, u

MCService        == {a, b, c, u}
MCSelected       == <<a, c, u, b>>
MCRegistered     == {a, b, c}
MCHasCredentials == {a, b}

Err(canceled, network, status) ==
    [canceled |-> canceled, network |-> network, text |-> FALSE, status |-> status]

MCFailure == {Err(FALSE, TRUE, 0), Err(FALSE, FALSE, 403), Err(TRUE, FALSE, 0)}
MCOneFailure == {Err(FALSE, TRUE, 0)}

\* The same with nothing but a and b, for liveness.
MCTwo         == {a, b}
MCTwoSelected == <<a, b>>

=============================================================================
