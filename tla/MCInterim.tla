----------------------------- MODULE MCInterim -----------------------------
(* A file of seven units (or an empty one), which the server takes in one   *)
(* piece or in parts of two; an intent may lack its completion or its      *)
(* abort URL, or declare one part too few.                                 *)
EXTENDS Interim

Single(complete, abort) == [mode |-> "single", partSize |-> 1, partCount |-> 1,
                            hasComplete |-> complete, hasAbort |-> abort]
Multipart(count, complete, abort) == [mode |-> "multipart", partSize |-> 2, partCount |-> count,
                                      hasComplete |-> complete, hasAbort |-> abort]

MCOffers == {Single(TRUE, FALSE), Single(FALSE, TRUE),
             Multipart(4, TRUE, TRUE), Multipart(3, TRUE, TRUE)}
=============================================================================
