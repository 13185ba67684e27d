--------------------------- MODULE ProgressStream ---------------------------
(***************************************************************************)
(* What internal/uploader promises to whoever reads progressCh, service by *)
(* service: a stream that starts, goes through at most Attempts attempts,  *)
(* each counting its bytes up from 0, and ends once.  Nothing follows the  *)
(* terminal event until the next file starts.  Uploader implements it.     *)
(***************************************************************************)
EXTENDS Integers

CONSTANTS Service, HasCredentials, FileSize, Attempts

VARIABLE view  \* per service, what the last event read says

Quiet  == {"none", "done", "error"}
Active == {"starting", "uploading", "retry"}

View == [state : Quiet \cup Active, bytes : 0..FileSize, failed : Nat]

Init == view = [s \in Service |-> [state |-> "none", bytes |-> 0, failed |-> 0]]

To(s, v) == view' = [view EXCEPT ![s] = v]

\* No credentials: an error with no upload before it.
Skip(s) ==
    /\ s \notin HasCredentials
    /\ To(s, [state |-> "error", bytes |-> 0, failed |-> 0])

Start(s) ==
    /\ s \in HasCredentials
    /\ view[s].state \in Quiet
    /\ To(s, [state |-> "starting", bytes |-> 0, failed |-> 0])

\* A new attempt streams from offset 0.
Attempt(s) ==
    /\ view[s].state \in {"starting", "retry"}
    /\ To(s, [state |-> "uploading", bytes |-> 0, failed |-> view[s].failed])

Advance(s) ==
    /\ view[s].state = "uploading"
    /\ \E b \in view[s].bytes..FileSize : To(s, [view[s] EXCEPT !.bytes = b])

\* The attempt numbered failed + 1 was lost, another one follows.
Retry(s) ==
    /\ view[s].state \in Active
    /\ view[s].failed + 1 < Attempts
    /\ To(s, [state |-> "retry", bytes |-> 0, failed |-> view[s].failed + 1])

\* Only a running attempt can succeed; an upload may fail or be aborted anywhere.
Finish(s) ==
    \/ /\ view[s].state = "uploading"
       /\ To(s, [view[s] EXCEPT !.state = "done"])
    \/ /\ view[s].state \in Active
       /\ To(s, [view[s] EXCEPT !.state = "error"])

Next == \E s \in Service :
            Skip(s) \/ Start(s) \/ Attempt(s) \/ Advance(s) \/ Retry(s) \/ Finish(s)

\* Whatever starts ends.
Spec == /\ Init /\ [][Next]_view
        /\ \A s \in Service : WF_view(Finish(s))

=============================================================================
