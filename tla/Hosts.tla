------------------------------- MODULE Hosts -------------------------------
(***************************************************************************)
(* One upload to any of the services but interim, with the uploader's      *)
(* retries, a cancellation anywhere, lost and late calls.                  *)
(***************************************************************************)
EXTENDS Mocha, StorageTo, ZincDrive, VikingFile, OneRequest

\* MaxParts is enough: no upload has more parts.
ASSUME PartsAssumption ==
    \A n \in Sizes :
        /\ n <= MaxParts * ZincMultipartPartSize
        /\ \A o \in Offers["mocha"] : n <= MaxParts * MochaPartSize(o)
        /\ \A o \in Offers["storageto"] : n <= MaxParts * o.partSize

HostClient == MochaClient \/ StorageToClient \/ ZincClient \/ VikingClient \/ OneRequestClient

HostError(why) ==
    /\ \/ MochaError(why) \/ StorageToError(why) \/ ZincError(why) \/ VikingError(why)
       \/ OneRequestError(why)
    /\ UNCHANGED <<offer, urls>>

\* A call comes back with an error status or a body that will not do; a missing
\* link is one more way of that.
Refused ==
    /\ pc \in Calls \ {"abort"} /\ answer # None /\ ~Accepts(answer.status)
    /\ HostError(IF answer.status = "linkless" THEN "unusable" ELSE answer.status)

\* A call ends without an answer: the connection fails, the client's timeout
\* ends it, or the context does.  It may arrive all the same.
Unanswered == pc \in Calls \ {"abort"} /\ HostError("lost")

\* The clean-up returns, answered or not, at the latest after abortTimeout.
AbortReturns ==
    /\ pc = "abort"
    /\ pc' = "failed" /\ answer' = None
    /\ UNCHANGED <<offer, part, urls, offset, outcome, net>>

\* The uploader tries again: a fresh reader and a fresh session.
Retry ==
    /\ pc = "failed" /\ outcome[attempt].why \in Retryable
    /\ ~cancelled /\ attempt < MaxAttempts
    /\ attempt' = attempt + 1
    /\ pc' = "start" /\ offer' = None /\ part' = 0 /\ urls' = {} /\ offset' = 0
    /\ UNCHANGED <<outcome, answer, net>>

Client ==
    /\ \/ HostClient /\ UNCHANGED attempt
       \/ Refused /\ UNCHANGED attempt
       \/ AbortReturns /\ UNCHANGED attempt
       \/ Retry
    /\ UNCHANGED <<inputs, cancelled, server>>

\* httpclient.Get: no call of these services takes longer than its timeout.
TimesOut == Unanswered /\ UNCHANGED <<attempt, inputs, cancelled, server>>

\* Ctrl+C or SIGTERM.
Cancel ==
    /\ ~cancelled /\ cancelled' = TRUE
    /\ UNCHANGED <<inputs, clientVars, answer, net, server>>

Next == Client \/ TimesOut \/ Server \/ Cancel

\* An answer the client has is read; a call without one times out.
Fairness == WF_vars(Client) /\ WF_vars(answer = None /\ TimesOut)

Spec == Init /\ [][Next]_vars /\ Fairness

-----------------------------------------------------------------------------

Stored(a) == server[a].state \in {"stored", "published"}
\* The call attempt a failed at.
FailedAt(a) == IF outcome[a] = None \/ outcome[a].why \in {"ok", "linkless"} THEN "none"
               ELSE outcome[a].at

\* Calls whose effect is an object on the server, or that follow one.
Commits == {"put", "complete", "publish"}

\* Part size and number of parts the server's answer stands for.
Covers(o, count) ==
    CASE host = "vikingfile" -> o.count * o.partSize >= size
      [] host = "storageto"  -> o.multipart => count * o.partSize >= size
      [] OTHER               -> TRUE

\* An object on the server holds the file from its first byte on, in order and
\* without a gap, and all of it unless the server asked for fewer parts than
\* the file has: the one reader, the part lengths and the URLs that come in
\* batches agree, for whatever session and however late (mocha.go:268,
\* storageto.go:236, zincdrive.go:327, vikingfile.go:133).
StoredFilesAreInOrder ==
    \A a \in Attempts : Stored(a) =>
        LET s == server[a] IN
        /\ s.pieces[1].from = 0
        /\ \A n \in 1..(s.count - 1) : s.pieces[n + 1].from = s.pieces[n].from + s.pieces[n].len
        /\ Covers(s.offer, s.count) => s.pieces[s.count].from + s.pieces[s.count].len = size

\* Upload succeeds only when the server has a link for this session's file, not
\* for one of an attempt before, and its result then holds a link (mocha.go:170,
\* storageto.go:126) - unless the service is gofile or buzzheavier, which do not
\* look whether the answer has one (gofile.go:126, buzzheavier.go:154).
SuccessIsPublished ==
    pc = "ok" => /\ server[attempt].state = "published"
                 /\ outcome[attempt].why = "ok" \/ host \in LinksUnchecked

\* An attempt that failed while it still had parts to send never leaves a file
\* behind, however late its calls arrive: what is stored without a link was
\* stored by an attempt that got as far as its commit.  The second copy a retry
\* makes has the same origin (mocha.go:180, zincdrive.go:158).
OnlyCommitsStoreFiles ==
    \A a \in Attempts : Stored(a) /\ FailedAt(a) # "none" => FailedAt(a) \in Commits

\* The services that clean up: what is left open on the server when a failed
\* attempt's calls have all arrived is a session its client never heard of, or
\* one of a service that leaves that to the server, cancelled or not
\* (mocha.go:165, storageto.go:225), or one whose abort the server turned down:
\* the client does not look at that answer and asks once only (mocha.go:547,
\* storageto.go:367).
SessionsAreGivenUp ==
    \A a \in Attempts :
        /\ host = "mocha" \/ (host = "storageto" /\ server[a].state = "open" /\ server[a].offer.multipart)
        /\ FailedAt(a) \notin {"none", "start", "init"}
        /\ (a = attempt => pc = "failed") /\ \A r \in net : r.attempt # a
        => server[a].state # "open" \/ server[a].refused

\* Every upload ends: no call is waited for longer than its timeout, no loop
\* asks the same thing again, and the clean-up does not hold it up
\* (mocha.go:268, httpclient.go:48).
UploadsEnd == <>[](pc \in {"ok", "failed"})

=============================================================================
