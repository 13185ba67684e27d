---------------------------- MODULE HostSession ----------------------------
(***************************************************************************)
(* What the services of internal/services that upload in several calls     *)
(* share: a session the server opens, the file read once from front to     *)
(* back, one call at a time, and the uploader's retries around it.  A call *)
(* or its answer can be lost, and a call the client has given up on can    *)
(* still arrive.  The servers are external: they are what api-refs/ and    *)
(* the clients' handling of their answers say of them.                     *)
(***************************************************************************)
EXTENDS Integers, FiniteSets

CONSTANTS
    Sizes,        \* file sizes, in units of data
    Offers,       \* per host, what its server may answer to the first call
    MaxParts,     \* bound: parts of an upload
    MaxAttempts,  \* attempts the uploader makes
    None

\* Services that store the file and answer with its link in one call; for
\* datanodes a call before it names the server.
LinksAtOnce == {"0x0", "buzzheavier", "datanodes", "fuckingfast", "gofile", "pixeldrain"}

\* gofile and buzzheavier take an answer for a success without looking for the
\* link in it.
LinksUnchecked == {"buzzheavier", "gofile"}

Hosts == {"mocha", "storageto", "zincdrive", "vikingfile"} \cup LinksAtOnce

ASSUME HostAssumption ==
    /\ Sizes \subseteq Nat
    /\ DOMAIN Offers = Hosts /\ \A h \in Hosts : None \notin Offers[h]
    /\ MaxParts \in Nat \ {0} /\ MaxAttempts \in Nat \ {0}

Attempts == 1..MaxAttempts
Parts    == 1..MaxParts

\* "init" and "sign" open a session, "urls" asks for presigned URLs, "put"
\* stores the whole file and "part" one part, "complete" makes an object of
\* the parts, "publish" turns the object into a link.
Calls    == {"init", "sign", "urls", "put", "part", "complete", "publish", "abort"}
Piece    == [from : Nat, len : Nat]
Request  == [kind : Calls, attempt : Attempts, part : 0..MaxParts,
             piece : Piece \cup {None}, wants : SUBSET Parts]

\* "ok": a 2xx with all the client needs; "linkless": one that lacks only the
\* link it should bring; "unusable": any other 2xx the client cannot use;
\* "transient", "permanent": other statuses, as the uploader classifies them.
Statuses  == {"ok", "linkless", "unusable", "transient", "permanent"}
Outcomes  == Statuses \cup {"lost", "local"}   \* no answer; a check of the client's own
Retryable == {"transient", "lost"}

VARIABLES
    host,        \* the service
    size,        \* of the file
    badOptions,  \* a share option does not parse (mocha only)
    cancelled,   \* ctx.Err() # nil
    attempt,     \* the uploader's attempt
    pc,          \* the call being made, or "start", "failed", "ok"
    offer,       \* what the first call returned, None before
    part,        \* the part number the loop is at
    urls,        \* the parts there is a URL for
    offset,      \* bytes taken from the reader
    outcome,     \* per attempt, how it ended and at which call; None before.
                 \* "linkless" is a success whose result holds no link
    answer,      \* the answer to the client's call, None while it waits
    net,         \* calls on their way
    server       \* per attempt, the session it opened there

inputs     == <<host, size, badOptions>>
clientVars == <<attempt, pc, offer, part, urls, offset, outcome>>
vars == <<inputs, cancelled, clientVars, answer, net, server>>

Session == [state : {"none", "open", "stored", "published", "aborted"},
            offer : (UNION {Offers[h] : h \in Hosts}) \cup {None},
            pieces : [Parts -> Piece \cup {None}], count : 0..MaxParts,
            refused : BOOLEAN]   \* the server turned an abort of it down

\* nil is neither a piece nor the end of an attempt.
ASSUME NilAssumption == None \notin Piece \cup [why : Outcomes, at : Calls \cup {"start"}]

TypeOK ==
    /\ host \in Hosts /\ size \in Sizes /\ badOptions \in BOOLEAN
    /\ cancelled \in BOOLEAN
    /\ attempt \in Attempts /\ pc \in Calls \cup {"start", "failed", "ok"}
    /\ offer \in Offers[host] \cup {None}
    /\ part \in 0..MaxParts /\ urls \in SUBSET Parts
    /\ offset \in 0..size
    /\ outcome \in [Attempts -> [why : Outcomes, at : Calls \cup {"start"}] \cup {None}]
    /\ answer = None \/ (answer.status \in Statuses /\ answer.numbers \subseteq Parts)
    /\ net \subseteq Request
    /\ server \in [Attempts -> Session]

NoSession == [state |-> "none", offer |-> None,
              pieces |-> [n \in Parts |-> None], count |-> 0, refused |-> FALSE]

Init ==
    /\ host \in Hosts /\ size \in Sizes
    /\ badOptions \in IF host = "mocha" THEN BOOLEAN ELSE {FALSE}
    /\ cancelled = FALSE
    /\ attempt = 1 /\ pc = "start" /\ offer = None
    /\ part = 0 /\ urls = {} /\ offset = 0
    /\ outcome = [a \in Attempts |-> None]
    /\ answer = None /\ net = {}
    /\ server = [a \in Attempts |-> NoSession]

-----------------------------------------------------------------------------
(* The steps of a client.  Each says how pc, part, answer, net and outcome *)
(* change; offer, urls and offset are left to the action that uses it.     *)

\* net/http sends nothing on a context that is already cancelled; the call
\* then ends unanswered.
Call(kind, n, piece, wants) ==
    /\ pc' = kind /\ part' = n /\ answer' = None
    /\ net' = IF cancelled THEN net
              ELSE net \cup {[kind |-> kind, attempt |-> attempt, part |-> n,
                              piece |-> piece, wants |-> wants]}
    /\ UNCHANGED outcome

Ask(kind) == Call(kind, part, None, {}) /\ UNCHANGED offset

AskURLs(n, wants) == Call("urls", n, None, wants) /\ UNCHANGED offset

\* A PUT of the reader's next bytes: io.LimitReader reads nothing for a length
\* below one.
PutData(kind, n, length) ==
    LET len == IF length > 0 THEN length ELSE 0 IN
    /\ Call(kind, n, [from |-> offset, len |-> len], {})
    /\ offset' = offset + len

\* Upload returns.
End(why, state) ==
    /\ outcome' = [outcome EXCEPT ![attempt] = [why |-> why, at |-> pc]]
    /\ pc' = state /\ answer' = None
    /\ UNCHANGED <<part, net, offset>>

Fail(why) == End(why, "failed")

\* Upload returns a result, with the link the answer brought, if it did.
Succeed == End(answer.status, "ok")

\* Mutant: the cleanup runs on the upload's own context.
FailAndAbort_OnContext(why) ==
    /\ outcome' = [outcome EXCEPT ![attempt] = [why |-> why, at |-> pc]]
    /\ pc' = "abort" /\ answer' = None
    /\ net' = IF cancelled THEN net
              ELSE net \cup {[kind |-> "abort", attempt |-> attempt, part |-> part,
                              piece |-> None, wants |-> {}]}
    /\ UNCHANGED <<part, offset>>

\* Upload gives the session up first, on a context of its own.
FailAndAbort(why) ==
    /\ outcome' = [outcome EXCEPT ![attempt] = [why |-> why, at |-> pc]]
    /\ pc' = "abort" /\ answer' = None
    /\ net' = net \cup {[kind |-> "abort", attempt |-> attempt, part |-> part,
                         piece |-> None, wants |-> {}]}
    /\ UNCHANGED <<part, offset>>

\* The client of that host got that status to its call.
Answered(h, kind, status) ==
    host = h /\ pc = kind /\ answer # None /\ answer.status = status

\* The client goes on with an answer of that status.
Accepts(status) == status = "ok" \/ (status = "linkless" /\ host \in LinksUnchecked)

\* Parts of that size the file makes, and the length of the n-th.
PartsOf(partSize) == (size + partSize - 1) \div partSize

\* Mutant: the last part is taken to be a full one.
ChunkSize_AlwaysFull(partSize, n) == partSize

ChunkSize(partSize, n) ==
    LET remaining == size - (n - 1) * partSize IN
    IF remaining < partSize THEN remaining ELSE partSize

-----------------------------------------------------------------------------
(* The server and the storage.  A call that is not the one the client is   *)
(* waiting for is handled, and its answer goes nowhere.                    *)

IsAwaited(r) == pc = r.kind /\ attempt = r.attempt /\ part = r.part /\ answer = None

Reply(r, status, o, numbers) ==
    /\ net' = net \ {r}
    /\ answer' = IF IsAwaited(r) THEN [status |-> status, offer |-> o, numbers |-> numbers]
                 ELSE answer

\* Any call may be turned down, the clean-up too: a rate limit, a server error,
\* a bad request.
TurnDown(r) ==
    /\ \E status \in {"transient", "permanent"} : Reply(r, status, None, {})
    /\ server' = IF r.kind = "abort" THEN [server EXCEPT ![r.attempt].refused = TRUE] ELSE server

OpenSession(r) ==
    /\ r.kind \in {"init", "sign"}
    /\ \E o \in Offers[host], status \in {"ok", "unusable"} :
          /\ Reply(r, status, o, {})
          /\ server' = [server EXCEPT ![r.attempt] =
                           [NoSession EXCEPT !.state = "open", !.offer = o]]

IsOpen(r) == server[r.attempt].state = "open"

\* URLs for what was asked, or for some of it.
SignURLs(r) ==
    /\ r.kind = "urls" /\ IsOpen(r)
    /\ \E given \in SUBSET r.wants : Reply(r, "ok", None, given)
    /\ UNCHANGED server

\* A part's answer may lack the ETag.
StorePart(r) ==
    /\ r.kind = "part" /\ IsOpen(r)
    /\ \E status \in {"ok", "unusable"} : Reply(r, status, None, {})
    /\ server' = [server EXCEPT ![r.attempt].pieces[r.part] = r.piece]

\* The call whose answer should hold the link.
BringsLink(kind) ==
    \/ kind = "publish"
    \/ kind = "put" /\ host \in LinksAtOnce
    \/ kind = "complete" /\ host = "vikingfile"

\* How a 2xx may fall short where the client reads its body: mocha's completion
\* has the file's id.  storageto and zincdrive take any 2xx for a PUT or a
\* completion.
Flaws(kind) == IF BringsLink(kind) THEN {"unusable", "linkless"}
               ELSE IF host = "mocha" THEN {"unusable"} ELSE {}

\* The file's first count pieces become an object, with a link if the call
\* brings one.
Object(s, pieces, count, kind) ==
    [s EXCEPT !.state = IF BringsLink(kind) THEN "published" ELSE "stored",
              !.pieces = pieces, !.count = count]

\* A gateway may fail the call after the file was stored.
StoreObject(r) ==
    /\ r.kind = "put" /\ (IsOpen(r) \/ host \in LinksAtOnce \ {"datanodes"})
    /\ \E status \in {"ok", "transient"} \cup Flaws("put") : Reply(r, status, None, {})
    /\ server' = [server EXCEPT ![r.attempt] =
                     Object(@, [@.pieces EXCEPT ![1] = r.piece], 1, "put")]

\* The parts listed become one object; vikingfile's link comes with it.  A
\* gateway may fail the call after the commit.
Complete(r) ==
    /\ r.kind = "complete" /\ IsOpen(r)
    /\ \A n \in 1..r.part : server[r.attempt].pieces[n] # None
    /\ \E status \in {"ok", "transient"} \cup Flaws("complete") : Reply(r, status, None, {})
    /\ server' = [server EXCEPT ![r.attempt] = Object(@, @.pieces, r.part, "complete")]

Publish(r) ==
    /\ r.kind = "publish" /\ server[r.attempt].state \in {"stored", "published"}
    /\ \E status \in {"ok", "transient"} \cup Flaws("publish") : Reply(r, status, None, {})
    /\ server' = [server EXCEPT ![r.attempt].state = "published"]

\* Discards a half-finished session; no effect on a finished one.
Abort(r) ==
    /\ r.kind = "abort"
    /\ Reply(r, "ok", None, {})
    /\ server' = IF IsOpen(r) THEN [server EXCEPT ![r.attempt].state = "aborted"] ELSE server

Server ==
    /\ \E r \in net :
          \/ TurnDown(r) \/ OpenSession(r) \/ SignURLs(r) \/ StorePart(r) \/ StoreObject(r)
          \/ Complete(r) \/ Publish(r) \/ Abort(r)
    /\ UNCHANGED <<inputs, cancelled, clientVars>>

=============================================================================
