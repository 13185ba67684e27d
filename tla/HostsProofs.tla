---------------------------- MODULE HostsProofs -----------------------------
(***************************************************************************)
(* Proofs about Hosts, for any file sizes, answers of the servers, part    *)
(* sizes and number of attempts: its type invariant and every safety       *)
(* property of the module, whatever is lost, late or cancelled.            *)
(***************************************************************************)
EXTENDS Hosts, TLAPS

-----------------------------------------------------------------------------
(* Where the parts of a file begin.                                        *)

\* The part size and the number of parts of a session, service by service.
PartSize(h, o) == CASE h = "mocha"     -> MochaPartSize(o)
                    [] h = "zincdrive" -> ZincMultipartPartSize
                    [] OTHER           -> o.partSize

Count(z, p) == (z + p - 1) \div p

Total(h, z, o) == CASE h = "mocha"     -> Count(z, MochaPartSize(o))
                    [] h = "storageto" -> IF o.totalParts > 0 THEN o.totalParts
                                          ELSE Count(z, o.partSize)
                    [] h = "zincdrive" -> Count(z, ZincMultipartPartSize)
                    [] OTHER           -> o.count

\* The bytes of a file of z that come before part n.
Before(z, p, n) == IF (n - 1) * p <= z THEN (n - 1) * p ELSE z

PieceOf(z, p, n) == [from |-> Before(z, p, n), len |-> Before(z, p, n + 1) - Before(z, p, n)]

-----------------------------------------------------------------------------
(* The inductive invariant.                                                *)

Ended == pc \in {"abort", "failed", "ok"}

\* Attempts to come have no session; those that are over have an outcome.
OneAfterAnother ==
    /\ \A a \in Attempts : a > attempt => server[a] = NoSession /\ outcome[a] = None
    /\ \A a \in Attempts : a < attempt => outcome[a] # None
    /\ outcome[attempt] # None <=> Ended
    /\ \A r \in net : r.attempt <= attempt
    /\ pc = "start" => server[attempt] = NoSession /\ \A r \in net : r.attempt # attempt

\* A call that opens a session is the first of its attempt, and made once.
OpenedOnce ==
    \A r \in net : r.kind \in {"init", "sign"} =>
        /\ server[r.attempt] = NoSession
        /\ outcome[r.attempt] # None => outcome[r.attempt].at = r.kind
        /\ \A q \in net : q.attempt = r.attempt => q = r
        /\ r.attempt = attempt => pc = "failed" \/ (pc = r.kind /\ answer = None)

\* The calls each service makes.
CallsOf(h) == CASE h = "mocha"       -> {"init", "urls", "part", "complete", "publish"}
                [] h = "storageto"   -> {"init", "urls", "put", "part", "complete", "publish"}
                [] h = "zincdrive"   -> Calls \ {"abort"}
                [] h = "vikingfile"  -> {"init", "part", "complete"}
                [] OTHER             -> {"init", "put"}

CallsFit ==
    /\ pc \in CallsOf(host) \cup {"start", "abort", "failed", "ok"}
    /\ \A r \in net : r.kind \in CallsOf(host) \cup {"abort"}

\* Attempt a came to its commit: it is there, or ended there or with success.
Committed(a) ==
    \/ a = attempt /\ pc \in Commits
    \/ outcome[a] # None /\ (outcome[a].why \in {"ok", "linkless"} \/ outcome[a].at \in Commits)

CommitsAreReached ==
    /\ \A a \in Attempts : Stored(a) => Committed(a)
    /\ \A r \in net : r.kind \in Commits => Committed(r.attempt)

\* What an answer of use to the client says of its session.
AnswersAreTrue ==
    answer # None /\ answer.status \in {"ok", "linkless"} =>
        /\ pc \in {"init", "sign"} =>
              answer.offer \in Offers[host] /\ server[attempt].offer = answer.offer
        /\ pc \in Commits => Stored(attempt)
        /\ pc = "publish" => server[attempt].state = "published"
        /\ pc = "put" /\ host \in LinksAtOnce => server[attempt].state = "published"
        /\ pc = "complete" /\ host = "vikingfile" => server[attempt].state = "published"

\* The client's offer is its session's, and the loop is at one of its parts.
LoopsFit ==
    /\ pc \in {"urls", "part"} =>
          /\ offer \in Offers[host] /\ server[attempt].offer = offer
          /\ 1 <= part /\ part <= Total(host, size, offer)
    /\ pc = "publish" => Stored(attempt)
    /\ host = "storageto" /\ pc \in {"put", "urls", "part"}
          => server[attempt].offer.multipart = (pc # "put")
    /\ pc = "init" /\ host \in {"mocha", "storageto", "zincdrive"} => size >= 1
    /\ pc = "urls" /\ host = "storageto" => part = 1

\* The reader has given out the bytes of the parts before, no more and no less.
ReaderFits ==
    /\ pc \in {"start", "init", "sign"} => offset = 0
    /\ pc = "urls" => offset = Before(size, PartSize(host, offer), part)
    /\ pc = "part" => offset = Before(size, PartSize(host, offer), part + 1)

\* The calls on their way carry what their session expects.
CallsCarryTheirPiece ==
    \A r \in net :
        /\ r.kind = "part" => r.part \in Parts
                              /\ r.piece = PieceOf(size, PartSize(host, server[r.attempt].offer), r.part)
        /\ r.kind = "put" => r.piece = [from |-> 0, len |-> size]
        /\ r.kind = "complete" =>
              /\ r.part \in Parts
              /\ host \in {"mocha", "zincdrive"} =>
                    r.part * PartSize(host, server[r.attempt].offer) >= size
              /\ host = "storageto" => server[r.attempt].offer.multipart
              /\ host = "vikingfile" => r.part = server[r.attempt].offer.count

\* What an open session has of a part is the piece of that part.
PiecesFit ==
    \A a \in Attempts :
        /\ server[a].state # "none" /\ host \notin LinksAtOnce => server[a].offer \in Offers[host]
        /\ server[a].state = "open" =>
              \A n \in Parts : server[a].pieces[n] # None =>
                  server[a].pieces[n] = PieceOf(size, PartSize(host, server[a].offer), n)
        /\ Stored(a) => server[a].count \in Parts

\* Mocha and storage.to: a session its client knows and failed in is no longer
\* open, or the call that gives it up is on its way or was turned down.
FailuresAreGivenUp ==
    \A a \in Attempts :
        /\ host = "mocha" \/ (host = "storageto" /\ server[a].state = "open" /\ server[a].offer.multipart)
        /\ FailedAt(a) \notin {"none", "start", "init"}
        => \/ server[a].state # "open" \/ server[a].refused
           \/ \E r \in net : r.attempt = a /\ r.kind = "abort"

\* StoredFilesAreInOrder for one session.
InOrder(s) ==
    /\ s.pieces[1].from = 0
    /\ \A n \in 1..(s.count - 1) : s.pieces[n + 1].from = s.pieces[n].from + s.pieces[n].len
    /\ Covers(s.offer, s.count) => s.pieces[s.count].from + s.pieces[s.count].len = size

\* All of it.
IndInv ==
    /\ TypeOK /\ OneAfterAnother /\ OpenedOnce /\ CallsFit /\ CommitsAreReached
    /\ AnswersAreTrue /\ LoopsFit /\ ReaderFits /\ CallsCarryTheirPiece /\ PiecesFit
    /\ FailuresAreGivenUp /\ StoredFilesAreInOrder /\ SuccessIsPublished

-----------------------------------------------------------------------------
(* Lemmas about the operators.                                             *)

\* One part on, the product is one part size more.
LEMMA NextProduct ==
    ASSUME NEW n \in Nat, NEW p \in Nat
    PROVE  (n - 1) * p \in Int /\ n * p \in Nat /\ n * p = (n - 1) * p + p /\ ((n + 1) - 1) * p = n * p
  OBVIOUS

\* Where a part begins: the first at 0, every other after the one before, and
\* none past the end, which the part after the last is at.
LEMMA BeforeFacts ==
    ASSUME NEW z \in Nat, NEW p \in Nat, NEW n \in Nat \ {0}
    PROVE  /\ Before(z, p, 1) = 0
           /\ Before(z, p, n) \in 0..z
           /\ Before(z, p, n + 1) \in 0..z
           /\ Before(z, p, n) <= Before(z, p, n + 1)
           /\ n * p >= z => Before(z, p, n + 1) = z
           /\ PieceOf(z, p, n) \in Piece
  <1> DEFINE x == (n - 1) * p
  <1>1. n * p = x + p /\ ((n + 1) - 1) * p = x + p /\ x \in Int
    BY NextProduct
  <1>2. x >= 0
    <2>1. n - 1 \in Nat
      OBVIOUS
    <2> QED
      BY <2>1
  <1>3. (1 - 1) * p = 0
    OBVIOUS
  <1> HIDE DEF x
  <1>4. Before(z, p, n) = IF x <= z THEN x ELSE z
    BY DEF Before, x
  <1>5. Before(z, p, n + 1) = IF x + p <= z THEN x + p ELSE z
    BY <1>1 DEF Before
  <1>6. Before(z, p, 1) = 0
    BY <1>3 DEF Before
  <1>7. /\ Before(z, p, n) \in 0..z /\ Before(z, p, n + 1) \in 0..z
        /\ Before(z, p, n) <= Before(z, p, n + 1)
        /\ n * p >= z => Before(z, p, n + 1) = z
    BY <1>1, <1>2, <1>4, <1>5
  <1>8. Before(z, p, n + 1) - Before(z, p, n) \in Nat /\ Before(z, p, n) \in Nat
    BY <1>7
  <1> QED
    BY <1>6, <1>7, <1>8 DEF PieceOf, Piece

\* What the reader gives for part n of a chunk is its piece.
LEMMA ChunkFacts ==
    ASSUME NEW p \in Nat, NEW n \in Nat \ {0}, size \in Nat
    PROVE  LET len == IF ChunkSize(p, n) > 0 THEN ChunkSize(p, n) ELSE 0
           IN  len = Before(size, p, n + 1) - Before(size, p, n)
  <1> DEFINE x == (n - 1) * p
  <1>1. ((n + 1) - 1) * p = x + p /\ x \in Int
    BY NextProduct
  <1> HIDE DEF x
  <1>4. Before(size, p, n) = IF x <= size THEN x ELSE size
    BY DEF Before, x
  <1>5. Before(size, p, n + 1) = IF x + p <= size THEN x + p ELSE size
    BY <1>1 DEF Before
  <1>6. ChunkSize(p, n) = IF size - x < p THEN size - x ELSE p
    BY DEF ChunkSize, x
  <1> QED
    BY <1>1, <1>4, <1>5, <1>6

\* The parts of a file cover it, and MaxParts of a size that covers it are enough.
LEMMA PartsFacts ==
    ASSUME NEW p \in Nat \ {0}, size \in Nat
    PROVE  /\ PartsOf(p) \in Nat
           /\ PartsOf(p) * p >= size
           /\ size >= 1 => PartsOf(p) >= 1
           /\ \A m \in Nat : size <= m * p => PartsOf(p) <= m
  <1> DEFINE q == PartsOf(p)
             y == size + p - 1
  <1>1. q = y \div p /\ y \in Nat
    BY DEF PartsOf
  <1> HIDE DEF q, y
  <1>2. q \in Int /\ p * q <= y /\ y < p * q + p
    BY <1>1
  <1>3. p * q \in Int /\ p * q >= size
    BY <1>2 DEF y
  <1>4. q \in Nat /\ (size >= 1 => q >= 1)
    BY <1>2, <1>3
  <1>5. ASSUME NEW m \in Nat, size <= m * p PROVE q <= m
    <2> SUFFICES ASSUME m + 1 <= q PROVE FALSE
      BY <1>4
    <2>1. p * (m + 1) <= p * q
      BY <1>4
    <2>2. p * (m + 1) = m * p + p
      OBVIOUS
    <2> QED
      BY <1>2, <1>5, <2>1, <2>2 DEF y
  <1> QED
    BY <1>3, <1>4, <1>5 DEF q

\* The assumptions on the constants, as the proofs use them.
LEMMA ConstantFacts ==
    /\ Sizes \subseteq Nat /\ MaxParts \in Nat \ {0} /\ MaxAttempts \in Nat \ {0}
    /\ \A h \in Hosts : None \notin Offers[h]
    /\ None \notin Piece /\ None \notin [why : Outcomes, at : Calls \cup {"start"}]
    /\ Parts \subseteq Nat \ {0} /\ Attempts \subseteq Nat \ {0}
    /\ 1 \in Parts /\ 1 \in Attempts
  BY HostAssumption, NilAssumption DEF Parts, Attempts

\* The part size of a session is a number, and so are its parts, of which MaxParts
\* are enough; those the client counts itself cover the file.
LEMMA OfferFacts ==
    ASSUME host \in Hosts \ LinksAtOnce, size \in Sizes, NEW o \in Offers[host]
    PROVE  /\ PartSize(host, o) \in Nat /\ Total(host, size, o) \in 0..MaxParts
           /\ size >= 1 \/ host = "vikingfile" => Total(host, size, o) >= 1
           /\ host \in {"mocha", "zincdrive"} => Total(host, size, o) * PartSize(host, o) >= size
  <1> USE ConstantFacts
  <1>0. size \in Nat
    OBVIOUS
  <1>1. CASE host = "mocha"
    <2>1. MochaPartSize(o) \in Nat \ {0}
      BY <1>1, MochaAssumption DEF MochaPartSize, FirstPositive
    <2>2. size <= MaxParts * MochaPartSize(o)
      BY <1>1, PartsAssumption
    <2>3. PartSize(host, o) = MochaPartSize(o) /\ Total(host, size, o) = PartsOf(MochaPartSize(o))
      BY <1>1 DEF PartSize, Total, Count, PartsOf
    <2> QED
      BY <1>0, <1>1, <2>1, <2>2, <2>3, PartsFacts
  <1>2. CASE host = "zincdrive"
    <2>1. ZincMultipartPartSize \in Nat \ {0} /\ size <= MaxParts * ZincMultipartPartSize
      BY ZincAssumption, PartsAssumption
    <2>2. PartSize(host, o) = ZincMultipartPartSize /\ Total(host, size, o) = PartsOf(ZincMultipartPartSize)
      BY <1>2 DEF PartSize, Total, Count, PartsOf
    <2> QED
      BY <1>0, <1>2, <2>1, <2>2, PartsFacts
  <1>3. CASE host = "storageto"
    <2>1. o.partSize \in Nat \ {0} /\ size <= MaxParts * o.partSize /\ o.totalParts \in 0..MaxParts
      BY <1>3, StorageToAssumption, PartsAssumption
    <2>2. /\ PartSize(host, o) = o.partSize
          /\ Total(host, size, o) = IF o.totalParts > 0 THEN o.totalParts ELSE PartsOf(o.partSize)
      BY <1>3 DEF PartSize, Total, Count, PartsOf
    <2>3. /\ PartsOf(o.partSize) \in Nat /\ PartsOf(o.partSize) <= MaxParts
          /\ size >= 1 => PartsOf(o.partSize) >= 1
      BY <1>0, <2>1, PartsFacts
    <2> QED
      BY <1>3, <2>1, <2>2, <2>3
  <1>4. CASE host = "vikingfile"
    <2>1. o.partSize \in Nat /\ o.count \in 1..MaxParts
      BY <1>4, VikingAssumption DEF Parts
    <2>2. PartSize(host, o) = o.partSize /\ Total(host, size, o) = o.count
      BY <1>4 DEF PartSize, Total, Count, PartsOf
    <2> QED
      BY <1>4, <2>1, <2>2
  <1> QED
    BY <1>1, <1>2, <1>3, <1>4 DEF Hosts

\* Numbers of parts as the clients write them.
LEMMA TotalsAreTheirs ==
    /\ \A o : host = "mocha" => Total(host, size, o) = MochaTotal(o) /\ PartSize(host, o) = MochaPartSize(o)
    /\ \A o : host = "storageto" => Total(host, size, o) = StorageToTotal(o) /\ PartSize(host, o) = o.partSize
    /\ \A o : host = "zincdrive" => /\ Total(host, size, o) = PartsOf(ZincMultipartPartSize)
                                   /\ PartSize(host, o) = ZincMultipartPartSize
    /\ \A o : host = "vikingfile" => Total(host, size, o) = o.count /\ PartSize(host, o) = o.partSize
  BY DEF Total, Count, PartSize, MochaTotal, StorageToTotal, PartsOf

-----------------------------------------------------------------------------
(* The shapes of a client's steps.  Each lemma says what a step of its     *)
(* shape needs to keep the invariant; what a service does then shows it.   *)

\* A call the client may make, with the offer it then has and the bytes it has
\* then read.
Prepared(kind, n, piece, o, read) ==
    /\ kind \in CallsOf(host) \ {"abort"}
    /\ n \in 0..MaxParts /\ piece \in Piece \cup {None}
    /\ o \in Offers[host] \cup {None} /\ read \in 0..size
    /\ kind \in {"init", "sign"} => pc = "start" /\ read = 0
    /\ kind = "init" /\ host \in {"mocha", "storageto", "zincdrive"} => size >= 1
    /\ pc \in Commits => kind \in Commits
    /\ kind \in {"urls", "part"} =>
          /\ o \in Offers[host] /\ server[attempt].offer = o
          /\ 1 <= n /\ n <= Total(host, size, o)
    /\ kind = "urls" => read = Before(size, PartSize(host, o), n)
    /\ kind = "urls" /\ host = "storageto" => n = 1
    /\ kind = "part" => /\ read = Before(size, PartSize(host, o), n + 1)
                        /\ piece = PieceOf(size, PartSize(host, o), n)
    /\ kind = "put" => piece = [from |-> 0, len |-> size]
    /\ kind = "complete" =>
          /\ n \in Parts
          /\ host \in {"mocha", "zincdrive"} => n * PartSize(host, server[attempt].offer) >= size
          /\ host = "storageto" => server[attempt].offer.multipart
          /\ host = "vikingfile" => n = server[attempt].offer.count
    /\ kind = "publish" => Stored(attempt)
    /\ host = "storageto" /\ kind \in {"put", "urls", "part"}
          => server[attempt].offer.multipart = (kind # "put")

\* The client makes its next call.
LEMMA CallStep ==
    ASSUME IndInv, UNCHANGED <<inputs, cancelled, attempt, server>>,
           pc = "start" \/ (pc \in Calls \ {"abort"} /\ answer # None),
           NEW kind, NEW n, NEW piece, NEW wants \in SUBSET Parts,
           Call(kind, n, piece, wants), urls' \in SUBSET Parts,
           Prepared(kind, n, piece, offer', offset')
    PROVE  IndInv'
  <1> DEFINE new == [kind |-> kind, attempt |-> attempt, part |-> n, piece |-> piece, wants |-> wants]
  <1> USE ConstantFacts DEF inputs
  <1>p. /\ kind \in CallsOf(host) /\ kind \in Calls /\ kind # "abort"
        /\ n \in 0..MaxParts /\ piece \in Piece \cup {None}
    BY DEF Prepared, CallsOf, Calls
  <1>0. /\ TypeOK /\ OneAfterAnother /\ OpenedOnce /\ CallsFit /\ CommitsAreReached
        /\ AnswersAreTrue /\ LoopsFit /\ ReaderFits /\ CallsCarryTheirPiece /\ PiecesFit
        /\ FailuresAreGivenUp /\ StoredFilesAreInOrder /\ SuccessIsPublished
    BY DEF IndInv
  <1>1. /\ pc' = kind /\ part' = n /\ answer' = None /\ outcome' = outcome
        /\ \A r \in net' : r \in net \/ r = new
        /\ net \subseteq net'
        /\ UNCHANGED <<host, size, badOptions, cancelled, attempt, server>>
    BY DEF Call
  <1>2. /\ new.kind = kind /\ new.attempt = attempt /\ new.part = n /\ new.piece = piece
        /\ new \in Request /\ attempt \in Attempts
    BY <1>0, <1>p DEF Request, TypeOK
  <1> HIDE DEF new
  <1>3. TypeOK'
    <2>1. /\ host' \in Hosts /\ size' \in Sizes /\ badOptions' \in BOOLEAN
          /\ cancelled' \in BOOLEAN /\ attempt' \in Attempts
          /\ offer' \in Offers[host'] \cup {None} /\ part' \in 0..MaxParts
          /\ server' \in [Attempts -> Session] /\ offset' \in 0..size'
      BY <1>0, <1>1, <1>p DEF TypeOK, Prepared
    <2>2. /\ outcome' \in [Attempts -> [why : Outcomes, at : Calls \cup {"start"}] \cup {None}]
          /\ net' \subseteq Request /\ pc' \in Calls \cup {"start", "failed", "ok"}
      BY <1>0, <1>1, <1>2, <1>p DEF TypeOK
    <2> QED
      BY <1>1, <2>1, <2>2 DEF TypeOK
  <1>4. OneAfterAnother'
    <2>1. ~Ended /\ ~Ended' /\ pc' # "start"
      BY <1>1, <1>p DEF Ended, Calls
    <2>2. \A r \in net' : r.attempt <= attempt
      BY <1>0, <1>1, <1>2 DEF OneAfterAnother
    <2> QED
      BY <1>0, <1>1, <2>1, <2>2 DEF OneAfterAnother
  <1>5. OpenedOnce'
    <2>1. ASSUME NEW r \in net', r.kind \in {"init", "sign"}
          PROVE  /\ server'[r.attempt] = NoSession
                 /\ outcome'[r.attempt] # None => outcome'[r.attempt].at = r.kind
                 /\ \A q \in net' : q.attempt = r.attempt => q = r
                 /\ r.attempt = attempt' => pc' = "failed" \/ (pc' = r.kind /\ answer' = None)
      <3>1. CASE r = new
        <4>1. pc = "start" /\ server[attempt] = NoSession /\ outcome[attempt] = None
          BY <1>0, <1>2, <2>1, <3>1 DEF OneAfterAnother, Ended, Prepared
        <4>2. \A q \in net : q.attempt # attempt
          BY <1>0, <4>1 DEF OneAfterAnother
        <4> QED
          BY <1>1, <1>2, <3>1, <4>1, <4>2
      <3>2. CASE r # new
        <4>1. r \in net
          BY <1>1, <3>2
        <4>2. r.attempt # attempt
          BY <1>0, <2>1, <4>1 DEF OneAfterAnother, OpenedOnce, Calls
        <4> QED
          BY <1>0, <1>1, <1>2, <2>1, <4>1, <4>2 DEF OpenedOnce
      <3> QED
        BY <3>1, <3>2
    <2> QED
      BY <2>1 DEF OpenedOnce
  <1>6. CallsFit'
    BY <1>0, <1>1, <1>2, <1>p DEF CallsFit
  <1>7. CommitsAreReached'
    <2>1. \A a \in Attempts : Committed(a) => Committed(a)'
      BY <1>1 DEF Committed, Commits, Prepared
    <2>2. kind \in Commits => Committed(attempt)'
      BY <1>1 DEF Committed
    <2>3. \A r \in net : r.attempt \in Attempts
      BY <1>0 DEF TypeOK, Request
    <2> QED
      BY <1>0, <1>1, <1>2, <2>1, <2>2, <2>3 DEF CommitsAreReached, Stored
  <1>8. AnswersAreTrue' /\ SuccessIsPublished'
    BY <1>0, <1>1, <1>p DEF AnswersAreTrue, SuccessIsPublished, Calls
  <1>9. LoopsFit'
    BY <1>1, <1>p DEF LoopsFit, Stored, Prepared
  <1>10. ReaderFits'
    BY <1>1, <1>p DEF ReaderFits, Calls, Prepared
  <1>11. CallsCarryTheirPiece'
    <2>2. kind = "part" => /\ n \in Parts
                           /\ piece = PieceOf(size, PartSize(host, server[attempt].offer), n)
      BY <1>p DEF Parts, Prepared
    <2>3. ASSUME NEW r \in net'
          PROVE  /\ r.kind = "part" =>
                        /\ r.part \in Parts
                        /\ r.piece = PieceOf(size, PartSize(host, server[r.attempt].offer), r.part)
                 /\ r.kind = "put" => r.piece = [from |-> 0, len |-> size]
                 /\ r.kind = "complete" =>
                        /\ r.part \in Parts
                        /\ host \in {"mocha", "zincdrive"} =>
                              r.part * PartSize(host, server[r.attempt].offer) >= size
                        /\ host = "storageto" => server[r.attempt].offer.multipart
                        /\ host = "vikingfile" => r.part = server[r.attempt].offer.count
      <3>1. CASE r = new
        BY <1>2, <2>2, <3>1 DEF Prepared
      <3>2. CASE r # new
        BY <1>0, <1>1, <3>2 DEF CallsCarryTheirPiece
      <3> QED
        BY <3>1, <3>2
    <2> QED
      BY <1>1, <2>3 DEF CallsCarryTheirPiece
  <1>12. PiecesFit' /\ StoredFilesAreInOrder'
    BY <1>0, <1>1 DEF PiecesFit, StoredFilesAreInOrder, Stored, Covers
  <1>13. FailuresAreGivenUp'
    <2>1. \A a \in Attempts : FailedAt(a)' = FailedAt(a)
      BY <1>1 DEF FailedAt
    <2>2. UNCHANGED <<host, server, attempt>> /\ net \subseteq net' /\ pc # "failed"
      BY <1>1 DEF Calls
    <2>3. ASSUME NEW a \in Attempts, \E r \in net : r.attempt = a /\ r.kind = "abort"
          PROVE  \E r \in net' : r.attempt = a /\ r.kind = "abort"
      BY <2>2, <2>3
    <2> QED
      BY ONLY <1>0, <2>1, <2>2, <2>3 DEF FailuresAreGivenUp
  <1> QED
    BY <1>3, <1>4, <1>5, <1>6, <1>7, <1>8, <1>9, <1>10, <1>11, <1>12, <1>13 DEF IndInv

\* Upload returns: the attempt has its outcome, which is a success only when the
\* session is published, and a failure of a service that cleans up leaves none open.
LEMMA EndStep ==
    ASSUME IndInv, UNCHANGED <<inputs, cancelled, attempt, server>>,
           pc \in Calls \cup {"start"}, pc # "abort",
           NEW why \in Outcomes, NEW state \in {"failed", "ok"}, End(why, state),
           offer' \in Offers[host] \cup {None}, urls' \in SUBSET Parts,
           state = "ok" => /\ pc \in Commits /\ server[attempt].state = "published"
                           /\ why = "ok" \/ host \in LinksUnchecked,
           pc \notin {"start", "init"} /\ why # "ok" /\ server[attempt].state = "open"
               => host # "mocha" /\ (host = "storageto" => ~server[attempt].offer.multipart)
    PROVE  IndInv'
  <1> USE ConstantFacts DEF inputs
  <1>0. /\ TypeOK /\ OneAfterAnother /\ OpenedOnce /\ CallsFit /\ CommitsAreReached
        /\ AnswersAreTrue /\ LoopsFit /\ ReaderFits /\ CallsCarryTheirPiece /\ PiecesFit
        /\ FailuresAreGivenUp /\ StoredFilesAreInOrder /\ SuccessIsPublished
    BY DEF IndInv
  <1> DEFINE e == [why |-> why, at |-> pc]
  <1>1. /\ outcome' = [outcome EXCEPT ![attempt] = e] /\ pc' = state /\ answer' = None
        /\ UNCHANGED <<host, size, badOptions, cancelled, attempt, server, part, net, offset>>
    BY DEF End
  <1>2. /\ e \in [why : Outcomes, at : Calls \cup {"start"}] /\ e # None
        /\ e.why = why /\ e.at = pc /\ attempt \in Attempts
        /\ outcome \in [Attempts -> [why : Outcomes, at : Calls \cup {"start"}] \cup {None}]
    BY <1>0 DEF TypeOK
  <1> HIDE DEF e
  <1>3. /\ outcome' \in [Attempts -> [why : Outcomes, at : Calls \cup {"start"}] \cup {None}]
        /\ outcome'[attempt] = e /\ \A a \in Attempts : a # attempt => outcome'[a] = outcome[a]
    BY <1>1, <1>2
  <1>4. TypeOK'
    BY <1>0, <1>1, <1>3 DEF TypeOK
  <1>5. OneAfterAnother'
    <2>1. Ended' /\ pc' # "start" /\ outcome'[attempt] # None
      BY <1>1, <1>2, <1>3 DEF Ended
    <2> QED
      BY <1>0, <1>1, <1>2, <1>3, <2>1 DEF OneAfterAnother
  <1>6. OpenedOnce'
    <2>1. ASSUME NEW r \in net, r.kind \in {"init", "sign"}
          PROVE  /\ outcome'[r.attempt] # None => outcome'[r.attempt].at = r.kind
                 /\ r.attempt = attempt => pc' = "failed"
      <3>1. r.attempt \in Attempts
        BY <1>0 DEF TypeOK, Request
      <3>2. r.attempt = attempt => pc = r.kind
        BY <1>0, <2>1 DEF OpenedOnce, Calls
      <3>3. pc = r.kind => state = "failed"
        BY <2>1 DEF Commits
      <3> QED
        BY <1>0, <1>1, <1>2, <1>3, <2>1, <3>1, <3>2, <3>3 DEF OpenedOnce
    <2> QED
      BY <1>0, <1>1, <2>1 DEF OpenedOnce
  <1>7. CallsFit'
    BY <1>0, <1>1 DEF CallsFit
  <1>8. CommitsAreReached'
    <2>1. \A a \in Attempts : Committed(a) => Committed(a)'
      BY <1>0, <1>1, <1>2, <1>3 DEF Committed, OneAfterAnother, Ended, Calls
    <2>2. \A r \in net : r.attempt \in Attempts
      BY <1>0 DEF TypeOK, Request
    <2> QED
      BY <1>0, <1>1, <2>1, <2>2 DEF CommitsAreReached, Stored
  <1>9. AnswersAreTrue'
    BY <1>1 DEF AnswersAreTrue
  <1>10. LoopsFit' /\ ReaderFits'
    BY <1>1 DEF LoopsFit, ReaderFits
  <1>11. CallsCarryTheirPiece'
    BY <1>0, <1>1 DEF CallsCarryTheirPiece
  <1>12. PiecesFit' /\ StoredFilesAreInOrder'
    BY <1>0, <1>1 DEF PiecesFit, StoredFilesAreInOrder, Stored, Covers
  <1>13. FailuresAreGivenUp'
    <2>1. \A a \in Attempts : a # attempt => FailedAt(a)' = FailedAt(a)
      BY <1>3 DEF FailedAt
    <2>2. FailedAt(attempt)' = IF why \in {"ok", "linkless"} THEN "none" ELSE pc
      BY <1>1, <1>2, <1>3 DEF FailedAt
    <2>3. ASSUME FailedAt(attempt)' \notin {"none", "start", "init"}, server[attempt].state = "open"
          PROVE  host # "mocha" /\ (host = "storageto" => ~server[attempt].offer.multipart)
      BY <2>2, <2>3
    <2> QED
      BY ONLY <1>0, <1>1, <2>1, <2>3 DEF FailuresAreGivenUp
  <1>14. SuccessIsPublished'
    BY <1>1, <1>2, <1>3 DEF SuccessIsPublished
  <1> QED
    BY <1>4, <1>5, <1>6, <1>7, <1>8, <1>9, <1>10, <1>11, <1>12, <1>13, <1>14 DEF IndInv

\* Upload fails and gives its session up.
LEMMA AbortStep ==
    ASSUME IndInv, UNCHANGED <<inputs, cancelled, attempt, server>>,
           pc \in Calls \ {"abort", "sign"}, pc = "init" => answer # None,
           NEW why \in Outcomes, FailAndAbort(why),
           offer' \in Offers[host] \cup {None}, urls' \in SUBSET Parts
    PROVE  IndInv'
  <1> USE ConstantFacts DEF inputs
  <1>0. /\ TypeOK /\ OneAfterAnother /\ OpenedOnce /\ CallsFit /\ CommitsAreReached
        /\ AnswersAreTrue /\ LoopsFit /\ ReaderFits /\ CallsCarryTheirPiece /\ PiecesFit
        /\ FailuresAreGivenUp /\ StoredFilesAreInOrder /\ SuccessIsPublished
    BY DEF IndInv
  <1> DEFINE e == [why |-> why, at |-> pc]
             new == [kind |-> "abort", attempt |-> attempt, part |-> part, piece |-> None, wants |-> {}]
  <1>1. /\ outcome' = [outcome EXCEPT ![attempt] = e] /\ pc' = "abort" /\ answer' = None
        /\ net' = net \cup {new}
        /\ UNCHANGED <<host, size, badOptions, cancelled, attempt, server, part, offset>>
    BY DEF FailAndAbort
  <1>2. /\ e \in [why : Outcomes, at : Calls \cup {"start"}] /\ e # None
        /\ e.why = why /\ e.at = pc /\ attempt \in Attempts
        /\ outcome \in [Attempts -> [why : Outcomes, at : Calls \cup {"start"}] \cup {None}]
        /\ new \in Request /\ new.kind = "abort" /\ new.attempt = attempt
    BY <1>0 DEF TypeOK, Request, Calls
  <1> HIDE DEF e, new
  <1>3. /\ outcome' \in [Attempts -> [why : Outcomes, at : Calls \cup {"start"}] \cup {None}]
        /\ outcome'[attempt] = e /\ \A a \in Attempts : a # attempt => outcome'[a] = outcome[a]
    BY <1>1, <1>2
  <1>4. TypeOK'
    BY <1>0, <1>1, <1>2, <1>3 DEF TypeOK, Calls
  <1>5. OneAfterAnother'
    <2>1. Ended' /\ pc' # "start" /\ outcome'[attempt] # None
      BY <1>1, <1>2, <1>3 DEF Ended
    <2>2. \A r \in net' : r.attempt <= attempt
      BY <1>0, <1>1, <1>2 DEF OneAfterAnother
    <2> QED
      BY <1>0, <1>1, <1>2, <1>3, <2>1, <2>2 DEF OneAfterAnother
  <1>6. OpenedOnce'
    <2>1. ASSUME NEW r \in net, r.kind \in {"init", "sign"}
          PROVE  r.attempt \in Attempts /\ r.attempt # attempt
      <3>1. r.attempt \in Attempts
        BY <1>0 DEF TypeOK, Request
      <3>2. r.attempt # attempt
        BY <1>0, <2>1 DEF OpenedOnce, Calls
      <3> QED
        BY <3>1, <3>2
    <2> QED
      BY <1>0, <1>1, <1>2, <1>3, <2>1 DEF OpenedOnce
  <1>7. CallsFit'
    BY <1>0, <1>1, <1>2 DEF CallsFit
  <1>8. CommitsAreReached'
    <2>1. \A a \in Attempts : Committed(a) => Committed(a)'
      BY <1>0, <1>1, <1>2, <1>3 DEF Committed, OneAfterAnother, Ended, Calls
    <2>2. \A r \in net : r.attempt \in Attempts
      BY <1>0 DEF TypeOK, Request
    <2> QED
      BY <1>0, <1>1, <1>2, <2>1, <2>2 DEF CommitsAreReached, Stored, Commits
  <1>9. AnswersAreTrue'
    BY <1>1 DEF AnswersAreTrue
  <1>10. LoopsFit' /\ ReaderFits'
    BY <1>1 DEF LoopsFit, ReaderFits
  <1>11. CallsCarryTheirPiece'
    BY <1>0, <1>1, <1>2 DEF CallsCarryTheirPiece
  <1>12. PiecesFit' /\ StoredFilesAreInOrder'
    BY <1>0, <1>1 DEF PiecesFit, StoredFilesAreInOrder, Stored, Covers
  <1>13. FailuresAreGivenUp'
    <2>1. \A a \in Attempts : a # attempt => FailedAt(a)' = FailedAt(a)
      BY <1>3 DEF FailedAt
    <2>2. \E r \in net' : r.attempt = attempt /\ r.kind = "abort"
      BY <1>1, <1>2
    <2> QED
      BY <1>0, <1>1, <2>1, <2>2 DEF FailuresAreGivenUp
  <1>14. SuccessIsPublished'
    BY <1>1 DEF SuccessIsPublished
  <1> QED
    BY <1>4, <1>5, <1>6, <1>7, <1>8, <1>9, <1>10, <1>11, <1>12, <1>13, <1>14 DEF IndInv

\* The clean-up is over, the uploader tries again, or Ctrl+C is pressed.
LEMMA AroundStep ==
    ASSUME IndInv, UNCHANGED <<inputs, server>>,
           \/ AbortReturns /\ UNCHANGED <<cancelled, attempt>>
           \/ Retry /\ UNCHANGED cancelled
           \/ Cancel
           \/ UNCHANGED vars
    PROVE  IndInv'
  <1> USE ConstantFacts DEF inputs, clientVars, vars
  <1>0. /\ TypeOK /\ OneAfterAnother /\ OpenedOnce /\ CallsFit /\ CommitsAreReached
        /\ AnswersAreTrue /\ LoopsFit /\ ReaderFits /\ CallsCarryTheirPiece /\ PiecesFit
        /\ FailuresAreGivenUp /\ StoredFilesAreInOrder /\ SuccessIsPublished
    BY DEF IndInv
  <1>1. UNCHANGED <<host, size, badOptions, server, outcome, net>>
    BY DEF AbortReturns, Retry, Cancel
  <1>2. /\ \A r \in net : r.attempt \in Attempts
        /\ attempt \in Attempts
    BY <1>0 DEF TypeOK, Request
  <1>3. CallsCarryTheirPiece' /\ PiecesFit' /\ StoredFilesAreInOrder'
    BY <1>0, <1>1 DEF CallsCarryTheirPiece, PiecesFit, StoredFilesAreInOrder, Stored, Covers
  <1>4. FailuresAreGivenUp'
    <2>1. \A a \in Attempts : FailedAt(a)' = FailedAt(a)
      BY <1>1 DEF FailedAt
    <2> QED
      BY <1>0, <1>1, <2>1 DEF FailuresAreGivenUp
  <1>5. CASE AbortReturns /\ UNCHANGED <<cancelled, attempt>>
    <2>1. /\ pc = "abort" /\ pc' = "failed" /\ answer' = None
          /\ UNCHANGED <<cancelled, attempt, offer, part, urls, offset>>
      BY <1>5 DEF AbortReturns
    <2>2. TypeOK' /\ OneAfterAnother' /\ OpenedOnce' /\ CallsFit'
      BY <1>0, <1>1, <2>1 DEF TypeOK, OneAfterAnother, Ended, OpenedOnce, CallsFit
    <2>3. CommitsAreReached'
      BY <1>0, <1>1, <1>2, <2>1 DEF CommitsAreReached, Committed, Stored, Commits
    <2>4. AnswersAreTrue' /\ LoopsFit' /\ ReaderFits' /\ SuccessIsPublished'
      BY <2>1 DEF AnswersAreTrue, LoopsFit, ReaderFits, SuccessIsPublished
    <2> QED
      BY <1>3, <1>4, <2>2, <2>3, <2>4 DEF IndInv
  <1>6. CASE Retry /\ UNCHANGED cancelled
    <2>1. /\ pc = "failed" /\ pc' = "start" /\ attempt < MaxAttempts /\ attempt' = attempt + 1
          /\ offer' = None /\ part' = 0 /\ urls' = {} /\ offset' = 0
          /\ UNCHANGED <<cancelled, answer>>
      BY <1>6 DEF Retry
    <2>2. attempt' \in Attempts
      BY <1>2, <2>1 DEF Attempts
    <2>0. \A r \in net : r.attempt <= attempt' /\ r.attempt # attempt'
      <3> SUFFICES ASSUME NEW r \in net PROVE r.attempt <= attempt' /\ r.attempt # attempt'
        OBVIOUS
      <3>1. r.attempt \in Nat /\ attempt \in Nat
        BY <1>2
      <3>2. r.attempt <= attempt
        BY <1>0 DEF OneAfterAnother
      <3> QED
        BY ONLY <2>1, <3>1, <3>2
    <2>3. TypeOK'
      BY <1>0, <1>1, <2>1, <2>2 DEF TypeOK
    <2>4. OneAfterAnother'
      <3>1. outcome[attempt] # None
        BY <1>0, <2>1 DEF OneAfterAnother, Ended
      <3>2. ~Ended'
        BY <2>1 DEF Ended
      <3>4. \A a \in Attempts : a > attempt + 1 => a > attempt
        BY <1>2
      <3>5. \A a \in Attempts : a < attempt + 1 => a < attempt \/ a = attempt
        BY <1>2
      <3>6. attempt' > attempt
        BY <1>2, <2>1
      <3>7. \A r \in net : r.attempt <= attempt' /\ r.attempt # attempt'
        BY <2>0
      <3> QED
        BY <1>0, <1>1, <2>1, <2>2, <3>1, <3>2, <3>4, <3>5, <3>6, <3>7 DEF OneAfterAnother
    <2>5. OpenedOnce'
      BY <1>0, <1>1, <2>0 DEF OpenedOnce
    <2>6. CallsFit'
      BY <1>0, <1>1, <2>1 DEF CallsFit
    <2>7. CommitsAreReached'
      BY <1>0, <1>1, <1>2, <2>1 DEF CommitsAreReached, Committed, Stored, Commits
    <2>8. AnswersAreTrue' /\ LoopsFit' /\ ReaderFits' /\ SuccessIsPublished'
      BY <2>1 DEF AnswersAreTrue, LoopsFit, ReaderFits, SuccessIsPublished, Commits
    <2> QED
      BY <1>3, <1>4, <2>3, <2>4, <2>5, <2>6, <2>7, <2>8 DEF IndInv
  <1>7. CASE Cancel \/ UNCHANGED vars
    <2>1. UNCHANGED <<attempt, pc, offer, part, urls, offset, answer>> /\ cancelled' \in BOOLEAN
      BY <1>0, <1>7 DEF Cancel, TypeOK
    <2>2. TypeOK' /\ OneAfterAnother' /\ OpenedOnce' /\ CallsFit'
      BY <1>0, <1>1, <2>1 DEF TypeOK, OneAfterAnother, Ended, OpenedOnce, CallsFit
    <2>3. CommitsAreReached'
      BY <1>0, <1>1, <1>2, <2>1 DEF CommitsAreReached, Committed, Stored, Commits
    <2>4. AnswersAreTrue' /\ LoopsFit' /\ ReaderFits' /\ SuccessIsPublished'
      BY <1>0, <1>1, <2>1 DEF AnswersAreTrue, LoopsFit, ReaderFits, SuccessIsPublished, Stored, Commits
    <2> QED
      BY <1>3, <1>4, <2>2, <2>3, <2>4 DEF IndInv
  <1> QED
    BY <1>5, <1>6, <1>7

-----------------------------------------------------------------------------
(* The steps of the server.                                                *)

\* The session of r after the server handled it, and the answer to r, agree with
\* the invariant.
Handled(r, status, o, sess) ==
    /\ sess.state # "none" /\ host \notin LinksAtOnce => sess.offer \in Offers[host]
    /\ r.kind \notin {"init", "sign"} =>
          /\ sess.offer = server[r.attempt].offer
          /\ sess.state = "open" => server[r.attempt].state = "open"
          /\ server[r.attempt].refused => sess.refused
    /\ r.kind = "abort" => sess.state # "open" \/ sess.refused
    /\ sess.state = "open" =>
          \A n \in Parts : sess.pieces[n] # None =>
              sess.pieces[n] = PieceOf(size, PartSize(host, sess.offer), n)
    /\ sess.state \in {"stored", "published"} =>
          Committed(r.attempt) /\ sess.count \in Parts /\ InOrder(sess)
    /\ Stored(r.attempt) => sess.state \in {"stored", "published"}
    /\ server[r.attempt].state = "published" => sess.state = "published"
    /\ status \in {"ok", "linkless"} =>
          /\ r.kind \in {"init", "sign"} => o \in Offers[host] /\ sess.offer = o
          /\ r.kind \in Commits => sess.state \in {"stored", "published"}
          /\ r.kind = "publish" => sess.state = "published"
          /\ r.kind = "put" /\ host \in LinksAtOnce => sess.state = "published"
          /\ r.kind = "complete" /\ host = "vikingfile" => sess.state = "published"

\* The server handles call r, and leaves the session of r as sess.
LEMMA ReplyStep ==
    ASSUME IndInv, UNCHANGED <<inputs, cancelled, clientVars>>,
           NEW r \in net, NEW status \in Statuses, NEW o, NEW numbers \in SUBSET Parts,
           Reply(r, status, o, numbers),
           NEW sess \in Session, server' = [server EXCEPT ![r.attempt] = sess],
           Handled(r, status, o, sess)
    PROVE  IndInv'
  <1> USE ConstantFacts DEF inputs, clientVars, Handled
  <1>0. /\ TypeOK /\ OneAfterAnother /\ OpenedOnce /\ CallsFit /\ CommitsAreReached
        /\ AnswersAreTrue /\ LoopsFit /\ ReaderFits /\ CallsCarryTheirPiece /\ PiecesFit
        /\ FailuresAreGivenUp /\ StoredFilesAreInOrder /\ SuccessIsPublished
    BY DEF IndInv
  <1> DEFINE new == [status |-> status, offer |-> o, numbers |-> numbers]
  <1>1. /\ UNCHANGED <<host, size, badOptions, cancelled, attempt, pc, offer, part, urls, offset, outcome>>
        /\ net' = net \ {r}
        /\ answer' = IF IsAwaited(r) THEN new ELSE answer
    BY DEF Reply
  <1>2. /\ r \in Request /\ r.attempt \in Attempts /\ attempt \in Attempts
        /\ server \in [Attempts -> Session] /\ new.status = status /\ new.offer = o /\ new.numbers = numbers
    BY <1>0 DEF TypeOK, Request
  <1> HIDE DEF new
  <1>3. /\ server' \in [Attempts -> Session] /\ server'[r.attempt] = sess
        /\ \A a \in Attempts : a # r.attempt => server'[a] = server[a]
    BY <1>2
  <1>4. TypeOK'
    <2>1. answer' = None \/ (answer'.status \in Statuses /\ answer'.numbers \subseteq Parts)
      BY <1>0, <1>1, <1>2 DEF TypeOK
    <2> QED
      BY <1>0, <1>1, <1>3, <2>1 DEF TypeOK
  <1>5. OneAfterAnother'
    <2>1. r.attempt <= attempt /\ (pc = "start" => r.attempt # attempt)
      BY <1>0 DEF OneAfterAnother
    <2>2. \A a \in Attempts : a > attempt => a # r.attempt
      BY <1>2, <2>1
    <2> QED
      BY <1>0, <1>1, <1>2, <1>3, <2>1, <2>2 DEF OneAfterAnother, Ended
  <1>6. OpenedOnce'
    <2>1. ASSUME NEW q \in net', q.kind \in {"init", "sign"}
          PROVE  /\ q \in net /\ q.attempt \in Attempts /\ q.attempt # r.attempt
                 /\ q.attempt = attempt => pc = "failed" \/ (pc = q.kind /\ answer' = None)
      <3>1. q \in net /\ q # r /\ q.attempt \in Attempts
        BY <1>0, <1>1 DEF TypeOK, Request
      <3>2. q.attempt # r.attempt
        BY <1>0, <2>1, <3>1 DEF OpenedOnce
      <3>3. q.attempt = attempt => ~IsAwaited(r)
        BY <3>2 DEF IsAwaited
      <3> QED
        BY <1>0, <1>1, <2>1, <3>1, <3>2, <3>3 DEF OpenedOnce
    <2> QED
      BY <1>0, <1>1, <1>3, <2>1 DEF OpenedOnce
  <1>7. CallsFit'
    BY <1>0, <1>1 DEF CallsFit
  <1>8. CommitsAreReached'
    <2>1. \A a \in Attempts : Committed(a)' = Committed(a)
      BY <1>1 DEF Committed
    <2>2. \A q \in net : q.attempt \in Attempts
      BY <1>0 DEF TypeOK, Request
    <2> QED
      BY <1>0, <1>1, <1>2, <1>3, <2>1, <2>2 DEF CommitsAreReached, Stored
  <1>i. r.kind \in {"init", "sign"} /\ r.attempt = attempt =>
            pc = "failed" \/ (pc = r.kind /\ answer = None)
    BY <1>0 DEF OpenedOnce
  <1>9. AnswersAreTrue'
    <2>1. CASE IsAwaited(r)
      BY <1>1, <1>2, <1>3, <2>1 DEF AnswersAreTrue, IsAwaited, Stored
    <2>2. CASE ~IsAwaited(r)
      <3>1. CASE r.attempt = attempt
        <4>1. answer' = answer
          BY <1>1, <2>2
        <4>2. answer # None /\ pc # "failed" => sess.offer = server[attempt].offer
          BY <1>i, <3>1
        <4>3. CASE pc = "failed"
          BY <1>1, <4>3 DEF AnswersAreTrue, Commits
        <4>4. CASE pc # "failed"
          BY <1>0, <1>1, <1>3, <3>1, <4>1, <4>2, <4>4 DEF AnswersAreTrue, Stored
        <4> QED
          BY <4>3, <4>4
      <3>2. CASE r.attempt # attempt
        BY <1>0, <1>1, <1>2, <1>3, <2>2, <3>2 DEF AnswersAreTrue, Stored
      <3> QED
        BY <3>1, <3>2
    <2> QED
      BY <2>1, <2>2
  <1>10. LoopsFit'
    <2>1. pc \in {"put", "urls", "part"} => server'[attempt].offer = server[attempt].offer
      BY <1>i, <1>2, <1>3
    <2>2. Stored(attempt) => Stored(attempt)'
      BY <1>1, <1>2, <1>3 DEF Stored
    <2> QED
      BY <1>0, <1>1, <2>1, <2>2 DEF LoopsFit
  <1>11. ReaderFits'
    BY <1>0, <1>1 DEF ReaderFits
  <1>12. CallsCarryTheirPiece'
    <2>1. ASSUME NEW q \in net' PROVE q \in net /\ server'[q.attempt].offer = server[q.attempt].offer
      <3>1. q \in net /\ q # r /\ q.attempt \in Attempts
        BY <1>0, <1>1 DEF TypeOK, Request
      <3>2. r.kind \in {"init", "sign"} => q.attempt # r.attempt
        BY <1>0, <3>1 DEF OpenedOnce
      <3> QED
        BY <1>3, <3>1, <3>2
    <2> QED
      BY <1>0, <1>1, <2>1 DEF CallsCarryTheirPiece
  <1>13. PiecesFit'
    BY <1>0, <1>1, <1>3 DEF PiecesFit, Stored
  <1>14. StoredFilesAreInOrder'
    <2>1. \A a \in Attempts : a # r.attempt /\ Stored(a) => InOrder(server[a])
      BY <1>0 DEF StoredFilesAreInOrder, InOrder
    <2> QED
      BY <1>1, <1>3, <2>1 DEF StoredFilesAreInOrder, InOrder, Stored, Covers
  <1>15. FailuresAreGivenUp'
    <2>1. \A a \in Attempts : FailedAt(a)' = FailedAt(a)
      BY <1>1 DEF FailedAt
    <2>2. ASSUME NEW a \in Attempts, a # r.attempt,
                 \E q \in net : q.attempt = a /\ q.kind = "abort"
          PROVE  \E q \in net' : q.attempt = a /\ q.kind = "abort"
      BY <1>1, <2>2
    <2>3. ASSUME r.kind # "abort", \E q \in net : q.attempt = r.attempt /\ q.kind = "abort"
          PROVE  \E q \in net' : q.attempt = r.attempt /\ q.kind = "abort"
      BY <1>1, <2>3
    <2>4. r.kind \in {"init", "sign"} => FailedAt(r.attempt) \in {"none", "init", "sign"}
      BY <1>0 DEF OpenedOnce, FailedAt
    <2>5. host \in {"mocha", "storageto"} => r.kind # "sign"
      BY <1>0 DEF CallsFit, CallsOf
    <2>6. CASE r.kind \in {"init", "sign"}
      <3>1. host \in {"mocha", "storageto"} => FailedAt(r.attempt) \in {"none", "init"}
        BY <1>0, <2>5, <2>6 DEF OpenedOnce, FailedAt
      <3> QED
        BY <1>0, <1>1, <1>3, <2>1, <2>2, <3>1 DEF FailuresAreGivenUp
    <2>7. CASE r.kind \notin {"init", "sign"}
      BY <1>0, <1>1, <1>3, <2>1, <2>2, <2>3, <2>7 DEF FailuresAreGivenUp
    <2> QED
      BY <2>6, <2>7
  <1>16. SuccessIsPublished'
    BY <1>0, <1>1, <1>2, <1>3 DEF SuccessIsPublished
  <1> QED
    BY <1>4, <1>5, <1>6, <1>7, <1>8, <1>9, <1>10, <1>11, <1>12, <1>13, <1>14, <1>15, <1>16 DEF IndInv

\* A session under the server's hands is one of an attempt, and of its type.
LEMMA SessionFacts ==
    ASSUME IndInv, NEW r \in net
    PROVE  /\ r \in Request /\ r.attempt \in Attempts
           /\ server \in [Attempts -> Session] /\ server[r.attempt] \in Session
           /\ host \in Hosts /\ size \in Sizes /\ size \in Nat
  BY ConstantFacts DEF IndInv, TypeOK, Request

\* The server leaves the session alone: it turns the call down, signs URLs, or
\* has nothing to abort.
LEMMA SameSession ==
    ASSUME IndInv, UNCHANGED <<inputs, cancelled, clientVars>>, UNCHANGED server,
           NEW r \in net, NEW status \in Statuses, NEW numbers \in SUBSET Parts,
           Reply(r, status, None, numbers),
           r.kind = "abort" => ~IsOpen(r),
           status \in {"ok", "linkless"} => r.kind \notin {"init", "sign"} \cup Commits
    PROVE  IndInv'
  <1>0. /\ TypeOK /\ OneAfterAnother /\ OpenedOnce /\ CommitsAreReached
        /\ PiecesFit /\ StoredFilesAreInOrder
    BY DEF IndInv
  <1> DEFINE sess == server[r.attempt]
  <1>1. r.attempt \in Attempts /\ sess \in Session /\ server' = [server EXCEPT ![r.attempt] = sess]
    BY SessionFacts
  <1>2. sess.state # "none" /\ host \notin LinksAtOnce => sess.offer \in Offers[host]
    BY <1>0, <1>1 DEF PiecesFit
  <1>3. sess.state = "open" =>
            \A n \in Parts : sess.pieces[n] # None =>
                sess.pieces[n] = PieceOf(size, PartSize(host, sess.offer), n)
    BY <1>0, <1>1 DEF PiecesFit
  <1>4. sess.state \in {"stored", "published"} =>
            Committed(r.attempt) /\ sess.count \in Parts /\ InOrder(sess)
    BY <1>0, <1>1 DEF PiecesFit, CommitsAreReached, StoredFilesAreInOrder, Stored, InOrder
  <1>5. Handled(r, status, None, sess)
    BY <1>2, <1>3, <1>4 DEF IsOpen, Stored, Handled, Commits
  <1> QED
    BY <1>1, <1>5, ReplyStep

\* The server opens a session.
LEMMA OpenStep ==
    ASSUME IndInv, UNCHANGED <<inputs, cancelled, clientVars>>, NEW r \in net, OpenSession(r)
    PROVE  IndInv'
  <1>1. PICK o \in Offers[host], status \in {"ok", "unusable"} :
            /\ Reply(r, status, o, {})
            /\ server' = [server EXCEPT ![r.attempt] =
                   [NoSession EXCEPT !.state = "open", !.offer = o]]
    BY DEF OpenSession
  <1> DEFINE sess == [NoSession EXCEPT !.state = "open", !.offer = o]
  <1>2. /\ sess.state = "open" /\ sess.offer = o
        /\ \A n \in Parts : sess.pieces[n] = None
    BY DEF NoSession
  <1>3. sess \in Session
    <2>1. host \in Hosts
      BY SessionFacts
    <2>2. o \in (UNION {Offers[h] : h \in Hosts}) \cup {None}
      BY <2>1
    <2>3. NoSession.pieces \in [Parts -> Piece \cup {None}] /\ 0 \in 0..MaxParts
      BY ConstantFacts DEF NoSession
    <2> DEFINE ps == NoSession.pieces
    <2>4. NoSession = [state |-> "none", offer |-> None, pieces |-> ps, count |-> 0, refused |-> FALSE]
      BY DEF NoSession
    <2>5. ps \in [Parts -> Piece \cup {None}] /\ 0 \in 0..MaxParts
      BY <2>3
    <2>6. None \in (UNION {Offers[h] : h \in Hosts}) \cup {None}
      OBVIOUS
    <2> HIDE DEF ps
    <2>7. NoSession \in Session
      BY ONLY <2>4, <2>5, <2>6 DEF Session
    <2> QED
      BY <2>2, <2>7 DEF Session
  <1>4. r.kind \in {"init", "sign"} /\ server[r.attempt] = NoSession
    BY DEF OpenSession, IndInv, OpenedOnce
  <1>5. server[r.attempt].state = "none"
    BY <1>4 DEF NoSession
  <1>6. server' = [server EXCEPT ![r.attempt] = sess]
    BY <1>1
  <1>7. {} \in SUBSET Parts /\ status \in Statuses
    BY DEF Statuses
  <1> HIDE DEF sess
  <1>8. Handled(r, status, o, sess)
    BY <1>2, <1>4, <1>5 DEF Stored, Commits, Handled
  <1> QED
    BY <1>1, <1>3, <1>6, <1>7, <1>8, ReplyStep

\* The storage keeps a part.
LEMMA PartStep ==
    ASSUME IndInv, UNCHANGED <<inputs, cancelled, clientVars>>, NEW r \in net, StorePart(r)
    PROVE  IndInv'
  <1>1. /\ r.kind = "part" /\ server[r.attempt].state = "open"
        /\ server' = [server EXCEPT ![r.attempt].pieces[r.part] = r.piece]
    BY DEF StorePart, IsOpen
  <1>2. PICK status \in {"ok", "unusable"} : Reply(r, status, None, {})
    BY DEF StorePart
  <1> DEFINE old  == server[r.attempt]
             sess == [old EXCEPT !.pieces = [old.pieces EXCEPT ![r.part] = r.piece]]
  <1>3. /\ r \in Request /\ r.attempt \in Attempts /\ old \in Session
        /\ r.part \in Parts /\ r.piece = PieceOf(size, PartSize(host, old.offer), r.part)
        /\ server \in [Attempts -> Session]
    BY <1>1, SessionFacts DEF IndInv, CallsCarryTheirPiece
  <1>4. r.piece \in Piece \cup {None}
    BY <1>3 DEF Request
  <1>5. server' = [server EXCEPT ![r.attempt] = sess]
    BY <1>1, <1>3 DEF Session
  <1>6. /\ sess \in Session /\ sess.state = "open" /\ sess.offer = old.offer
        /\ sess.refused = old.refused
        /\ \A n \in Parts : sess.pieces[n] = IF n = r.part THEN r.piece ELSE old.pieces[n]
    BY <1>1, <1>3, <1>4 DEF Session
  <1>7. host \notin LinksAtOnce => old.offer \in Offers[host]
    BY <1>1, <1>3 DEF IndInv, PiecesFit
  <1>8. \A n \in Parts : sess.pieces[n] # None =>
            sess.pieces[n] = PieceOf(size, PartSize(host, sess.offer), n)
    BY <1>1, <1>3, <1>6 DEF IndInv, PiecesFit
  <1>9. {} \in SUBSET Parts /\ status \in Statuses
    BY DEF Statuses
  <1> HIDE DEF sess
  <1>10. Handled(r, status, None, sess)
    BY <1>1, <1>6, <1>7, <1>8 DEF Stored, Commits, Handled
  <1> QED
    BY <1>2, <1>5, <1>6, <1>9, <1>10, ReplyStep

\* The pieces of a session whose first n parts have arrived are in order, and
\* hold the file when n parts of that size do.
LEMMA PiecesInOrder ==
    ASSUME NEW z \in Nat, NEW p \in Nat, NEW n \in Parts, NEW pieces,
           \A k \in 1..n : pieces[k] = PieceOf(z, p, k)
    PROVE  /\ pieces[1].from = 0
           /\ \A k \in 1..(n - 1) : pieces[k + 1].from = pieces[k].from + pieces[k].len
           /\ n * p >= z => pieces[n].from + pieces[n].len = z
  <1>1. n \in Nat \ {0}
    BY ConstantFacts
  <1>2. \A k \in 1..n : /\ pieces[k].from = Before(z, p, k)
                        /\ pieces[k].len = Before(z, p, k + 1) - Before(z, p, k)
                        /\ Before(z, p, k) \in Nat /\ Before(z, p, k + 1) \in Nat
    <2> SUFFICES ASSUME NEW k \in 1..n
                 PROVE  /\ pieces[k].from = Before(z, p, k)
                        /\ pieces[k].len = Before(z, p, k + 1) - Before(z, p, k)
                        /\ Before(z, p, k) \in Nat /\ Before(z, p, k + 1) \in Nat
      OBVIOUS
    <2>1. k \in Nat \ {0}
      BY <1>1
    <2>2. Before(z, p, k) \in 0..z /\ Before(z, p, k + 1) \in 0..z
      BY <2>1, BeforeFacts
    <2>3. pieces[k] = PieceOf(z, p, k)
      OBVIOUS
    <2> QED
      BY <2>2, <2>3 DEF PieceOf
  <1>3. pieces[1].from = 0
    <2>1. Before(z, p, 1) = 0 /\ 1 \in 1..n
      BY <1>1, BeforeFacts
    <2> QED
      BY <1>2, <2>1
  <1>4. ASSUME NEW k \in 1..(n - 1)
        PROVE  pieces[k + 1].from = pieces[k].from + pieces[k].len
    <2>1. k \in 1..n /\ k + 1 \in 1..n
      BY <1>1
    <2> QED
      BY <1>2, <2>1
  <1>5. n * p >= z => pieces[n].from + pieces[n].len = z
    <2>1. n \in 1..n
      BY <1>1
    <2>2. n * p >= z => Before(z, p, n + 1) = z
      BY <1>1, BeforeFacts
    <2> QED
      BY <1>2, <2>1, <2>2
  <1> QED
    BY <1>3, <1>4, <1>5

\* The storage or the service keeps the whole file.
LEMMA ObjectStep ==
    ASSUME IndInv, UNCHANGED <<inputs, cancelled, clientVars>>, NEW r \in net, StoreObject(r)
    PROVE  IndInv'
  <1> DEFINE old    == server[r.attempt]
             pieces == [old.pieces EXCEPT ![1] = r.piece]
             linked == host \in LinksAtOnce
             sess   == Object(old, pieces, 1, "put")
  <1>1. /\ r.kind = "put" /\ (old.state = "open" \/ linked)
        /\ server' = [server EXCEPT ![r.attempt] = sess]
    BY DEF StoreObject, IsOpen
  <1>2. PICK status \in {"ok", "linkless", "transient", "unusable"} : Reply(r, status, None, {})
    BY DEF StoreObject, Flaws
  <1>3. /\ r \in Request /\ r.attempt \in Attempts /\ old \in Session
        /\ size \in Nat /\ r.piece = [from |-> 0, len |-> size] /\ 1 \in Parts
    BY <1>1, SessionFacts, ConstantFacts DEF IndInv, CallsCarryTheirPiece
  <1>4. pieces \in [Parts -> Piece \cup {None}] /\ pieces[1] = [from |-> 0, len |-> size]
    BY <1>3 DEF Session, Request
  <1> HIDE DEF pieces
  <1>5. /\ sess.offer = old.offer /\ sess.pieces = pieces /\ sess.count = 1
        /\ sess.state = IF linked THEN "published" ELSE "stored"
        /\ sess.refused = old.refused
    BY <1>3 DEF Object, BringsLink, Session
  <1>6. sess \in Session
    <2>1. 1 \in 0..MaxParts
      BY <1>3 DEF Parts
    <2> QED
      BY <1>3, <1>4, <2>1 DEF Session, Object
  <1>7. Committed(r.attempt)
    BY <1>1 DEF IndInv, CommitsAreReached, Commits
  <1>8. host \notin LinksAtOnce => old.state = "open" /\ old.offer \in Offers[host]
    BY <1>1, <1>3 DEF IndInv, PiecesFit
  <1> HIDE DEF sess
  <1>9. InOrder(sess)
    BY <1>3, <1>4, <1>5 DEF InOrder
  <1>10. Handled(r, status, None, sess)
    BY <1>1, <1>3, <1>5, <1>7, <1>8, <1>9 DEF Handled, Stored
  <1>11. {} \in SUBSET Parts /\ status \in Statuses
    BY DEF Statuses
  <1> QED
    BY <1>1, <1>2, <1>6, <1>10, <1>11, ReplyStep

\* The parts become an object.
LEMMA CompleteStep ==
    ASSUME IndInv, UNCHANGED <<inputs, cancelled, clientVars>>, NEW r \in net, Complete(r)
    PROVE  IndInv'
  <1> DEFINE old    == server[r.attempt]
             linked == host = "vikingfile"
             sess   == Object(old, old.pieces, r.part, "complete")
  <1>1. /\ r.kind = "complete" /\ old.state = "open"
        /\ \A n \in 1..r.part : old.pieces[n] # None
        /\ server' = [server EXCEPT ![r.attempt] = sess]
    BY DEF Complete, IsOpen
  <1>2. PICK status \in {"ok", "linkless", "transient", "unusable"} : Reply(r, status, None, {})
    BY DEF Complete, Flaws
  <1>3. /\ r \in Request /\ r.attempt \in Attempts /\ old \in Session
        /\ size \in Nat /\ size \in Sizes /\ r.part \in Parts
        /\ host \in {"mocha", "zincdrive"} => r.part * PartSize(host, old.offer) >= size
        /\ host = "vikingfile" => r.part = old.offer.count
        /\ host = "storageto" => old.offer.multipart
    BY <1>1, SessionFacts DEF IndInv, CallsCarryTheirPiece
  <1>4. host \in {"mocha", "storageto", "zincdrive", "vikingfile"} /\ host \notin LinksAtOnce
    BY <1>1, SessionFacts DEF IndInv, CallsFit, CallsOf, Hosts, LinksAtOnce
  <1>5. old.offer \in Offers[host]
    BY <1>1, <1>3, <1>4 DEF IndInv, PiecesFit
  <1>6. PartSize(host, old.offer) \in Nat
    BY <1>3, <1>4, <1>5, OfferFacts DEF Hosts
  <1>7. \A n \in 1..r.part : old.pieces[n] = PieceOf(size, PartSize(host, old.offer), n)
    <2>1. \A n \in 1..r.part : n \in Parts
      BY <1>3, ConstantFacts DEF Parts
    <2> QED
      BY <1>1, <1>3, <2>1 DEF IndInv, PiecesFit
  <1>8. /\ sess.offer = old.offer /\ sess.pieces = old.pieces /\ sess.count = r.part
        /\ sess.state = IF linked THEN "published" ELSE "stored"
        /\ sess.refused = old.refused
    BY <1>3, <1>4 DEF Object, BringsLink, Session
  <1>9. sess \in Session
    <2>1. r.part \in 0..MaxParts
      BY <1>3, ConstantFacts DEF Parts
    <2> QED
      BY <1>3, <2>1 DEF Session, Object
  <1> HIDE DEF sess
  <1>10. InOrder(sess)
    <2>1. /\ old.pieces[1].from = 0
          /\ \A k \in 1..(r.part - 1) : old.pieces[k + 1].from = old.pieces[k].from + old.pieces[k].len
          /\ r.part * PartSize(host, old.offer) >= size =>
                old.pieces[r.part].from + old.pieces[r.part].len = size
      <3> DEFINE ps == old.pieces
                 p  == PartSize(host, old.offer)
                 c  == r.part
      <3>1. size \in Nat /\ p \in Nat /\ c \in Parts /\ \A k \in 1..c : ps[k] = PieceOf(size, p, k)
        BY <1>3, <1>6, <1>7
      <3> HIDE DEF ps, p, c
      <3>2. /\ ps[1].from = 0
            /\ \A k \in 1..(c - 1) : ps[k + 1].from = ps[k].from + ps[k].len
            /\ c * p >= size => ps[c].from + ps[c].len = size
        BY ONLY <3>1, PiecesInOrder
      <3> QED
        BY <3>2 DEF ps, p, c
    <2>2. Covers(old.offer, r.part) => r.part * PartSize(host, old.offer) >= size
      BY <1>3, <1>4 DEF Covers, PartSize
    <2> QED
      BY <1>8, <2>1, <2>2 DEF InOrder
  <1>11. Committed(r.attempt)
    BY <1>1 DEF IndInv, CommitsAreReached, Commits
  <1>12. Handled(r, status, None, sess)
    BY <1>1, <1>3, <1>5, <1>8, <1>10, <1>11 DEF Handled, Stored
  <1>13. {} \in SUBSET Parts /\ status \in Statuses
    BY DEF Statuses
  <1> QED
    BY <1>1, <1>2, <1>9, <1>12, <1>13, ReplyStep

\* The object gets its link.
LEMMA PublishStep ==
    ASSUME IndInv, UNCHANGED <<inputs, cancelled, clientVars>>, NEW r \in net, Publish(r)
    PROVE  IndInv'
  <1> DEFINE old  == server[r.attempt]
             sess == [old EXCEPT !.state = "published"]
  <1>1. r.kind = "publish" /\ old.state \in {"stored", "published"}
    BY DEF Publish
  <1>2. PICK status \in {"ok", "linkless", "transient", "unusable"} : Reply(r, status, None, {})
    BY DEF Publish, Flaws, BringsLink
  <1>3. r \in Request /\ r.attempt \in Attempts /\ old \in Session /\ server \in [Attempts -> Session]
    BY SessionFacts
  <1>4. server' = [server EXCEPT ![r.attempt] = sess]
    BY <1>3 DEF Publish
  <1>5. /\ sess \in Session /\ sess.state = "published" /\ sess.offer = old.offer
        /\ sess.pieces = old.pieces /\ sess.count = old.count /\ sess.refused = old.refused
    BY <1>3 DEF Session
  <1> HIDE DEF sess
  <1>6. Committed(r.attempt) /\ old.count \in Parts /\ InOrder(old)
    BY <1>1, <1>3 DEF IndInv, CommitsAreReached, PiecesFit, StoredFilesAreInOrder, InOrder, Stored
  <1>7. InOrder(sess)
    BY <1>5, <1>6 DEF InOrder
  <1>8. old.state # "none" /\ host \notin LinksAtOnce => old.offer \in Offers[host]
    BY <1>3 DEF IndInv, PiecesFit
  <1>9. Handled(r, status, None, sess)
    BY <1>1, <1>5, <1>6, <1>7, <1>8 DEF Handled
  <1>10. {} \in SUBSET Parts /\ status \in Statuses
    BY DEF Statuses
  <1> QED
    BY <1>2, <1>4, <1>5, <1>9, <1>10, ReplyStep

\* The server discards a session.
LEMMA DiscardStep ==
    ASSUME IndInv, UNCHANGED <<inputs, cancelled, clientVars>>, NEW r \in net, Abort(r)
    PROVE  IndInv'
  <1> DEFINE old  == server[r.attempt]
             sess == [old EXCEPT !.state = "aborted"]
  <1>1. r.kind = "abort" /\ Reply(r, "ok", None, {}) /\ {} \in SUBSET Parts /\ "ok" \in Statuses
    BY DEF Abort, Statuses
  <1>2. CASE ~IsOpen(r)
    BY <1>1, <1>2, SameSession DEF Abort, Commits
  <1>3. CASE IsOpen(r)
    <2>1. r \in Request /\ r.attempt \in Attempts /\ old \in Session /\ server \in [Attempts -> Session]
      BY SessionFacts
    <2>2. server' = [server EXCEPT ![r.attempt] = sess] /\ old.state = "open"
      BY <1>3, <2>1 DEF Abort, IsOpen
    <2>3. /\ sess \in Session /\ sess.state = "aborted" /\ sess.offer = old.offer
          /\ sess.refused = old.refused
      BY <2>1 DEF Session
    <2>4. host \notin LinksAtOnce => old.offer \in Offers[host]
      BY <2>1, <2>2 DEF IndInv, PiecesFit
    <2> HIDE DEF sess
    <2>5. Handled(r, "ok", None, sess)
      BY <1>1, <2>2, <2>3, <2>4 DEF Handled, Stored, Commits
    <2> QED
      BY <1>1, <2>2, <2>3, <2>5, ReplyStep
  <1> QED
    BY <1>2, <1>3

\* The server turns the clean-up down.
LEMMA RefuseStep ==
    ASSUME IndInv, UNCHANGED <<inputs, cancelled, clientVars>>, NEW r \in net,
           r.kind = "abort", TurnDown(r)
    PROVE  IndInv'
  <1> DEFINE old  == server[r.attempt]
             sess == [old EXCEPT !.refused = TRUE]
  <1>1. PICK status \in {"transient", "permanent"} : Reply(r, status, None, {})
    BY DEF TurnDown
  <1>2. r \in Request /\ r.attempt \in Attempts /\ old \in Session /\ server \in [Attempts -> Session]
    BY SessionFacts
  <1>3. server' = [server EXCEPT ![r.attempt] = sess]
    BY <1>2 DEF TurnDown
  <1>4. /\ sess \in Session /\ sess.refused = TRUE /\ sess.state = old.state
        /\ sess.offer = old.offer /\ sess.pieces = old.pieces /\ sess.count = old.count
    BY <1>2 DEF Session
  <1> HIDE DEF sess
  <1>5. /\ old.state # "none" /\ host \notin LinksAtOnce => old.offer \in Offers[host]
        /\ old.state = "open" =>
              \A n \in Parts : old.pieces[n] # None =>
                  old.pieces[n] = PieceOf(size, PartSize(host, old.offer), n)
    BY <1>2 DEF IndInv, PiecesFit
  <1>6. old.state \in {"stored", "published"} =>
            Committed(r.attempt) /\ old.count \in Parts /\ InOrder(old)
    BY <1>2 DEF IndInv, PiecesFit, CommitsAreReached, StoredFilesAreInOrder, Stored, InOrder
  <1>7. InOrder(old) => InOrder(sess)
    BY <1>4 DEF InOrder
  <1>8. Handled(r, status, None, sess)
    BY <1>4, <1>5, <1>6, <1>7 DEF Handled, Stored
  <1>9. {} \in SUBSET Parts /\ status \in Statuses
    BY DEF Statuses
  <1> QED
    BY <1>1, <1>2, <1>3, <1>4, <1>8, <1>9, ReplyStep

\* The servers keep the invariant.
LEMMA ServerStep == IndInv /\ Server => IndInv'
  <1> SUFFICES ASSUME IndInv, Server PROVE IndInv'
    OBVIOUS
  <1>1. /\ UNCHANGED <<inputs, cancelled, clientVars>>
        /\ \E r \in net : \/ TurnDown(r)
                          \/ OpenSession(r) \/ SignURLs(r) \/ StorePart(r) \/ StoreObject(r)
                          \/ Complete(r) \/ Publish(r) \/ Abort(r)
    BY DEF Server
  <1>2. PICK r \in net : \/ TurnDown(r)
                        \/ OpenSession(r) \/ SignURLs(r) \/ StorePart(r) \/ StoreObject(r)
                        \/ Complete(r) \/ Publish(r) \/ Abort(r)
    BY <1>1
  <1>3. CASE r.kind # "abort" /\ TurnDown(r)
    <2>1. PICK status \in {"transient", "permanent"} : Reply(r, status, None, {})
      BY <1>3 DEF TurnDown
    <2>2. /\ status \in Statuses /\ status \notin {"ok", "linkless"}
          /\ {} \in SUBSET Parts /\ UNCHANGED server
      BY <1>3 DEF TurnDown, Statuses
    <2> QED
      BY <1>1, <1>3, <2>1, <2>2, SameSession
  <1>4. CASE SignURLs(r)
    <2>1. PICK given \in SUBSET r.wants : Reply(r, "ok", None, given)
      BY <1>4 DEF SignURLs
    <2>2. r.wants \subseteq Parts
      BY SessionFacts DEF Request
    <2>3. /\ given \in SUBSET Parts /\ "ok" \in Statuses /\ UNCHANGED server
          /\ r.kind # "abort" /\ r.kind \notin {"init", "sign"} \cup Commits
      BY <1>4, <2>2 DEF SignURLs, Statuses, Commits
    <2> QED
      BY <1>1, <2>1, <2>3, SameSession
  <1> QED
    BY <1>1, <1>2, <1>3, <1>4, RefuseStep, OpenStep, PartStep, ObjectStep, CompleteStep, PublishStep, DiscardStep

-----------------------------------------------------------------------------
(* The steps of the clients.                                               *)

\* The invariant holds before the first call.
LEMMA InitInv == Init => IndInv
  <1> SUFFICES ASSUME Init PROVE IndInv
    OBVIOUS
  <1> USE ConstantFacts
  <1>0. /\ host \in Hosts /\ size \in Sizes /\ size \in Nat /\ badOptions \in BOOLEAN /\ cancelled = FALSE
        /\ attempt = 1 /\ pc = "start" /\ offer = None /\ part = 0 /\ urls = {} /\ offset = 0
        /\ outcome = [a \in Attempts |-> None] /\ answer = None /\ net = {}
        /\ server = [a \in Attempts |-> NoSession]
    BY DEF Init
  <1>1. NoSession \in Session /\ NoSession.state = "none"
    <2> DEFINE pieces == [n \in Parts |-> None]
    <2>1. pieces \in [Parts -> Piece \cup {None}] /\ 0 \in 0..MaxParts
      OBVIOUS
    <2>2. NoSession = [state |-> "none", offer |-> None, pieces |-> pieces, count |-> 0,
                      refused |-> FALSE]
      BY DEF NoSession
    <2>3. None \in (UNION {Offers[h] : h \in Hosts}) \cup {None}
      OBVIOUS
    <2> HIDE DEF pieces
    <2> QED
      BY ONLY <2>1, <2>2, <2>3 DEF Session
  <1>2. TypeOK
    <2>1. 0 \in 0..size /\ 0 \in 0..MaxParts
      BY <1>0
    <2> QED
      BY <1>0, <1>1, <2>1 DEF TypeOK, Calls
  <1>3. OneAfterAnother
    <2>1. \A a \in Attempts : ~(a < 1)
      BY DEF Attempts
    <2> QED
      BY <1>0, <2>1 DEF OneAfterAnother, Ended
  <1>4. OpenedOnce /\ CallsFit /\ CommitsAreReached /\ CallsCarryTheirPiece
    BY <1>0, <1>1 DEF OpenedOnce, CallsFit, CommitsAreReached, CallsCarryTheirPiece, Stored
  <1>5. AnswersAreTrue /\ LoopsFit /\ ReaderFits /\ SuccessIsPublished
    BY <1>0 DEF AnswersAreTrue, LoopsFit, ReaderFits, SuccessIsPublished
  <1>6. PiecesFit /\ StoredFilesAreInOrder
    BY <1>0, <1>1 DEF PiecesFit, StoredFilesAreInOrder, Stored
  <1>7. FailuresAreGivenUp
    BY <1>0, <1>1 DEF FailuresAreGivenUp
  <1> QED
    BY <1>2, <1>3, <1>4, <1>5, <1>6, <1>7 DEF IndInv

\* What a client knows when it makes a step.
LEMMA ClientFacts ==
    ASSUME IndInv
    PROVE  /\ host \in Hosts /\ size \in Sizes /\ size \in Nat
           /\ offer \in Offers[host] \cup {None} /\ part \in 0..MaxParts /\ urls \in SUBSET Parts
           /\ offset \in 0..size
           /\ answer # None => answer.status \in Statuses /\ answer.numbers \in SUBSET Parts
           /\ pc \in Calls \cup {"start", "failed", "ok"}
           /\ pc \in CallsOf(host) \cup {"start", "abort", "failed", "ok"}
           /\ pc \in {"start", "init", "sign"} => offset = 0
           /\ answer # None /\ answer.status = "ok" /\ pc \in {"init", "sign"} =>
                 answer.offer \in Offers[host] /\ server[attempt].offer = answer.offer
           /\ pc = "init" /\ host \in {"mocha", "storageto", "zincdrive"} => size >= 1
           /\ pc = "publish" => Stored(attempt)
  <1>1. answer # None => answer.status \in Statuses /\ answer.numbers \subseteq Parts
    BY DEF IndInv, TypeOK
  <1> QED
    BY <1>1, ConstantFacts DEF IndInv, TypeOK, CallsFit, ReaderFits, AnswersAreTrue, LoopsFit

\* What it knows in the loop over the parts.
LEMMA LoopFacts ==
    ASSUME IndInv, pc \in {"urls", "part"}
    PROVE  /\ offer \in Offers[host] /\ server[attempt].offer = offer
           /\ part \in Parts /\ part <= Total(host, size, offer)
           /\ pc = "urls" => offset = Before(size, PartSize(host, offer), part)
           /\ pc = "part" => offset = Before(size, PartSize(host, offer), part + 1)
           /\ host = "storageto" => offer.multipart
           /\ pc = "urls" /\ host = "storageto" => part = 1
  <1>1. offer \in Offers[host] /\ server[attempt].offer = offer
    BY DEF IndInv, LoopsFit
  <1>2. part \in Parts /\ part <= Total(host, size, offer)
    BY ConstantFacts DEF IndInv, TypeOK, LoopsFit, Parts
  <1>3. /\ pc = "urls" => offset = Before(size, PartSize(host, offer), part)
        /\ pc = "part" => offset = Before(size, PartSize(host, offer), part + 1)
    BY DEF IndInv, ReaderFits
  <1>4. host = "storageto" => offer.multipart = (pc # "put")
    BY <1>1 DEF IndInv, LoopsFit
  <1>5. pc = "urls" /\ host = "storageto" => part = 1
    BY DEF IndInv, LoopsFit
  <1> QED
    BY <1>1, <1>2, <1>3, <1>4, <1>5

\* A part that is not the last one has a next one.
LEMMA NextPart ==
    ASSUME IndInv, host \in Hosts \ LinksAtOnce, pc = "part", part # Total(host, size, offer)
    PROVE  part + 1 \in Parts /\ part + 1 <= Total(host, size, offer)
  <1>1. offer \in Offers[host] /\ part \in Parts /\ part <= Total(host, size, offer)
    BY LoopFacts
  <1>2. Total(host, size, offer) \in 0..MaxParts
    BY <1>1, ClientFacts, OfferFacts
  <1> QED
    BY <1>1, <1>2, ConstantFacts DEF Parts

\* The client asks for something that is not about a part: it opens a session or
\* publishes the object.
LEMMA AskStep ==
    ASSUME IndInv, UNCHANGED <<inputs, cancelled, attempt, server, offer, urls>>,
           NEW kind \in {"init", "sign", "publish"}, kind \in CallsOf(host), Ask(kind),
           kind \in {"init", "sign"} => pc = "start",
           kind = "init" /\ host \in {"mocha", "storageto", "zincdrive"} => size >= 1,
           kind = "publish" => /\ pc \in Calls \ {"abort"} /\ answer # None
                              /\ Stored(attempt)
    PROVE  IndInv'
  <1>1. /\ Call(kind, part, None, {}) /\ UNCHANGED offset /\ {} \in SUBSET Parts
        /\ urls' \in SUBSET Parts
    BY ClientFacts DEF Ask
  <1>2. Prepared(kind, part, None, offer', offset')
    BY <1>1, ClientFacts DEF Prepared, Commits
  <1>3. pc = "start" \/ (pc \in Calls \ {"abort"} /\ answer # None)
    OBVIOUS
  <1> QED
    BY <1>1, <1>2, <1>3, CallStep

\* The client completes the upload after the last part.
LEMMA AskComplete ==
    ASSUME IndInv, UNCHANGED <<inputs, cancelled, attempt, server, offer, urls>>,
           host \in Hosts \ LinksAtOnce,
           pc = "part", answer # None, part = Total(host, size, offer), Ask("complete")
    PROVE  IndInv'
  <1>1. /\ Call("complete", part, None, {}) /\ UNCHANGED offset /\ {} \in SUBSET Parts
        /\ urls' \in SUBSET Parts
    BY ClientFacts DEF Ask
  <1>2. /\ offer \in Offers[host] /\ server[attempt].offer = offer /\ part \in Parts
        /\ host = "storageto" => offer.multipart
    BY LoopFacts
  <1>3. host \in {"mocha", "zincdrive"} => part * PartSize(host, offer) >= size
    BY <1>2, OfferFacts, ClientFacts
  <1>4. host = "vikingfile" => part = offer.count
    BY TotalsAreTheirs
  <1>5. "complete" \in CallsOf(host) \ {"abort"}
    BY DEF CallsOf, Hosts, LinksAtOnce, Calls
  <1>6. Prepared("complete", part, None, offer', offset')
    BY <1>1, <1>2, <1>3, <1>4, <1>5, ClientFacts DEF Prepared, Commits
  <1>7. pc \in Calls \ {"abort"}
    BY DEF Calls
  <1> QED
    BY <1>1, <1>6, <1>7, CallStep

\* The client asks for URLs, part n and others.
LEMMA AskForURLs ==
    ASSUME IndInv, UNCHANGED <<inputs, cancelled, attempt, server>>,
           host \in {"mocha", "storageto", "zincdrive"},
           pc \in Calls \ {"abort"}, pc \notin Commits, answer # None,
           NEW o \in Offers[host], server[attempt].offer = o, offer' = o, urls' \in SUBSET Parts,
           host = "storageto" => o.multipart,
           NEW n \in Parts, n <= Total(host, size, o), offset = Before(size, PartSize(host, o), n),
           host = "storageto" => n = 1,
           NEW wants \in SUBSET Parts, AskURLs(n, wants)
    PROVE  IndInv'
  <1>1. Call("urls", n, None, wants) /\ UNCHANGED offset
    BY DEF AskURLs
  <1>2. 1 <= n /\ n \in 0..MaxParts /\ "urls" \in CallsOf(host) \ {"abort"}
    BY ConstantFacts DEF Parts, CallsOf, Calls
  <1>3. host = "storageto" => server[attempt].offer.multipart = TRUE
    BY StorageToAssumption
  <1>4. Prepared("urls", n, None, offer', offset')
    BY <1>1, <1>2, <1>3, ClientFacts DEF Prepared, Commits
  <1> QED
    BY <1>1, <1>4, CallStep

\* The client sends part n.
LEMMA PutPart ==
    ASSUME IndInv, UNCHANGED <<inputs, cancelled, attempt, server>>,
           host \in Hosts \ LinksAtOnce,
           pc \in Calls \ {"abort"}, pc \notin Commits, answer # None,
           NEW o \in Offers[host], server[attempt].offer = o, offer' = o, urls' \in SUBSET Parts,
           host = "storageto" => o.multipart,
           NEW n \in Parts, n <= Total(host, size, o), offset = Before(size, PartSize(host, o), n),
           PutData("part", n, ChunkSize(PartSize(host, o), n))
    PROVE  IndInv'
  <1> DEFINE p   == PartSize(host, o)
             len == IF ChunkSize(p, n) > 0 THEN ChunkSize(p, n) ELSE 0
  <1>1. Call("part", n, [from |-> offset, len |-> len], {}) /\ offset' = offset + len
    BY DEF PutData
  <1>2. size \in Nat /\ p \in Nat /\ n \in Nat \ {0}
    BY ClientFacts, OfferFacts, ConstantFacts
  <1>3. len = Before(size, p, n + 1) - Before(size, p, n)
    BY <1>2, ChunkFacts
  <1>4. /\ Before(size, p, n) \in 0..size /\ Before(size, p, n + 1) \in 0..size
        /\ PieceOf(size, p, n) \in Piece
    BY <1>2, BeforeFacts
  <1>5. /\ [from |-> offset, len |-> len] = PieceOf(size, p, n)
        /\ offset' = Before(size, p, n + 1)
    BY <1>1, <1>2, <1>3, <1>4 DEF PieceOf
  <1>6. 1 <= n /\ n \in 0..MaxParts /\ "part" \in CallsOf(host) \ {"abort"}
    BY ConstantFacts DEF Parts, CallsOf, Calls, Hosts, LinksAtOnce
  <1>7. host = "storageto" => server[attempt].offer.multipart = TRUE
    BY StorageToAssumption
  <1>8. Prepared("part", n, PieceOf(size, p, n), offer', offset')
    BY <1>4, <1>5, <1>6, <1>7, ClientFacts DEF Prepared, Commits
  <1>9. Call("part", n, PieceOf(size, p, n), {}) /\ {} \in SUBSET Parts
    BY <1>1, <1>5
  <1> QED
    BY <1>8, <1>9, CallStep

\* The client sends the whole file.
LEMMA PutWhole ==
    ASSUME IndInv, UNCHANGED <<inputs, cancelled, attempt, server>>,
           host \in LinksAtOnce \cup {"storageto", "zincdrive"},
           pc = "start" \/ (pc \in {"init", "sign"} /\ answer # None),
           offer' \in Offers[host] \cup {None}, urls' \in SUBSET Parts,
           host = "storageto" => server[attempt].offer.multipart = FALSE,
           PutData("put", 1, size)
    PROVE  IndInv'
  <1>1. offset = 0 /\ size \in Nat
    BY ClientFacts
  <1>2. Call("put", 1, [from |-> 0, len |-> size], {}) /\ offset' = size /\ {} \in SUBSET Parts
    BY <1>1 DEF PutData
  <1>3. 1 \in 0..MaxParts /\ "put" \in CallsOf(host) \ {"abort"}
    BY ConstantFacts DEF Parts, CallsOf, Calls, LinksAtOnce
  <1>4. [from |-> 0, len |-> size] \in Piece \cup {None} /\ size \in 0..size
    BY <1>1 DEF Piece
  <1>5. Prepared("put", 1, [from |-> 0, len |-> size], offer', offset')
    BY <1>2, <1>3, <1>4 DEF Prepared, Commits
  <1>6. pc = "start" \/ (pc \in Calls \ {"abort"} /\ answer # None)
    BY DEF Calls
  <1> QED
    BY <1>2, <1>5, <1>6, CallStep

\* Upload returns its result.
LEMMA SucceedStep ==
    ASSUME IndInv, UNCHANGED <<inputs, cancelled, attempt, server, offer, urls>>,
           answer # None, Accepts(answer.status),
           pc \in Commits, server[attempt].state = "published", Succeed
    PROVE  IndInv'
  <1>1. /\ End(answer.status, "ok") /\ answer.status \in Outcomes
        /\ answer.status = "ok" \/ host \in LinksUnchecked
    BY DEF Succeed, Outcomes, Statuses, Accepts
  <1>2. pc \in Calls \cup {"start"} /\ pc # "abort"
    BY DEF Commits, Calls
  <1>3. offer' \in Offers[host] \cup {None} /\ urls' \in SUBSET Parts
    BY ClientFacts
  <1> QED
    BY <1>1, <1>2, <1>3, EndStep

\* Upload returns an error and leaves the session to the server.
LEMMA FailStep ==
    ASSUME IndInv, UNCHANGED <<inputs, cancelled, attempt, server, offer, urls>>,
           pc \in Calls \cup {"start"}, pc # "abort", NEW why \in Outcomes, Fail(why),
           \/ pc \in {"start", "init"} \/ Stored(attempt)
           \/ host # "mocha" /\ (host = "storageto" => server[attempt].offer.multipart = FALSE)
    PROVE  IndInv'
  <1>1. End(why, "failed")
    BY DEF Fail
  <1>2. offer' \in Offers[host] \cup {None} /\ urls' \in SUBSET Parts
    BY ClientFacts
  <1>3. pc \notin {"start", "init"} /\ why # "ok" /\ server[attempt].state = "open"
            => host # "mocha" /\ (host = "storageto" => ~server[attempt].offer.multipart)
    BY DEF Stored
  <1> QED
    BY <1>1, <1>2, <1>3, EndStep

\* What an answer of use to a commit says.
LEMMA CommitFacts ==
    ASSUME IndInv, answer # None, answer.status \in {"ok", "linkless"}, pc \in Commits
    PROVE  /\ Stored(attempt)
           /\ \/ pc = "publish" \/ (pc = "put" /\ host \in LinksAtOnce)
              \/ (pc = "complete" /\ host = "vikingfile")
              => server[attempt].state = "published"
  BY DEF IndInv, AnswersAreTrue

\* One turn of mocha's loop.
LEMMA MochaTurnStep ==
    ASSUME IndInv, UNCHANGED <<inputs, cancelled, attempt, server>>,
           host = "mocha", pc \in {"init", "urls", "part"}, answer # None,
           NEW o \in Offers[host], server[attempt].offer = o, offer' = o,
           NEW n \in Parts, n <= Total(host, size, o), offset = Before(size, PartSize(host, o), n),
           NEW signed \in SUBSET Parts, MochaTurn(o, n, signed)
    PROVE  IndInv'
  <1> DEFINE wants == {k \in Parts : n <= k /\ k < n + MochaPresignBatch /\ k <= MochaTotal(o)}
  <1>1. /\ urls' = signed
        /\ AskURLs(n, wants) \/ PutData("part", n, ChunkSize(MochaPartSize(o), n))
    BY DEF MochaTurn, MochaPut
  <1>2. MochaPartSize(o) = PartSize(host, o)
    BY TotalsAreTheirs
  <1>3. /\ pc \in Calls \ {"abort"} /\ pc \notin Commits /\ urls' \in SUBSET Parts
        /\ host \in {"mocha", "storageto", "zincdrive"} /\ host \in Hosts \ LinksAtOnce
        /\ wants \in SUBSET Parts
    BY <1>1 DEF Calls, Commits, Hosts, LinksAtOnce
  <1> HIDE DEF wants
  <1>4. CASE AskURLs(n, wants)
    BY <1>3, <1>4, AskForURLs
  <1>5. CASE PutData("part", n, ChunkSize(PartSize(host, o), n))
    BY <1>3, <1>5, PutPart
  <1> QED
    BY <1>1, <1>2, <1>4, <1>5

\* mocha.go.
LEMMA MochaSteps ==
    ASSUME IndInv, UNCHANGED <<inputs, cancelled, attempt, server>>, MochaClient
    PROVE  IndInv'
  <1>0. "init" \in CallsOf("mocha") /\ "publish" \in CallsOf("mocha") /\ "local" \in Outcomes
    BY DEF CallsOf, Outcomes
  <1>1. CASE MochaStart
    <2>1. host = "mocha" /\ pc = "start" /\ UNCHANGED <<offer, urls>> /\ "start" \notin Calls
      BY <1>1 DEF MochaStart, Calls
    <2>2. CASE size <= 0
      BY <1>0, <1>1, <2>1, <2>2, FailStep DEF MochaStart
    <2>3. CASE ~(size <= 0)
      <3>1. size >= 1
        BY <2>3, ClientFacts
      <3> QED
        BY <1>0, <1>1, <2>1, <2>3, <3>1, AskStep DEF MochaStart
    <2> QED
      BY <2>2, <2>3
  <1>2. CASE MochaOpened
    <2>1. /\ host = "mocha" /\ pc = "init" /\ answer # None /\ answer.status = "ok"
          /\ offer' = answer.offer /\ MochaTurn(answer.offer, 1, {})
      BY <1>2 DEF MochaOpened, Answered
    <2>2. /\ answer.offer \in Offers[host] /\ server[attempt].offer = answer.offer
          /\ offset = 0 /\ size >= 1 /\ size \in Sizes /\ size \in Nat
      BY <2>1, ClientFacts
    <2>3. 1 <= Total(host, size, answer.offer) /\ PartSize(host, answer.offer) \in Nat
      BY <2>1, <2>2, OfferFacts DEF Hosts, LinksAtOnce
    <2>4. offset = Before(size, PartSize(host, answer.offer), 1) /\ 1 \in Parts /\ {} \in SUBSET Parts
      BY <2>2, <2>3, BeforeFacts, ConstantFacts
    <2> QED
      BY <2>1, <2>2, <2>3, <2>4, MochaTurnStep
  <1>3. CASE MochaSigned
    <2>1. /\ host = "mocha" /\ pc = "urls" /\ answer # None /\ UNCHANGED offer
          /\ answer.numbers \in SUBSET Parts /\ urls \in SUBSET Parts
      BY <1>3, ClientFacts DEF MochaSigned, Answered
    <2>2. CASE part \in answer.numbers
      <3>1. MochaTurn(offer, part, urls \cup answer.numbers) /\ urls \cup answer.numbers \in SUBSET Parts
        BY <1>3, <2>1, <2>2 DEF MochaSigned
      <3> QED
        BY <2>1, <3>1, LoopFacts, MochaTurnStep
    <2>3. CASE part \notin answer.numbers
      <3>1. FailAndAbort("local") /\ UNCHANGED urls /\ pc \in Calls \ {"abort", "sign"}
        BY <1>3, <2>1, <2>3 DEF MochaSigned, Calls
      <3> QED
        BY <1>0, <2>1, <3>1, ClientFacts, AbortStep
    <2> QED
      BY <2>2, <2>3
  <1>4. CASE MochaPartStored
    <2>1. /\ host = "mocha" /\ pc = "part" /\ answer # None /\ UNCHANGED offer
          /\ host \in Hosts \ LinksAtOnce /\ urls \ {part} \in SUBSET Parts
      BY <1>4, ClientFacts DEF MochaPartStored, Answered, Hosts, LinksAtOnce
    <2>2. Total(host, size, offer) = MochaTotal(offer)
      BY <2>1, TotalsAreTheirs
    <2>3. CASE part = MochaTotal(offer)
      BY <1>4, <2>1, <2>2, <2>3, AskComplete DEF MochaPartStored
    <2>4. CASE part # MochaTotal(offer)
      <3>1. MochaTurn(offer, part + 1, urls \ {part})
        BY <1>4, <2>4 DEF MochaPartStored
      <3>2. part + 1 \in Parts /\ part + 1 <= Total(host, size, offer)
        BY <2>1, <2>2, <2>4, NextPart
      <3> QED
        BY <2>1, <3>1, <3>2, LoopFacts, MochaTurnStep
    <2> QED
      BY <2>3, <2>4
  <1>5. CASE MochaCompleted
    <2>1. /\ host = "mocha" /\ pc = "complete" /\ answer # None /\ answer.status = "ok"
          /\ UNCHANGED <<offer, urls>>
          /\ Fail("local") \/ Ask("publish")
          /\ pc \in Calls \ {"abort"} /\ pc \in Commits
      BY <1>5 DEF MochaCompleted, Answered, Calls, Commits
    <2>2. Stored(attempt)
      BY <2>1, CommitFacts
    <2>3. CASE Fail("local")
      BY <1>0, <2>1, <2>2, <2>3, FailStep
    <2>4. CASE Ask("publish")
      BY <1>0, <2>1, <2>2, <2>4, AskStep
    <2> QED
      BY <2>1, <2>3, <2>4
  <1>6. CASE MochaShared
    <2>1. /\ pc = "publish" /\ answer # None /\ answer.status = "ok" /\ Succeed
          /\ UNCHANGED <<offer, urls>> /\ pc \in Commits
      BY <1>6 DEF MochaShared, Answered, Commits
    <2> QED
      BY <2>1, CommitFacts, SucceedStep DEF Accepts
  <1> QED
    BY <1>1, <1>2, <1>3, <1>4, <1>5, <1>6 DEF MochaClient

\* One turn of storage.to's loop.
LEMMA StorageToTurn ==
    ASSUME IndInv, UNCHANGED <<inputs, cancelled, attempt, server>>,
           host = "storageto", pc \in {"init", "urls", "part"}, answer # None,
           NEW o \in Offers[host], server[attempt].offer = o, offer' = o, o.multipart,
           NEW n \in Parts, n <= Total(host, size, o), offset = Before(size, PartSize(host, o), n),
           NEW known \in SUBSET Parts, StorageToPut(o, n, known)
    PROVE  IndInv'
  <1>1. /\ urls' = known
        /\ PutData("part", n, ChunkSize(o.partSize, n)) \/ FailAndAbort("local")
    BY DEF StorageToPut
  <1>2. o.partSize = PartSize(host, o)
    BY TotalsAreTheirs
  <1>3. /\ pc \in Calls \ {"abort"} /\ pc \notin Commits /\ urls' \in SUBSET Parts
        /\ pc \in Calls \ {"abort", "sign"} /\ "local" \in Outcomes
        /\ host \in Hosts \ LinksAtOnce /\ offer' \in Offers[host] \cup {None}
    BY <1>1 DEF Calls, Commits, Hosts, LinksAtOnce, Outcomes
  <1>4. CASE PutData("part", n, ChunkSize(PartSize(host, o), n))
    BY <1>3, <1>4, PutPart
  <1>5. CASE FailAndAbort("local")
    BY <1>3, <1>5, AbortStep
  <1> QED
    BY <1>1, <1>2, <1>4, <1>5

\* storageto.go.
LEMMA StorageToSteps ==
    ASSUME IndInv, UNCHANGED <<inputs, cancelled, attempt, server>>, StorageToClient
    PROVE  IndInv'
  <1>0. "init" \in CallsOf("storageto") /\ "publish" \in CallsOf("storageto") /\ "local" \in Outcomes
    BY DEF CallsOf, Outcomes
  <1>1. CASE StorageToStart
    <2>1. host = "storageto" /\ pc = "start" /\ UNCHANGED <<offer, urls>> /\ "start" \notin Calls
      BY <1>1 DEF StorageToStart, Calls
    <2>2. CASE size < 1
      BY <1>0, <1>1, <2>1, <2>2, FailStep DEF StorageToStart
    <2>3. CASE ~(size < 1)
      <3>1. size >= 1
        BY <2>3, ClientFacts
      <3> QED
        BY <1>0, <1>1, <2>1, <2>3, <3>1, AskStep DEF StorageToStart
    <2> QED
      BY <2>2, <2>3
  <1>2. CASE StorageToOpened
    <2> DEFINE o       == answer.offer
               missing == (1..StorageToTotal(o)) \ o.initial
    <2>1. /\ host = "storageto" /\ pc = "init" /\ answer # None /\ answer.status = "ok"
          /\ offer' = o
      BY <1>2 DEF StorageToOpened, Answered
    <2>2. /\ o \in Offers[host] /\ server[attempt].offer = o
          /\ offset = 0 /\ size >= 1 /\ size \in Sizes /\ size \in Nat /\ urls \in SUBSET Parts
      BY <2>1, ClientFacts
    <2>3. o.multipart \in BOOLEAN /\ o.initial \in SUBSET Parts
      BY <2>1, <2>2, StorageToAssumption
    <2>4. /\ 1 <= Total(host, size, o) /\ Total(host, size, o) \in 0..MaxParts
          /\ PartSize(host, o) \in Nat
      BY <2>1, <2>2, OfferFacts DEF Hosts, LinksAtOnce
    <2>5. missing \in SUBSET Parts
      BY <2>1, <2>4, TotalsAreTheirs, ConstantFacts DEF Parts
    <2>6. offset = Before(size, PartSize(host, o), 1) /\ 1 \in Parts
      BY <2>2, <2>4, BeforeFacts, ConstantFacts
    <2>7. \/ ~o.multipart /\ PutData("put", 1, size) /\ UNCHANGED urls
          \/ o.multipart /\ AskURLs(1, missing) /\ urls' = o.initial
          \/ o.multipart /\ StorageToPut(o, 1, o.initial)
      BY <1>2 DEF StorageToOpened
    <2>8. /\ host \in LinksAtOnce \cup {"storageto", "zincdrive"}
          /\ host \in {"mocha", "storageto", "zincdrive"}
          /\ pc \in Calls \ {"abort"} /\ pc \notin Commits
      BY <2>1 DEF Calls, Commits
    <2> HIDE DEF o, missing
    <2>9. CASE ~o.multipart /\ PutData("put", 1, size) /\ UNCHANGED urls
      <3>1. server[attempt].offer.multipart = FALSE
        BY <2>2, <2>3, <2>9
      <3> QED
        BY <2>1, <2>2, <2>8, <2>9, <3>1, PutWhole
    <2>10. CASE o.multipart /\ AskURLs(1, missing) /\ urls' = o.initial
      BY <2>1, <2>2, <2>3, <2>4, <2>5, <2>6, <2>8, <2>10, AskForURLs
    <2>11. CASE o.multipart /\ StorageToPut(o, 1, o.initial)
      BY <2>1, <2>2, <2>3, <2>4, <2>6, <2>11, StorageToTurn
    <2> QED
      BY <2>7, <2>9, <2>10, <2>11
  <1>3. CASE StorageToSigned
    <2>1. /\ host = "storageto" /\ pc = "urls" /\ answer # None /\ UNCHANGED offer
          /\ urls \cup answer.numbers \in SUBSET Parts
          /\ StorageToPut(offer, 1, urls \cup answer.numbers)
      BY <1>3, ClientFacts DEF StorageToSigned, Answered
    <2>2. /\ offer \in Offers[host] /\ server[attempt].offer = offer /\ offer.multipart
          /\ 1 \in Parts /\ 1 <= Total(host, size, offer)
          /\ offset = Before(size, PartSize(host, offer), 1)
      BY <2>1, LoopFacts, ConstantFacts
    <2> QED
      BY <2>1, <2>2, StorageToTurn
  <1>4. CASE StorageToPartStored
    <2>1. /\ host = "storageto" /\ pc = "part" /\ answer # None /\ UNCHANGED offer
          /\ host \in Hosts \ LinksAtOnce /\ urls \in SUBSET Parts
      BY <1>4, ClientFacts DEF StorageToPartStored, Answered, Hosts, LinksAtOnce
    <2>2. Total(host, size, offer) = StorageToTotal(offer)
      BY <2>1, TotalsAreTheirs
    <2>3. CASE part = StorageToTotal(offer)
      BY <1>4, <2>1, <2>2, <2>3, AskComplete DEF StorageToPartStored
    <2>4. CASE part # StorageToTotal(offer)
      <3>1. StorageToPut(offer, part + 1, urls)
        BY <1>4, <2>4 DEF StorageToPartStored
      <3>2. part + 1 \in Parts /\ part + 1 <= Total(host, size, offer)
        BY <2>1, <2>2, <2>4, NextPart
      <3> QED
        BY <2>1, <3>1, <3>2, LoopFacts, StorageToTurn
    <2> QED
      BY <2>3, <2>4
  <1>5. CASE StorageToStored
    <2>1. /\ host = "storageto" /\ pc \in Commits /\ answer # None /\ answer.status = "ok"
          /\ UNCHANGED <<offer, urls>> /\ Ask("publish") /\ pc \in Calls \ {"abort"}
      BY <1>5 DEF StorageToStored, Answered, Calls, Commits
    <2> QED
      BY <1>0, <2>1, CommitFacts, AskStep
  <1>6. CASE StorageToConfirmed
    <2>1. /\ pc = "publish" /\ answer # None /\ answer.status = "ok" /\ Succeed
          /\ UNCHANGED <<offer, urls>> /\ pc \in Commits
      BY <1>6 DEF StorageToConfirmed, Answered, Commits
    <2> QED
      BY <2>1, CommitFacts, SucceedStep DEF Accepts
  <1> QED
    BY <1>1, <1>2, <1>3, <1>4, <1>5, <1>6 DEF StorageToClient

\* zincdrive.go.
LEMMA ZincSteps ==
    ASSUME IndInv, UNCHANGED <<inputs, cancelled, attempt, server>>, ZincClient
    PROVE  IndInv'
  <1>0. /\ {"init", "sign", "publish"} \subseteq CallsOf("zincdrive") /\ "local" \in Outcomes
        /\ "zincdrive" \in Hosts \ LinksAtOnce
    BY DEF CallsOf, Outcomes, Calls, Hosts, LinksAtOnce
  <1>1. CASE ZincStart
    <2>1. /\ host = "zincdrive" /\ pc = "start" /\ UNCHANGED <<offer, urls>>
          /\ size \in Nat /\ ZincSinglePartMax \in Nat
      BY <1>1, ClientFacts, ZincAssumption DEF ZincStart
    <2>2. CASE size > ZincSinglePartMax
      <3>1. size >= 1
        BY <2>1, <2>2
      <3>2. Ask("init")
        BY <1>1, <2>2 DEF ZincStart
      <3> QED
        BY <1>0, <2>1, <3>1, <3>2, AskStep
    <2>3. CASE ~(size > ZincSinglePartMax)
      <3>1. Ask("sign")
        BY <1>1, <2>3 DEF ZincStart
      <3> QED
        BY <1>0, <2>1, <3>1, AskStep
    <2> QED
      BY <2>2, <2>3
  <1>2. CASE ZincSigned
    <2>1. /\ host = "zincdrive" /\ pc = "sign" /\ answer # None /\ answer.status = "ok"
          /\ offer' = answer.offer /\ PutData("put", 1, size) /\ UNCHANGED urls
      BY <1>2 DEF ZincSigned, Answered
    <2>2. offer' \in Offers[host] \cup {None} /\ urls' \in SUBSET Parts
      BY <2>1, ClientFacts
    <2> QED
      BY <2>1, <2>2, PutWhole
  <1>3. CASE ZincOpened
    <2> DEFINE o == answer.offer
    <2>1. /\ host = "zincdrive" /\ pc = "init" /\ answer # None /\ answer.status = "ok"
          /\ offer' = o /\ AskURLs(1, {1}) /\ UNCHANGED urls
      BY <1>3 DEF ZincOpened, Answered
    <2>2. /\ o \in Offers[host] /\ server[attempt].offer = o /\ urls' \in SUBSET Parts
          /\ offset = 0 /\ size >= 1 /\ size \in Sizes /\ size \in Nat
      BY <2>1, ClientFacts
    <2> HIDE DEF o
    <2>3. 1 <= Total(host, size, o) /\ PartSize(host, o) \in Nat
      BY <1>0, <2>1, <2>2, OfferFacts
    <2>4. /\ offset = Before(size, PartSize(host, o), 1) /\ 1 \in Parts /\ {1} \in SUBSET Parts
          /\ pc \in Calls \ {"abort"} /\ pc \notin Commits
      BY <2>1, <2>2, <2>3, BeforeFacts, ConstantFacts DEF Calls, Commits
    <2> QED
      BY <2>1, <2>2, <2>3, <2>4, AskForURLs
  <1>4. CASE ZincPartSigned
    <2>1. /\ host = "zincdrive" /\ pc = "urls" /\ answer # None /\ UNCHANGED <<offer, urls>>
          /\ urls' \in SUBSET Parts /\ pc \in Calls \ {"abort"} /\ pc \notin Commits
      BY <1>4, ClientFacts DEF ZincPartSigned, Answered, Calls, Commits
    <2>2. CASE part \in answer.numbers
      <3>1. PutData("part", part, ChunkSize(PartSize(host, offer), part))
        BY <1>4, <2>1, <2>2, TotalsAreTheirs DEF ZincPartSigned
      <3> QED
        BY <1>0, <2>1, <3>1, LoopFacts, PutPart
    <2>3. CASE part \notin answer.numbers
      <3>1. Fail("local")
        BY <1>4, <2>3 DEF ZincPartSigned
      <3> QED
        BY <1>0, <2>1, <3>1, FailStep
    <2> QED
      BY <2>2, <2>3
  <1>5. CASE ZincPartStored
    <2>1. /\ host = "zincdrive" /\ pc = "part" /\ answer # None /\ UNCHANGED <<offer, urls>>
          /\ urls' \in SUBSET Parts /\ pc \in Calls \ {"abort"} /\ pc \notin Commits
      BY <1>5, ClientFacts DEF ZincPartStored, Answered, Calls, Commits
    <2>2. Total(host, size, offer) = PartsOf(ZincMultipartPartSize)
      BY <2>1, TotalsAreTheirs
    <2>3. CASE part = PartsOf(ZincMultipartPartSize)
      BY <1>0, <1>5, <2>1, <2>2, <2>3, AskComplete DEF ZincPartStored
    <2>4. CASE part # PartsOf(ZincMultipartPartSize)
      <3>1. AskURLs(part + 1, {part + 1})
        BY <1>5, <2>4 DEF ZincPartStored
      <3>2. part + 1 \in Parts /\ part + 1 <= Total(host, size, offer)
        BY <1>0, <2>1, <2>2, <2>4, NextPart
      <3>3. {part + 1} \in SUBSET Parts
        BY <3>2
      <3> QED
        BY <2>1, <3>1, <3>2, <3>3, LoopFacts, AskForURLs
    <2> QED
      BY <2>3, <2>4
  <1>6. CASE ZincStored
    <2>1. /\ host = "zincdrive" /\ pc \in Commits /\ answer # None /\ answer.status = "ok"
          /\ UNCHANGED <<offer, urls>> /\ Ask("publish") /\ pc \in Calls \ {"abort"}
      BY <1>6 DEF ZincStored, Answered, Calls, Commits
    <2> QED
      BY <1>0, <2>1, CommitFacts, AskStep
  <1>7. CASE ZincConfirmed
    <2>1. /\ pc = "publish" /\ answer # None /\ answer.status = "ok" /\ Succeed
          /\ UNCHANGED <<offer, urls>> /\ pc \in Commits
      BY <1>7 DEF ZincConfirmed, Answered, Commits
    <2> QED
      BY <2>1, CommitFacts, SucceedStep DEF Accepts
  <1> QED
    BY <1>1, <1>2, <1>3, <1>4, <1>5, <1>6, <1>7 DEF ZincClient

\* vikingfile.go.
LEMMA VikingSteps ==
    ASSUME IndInv, UNCHANGED <<inputs, cancelled, attempt, server>>, VikingClient
    PROVE  IndInv'
  <1>0. "init" \in CallsOf("vikingfile") /\ "vikingfile" \in Hosts \ LinksAtOnce
    BY DEF CallsOf, Hosts, LinksAtOnce
  <1>1. CASE VikingStart
    <2>1. host = "vikingfile" /\ pc = "start" /\ UNCHANGED <<offer, urls>> /\ Ask("init")
      BY <1>1 DEF VikingStart
    <2> QED
      BY <1>0, <2>1, AskStep
  <1>2. CASE VikingOpened
    <2> DEFINE o == answer.offer
    <2>1. /\ host = "vikingfile" /\ pc = "init" /\ answer # None /\ answer.status = "ok"
          /\ offer' = o /\ UNCHANGED urls
          /\ PutData("part", 1, ChunkSize(PartSize(host, o), 1))
      BY <1>2, TotalsAreTheirs DEF VikingOpened, VikingPut, Answered
    <2>2. /\ o \in Offers[host] /\ server[attempt].offer = o /\ urls' \in SUBSET Parts
          /\ offset = 0 /\ size \in Sizes /\ size \in Nat
      BY <2>1, ClientFacts
    <2> HIDE DEF o
    <2>3. 1 <= Total(host, size, o) /\ PartSize(host, o) \in Nat
      BY <1>0, <2>1, <2>2, OfferFacts
    <2>4. /\ offset = Before(size, PartSize(host, o), 1) /\ 1 \in Parts
          /\ pc \in Calls \ {"abort"} /\ pc \notin Commits
      BY <2>1, <2>2, <2>3, BeforeFacts, ConstantFacts DEF Calls, Commits
    <2> QED
      BY <1>0, <2>1, <2>2, <2>3, <2>4, PutPart
  <1>3. CASE VikingPartStored
    <2>1. /\ host = "vikingfile" /\ pc = "part" /\ answer # None /\ UNCHANGED <<offer, urls>>
          /\ urls' \in SUBSET Parts /\ pc \in Calls \ {"abort"} /\ pc \notin Commits
      BY <1>3, ClientFacts DEF VikingPartStored, Answered, Calls, Commits
    <2>2. Total(host, size, offer) = offer.count /\ PartSize(host, offer) = offer.partSize
      BY <2>1, TotalsAreTheirs
    <2>3. CASE part = offer.count
      BY <1>0, <1>3, <2>1, <2>2, <2>3, AskComplete DEF VikingPartStored
    <2>4. CASE part # offer.count
      <3>1. PutData("part", part + 1, ChunkSize(PartSize(host, offer), part + 1))
        BY <1>3, <2>2, <2>4 DEF VikingPartStored, VikingPut
      <3>2. part + 1 \in Parts /\ part + 1 <= Total(host, size, offer)
        BY <1>0, <2>1, <2>2, <2>4, NextPart
      <3> QED
        BY <1>0, <2>1, <3>1, <3>2, LoopFacts, PutPart
    <2> QED
      BY <2>3, <2>4
  <1>4. CASE VikingCompleted
    <2>1. /\ host = "vikingfile" /\ pc = "complete" /\ answer # None /\ answer.status = "ok" /\ Succeed
          /\ UNCHANGED <<offer, urls>> /\ pc \in Commits
      BY <1>4 DEF VikingCompleted, Answered, Commits
    <2> QED
      BY <2>1, CommitFacts, SucceedStep DEF Accepts
  <1> QED
    BY <1>1, <1>2, <1>3, <1>4 DEF VikingClient

\* The services whose link comes with the file's answer.
LEMMA OneRequestSteps ==
    ASSUME IndInv, UNCHANGED <<inputs, cancelled, attempt, server>>, OneRequestClient
    PROVE  IndInv'
  <1>1. ASSUME NEW h \in LinksAtOnce, SendFile(h) PROVE IndInv'
    <2>1. host = h /\ pc = "start" /\ PutData("put", 1, size) /\ UNCHANGED <<offer, urls>>
      BY <1>1 DEF SendFile
    <2>2. /\ offer' \in Offers[host] \cup {None} /\ urls' \in SUBSET Parts
          /\ host \in LinksAtOnce \cup {"storageto", "zincdrive"} /\ host # "storageto"
      BY <2>1, ClientFacts DEF LinksAtOnce
    <2> QED
      BY <2>1, <2>2, PutWhole
  <1>2. ASSUME NEW h \in LinksAtOnce, LinkReturned(h) PROVE IndInv'
    <2>1. /\ host = h /\ pc = "put" /\ answer # None /\ Accepts(answer.status) /\ Succeed
          /\ answer.status \in {"ok", "linkless"} /\ UNCHANGED <<offer, urls>> /\ pc \in Commits
      BY <1>2 DEF LinkReturned, Answered, Accepts, Commits
    <2> QED
      BY <2>1, CommitFacts, SucceedStep DEF Accepts
  <1>3. CASE DataNodesStart
    <2>1. /\ host = "datanodes" /\ pc = "start" /\ Ask("init") /\ UNCHANGED <<offer, urls>>
          /\ "init" \in CallsOf(host)
      BY <1>3 DEF DataNodesStart, CallsOf
    <2> QED
      BY <2>1, AskStep
  <1>4. CASE DataNodesPut
    <2>1. /\ host = "datanodes" /\ pc = "init" /\ answer # None /\ answer.status = "ok"
          /\ offer' = answer.offer /\ PutData("put", 1, size) /\ UNCHANGED urls
      BY <1>4 DEF DataNodesPut, Answered
    <2>2. /\ offer' \in Offers[host] \cup {None} /\ urls' \in SUBSET Parts
          /\ host \in LinksAtOnce \cup {"storageto", "zincdrive"} /\ host # "storageto"
      BY <2>1, ClientFacts DEF LinksAtOnce
    <2> QED
      BY <2>1, <2>2, PutWhole
  <1>5. \/ DataNodesStart \/ DataNodesPut
        \/ \E h \in LinksAtOnce : SendFile(h) \/ LinkReturned(h)
    BY DEF OneRequestClient, ZeroXZero, BuzzHeavier, FuckingFast, GoFile, PixelDrain, LinksAtOnce
  <1> QED
    BY <1>1, <1>2, <1>3, <1>4, <1>5

\* A call fails, whatever the service.
LEMMA ErrorStep ==
    ASSUME IndInv, UNCHANGED <<inputs, cancelled, attempt, server>>,
           pc \in Calls \ {"abort"}, NEW why \in Outcomes, HostError(why)
    PROVE  IndInv'
  <1>0. /\ UNCHANGED <<offer, urls>> /\ offer' \in Offers[host] \cup {None} /\ urls' \in SUBSET Parts
        /\ pc \in CallsOf(host) \cup {"start"} /\ pc # "start"
    BY ClientFacts DEF HostError, Calls
  <1>1. CASE MochaError(why)
    <2>1. CASE pc \in {"init", "publish"}
      <3>1. Fail(why) /\ (pc = "init" \/ Stored(attempt))
        BY <1>1, <2>1, ClientFacts DEF MochaError
      <3> QED
        BY <1>0, <3>1, FailStep
    <2>2. CASE pc \notin {"init", "publish"}
      <3>1. FailAndAbort(why) /\ host = "mocha" /\ pc \in Calls \ {"abort", "sign"}
        BY <1>0, <1>1, <2>2 DEF MochaError, CallsOf
      <3> QED
        BY <1>0, <2>2, <3>1, AbortStep
    <2> QED
      BY <2>1, <2>2
  <1>2. CASE StorageToError(why)
    <2>1. CASE pc \in {"urls", "part", "complete"}
      <3>1. FailAndAbort(why) /\ pc \in Calls \ {"abort", "sign"} /\ pc # "init"
        BY <1>2, <2>1 DEF StorageToError, Calls
      <3> QED
        BY <1>0, <3>1, AbortStep
    <2>2. CASE pc \notin {"urls", "part", "complete"}
      <3>1. Fail(why) /\ host = "storageto" /\ pc \in {"init", "put", "publish"}
        BY <1>0, <1>2, <2>2 DEF StorageToError, CallsOf
      <3>2. pc = "put" => server[attempt].offer.multipart = FALSE
        BY <3>1 DEF IndInv, LoopsFit
      <3>3. pc = "publish" => Stored(attempt)
        BY ClientFacts
      <3> QED
        BY <1>0, <3>1, <3>2, <3>3, FailStep
    <2> QED
      BY <2>1, <2>2
  <1>3. CASE ZincError(why) \/ VikingError(why) \/ OneRequestError(why)
    <2>1. Fail(why) /\ host \notin {"mocha", "storageto"}
      BY <1>3 DEF ZincError, VikingError, OneRequestError, LinksAtOnce
    <2> QED
      BY <1>0, <2>1, FailStep
  <1> QED
    BY <1>1, <1>2, <1>3 DEF HostError

-----------------------------------------------------------------------------
(* The theorems.                                                           *)

\* Every step of the client, the network, the servers and the user keeps the
\* invariant.
LEMMA StepInv == IndInv /\ [Next]_vars => IndInv'
  <1> SUFFICES ASSUME IndInv, [Next]_vars PROVE IndInv'
    OBVIOUS
  <1>1. CASE Client
    <2>1. UNCHANGED <<inputs, cancelled, server>>
      BY <1>1 DEF Client
    <2>2. CASE HostClient /\ UNCHANGED attempt
      BY <2>1, <2>2, MochaSteps, StorageToSteps, ZincSteps, VikingSteps, OneRequestSteps DEF HostClient
    <2>3. CASE Refused /\ UNCHANGED attempt
      <3> DEFINE why == IF answer.status = "linkless" THEN "unusable" ELSE answer.status
      <3>1. pc \in Calls \ {"abort"} /\ HostError(why) /\ why \in Outcomes
        BY <2>3, ClientFacts DEF Refused, Outcomes, Statuses
      <3> QED
        BY <2>1, <2>3, <3>1, ErrorStep
    <2>4. CASE AbortReturns /\ UNCHANGED attempt
      BY <2>1, <2>4, AroundStep
    <2>5. CASE Retry
      BY <2>1, <2>5, AroundStep
    <2> QED
      BY <1>1, <2>2, <2>3, <2>4, <2>5 DEF Client
  <1>2. CASE TimesOut
    <2>1. /\ pc \in Calls \ {"abort"} /\ HostError("lost") /\ "lost" \in Outcomes
          /\ UNCHANGED <<inputs, cancelled, attempt, server>>
      BY <1>2 DEF TimesOut, Unanswered, Outcomes
    <2> QED
      BY <2>1, ErrorStep
  <1>3. CASE Server
    BY <1>3, ServerStep
  <1>4. CASE Cancel
    BY <1>4, AroundStep DEF Cancel
  <1>5. CASE UNCHANGED vars
    BY <1>5, AroundStep DEF vars
  <1> QED
    BY <1>1, <1>2, <1>3, <1>4, <1>5 DEF Next

\* The inductive invariant holds of every behaviour of the uploads.
THEOREM IndInvHolds == Spec => []IndInv
  BY InitInv, StepInv, PTL DEF Spec

\* Every variable keeps its type; no loop leaves the parts MaxParts allows.
THEOREM TypeCorrect == Spec => []TypeOK
  <1>1. IndInv => TypeOK
    BY DEF IndInv
  <1> QED
    BY IndInvHolds, <1>1, PTL

\* Whatever the server answers and however late a call arrives, a stored file has
\* its bytes in order, from the first one on, and all of them when the parts the
\* server asked for cover it (mocha.go:268, storageto.go:236, zincdrive.go:327,
\* vikingfile.go:133).
THEOREM StoredInOrder == Spec => []StoredFilesAreInOrder
  <1>1. IndInv => StoredFilesAreInOrder
    BY DEF IndInv
  <1> QED
    BY IndInvHolds, <1>1, PTL

\* Upload succeeds only when this attempt's session is published, and its result
\* then holds a link (mocha.go:170, storageto.go:126), but for gofile and
\* buzzheavier, which do not look for one (gofile.go:126, buzzheavier.go:154).
THEOREM SuccessHasALink == Spec => []SuccessIsPublished
  <1>1. IndInv => SuccessIsPublished
    BY DEF IndInv
  <1> QED
    BY IndInvHolds, <1>1, PTL

\* A failed attempt leaves a file behind only when it failed at its commit or
\* after it (mocha.go:180, zincdrive.go:158).
THEOREM FilesComeFromCommits == Spec => []OnlyCommitsStoreFiles
  <1>1. IndInv => OnlyCommitsStoreFiles
    <2> SUFFICES ASSUME IndInv, NEW a \in Attempts, Stored(a), FailedAt(a) # "none"
                 PROVE  FailedAt(a) \in Commits
      BY DEF OnlyCommitsStoreFiles
    <2>1. Committed(a)
      BY DEF IndInv, CommitsAreReached
    <2>2. outcome[a] # None /\ outcome[a].why \notin {"ok", "linkless"} /\ FailedAt(a) = outcome[a].at
      BY DEF FailedAt
    <2>3. ~(a = attempt /\ pc \in Commits)
      BY <2>2 DEF IndInv, OneAfterAnother, Ended, Commits
    <2> QED
      BY <2>1, <2>2, <2>3 DEF Committed
  <1> QED
    BY IndInvHolds, <1>1, PTL

\* Mocha and storage.to leave no session open that they know of and failed in,
\* once the calls of that attempt have arrived, cancelled or not, unless the server
\* turned the clean-up down, which neither client looks at (mocha.go:165,
\* mocha.go:547, storageto.go:225).
THEOREM FailuresLeaveNothingOpen == Spec => []SessionsAreGivenUp
  <1>1. IndInv => SessionsAreGivenUp
    BY DEF IndInv, FailuresAreGivenUp, SessionsAreGivenUp
  <1> QED
    BY IndInvHolds, <1>1, PTL

=============================================================================
