--------------------------- MODULE InterimProofs ---------------------------
(***************************************************************************)
(* Proofs about Interim, for any file sizes, intents, batches and numbers  *)
(* of attempts: the model is well typed, the client reads the file to its  *)
(* end and not further, what the server commits is the whole file, a       *)
(* result stands for a committed file, a definite refusal for none, and an *)
(* attempt that fails with an intent in hand aborts it.                    *)
(***************************************************************************)
EXTENDS Interim, TLAPS

\* The attempt is under way.
Running == (Calls \ {"abort"}) \cup {"start", "sleep"}

\* An attempt has an outcome once it is over.
OutcomesFit ==
    /\ \A a \in Attempts : a > attempt => outcome[a] = None
    /\ pc \in Running => outcome[attempt] = None
    /\ pc = "ok" => outcome[attempt] = "ok"

\* The piece of the file that is part n of an upload under intent i.
PieceOf(i, n) == IF i.mode = "single" THEN [from |-> 0, len |-> size]
                 ELSE [from |-> (n - 1) * i.partSize, len |-> PartLength(i, n)]

\* The client is at part n of a multipart upload.
AtPart(i, n) ==
    /\ i # None /\ i.mode = "multipart" /\ ExpectedParts(i) = i.partCount
    /\ n \in 1..i.partCount

\* How far the client is in the file: before it, between parts, past one of
\* them, or at its end.
ReaderFits ==
    /\ pc \in (Calls \ {"abort"}) \cup {"sleep"} => size > 0
    /\ pc \in {"start", "create"} => intent = None /\ offset = 0
    /\ pc = "put" => intent # None /\ intent.mode = "single" /\ part = 1 /\ offset = size
    /\ pc = "urls" => AtPart(intent, part) /\ offset = (part - 1) * intent.partSize
    /\ pc \in {"part", "report"} =>
          /\ AtPart(intent, part) /\ PartLength(intent, part) \in 1..intent.partSize
          /\ offset = (part - 1) * intent.partSize + PartLength(intent, part)
    /\ pc \in {"complete", "sleep"} => intent # None /\ part > 0 /\ offset = size
    /\ pc = "complete" => tries > 0
    /\ pc = "sleep" => tries < CompleteAttempts
    /\ offset <= size

\* A call on its way belongs to what the server knows of its attempt.
RequestFits(r) ==
    LET s == server[r.attempt] IN
    /\ r.attempt <= attempt /\ (r.attempt = attempt => pc # "start")
    /\ r.kind = "create" => s.state = "none" /\ r.part = 0 /\ r.from = 0 /\ r.len = 0
    /\ r.kind # "create" => s.intent # None
    /\ r.kind \in Transfers \cup {"report"} => r.part > 0
    /\ r.kind = "put" => r.part = 1
    /\ r.kind \in Transfers => [from |-> r.from, len |-> r.len] = PieceOf(s.intent, r.part)
    /\ r.kind = "complete" =>
          /\ r.from = 0 /\ r.len = 0
          /\ \/ outcome[r.attempt] = "lost"
             \/ r.attempt = attempt /\ pc = "complete" /\ answer = None /\ r.part = part
CallsFit == \A r \in net : RequestFits(r)

\* What the server has of an intent are pieces of the file under it.
RecordFits(s) ==
    /\ s.state = "none" <=> s.intent = None
    /\ \A n \in Parts : s.stored[n] # None
          => s.intent # None /\ s.stored[n] = PieceOf(s.intent, n)
    /\ \A n \in s.reported : s.stored[n] # None
    /\ s.state = "committed" => Complete(s)
ServerFits ==
    /\ \A a \in Attempts : RecordFits(server[a])
    /\ \A a \in Attempts : a > attempt \/ (a = attempt /\ pc = "start") => server[a].state = "none"

\* The client's intent is the one the server created for this attempt.
IntentFits ==
    /\ intent # None => server[attempt].intent = intent
    /\ pc = "create" /\ answer # None /\ answer.status = "ok"
          => answer.intent # None /\ server[attempt].intent = answer.intent

\* A commit is known of, or its answer was lost, hidden or of no use.
CommitsFit ==
    /\ pc = "ok" => server[attempt].state = "committed"
    /\ pc = "complete" /\ answer # None /\ answer.status = "ok"
          => server[attempt].state = "committed"
    /\ \A a \in Attempts : server[a].state = "committed" =>
          \/ outcome[a] \in {"ok", "unusable", "transient", "lost"}
          \/ /\ a = attempt /\ pc = "complete"
             /\ answer # None /\ answer.status \in {"ok", "unusable", "transient"}

\* abort is being called, has been called, or is not due yet.
AbortIsDue ==
    /\ pc = "abort" => aborted /\ intent # None /\ intent.hasAbort
    /\ pc = "failed" /\ intent # None => aborted = intent.hasAbort
    /\ pc \notin {"abort", "failed"} => ~aborted

IndInv == /\ TypeOK /\ OutcomesFit /\ ReaderFits /\ AbortIsDue
          /\ CallsFit /\ ServerFits /\ IntentFits /\ CommitsFit

-----------------------------------------------------------------------------

\* The assumptions on the constants, as the proofs use them.
LEMMA ConstantFacts ==
    /\ Sizes \subseteq Nat /\ MaxParts \in Nat \ {0} /\ MaxAttempts \in Nat \ {0}
    /\ CompleteAttempts \in Nat \ {0} /\ PartBatch \in Nat \ {0}
    /\ Attempts = 1..MaxAttempts /\ 1 \in Attempts
    /\ Parts = 1..MaxParts /\ Parts \subseteq 0..MaxParts /\ 1 \in Parts
    /\ None \notin Offers /\ None \notin Answer /\ None \notin Outcomes /\ None \notin Piece
  BY InterimAssumption, OffersAssumption, NoneAssumption DEF Attempts, Parts

\* What an offered intent is made of.
LEMMA OfferFacts ==
    ASSUME NEW i \in Offers
    PROVE  /\ i # None /\ i.mode \in {"single", "multipart"}
           /\ i.partSize \in Nat \ {0} /\ i.partCount \in 1..MaxParts
           /\ i.hasComplete \in BOOLEAN /\ i.hasAbort \in BOOLEAN
  BY OffersAssumption DEF Intent, Parts

\* If the part count fits the file, all parts before the last are full and the
\* last has something left to carry.
LEMMA GeometryFits ==
    ASSUME NEW i \in Offers, size \in Nat, ExpectedParts(i) = i.partCount
    PROVE  /\ (i.partCount - 1) * i.partSize \in Int
           /\ (i.partCount - 1) * i.partSize < size
           /\ size <= (i.partCount - 1) * i.partSize + i.partSize
  <1> DEFINE p == i.partSize
             q == i.partCount
             y == size + p - 1
  <1>1. p \in Nat \ {0} /\ q \in Nat /\ y \in Nat /\ q = y \div p
    BY OfferFacts DEF ExpectedParts
  <1> HIDE DEF p, q, y
  <1>2. p * q <= y /\ y < p * q + p
    BY <1>1
  <1>3. (q - 1) * p = p * q - p /\ p * q \in Int
    BY <1>1
  <1>4. y = size + p - 1
    BY DEF y
  <1>5. (q - 1) * p \in Int /\ (q - 1) * p < size /\ size <= (q - 1) * p + p
    BY <1>1, <1>2, <1>3, <1>4
  <1> QED
    BY <1>5 DEF p, q

\* Where a part starts and ends in the file.
LEMMA PartFacts ==
    ASSUME NEW i \in Offers, NEW n, size \in Nat, AtPart(i, n)
    PROVE  /\ (n - 1) * i.partSize \in Nat /\ (n - 1) * i.partSize <= size
           /\ n * i.partSize = (n - 1) * i.partSize + i.partSize
           /\ PartLength(i, n) \in Int
           /\ n < i.partCount => PartLength(i, n) = i.partSize /\ n * i.partSize <= size
           /\ n = i.partCount => (n - 1) * i.partSize + PartLength(i, n) = size
  <1> DEFINE p == i.partSize
             q == i.partCount
  <1>1. /\ p \in Nat \ {0} /\ q \in Nat /\ n \in 1..q
        /\ (q - 1) * p \in Int /\ (q - 1) * p < size
    BY OfferFacts, GeometryFits DEF AtPart
  <1>2. PartLength(i, n) = IF n < q THEN p ELSE size - (q - 1) * p
    BY DEF PartLength
  <1> HIDE DEF p, q
  <1>3. n * p = (n - 1) * p + p /\ (n - 1) * p \in Nat
    BY <1>1
  <1>4. n < q => n * p <= (q - 1) * p
    BY <1>1
  <1>5. n = q => (n - 1) * p = (q - 1) * p
    OBVIOUS
  <1>6. n = q \/ n < q
    BY <1>1
  <1>7. (n - 1) * p \in Nat /\ n * p \in Nat
    BY <1>1, <1>3
  <1> DEFINE a == (n - 1) * p
             b == (q - 1) * p
             c == n * p
  <1>8. /\ a \in Nat /\ b \in Int /\ c \in Nat /\ b < size /\ c = a + p
        /\ (n < q => c <= b) /\ (n = q => a = b) /\ (n = q \/ n < q)
        /\ PartLength(i, n) = IF n < q THEN p ELSE size - b
    BY <1>1, <1>2, <1>3, <1>4, <1>5, <1>6, <1>7
  <1> HIDE DEF a, b, c
  <1>9. /\ a \in Nat /\ a <= size /\ c = a + p /\ PartLength(i, n) \in Int
        /\ (n < q => PartLength(i, n) = p /\ c <= size)
        /\ (n = q => a + PartLength(i, n) = size)
    BY <1>1, <1>8
  <1> QED
    BY <1>9 DEF a, c, p, q

-----------------------------------------------------------------------------

\* A call the client may make: of an intent the server knows, and a transfer of
\* the piece its number stands for.
Prepared(kind, n, from, len) ==
    LET s == server[attempt] IN
    /\ n \in 0..MaxParts /\ from \in Nat /\ len \in Nat
    /\ kind = "create" => s.state = "none" /\ n = 0 /\ from = 0 /\ len = 0
    /\ kind # "create" => s.intent # None
    /\ kind \in Transfers \cup {"report"} => n > 0
    /\ kind = "put" => n = 1
    /\ kind \in Transfers => [from |-> from, len |-> len] = PieceOf(s.intent, n)
    /\ kind = "complete" => from = 0 /\ len = 0

\* A call of an attempt under way, made where the reader fits it.
LEMMA AskStep ==
    ASSUME IndInv, NEW kind \in Calls \ {"abort"}, NEW n, NEW from, NEW len,
           Ask(kind, n, from, len), Prepared(kind, n, from, len), pc \in Running \ {"complete"},
           UNCHANGED <<size, cancelled, attempt, aborted, outcome, server>>,
           intent' \in Offers \cup {None}, urls' \in SUBSET Parts, offset' \in Nat,
           tries' \in 0..CompleteAttempts,
           intent' # None => server[attempt].intent = intent',
           ReaderFits'
    PROVE  IndInv'
  <1> DEFINE new == [kind |-> kind, attempt |-> attempt, part |-> n, from |-> from, len |-> len]
  <1>1. pc' = kind /\ part' = n /\ answer' = None /\ (net' = net \/ net' = net \cup {new})
    BY DEF Ask
  <1>2. kind \in Running /\ kind # "start" /\ kind # "ok"
    BY DEF Running, Calls
  <1>3. TypeOK'
    <2>1. new \in Request
      BY DEF Request, Prepared, IndInv, TypeOK
    <2> QED
      BY <1>1, <2>1 DEF IndInv, TypeOK, Prepared
  <1>4. OutcomesFit'
    BY <1>1, <1>2 DEF IndInv, OutcomesFit, Running
  <1>5. CallsFit'
    <2>1. ASSUME NEW r \in net PROVE RequestFits(r)'
      <3>1. RequestFits(r)
        BY DEF IndInv, CallsFit
      <3> QED
        BY <1>1, <1>2, <3>1 DEF RequestFits, PieceOf, PartLength
    <2>2. RequestFits(new)'
      <3>1. Prepared(kind, n, from, len) /\ attempt \in Int
        BY ConstantFacts DEF IndInv, TypeOK
      <3> QED
        BY <1>1, <1>2, <3>1 DEF RequestFits, PieceOf, PartLength, Prepared, Transfers
    <2> QED
      BY <1>1, <2>1, <2>2 DEF CallsFit
  <1>6. ServerFits'
    <2>1. ASSUME NEW a \in Attempts PROVE RecordFits(server[a])'
      BY DEF IndInv, ServerFits, RecordFits, PieceOf, PartLength, Complete
    <2> QED
      BY <1>1, <1>2, <2>1 DEF IndInv, ServerFits
  <1>7. IntentFits'
    BY <1>1 DEF IntentFits
  <1>8. CommitsFit'
    BY <1>1, <1>2 DEF IndInv, CommitsFit
  <1>9. AbortIsDue'
    BY <1>1 DEF IndInv, AbortIsDue, Running, Calls
  <1> QED
    BY <1>3, <1>4, <1>5, <1>6, <1>7, <1>8, <1>9 DEF IndInv

\* What an attempt under way may end with: anything before it asks for the
\* completion, then what the answer says or no answer.
Reasoned(why) ==
    /\ why \in Outcomes \ {"ok"}
    /\ \/ why = "lost" \/ pc # "complete"
       \/ /\ answer # None /\ answer.status = why
          /\ why \in {"conflict", "unusable", "transient", "permanent"}

LEMMA FailStep ==
    ASSUME IndInv, NEW why, NEW i \in Offers \cup {None},
           Fail(why, i), Reasoned(why), pc \in Running,
           UNCHANGED <<size, cancelled, attempt, part, offset, tries, server>>,
           urls' \in SUBSET Parts, intent' = i, i # None => server[attempt].intent = i
    PROVE  IndInv'
  <1> USE ConstantFacts
  <1> DEFINE new == [kind |-> "abort", attempt |-> attempt, part |-> part, from |-> 0, len |-> 0]
  <1>1. /\ pc' \in {"abort", "failed"} /\ answer' = None /\ aborted' \in BOOLEAN
        /\ outcome' = [outcome EXCEPT ![attempt] = why]
        /\ net' = net \/ (i # None /\ net' = net \cup {new})
    BY DEF Fail, IndInv, TypeOK
  <1>2. /\ outcome \in [Attempts -> Outcomes \cup {None}] /\ attempt \in Attempts
        /\ outcome'[attempt] = why /\ outcome[attempt] = None
        /\ \A a \in Attempts : a # attempt => outcome'[a] = outcome[a]
    BY <1>1 DEF IndInv, TypeOK, OutcomesFit
  <1>3. TypeOK'
    <2>1. new \in Request
      BY DEF Request, Calls, IndInv, TypeOK
    <2>2. outcome' \in [Attempts -> Outcomes \cup {None}]
      BY <1>1, <1>2 DEF Reasoned
    <2>3. pc' \in Calls \cup {"start", "sleep", "failed", "ok"}
      BY <1>1 DEF Calls
    <2> QED
      BY <1>1, <2>1, <2>2, <2>3 DEF IndInv, TypeOK
  <1>4. OutcomesFit'
    BY <1>1, <1>2 DEF IndInv, OutcomesFit, Running, Calls
  <1>5. ReaderFits'
    BY <1>1 DEF IndInv, ReaderFits, Calls
  <1>6. CallsFit'
    <2>1. ASSUME NEW r \in net PROVE RequestFits(r)'
      <3>1. RequestFits(r) /\ r \in Request
        BY DEF IndInv, CallsFit, TypeOK
      <3>2. r.kind = "complete" => outcome'[r.attempt] = "lost"
        BY <1>2, <3>1 DEF RequestFits, Reasoned, Request, Outcomes
      <3> QED
        BY <1>1, <3>1, <3>2 DEF RequestFits, PieceOf, PartLength
    <2>2. i # None => RequestFits(new)'
      BY <1>1 DEF RequestFits, Transfers, IndInv, TypeOK
    <2> QED
      BY <1>1, <2>1, <2>2 DEF CallsFit
  <1>7. ServerFits'
    <2>1. ASSUME NEW a \in Attempts PROVE RecordFits(server[a])'
      BY DEF IndInv, ServerFits, RecordFits, PieceOf, PartLength, Complete
    <2> QED
      BY <1>1, <2>1 DEF IndInv, ServerFits
  <1>8. IntentFits'
    BY <1>1 DEF IntentFits
  <1>9. CommitsFit'
    <2>1. server[attempt].state = "committed" => why \in {"unusable", "transient", "lost"}
      BY <1>2 DEF IndInv, CommitsFit, Reasoned, Outcomes, Statuses
    <2> QED
      BY <1>1, <1>2, <2>1 DEF IndInv, CommitsFit
  <1>10. AbortIsDue'
    <2>1. aborted = FALSE
      BY DEF IndInv, AbortIsDue, TypeOK, Running, Calls
    <2>2. CASE i # None /\ i.hasAbort
      <3>1. pc' = "abort" /\ aborted' = TRUE
        BY <2>2 DEF Fail
      <3> QED
        BY <2>2, <3>1 DEF AbortIsDue
    <2>3. CASE ~(i # None /\ i.hasAbort)
      <3>1. pc' = "failed" /\ aborted' = FALSE
        BY <2>1, <2>3 DEF Fail
      <3>2. i # None => i.hasAbort = FALSE
        BY <2>3, OfferFacts
      <3> QED
        BY <3>1, <3>2 DEF AbortIsDue
    <2> QED
      BY <2>2, <2>3
  <1> QED
    BY <1>3, <1>4, <1>5, <1>6, <1>7, <1>8, <1>9, <1>10 DEF IndInv

-----------------------------------------------------------------------------

\* The intent in hand is an offered one, and the server's own.
LEMMA HandFacts ==
    ASSUME IndInv
    PROVE  /\ size \in Nat /\ attempt \in Attempts /\ offset \in Nat
           /\ urls \in SUBSET Parts /\ part \in 0..MaxParts /\ tries \in 0..CompleteAttempts
           /\ intent \in Offers \cup {None}
           /\ intent # None => intent \in Offers /\ server[attempt].intent = intent
  BY ConstantFacts DEF IndInv, TypeOK, IntentFits

\* The completion is asked for, or cannot be, at the end of the file.
LEMMA BeginCompleteStep ==
    ASSUME IndInv, BeginComplete, pc \in {"put", "report"}, intent # None,
           offset = size, part > 0,
           UNCHANGED <<size, cancelled, attempt, intent, urls, offset, server>>
    PROVE  IndInv'
  <1> USE HandFacts, ConstantFacts
  <1>1. pc \in Running \ {"complete"} /\ size > 0
    BY DEF Running, Calls, IndInv, ReaderFits
  <1>2. CASE /\ Ask("complete", part, 0, 0) /\ tries' = 1
             /\ UNCHANGED <<aborted, outcome>>
    <2>1. "complete" \in Calls \ {"abort"} /\ 1 \in 0..CompleteAttempts
      BY DEF Calls
    <2>2. Prepared("complete", part, 0, 0)
      BY DEF Prepared, Transfers
    <2>3. pc' = "complete" /\ part' = part
      BY <1>2 DEF Ask
    <2>4. ReaderFits'
      BY <1>1, <1>2, <2>3 DEF ReaderFits, Calls
    <2> QED
      BY <1>1, <1>2, <2>1, <2>2, <2>4, AskStep
  <1>3. CASE Fail("local", intent) /\ UNCHANGED <<part, tries>>
    <2>1. Reasoned("local")
      BY <1>1 DEF Reasoned, Outcomes, Statuses
    <2> QED
      BY <1>1, <1>3, <2>1, FailStep
  <1> QED
    BY <1>2, <1>3 DEF BeginComplete

\* One turn of the part loop, for the part the reader is at.
LEMMA PutPartStep ==
    ASSUME IndInv, NEW n, NEW us \in SUBSET Parts, PutPart(n, us), pc \in {"urls", "report"},
           AtPart(intent, n), offset = (n - 1) * intent.partSize, urls' = us,
           UNCHANGED <<size, cancelled, attempt, intent, tries, server>>
    PROVE  IndInv'
  <1> USE HandFacts, ConstantFacts
  <1>1. pc \in Running \ {"complete"} /\ size > 0
    BY DEF Running, Calls, IndInv, ReaderFits
  <1>2. intent \in Offers /\ server[attempt].intent = intent
    BY DEF AtPart
  <1> DEFINE length == PartLength(intent, n)
             p      == intent.partSize
             before == (n - 1) * p
  <1>3. /\ n \in 1..intent.partCount /\ n \in 1..MaxParts /\ p \in Nat
        /\ before \in Nat /\ length \in Int
        /\ n < intent.partCount => length = p /\ before + p <= size
        /\ n = intent.partCount => before + length = size
    <2>1. n \in 1..intent.partCount /\ p \in Nat \ {0} /\ intent.partCount \in 1..MaxParts
      BY <1>2, OfferFacts DEF AtPart
    <2>2. /\ before \in Nat /\ n * p = before + p /\ length \in Int
          /\ n < intent.partCount => length = p /\ n * p <= size
          /\ n = intent.partCount => before + length = size
      BY <1>2, PartFacts
    <2> DEFINE after == n * p
    <2>3. /\ before \in Nat /\ after = before + p /\ length \in Int
          /\ n < intent.partCount => length = p /\ after <= size
          /\ n = intent.partCount => before + length = size
      BY <2>2
    <2> HIDE DEF after, before, length, p
    <2> QED
      BY <2>1, <2>3
  <1>4. CASE /\ n \in us /\ length > 0 /\ length <= p
             /\ Ask("part", n, offset, length) /\ offset' = offset + length
             /\ UNCHANGED <<aborted, outcome>>
    <2>1. "part" \in Calls \ {"abort"}
      BY DEF Calls
    <2>2. Prepared("part", n, offset, length)
      BY <1>2, <1>3, <1>4 DEF Prepared, PieceOf, AtPart, Transfers
    <2>3. pc' = "part" /\ part' = n
      BY <1>4 DEF Ask
    <2>4. offset' \in Nat /\ offset' <= size /\ offset' = before + length
      <3>1. offset = before /\ offset' = before + length /\ length > 0 /\ length <= p
        BY <1>4
      <3> HIDE DEF length, p, before
      <3>2. n = intent.partCount \/ n < intent.partCount
        BY <1>2, <1>3, OfferFacts
      <3> QED
        BY <1>3, <3>1, <3>2
    <2>5. AtPart(intent, n)' /\ PartLength(intent, n)' = length
      BY DEF AtPart, ExpectedParts, PartLength
    <2>6. length \in 1..p
      BY <1>3, <1>4
    <2>7. ReaderFits'
      BY <1>1, <2>3, <2>4, <2>5, <2>6 DEF ReaderFits, Calls
    <2> QED
      BY <1>1, <1>4, <2>1, <2>2, <2>4, <2>7, <1>2, AskStep
  <1>5. CASE Fail("local", intent) /\ UNCHANGED <<part, offset>>
    <2>1. Reasoned("local")
      BY <1>1 DEF Reasoned, Outcomes, Statuses
    <2> QED
      BY <1>1, <1>5, <2>1, FailStep
  <1> QED
    BY <1>4, <1>5 DEF PutPart

-----------------------------------------------------------------------------

\* Every step of the client that makes a call or ends the attempt.
LEMMA CallingStep ==
    ASSUME IndInv,
           \/ Start \/ IntentCreated \/ ObjectStored \/ URLsReceived \/ PartStored
           \/ PartReported \/ CompleteAgain
    PROVE  IndInv'
  <1> USE HandFacts, ConstantFacts
  <1>0. /\ pc \in Calls \ {"abort"} => size > 0 /\ pc \in Running
        /\ pc \in {"start", "create"} => intent = None
        /\ answer # None => answer \in Answer
    BY DEF IndInv, ReaderFits, TypeOK, Running
  <1>c. Calls = {"create", "put", "urls", "part", "report", "complete", "abort"}
    BY DEF Calls
  <1>o. "local" \in Outcomes \ {"ok"}
    BY DEF Outcomes, Statuses
  <1>1. CASE Start
    <2>1. pc = "start" /\ pc \in Running \ {"complete"} /\ UNCHANGED <<size, cancelled, attempt, intent, urls, offset, tries, server>>
      BY <1>1 DEF Start, Running
    <2>2. CASE size > 0 /\ Ask("create", 0, 0, 0) /\ UNCHANGED <<aborted, outcome>>
      <3>1. Prepared("create", 0, 0, 0)
        BY <2>1 DEF Prepared, Transfers, IndInv, ServerFits
      <3>2. pc' = "create"
        BY <2>2 DEF Ask
      <3>3. ReaderFits'
        BY <1>0, <2>1, <2>2, <3>2 DEF ReaderFits, IndInv
      <3> QED
        BY <1>c, <2>1, <2>2, <3>1, <3>3, AskStep
    <2>3. CASE Fail("local", intent) /\ UNCHANGED part
      <3>1. Reasoned("local")
        BY <1>o, <2>1 DEF Reasoned
      <3> QED
        BY <2>1, <2>3, <3>1, FailStep
    <2> QED
      BY <1>1, <2>2, <2>3 DEF Start
  <1>2. CASE IntentCreated
    <2> DEFINE i == answer.intent
    <2>1. /\ pc = "create" /\ pc \in Running \ {"complete"} /\ size > 0 /\ intent' = i
          /\ UNCHANGED <<size, cancelled, attempt, urls, tries, server>>
      BY <1>0, <1>2, <1>c DEF IntentCreated, Answered
    <2>2. i \in Offers /\ server[attempt].intent = i
      BY <1>0, <1>2 DEF IntentCreated, Answered, IndInv, IntentFits, Answer
    <2>3. offset \in Nat /\ offset <= size /\ offset = 0
      BY <2>1 DEF IndInv, ReaderFits
    <2>4. CASE i.mode = "single" /\ Ask("put", 1, 0, size) /\ offset' = size /\ UNCHANGED <<aborted, outcome>>
      <3>1. Prepared("put", 1, 0, size)
        BY <2>2, <2>4 DEF Prepared, PieceOf
      <3>2. pc' = "put" /\ part' = 1
        BY <2>4 DEF Ask
      <3>3. ReaderFits'
        BY <2>1, <2>2, <2>4, <3>2 DEF ReaderFits
      <3> QED
        BY <1>c, <2>1, <2>2, <2>4, <3>1, <3>3, AskStep
    <2>5. CASE /\ i.mode = "multipart" /\ ExpectedParts(i) = i.partCount
               /\ Ask("urls", 1, 0, 0) /\ UNCHANGED <<offset, aborted, outcome>>
      <3>1. Prepared("urls", 1, 0, 0)
        BY <2>2, <2>5 DEF Prepared, Transfers
      <3>2. pc' = "urls" /\ part' = 1
        BY <2>5 DEF Ask
      <3>3. AtPart(intent, part)' /\ i.partSize \in Nat /\ (1 - 1) * i.partSize = 0
        BY <2>1, <2>2, <2>5, <3>2, OfferFacts DEF AtPart, ExpectedParts
      <3>4. ReaderFits'
        BY <2>1, <2>3, <2>5, <3>2, <3>3 DEF ReaderFits
      <3> QED
        BY <1>c, <2>1, <2>2, <2>5, <3>1, <3>4, AskStep
    <2>6. CASE Fail("local", i) /\ UNCHANGED <<part, offset>>
      <3>1. Reasoned("local")
        BY <1>o, <2>1 DEF Reasoned
      <3> QED
        BY <2>1, <2>2, <2>6, <3>1, FailStep
    <2> QED
      BY <1>2, <2>4, <2>5, <2>6 DEF IntentCreated
  <1>3. CASE ObjectStored
    <2>1. /\ pc = "put" /\ BeginComplete
          /\ UNCHANGED <<size, cancelled, attempt, intent, urls, offset, server>>
      BY <1>3 DEF ObjectStored, Answered
    <2>2. intent # None /\ part > 0 /\ offset = size
      BY <2>1 DEF IndInv, ReaderFits
    <2> QED
      BY <2>1, <2>2, BeginCompleteStep
  <1>4. CASE URLsReceived
    <2>1. /\ pc = "urls" /\ answer # None /\ urls' = answer.numbers
          /\ PutPart(part, answer.numbers)
          /\ UNCHANGED <<size, cancelled, attempt, intent, tries, server>>
      BY <1>4 DEF URLsReceived, Answered
    <2>2. answer.numbers \in SUBSET Parts
      BY <1>0, <2>1 DEF Answer
    <2>3. AtPart(intent, part) /\ offset = (part - 1) * intent.partSize
      BY <2>1 DEF IndInv, ReaderFits
    <2> QED
      BY <2>1, <2>2, <2>3, PutPartStep
  <1>5. CASE PartStored
    <2>1. /\ pc = "part" /\ pc \in Running \ {"complete"} /\ size > 0
          /\ Ask("report", part, 0, PartLength(intent, part))
          /\ UNCHANGED <<size, cancelled, attempt, intent, urls, offset, tries, aborted, outcome, server>>
      BY <1>0, <1>5, <1>c DEF PartStored, Answered
    <2>2. /\ AtPart(intent, part) /\ PartLength(intent, part) \in 1..intent.partSize
          /\ offset = (part - 1) * intent.partSize + PartLength(intent, part)
          /\ intent \in Offers /\ part > 0 /\ offset <= size
      BY <2>1, OfferFacts DEF IndInv, ReaderFits, AtPart
    <2>3. PartLength(intent, part) \in Nat
      BY <2>2, OfferFacts
    <2>4. Prepared("report", part, 0, PartLength(intent, part))
      BY <2>2, <2>3 DEF Prepared, Transfers
    <2>5. pc' = "report" /\ part' = part
      BY <2>1 DEF Ask
    <2>6. AtPart(intent, part)' /\ PartLength(intent, part)' = PartLength(intent, part)
      BY <2>1, <2>2, <2>5 DEF AtPart, ExpectedParts, PartLength
    <2>7. ReaderFits'
      BY <2>1, <2>2, <2>5, <2>6 DEF ReaderFits
    <2> QED
      BY <1>c, <2>1, <2>2, <2>4, <2>7, AskStep
  <1>6. CASE PartReported
    <2>1. /\ pc = "report" /\ pc \in Running \ {"complete"} /\ size > 0
          /\ UNCHANGED <<size, cancelled, attempt, intent, urls, server>>
      BY <1>0, <1>6, <1>c DEF PartReported, Answered
    <2>2. /\ AtPart(intent, part) /\ intent \in Offers /\ intent # None /\ part > 0 /\ offset <= size
          /\ offset = (part - 1) * intent.partSize + PartLength(intent, part)
      BY <2>1, OfferFacts DEF IndInv, ReaderFits, AtPart
    <2>3. /\ part * intent.partSize = (part - 1) * intent.partSize + intent.partSize
          /\ part < intent.partCount => offset = part * intent.partSize
          /\ part = intent.partCount => offset = size
      BY <2>2, PartFacts
    <2>4. CASE part = intent.partCount /\ BeginComplete /\ UNCHANGED offset
      BY <2>1, <2>2, <2>3, <2>4, BeginCompleteStep
    <2>5. ASSUME part < intent.partCount
          PROVE  /\ AtPart(intent, part + 1) /\ part + 1 \in 1..MaxParts
                 /\ offset = ((part + 1) - 1) * intent.partSize
      BY <2>2, <2>3, <2>5, OfferFacts DEF AtPart
    <2>6. CASE /\ part < intent.partCount /\ Ask("urls", part + 1, 0, 0)
               /\ UNCHANGED <<offset, tries, aborted, outcome>>
      <3>1. Prepared("urls", part + 1, 0, 0)
        BY <2>2, <2>5, <2>6 DEF Prepared, Transfers
      <3>2. pc' = "urls" /\ part' = part + 1
        BY <2>6 DEF Ask
      <3>3. AtPart(intent, part)'
        BY <2>1, <2>5, <2>6, <3>2 DEF AtPart, ExpectedParts
      <3>4. ReaderFits'
        BY <2>1, <2>2, <2>5, <2>6, <3>2, <3>3 DEF ReaderFits
      <3> QED
        BY <1>c, <2>1, <2>2, <2>6, <3>1, <3>4, AskStep
    <2>7. CASE part < intent.partCount /\ PutPart(part + 1, urls) /\ UNCHANGED tries
      BY <2>1, <2>5, <2>7, PutPartStep
    <2> QED
      BY <1>6, <2>4, <2>6, <2>7 DEF PartReported
  <1>7. CASE CompleteAgain
    <2>1. /\ pc = "sleep" /\ pc \in Running \ {"complete"}
          /\ Ask("complete", part, 0, 0) /\ tries' = tries + 1
          /\ UNCHANGED <<size, cancelled, attempt, intent, urls, offset, aborted, outcome, server>>
      BY <1>7 DEF CompleteAgain, Running
    <2>2. intent # None /\ part > 0 /\ offset = size /\ tries < CompleteAttempts /\ size > 0
      BY <2>1 DEF IndInv, ReaderFits
    <2>3. Prepared("complete", part, 0, 0)
      BY <2>2 DEF Prepared, Transfers
    <2>4. pc' = "complete" /\ part' = part
      BY <2>1 DEF Ask
    <2>5. ReaderFits'
      BY <2>1, <2>2, <2>4 DEF ReaderFits
    <2> QED
      BY <1>c, <2>1, <2>2, <2>3, <2>5, AskStep
  <1> QED
    BY <1>1, <1>2, <1>3, <1>4, <1>5, <1>6, <1>7

\* A step that leaves the server and the calls alone keeps what they have.
LEMMA ServerKept ==
    ASSUME IndInv, UNCHANGED <<size, server>>
    PROVE  \A a \in Attempts : RecordFits(server[a])'
  <1> TAKE a \in Attempts
  <1> QED
    BY DEF IndInv, ServerFits, RecordFits, PieceOf, PartLength, Complete

\* Every other step of the client: it waits, ends the attempt, or goes on to
\* the next.
LEMMA EndingStep ==
    ASSUME IndInv,
           \/ Completed \/ CompleteConflict \/ SleepCancelled \/ Refused \/ Unanswered
           \/ AbortReturns \/ Retry
    PROVE  IndInv'
  <1> USE HandFacts, ConstantFacts
  <1>0. /\ pc \in Calls \ {"abort"} => pc \in Running
        /\ answer # None => answer \in Answer
    BY DEF IndInv, TypeOK, Running
  <1>c. Calls = {"create", "put", "urls", "part", "report", "complete", "abort"}
    BY DEF Calls
  <1>o. Outcomes = {"ok", "unusable", "conflict", "transient", "permanent", "lost", "local", "cancelled"}
    BY DEF Outcomes, Statuses
  <1>t. /\ outcome \in [Attempts -> Outcomes \cup {None}] /\ net \subseteq Request
        /\ OutcomesFit /\ CommitsFit /\ ReaderFits /\ CallsFit /\ ServerFits /\ AbortIsDue
        /\ aborted \in BOOLEAN
    BY DEF IndInv, TypeOK
  <1>1. CASE Completed
    <2>1. /\ pc = "complete" /\ answer # None /\ answer.status = "ok" /\ pc' = "ok"
          /\ outcome' = [outcome EXCEPT ![attempt] = "ok"] /\ answer' = None
          /\ UNCHANGED <<size, cancelled, attempt, intent, part, urls, offset, tries, aborted, net, server>>
      BY <1>1 DEF Completed, Answered
    <2>2. /\ outcome[attempt] = None /\ outcome'[attempt] = "ok"
          /\ \A a \in Attempts : a # attempt => outcome'[a] = outcome[a]
      BY <1>0, <1>c, <1>t, <2>1 DEF OutcomesFit
    <2>3. TypeOK'
      BY <1>c, <1>o, <1>t, <2>1 DEF IndInv, TypeOK
    <2>4. OutcomesFit'
      BY <1>c, <1>t, <2>1, <2>2 DEF OutcomesFit, Running
    <2>5. ReaderFits'
      BY <1>c, <1>t, <2>1 DEF ReaderFits
    <2>6. CallsFit'
      <3> SUFFICES ASSUME NEW r \in net PROVE RequestFits(r)'
        BY <2>1 DEF CallsFit
      <3>1. RequestFits(r) /\ r \in Request
        BY <1>t DEF CallsFit
      <3>2. r.kind = "complete" => r.attempt # attempt
        BY <1>o, <2>1, <2>2, <3>1 DEF RequestFits
      <3> QED
        BY <2>1, <2>2, <3>1, <3>2 DEF RequestFits, PieceOf, PartLength, Request
    <2>7. ServerFits'
      BY <1>t, <2>1, ServerKept DEF ServerFits
    <2>8. IntentFits'
      BY <2>1 DEF IndInv, IntentFits
    <2>9. CommitsFit'
      BY <1>t, <2>1, <2>2 DEF CommitsFit
    <2>10. AbortIsDue'
      BY <1>t, <2>1 DEF AbortIsDue
    <2> QED
      BY <2>3, <2>4, <2>5, <2>6, <2>7, <2>8, <2>9, <2>10 DEF IndInv
  <1>2. CASE CompleteConflict
    <2>1. /\ pc = "complete" /\ answer # None /\ answer.status = "conflict" /\ pc \in Running
          /\ UNCHANGED <<size, cancelled, attempt, intent, part, urls, offset, tries, server>>
      BY <1>0, <1>2, <1>c DEF CompleteConflict, Answered
    <2>2. CASE Fail("conflict", intent)
      <3>1. Reasoned("conflict")
        BY <1>o, <2>1 DEF Reasoned
      <3> QED
        BY <2>1, <2>2, <3>1, FailStep
    <2>3. CASE /\ tries # CompleteAttempts /\ pc' = "sleep" /\ answer' = None
               /\ UNCHANGED <<aborted, outcome, net>>
      <3>1. TypeOK'
        BY <2>1, <2>3 DEF IndInv, TypeOK
      <3>2. OutcomesFit'
        BY <1>t, <2>1, <2>3 DEF OutcomesFit
      <3>3. ReaderFits'
        BY <1>c, <1>t, <2>1, <2>3 DEF ReaderFits
      <3>4. CallsFit'
        <4> SUFFICES ASSUME NEW r \in net PROVE RequestFits(r)'
          BY <2>3 DEF CallsFit
        <4>1. RequestFits(r)
          BY <1>t DEF CallsFit
        <4> QED
          BY <2>1, <2>3, <4>1 DEF RequestFits, PieceOf, PartLength
      <3>5. ServerFits'
        BY <1>t, <2>1, <2>3, ServerKept DEF ServerFits
      <3>6. IntentFits'
        BY <2>1, <2>3 DEF IndInv, IntentFits
      <3>7. CommitsFit'
        BY <1>t, <2>1, <2>3 DEF CommitsFit
      <3>8. AbortIsDue'
        BY <1>t, <2>1, <2>3 DEF AbortIsDue
      <3> QED
        BY <3>1, <3>2, <3>3, <3>4, <3>5, <3>6, <3>7, <3>8 DEF IndInv
    <2> QED
      BY <1>2, <2>2, <2>3 DEF CompleteConflict
  <1>3. CASE SleepCancelled
    <2>1. /\ pc = "sleep" /\ pc \in Running /\ Fail("cancelled", intent)
          /\ UNCHANGED <<size, cancelled, attempt, intent, part, urls, offset, tries, server>>
      BY <1>3 DEF SleepCancelled, Running
    <2>2. Reasoned("cancelled")
      BY <1>o, <2>1 DEF Reasoned
    <2> QED
      BY <2>1, <2>2, FailStep
  <1>4. CASE Refused
    <2>1. /\ pc \in Running /\ answer # None /\ Fail(answer.status, intent)
          /\ answer.status \in {"unusable", "transient", "permanent"}
          /\ UNCHANGED <<size, cancelled, attempt, intent, part, urls, offset, tries, server>>
      BY <1>0, <1>4 DEF Refused
    <2>2. Reasoned(answer.status)
      BY <1>o, <2>1 DEF Reasoned
    <2> QED
      BY <2>1, <2>2, FailStep
  <1>5. CASE Unanswered
    <2>1. /\ pc \in Running /\ Fail("lost", intent)
          /\ UNCHANGED <<size, cancelled, attempt, intent, part, urls, offset, tries, server>>
      BY <1>0, <1>5 DEF Unanswered
    <2>2. Reasoned("lost")
      BY <1>o DEF Reasoned
    <2> QED
      BY <2>1, <2>2, FailStep
  <1>6. CASE AbortReturns
    <2>1. /\ pc = "abort" /\ pc' = "failed" /\ answer' = None
          /\ UNCHANGED <<size, cancelled, attempt, intent, part, urls, offset, tries, aborted,
                         outcome, net, server>>
      BY <1>6 DEF AbortReturns
    <2>2. TypeOK'
      BY <2>1 DEF IndInv, TypeOK
    <2>3. OutcomesFit'
      BY <1>c, <1>t, <2>1 DEF OutcomesFit, Running
    <2>4. ReaderFits'
      BY <1>c, <1>t, <2>1 DEF ReaderFits
    <2>5. CallsFit'
      <3> SUFFICES ASSUME NEW r \in net PROVE RequestFits(r)'
        BY <2>1 DEF CallsFit
      <3>1. RequestFits(r)
        BY <1>t DEF CallsFit
      <3> QED
        BY <2>1, <3>1 DEF RequestFits, PieceOf, PartLength
    <2>6. ServerFits'
      BY <1>t, <2>1, ServerKept DEF ServerFits
    <2>7. IntentFits'
      BY <2>1 DEF IndInv, IntentFits
    <2>8. CommitsFit'
      BY <1>t, <2>1 DEF CommitsFit
    <2>9. AbortIsDue'
      <3>1. intent # None => intent.hasAbort \in BOOLEAN
        BY OfferFacts
      <3> QED
        BY <1>t, <2>1, <3>1 DEF AbortIsDue
    <2> QED
      BY <2>2, <2>3, <2>4, <2>5, <2>6, <2>7, <2>8, <2>9 DEF IndInv
  <1>7. CASE Retry
    <2>1. /\ pc = "failed" /\ attempt < MaxAttempts /\ attempt' = attempt + 1
          /\ pc' = "start" /\ intent' = None
          /\ part' = 0 /\ urls' = {} /\ offset' = 0 /\ tries' = 0 /\ aborted' = FALSE
          /\ UNCHANGED <<size, cancelled, outcome, answer, net, server>>
      BY <1>7 DEF Retry
    <2>2. answer = None /\ attempt + 1 \in Attempts
      BY <1>c, <2>1 DEF IndInv, TypeOK
    <2>3. TypeOK'
      <3>1. /\ 0 \in 0..MaxParts /\ 0 \in 0..CompleteAttempts /\ {} \in SUBSET Parts
            /\ None \in Offers \cup {None}
        OBVIOUS
      <3>2. TypeOK
        BY DEF IndInv
      <3> QED
        BY ONLY <2>1, <2>2, <3>1, <3>2 DEF TypeOK
    <2>4. OutcomesFit'
      BY <1>t, <2>1, <2>2 DEF OutcomesFit
    <2>5. ReaderFits'
      BY <1>c, <2>1 DEF ReaderFits, AtPart
    <2>6. CallsFit'
      <3> SUFFICES ASSUME NEW r \in net PROVE RequestFits(r)'
        BY <2>1 DEF CallsFit
      <3>1. RequestFits(r) /\ r.attempt \in Attempts
        BY <1>t DEF CallsFit, Request
      <3> QED
        BY <2>1, <3>1 DEF RequestFits, PieceOf, PartLength
    <2>7. ServerFits'
      BY <1>t, <2>1, <2>2, ServerKept DEF ServerFits
    <2>8. IntentFits'
      BY <2>1 DEF IntentFits
    <2>9. CommitsFit'
      BY <1>t, <2>1 DEF CommitsFit
    <2>10. AbortIsDue'
      BY <2>1 DEF AbortIsDue
    <2> QED
      BY <2>3, <2>4, <2>5, <2>6, <2>7, <2>8, <2>9, <2>10 DEF IndInv
  <1> QED
    BY <1>1, <1>2, <1>3, <1>4, <1>5, <1>6, <1>7

-----------------------------------------------------------------------------

\* What the handling of call r, answered with that status and intent, may do
\* to the server: it touches no other attempt, never changes an intent, never
\* undoes a commit, and commits only for a completion it does not refuse.
Handled(r, status, i) ==
    LET s == server[r.attempt]
        t == server'[r.attempt] IN
    /\ server' \in [Attempts -> ServerRecord]
    /\ \A a \in Attempts : a # r.attempt => server'[a] = server[a]
    /\ RecordFits(t)
    /\ s.intent # None => t.intent = s.intent
    /\ s.state = "committed" => t.state = "committed"
    /\ t.state = "committed" /\ s.state # "committed"
          => r.kind = "complete" /\ status \in {"ok", "unusable", "transient"}
    /\ r.kind = "create" /\ status = "ok" => i # None /\ t.intent = i
    /\ r.kind = "complete" /\ status = "ok" => t.state = "committed"

\* A call that is handled so, and answered, keeps the invariant.
LEMMA ReplyStep ==
    ASSUME IndInv, NEW r \in net, NEW status \in Statuses, NEW i \in Offers \cup {None},
           NEW numbers \in SUBSET Parts, Reply(r, status, i, numbers), Handled(r, status, i)
    PROVE  IndInv'
  <1> USE ConstantFacts
  <1> DEFINE reply == [status |-> status, intent |-> i, numbers |-> numbers]
             s == server[r.attempt]
             t == server'[r.attempt]
  <1>1. /\ UNCHANGED <<size, cancelled, attempt, pc, intent, part, urls, offset, tries,
                       aborted, outcome>>
        /\ net' = net \ {r}
        /\ (IsAwaited(r) /\ answer' = reply) \/ (~IsAwaited(r) /\ answer' = answer)
    BY DEF Reply, clientVars
  <1>2. reply \in Answer /\ reply # None
    BY DEF Answer
  <1>3. RequestFits(r) /\ r \in Request /\ r.attempt \in Attempts /\ r.kind \in Calls
    BY DEF IndInv, CallsFit, TypeOK, Request
  <1>4. /\ server' \in [Attempts -> ServerRecord]
        /\ \A a \in Attempts : a # r.attempt => server'[a] = server[a]
        /\ RecordFits(t)
        /\ s.intent # None => t.intent = s.intent
        /\ s.state = "committed" => t.state = "committed"
        /\ t.state = "committed" /\ s.state # "committed"
              => r.kind = "complete" /\ status \in {"ok", "unusable", "transient"}
        /\ r.kind = "create" /\ status = "ok" => i # None /\ t.intent = i
        /\ r.kind = "complete" /\ status = "ok" => t.state = "committed"
    BY DEF Handled
  <1>5. /\ attempt \in Attempts /\ TypeOK /\ OutcomesFit /\ ReaderFits /\ ServerFits /\ IntentFits
        /\ CommitsFit /\ AbortIsDue /\ RecordFits(s)
    BY <1>3 DEF IndInv, TypeOK, ServerFits
  <1> HIDE DEF reply, s, t
  <1>6. TypeOK'
    <2>1. answer' = None \/ (answer' \in Answer /\ pc \in Calls)
      BY <1>1, <1>2, <1>3, <1>5 DEF TypeOK, IsAwaited
    <2> QED
      BY <1>1, <1>4, <1>5, <2>1 DEF TypeOK
  <1>7. OutcomesFit'
    BY <1>1, <1>5 DEF OutcomesFit
  <1>8. ReaderFits'
    BY <1>1, <1>5 DEF ReaderFits, AtPart, ExpectedParts, PartLength
  <1>9. CallsFit'
    <2> SUFFICES ASSUME NEW q \in net, q # r PROVE RequestFits(q)'
      BY <1>1 DEF CallsFit
    <2>1. RequestFits(q) /\ q \in Request /\ q.attempt \in Attempts
      BY DEF IndInv, CallsFit, TypeOK, Request
    <2>2. q.attempt # r.attempt \/ q.kind # r.kind \/ q.part # r.part \/ q.from # r.from \/ q.len # r.len
      BY <1>3, <2>1 DEF Request
    <2>3. q.kind = "create" => q.attempt # r.attempt
      BY <1>3, <1>5, <2>1, <2>2 DEF RequestFits, RecordFits, s
    <2>4. q.kind = "complete" /\ outcome[q.attempt] # "lost" => answer' = None
      BY <1>1, <1>3, <2>1, <2>2 DEF RequestFits, IsAwaited
    <2>5. q.kind # "create" => server'[q.attempt].intent # None /\ server'[q.attempt].intent = server[q.attempt].intent
      BY <1>4, <2>1 DEF RequestFits, s, t
    <2>6. q.kind = "create" => server'[q.attempt] = server[q.attempt]
      BY <1>4, <2>1, <2>3
    <2>7. q.kind \in Transfers => q.kind # "create"
      BY DEF Transfers
    <2> QED
      BY <1>1, <2>1, <2>4, <2>5, <2>6, <2>7 DEF RequestFits, PieceOf, PartLength
  <1>10. ServerFits'
    <2>1. ASSUME NEW a \in Attempts PROVE RecordFits(server[a])'
      <3>1. RecordFits(server'[a])
        BY <1>4, <1>5 DEF ServerFits, t
      <3> QED
        BY <1>1, <3>1 DEF RecordFits, PieceOf, PartLength, Complete
    <2>2. ASSUME NEW a \in Attempts, a > attempt \/ (a = attempt /\ pc = "start")
          PROVE  server'[a].state = "none"
      <3>1. a # r.attempt
        BY <1>3, <1>5, <2>2 DEF RequestFits, Attempts
      <3> QED
        BY <1>4, <1>5, <2>2, <3>1 DEF ServerFits
    <2> QED
      BY <1>1, <2>1, <2>2 DEF ServerFits
  <1>11. \A a \in Attempts : /\ server[a].intent # None => server'[a].intent = server[a].intent
                             /\ server[a].state = "committed" => server'[a].state = "committed"
    BY <1>4 DEF s, t
  <1>12. IntentFits'
    <2>1. intent # None => server'[attempt].intent = intent
      BY <1>5, <1>11 DEF IntentFits
    <2>2. ASSUME pc = "create", answer' # None, answer'.status = "ok"
          PROVE  answer'.intent # None /\ server'[attempt].intent = answer'.intent
      <3>1. CASE answer' = answer
        BY <1>5, <1>11, <2>2, <3>1 DEF IntentFits
      <3>2. CASE IsAwaited(r) /\ answer' = reply
        BY <1>4, <2>2, <3>2 DEF IsAwaited, reply, t
      <3> QED
        BY <1>1, <3>1, <3>2
    <2> QED
      BY <1>1, <2>1, <2>2 DEF IntentFits
  <1>13. CommitsFit'
    <2>1. pc = "ok" => server'[attempt].state = "committed"
      BY <1>5, <1>11 DEF CommitsFit
    <2>2. ASSUME pc = "complete", answer' # None, answer'.status = "ok"
          PROVE  server'[attempt].state = "committed"
      <3>1. CASE answer' = answer
        BY <1>5, <1>11, <2>2, <3>1 DEF CommitsFit
      <3>2. CASE IsAwaited(r) /\ answer' = reply
        BY <1>4, <2>2, <3>2 DEF IsAwaited, reply, t
      <3> QED
        BY <1>1, <3>1, <3>2
    <2>3. ASSUME NEW a \in Attempts, server'[a].state = "committed"
          PROVE  \/ outcome[a] \in {"ok", "unusable", "transient", "lost"}
                 \/ /\ a = attempt /\ pc = "complete"
                    /\ answer' # None /\ answer'.status \in {"ok", "unusable", "transient"}
      <3>1. CASE server[a].state = "committed"
        <4>1. answer # None => answer' = answer
          BY <1>1 DEF IsAwaited
        <4> QED
          BY <1>5, <3>1, <4>1 DEF CommitsFit
      <3>2. CASE server[a].state # "committed"
        <4>1. a = r.attempt /\ r.kind = "complete" /\ status \in {"ok", "unusable", "transient"}
          BY <1>4, <2>3, <3>2 DEF s, t
        <4>2. outcome[a] = "lost" \/ (a = attempt /\ pc = "complete" /\ IsAwaited(r))
          BY <1>3, <4>1 DEF RequestFits, IsAwaited
        <4> QED
          BY <1>1, <1>2, <4>1, <4>2 DEF reply
      <3> QED
        BY <3>1, <3>2
    <2> QED
      BY <1>1, <2>1, <2>2, <2>3 DEF CommitsFit
  <1>14. AbortIsDue'
    BY <1>1, <1>5 DEF AbortIsDue
  <1> QED
    BY <1>6, <1>7, <1>8, <1>9, <1>10, <1>12, <1>13, <1>14 DEF IndInv

\* A call the server only answers.
LEMMA HandledUnchanged ==
    ASSUME IndInv, NEW r \in net, NEW status, NEW i, UNCHANGED server,
           r.kind = "create" => status # "ok",
           r.kind = "complete" /\ status = "ok" => server[r.attempt].state = "committed"
    PROVE  Handled(r, status, i)
  BY DEF Handled, IndInv, TypeOK, ServerFits, Request

\* A call that replaces the record of its attempt.
LEMMA HandledRecord ==
    ASSUME IndInv, NEW r \in net, NEW status, NEW i, NEW t \in ServerRecord,
           server' = [server EXCEPT ![r.attempt] = t], RecordFits(t),
           server[r.attempt].intent # None => t.intent = server[r.attempt].intent,
           server[r.attempt].state = "committed" => t.state = "committed",
           t.state = "committed" /\ server[r.attempt].state # "committed"
              => r.kind = "complete" /\ status \in {"ok", "unusable", "transient"},
           r.kind = "create" /\ status = "ok" => i # None /\ t.intent = i,
           r.kind = "complete" /\ status = "ok" => t.state = "committed"
    PROVE  Handled(r, status, i)
  <1>1. server \in [Attempts -> ServerRecord] /\ r.attempt \in Attempts
    BY DEF IndInv, TypeOK, Request
  <1>2. /\ server' \in [Attempts -> ServerRecord] /\ server'[r.attempt] = t
        /\ \A a \in Attempts : a # r.attempt => server'[a] = server[a]
    BY <1>1
  <1> QED
    BY <1>2 DEF Handled

\* An intent with nothing under it is a fitting record.
LEMMA EmptyFits ==
    ASSUME NEW i \in Offers, NEW state \in {"open", "aborted"}
    PROVE  /\ Empty(state, i) \in ServerRecord /\ RecordFits(Empty(state, i))
           /\ Empty(state, i).state = state /\ Empty(state, i).intent = i
  <1>1. Empty(state, i) \in ServerRecord
    BY DEF Empty, ServerRecord, ServerStates
  <1>2. i # None
    BY ConstantFacts
  <1> QED
    BY <1>1, <1>2 DEF Empty, RecordFits

\* Every handling of a call by the server or the storage.
LEMMA ServerStep ==
    ASSUME IndInv, NEW r \in net,
           \/ TurnDown(r) \/ CreateIntent(r) \/ Store(r) \/ SignParts(r)
           \/ RecordPart(r) \/ Commit(r) \/ Abort(r)
    PROVE  IndInv'
  <1> USE ConstantFacts
  <1> DEFINE s == server[r.attempt]
  <1>1. /\ r \in Request /\ r.attempt \in Attempts /\ RequestFits(r) /\ s \in ServerRecord
        /\ RecordFits(s)
    BY DEF IndInv, TypeOK, CallsFit, ServerFits, Request
  <1>2. Statuses = {"ok", "unusable", "conflict", "transient", "permanent"}
    BY DEF Statuses
  <1>3. None \in Offers \cup {None} /\ {} \in SUBSET Parts
    OBVIOUS
  <1>4. CASE TurnDown(r)
    <2>1. PICK status \in {"transient", "permanent"} : Reply(r, status, None, {})
      BY <1>4 DEF TurnDown
    <2>2. Handled(r, status, None)
      BY <1>4, <2>1, HandledUnchanged DEF TurnDown
    <2> QED
      BY <1>2, <1>3, <2>1, <2>2, ReplyStep
  <1>5. CASE CreateIntent(r)
    <2>1. PICK i \in Offers, status \in {"ok", "unusable"} :
             Reply(r, status, i, {}) /\ server' = [server EXCEPT ![r.attempt] = Empty("open", i)]
      BY <1>5 DEF CreateIntent
    <2>2. r.kind = "create" /\ s.state = "none" /\ s.intent = None
      BY <1>1, <1>5 DEF CreateIntent, RequestFits, RecordFits
    <2>3. Handled(r, status, i)
      BY <2>1, <2>2, EmptyFits, HandledRecord
    <2> QED
      BY <1>2, <1>3, <2>1, <2>3, ReplyStep
  <1>6. CASE Store(r)
    <2>1. /\ r.kind \in {"put", "part"}
          /\ server' = [server EXCEPT ![r.attempt].stored[r.part] = [from |-> r.from, len |-> r.len]]
          /\ \E status \in {"ok", "unusable"} : Reply(r, status, None, {})
      BY <1>6 DEF Store, Transfers
    <2>2. PICK status \in {"ok", "unusable"} : Reply(r, status, None, {})
      BY <2>1
    <2> DEFINE piece == [from |-> r.from, len |-> r.len]
               t     == [s EXCEPT !.stored = [s.stored EXCEPT ![r.part] = piece]]
    <2>3. server' = [server EXCEPT ![r.attempt] = t]
      BY <2>1
    <2>4. r.part \in Parts /\ piece = PieceOf(s.intent, r.part) /\ s.intent # None /\ piece \in Piece
      BY <1>1, <2>1 DEF RequestFits, Transfers, Request, Piece, Parts
    <2> HIDE DEF piece
    <2>5. /\ t \in ServerRecord /\ t.intent = s.intent /\ t.state = s.state /\ t.reported = s.reported
          /\ \A n \in Parts : t.stored[n] = IF n = r.part THEN piece ELSE s.stored[n]
      BY <1>1, <2>4 DEF ServerRecord
    <2>6. RecordFits(t)
      <3>1. s.reported \subseteq Parts
        BY <1>1 DEF ServerRecord
      <3>2. \A n \in Parts : s.stored[n] # None => t.stored[n] # None
        BY <2>4, <2>5
      <3> HIDE DEF t, s
      <3>3. Complete(s) => Complete(t)
        BY <2>5, <3>2 DEF Complete
      <3> QED
        BY <1>1, <2>4, <2>5, <3>1, <3>2, <3>3 DEF RecordFits
    <2>7. Handled(r, status, None)
      <3> HIDE DEF t
      <3> QED
        BY <2>1, <2>3, <2>5, <2>6, HandledRecord
    <2> QED
      BY <1>2, <1>3, <2>2, <2>7, ReplyStep
  <1>7. CASE SignParts(r)
    <2>1. r.kind = "urls" /\ UNCHANGED server
      BY <1>7 DEF SignParts
    <2>2. \E status \in Statuses, numbers \in SUBSET Parts : Reply(r, status, None, numbers)
      BY <1>2, <1>3, <1>7 DEF SignParts, Batch
    <2>3. \A status \in Statuses : Handled(r, status, None)
      BY <2>1, HandledUnchanged
    <2> QED
      BY <1>3, <2>2, <2>3, ReplyStep
  <1>8. CASE RecordPart(r)
    <2>1. CASE /\ s.state = "open" /\ s.stored[r.part] # None /\ Reply(r, "ok", None, {})
               /\ server' = [server EXCEPT ![r.attempt].reported = @ \cup {r.part}]
      <3> DEFINE t == [s EXCEPT !.reported = s.reported \cup {r.part}]
      <3>1. server' = [server EXCEPT ![r.attempt] = t] /\ r.kind = "report"
        BY <1>8, <2>1 DEF RecordPart
      <3>2. r.part \in Parts
        BY <1>1, <3>1 DEF RequestFits, Request, Parts
      <3>3. /\ t \in ServerRecord /\ t.intent = s.intent /\ t.state = s.state /\ t.stored = s.stored
            /\ t.reported = s.reported \cup {r.part}
        BY <1>1, <3>2 DEF ServerRecord
      <3> HIDE DEF t
      <3>4. RecordFits(t)
        BY <1>1, <2>1, <3>3 DEF RecordFits
      <3>5. Handled(r, "ok", None)
        BY <2>1, <3>1, <3>3, <3>4, HandledRecord
      <3> QED
        BY <1>2, <1>3, <2>1, <3>5, ReplyStep
    <2>2. CASE Reply(r, "permanent", None, {}) /\ UNCHANGED server
      <3>1. Handled(r, "permanent", None)
        BY <2>2, HandledUnchanged
      <3> QED
        BY <1>2, <1>3, <2>2, <3>1, ReplyStep
    <2> QED
      BY <1>8, <2>1, <2>2 DEF RecordPart
  <1>9. CASE Commit(r)
    <2>0. r.kind = "complete"
      BY <1>9 DEF Commit
    <2>1. CASE /\ s.state = "committed" \/ (s.state = "open" /\ Complete(s))
               /\ \E status \in {"ok", "unusable", "transient"} : Reply(r, status, None, {})
               /\ server' = [server EXCEPT ![r.attempt].state = "committed"]
      <3> DEFINE t == [s EXCEPT !.state = "committed"]
      <3>1. PICK status \in {"ok", "unusable", "transient"} : Reply(r, status, None, {})
        BY <2>1
      <3>2. server' = [server EXCEPT ![r.attempt] = t]
        BY <2>1
      <3>3. /\ t \in ServerRecord /\ t.intent = s.intent /\ t.state = "committed"
            /\ t.stored = s.stored /\ t.reported = s.reported
        BY <1>1 DEF ServerRecord, ServerStates
      <3> HIDE DEF t
      <3>4. Complete(s) => Complete(t)
        BY <3>3 DEF Complete
      <3>5. RecordFits(t)
        BY <1>1, <2>1, <3>3, <3>4 DEF RecordFits
      <3>6. Handled(r, status, None)
        BY <2>0, <3>1, <3>2, <3>3, <3>5, HandledRecord
      <3> QED
        BY <1>2, <1>3, <3>1, <3>6, ReplyStep
    <2>2. CASE /\ Reply(r, "conflict", None, {}) \/ Reply(r, "permanent", None, {})
               /\ UNCHANGED server
      <3>1. Handled(r, "conflict", None) /\ Handled(r, "permanent", None)
        BY <2>2, HandledUnchanged
      <3> QED
        BY <1>2, <1>3, <2>2, <3>1, ReplyStep
    <2> QED
      BY <1>9, <2>1, <2>2 DEF Commit
  <1>10. CASE Abort(r)
    <2>1. r.kind = "abort" /\ Reply(r, "ok", None, {})
      BY <1>10 DEF Abort
    <2>2. CASE s.state # "open" /\ UNCHANGED server
      <3>1. Handled(r, "ok", None)
        BY <2>1, <2>2, HandledUnchanged
      <3> QED
        BY <1>2, <1>3, <2>1, <3>1, ReplyStep
    <2>3. CASE s.state = "open" /\ server' = [server EXCEPT ![r.attempt] = Empty("aborted", s.intent)]
      <3>1. s.intent \in Offers
        BY <1>1, <2>3 DEF RecordFits, ServerRecord
      <3>2. Handled(r, "ok", None)
        BY <2>1, <2>3, <3>1, EmptyFits, HandledRecord
      <3> QED
        BY <1>2, <1>3, <2>1, <3>2, ReplyStep
    <2> QED
      BY <1>10, <2>2, <2>3 DEF Abort
  <1> QED
    BY <1>4, <1>5, <1>6, <1>7, <1>8, <1>9, <1>10

\* Every step of the network, the janitor and the user.
LEMMA NoiseStep ==
    ASSUME IndInv,
           \/ \E r \in net : Lose(r)
           \/ \E a \in Attempts : Expire(a)
           \/ Cancel \/ UNCHANGED vars
    PROVE  IndInv'
  <1>1. /\ TypeOK /\ OutcomesFit /\ ReaderFits /\ AbortIsDue
        /\ CallsFit /\ ServerFits /\ IntentFits /\ CommitsFit
    BY DEF IndInv
  <1>2. CASE UNCHANGED <<size, clientVars, answer, server>> /\ cancelled' \in BOOLEAN /\ net' \subseteq net
    <2>1. TypeOK'
      BY <1>1, <1>2 DEF TypeOK, clientVars
    <2>2. OutcomesFit' /\ IntentFits' /\ CommitsFit' /\ AbortIsDue'
      BY <1>1, <1>2 DEF OutcomesFit, IntentFits, CommitsFit, AbortIsDue, clientVars
    <2>3. ReaderFits'
      BY <1>1, <1>2 DEF ReaderFits, AtPart, ExpectedParts, PartLength, clientVars
    <2>4. ServerFits'
      BY <1>1, <1>2, ServerKept DEF ServerFits, clientVars
    <2>5. CallsFit'
      <3> SUFFICES ASSUME NEW r \in net PROVE RequestFits(r)'
        BY <1>2 DEF CallsFit
      <3>1. RequestFits(r)
        BY <1>1 DEF CallsFit
      <3> QED
        BY <1>2, <3>1 DEF RequestFits, PieceOf, PartLength, clientVars
    <2> QED
      BY <2>1, <2>2, <2>3, <2>4, <2>5 DEF IndInv
  <1>3. ASSUME NEW r \in net, Lose(r) PROVE IndInv'
    BY <1>2, <1>1, <1>3 DEF Lose, TypeOK
  <1>4. CASE Cancel
    BY <1>2, <1>4 DEF Cancel
  <1>5. CASE UNCHANGED vars
    BY <1>1, <1>2, <1>5 DEF vars, TypeOK
  <1>6. ASSUME NEW a \in Attempts, Expire(a) PROVE IndInv'
    <2> DEFINE t == [server[a] EXCEPT !.state = "expired"]
    <2>1. /\ server \in [Attempts -> ServerRecord] /\ server' = [server EXCEPT ![a] = t]
          /\ server[a].state = "open"
          /\ UNCHANGED <<size, cancelled, clientVars, answer, net>>
      BY <1>1, <1>6 DEF Expire, TypeOK
    <2>2. /\ t \in ServerRecord /\ t.intent = server[a].intent /\ t.state = "expired"
          /\ t.stored = server[a].stored /\ t.reported = server[a].reported
      BY <2>1 DEF ServerRecord, ServerStates
    <2> HIDE DEF t
    <2>3. /\ server' \in [Attempts -> ServerRecord] /\ server'[a] = t
          /\ \A b \in Attempts : b # a => server'[b] = server[b]
      BY <2>1, <2>2
    <2>4. \A b \in Attempts : /\ server'[b].intent = server[b].intent
                              /\ server'[b].state = "none" <=> server[b].state = "none"
                              /\ server'[b].state = "committed" <=> server[b].state = "committed"
                              /\ server'[b].stored = server[b].stored
                              /\ server'[b].reported = server[b].reported
      BY <2>1, <2>2, <2>3
    <2>5. TypeOK'
      BY <1>1, <2>1, <2>3 DEF TypeOK, clientVars
    <2>6. OutcomesFit' /\ AbortIsDue'
      BY <1>1, <2>1 DEF OutcomesFit, AbortIsDue, clientVars
    <2>7. ReaderFits'
      BY <1>1, <2>1 DEF ReaderFits, AtPart, ExpectedParts, PartLength, clientVars
    <2>8. CallsFit'
      <3> SUFFICES ASSUME NEW r \in net PROVE RequestFits(r)'
        BY <2>1 DEF CallsFit
      <3>1. RequestFits(r) /\ r.attempt \in Attempts
        BY <1>1 DEF CallsFit, TypeOK, Request
      <3> QED
        BY <2>1, <2>4, <3>1 DEF RequestFits, PieceOf, PartLength, clientVars
    <2>9. ServerFits'
      <3>1. ASSUME NEW b \in Attempts PROVE RecordFits(server[b])'
        <4>1. RecordFits(server[b])
          BY <1>1 DEF ServerFits
        <4> QED
          BY <2>1, <2>4, <4>1 DEF RecordFits, PieceOf, PartLength, Complete
      <3> QED
        BY <1>1, <2>1, <2>4, <3>1 DEF ServerFits, clientVars
    <2>10. IntentFits'
      BY <1>1, <2>1, <2>4 DEF IntentFits, TypeOK, clientVars
    <2>11. CommitsFit'
      BY <1>1, <2>1, <2>4 DEF CommitsFit, TypeOK, clientVars
    <2> QED
      BY <2>5, <2>6, <2>7, <2>8, <2>9, <2>10, <2>11 DEF IndInv
  <1> QED
    BY <1>3, <1>4, <1>5, <1>6

LEMMA InitInv == Init => IndInv
  <1> SUFFICES ASSUME Init PROVE IndInv
    OBVIOUS
  <1> USE ConstantFacts
  <1>1. /\ size \in Nat /\ cancelled = FALSE /\ attempt = 1 /\ pc = "start" /\ intent = None
        /\ part = 0 /\ urls = {} /\ offset = 0 /\ tries = 0 /\ aborted = FALSE
        /\ outcome = [a \in Attempts |-> None] /\ answer = None /\ net = {}
        /\ server = [a \in Attempts |-> NoRecord]
    BY DEF Init
  <1>2. /\ NoRecord \in ServerRecord /\ NoRecord.state = "none" /\ NoRecord.intent = None
        /\ NoRecord.reported = {} /\ \A n \in Parts : NoRecord.stored[n] = None
    BY DEF NoRecord, Empty, ServerRecord, ServerStates
  <1> HIDE DEF NoRecord
  <1>3. TypeOK
    <2>1. outcome \in [Attempts -> Outcomes \cup {None}] /\ server \in [Attempts -> ServerRecord]
      BY <1>1, <1>2
    <2>2. size \in Sizes /\ 0 \in 0..MaxParts /\ 0 \in 0..CompleteAttempts
      BY DEF Init
    <2> QED
      BY <1>1, <2>1, <2>2 DEF TypeOK
  <1>4. OutcomesFit /\ AbortIsDue
    BY <1>1 DEF OutcomesFit, AbortIsDue
  <1>5. ReaderFits
    BY <1>1 DEF ReaderFits, Calls
  <1>6. CallsFit /\ IntentFits
    BY <1>1 DEF CallsFit, IntentFits
  <1>7. ServerFits
    BY <1>1, <1>2 DEF ServerFits, RecordFits
  <1>8. CommitsFit
    BY <1>1, <1>2 DEF CommitsFit
  <1> QED
    BY <1>3, <1>4, <1>5, <1>6, <1>7, <1>8 DEF IndInv

\* The inductive invariant holds in every state the program reaches.
THEOREM IndInvHolds == Spec => []IndInv
  <1>1. IndInv /\ [Next]_vars => IndInv'
    <2> SUFFICES ASSUME IndInv, [Next]_vars PROVE IndInv'
      OBVIOUS
    <2>1. CASE Client \/ Unanswered
      BY <2>1, CallingStep, EndingStep DEF Client
    <2>2. CASE Environment
      BY <2>2, ServerStep, NoiseStep DEF Environment
    <2>3. CASE UNCHANGED vars
      BY <2>3, NoiseStep
    <2> QED
      BY <2>1, <2>2, <2>3 DEF Next
  <1> QED
    BY <1>1, InitInv, PTL DEF Spec

\* Every variable has its type.
THEOREM TypeCorrect == Spec => []TypeOK
  <1>1. IndInv => TypeOK
    BY DEF IndInv
  <1> QED
    BY IndInvHolds, <1>1, PTL

\* Whatever the server has committed is the whole file in order, for every size
\* and geometry, with calls lost, late, answered out of turn or retried.
THEOREM CommitsAreWhole == Spec => []CommittedFilesAreWhole
  <1>1. IndInv => CommittedFilesAreWhole
    <2> SUFFICES ASSUME IndInv, NEW a \in Attempts, server[a].state = "committed"
                 PROVE  IsWholeFile(server[a])
      BY DEF CommittedFilesAreWhole
    <2> USE ConstantFacts
    <2> DEFINE s == server[a]
               i == s.intent
               p == i.partSize
               q == i.partCount
    <2>1. s \in ServerRecord /\ RecordFits(s) /\ Complete(s) /\ size \in Nat
      BY DEF IndInv, TypeOK, ServerFits, RecordFits
    <2>2. i \in Offers
      BY <2>1 DEF RecordFits, ServerRecord
    <2>3. i.mode \in {"single", "multipart"} /\ p \in Nat \ {0} /\ q \in 1..MaxParts
      BY <2>2, OfferFacts
    <2>4. \A n \in Parts : s.stored[n] # None => s.stored[n] = PieceOf(i, n)
      BY <2>1 DEF RecordFits
    <2> HIDE DEF s, i, p, q
    <2>5. CASE i.mode = "single"
      <3>1. s.stored[1] # None
        BY <2>1, <2>5 DEF Complete, i
      <3>2. s.stored[1] = [from |-> 0, len |-> size]
        BY <2>4, <2>5, <3>1 DEF PieceOf
      <3>3. IsWholeFile(s)
        BY <2>1, <2>5, <3>1, <3>2 DEF IsWholeFile, i
      <3> QED
        BY <3>3 DEF s
    <2>6. CASE i.mode = "multipart"
      <3>1. s.reported = 1..q
        BY <2>1, <2>6 DEF Complete, i, q
      <3>2. \A n \in 1..q : n \in Parts /\ s.stored[n] # None
        BY <2>1, <2>3, <3>1 DEF RecordFits
      <3>3. \A n \in 1..q : /\ s.stored[n].from = (n - 1) * p
                            /\ s.stored[n].len = IF n < q THEN p ELSE size - (q - 1) * p
        <4>1. ASSUME NEW n PROVE PieceOf(i, n) = [from |-> (n - 1) * p, len |-> PartLength(i, n)]
          BY <2>6 DEF PieceOf, p
        <4>2. ASSUME NEW n PROVE PartLength(i, n) = IF n < q THEN p ELSE size - (q - 1) * p
          BY DEF PartLength, p, q
        <4> QED
          BY <2>4, <3>2, <4>1, <4>2
      <3>4. s.stored[1].from = 0
        <4>1. (1 - 1) * p = 0 /\ 1 \in 1..q
          BY <2>3
        <4> QED
          BY <3>3, <4>1
      <3>5. ASSUME NEW n \in 1..(q - 1)
            PROVE  s.stored[n + 1].from = s.stored[n].from + s.stored[n].len
        <4>1. n \in 1..q /\ n < q /\ n + 1 \in 1..q /\ ((n + 1) - 1) * p = (n - 1) * p + p
          BY <2>3
        <4> QED
          BY <3>3, <4>1
      <3>6. s.stored[q].from + s.stored[q].len = size
        <4>1. q \in 1..q /\ ~(q < q) /\ (q - 1) * p \in Int
          BY <2>3
        <4> QED
          BY <2>1, <3>3, <4>1
      <3>7. IsWholeFile(s)
        BY <2>6, <3>2, <3>4, <3>5, <3>6 DEF IsWholeFile, i, q
      <3> QED
        BY <3>7 DEF s
    <2> QED
      BY <2>3, <2>5, <2>6
  <1> QED
    BY IndInvHolds, <1>1, PTL

\* Upload returns a result only for a file the server has committed.
THEOREM ResultsAreCommitted == Spec => []SuccessIsCommitted
  <1>1. IndInv => SuccessIsCommitted
    BY DEF IndInv, CommitsFit, SuccessIsCommitted
  <1> QED
    BY IndInvHolds, <1>1, PTL

\* An attempt that ended on a refusal, a check of the client's own or a
\* cancelled wait has left no file behind, and none of its late calls makes one.
THEOREM RefusalsLeaveNoFile == Spec => []RefusedUploadsAreNotCommitted
  <1>1. IndInv => RefusedUploadsAreNotCommitted
    <2> SUFFICES ASSUME IndInv, NEW a \in Attempts, server[a].state = "committed",
                        outcome[a] \in {"conflict", "permanent", "local", "cancelled"}
                 PROVE  FALSE
      BY DEF RefusedUploadsAreNotCommitted
    <2>1. a = attempt /\ pc = "complete"
      BY DEF IndInv, CommitsFit
    <2>2. outcome[a] = None
      BY <2>1 DEF IndInv, OutcomesFit, Running, Calls
    <2> QED
      BY <2>2, ConstantFacts DEF Outcomes, Statuses
  <1> QED
    BY IndInvHolds, <1>1, PTL

\* The reader is never asked for more than the file has, and a completion is
\* asked for only at its end.
THEOREM TheFileIsReadToItsEnd == Spec => []EveryByteIsSent
  <1>1. IndInv => EveryByteIsSent
    BY DEF IndInv, ReaderFits, EveryByteIsSent
  <1> QED
    BY IndInvHolds, <1>1, PTL

\* An attempt that fails with an intent in hand has called abort exactly if the
\* intent has an abort URL, cancelled or not, and one that succeeds never has.
THEOREM AbortsItsFailures == Spec => []FailedUploadsAreAborted
  <1>1. IndInv => FailedUploadsAreAborted
    BY DEF IndInv, AbortIsDue, FailedUploadsAreAborted
  <1> QED
    BY IndInvHolds, <1>1, PTL

=============================================================================
