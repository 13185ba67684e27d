------------------------------- MODULE Mocha -------------------------------
(* internal/services/mocha.go: init, the parts (presigned or relayed),     *)
(* complete, and the share whose link is the result.                       *)
EXTENDS HostSession

CONSTANTS
    MochaPresignBatch,     \* mochaPresignBatch
    MochaDefaultPartSize,  \* mochaDefaultPartSize
    MochaRelayPartSize     \* mochaRelayPartSize

ASSUME MochaAssumption ==
    /\ MochaPresignBatch \in Nat \ {0}
    /\ MochaDefaultPartSize \in Nat \ {0} /\ MochaRelayPartSize \in Nat \ {0}
    /\ Offers["mocha"] \subseteq [direct : BOOLEAN, directPartSize : Nat, partSize : Nat]

FirstPositive(a, b) == IF a > 0 THEN a ELSE b

MochaPartSize(o) ==
    IF o.direct
    THEN FirstPositive(o.directPartSize, FirstPositive(o.partSize, MochaDefaultPartSize))
    ELSE FirstPositive(o.partSize, MochaRelayPartSize)

MochaTotal(o) == PartsOf(MochaPartSize(o))

MochaPut(o, n) == PutData("part", n, ChunkSize(MochaPartSize(o), n))

\* One turn of the loop over the parts.  Presigned parts need a URL; the
\* missing ones from n on are asked for a batch at a time.
MochaTurn(o, n, signed) ==
    /\ urls' = signed
    /\ IF o.direct /\ n \notin signed
       THEN AskURLs(n, {k \in Parts : n <= k /\ k < n + MochaPresignBatch /\ k <= MochaTotal(o)})
       ELSE MochaPut(o, n)

MochaStart ==
    /\ host = "mocha" /\ pc = "start"
    /\ IF size <= 0 THEN Fail("local") ELSE Ask("init")
    /\ UNCHANGED <<offer, urls>>

MochaOpened ==
    /\ Answered("mocha", "init", "ok")
    /\ offer' = answer.offer
    /\ MochaTurn(answer.offer, 1, {})

\* Mutant: the URLs are asked for again until the server sends them all.
MochaSigned_AskAgain ==
    /\ Answered("mocha", "urls", "ok")
    /\ MochaTurn(offer, part, urls \cup answer.numbers)
    /\ UNCHANGED offer

\* The batch goes into signed; without a URL for the part itself it is over.
MochaSigned ==
    /\ Answered("mocha", "urls", "ok")
    /\ IF part \in answer.numbers
       THEN MochaTurn(offer, part, urls \cup answer.numbers)
       ELSE FailAndAbort("local") /\ UNCHANGED urls
    /\ UNCHANGED offer

\* putPart or the relay returns an ETag.
MochaPartStored ==
    /\ Answered("mocha", "part", "ok")
    /\ IF part = MochaTotal(offer) THEN Ask("complete") /\ UNCHANGED urls
                                   ELSE MochaTurn(offer, part + 1, urls \ {part})
    /\ UNCHANGED offer

\* createShare looks at its options only now, with the file stored.
MochaCompleted ==
    /\ Answered("mocha", "complete", "ok")
    /\ IF badOptions THEN Fail("local") ELSE Ask("publish")
    /\ UNCHANGED <<offer, urls>>

MochaShared ==
    /\ Answered("mocha", "publish", "ok")
    /\ Succeed
    /\ UNCHANGED <<offer, urls>>

\* Mutant: the completion is sent along with the last part.
MochaError_CompletesFirst(why) ==
    /\ host = "mocha"
    /\ IF pc = "part" /\ part = MochaTotal(offer) /\ ~cancelled
       THEN /\ pc' = "abort" /\ answer' = None
            /\ outcome' = [outcome EXCEPT ![attempt] = [why |-> why, at |-> pc]]
            /\ net' = net \cup {[kind |-> k, attempt |-> attempt, part |-> part,
                                 piece |-> None, wants |-> {}] : k \in {"complete", "abort"}}
            /\ UNCHANGED <<part, offset>>
       ELSE IF pc \in {"init", "publish"} THEN Fail(why) ELSE FailAndAbort(why)

\* A call fails: the session is given up, unless there is none yet or the file
\* is already stored.
MochaError(why) ==
    /\ host = "mocha"
    /\ IF pc \in {"init", "publish"} THEN Fail(why) ELSE FailAndAbort(why)

MochaClient ==
    \/ MochaStart \/ MochaOpened \/ MochaSigned \/ MochaPartStored
    \/ MochaCompleted \/ MochaShared

=============================================================================
