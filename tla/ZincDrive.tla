----------------------------- MODULE ZincDrive -----------------------------
(* internal/services/zincdrive.go: one signed PUT for a small file, parts  *)
(* signed one by one for a large one; confirm makes the link.  A session   *)
(* that fails is left to the server.                                       *)
EXTENDS HostSession

CONSTANTS
    ZincSinglePartMax,     \* zdSinglePartMax
    ZincMultipartPartSize  \* zdMultipartPartSize

ASSUME ZincAssumption == ZincSinglePartMax \in Nat /\ ZincMultipartPartSize \in Nat \ {0}

ZincStart ==
    /\ host = "zincdrive" /\ pc = "start"
    /\ Ask(IF size > ZincSinglePartMax THEN "init" ELSE "sign")
    /\ UNCHANGED <<offer, urls>>

ZincSigned ==
    /\ Answered("zincdrive", "sign", "ok")
    /\ offer' = answer.offer
    /\ PutData("put", 1, size)
    /\ UNCHANGED urls

ZincOpened ==
    /\ Answered("zincdrive", "init", "ok")
    /\ offer' = answer.offer
    /\ AskURLs(1, {1})
    /\ UNCHANGED urls

\* signPart returns; without a URL it is an error.
ZincPartSigned ==
    /\ Answered("zincdrive", "urls", "ok")
    /\ IF part \in answer.numbers
       THEN PutData("part", part, ChunkSize(ZincMultipartPartSize, part))
       ELSE Fail("local")
    /\ UNCHANGED <<offer, urls>>

\* Mutant: one part too few.
ZincPartStored_Floor ==
    /\ Answered("zincdrive", "part", "ok")
    /\ IF part >= size \div ZincMultipartPartSize THEN Ask("complete")
                                                  ELSE AskURLs(part + 1, {part + 1})
    /\ UNCHANGED <<offer, urls>>

ZincPartStored ==
    /\ Answered("zincdrive", "part", "ok")
    /\ IF part = PartsOf(ZincMultipartPartSize) THEN Ask("complete")
                                                ELSE AskURLs(part + 1, {part + 1})
    /\ UNCHANGED <<offer, urls>>

ZincStored ==
    /\ Answered("zincdrive", "put", "ok") \/ Answered("zincdrive", "complete", "ok")
    /\ Ask("publish")
    /\ UNCHANGED <<offer, urls>>

ZincConfirmed ==
    /\ Answered("zincdrive", "publish", "ok")
    /\ Succeed
    /\ UNCHANGED <<offer, urls>>

ZincError(why) == host = "zincdrive" /\ Fail(why)

ZincClient ==
    \/ ZincStart \/ ZincSigned \/ ZincOpened \/ ZincPartSigned \/ ZincPartStored
    \/ ZincStored \/ ZincConfirmed

=============================================================================
