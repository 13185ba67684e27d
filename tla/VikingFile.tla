---------------------------- MODULE VikingFile -----------------------------
(* internal/services/vikingfile.go: the URLs of all parts come with the    *)
(* first answer, and there are as many parts as URLs.  A session that      *)
(* fails is left to the server.                                            *)
EXTENDS HostSession

ASSUME VikingAssumption == Offers["vikingfile"] \subseteq [partSize : Nat, count : Parts]

VikingPut(o, n) == PutData("part", n, ChunkSize(o.partSize, n))

VikingStart ==
    /\ host = "vikingfile" /\ pc = "start"
    /\ Ask("init")
    /\ UNCHANGED <<offer, urls>>

VikingOpened ==
    /\ Answered("vikingfile", "init", "ok")
    /\ offer' = answer.offer
    /\ VikingPut(answer.offer, 1)
    /\ UNCHANGED urls

VikingPartStored ==
    /\ Answered("vikingfile", "part", "ok")
    /\ IF part = offer.count THEN Ask("complete") ELSE VikingPut(offer, part + 1)
    /\ UNCHANGED <<offer, urls>>

VikingCompleted ==
    /\ Answered("vikingfile", "complete", "ok")
    /\ Succeed
    /\ UNCHANGED <<offer, urls>>

VikingError(why) == host = "vikingfile" /\ Fail(why)

VikingClient == VikingStart \/ VikingOpened \/ VikingPartStored \/ VikingCompleted

=============================================================================
