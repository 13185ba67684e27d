----------------------------- MODULE StorageTo -----------------------------
(* internal/services/storageto.go: init decides between one PUT and parts; *)
(* confirm turns either into a file with a link.                           *)
EXTENDS HostSession

ASSUME StorageToAssumption ==
    Offers["storageto"] \subseteq [multipart : BOOLEAN, partSize : Nat \ {0},
                                   totalParts : 0..MaxParts, initial : SUBSET Parts]

\* The server's count is taken as it is.
StorageToTotal(o) == IF o.totalParts > 0 THEN o.totalParts ELSE PartsOf(o.partSize)

\* One turn of the loop over the parts, with the URLs there are.
StorageToPut(o, n, known) ==
    /\ urls' = known
    /\ IF n \in known THEN PutData("part", n, ChunkSize(o.partSize, n))
                      ELSE FailAndAbort("local")

StorageToStart ==
    /\ host = "storageto" /\ pc = "start"
    /\ IF size < 1 THEN Fail("local") ELSE Ask("init")
    /\ UNCHANGED <<offer, urls>>

\* All URLs init left out are asked for in one call.
StorageToOpened ==
    /\ Answered("storageto", "init", "ok")
    /\ offer' = answer.offer
    /\ LET o       == answer.offer
           missing == (1..StorageToTotal(o)) \ o.initial IN
       \/ /\ ~o.multipart
          /\ PutData("put", 1, size)
          /\ UNCHANGED urls
       \/ /\ o.multipart /\ missing # {}
          /\ AskURLs(1, missing)
          /\ urls' = o.initial
       \/ /\ o.multipart /\ missing = {}
          /\ StorageToPut(o, 1, o.initial)

StorageToSigned ==
    /\ Answered("storageto", "urls", "ok")
    /\ StorageToPut(offer, 1, urls \cup answer.numbers)
    /\ UNCHANGED offer

StorageToPartStored ==
    /\ Answered("storageto", "part", "ok")
    /\ IF part = StorageToTotal(offer) THEN Ask("complete") /\ UNCHANGED urls
                                       ELSE StorageToPut(offer, part + 1, urls)
    /\ UNCHANGED offer

\* Mutant: a completed multipart upload is taken for a file.
StorageToStored_NoConfirm ==
    /\ \/ Answered("storageto", "put", "ok") /\ Ask("publish")
       \/ Answered("storageto", "complete", "ok") /\ Succeed
    /\ UNCHANGED <<offer, urls>>

\* uploadSingle or uploadMultipart returns.
StorageToStored ==
    /\ Answered("storageto", "put", "ok") \/ Answered("storageto", "complete", "ok")
    /\ Ask("publish")
    /\ UNCHANGED <<offer, urls>>

StorageToConfirmed ==
    /\ Answered("storageto", "publish", "ok")
    /\ Succeed
    /\ UNCHANGED <<offer, urls>>

\* uploadMultipart aborts its session whatever fails in it; nothing else does.
StorageToError(why) ==
    /\ host = "storageto"
    /\ IF pc \in {"urls", "part", "complete"} THEN FailAndAbort(why) ELSE Fail(why)

StorageToClient ==
    \/ StorageToStart \/ StorageToOpened \/ StorageToSigned \/ StorageToPartStored
    \/ StorageToStored \/ StorageToConfirmed

=============================================================================
