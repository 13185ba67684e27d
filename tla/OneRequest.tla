---------------------------- MODULE OneRequest -----------------------------
(* The services of internal/services whose link comes with the answer to   *)
(* the request that carries the file: 0x0.go, buzzheavier.go,              *)
(* datanodes.go, fuckingfast.go, gofile.go, pixeldrain.go.                 *)
EXTENDS HostSession

SendFile(h) ==
    /\ host = h /\ pc = "start"
    /\ PutData("put", 1, size)
    /\ UNCHANGED <<offer, urls>>

\* Upload returns what the answer holds: the link, or for gofile and buzzheavier
\* an empty or a bare URL when it holds none.
LinkReturned(h) ==
    /\ \E status \in Statuses : Answered(h, "put", status) /\ Accepts(status)
    /\ Succeed
    /\ UNCHANGED <<offer, urls>>

ZeroXZero   == SendFile("0x0") \/ LinkReturned("0x0")
BuzzHeavier == SendFile("buzzheavier") \/ LinkReturned("buzzheavier")
FuckingFast == SendFile("fuckingfast") \/ LinkReturned("fuckingfast")
GoFile      == SendFile("gofile") \/ LinkReturned("gofile")
PixelDrain  == SendFile("pixeldrain") \/ LinkReturned("pixeldrain")

\* getUploadServer, then putFile to the server it names.
DataNodesStart ==
    /\ host = "datanodes" /\ pc = "start"
    /\ Ask("init")
    /\ UNCHANGED <<offer, urls>>

DataNodesPut ==
    /\ Answered("datanodes", "init", "ok")
    /\ offer' = answer.offer
    /\ PutData("put", 1, size)
    /\ UNCHANGED urls

OneRequestError(why) == host \in LinksAtOnce /\ Fail(why)

OneRequestClient ==
    \/ ZeroXZero \/ BuzzHeavier \/ FuckingFast \/ GoFile \/ PixelDrain
    \/ DataNodesStart \/ DataNodesPut \/ LinkReturned("datanodes")

=============================================================================
