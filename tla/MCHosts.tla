------------------------------ MODULE MCHosts ------------------------------
(* Files of no, two and five units in parts of two or three; servers that  *)
(* leave part sizes out, announce too few or too many parts, or send only   *)
(* some URLs.                                                              *)
EXTENDS Hosts, TLC

Direct(a, b) == [direct |-> TRUE, directPartSize |-> a, partSize |-> b]
Relay(b)     == [direct |-> FALSE, directPartSize |-> 0, partSize |-> b]
Parted(total, initial) == [multipart |-> TRUE, partSize |-> 2, totalParts |-> total,
                           initial |-> initial]
Links(b, n) == [partSize |-> b, count |-> n]
Whole == [Parted(0, {}) EXCEPT !.multipart = FALSE]

MCOffers == [h \in LinksAtOnce |-> {[session |-> TRUE]}] @@
            [mocha      |-> {Direct(2, 3), Direct(0, 0), Relay(0)},
             storageto  |-> {Whole, Parted(0, {1, 2}), Parted(2, {1, 2})},
             zincdrive  |-> {[session |-> TRUE]},
             vikingfile |-> {Links(0, 1), Links(2, 1), Links(2, 3)}]
=============================================================================
