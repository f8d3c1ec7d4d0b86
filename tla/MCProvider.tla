----------------------------- MODULE MCProvider -----------------------------
(* Model values for Provider: an application that is armed again with      *)
(* another database, or with a key and no buffer; a host that turns        *)
(* encryption on and buffering off.                                        *)
EXTENDS Provider

CONSTANTS a, b, flusher, e1, e2, d1, d2

BothSurfaces == {"ambient", "abi"}
AmbientOnly == {"ambient"}

Mounted == [db |-> d1, buffered |-> TRUE, sealed |-> FALSE]
Moved == [db |-> d2, buffered |-> TRUE, sealed |-> FALSE]
MovedSealed == [db |-> d2, buffered |-> FALSE, sealed |-> TRUE]
MovedOnly == {Moved}
MovedOrSealed == {Moved, MovedSealed}

KeySet == [s \in {"sealed"} |-> TRUE]
BufferOff == [s \in {"buffered"} |-> FALSE]
KeySetOrBufferOff == {KeySet, BufferOff}
=============================================================================
