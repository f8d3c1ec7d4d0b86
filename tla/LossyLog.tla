------------------------------- MODULE LossyLog -------------------------------
(***************************************************************************)
(* What buffered capture promises its caller, whatever the threads do:     *)
(* an event that is taken in is kept, in order, until it is stored or      *)
(* dropped together with the batch it is in, or until the buffer goes; and *)
(* one is turned away only when as many as the channel holds are pending.  *)
(***************************************************************************)
EXTENDS Naturals, Sequences

CONSTANTS
  Capacity,    \* events pending before one may be turned away
  BatchLimit,  \* most events stored or dropped together
  MaxEvents    \* bound: events offered

VARIABLES
  offered,  \* number of events offered; event k is the k-th one
  pending,  \* taken in, not yet stored or dropped
  stored,
  dropped,  \* number of events turned away or dropped
  closed

vars == <<offered, pending, stored, dropped, closed>>

Init ==
  /\ offered = 0
  /\ pending = <<>>
  /\ stored = <<>>
  /\ dropped = 0
  /\ closed = FALSE

Offer ==
  /\ offered < MaxEvents
  /\ offered' = offered + 1
  /\ UNCHANGED <<stored, closed>>

Accept ==
  /\ Offer
  /\ pending' = Append(pending, offered')
  /\ UNCHANGED dropped

TurnAway ==
  /\ Len(pending) >= Capacity
  /\ Offer
  /\ dropped' = dropped + 1
  /\ UNCHANGED pending

\* The oldest pending events, as many as one batch holds.
Settle(k) ==
  /\ k <= Len(pending)
  /\ pending' = SubSeq(pending, k + 1, Len(pending))
  /\ UNCHANGED <<offered, closed>>

Store(k) ==
  /\ Settle(k)
  /\ stored' = stored \o SubSeq(pending, 1, k)
  /\ UNCHANGED dropped

Discard(k) ==
  /\ Settle(k)
  /\ dropped' = dropped + k
  /\ UNCHANGED stored

Close ==
  /\ closed' = TRUE
  /\ UNCHANGED <<offered, pending, stored, dropped>>

Next ==
  \/ ~closed /\ (Accept \/ TurnAway)
  \/ ~closed /\ \E k \in 1..BatchLimit : Store(k) \/ Discard(k)
  \/ ~closed /\ Close

Spec == Init /\ [][Next]_vars
=============================================================================
