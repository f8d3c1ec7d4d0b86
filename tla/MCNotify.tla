------------------------------ MODULE MCNotify ------------------------------
(* Model values for Notify: three failures of one fingerprint and an event *)
(* too small to tell; other plugins before and after the throttled file    *)
(* notifier.                                                               *)
EXTENDS Notify

CONSTANTS t1, t2, first, again, third, small, f1, f2

Prints == [e \in {first, again, third, small} |-> IF e = small THEN f2 ELSE f1]
Registry == <<FALSE, TRUE, FALSE>>
=============================================================================
