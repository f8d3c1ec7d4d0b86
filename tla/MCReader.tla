------------------------------ MODULE MCReader ------------------------------
(* Model values for Reader: a cause with two effects, and an event that is *)
(* its own parent, of the same millisecond as one of the effects.          *)
EXTENDS Reader, TLC

CONSTANTS cause, effect, other, egg

Times == (cause :> 1) @@ (effect :> 3) @@ (other :> 2) @@ (egg :> 2)
Ids == (cause :> 1) @@ (effect :> 2) @@ (other :> 3) @@ (egg :> 4)
Ranks == (cause :> 1) @@ (effect :> 3) @@ (other :> 2) @@ (egg :> 2)
Severities == [e \in Events |-> IF e = egg THEN 30 ELSE 50]
Parents == (cause :> NoEvent) @@ (effect :> cause) @@ (other :> cause) @@ (egg :> egg)

Everything == [severity_min |-> 0, from |-> 0, to |-> 9, resolved |-> "any"]
Searches == {Everything, [Everything EXCEPT !.severity_min = 50, !.resolved = "no"]}
Deletes == {[event |-> e, resolved_before |-> b, force |-> f] : e \in {NoEvent, effect}, b \in {0, Never}, f \in BOOLEAN}
=============================================================================
