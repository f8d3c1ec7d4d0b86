----------------------------- MODULE MCMetadata -----------------------------
(* Model values for Metadata: two events alike but for a secret and the    *)
(* line numbers of their trace, run by processes with a secret among their *)
(* arguments, and rules of which two match.                                *)
EXTENDS Metadata, TLC

CONSTANTS a, s1, s2, e1, e2, k1, k2, hunter, swordfish, timeout, panic

Tagged(secret, n) == [kind |-> "tagged", secret |-> secret, digits |-> n]
Arguments == {Tagged(hunter, 0)}
Builtin == << [kind |-> "message", word |-> "disk full", category |-> timeout],
              [kind |-> "exception", word |-> "panic", category |-> panic] >>
Words == [code |-> {}, exception |-> {"panic"}, message |-> {"disk full"}]

Failure(secret, n, metadata) ==
  EventBuilder(Tagged(secret, 0), Tagged(secret, n), [object |-> TRUE, values |-> {}], metadata, Words)

Failures == [e \in {e1, e2} |->
  IF e = e1 THEN Failure(hunter, 1, Tagged(hunter, 0))
  ELSE Failure(swordfish, 2, [kind |-> "keyed", secret |-> swordfish, digits |-> 0])]

Alike == Permutations({s1, s2}) \cup Permutations({k1, k2})
=============================================================================
