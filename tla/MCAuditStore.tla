---------------------------- MODULE MCAuditStore ----------------------------
(* Model values for AuditStore.  The events share a fingerprint and are    *)
(* interchangeable, and so are connections with the same roles.            *)
EXTENDS AuditStore, TLC

CONSTANTS e1, e2, f, a, b

MCFingerprintOf == [e \in Events |-> f]
Symmetry == Permutations({e1, e2}) \cup Permutations({a, b})
=============================================================================
