------------------------------ MODULE MCIngest ------------------------------
(* Model values for Ingest: a page of an allowed origin and one of another, *)
(* both on the server's own machine, and failures of three kinds, of which  *)
(* one is big.                                                              *)
EXTENDS Ingest, TLC

CONSTANTS site, evil, local, oops, missing, warned

Address == [p \in {site, evil} |-> local]
Kinds == (oops :> "script") @@ (missing :> "resource") @@ (warned :> "console")
Sizes == [f \in {oops, missing, warned} |-> IF f = warned THEN 3 ELSE 1]
=============================================================================
