----------------------------- MODULE MCMigrator -----------------------------
(* Model values for Migrator.  A database may be new, of an earlier        *)
(* release (before the full-text index, before the audit chain), or of a   *)
(* newer one.                                                              *)
EXTENDS Migrator, TLC

CONSTANTS p, q

NewOldOrNewer == {0, 4, 5, CURRENT_SCHEMA_VERSION + 1}
BeforeChain == {5}
BeforeIndex == {4}
=============================================================================
