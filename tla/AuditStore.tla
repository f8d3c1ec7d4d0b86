------------------------------ MODULE AuditStore ------------------------------
(***************************************************************************)
(* The write path of witslog-store: EventWriter / StoreSink (writer.rs,    *)
(* sink.rs), the transactions of DbConnection (conn.rs) and the audit hash *)
(* chain (audit.rs), over one SQLite database used by several connections. *)
(*                                                                         *)
(* A connection outside a transaction commits every SQL statement by       *)
(* itself, so an autocommit write and a delete are several steps that      *)
(* other connections interleave with, and that a killed process (or a      *)
(* statement that gives up with SQLITE_BUSY) leaves half done.  A          *)
(* transaction works on a private draft and replaces the database when it  *)
(* commits; SQLite lets one connection write at a time.                    *)
(***************************************************************************)
EXTENDS Naturals, Sequences, FiniteSets

CONSTANTS
  Connections,        \* open DbConnections on the database, of any process
  AutocommitWriters,  \* those that call EventWriter::write (buffering off)
  BatchWriters,       \* those that call write_batch (a StoreSink's)
  Maintainers,        \* those that call mark_resolved, delete_resolved, delete_by_ids
  Events,             \* event_ids
  Fingerprints,
  FingerprintOf,      \* the fingerprint of each event
  NoConnection,       \* nobody holds the write lock
  NoEvent,
  MaxRowId,           \* bound: row ids in use
  MaxInserts          \* bound: inserts per fingerprint

ASSUME RolesAssumption ==
  /\ AutocommitWriters \subseteq Connections
  /\ BatchWriters \subseteq Connections
  /\ Maintainers \subseteq Connections
  /\ NoConnection \notin Connections
ASSUME EventsAssumption ==
  /\ FingerprintOf \in [Events -> Fingerprints]
  /\ NoEvent \notin Events
ASSUME BoundsAssumption == MaxRowId \in Nat /\ MaxInserts \in Nat

RowIds == 1..MaxRowId

(***************************************************************************)
(* A hash is the sequence of what was hashed into it, so it is injective.  *)
(* NULL in events.audit_hash and '' in audit_tombstones are NoHash.        *)
(***************************************************************************)
Genesis == <<"genesis">>
NoHash == <<>>
Hash == Seq(Events \cup {"genesis"})
compute_hash(prev, e) == Append(prev, e)

Row == [event : Events, hash : Hash, resolved : BOOLEAN]
NoRows == [i \in {} |-> NoHash]

VARIABLES
  db,       \* the committed database
  draft,    \* the database as the open transaction sees it
  lock,     \* the connection whose transaction is open
  job,      \* per connection, the operation it is in the middle of
  matched,  \* history: events a delete's SELECT has returned
  torn,     \* history: an autocommit write stopped half way
  unrolled, \* history: per fingerprint, writes that stopped before its upsert
  crossed,  \* history: another connection began a write, or looked up the row to
            \* delete, in the middle of an autocommit write
  retaken   \* history: an insert was given a row id that a delete had looked up

vars == <<db, draft, lock, job, matched, torn, unrolled, crossed, retaken>>

(***************************************************************************)
(* rows: events; tombs: audit_tombstones; last: audit_meta.last_hash;      *)
(* count: fingerprints.count.  History fields: high, the highest row id    *)
(* ever used; reused, whether an insert was given an id in use before;     *)
(* written and inserts, the events and the number of inserts ever.         *)
(***************************************************************************)
EmptyDb ==
  [rows |-> NoRows, tombs |-> NoRows, last |-> Genesis,
   count |-> [f \in Fingerprints |-> 0], high |-> 0, reused |-> FALSE,
   written |-> {}, inserts |-> [f \in Fingerprints |-> 0]]

Idle == [pc |-> "idle", event |-> NoEvent, row |-> 0, link |-> NoHash, todo |-> {}]

WritePcs == {"inserted", "rolledUp", "linked", "stamped"}
DeletePcs == {"deleting", "found", "tombstoned"}

Live(d) == {d.rows[i].event : i \in DOMAIN d.rows}

\* SQLite gives a row of a table without AUTOINCREMENT the id max(id) + 1.
IsNextRowId(d, n) ==
  /\ \A i \in DOMAIN d.rows : i < n
  /\ n = 1 \/ n - 1 \in DOMAIN d.rows

\* The connections between two statements of a write, and of a delete of a row.
Writing == {c \in Connections : job[c].pc \in WritePcs}
Digging == {c \in Connections : job[c].pc \in {"found", "tombstoned"}}
Pending == {job[c].row : c \in Writing}
LookedUp == {job[c].row : c \in Digging}

Put(f, k, v) == [i \in DOMAIN f \cup {k} |-> IF i = k THEN v ELSE f[i]]

-----------------------------------------------------------------------------
(* The SQL statements of write_event and delete_events_by_id.              *)

CanInsert(d, e) ==
  /\ e \notin Live(d)
  /\ d.inserts[FingerprintOf[e]] < MaxInserts

InsertRow(d, n, e) ==
  [d EXCEPT !.rows = Put(@, n, [event |-> e, hash |-> NoHash, resolved |-> FALSE]),
            !.high = IF n > @ THEN n ELSE @,
            !.reused = @ \/ n <= d.high,
            !.written = @ \cup {e},
            !.inserts[FingerprintOf[e]] = @ + 1]

\* Mutant: ON CONFLICT DO UPDATE without the count.
update_fingerprint_KeepsCount(d, e) ==
  [d EXCEPT !.count[FingerprintOf[e]] = IF @ = 0 THEN 1 ELSE @]

update_fingerprint(d, e) == [d EXCEPT !.count[FingerprintOf[e]] = @ + 1]

SetHash(d, n, h) == IF n \in DOMAIN d.rows THEN [d EXCEPT !.rows[n].hash = h] ELSE d

\* Mutant: the end of the chain is written once only.
set_last_hash_Once(d, h) == IF d.last = Genesis THEN [d EXCEPT !.last = h] ELSE d

set_last_hash(d, h) == [d EXCEPT !.last = h]

PutTombstone(d, n, h) == [d EXCEPT !.tombs = Put(@, n, h)]

\* Mutant: DELETE WHERE id <= n.
DeleteRow_UpTo(d, n) ==
  [d EXCEPT !.rows = [i \in {k \in DOMAIN d.rows : k > n} |-> d.rows[i]]]

DeleteRow(d, n) ==
  [d EXCEPT !.rows = [i \in DOMAIN d.rows \ {n} |-> d.rows[i]]]

SetResolved(d, n) == [d EXCEPT !.rows[n].resolved = TRUE]

\* The whole of write_event, as a transaction runs it.
write_event(d, n, e) ==
  LET h == compute_hash(d.last, e)
  IN  set_last_hash(SetHash(update_fingerprint(InsertRow(d, n, e), e), n, h), h)

(***************************************************************************)
(* audit::verify_chain.  The row before an id is at id - 1 or, across a    *)
(* gap, known by the tombstone of id - 1; the walk compares the stored     *)
(* hash of every row with the one recomputed from there.                   *)
(***************************************************************************)
HashAt(d, i) == IF i \in DOMAIN d.rows THEN d.rows[i].hash ELSE d.tombs[i]

Base(d, i) == IF i = 1 THEN Genesis ELSE HashAt(d, i - 1)

Linked(d, i) ==
  /\ i = 1 \/ i - 1 \in DOMAIN d.rows \cup DOMAIN d.tombs
  /\ d.rows[i].hash = compute_hash(Base(d, i), d.rows[i].event)

verify_chain(d) == \A i \in DOMAIN d.rows : Linked(d, i)

-----------------------------------------------------------------------------
Init ==
  /\ db = EmptyDb
  /\ draft = EmptyDb
  /\ lock = NoConnection
  /\ job = [c \in Connections |-> Idle]
  /\ matched = {}
  /\ torn = FALSE
  /\ unrolled = [f \in Fingerprints |-> 0]
  /\ crossed = FALSE /\ retaken = FALSE

\* Connection c commits the single statement that turns db into d.
Execute(c, d, next) ==
  /\ lock = NoConnection
  /\ db' = d
  /\ job' = [job EXCEPT ![c] = next]
  /\ UNCHANGED <<draft, lock>>

History == <<matched, torn, unrolled, crossed, retaken>>
Crosses(overlap) == crossed' = (crossed \/ overlap) /\ UNCHANGED <<matched, torn, unrolled>>

(* EventWriter::write and, for an event that a delete removed before,     *)
(* write_if_absent: write_event in autocommit mode.                       *)

Insert(c, e) ==
  /\ job[c].pc = "idle"
  /\ CanInsert(db, e)
  /\ \E n \in RowIds :
       /\ IsNextRowId(db, n)
       /\ Execute(c, InsertRow(db, n, e),
                  [Idle EXCEPT !.pc = "inserted", !.event = e, !.row = n])
       /\ retaken' = (retaken \/ n \in LookedUp)
  /\ Crosses(Writing # {})

RollUp(c) ==
  /\ job[c].pc = "inserted"
  /\ Execute(c, update_fingerprint(db, job[c].event), [job[c] EXCEPT !.pc = "rolledUp"])
  /\ UNCHANGED History

\* audit::append reads last_hash: a read, which an open transaction does not hold up.
ReadLink(c) ==
  /\ job[c].pc = "rolledUp"
  /\ job' = [job EXCEPT ![c].pc = "linked", ![c].link = db.last]
  /\ UNCHANGED <<db, draft, lock, History>>

Stamp(c) ==
  /\ job[c].pc = "linked"
  /\ Execute(c, SetHash(db, job[c].row, compute_hash(job[c].link, job[c].event)),
             [job[c] EXCEPT !.pc = "stamped"])
  /\ UNCHANGED History

Advance(c) ==
  /\ job[c].pc = "stamped"
  /\ Execute(c, set_last_hash(db, compute_hash(job[c].link, job[c].event)), Idle)
  /\ UNCHANGED History

(* write_batch: write_event for each event of a batch, in one transaction. *)

Begin(c) ==
  /\ job[c].pc = "idle"
  /\ lock = NoConnection
  /\ lock' = c
  /\ draft' = db
  /\ job' = [job EXCEPT ![c].pc = "batch"]
  /\ Crosses(Writing # {})
  /\ UNCHANGED <<db, retaken>>

WriteInBatch(c, e) ==
  /\ lock = c
  /\ CanInsert(draft, e)
  /\ \E n \in RowIds :
       /\ IsNextRowId(draft, n)
       /\ draft' = write_event(draft, n, e)
       /\ retaken' = (retaken \/ n \in LookedUp)
  /\ UNCHANGED <<db, lock, job, matched, torn, unrolled, crossed>>

Commit(c) ==
  /\ lock = c
  /\ draft # db
  /\ db' = draft
  /\ draft' = EmptyDb
  /\ lock' = NoConnection
  /\ job' = [job EXCEPT ![c] = Idle]
  /\ UNCHANGED History

\* An error in the batch (a duplicate event_id, a failed statement) or a kill.
Rollback(c) ==
  /\ lock = c
  /\ draft' = EmptyDb
  /\ lock' = NoConnection
  /\ job' = [job EXCEPT ![c] = Idle]
  /\ UNCHANGED <<db, History>>

(* mark_resolved: one UPDATE guarded by event_id. *)
Resolve(c, e) ==
  /\ job[c].pc = "idle"
  /\ \E i \in DOMAIN db.rows :
       /\ db.rows[i].event = e
       /\ Execute(c, SetResolved(db, i), Idle)
  /\ UNCHANGED History

\* The loop of delete_events_by_id over the event_ids that are left.
ToDelete(ids) ==
  IF ids = {} THEN Idle ELSE [Idle EXCEPT !.pc = "deleting", !.todo = ids]

(***************************************************************************)
(* delete_resolved (force = FALSE: only resolved events match) and the     *)
(* SELECT that prune and archive make before delete_by_ids (force).  What  *)
(* the remaining filter clauses select is any subset of what may match.    *)
(***************************************************************************)
Match(c, force) ==
  /\ job[c].pc = "idle"
  /\ \E ids \in SUBSET Live(db) :
       /\ force \/ \A i \in DOMAIN db.rows : db.rows[i].event \in ids => db.rows[i].resolved
       /\ job' = [job EXCEPT ![c] = ToDelete(ids)]
       /\ matched' = matched \cup ids
  /\ UNCHANGED <<db, draft, lock, torn, unrolled, crossed, retaken>>

\* Mutant: the row id of the SELECT is not kept.
Lookup_ForgetsRow(c, e) ==
  /\ job[c].pc = "deleting"
  /\ e \in job[c].todo
  /\ e \in Live(db)
  /\ job' = [job EXCEPT ![c].pc = "found", ![c].event = e]
  /\ UNCHANGED <<db, draft, lock, History>>

\* Mutant: the row is deleted before it has a tombstone.
Lookup_DeletesFirst(c, e) ==
  /\ job[c].pc = "deleting"
  /\ e \in job[c].todo
  /\ \E i \in DOMAIN db.rows :
       /\ db.rows[i].event = e
       /\ job' = [job EXCEPT ![c].pc = "tombstoned", ![c].event = e, ![c].row = i]
  /\ UNCHANGED <<db, draft, lock, History>>

\* SELECT id, audit_hash; an event that is gone by now is skipped.
Lookup(c, e) ==
  /\ job[c].pc = "deleting"
  /\ e \in job[c].todo
  /\ \/ \E i \in DOMAIN db.rows :
          /\ db.rows[i].event = e
          /\ job' = [job EXCEPT ![c].pc = "found", ![c].event = e, ![c].row = i,
                                ![c].link = db.rows[i].hash]
          /\ Crosses(i \in Pending)
     \/ /\ e \notin Live(db)
        /\ job' = [job EXCEPT ![c] = ToDelete(job[c].todo \ {e})]
        /\ Crosses(FALSE)
  /\ UNCHANGED <<db, draft, lock, retaken>>

Entomb(c) ==
  /\ job[c].pc = "found"
  /\ Execute(c, PutTombstone(db, job[c].row, job[c].link),
             [job[c] EXCEPT !.pc = "tombstoned"])
  /\ UNCHANGED History

\* DELETE FROM events WHERE id = row (error_edges is never written).
Remove(c) ==
  /\ job[c].pc = "tombstoned"
  /\ Execute(c, DeleteRow(db, job[c].row), ToDelete(job[c].todo \ {job[c].event}))
  /\ UNCHANGED History

\* The process dies, or a statement fails, between two autocommit statements.
Abort(c) ==
  /\ job[c].pc \in WritePcs \cup DeletePcs
  /\ job' = [job EXCEPT ![c] = Idle]
  /\ torn' = (torn \/ job[c].pc \in WritePcs)
  /\ unrolled' = IF job[c].pc = "inserted"
                 THEN [unrolled EXCEPT ![FingerprintOf[job[c].event]] = @ + 1]
                 ELSE unrolled
  /\ UNCHANGED <<db, draft, lock, matched, crossed, retaken>>

Write(c) ==
  \/ \E e \in Events : Insert(c, e)
  \/ RollUp(c) \/ ReadLink(c) \/ Stamp(c) \/ Advance(c)

Batch(c) ==
  \/ Begin(c) \/ Commit(c) \/ Rollback(c)
  \/ \E e \in Events : WriteInBatch(c, e)

Delete(c) ==
  \/ \E force \in BOOLEAN : Match(c, force)
  \/ \E e \in Events : Lookup(c, e)
  \/ Entomb(c) \/ Remove(c)

Next ==
  \/ \E c \in AutocommitWriters : Write(c)
  \/ \E c \in BatchWriters : Batch(c)
  \/ \E c \in Maintainers : Delete(c) \/ (\E e \in Events : Resolve(c, e))
  \/ \E c \in Connections : Abort(c)

Spec == Init /\ [][Next]_vars

-----------------------------------------------------------------------------
DbOver(R, T) ==
  [rows : [R -> Row], tombs : [T -> Hash], last : Hash,
   count : [Fingerprints -> Nat], high : RowIds \cup {0}, reused : BOOLEAN,
   written : SUBSET Events, inserts : [Fingerprints -> Nat]]

IsDb(d) ==
  /\ DOMAIN d.rows \subseteq RowIds
  /\ DOMAIN d.tombs \subseteq RowIds
  /\ d \in DbOver(DOMAIN d.rows, DOMAIN d.tombs)

\* An operation past its first statement on a row knows the event and the row.
Job ==
  {j \in [pc : {"idle", "batch"} \cup WritePcs \cup DeletePcs,
          event : Events \cup {NoEvent}, row : RowIds \cup {0}, link : Hash,
          todo : SUBSET Events] :
     j.pc \notin {"idle", "batch", "deleting"} => j.event \in Events /\ j.row \in RowIds}

TypeOK ==
  /\ IsDb(db)
  /\ IsDb(draft)
  /\ lock \in Connections \cup {NoConnection}
  /\ job \in [Connections -> Job]
  /\ matched \subseteq Events
  /\ torn \in BOOLEAN
  /\ unrolled \in [Fingerprints -> Nat]
  /\ crossed \in BOOLEAN /\ retaken \in BOOLEAN

(***************************************************************************)
(* doctor --verify-audit reports Ok for a database that only this code     *)
(* wrote and chained, but for an autocommit write that stopped between its *)
(* statements and a row id given again after the newest row was deleted.   *)
(* Concurrent autocommit writers break it (audit::append).                 *)
(***************************************************************************)
AppendsChained ==
  Writing = {} /\ ~torn /\ ~db.reused => verify_chain(db)

(***************************************************************************)
(* And it does so whatever batches, resolves, deletes, rollbacks and kills *)
(* there were, and whatever came between the statements of an autocommit   *)
(* write, as long as no other write began there and no delete looked up    *)
(* its row.  (audit.rs, writer.rs)                                         *)
(***************************************************************************)
ChainVerifies == ~crossed => AppendsChained

(***************************************************************************)
(* Every row id that was ever used and holds no row has a tombstone, at    *)
(* every moment, a kill in the middle of a delete included: tombstone      *)
(* first, DELETE second, in any interleaving.  (delete_events_by_id)       *)
(***************************************************************************)
RemovalsEntombed ==
  \A i \in 1..db.high : i \in DOMAIN db.rows \cup DOMAIN db.tombs

(***************************************************************************)
(* Rows leave the events table only because a delete's SELECT returned     *)
(* their event: the DELETE by row id hits the row that was looked up, if   *)
(* no second maintainer deleted that row, and an insert took its id, in    *)
(* between.  (delete_events_by_id)                                         *)
(***************************************************************************)
OnlyMatchedRemoved == ~retaken => db.written \ Live(db) \subseteq matched

(***************************************************************************)
(* fingerprints.count is the number of inserts ever made for that          *)
(* fingerprint: no two upserts of concurrent writers lose one, a rolled    *)
(* back batch counts nothing, and a write that has not reached its upsert  *)
(* (or stopped before it) is the only difference.  (update_fingerprint)    *)
(***************************************************************************)
RollupCounts ==
  \A f \in Fingerprints :
    LET pending == {c \in Connections : /\ job[c].pc = "inserted"
                                        /\ FingerprintOf[job[c].event] = f}
    IN  db.count[f] + unrolled[f] + Cardinality(pending) = db.inserts[f]

-----------------------------------------------------------------------------
(***************************************************************************)
(* Why RemovalsEntombed and ChainVerifies hold: their inductive            *)
(* invariants, in parts.  AuditStoreProofs proves them.                    *)
(***************************************************************************)
\* Row ids are used from 1 up; each holds a row, a tombstone, or both.
Entombed(d) == DOMAIN d.rows \cup DOMAIN d.tombs = 1..d.high

EntombInv ==
  /\ TypeOK
  /\ Entombed(db)
  /\ \A c \in Digging :
       /\ job[c].row \in 1..db.high
       /\ job[c].pc = "tombstoned" => job[c].row \in DOMAIN db.tombs
  /\ lock # NoConnection => /\ Entombed(draft)
                            /\ db.high <= draft.high
                            /\ draft.tombs = db.tombs

\* Every row but those of P links to its predecessor, and tombstones repeat hashes.
Links(d, P) ==
  /\ \A i \in DOMAIN d.rows \ P : Linked(d, i)
  /\ \A i \in DOMAIN d.rows \cap DOMAIN d.tombs : d.tombs[i] = d.rows[i].hash

\* last_hash is the hash of the newest id, as long as that id holds its row.
EndsAt(d) ==
  /\ d.high = 0 => d.last = Genesis
  /\ d.high \in DOMAIN d.rows => d.last = d.rows[d.high].hash

\* What a delete has read is still the hash of that id.
LinksRead(d) == \A c \in Digging : HashAt(d, job[c].row) = job[c].link

\* An autocommit writer writes alone, and its row is the newest, not yet linked.
WriterInv ==
  \A c \in Writing :
    /\ Writing = {c}
    /\ job[c].row = db.high
    /\ job[c].row \in DOMAIN db.rows \ DOMAIN db.tombs
    /\ job[c].row \notin LookedUp
    /\ db.rows[job[c].row].event = job[c].event
    /\ db.last = Base(db, job[c].row)
    /\ job[c].pc \in {"linked", "stamped"} => job[c].link = db.last
    /\ job[c].pc = "stamped" =>
         db.rows[job[c].row].hash = compute_hash(job[c].link, job[c].event)

\* An open transaction has only added rows to what it started from.
DraftInv ==
  /\ ~db.reused
  /\ \A i \in DOMAIN db.rows : i \in DOMAIN draft.rows /\ draft.rows[i].hash = db.rows[i].hash
  /\ Links(draft, {}) /\ EndsAt(draft) /\ LinksRead(draft)

Chained ==
  /\ ~db.reused => /\ WriterInv
                   /\ Links(db, Pending)
                   /\ Writing = {} => EndsAt(db)
                   /\ LinksRead(db)
  /\ lock # NoConnection => Writing = {} /\ (~draft.reused => DraftInv)

ChainInv == EntombInv /\ (~crossed /\ ~torn => Chained)
=============================================================================
