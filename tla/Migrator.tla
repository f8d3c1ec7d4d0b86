------------------------------ MODULE Migrator ------------------------------
(***************************************************************************)
(* Store::open_or_create (lib.rs) and the Migrator (migrate.rs) of         *)
(* witslog-store, run by several processes that open the same database.    *)
(*                                                                         *)
(* No migration runs in a transaction: every SQL statement commits by      *)
(* itself, other processes migrate and write in between, and a process     *)
(* may be killed (or its statement give up with SQLITE_BUSY) after any of  *)
(* them.  The version is read once, when the store is opened; a SELECT of  *)
(* it that fails is taken for an empty table, as is the one that looks for *)
(* the index (the unwrap_or of run_migrations and fts_exists).             *)
(*                                                                         *)
(* Rows are never deleted here (AuditStore does that), and a write is one  *)
(* transaction, as a StoreSink's is.                                       *)
(***************************************************************************)
EXTENDS Naturals, Sequences, FiniteSets

CONSTANTS
  Processes,      \* processes that open the database
  StartVersions,  \* the schema versions the database may be found at
  MaxOldRows,     \* bound: rows in the database at the start
  MaxRows,        \* bound: rows ever
  MaxStops        \* bound: kills, and statements that give up or misread

CURRENT_SCHEMA_VERSION == 7
Steps == 1..CURRENT_SCHEMA_VERSION

ASSUME BoundsAssumption ==
  /\ MaxOldRows \in Nat /\ MaxRows \in Nat /\ MaxStops \in Nat
  /\ StartVersions \subseteq Nat

(***************************************************************************)
(* What the steps create.  Added[k] is checked for and then created by a   *)
(* statement that fails if it exists; Created[k] by statements that        *)
(* tolerate what exists (except the two triggers: see FillIndex).          *)
(***************************************************************************)
Added ==
  [k \in Steps |-> CASE k = 2 -> {"resolved_at"}
                     [] k = 5 -> {"events_fts"}
                     [] k = 6 -> {"audit_hash"}
                     [] OTHER -> {}]

Created ==
  [k \in Steps |-> CASE k = 1 -> {"migrations", "events", "categories"}
                     [] k = 2 -> {"ix_events_unresolved"}
                     [] k = 3 -> {"runtime_stats"}
                     [] k = 4 -> {"builtin_categories"}
                     [] k = 5 -> {"events_ai", "events_ad"}
                     [] k = 6 -> {"audit_meta"}
                     [] k = 7 -> {"audit_tombstones"}]

Objects == UNION {Added[k] \cup Created[k] : k \in Steps}

(***************************************************************************)
(* A hash is the sequence of the row ids hashed into it.  NoHash is NULL.  *)
(***************************************************************************)
Genesis == <<>>
NoHash == <<0>>
compute_hash(prev, i) == Append(prev, i)
Hash == Seq(Nat)
Row == [hash : Hash, indexed : Nat]

VARIABLES
  version,  \* schema_meta.schema_version, 0 when there is none
  log,      \* the versions in the table migrations
  objects,  \* tables, columns, indexes, triggers and seeds that exist
  rows,     \* events, by id; indexed: times the row was put in events_fts
  last,     \* audit_meta.last_hash
  proc,     \* per process, where it is in open_or_create
  stops,    \* history: kills, give-ups and misreadings
  misread,  \* history: what a failing SELECT was misread for, see Misread
  torn,     \* history: what was stopped half done, or written to meanwhile
  failed,   \* history: some open failed because of what was in the database
  overlapped \* history: a migration began while another was under way

vars == <<version, log, objects, rows, last, proc, stops, misread, torn, failed, overlapped>>
schema == <<version, log, objects>>
data == <<rows, last>>
history == <<stops, misread, torn, failed, overlapped>>

Closed == [pc |-> "closed", step |-> 0, link |-> Genesis, todo |-> {}]

MigratingPcs ==
  {"check", "add", "create", "fill", "readEnd", "select", "chain", "stamp", "record"}

Ready(p) == proc[p].pc = "ready"
Migrating(p) == proc[p].pc \in MigratingPcs

\* The hash of row i when the chain is intact.
IntactHash(i) == [j \in 1..i |-> j]

(***************************************************************************)
(* The database as earlier releases left it: every step up to its version  *)
(* done, rows hashed from version 6 and indexed from version 5 on.         *)
(***************************************************************************)
Init ==
  /\ version \in StartVersions
  /\ log = 1..version
  /\ objects = UNION {Added[k] \cup Created[k] : k \in {s \in Steps : s <= version}}
  /\ \E n \in 0..(IF version = 0 THEN 0 ELSE MaxOldRows) :
       /\ rows = [i \in 1..n |->
                   [hash |-> IF version >= 6 THEN IntactHash(i) ELSE NoHash,
                    indexed |-> IF version >= 5 THEN 1 ELSE 0]]
       /\ last = IF version >= 6 THEN IntactHash(n) ELSE Genesis
  /\ proc = [p \in Processes |-> Closed]
  /\ stops = 0 /\ misread = {} /\ torn = {} /\ failed = FALSE /\ overlapped = FALSE

-----------------------------------------------------------------------------
FirstPc(k) == IF Added[k] = {} THEN "create" ELSE "check"

Goto(p, pc) == proc' = [proc EXCEPT ![p].pc = pc]

\* Start the step k, or be done with all of them.
Enter(p, k) ==
  proc' = [proc EXCEPT ![p] =
             IF k \in Steps THEN [Closed EXCEPT !.pc = FirstPc(k), !.step = k]
             ELSE [Closed EXCEPT !.pc = "ready"]]

\* By the version it has read, p has a migration to run while one is under way.
Overlap(p, read) ==
  IF read < CURRENT_SCHEMA_VERSION /\ \E q \in Processes \ {p} : Migrating(q)
  THEN overlapped' = TRUE
  ELSE UNCHANGED overlapped

\* A SELECT that fails is answered as if it had found nothing.
Misread(what) ==
  /\ stops < MaxStops
  /\ stops' = stops + 1
  /\ misread' = misread \cup {what}

Begin(p, read) ==
  /\ proc[p].pc = "closed"
  /\ IF read > CURRENT_SCHEMA_VERSION THEN Goto(p, "refused") ELSE Enter(p, read + 1)
  /\ Overlap(p, read)
  /\ UNCHANGED <<schema, data, torn, failed>>

\* Mutant: no step is skipped, whatever the version.
Open_FromScratch(p) ==
  /\ Begin(p, IF version = CURRENT_SCHEMA_VERSION THEN version ELSE 0)
  /\ UNCHANGED <<stops, misread>>

Open(p) ==
  \/ Begin(p, version) /\ UNCHANGED <<stops, misread>>
  \/ Begin(p, 0) /\ Misread("version")

\* A statement that fails ends the open with its error.
Fail(p) ==
  /\ proc' = [proc EXCEPT ![p] = Closed]
  /\ failed' = TRUE
  /\ UNCHANGED <<schema, data, stops, misread, torn, overlapped>>

\* Mutant: a column that exists ends the step.
Check_ReturnsEarly(p) ==
  LET k == proc[p].step IN
  /\ proc[p].pc = "check"
  /\ Goto(p, IF Added[k] \cap objects = {} THEN "add" ELSE "stamp")
  /\ UNCHANGED <<schema, data, history>>

\* has_column (steps 2 and 6), fts_exists (step 5).  An index that exists
\* ends step 5; a column that exists only saves its ALTER TABLE.
Check(p) ==
  LET k == proc[p].step IN
  /\ proc[p].pc = "check"
  /\ UNCHANGED <<schema, data, torn, failed, overlapped>>
  /\ \/ /\ Goto(p, IF Added[k] \cap objects = {} THEN "add"
                   ELSE IF k = 5 THEN "stamp" ELSE "create")
        /\ UNCHANGED <<stops, misread>>
     \/ k = 5 /\ Goto(p, "add") /\ Misread("index")

\* ALTER TABLE ADD COLUMN, CREATE VIRTUAL TABLE: fail on what exists.
Add(p) ==
  LET k == proc[p].step IN
  /\ proc[p].pc = "add"
  /\ IF Added[k] \cap objects # {} THEN Fail(p)
     ELSE /\ objects' = objects \cup Added[k]
          /\ Goto(p, "create")
          /\ UNCHANGED <<version, log, data, history>>

\* One statement of the batch.  The order of a batch makes no difference to
\* another process, or to a kill, as no statement of it needs another.
Create(p) ==
  /\ proc[p].pc = "create"
  /\ \E o \in Created[proc[p].step] \ objects : objects' = objects \cup {o}
  /\ UNCHANGED <<version, log, proc, data, history>>

AfterCreate(k) ==
  CASE k = 5 -> "fill" [] k = 6 -> "readEnd" [] OTHER -> "stamp"

EndCreate(p) ==
  LET k == proc[p].step IN
  /\ proc[p].pc = "create"
  /\ Created[k] \subseteq objects
  /\ Goto(p, AfterCreate(k))
  /\ UNCHANGED <<schema, data, history>>

\* Mutant: the rows of an older database are not put in the index.
FillIndex_None(p) ==
  /\ proc[p].pc = "fill"
  /\ Goto(p, "stamp")
  /\ UNCHANGED <<schema, data, history>>

\* INSERT INTO events_fts SELECT ... FROM events: every row there is by now,
\* those a trigger has indexed since it was created as well.  Only the
\* process that created events_fts gets here, so the triggers are its own.
FillIndex(p) ==
  /\ proc[p].pc = "fill"
  /\ rows' = [i \in DOMAIN rows |-> [rows[i] EXCEPT !.indexed = @ + 1]]
  /\ Goto(p, "stamp")
  /\ UNCHANGED <<schema, last, history>>

-----------------------------------------------------------------------------
(* audit::backfill_chain.                                                  *)

ReadEnd(p) ==
  /\ proc[p].pc = "readEnd"
  /\ proc' = [proc EXCEPT ![p].pc = "select", ![p].link = last]
  /\ UNCHANGED <<schema, data, history>>

SelectUnhashed(p) ==
  /\ proc[p].pc = "select"
  /\ proc' = [proc EXCEPT ![p].pc = "chain",
                ![p].todo = {i \in DOMAIN rows : rows[i].hash = NoHash}]
  /\ UNCHANGED <<schema, data, history>>

IsOldest(i, S) == i \in S /\ \A j \in S : i <= j

\* Mutant: every row is chained onto the end that was read.
HashRow_KeepsPrev(p) ==
  /\ proc[p].pc = "chain"
  /\ \E i \in proc[p].todo :
       /\ IsOldest(i, proc[p].todo)
       /\ rows' = [rows EXCEPT ![i].hash = compute_hash(proc[p].link, i)]
       /\ proc' = [proc EXCEPT ![p].todo = @ \ {i}]
  /\ UNCHANGED <<schema, last, history>>

HashRow(p) ==
  /\ proc[p].pc = "chain"
  /\ \E i \in proc[p].todo :
       LET h == compute_hash(proc[p].link, i) IN
       /\ IsOldest(i, proc[p].todo)
       /\ rows' = [rows EXCEPT ![i].hash = h]
       /\ proc' = [proc EXCEPT ![p].link = h, ![p].todo = @ \ {i}]
  /\ UNCHANGED <<schema, last, history>>

SetEnd(p) ==
  /\ proc[p].pc = "chain"
  /\ proc[p].todo = {}
  /\ last' = proc[p].link
  /\ Goto(p, "stamp")
  /\ UNCHANGED <<schema, rows, history>>

-----------------------------------------------------------------------------
(* record_migration.                                                       *)

\* Mutant: the row of migrations goes in before the version.
Stamp_AfterRecord(p) ==
  /\ proc[p].pc = "stamp"
  /\ IF proc[p].step \in log THEN Fail(p)
     ELSE /\ version' = proc[p].step
          /\ Goto(p, "record")
          /\ UNCHANGED <<log, objects, data, history>>

\* INSERT OR REPLACE INTO schema_meta.
Stamp(p) ==
  /\ proc[p].pc = "stamp"
  /\ version' = proc[p].step
  /\ Goto(p, "record")
  /\ UNCHANGED <<log, objects, data, history>>

\* Mutant: the loop over the steps does not stop at the last.
Record_RunsOn(p) ==
  LET k == proc[p].step IN
  /\ proc[p].pc = "record"
  /\ k \notin log
  /\ log' = log \cup {k}
  /\ proc' = [proc EXCEPT ![p].pc = "create", ![p].step = k + 1]
  /\ UNCHANGED <<version, objects, data, history>>

\* INSERT INTO migrations: fails on a version that is recorded.
Record(p) ==
  LET k == proc[p].step IN
  /\ proc[p].pc = "record"
  /\ IF k \in log THEN Fail(p)
     ELSE /\ log' = log \cup {k}
          /\ Enter(p, k + 1)
          /\ UNCHANGED <<version, objects, data, history>>

-----------------------------------------------------------------------------
(***************************************************************************)
(* The process is killed, or a statement gives up and open_or_create       *)
(* returns the error; either way the statements that ran stay.  What it    *)
(* leaves half done: an index without its triggers or its old rows         *)
(* ("index"); rows chained past an end that was not written ("chain").     *)
(***************************************************************************)
LeavesTorn(p) ==
  LET k == proc[p].step IN
  (IF k = 5 /\ proc[p].pc \in {"create", "fill"} THEN {"index"} ELSE {})
    \cup (IF proc[p].pc = "chain" /\ proc[p].link # last THEN {"chain"} ELSE {})

Stop(p) ==
  /\ Migrating(p)
  /\ stops < MaxStops
  /\ stops' = stops + 1
  /\ torn' = torn \cup LeavesTorn(p)
  /\ proc' = [proc EXCEPT ![p] = Closed]
  /\ UNCHANGED <<schema, data, misread, failed, overlapped>>

\* A process done with the store, or killed while it is not writing.
Close(p) ==
  /\ proc[p].pc \in {"ready", "refused"}
  /\ proc' = [proc EXCEPT ![p] = Closed]
  /\ UNCHANGED <<schema, data, history>>

\* write_event in a transaction; the trigger events_ai indexes the row.  A
\* backfill that has read the end of the chain does not know of it.
Write(p) ==
  LET n == Len(rows) + 1
      h == compute_hash(last, n)
  IN
  /\ Ready(p)
  /\ n <= MaxRows
  /\ rows' = Append(rows, [hash |-> h,
                           indexed |-> IF "events_ai" \in objects THEN 1 ELSE 0])
  /\ last' = h
  /\ torn' = torn \cup (IF \E q \in Processes : proc[q].pc \in {"select", "chain"}
                        THEN {"chain"} ELSE {})
  /\ UNCHANGED <<schema, proc, stops, misread, failed, overlapped>>

Migrate(p) ==
  \/ Check(p) \/ Add(p) \/ Create(p) \/ EndCreate(p) \/ FillIndex(p)
  \/ ReadEnd(p) \/ SelectUnhashed(p) \/ HashRow(p) \/ SetEnd(p)
  \/ Stamp(p) \/ Record(p)

Next ==
  \E p \in Processes :
    Open(p) \/ Migrate(p) \/ Stop(p) \/ Close(p) \/ Write(p)

Spec == Init /\ [][Next]_vars

(***************************************************************************)
(* A process that could not open the store opens it again with its next    *)
(* capture or command, and a migration runs on its own once started.       *)
(***************************************************************************)
Fairness == \A p \in Processes : WF_vars(Open(p) \/ Migrate(p))
LiveSpec == Spec /\ Fairness

-----------------------------------------------------------------------------
TypeOK ==
  /\ version \in Nat
  /\ log \subseteq Nat
  /\ objects \subseteq Objects
  /\ rows \in Seq(Row)
  /\ last \in Hash
  /\ proc \in [Processes ->
       [pc : MigratingPcs \cup {"closed", "ready", "refused"},
        step : 0..CURRENT_SCHEMA_VERSION, link : Hash, todo : SUBSET Nat]]
  /\ \A p \in Processes : Migrating(p) => proc[p].step \in Steps
  /\ stops \in 0..MaxStops
  /\ misread \subseteq {"version", "index"}
  /\ torn \subseteq {"index", "chain"}
  /\ failed \in BOOLEAN
  /\ overlapped \in BOOLEAN

\* What a step leaves behind whatever was killed in it: everything, but for
\* the triggers of step 5, which a second run does not create.
Kept(k) == IF k = 5 THEN Added[k] ELSE Added[k] \cup Created[k]

Has(k) == Kept(k) \subseteq objects

Triggered ==
  Added[5] \subseteq objects =>
    \/ Created[5] \subseteq objects
    \/ "index" \in torn
    \/ \E p \in Processes : proc[p].step = 5 /\ proc[p].pc = "create"

(***************************************************************************)
(* The version never promises more than the database holds, and a store    *)
(* that was opened has all of it: whatever the processes that migrate at   *)
(* once, the kills, and the version set back by a slow one or a failing    *)
(* SELECT, every table, column, index and seed of the steps up to          *)
(* schema_version exists; and so do the triggers of the full-text index,   *)
(* if no process is about to create them or was stopped when it was.       *)
(***************************************************************************)
SchemaComplete ==
  /\ \A k \in Steps : k <= version => Has(k)
  /\ \A p \in Processes : Ready(p) => \A k \in Steps : Has(k)
  /\ Triggered

AtRest == \A p \in Processes : ~Migrating(p)

HistoryChained ==
  AtRest /\ version >= 6 =>
    /\ \A i \in DOMAIN rows : rows[i].hash = IntactHash(i)
    /\ last = IntactHash(Len(rows))

HistoryIndexed ==
  AtRest /\ version >= 5 => \A i \in DOMAIN rows : rows[i].indexed = 1

(***************************************************************************)
(* While migrations do not overlap, backfill_chain leaves a chain that     *)
(* covers all rows and that writes continue, through any misread version:  *)
(* unless a stop fell between its first UPDATE and its set_last_hash, or a *)
(* row was written after it had read the end.                              *)
(***************************************************************************)
ChainCoversHistory == "chain" \notin torn /\ ~overlapped => HistoryChained

(***************************************************************************)
(* While migrations do not overlap, every row, old or new, is in the       *)
(* full-text index exactly once from version 5 on, through any misread     *)
(* version or table: unless a stop fell between the creation of the index  *)
(* and the end of its backfill.                                            *)
(***************************************************************************)
IndexCoversHistory == "index" \notin torn /\ ~overlapped => HistoryIndexed

(***************************************************************************)
(* Migrations that do not overlap, and that have read the version they     *)
(* start from, only ever move it on, through kills and reopens.            *)
(***************************************************************************)
VersionOnlyGrows ==
  [][~overlapped' /\ "version" \notin misread => version' >= version]_vars

(***************************************************************************)
(* Wherever the opens before it were killed, an open finds nothing in the  *)
(* database that makes it fail, no object that exists already and no       *)
(* version that is recorded already, as long as no migration overlapped    *)
(* another and no failing SELECT was misread.                              *)
(***************************************************************************)
ReopensSucceed == ~overlapped /\ misread = {} => ~failed

(***************************************************************************)
(* However the migrations of several processes collide and whatever SELECT *)
(* of the version is misread (either fails an open and may set the version *)
(* back), a process that keeps opening the store gets it in the end, or is *)
(* told it is too new.                                                     *)
(***************************************************************************)
EveryOpenSettles == \A p \in Processes : []<>(proc[p].pc \in {"ready", "refused"})
=============================================================================
