# TLA+ specifications of witslog

witslog is an error logger that applications embed: events are built, redacted,
buffered and written into one SQLite database per project, which a CLI, a C ABI
(with Node, Python and PHP bindings) and an MCP server read and maintain. These
modules specify the parts of it where threads, processes, crashes and retries
meet: what each step of the code changes, what must hold whatever the order of
steps, and proofs of it for every number of connections, events, operators,
threads, pages and queue sizes.

Paths below are relative to the repository root; `store/` stands for
`crates/witslog-store/src/`, `core/` for `crates/witslog-core/src/`,
`runtime/` for `crates/witslog-runtime/src/`, `cli/` for
`crates/witslog-cli/src/`, `query/` for `crates/witslog-query/src/`, `mcp/` for
`crates/witslog-mcp/src/`.

## 1. Inventory

| Component | State | Operations | Hard behaviour | What makes it correct |
|---|---|---|---|---|
| Store writer (`store/writer.rs`, `sink.rs`, `conn.rs`) | tables `events`, `fingerprints`, `audit_meta`, `audit_tombstones` | write, write_batch, write_if_absent, mark_resolved, delete_resolved, delete_by_ids | statements of several processes interleave; kills and failures between autocommit statements | counts match inserts; only matched rows go; every removal leaves a tombstone |
| Audit chain (`store/audit.rs`) | `audit_hash` per row, `last_hash` | append, verify_chain, backfill_chain | read-modify-write of `last_hash`; row ids reused by SQLite | an untampered database verifies |
| Migrator (`store/migrate.rs`) | `schema_version`, schema | migrate | kills between steps; two processes opening a new database; SELECTs whose failure is read as an empty answer | reruns complete the schema |
| Taxonomy (`store/taxonomy.rs`, `core/taxonomy.rs`) | categories, aliases | insert, resolve, classify | alias and category checks before inserts | resolution is stable |
| Async buffer (`core/buffer.rs`) | bounded channel, batch, dropped counter, shutdown flag | enqueue, flush thread, drop | caller and flush thread race; failing sink; shutdown | nothing lost uncounted, order kept, drop returns |
| Ambient runtime (`runtime/lib.rs`) | mounted configuration, process-wide buffer, panic hook | arm, capture, flush | configuration replaced between snapshot and use; locks held across joins | events reach the configured database |
| Notify and plugins (`runtime/notify.rs`, `witslog-plugin`) | last-fired table | dispatch, throttle | threads race for one interval; failing plugins; a registry replaced under way | one line per interval; nothing held back for nothing |
| C ABI (`witslog-ffi`) | its own configuration and buffer | configure, log, resolve, delete, init, flush | read-modify-write of the configuration | as the runtime |
| Pipeline (`core/event.rs`, `enrich.rs`, `redact.rs`, `core/taxonomy.rs`, `core/crypto.rs`) | the event under construction | enrich, redact, classify, encrypt, build | the order of the steps | no tagged secret is stored, nor tells two fingerprints apart |
| Keys and configuration (`witslog-config`, `.env`, `cli/main.rs`) | config.toml, .env, the environment of each process | init, config, mount, log | two files written one after the other; processes that read them at other times | never plaintext once encryption is on; what is sealed can be read |
| Query (`query/`) | none | search pages, correlation walk, aggregates | ties in time stamps, cycles of parents, writes and failures between statements | every match on exactly one page; walks are complete and end |
| MCP server (`witslog-mcp`) | none | requests, tools, delete with preview | preview and delete built twice | a preview names what the delete removes; requests are answered |
| CLI (`cli/main.rs`) | files beside the database | resolve, delete, import, export, prune, archive, backup, vacuum, migrate | kills between copy and delete; the database file lags behind its WAL | no event lost or doubled; a backup is of one moment |
| Bindings (`bindings/`) | browser queue, rate limiter | report, ingest | lost, cut and refused requests | one event per failure, at most; bounded |

How they interact. `capture` (runtime or C ABI) takes a snapshot of the mounted
configuration, builds an event and either enqueues it into the process-wide
`AsyncBuffer` or opens a `Store` and writes at once. The buffer's flush thread
owns a `StoreSink`, which writes each batch in one transaction. Both paths end
in `write_event`: the row, the fingerprint upsert and one link of the audit
chain. Processes share nothing but the SQLite file (WAL mode, 5 s busy
timeout). The CLI, the C ABI and the MCP server delete through
`delete_events_by_id`, one autocommit statement after the other, and
`doctor --verify-audit` walks the chain.

Errors of web pages come in over the network: `witslog-browser.js` queues what
its listeners hear and ships it to the Express endpoint, which hands it to the
C ABI.

## 2. Modules

Each module is about one part of the system; they share the database, and what
one module does in several steps is one step in those that build on it (named in
each module's first comment).

| Module | Models | Theorems |
|---|---|---|
| `AuditStore` | the writer's statements and the audit chain over a shared database | `AuditStoreProofs` |
| `AsyncBuffer`, implementing `LossyLog` | the buffer and its flush thread | `AsyncBufferProofs` |
| `Migrator` | opening and migrating a database | `MigratorProofs` |
| `Provider` | the runtime and the C ABI between caller and buffer | `ProviderProofs` |
| `Maintenance` | the CLI's commands over database, WAL and files | `MaintenanceProofs` |
| `Pipeline`, composed into `Metadata` | what becomes of an event on the way; who knows which key when | `MetadataProofs` |
| `Notify`, on `ThrottledNotifier` | dispatch and its plugins; the throttle's table and what it promises | `ProviderProofs` |
| `Reader` | query engine and MCP server | `ReaderProofs` |
| `Ingest` | browser reporter and ingest endpoint | `IngestProofs` |

Worth doing next: a module of SQLite's locks (deferred transactions and their
upgrades) that says when a sink's write fails, which `AsyncBuffer` leaves open.

## 3. AuditStore

`AuditStore.tla` models `EventWriter`, `StoreSink`, `DbConnection::transaction`
and `audit.rs`.

State. `db` is the committed database: `rows` (the `events` table: event,
`audit_hash`, resolved), `tombs` (`audit_tombstones`), `last`
(`audit_meta.last_hash`), `count` (`fingerprints.count`); its fields `high`,
`reused`, `written` and `inserts` only remember the past. `draft` is what the
open transaction sees, `lock` who has it open, `job` what each connection is in
the middle of. `matched`, `torn`, `unrolled`, `crossed` and `retaken` are history.

Actions. A connection is in autocommit mode outside a transaction, so
`EventWriter::write` is five steps - `Insert`, `RollUp`, `ReadLink`, `Stamp`,
`Advance` - and a delete is `Match` (its SELECT), then for each event `Lookup`,
`Entomb`, `Remove`. `Begin`, `WriteInBatch`, `Commit`, `Rollback` are
`write_batch`. `Abort` is a kill, or a statement that fails, between two
autocommit statements. A statement that writes waits while a transaction is
open (`Execute`); reads do not wait.

A hash is modelled as the sequence of what went into it, so two hashes are
equal only if their histories are. Row ids follow SQLite: `events.id` is an
INTEGER PRIMARY KEY without AUTOINCREMENT, so a new row gets the largest id in
the table plus one, and the id of a deleted newest row is used again.

| Run | Question | Bounds |
|---|---|---|
| Audit | autocommit writes, batches, resolves and deletes of two connections on the same rows: what do chain, tombstones, deletes and rollup keep to? | 2 connections, 2 events, 3 row ids, 3 inserts |
| AuditForkedChain | the disagreement of section 13 | 2 events |

Three rows suffice for a gap with a row on either side, an id used again, and a
second delete of the same row. Either connection has every role, so each pair of
operations meets: two writers, a writer and a batch, a writer and a delete, two
deletes.
`MaxInserts` bounds how often events of one fingerprint are written, deleted
and written again. Events and connections are interchangeable: the configurations
use symmetry, which is sound as no liveness is checked.

`AppendsChained` is the claim of the documents: whatever this code writes
verifies, but for a write under way, a torn autocommit write and a reused row
id. AuditForkedChain shows it fails with two autocommit writers. `ChainVerifies`
is what remains: it holds unless, in the middle of an autocommit write, another
write began or a delete looked up the row being written (`crossed`; the delete
would keep a hash that is not final in the tombstone). Batches, which are
transactions, resolves and deletes may come in between, in any number.
`OnlyMatchedRemoved` excepts a row id that a delete had looked up and an insert
was given (`retaken`): a second maintainer removed that row in between, and the
first one then removes the row that has its id now. A torn write (a process
killed between the statements of `EventWriter::write`) leaves a row without a
hash, or `last_hash` behind the newest row, and `verify_chain` answers Broken
from then on.

Not in the model: time stamps and `mark_resolved`'s `force` (which only moves a
time stamp), `bump_dropped`, `error_edges` (nothing writes it) and the
reads. A transaction is given the write lock when it begins; what
SQLite does when two deferred transactions compete (`store/conn.rs:89`) is left
out. To the chain, a transaction that fails is a `Rollback`.

## 4. AsyncBuffer and LossyLog

`AsyncBuffer.tla` models `core/buffer.rs`: `queue` is the channel, `batch` the
flush thread's vector, `persisted` what the sink committed, `dropped` the
counter, `shutdown` the flag, `handle` the owner's side. `Enqueue` is the
caller; `StartDrop` and `Join` are `Drop`; `Receive`, `TimeOut`, `WriteBatch`,
`FailOnce`, `FailTwice` and `CheckShutdown` are the steps of the flush thread.
`TimeOut` needs an empty channel, as `recv_timeout` returns what is queued
before it gives up. The `Disconnected` branch is not reachable: the sender
lives in the `AsyncBuffer` until `Drop` has joined the thread.

`FailOnce` stands for an attempt that returns an error or panics; with
`StoreSink` an attempt is one transaction, so it leaves nothing behind.

`LossyLog.tla` is what a caller may rely on: one sequence of pending events,
added to at the end, stored or dropped from the head in batches, with events
turned away only when the channel is full. `KeepsPromise` says that
`AsyncBuffer` implements it, with `batch \o queue` as the pending sequence; order
is part of it.

| Run | Question | Bounds |
|---|---|---|
| Buffer | loss, order and the promise under failures and shutdown; does drop return, does every event leave the buffer? | capacity 2, batch 3, 7 events |

Seven events fill the batch and the channel, lose one at the full channel and
start over. The batch is larger than the channel, so that partial batches
depend on the timeout. A configuration of zeros, which the code raises to 1, is
left to the theorems.

Fairness (`FairSpec`): weak fairness of the flush thread - the operating system
runs it and `write_batch` returns, as SQLite's busy timeout bounds its waiting -
and of `Join`, which only waits. Nothing is assumed of the callers. The runs of
the buffer do not check for deadlock, as a program that dropped its buffer has
stopped.

## 5. Migrator

`Migrator.tla` models `Store::open_or_create` (`store/lib.rs`), `store/migrate.rs`
and `audit::backfill_chain`, run by several processes over one database.

State. `version` and `log` are `schema_meta.schema_version` and the table
`migrations`; `objects` the tables, columns, indexes, triggers and seeds that
exist; `rows` and `last` the events (hash, times indexed) and
`audit_meta.last_hash`. `proc` says where a process is. `stops`, `misread`,
`torn`, `failed` and `overlapped` are history.

Actions. `Open` reads the version, refuses one that is too new, and starts the
step after it; a SELECT of the version that fails is read as 0
(`unwrap_or_else`, `store/migrate.rs:35`), and one that looks for the index as
"no index" (`fts_exists`): these are `Misread`. A step is its check (`Check`:
`has_column`, `fts_exists`), the statement the check guards (`Add`, which fails
if another process was faster), its tolerant statements one by one (`Create`,
`EndCreate`), its backfill (`FillIndex`; `ReadEnd`, `SelectUnhashed`, `HashRow`,
`SetEnd`), and `record_migration` (`Stamp`, `Record`). `Stop` is a kill, or a
statement that gives up, after any statement. A process whose store is open may
`Write` (a transaction, as a StoreSink's) or `Close`. Nothing runs in a
transaction except `Write`, as in the code.

The database is found at a version as an earlier release left it. A corrupt
`schema_version`, which reads as 0 every time, is not modelled, nor is
`witslog migrate` with its backup, which is in `Maintenance`.

| Run | Question | Bounds |
|---|---|---|
| Migrate | what can concurrent migrations and kills not break, what holds while migrations do not overlap, does every open succeed in the end? | 2 processes, 2 rows, 2 stops or misread SELECTs, versions 0, 4, 5 and 8 |

Two rows are needed for a backfill that is stopped in the middle, two stops for
a rerun that is stopped again. Version 4 lacks the index and the chain, 5 only
the chain, and 8 is a newer release's.

`SchemaComplete` holds whatever overlaps or is misread: no step up to
`schema_version` is without what it makes, but for the two triggers of the
full-text index, which a kill between CREATE VIRTUAL TABLE and the triggers loses
for good (`Triggered` says they are there otherwise).
`ChainCoversHistory` and `IndexCoversHistory` are claimed while `overlapped` is
false, through misread SELECTs, and name the windows (`torn`) where harm is done:
a kill between the creation of `events_fts` and the end of its backfill, a kill
between the first hash written by `backfill_chain` and its `set_last_hash` - the
rerun finds the hashed rows done and starts from `genesis` again -, and a row
written while a backfill is under way, which a misread version runs on a
database that is in use. `VersionOnlyGrows` and `ReopensSucceed` except misread
SELECTs: read as 0, a version is stamped back to 1, and the open fails on the
row that `migrations` has already. This is so for a newer release's database
too, which the guard would have refused.

Fairness (`LiveSpec`): an application that could not open the store tries again
with its next event or command, and a migration goes on by itself. When
processes collide, or the version is misread, an open fails on a version that is
recorded, after having set `schema_version` back; `EveryOpenSettles` shows that
this ends, because the version is written before the record.

## 6. Provider

`Provider.tla` models what sits between the application and the buffer:
`runtime/lib.rs` and the C ABI (`witslog-ffi/src/lib.rs`). Each has a
configuration behind one lock and a buffer behind another; the initial state
chooses which of the two (`surface`) a behaviour is about, as they share
nothing.

State. `config` is `RUNTIME` or `RUNTIME_CONFIG`, reduced to the database, the
buffer switch and whether a key is set; `buffer` is `BUFFER`; `job` the call a
thread is in, with its copy of the configuration. `stored`, `dropped` and
`refused` are what became of the events; the remaining variables are history.
`torn` are the refused events that are stored nevertheless.

Actions. A capture is `Snapshot` (the copy, and the key) followed by `Enqueue`,
`WriteNow` or `Refuse`. The unbuffered write is several statements in autocommit
mode; one that fails after its INSERT leaves the row, and the caller is answered
-1 or None (a disjunct of `WriteNow`). `Arm` replaces the configuration in one
step; `witslog_configure` copies it (`Copy`) and writes it back (`WriteBack`),
or returns an error with configuration and buffer as they were (`Rejected`).
Both go on like `Flush`: `Clear` takes the buffer's lock and `Join` waits, lock
held, until the flush thread has seen the flag. The flush thread (`Receive`,
`FlushBatch`, `TimeOut`, `NoShutdown`) is `AsyncBuffer`'s, with both attempts of
`flush_batch` in one step. A sink that panics (`SinkPanics`) runs the panic hook
on the flush thread, which captures there. In the C ABI the database comes from
the working directory, which is left alone.

| Run | Question | Bounds |
|---|---|---|
| Provider | where does each event end up, under which settings, and does every call return? | 2 threads, 2 events, 2 calls of arm, configure or flush, queue of 1 |

Two events are enough to fill a queue of one, and for a panic while a batch is
in hand; two calls for a flush against an arm, or a key set before another
setting is changed. Every event is captured at most once, and calls are bounded,
so a thread that waits for a mutex is not overtaken for ever and weak fairness
of the threads in calls (`LiveSpec`) suffices.

`EventsReachConfigured` and `SealedAsAsked` compare an event with the
configurations that had been asked for at some time during its capture. They
name two exceptions: a buffer made from a configuration replaced since (`stale`:
a capture takes its snapshot, an arm replaces the configuration and clears the
buffer, and the capture makes a new buffer for the old database, where later
captures follow), and a configure that wrote over another's change (`lost`).
`FlushSettles` is about the calls that drop the buffer, and excepts the events
enqueued while the flush thread was leaving (`late`): they are neither stored
nor counted as dropped, although the comment in `flush` guarantees that queued
events "are persisted (or counted as dropped) before we return"
(`runtime/lib.rs:298-299`). `CallsReturn` would fail if the hook buffered its
event, as the thread in `Join` holds the lock it would wait for.

Not in the model: the first arm of a process (a `OnceLock` set), a poisoned
mutex, notify, what remains in a buffer when the process exits, and the rest of
the ABI, whose resolve and delete are calls of the store writer.

## 7. Maintenance

`Maintenance.tla` models the commands of `cli/main.rs` that change the database
or copy its file, run in several shells over a database that others write to.

State. `file` holds the rows in the database file and `wal` the newer versions
in the write-ahead log, so `Live(e)` is what a SELECT sees and `file[e]` what
`fs::copy` does. `archive` counts copies, as the archive database has no keys;
`exported`, `backup` and `bak` are the files the commands write. `job` is the
command a shell is in, with the rows left to deal with. `arrived`, `discarded`,
`late`, `again`, `unsaved`, `exposed` and `stray` are history.

Actions. `mark_resolved`, `Export` and `Vacuum` are one statement. `delete` and
`prune` select ids and then remove row by row (`delete_events_by_id`); `archive`
copies (`Archive`), selects again (`Select`) and removes; `import` goes line by
line (`write_if_absent`); `backup` checkpoints, whether blocked or not, and
copies page by page (`BackUpPage`); `migrate` copies to .bak (`SavePage`), opens
the store (`Open`, which is `Migrator`'s subject) and, if that failed, copies
back (`RestorePage`). `Capture` is an application, `Checkpoint` SQLite's own.
`Kill` ends a command after any of its steps.

| Run | Question | Bounds |
|---|---|---|
| Maintain | what can be lost, doubled, torn or reopened by commands that overlap, and by a kill? | 2 shells, an old and a recent event, 3 commands, 1 kill |

Three commands are an export, a delete and an import, or two archives and a
command between them. Two pages are the fewest of which a copy can be torn.

The properties name what the code does not guard against. `NothingVanishes`
excepts an event that came in while an archive that had already copied might
still remove it (`late`), and one whose row was newer than its page in .bak when
migrate put that back (`exposed`). `ArchiveCopies` excepts archives that were
killed or overlapped between copy and removal (`again`). `BackupConsistent` is
about a backup whose checkpoint was not blocked and during which no other ran.
`DeleteOnlyResolved` excepts events that left the database and came back, as an
import brings a resolved event back open.

Not in the model: dry runs, reports, the prompts, parsing of ages and dates
(`parse_age_ms` multiplies without a check), and two backups to one target.

## 8. Pipeline and Metadata

`Pipeline.tla` is the pure part: `apply_pipeline` and the builder it calls, as
operators on an event whose texts are plain, tagged (a secret with what a
redaction pattern looks for beside it), keyed (a secret whose tag is the JSON
key above it, which the redactor does not see) or masked. Keys and ciphers are
values; the cipher itself is taken as sound.

`Metadata.tla` composes it with who knows which key when. `config` and `dotenv`
are the two files, each emptied before it is written (`Truncate`, `WriteConfig`,
`TruncateEnv`, `write_env_file_var`, as `std::fs::write` does), `shell` the
environment of the operators, `app` what a mounted application read. `Capture`
and `build_and_write` (the command log) go through `resolve_cipher`, which
refuses to write without a key, and the pipeline. `Export`, `Import` and
`Remove` move rows as they are; `get_event` is what a reader is shown.

| Run | Question | Bounds |
|---|---|---|
| Encrypt | what is stored in the clear, what becomes unreadable, where do secrets survive? | 1 application, 2 shells, 2 events alike but for secrets, 2 keys, 2 mounts, 4 commands, 1 kill |
| RotateKey | the disagreement of section 13 | the same |

`NeverInTheClear` excepts events of an application that was mounted while
config.toml was empty (`excused`), or after two rewrites overlapped or one was
cut short (`torn`). `SealedReadable` is about keys that are not `retired`.
`SecretsLeaveNoTrace` is about tagged secrets in message, stack trace, metadata
and the context, including the arguments that `enrich` adds. It compares the
fingerprints of any two rows that were classified alike and whose events are the
`SameFailure`: alike but for secrets, and for the numbers that the normalized
trace leaves out. An event is taken to come from the builder (`IsBuilt`), so its
normalized trace is that of its own trace. Four commands are
a key, a second one, an export and a log.

Not in the model: the regular expressions, ids and time stamps, schema
validation of plugins, and the tables of categories and aliases.

## 9. Notify

`Notify.tla` models dispatch: `dispatch_notify` gives a thread the registry of
the moment; the thread calls its plugins one after the other (`CallPlugin`; one
that fails or panics is followed by the next), with `Throttle` and `AppendLine`
for the file notifier: the time is looked at and set under the lock, the line is
written without it. `build_notify_registry` replaces the registry while
dispatches of the old one go on. The registry of the runtime has one plugin, the
throttled file notifier; others before and after it are more than the program
has. `ThrottledNotifier.tla`, which `Notify` extends, has the throttle itself:
its table `last_fired`, when an event passes (`Elapsed`), what is remembered
(`Fired`), what was said (`verdicts`) and what became of the lines (`lines`).

| Run | Question | Bounds |
|---|---|---|
| Dispatch | how often is a line written, when is an event held back? | 2 threads, 3 events of one fingerprint and a small one, plugins before and after the notifier, interval 2, time 0 to 2, 2 registries |

Three events at times 0 to 2 pass, are held back and pass again, and two of them
race at one time. `HeldBackForALine` names what the code allows: an event may be
held back for one whose line could not be written, as the time is set first.

A dispatch is a loop over a list, so that it ends is not claimed.

## 10. Reader

`Reader.tla` models the query engine under the MCP server's loop, which serves
one request at a time; each of a request's SELECTs sees the database of its own
moment, while `Insert`, `Resolve` and `Delete` are others' writes.

State. `live` and `resolved_at` are the table, `call` the request in progress
(its walk: `at`, `events`, `edges`, `todo`), `pages` a client's search with its
cursor. `stayed`, `promise` and `verdict` are history.

Actions. `search_errors` and `next_page` ask, `Page` is the SELECT with its
cursor. `list_traces` walks up (`SelectParent`, `FetchAncestor`) and down
(`SelectChildren`, `FetchChild`), and `Answer`s. A SELECT of a parent that fails
is taken for "no parent" (`.ok().flatten()`, `query/correlate.rs:71`): the walk
up ends there, and the answer does not say so (`cut`). The order of children
with the same time stamp is left open (the SELECT orders by time alone).
`TraceComplete` says which events an answer has by the paths that lead to them
(`Reaches`), not by repeating the walk. `DryRun` and `witslog_delete` build the
two WHERE clauses of preview and delete, and refuse a filter that chooses
nothing (`Required`); the removals are one step, as they are `AuditStore`'s.
`Interrupt` is the request's deadline.

| Run | Question | Bounds |
|---|---|---|
| Reader | is every match on one page, every walk complete, every request answered? | a cause with two effects, an event that is its own parent and shares a time stamp; pages of 1 |
| DryRun | the disagreement of section 13 | the same |

Pages of one row over four events give a page boundary between any two. The
exceptions named: pages ordered by rank, and events of the same millisecond
(`PagesComplete`), where rows are skipped as the cursor compares time stamp and
id and the page is ordered by less; what is above a SELECT that failed on the
way up (`TraceComplete`); a walk up from a cycle (`CallsAnswered`), which only
ends when somebody deletes one of its events.

Fairness (`LiveSpec`): the server's next step is taken (`WF_vars(Serve)`), as it
is one thread that waits for nothing but SQLite.

Not in the model: aggregates (summarize, timeline, mttr, top_failures),
`by_correlation_id`, `search_all`, the COUNT behind `total_estimate`,
`similar_errors`, framing and JSON schemas.

## 11. Ingest

`Ingest.tla` models the browser reporter and the Express endpoint. `Happen` is a
failure and the listeners that hear it; `Hide` and `Leave` flush the queue into
a request that may be lost (`Lose`) or comes in chunks (`Data`, `End`);
`checkIngestGuardrails` refuses by origin and by rate; `persistIngestBatch` logs
what fits `maxBatch`, each event by itself. `Restart` loses connections and
buckets.

| Run | Question | Bounds |
|---|---|---|
| Ingest | where does each failure end up, what does the rate limit let through? | 3 kinds of failure, 2 pages behind one address, batches of 1, bodies of 3, 1 request per window of 2, time 1 to 4, 1 restart |

A window of two and times to four hold two windows and their edge. Nothing is
retried, so no liveness is claimed: reporting is best effort.

Not in the model: the wrappers of fetch, axios and web sockets, the other
frameworks, and the clamping of values.

## 12. Proofs

Eight modules hold the theorems; TLAPS checks them for every value of the
constants that satisfies the assumptions (`RolesAssumption`,
`EventsAssumption`, `BoundsAssumption`; AsyncBuffer's `ConfigAssumption`;
Migrator's `BoundsAssumption`; Provider's `NamesAssumption` and
`ConfigAssumption`; `MaintenanceAssumption`; `NotifyAssumption`;
`MetadataAssumption`; `IngestAssumption`; `ReaderAssumption`, by which each event
has one time stamp, row id and rank, all numbers).

`AuditStoreProofs`:

- `TypeCorrect`: `Spec => []TypeOK`.
- `RemovalsAreEntombed`: `Spec => []RemovalsEntombed`. The invariant is
  `EntombInv`: ids are used from 1 up without holes (`Entombed`), a delete that
  has looked up a row knows an id in use, one that reached its DELETE has its
  tombstone in place, and an open transaction adds rows without touching
  tombstones. Ids in use never lose both row and tombstone, because `Entomb`
  comes before `Remove`.
- `ChainIsVerified`: `Spec => []ChainVerifies`, for any writers. The invariant
  is `ChainInv`: on top of `EntombInv`, and as long as no write was crossed or
  torn (`Chained`), every row links to its predecessor or that one's tombstone
  (`Links`); a tombstone beside a row repeats its hash, so that completing or
  repeating a delete changes nothing; `last_hash` is the newest row's hash as
  long as that row is there (`EndsAt`) - a claim that the reuse of ids destroys,
  hence the exception; what a delete in progress has read is still right
  (`LinksRead`); an autocommit writer is alone, its unlinked row is the newest
  one and no delete knows it (`WriterInv`); and an open transaction starts from
  a committed prefix (`DraftInv`).
- `OnlyMatchedIsRemoved`: `Spec => []OnlyMatchedRemoved`, for any maintainers.
  `MatchInv`: until an insert takes a row id that a delete has looked up
  (`Matched`), such an id holds the row of the event it was looked up for, or
  none (`Found`); a transaction keeps all it found (`Keeps`); and what a delete
  has left to do is among what a SELECT returned.
- `RollupIsCounted`: `Spec => []RollupCounts`. `RollupInv`: the inserts of a
  fingerprint are its count, the writes that stopped before the upsert, and
  those still on the way to it, of which there are finitely many; an open
  transaction has rolled up whatever it inserted.

`AsyncBufferProofs`:

- `TypeCorrect`, `EventsAreConserved` (`Conservation`) and `LossIsConfined`
  (`LossOnlyInExitWindow`). The invariant `BufferInv` adds that every queued
  event was enqueued after the last timeout while the thread looks at the flag,
  and that the batch is empty there.
- `PromiseIsKept`: `Spec => KeepsPromise`, the refinement of `LossyLog`. Pending
  is the batch and then the queue; each step is one of `LossyLog`'s or a stutter,
  given `BufferInv` and `Ready` (the batch is not empty while it is written), so
  order and accounting are those of the abstract log.

`ProviderProofs`, for any threads, events, databases, arms and changes:

- `FatesAreSingle` (`EachEventHasOneFate`). The invariant `FateInv` divides the
  events captured among those under way, refused, held, dropped, abandoned and
  stored (`Divided`), where a refused one whose row stayed is stored
  (`TornStored`); no two threads capture the same event (`Busy`), and a buffer
  holds it once (`OnceHeld`), without which a step that takes it from one place
  would leave it in another.
- `FlushesSettle` (`FlushSettles`): what a call found in the buffer is captured
  and no longer under way, and no step brings such an event back into a buffer
  (`Steady`); what a buffer holds when its thread ends was enqueued while the
  thread was leaving (`LateInv`).
- `ConfiguredIsReached` (`EventsReachConfigured`). `FollowInv`: what has been
  asked for is met by every capture under way (`Meets`), so its snapshot and the
  buffer's database are too (`SnapMet`, `BufferAsked`), unless `stale`.
- `SealedAsConfigured` (`SealedAsAsked`). `SealInv`: until a configure wrote over
  another, the configuration is the one asked for.
- What captures dispatch, for any plugins and interval, is in the same module:
  it extends `ThrottledNotifier` too, and `Dispatch` is an instance of `Notify` with
  that throttle, the threads and events of `Provider` and its other variables
  apart; `NotifyAssumption` is a hypothesis of the theorems
  `ThrottleHolds` (`OncePerInterval`) and `HeldBackForOne` (`HeldBackForALine`).
  The invariant `ThrottleInv` says that the throttle remembers the last event it
  let through (`Remembered`) and that such an event has its line, or failed, or
  is with a thread that is about to write it (`Delivered`).

`MigratorProofs`, for any number of processes:

- `TypeCorrect`: `Spec => []TypeOK`.
- `SchemaIsComplete`: `Spec => []SchemaComplete`. The invariant `SchemaInv` adds
  what each process knows: the steps below its own are done, past its check what
  the step adds exists, past its statements the step is done (`Knows`), but for
  the triggers (`Triggered`). Nothing is dropped, so other processes only add to
  it.
- `VersionGrows`: `Spec => VersionOnlyGrows`. The invariant `OneAtATime` says
  that, without an overlap, one process migrates and `schema_version` is what it
  read or wrote last, unless that was misread (`Fresh`).
- `ReopensDoSucceed` (`ReopensSucceed`), on top of `OneAtATime`. The invariant
  `Ahead`: no version above `schema_version` is recorded, the steps from a
  process's own on are not recorded either, and what its check found missing is
  still missing (`Fits`), so neither ADD COLUMN nor INSERT meets what is there.
- `IndexDoesCoverHistory` (`IndexCoversHistory`). `IndexInv`: while a process
  is between creating the index and filling it, no row is in it (`Filling`);
  otherwise all rows are in it once, with the trigger in place, or there is no
  index (`Filled`).
- `ChainDoesCoverHistory` (`ChainCoversHistory`). `ChainInv`: a process that
  backfills has hashed the rows up to some m in order and has the others to do
  (`Half`); otherwise the chain covers all rows, or, before version 6, none
  (`Even`).
- All four hold while no migrations overlap, the first two as long as nothing was
  misread, and the last two but for their windows (`torn`), as the properties
  say.

`MaintenanceProofs`, for any number of shells, events, commands and kills:

- `NothingIsLost` (`NothingVanishes`), `DeletesTakeResolved`
  (`DeleteOnlyResolved`), `ResolutionsStand` (`ResolutionStands`) and
  `CopiesAreCounted` (`ArchiveCopies`). The invariant `MaintenanceInv` adds to
  the types: a row that is there came in (`Entered`); what an archive is about
  to remove is in the archive, or late (`Archived`); a page of .bak that is not
  `unsaved` is the row as it is (`Saved`), and while one is put back, what
  differs is `exposed` (`Restored`); what a guarded delete matched is resolved
  still, or gone, or came back (`Matched`). `ArchiveCopies` rests on `CopiesInv`
  besides. Each step turns a row in one of five ways (`RowTurn`: untouched, comes
  in, resolved, removed, reverted), and the conjuncts are preserved by each of them rather
  than by each action.
- The proof showed an exception to be too narrow beyond what three commands reach:
  an event removed and imported again while an archive is at its removals is
  taken without a copy of its new row, so `late` covers the removals too.
- `BackupsAreConsistent` (`BackupConsistent`). `CopyInv`: one backup runs at a
  time; as long as its checkpoint was not blocked and none has run since, the
  database file is the database of the moment it began, and so are the pages
  copied so far (`Underway`) and the finished copy (`Finished`).

`MetadataProofs`, for any applications, shells, events, keys and rules:

- `NeverClear` (`NeverInTheClear`). `SettingInv` says that, until rewrites of
  config.toml overlap or one is cut short, one command has the file in hand
  (`OneRewrites`), and that from the moment a command goes on to .env the setting
  is in the file, or in the document about to be written (`Carried`,
  `Configured`). `ClearInv` adds that an application without an excuse has read it,
  and that rows and copies in the clear are excused. `PipelineSeals` is the lemma
  about `apply_pipeline`: its result is sealed with the key it was given,
  whatever the event.
- `SealedIsReadable` (`SealedReadable`). `KeysInv`: every key that is in a
  process, a row or an export is the one in .env, or has been removed from it.
- `NoTraceOfSecrets` (`SecretsLeaveNoTrace`). `MaskInv`: every row and every copy
  is `Masked`, that is, free of tagged secrets and with the message and
  normalized trace that the event's own give once masked. The lemma
  `PipelineMasks` says this of `apply_pipeline`, for any event a builder makes, any
  rules and any key, and `SameMasked` that masked texts of the same failure are
  equal.

`ReaderProofs`, for any events, filters and page sizes:

- `PagesAreComplete` (`PagesComplete`). The invariant `PagesInv` says that every
  match apart in time is on the pages exactly if it is on the near side of the
  cursor (`Paged`).
- `TracesAreComplete` (`TraceComplete`), for any graph of parents, cycles among
  them. `TraceInv`: on the way up, every event but the last has its parent in
  the trace (`Climbing`), and once that is over all have that have one, unless
  the walk was `cut` (`Climbed`); on the way down, there is a set of events the
  walk has been at (`Descended`) whose children that stayed are in it or are
  still to be fetched. With nothing left to do the trace is closed under parents
  and children that stayed, so the first event of a path that would leave it
  does not exist (`ReachesClosed`, by the least number principle).

`IngestProofs`, for any pages, failures, keys, limits, windows and restarts:

- `OneEventPerFailure` (`OneEventEach`). `OneInv` says where the event of a
  failure is: nowhere before it happened, and then missed, or at one place of one
  queue, or at one place of one request (`Placed`); and that it is stored once
  at most, out of a request answered 202 (`Stored`). That answer is given once,
  so the persisting of a request finds its events not stored yet.
- `RateIsBounded` (`RateBounded`). A bucket forgets when its windows began, so
  `RateInv` claims that there is a function `W` from the counted requests to
  the starts of windows such that a request lies in its window (`Inside`), windows
  of one key and one server do not overlap (`Apart`), at most max requests pass in
  one (`Few`), and a bucket's count and reset are those of the last one
  (`Newest`). Any time of a window's length meets two windows at most, hence
  2 * max; a request that is turned away finds the last window full, and what was
  counted before it stays counted.

Only model-checked: liveness under fairness (`DropReturns`, `EventsSettle`,
`EveryOpenSettles`, `CallsReturn`, `CallsAnswered`), which is
beyond the prover. Every safety property of the passing runs has its theorem.

## 13. Where the code disagrees with its documents

Three runs end in a counterexample on purpose. Each checks one sentence of the
repository's documents against the model.

- AuditForkedChain: two processes that log without buffering read the same
  `last_hash` and chain two rows onto it (PHASES.md FR-P9-006: "each row
  references the prior hash").
- RotateKey: a row exported under one key and imported under another keeps the
  old key's envelope, as `cmd_import` resolves no cipher (CONTRACT.md: "`export`
  → rotate the key → `import` (re-encrypts on write)").
- DryRun: with `force` and `resolved_before`, the dry run over MCP names the
  events resolved by then, and the delete also removes every unresolved one
  (`mcp/registry.rs:547-548`: "mirroring its WHERE clause exactly";
  CHANGELOG.md:143: the dry run over MCP "already worked this way").

Three more such places have no run of their own. The guard of
`store/migrate.rs:38-40` is to refuse a database of a newer release "rather than
silently truncating/corrupting on write"; a failing SELECT of its version is
read as 0 and passes the guard (section 5). `flush` promises that queued events
are persisted or counted (section 6). PHASES.md:360-361 (FR-P4-010) promises of
a backup "a consistent snapshot via the SQLite online backup API"; the command
copies the file, after a checkpoint whose being blocked it ignores, so
`BackupConsistent` is about the other backups (section 7).

Other places where the code allows more than one might expect are named as
exceptions in the properties, so that the property says what else holds: the
reuse of the newest row id and a write that came into another (`ChainVerifies`),
overlapping migrations, misread SELECTs and the windows of section 5, a configuration replaced during a capture (section 6), and
those of sections 7 to 10. An event enqueued between a timed-out receive and the
look at the shutdown flag is neither persisted nor counted as dropped when the
buffer's drop returns (`LossOnlyInExitWindow` confines the loss to this window).

## 14. Not modelled

- Python and PHP bindings, `index.js`: values handed to the C ABI.
- The tracing layer, which maps tracing fields to a builder.
- Categories and aliases, aggregates and reports: single statements whose
  results nothing else relies on.
- The mutex of one connection that a panic poisons (`store/conn.rs:81`), and the
  failed upgrade of a deferred transaction (`store/conn.rs:89`): the buffer's
  model allows a sink that fails at any time, for whatever reason.
- Overflow in `parse_age_ms`, as section 7 says.
