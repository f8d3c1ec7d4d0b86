----------------------------- MODULE Maintenance -----------------------------
(***************************************************************************)
(* The maintenance commands of the CLI against one database that others    *)
(* write to: resolve, delete, prune, archive, export, import, backup,      *)
(* vacuum and migrate (main.rs), over the statements of the store's        *)
(* writer.  A command is several SQL statements, each its own transaction, *)
(* and some copy the database FILE, which lags behind the database by what *)
(* the write-ahead log still holds.                                        *)
(*                                                                         *)
(* A row lies on a page of its own.  The statements by which delete,       *)
(* prune and archive remove one row (lookup, tombstone, DELETE) are        *)
(* AuditStore's; here they are one step.  Dry runs change nothing.         *)
(***************************************************************************)
EXTENDS Naturals, FiniteSets

CONSTANTS
  Operators,    \* shells in which a command runs
  Events,
  Old,          \* those with a timestamp before the cutoff of prune and archive
  MaxCommands,  \* bound: commands started
  MaxKills      \* bound: commands killed

ASSUME MaintenanceAssumption ==
  /\ IsFiniteSet(Operators) /\ IsFiniteSet(Events) /\ Old \subseteq Events
  /\ MaxCommands \in Nat /\ MaxKills \in Nat

VARIABLES
  file,      \* the rows in the database file
  wal,       \* the newer versions of rows in the write-ahead log
  archive,   \* per event, its copies in the archive database (it has no keys)
  exported,  \* the events in the export file
  backup,    \* the target of backup, see NoBackup
  bak,       \* the .bak file of migrate
  job,       \* per operator, the command it is in
  arrived,   \* history: how often an event came into the database
  discarded, \* history: events that delete or prune removed
  late,      \* history: events that came in between an archive's copy and its removal of them
  again,     \* history: events copied by an archive that did not remove them in time
  unsaved,   \* history: events whose row is newer than its page in .bak
  exposed,   \* history: events that were unsaved when migrate put .bak back
  stray,     \* history: events a delete removed in a state it does not match
  spent      \* history: commands and kills

rows == <<file, wal>>
files == <<archive, exported, backup, bak>>
moves == <<arrived, discarded, late, stray>>
saves == <<unsaved, exposed>>
vars == <<rows, files, job, moves, again, saves, spent>>

Live(e) == IF wal[e] = "clean" THEN file[e] ELSE wal[e]
Stored == {e \in Events : Live(e) # "absent"}

Idle == [pc |-> "idle", cmd |-> "none", todo |-> {}, copied |-> {}]
NoBackup == [rows |-> [e \in Events |-> "absent"], sure |-> FALSE, done |-> FALSE,
             snap |-> [e \in Events |-> "absent"]]

Init ==
  /\ file = [e \in Events |-> "absent"]
  /\ wal = [e \in Events |-> "clean"]
  /\ archive = [e \in Events |-> 0]
  /\ exported = {} /\ backup = NoBackup /\ bak = file
  /\ job = [p \in Operators |-> Idle]
  /\ arrived = [e \in Events |-> 0]
  /\ discarded = {} /\ late = {} /\ again = {} /\ stray = {}
  /\ unsaved = Events /\ exposed = {}
  /\ spent = [commands |-> 0, kills |-> 0]

(***************************************************************************)
(* A committed statement.  Its page goes to the log; a checkpoint moves it *)
(* to the file.  SQLite runs one by itself when the log is long and when   *)
(* the last connection closes.                                             *)
(***************************************************************************)
Restoring == \E p \in Operators : job[p].pc = "restore"

Commit(e, r) ==
  /\ wal' = [wal EXCEPT ![e] = r] /\ UNCHANGED file
  /\ unsaved' = unsaved \cup {e}
  /\ exposed' = IF Restoring THEN exposed \cup {e} ELSE exposed

Flushed == file' = [e \in Events |-> Live(e)] /\ wal' = [e \in Events |-> "clean"]

\* A backup whose copy is under way is no longer sure to be of one moment.
Disturb == backup' = [backup EXCEPT !.sure = @ /\ \A p \in Operators : job[p].cmd # "backup"]

Checkpoint ==
  /\ \E e \in Events : wal[e] # "clean"
  /\ Flushed /\ Disturb
  /\ UNCHANGED <<archive, exported, bak, job, moves, again, saves, spent>>

\* An archive that has made its copy may yet remove e.
Archiving(e) == \E p \in Operators : job[p].cmd = "archive" /\ (job[p].pc = "select" \/ e \in job[p].todo)

CameIn(e) ==
  /\ arrived' = [arrived EXCEPT ![e] = @ + 1]
  /\ late' = IF Archiving(e) THEN late \cup {e} ELSE late \ {e}
  /\ discarded' = discarded \ {e}
  /\ UNCHANGED stray

Arrive(e) == Commit(e, "open") /\ CameIn(e)

\* A capture in some process of the application.
Capture(e) ==
  /\ arrived[e] = 0
  /\ Arrive(e)
  /\ UNCHANGED <<files, job, again, spent>>

(***************************************************************************)
(* Commands that are one statement.  mark_resolved is guarded by           *)
(* resolved_at IS NULL: a second resolution (force) only moves the time.   *)
(***************************************************************************)
mark_resolved(e) ==
  /\ Live(e) = "open"
  /\ Commit(e, "resolved")
  /\ UNCHANGED <<files, job, moves, again, spent>>

Started == spent.commands < MaxCommands /\ spent' = [spent EXCEPT !.commands = @ + 1]

\* One SELECT, row by row (with --from or --to, less of it).
for_each_event == Stored

\* File::create truncates the file, which is filled again.
Export ==
  /\ Started
  /\ exported' = for_each_event
  /\ UNCHANGED <<rows, archive, backup, bak, job, moves, again, saves>>

\* VACUUM writes every page anew; whether the checkpoint after it was
\* blocked by a reader is not looked at.
Vacuum ==
  /\ Started
  /\ \/ Flushed
     \/ wal' = [e \in Events |-> Live(e)] /\ UNCHANGED file
  /\ Disturb
  /\ UNCHANGED <<archive, exported, bak, job, moves, again, saves>>

Begin(p, cmd, pc, todo) ==
  /\ job[p] = Idle /\ Started
  /\ todo # {}
  /\ job' = [job EXCEPT ![p] = [Idle EXCEPT !.cmd = cmd, !.pc = pc, !.todo = todo]]

\* The command has dealt with e; after the last one it ends, or goes on as next.
Past(p, e, next) ==
  job' = IF job[p].todo = {e} THEN [job EXCEPT ![p] = next]
         ELSE [job EXCEPT ![p].todo = @ \ {e}, ![p].copied = @ \ {e}]

(***************************************************************************)
(* import: one line of the file per step.  write_if_absent looks first and *)
(* inserts then; if another insert comes in between, the UNIQUE event_id   *)
(* refuses the line, which is skipped as if it had been seen.  The INSERT  *)
(* names no resolved_at: a resolved event comes back open.                 *)
(***************************************************************************)
Import(p) ==
  /\ Begin(p, "import", "import", exported)
  /\ UNCHANGED <<rows, files, moves, again, saves>>

\* Mutant: an event that is there already is replaced.
write_if_absent_Replaces(p, e) ==
  /\ job[p].pc = "import" /\ e \in job[p].todo
  /\ Past(p, e, Idle)
  /\ Arrive(e)
  /\ UNCHANGED <<files, again, spent>>

write_if_absent(p, e) ==
  /\ job[p].pc = "import" /\ e \in job[p].todo
  /\ Past(p, e, Idle)
  /\ IF e \in Stored THEN UNCHANGED <<rows, moves, saves>> ELSE Arrive(e)
  /\ UNCHANGED <<files, again, spent>>

(***************************************************************************)
(* delete: matching_delete_ids, then the rows one by one.  S is what the   *)
(* filter says of the event id, the fingerprint and the time of            *)
(* resolution.                                                             *)
(***************************************************************************)
\* Mutant: resolved or not.
matching_delete_ids_Any(S, force) == S \cap Stored

matching_delete_ids(S, force) == {e \in S \cap Stored : force \/ Live(e) = "resolved"}

Delete(p, S, force) ==
  /\ Begin(p, IF force THEN "force" ELSE "delete", "remove", matching_delete_ids(S, force))
  /\ UNCHANGED <<rows, files, moves, again, saves>>

Prune(p) ==
  /\ Begin(p, "prune", "remove", Old \cap Stored)
  /\ UNCHANGED <<rows, files, moves, again, saves>>

\* A row that is gone by now is passed over.
delete_events_by_id(p, e) ==
  /\ job[p].pc = "remove" /\ e \in job[p].todo
  /\ Past(p, e, Idle)
  /\ IF e \in Stored
     THEN /\ Commit(e, "absent")
          /\ discarded' = IF job[p].cmd = "archive" THEN discarded ELSE discarded \cup {e}
          /\ stray' = IF job[p].cmd = "delete" /\ Live(e) # "resolved" THEN stray \cup {e} ELSE stray
          /\ UNCHANGED <<arrived, late>>
     ELSE UNCHANGED <<rows, moves, saves>>
  /\ UNCHANGED <<files, again, spent>>

(***************************************************************************)
(* archive: INSERT .. SELECT into the attached database, then a second     *)
(* SELECT for the rows to remove, which are removed like pruned ones.      *)
(***************************************************************************)
Copying(e) == \E q \in Operators : job[q].cmd = "archive" /\ e \in job[q].copied

Archive(p) ==
  /\ job[p] = Idle /\ Started
  /\ job' = [job EXCEPT ![p] = [Idle EXCEPT !.cmd = "archive", !.pc = "select", !.copied = Old \cap Stored]]
  /\ archive' = [e \in Events |-> IF e \in Old \cap Stored THEN archive[e] + 1 ELSE archive[e]]
  /\ again' = again \cup {e \in Old \cap Stored : Copying(e)}
  /\ UNCHANGED <<rows, exported, backup, bak, moves, saves>>

\* Mutant: the WHERE of the copy is forgotten.
Select_Everything(p) ==
  /\ job[p].pc = "select"
  /\ job' = [job EXCEPT ![p] = IF Stored = {} THEN Idle ELSE [@ EXCEPT !.pc = "remove", !.todo = Stored]]
  /\ UNCHANGED <<rows, files, moves, again, saves, spent>>

\* Mutant: copied rows are not removed.
Select_Nothing(p) ==
  /\ job[p].pc = "select"
  /\ job' = [job EXCEPT ![p] = Idle]
  /\ UNCHANGED <<rows, files, moves, again, saves, spent>>

Select(p) ==
  /\ job[p].pc = "select"
  /\ job' = [job EXCEPT ![p] = IF Old \cap Stored = {} THEN Idle
                               ELSE [@ EXCEPT !.pc = "remove", !.todo = Old \cap Stored]]
  /\ UNCHANGED <<rows, files, moves, again, saves, spent>>

(***************************************************************************)
(* backup: PRAGMA wal_checkpoint(TRUNCATE), whose result (blocked by a     *)
(* reader or a writer) is not looked at, then fs::copy of the file, page   *)
(* by page.  An existing target is refused without --force.  Two copies   *)
(* to one target at once are left out.                                     *)
(***************************************************************************)
Alone(cmd) == \A p \in Operators : job[p].cmd # cmd

\* Mutant: no checkpoint before the copy.
BackUp_Unflushed(p, force) ==
  /\ Alone("backup") /\ (backup = NoBackup \/ force)
  /\ Begin(p, "backup", "copy", Events)
  /\ backup' = [NoBackup EXCEPT !.sure = TRUE, !.snap = [e \in Events |-> Live(e)]]
  /\ UNCHANGED <<rows, archive, exported, bak, moves, again, saves>>

BackUp(p, force) ==
  /\ Alone("backup") /\ (backup = NoBackup \/ force)
  /\ Begin(p, "backup", "copy", Events)
  /\ \E blocked \in BOOLEAN :
       /\ IF blocked THEN UNCHANGED rows ELSE Flushed
       /\ backup' = [NoBackup EXCEPT !.sure = ~blocked, !.snap = [e \in Events |-> Live(e)]]
  /\ UNCHANGED <<archive, exported, bak, moves, again, saves>>

BackUpPage(p, e) ==
  /\ job[p].pc = "copy" /\ e \in job[p].todo
  /\ Past(p, e, Idle)
  /\ backup' = [backup EXCEPT !.rows[e] = file[e], !.done = job[p].todo = {e}]
  /\ UNCHANGED <<rows, archive, exported, bak, moves, again, saves, spent>>

(***************************************************************************)
(* migrate: fs::copy of the file to .bak, without its log; open the store, *)
(* which migrates it (module Migrator); if that fails, copy .bak back over *)
(* the file.  The failing open closes its connection, and may checkpoint   *)
(* as it does (Checkpoint).                                                *)
(***************************************************************************)
Migrate(p) ==
  /\ Begin(p, "migrate", "save", Events)
  /\ UNCHANGED <<rows, files, moves, again, saves>>

SavePage(p, e) ==
  /\ job[p].pc = "save" /\ e \in job[p].todo
  /\ Past(p, e, [Idle EXCEPT !.cmd = "migrate", !.pc = "open"])
  /\ bak' = [bak EXCEPT ![e] = file[e]]
  /\ unsaved' = IF Live(e) = file[e] THEN unsaved \ {e} ELSE unsaved \cup {e}
  /\ exposed' = IF Restoring /\ Live(e) # file[e] THEN exposed \cup {e} ELSE exposed
  /\ UNCHANGED <<rows, archive, exported, backup, moves, again, spent>>

Open(p) ==
  /\ job[p].pc = "open"
  /\ \/ job' = [job EXCEPT ![p] = Idle] /\ UNCHANGED exposed
     \/ /\ job' = [job EXCEPT ![p].pc = "restore", ![p].todo = Events]
        /\ exposed' = exposed \cup unsaved
  /\ UNCHANGED <<rows, files, moves, again, unsaved, spent>>

RestorePage(p, e) ==
  /\ job[p].pc = "restore" /\ e \in job[p].todo
  /\ Past(p, e, Idle)
  /\ file' = [file EXCEPT ![e] = bak[e]]
  /\ IF e \notin Stored /\ wal[e] = "clean" /\ bak[e] # "absent" THEN CameIn(e) ELSE UNCHANGED moves
  /\ Disturb
  /\ UNCHANGED <<wal, archive, exported, bak, again, saves, spent>>

\* The operator interrupts a command, or the machine goes down.
Kill(p) ==
  /\ job[p] # Idle
  /\ spent.kills < MaxKills /\ spent' = [spent EXCEPT !.kills = @ + 1]
  /\ job' = [job EXCEPT ![p] = Idle]
  /\ again' = again \cup job[p].copied
  /\ UNCHANGED <<rows, files, moves, saves>>

Next ==
  \/ Checkpoint \/ Export \/ Vacuum
  \/ \E e \in Events : Capture(e) \/ mark_resolved(e)
  \/ \E p \in Operators :
       \/ Import(p) \/ Prune(p) \/ Archive(p) \/ Select(p) \/ Migrate(p) \/ Open(p) \/ Kill(p)
       \/ \E force \in BOOLEAN : BackUp(p, force) \/ \E S \in SUBSET Events : Delete(p, S, force)
       \/ \E e \in Events :
            \/ write_if_absent(p, e) \/ delete_events_by_id(p, e)
            \/ BackUpPage(p, e) \/ SavePage(p, e) \/ RestorePage(p, e)

Spec == Init /\ [][Next]_vars

-----------------------------------------------------------------------------
(* An event that came into the database and is not there any more is in    *)
(* the archive, or a delete or prune removed it, or it came in after the   *)
(* copy of an archive and before its removals (which take it uncopied), or *)
(* migrate put a .bak back that was older than the event (main.rs          *)
(* cmd_archive, cmd_prune, cmd_migrate).                                   *)
NothingVanishes ==
  \A e \in Events : arrived[e] > 0 /\ e \notin Stored =>
    archive[e] > 0 \/ e \in discarded \cup late \cup exposed

(* The archive holds an event once for every time it came into the         *)
(* database, unless an archive that copied it was killed before the        *)
(* removal, or another was under way (cmd_archive has no key to refuse the *)
(* second copy).                                                           *)
ArchiveCopies == \A e \in Events \ again : archive[e] <= arrived[e]

(* A finished backup is the database of one moment although others write   *)
(* meanwhile: unless the checkpoint before the copy was blocked, or one    *)
(* ran during it (cmd_backup copies the file, not through SQLite).         *)
BackupConsistent == backup.done /\ backup.sure => backup.rows = backup.snap

(* Without force, delete removes no unresolved event, although it removes  *)
(* by id what it matched some statements before: an event must have left   *)
(* the database and come back, or been reverted, for that (delete_resolved *)
(* and matching_delete_ids).                                               *)
DeleteOnlyResolved == \A e \in stray : arrived[e] > 1 \/ e \in exposed

(* The first resolution stands: no command makes a resolved event open     *)
(* again where it is, an import of its exported line included; only a .bak *)
(* put back does (mark_resolved, write_if_absent).                         *)
ResolutionStands ==
  [][\A e \in Events : Live(e) = "resolved" => Live(e)' # "open" \/ e \in exposed']_vars
=============================================================================
