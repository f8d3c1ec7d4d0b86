-------------------------- MODULE MaintenanceProofs --------------------------
(***************************************************************************)
(* Theorems about Maintenance, for any operators, events and bounds.       *)
(***************************************************************************)
EXTENDS Maintenance, TLAPS

Row == {"absent", "open", "resolved"}
Jobs == [pc : {"idle", "import", "remove", "select", "copy", "save", "open", "restore"},
         cmd : {"none", "import", "force", "delete", "prune", "archive", "backup", "migrate"},
         todo : SUBSET Events, copied : SUBSET Old]

(***************************************************************************)
(* Types, of what the invariants look at, and which commands go through    *)
(* which steps.                                                            *)
(***************************************************************************)
Typed ==
  /\ file \in [Events -> Row] /\ wal \in [Events -> Row \cup {"clean"}] /\ bak \in [Events -> Row]
  /\ archive \in [Events -> Nat] /\ arrived \in [Events -> Nat]
  /\ job \in [Operators -> Jobs] /\ exported \subseteq Events
  /\ discarded \subseteq Events /\ late \subseteq Events /\ again \subseteq Events
  /\ unsaved \subseteq Events /\ exposed \subseteq Events /\ stray \subseteq Events

InStep ==
  \A p \in Operators :
    /\ job[p].pc = "select" => job[p].cmd = "archive"
    /\ job[p].pc \in {"import", "copy", "save", "open", "restore"} => job[p].cmd \notin {"archive", "delete"}

Shape == Typed /\ InStep

LEMMA ShapeInit == Init => Shape
  BY MaintenanceAssumption DEF Init, Shape, Typed, InStep, Idle, Row, Jobs

LEMMA IdleJob ==
  /\ Idle \in Jobs /\ Idle.pc = "idle" /\ Idle.cmd = "none" /\ Idle.todo = {} /\ Idle.copied = {}
  BY DEF Idle, Jobs

\* Dealing with e changes the job of p, which goes on without e or as next.
LEMMA PastJob ==
  ASSUME Typed, NEW p \in Operators, NEW e \in Events, NEW next \in Jobs, Past(p, e, next)
  PROVE  /\ job' \in [Operators -> Jobs]
         /\ \A q \in Operators \ {p} : job'[q] = job[q]
         /\ IF job[p].todo = {e} THEN job'[p] = next
            ELSE /\ job'[p].pc = job[p].pc /\ job'[p].cmd = job[p].cmd
                 /\ job'[p].todo = job[p].todo \ {e} /\ job'[p].copied = job[p].copied \ {e}
  <1>1. job \in [Operators -> Jobs] /\ job[p] \in Jobs
    BY DEF Typed
  <1>2. CASE job[p].todo = {e}
    BY <1>1, <1>2 DEF Past
  <1>3. CASE job[p].todo # {e}
    BY <1>1, <1>3 DEF Past, Jobs
  <1>4. QED
    BY <1>2, <1>3

LEMMA ShapeStep == Shape /\ [Next]_vars => Shape'
  <1> SUFFICES ASSUME Shape, [Next]_vars PROVE Shape'
    OBVIOUS
  <1> USE MaintenanceAssumption DEF Shape, Typed, InStep, Row, Jobs
  <1>1. CASE Checkpoint
    BY <1>1 DEF Checkpoint, Flushed, Live, saves, moves
  <1>2. CASE Export
    BY <1>2 DEF Export, for_each_event, Stored, rows, saves, moves
  <1>3. CASE Vacuum
    BY <1>3 DEF Vacuum, Flushed, Live, saves, moves
  <1>4. ASSUME NEW e \in Events, Capture(e) PROVE Shape'
    BY <1>4 DEF Capture, Arrive, Commit, CameIn, files
  <1>5. ASSUME NEW e \in Events, mark_resolved(e) PROVE Shape'
    BY <1>5 DEF mark_resolved, Commit, files, moves
  <1>6. ASSUME NEW p \in Operators, Import(p) PROVE Shape'
    BY <1>6 DEF Import, Begin, Idle, rows, files, moves, saves
  <1>7. ASSUME NEW p \in Operators, Prune(p) PROVE Shape'
    BY <1>7 DEF Prune, Begin, Idle, Stored, rows, files, moves, saves
  <1>8. ASSUME NEW p \in Operators, Archive(p) PROVE Shape'
    <2>1. job' \in [Operators -> Jobs] /\ InStep'
      BY <1>8 DEF Archive, Idle
    <2>2. archive' \in [Events -> Nat]
      BY <1>8 DEF Archive
    <2>3. QED
      BY <1>8, <2>1, <2>2 DEF Archive, rows, moves, saves
  <1>9. ASSUME NEW p \in Operators, Select(p) PROVE Shape'
    BY <1>9 DEF Select, Idle, Stored, rows, files, moves, saves
  <1>10. ASSUME NEW p \in Operators, Migrate(p) PROVE Shape'
    BY <1>10 DEF Migrate, Begin, Idle, rows, files, moves, saves
  <1>11. ASSUME NEW p \in Operators, Open(p) PROVE Shape'
    BY <1>11 DEF Open, Idle, rows, files, moves, saves
  <1>12. ASSUME NEW p \in Operators, Kill(p) PROVE Shape'
    BY <1>12 DEF Kill, Idle, rows, files, moves, saves
  <1>13. ASSUME NEW p \in Operators, NEW force \in BOOLEAN, BackUp(p, force) PROVE Shape'
    <2>1. job' \in [Operators -> Jobs] /\ InStep'
      BY <1>13 DEF BackUp, Begin, Idle
    <2>2. file' \in [Events -> Row] /\ wal' \in [Events -> Row \cup {"clean"}]
      BY <1>13 DEF BackUp, Flushed, Live, rows
    <2>3. QED
      BY <1>13, <2>1, <2>2 DEF BackUp, moves, saves
  <1>14. ASSUME NEW p \in Operators, NEW S \in SUBSET Events, NEW force \in BOOLEAN, Delete(p, S, force)
         PROVE  Shape'
    BY <1>14 DEF Delete, Begin, Idle, matching_delete_ids, Stored, rows, files, moves, saves
  <1>15. ASSUME NEW p \in Operators, NEW e \in Events, write_if_absent(p, e) PROVE Shape'
    <2>1. Past(p, e, Idle) /\ job[p].pc \in {"import", "remove", "copy", "restore"}
      BY <1>15 DEF write_if_absent
    <2>2. InStep' /\ job' \in [Operators -> Jobs]
      BY <2>1, IdleJob, PastJob
    <2>3. Typed'
      BY <1>15, <2>2 DEF write_if_absent, Arrive, Commit, CameIn, rows, files, moves, saves
    <2>4. QED
      BY <2>2, <2>3
  <1>16. ASSUME NEW p \in Operators, NEW e \in Events, delete_events_by_id(p, e) PROVE Shape'
    <2>1. Past(p, e, Idle) /\ job[p].pc \in {"import", "remove", "copy", "restore"}
      BY <1>16 DEF delete_events_by_id
    <2>2. InStep' /\ job' \in [Operators -> Jobs]
      BY <2>1, IdleJob, PastJob
    <2>3. Typed'
      BY <1>16, <2>2 DEF delete_events_by_id, Commit, rows, files, moves, saves
    <2>4. QED
      BY <2>2, <2>3
  <1>17. ASSUME NEW p \in Operators, NEW e \in Events, BackUpPage(p, e) PROVE Shape'
    <2>1. Past(p, e, Idle) /\ job[p].pc \in {"import", "remove", "copy", "restore"}
      BY <1>17 DEF BackUpPage
    <2>2. InStep' /\ job' \in [Operators -> Jobs]
      BY <2>1, IdleJob, PastJob
    <2>3. Typed'
      BY <1>17, <2>2 DEF BackUpPage, rows, moves, saves
    <2>4. QED
      BY <2>2, <2>3
  <1>18. ASSUME NEW p \in Operators, NEW e \in Events, SavePage(p, e) PROVE Shape'
    <2> DEFINE next == [Idle EXCEPT !.cmd = "migrate", !.pc = "open"]
    <2>1. Past(p, e, next) /\ job[p].pc = "save"
      BY <1>18 DEF SavePage
    <2>2. next \in Jobs /\ next.pc = "open" /\ next.cmd = "migrate"
      BY DEF Idle
    <2> HIDE DEF next
    <2>3. InStep' /\ job' \in [Operators -> Jobs]
      BY <2>1, <2>2, PastJob
    <2>4. Typed'
      BY <1>18, <2>3 DEF SavePage, rows, moves
    <2>5. QED
      BY <2>3, <2>4
  <1>19. ASSUME NEW p \in Operators, NEW e \in Events, RestorePage(p, e) PROVE Shape'
    <2>1. Past(p, e, Idle) /\ job[p].pc \in {"import", "remove", "copy", "restore"}
      BY <1>19 DEF RestorePage
    <2>2. InStep' /\ job' \in [Operators -> Jobs]
      BY <2>1, IdleJob, PastJob
    <2>3. Typed'
      BY <1>19, <2>2 DEF RestorePage, CameIn, moves, saves
    <2>4. QED
      BY <2>2, <2>3
  <1>20. CASE UNCHANGED vars
    BY <1>20 DEF vars, rows, files, moves, saves
  <1> HIDE DEF Shape
  <1>21. CASE \E p \in Operators :
                \/ Import(p) \/ Prune(p) \/ Archive(p) \/ Select(p) \/ Migrate(p) \/ Open(p) \/ Kill(p)
    BY <1>6, <1>7, <1>8, <1>9, <1>10, <1>11, <1>12, <1>21
  <1>22. CASE \E p \in Operators, force \in BOOLEAN :
                BackUp(p, force) \/ \E S \in SUBSET Events : Delete(p, S, force)
    BY <1>13, <1>14, <1>22, Zenon
  <1>23. CASE \E p \in Operators, e \in Events :
                \/ write_if_absent(p, e) \/ delete_events_by_id(p, e)
                \/ BackUpPage(p, e) \/ SavePage(p, e) \/ RestorePage(p, e)
    BY <1>15, <1>16, <1>17, <1>18, <1>19, <1>23
  <1>24. CASE \E e \in Events : Capture(e) \/ mark_resolved(e)
    BY <1>4, <1>5, <1>24
  <1>25. QED
    BY <1>1, <1>2, <1>3, <1>20, <1>21, <1>22, <1>23, <1>24, Zenon DEF Next

(***************************************************************************)
(* What the steps do to the row of an event.                               *)
(***************************************************************************)
LEMMA FlushedLive ==
  ASSUME Typed, Flushed
  PROVE  \A x \in Events : Live(x)' = Live(x)
  BY DEF Typed, Flushed, Live, Row

LEMMA CommitLive ==
  ASSUME Typed, NEW e \in Events, NEW r \in Row, Commit(e, r)
  PROVE  \A x \in Events : Live(x)' = IF x = e THEN r ELSE Live(x)
  BY DEF Typed, Commit, Live, Row

LEMMA RestoreLive ==
  ASSUME Typed, NEW p \in Operators, NEW e \in Events, RestorePage(p, e)
  PROVE  \A x \in Events : Live(x)' = IF x = e /\ wal[e] = "clean" THEN bak[e] ELSE Live(x)
  BY DEF Typed, RestorePage, Live, Row

LEMMA LiveTyped == Typed => \A x \in Events : Live(x) \in Row
  BY DEF Typed, Live, Row

(***************************************************************************)
(* What a step may do to an event: nothing, bring it in, resolve it,       *)
(* remove it, or put the row of the .bak back.                             *)
(***************************************************************************)
Untouched(x) == arrived'[x] = arrived[x] /\ (x \in late => x \in late') /\ (x \in discarded => x \in discarded')

ComesIn(x) ==
  /\ Live(x) = "absent" /\ Live(x)' # "absent"
  /\ arrived'[x] = arrived[x] + 1
  /\ Archiving(x) => x \in late'

IsRemoved(x) ==
  /\ Untouched(x) /\ Live(x)' = "absent"
  /\ \E p \in Operators :
       /\ x \in job[p].todo /\ job[p].pc = "remove"
       /\ job[p].cmd = "archive" \/ x \in discarded'

IsReverted(x) ==
  /\ Untouched(x) /\ Live(x)' = bak[x]
  /\ \E p \in Operators : x \in job[p].todo /\ job[p].pc = "restore"

RowTurn(x) ==
  \/ Untouched(x) /\ Live(x)' = Live(x)
  \/ ComesIn(x)
  \/ Untouched(x) /\ Live(x) = "open" /\ Live(x)' = "resolved"
  \/ Live(x) # "absent" /\ IsRemoved(x)
  \/ Live(x) # "absent" /\ IsReverted(x)

Grows(x) == archive'[x] >= archive[x] /\ (x \in exposed => x \in exposed')

Turn == \A x \in Events : RowTurn(x) /\ Grows(x)

LEMMA StillTurn ==
  ASSUME Typed, UNCHANGED moves, \A x \in Events : Live(x)' = Live(x) /\ Grows(x)
  PROVE  Turn
  BY DEF Turn, RowTurn, Untouched, moves

LEMMA ArriveTurn ==
  ASSUME Typed, NEW e \in Events, Live(e) = "absent", Arrive(e), UNCHANGED archive
  PROVE  Turn
  <1>1. Commit(e, "open") /\ CameIn(e) /\ \A x \in Events : Live(x)' = IF x = e THEN "open" ELSE Live(x)
    BY CommitLive DEF Arrive, Row
  <1>2. ASSUME NEW x \in Events PROVE Grows(x)
    BY <1>1 DEF Commit, Grows, Typed
  <1>3. ASSUME NEW x \in Events, x # e PROVE RowTurn(x)
    BY <1>1, <1>3 DEF CameIn, RowTurn, Untouched, Typed
  <1>4. ComesIn(e)
    BY <1>1 DEF CameIn, ComesIn, Typed
  <1>5. QED
    BY <1>2, <1>3, <1>4 DEF Turn, RowTurn

\* What is in the database has come in.
Entered == \A x \in Events : Live(x) # "absent" => arrived[x] >= 1

LEMMA TurnStep == Shape /\ Entered /\ [Next]_vars => Turn
  <1> SUFFICES ASSUME Shape, Entered, [Next]_vars PROVE Turn
    OBVIOUS
  <1>t. Typed
    BY DEF Shape
  <1> USE <1>t
  <1>q. ASSUME UNCHANGED moves, UNCHANGED exposed, UNCHANGED archive,
               Flushed \/ UNCHANGED rows \/ (wal' = [e \in Events |-> Live(e)] /\ UNCHANGED file)
        PROVE  Turn
    <2>1. \A x \in Events : Live(x)' = Live(x)
      <3>1. CASE Flushed
        BY <3>1, FlushedLive
      <3>2. CASE UNCHANGED rows
        BY <3>2 DEF Live, rows
      <3>3. CASE wal' = [e \in Events |-> Live(e)] /\ UNCHANGED file
        BY <3>3 DEF Live, Typed, Row
      <3>4. QED
        BY <1>q, <3>1, <3>2, <3>3
    <2>2. \A x \in Events : Grows(x)
      BY <1>q DEF Grows, Typed
    <2>3. QED
      BY <1>q, <2>1, <2>2, StillTurn
  <1>1. CASE Checkpoint \/ Export \/ Vacuum
    BY <1>1, <1>q DEF Checkpoint, Export, Vacuum, saves, rows
  <1>2. ASSUME NEW e \in Events, Capture(e) PROVE Turn
    <2>1. Live(e) = "absent" /\ Arrive(e) /\ UNCHANGED archive
      BY <1>2 DEF Capture, Entered, files
    <2>2. QED
      BY <2>1, ArriveTurn
  <1>3. ASSUME NEW e \in Events, mark_resolved(e) PROVE Turn
    <2>1. Live(e) = "open" /\ Commit(e, "resolved") /\ UNCHANGED moves /\ UNCHANGED archive
      BY <1>3 DEF mark_resolved, files
    <2>2. \A x \in Events : Live(x)' = IF x = e THEN "resolved" ELSE Live(x)
      BY <2>1, CommitLive DEF Row
    <2>3. \A x \in Events : Grows(x)
      BY <2>1 DEF Commit, Grows, Typed
    <2>4. QED
      BY <2>1, <2>2, <2>3 DEF Turn, RowTurn, Untouched, moves
  <1>4. ASSUME NEW p \in Operators,
               Import(p) \/ Prune(p) \/ Select(p) \/ Migrate(p) \/ Kill(p)
        PROVE  Turn
    BY <1>4, <1>q DEF Import, Prune, Select, Migrate, Kill, files, saves
  <1>5. ASSUME NEW p \in Operators, Archive(p) PROVE Turn
    <2>1. UNCHANGED moves /\ UNCHANGED exposed /\ UNCHANGED rows
      BY <1>5 DEF Archive, saves
    <2>2. \A x \in Events : Grows(x)
      BY <1>5, <2>1 DEF Archive, Grows, Typed
    <2>3. QED
      BY <2>1, <2>2, StillTurn DEF rows, Live
  <1>6. ASSUME NEW p \in Operators, Open(p) PROVE Turn
    <2>1. UNCHANGED moves /\ UNCHANGED rows /\ UNCHANGED archive /\ exposed \subseteq exposed'
      BY <1>6 DEF Open, files
    <2>2. QED
      BY <2>1, StillTurn DEF rows, Live, Grows, Typed
  <1>7. ASSUME NEW p \in Operators, NEW force \in BOOLEAN, BackUp(p, force) PROVE Turn
    BY <1>7, <1>q DEF BackUp, saves
  <1>8. ASSUME NEW p \in Operators, NEW S \in SUBSET Events, NEW force \in BOOLEAN, Delete(p, S, force)
        PROVE  Turn
    BY <1>8, <1>q DEF Delete, files, saves
  <1>9. ASSUME NEW p \in Operators, NEW e \in Events, write_if_absent(p, e) PROVE Turn
    <2>1. UNCHANGED archive
      BY <1>9 DEF write_if_absent, files
    <2>2. CASE e \in Stored
      BY <1>9, <2>1, <2>2, <1>q DEF write_if_absent, saves
    <2>3. CASE e \notin Stored
      BY <1>9, <2>1, <2>3, ArriveTurn DEF write_if_absent, Stored
    <2>4. QED
      BY <2>2, <2>3
  <1>10. ASSUME NEW p \in Operators, NEW e \in Events, delete_events_by_id(p, e) PROVE Turn
    <2>1. UNCHANGED archive
      BY <1>10 DEF delete_events_by_id, files
    <2>2. CASE e \notin Stored
      BY <1>10, <2>1, <2>2, <1>q DEF delete_events_by_id, saves
    <2>3. CASE e \in Stored
      <3>1. Commit(e, "absent") /\ Live(e) # "absent" /\ \A x \in Events : Live(x)' = IF x = e THEN "absent" ELSE Live(x)
        BY <1>10, <2>3, CommitLive DEF delete_events_by_id, Row, Stored
      <3>2. \A x \in Events : Grows(x)
        BY <2>1, <3>1 DEF Commit, Grows, Typed
      <3>3. \A x \in Events : Untouched(x)
        BY <1>10, <2>3 DEF delete_events_by_id, Untouched
      <3>4. IsRemoved(e)
        BY <1>10, <2>3, <3>1, <3>3 DEF delete_events_by_id, IsRemoved
      <3>5. QED
        BY <3>1, <3>2, <3>3, <3>4 DEF Turn, RowTurn
    <2>4. QED
      BY <2>2, <2>3
  <1>11. ASSUME NEW p \in Operators, NEW e \in Events, BackUpPage(p, e) PROVE Turn
    BY <1>11, <1>q DEF BackUpPage, saves
  <1>12. ASSUME NEW p \in Operators, NEW e \in Events, SavePage(p, e) PROVE Turn
    <2>1. UNCHANGED moves /\ UNCHANGED rows /\ UNCHANGED archive /\ exposed \subseteq exposed'
      BY <1>12 DEF SavePage
    <2>2. QED
      BY <2>1, StillTurn DEF rows, Live, Grows, Typed
  <1>13. ASSUME NEW p \in Operators, NEW e \in Events, RestorePage(p, e) PROVE Turn
    <2>1. UNCHANGED archive /\ UNCHANGED exposed /\ e \in job[p].todo /\ job[p].pc = "restore"
      BY <1>13 DEF RestorePage, saves
    <2>2. \A x \in Events : Live(x)' = IF x = e /\ wal[e] = "clean" THEN bak[e] ELSE Live(x)
      BY <1>13, RestoreLive
    <2>3. \A x \in Events : Grows(x)
      BY <2>1 DEF Grows, Typed
    <2>4. CASE e \notin Stored /\ wal[e] = "clean" /\ bak[e] # "absent"
      <3>1. CameIn(e) /\ Live(e) = "absent" /\ Live(e)' # "absent"
        BY <1>13, <2>2, <2>4 DEF RestorePage, Stored
      <3>2. \A x \in Events \ {e} : Untouched(x)
        BY <3>1 DEF CameIn, Untouched, Typed
      <3>3. ComesIn(e)
        BY <3>1 DEF CameIn, ComesIn, Typed
      <3>4. QED
        BY <2>2, <2>3, <3>2, <3>3 DEF Turn, RowTurn
    <2>5. CASE ~(e \notin Stored /\ wal[e] = "clean" /\ bak[e] # "absent")
      <3>1. \A x \in Events : Untouched(x)
        BY <1>13, <2>5 DEF RestorePage, Untouched, moves
      <3>2. CASE e \in Stored /\ wal[e] = "clean"
        BY <2>1, <2>2, <2>3, <3>1, <3>2 DEF Turn, RowTurn, IsReverted, Stored
      <3>3. CASE e \notin Stored \/ wal[e] # "clean"
        BY <2>2, <2>3, <2>5, <3>1, <3>3 DEF Turn, RowTurn, Stored
      <3>4. QED
        BY <3>2, <3>3
    <2>6. QED
      BY <2>4, <2>5
  <1>14. CASE UNCHANGED vars
    BY <1>14, <1>q DEF vars, files, saves
  <1>15. CASE \E p \in Operators :
                 \/ Import(p) \/ Prune(p) \/ Archive(p) \/ Select(p) \/ Migrate(p) \/ Open(p) \/ Kill(p)
    BY <1>4, <1>5, <1>6, <1>15
  <1>16. CASE \E p \in Operators, force \in BOOLEAN :
                 BackUp(p, force) \/ \E S \in SUBSET Events : Delete(p, S, force)
    BY <1>7, <1>8, <1>16, Zenon
  <1>17. CASE \E p \in Operators, e \in Events :
                 \/ write_if_absent(p, e) \/ delete_events_by_id(p, e)
                 \/ BackUpPage(p, e) \/ SavePage(p, e) \/ RestorePage(p, e)
    BY <1>9, <1>10, <1>11, <1>12, <1>13, <1>17
  <1>18. CASE \E e \in Events : Capture(e) \/ mark_resolved(e)
    BY <1>2, <1>3, <1>18
  <1>19. QED
    BY <1>1, <1>14, <1>15, <1>16, <1>17, <1>18, Zenon DEF Next

(***************************************************************************)
(* What a step may do to a command: leave it or take it on through its     *)
(* list, end it, begin one that removes nothing by itself, or be a step of *)
(* archive, delete or migrate.                                             *)
(***************************************************************************)
Shrinks(p) == job'[p].pc = job[p].pc /\ job'[p].cmd = job[p].cmd /\ job'[p].todo \subseteq job[p].todo

JobTurn(p) ==
  \/ Shrinks(p)
  \/ job'[p].cmd \notin {"archive", "delete"} /\ job'[p].pc # "restore"
  \/ Archive(p) \/ Select(p) \/ Open(p)
  \/ \E S \in SUBSET Events : Delete(p, S, FALSE)

LEMMA BeginTurn ==
  ASSUME Typed, NEW p \in Operators, NEW cmd, NEW pc, NEW todo, Begin(p, cmd, pc, todo),
         cmd \notin {"archive", "delete"}, pc # "restore"
  PROVE  \A q \in Operators : JobTurn(q)
  BY DEF Begin, Idle, Typed, JobTurn, Shrinks, Jobs

LEMMA PastTurn ==
  ASSUME Typed, NEW p \in Operators, NEW e \in Events, NEW next \in Jobs, Past(p, e, next),
         next.cmd \notin {"archive", "delete"}, next.pc # "restore"
  PROVE  \A q \in Operators : JobTurn(q)
  BY PastJob DEF JobTurn, Shrinks

LEMMA SameTurn == UNCHANGED job => \A q \in Operators : JobTurn(q)
  BY DEF JobTurn, Shrinks

LEMMA JobStep == Shape /\ [Next]_vars => \A q \in Operators : JobTurn(q)
  <1> SUFFICES ASSUME Shape, [Next]_vars PROVE \A q \in Operators : JobTurn(q)
    OBVIOUS
  <1>t. Typed
    BY DEF Shape
  <1> DEFINE Goal == \A q \in Operators : JobTurn(q)
  <1>1. CASE Checkpoint \/ Export \/ Vacuum \/ UNCHANGED vars
    BY <1>1, SameTurn DEF Checkpoint, Export, Vacuum, vars
  <1>2. CASE \E e \in Events : Capture(e) \/ mark_resolved(e)
    BY <1>2, SameTurn DEF Capture, mark_resolved
  <1>3. ASSUME NEW p \in Operators, Import(p) \/ Prune(p) \/ Migrate(p) PROVE Goal
    BY <1>3, <1>t, BeginTurn DEF Import, Prune, Migrate
  <1>4. ASSUME NEW p \in Operators, Archive(p) PROVE Goal
    BY <1>4, <1>t DEF Archive, JobTurn, Shrinks, Typed
  <1>5. ASSUME NEW p \in Operators, Select(p) PROVE Goal
    BY <1>5, <1>t DEF Select, JobTurn, Shrinks, Typed
  <1>6. ASSUME NEW p \in Operators, Open(p) PROVE Goal
    BY <1>6, <1>t DEF Open, JobTurn, Shrinks, Typed
  <1>7. ASSUME NEW p \in Operators, Kill(p) PROVE Goal
    BY <1>7, <1>t, IdleJob DEF Kill, JobTurn, Shrinks, Typed
  <1>8. ASSUME NEW p \in Operators, NEW force \in BOOLEAN, BackUp(p, force) PROVE Goal
    BY <1>8, <1>t, BeginTurn DEF BackUp
  <1>9. ASSUME NEW p \in Operators, NEW S \in SUBSET Events, NEW force \in BOOLEAN, Delete(p, S, force)
        PROVE  Goal
    <2>1. CASE force
      <3>1. Begin(p, "force", "remove", matching_delete_ids(S, force))
        BY <1>9, <2>1 DEF Delete
      <3>2. QED
        BY <3>1, <1>t, BeginTurn
    <2>2. CASE ~force
      <3>1. Delete(p, S, FALSE)
        BY <1>9, <2>2
      <3>2. \A q \in Operators \ {p} : job'[q] = job[q]
        BY <1>9, <1>t DEF Delete, Begin, Typed
      <3>3. QED
        BY <3>1, <3>2 DEF JobTurn, Shrinks
    <2>3. QED
      BY <2>1, <2>2
  <1>10. ASSUME NEW p \in Operators, NEW e \in Events,
                \/ write_if_absent(p, e) \/ delete_events_by_id(p, e)
                \/ BackUpPage(p, e) \/ RestorePage(p, e)
         PROVE  Goal
    <2>1. Past(p, e, Idle)
      BY <1>10 DEF write_if_absent, delete_events_by_id, BackUpPage, RestorePage
    <2>2. QED
      BY <2>1, <1>t, IdleJob, PastTurn
  <1>11. ASSUME NEW p \in Operators, NEW e \in Events, SavePage(p, e) PROVE Goal
    <2> DEFINE next == [Idle EXCEPT !.cmd = "migrate", !.pc = "open"]
    <2>1. Past(p, e, next)
      BY <1>11 DEF SavePage
    <2>2. next \in Jobs /\ next.pc = "open" /\ next.cmd = "migrate"
      BY DEF Idle, Jobs
    <2> HIDE DEF next
    <2>3. QED
      BY <2>1, <2>2, <1>t, PastTurn
  <1>12. CASE \E p \in Operators :
                 \/ Import(p) \/ Prune(p) \/ Archive(p) \/ Select(p) \/ Migrate(p) \/ Open(p) \/ Kill(p)
    BY <1>3, <1>4, <1>5, <1>6, <1>7, <1>12
  <1>13. CASE \E p \in Operators, force \in BOOLEAN :
                 BackUp(p, force) \/ \E S \in SUBSET Events : Delete(p, S, force)
    BY <1>8, <1>9, <1>13, Zenon
  <1>14. CASE \E p \in Operators, e \in Events :
                 \/ write_if_absent(p, e) \/ delete_events_by_id(p, e)
                 \/ BackUpPage(p, e) \/ SavePage(p, e) \/ RestorePage(p, e)
    BY <1>10, <1>11, <1>14
  <1>15. QED
    BY <1>1, <1>2, <1>12, <1>13, <1>14, Zenon DEF Next

(***************************************************************************)
(* What a step may do to the .bak file: an event that is not unsaved has   *)
(* the same row there, and one that a restore will revert is exposed.      *)
(***************************************************************************)
SaveTurn(x) ==
  \/ /\ bak'[x] = bak[x] /\ (x \in unsaved => x \in unsaved')
     /\ \/ Live(x)' \in {Live(x), bak[x]}
        \/ x \in unsaved' /\ (Restoring => x \in exposed')
  \/ /\ Live(x)' = Live(x)
     /\ Live(x)' = bak'[x] \/ (x \in unsaved' /\ (Restoring => x \in exposed'))

LEMMA SaveStep == Shape /\ [Next]_vars => \A x \in Events : SaveTurn(x)
  <1> SUFFICES ASSUME Shape, [Next]_vars PROVE \A x \in Events : SaveTurn(x)
    OBVIOUS
  <1>t. Typed
    BY DEF Shape
  <1> DEFINE Goal == \A x \in Events : SaveTurn(x)
  <1>q. ASSUME UNCHANGED bak, UNCHANGED unsaved,
               Flushed \/ UNCHANGED rows \/ (wal' = [e \in Events |-> Live(e)] /\ UNCHANGED file)
        PROVE  Goal
    <2>1. \A x \in Events : Live(x)' = Live(x)
      <3>1. CASE Flushed
        BY <1>t, <3>1, FlushedLive
      <3>2. CASE UNCHANGED rows
        BY <3>2 DEF Live, rows
      <3>3. CASE wal' = [e \in Events |-> Live(e)] /\ UNCHANGED file
        BY <1>t, <3>3 DEF Live, Typed, Row
      <3>4. QED
        BY <1>q, <3>1, <3>2, <3>3
    <2>2. QED
      BY <1>q, <2>1 DEF SaveTurn
  <1>c. ASSUME NEW e \in Events, NEW r \in Row, Commit(e, r), UNCHANGED bak PROVE Goal
    <2>1. \A x \in Events : Live(x)' = IF x = e THEN r ELSE Live(x)
      BY <1>t, <1>c, CommitLive
    <2>2. QED
      BY <1>c, <2>1 DEF SaveTurn, Commit
  <1>1. CASE Checkpoint \/ Export \/ Vacuum \/ UNCHANGED vars
    BY <1>1, <1>q DEF Checkpoint, Export, Vacuum, saves, rows, vars, files
  <1>2. CASE \E e \in Events : Capture(e) \/ mark_resolved(e)
    BY <1>2, <1>c DEF Capture, mark_resolved, Arrive, files, Row
  <1>3. CASE \E p \in Operators :
                \/ Import(p) \/ Prune(p) \/ Archive(p) \/ Select(p) \/ Migrate(p) \/ Open(p) \/ Kill(p)
    BY <1>3, <1>q DEF Import, Prune, Archive, Select, Migrate, Open, Kill, files, saves
  <1>4. CASE \E p \in Operators, force \in BOOLEAN :
                BackUp(p, force) \/ \E S \in SUBSET Events : Delete(p, S, force)
    BY <1>4, <1>q DEF BackUp, Delete, files, saves
  <1>5. ASSUME NEW p \in Operators, NEW e \in Events, write_if_absent(p, e) \/ delete_events_by_id(p, e)
        PROVE  Goal
    <2>1. UNCHANGED bak
      BY <1>5 DEF write_if_absent, delete_events_by_id, files
    <2>2. \/ UNCHANGED rows /\ UNCHANGED unsaved
          \/ \E r \in Row : Commit(e, r)
      BY <1>5 DEF write_if_absent, delete_events_by_id, Arrive, Row, saves
    <2>3. QED
      BY <2>1, <2>2, <1>q, <1>c
  <1>6. ASSUME NEW p \in Operators, NEW e \in Events, BackUpPage(p, e) PROVE Goal
    BY <1>6, <1>q DEF BackUpPage, saves
  <1>7. ASSUME NEW p \in Operators, NEW e \in Events, SavePage(p, e) PROVE Goal
    <2>1. \A x \in Events : Live(x)' = Live(x)
      BY <1>7 DEF SavePage, rows, Live
    <2>2. \A x \in Events \ {e} : bak'[x] = bak[x] /\ (x \in unsaved => x \in unsaved')
      BY <1>7, <1>t DEF SavePage, Typed
    <2>3. bak'[e] = file[e]
      BY <1>7, <1>t DEF SavePage, Typed
    <2>4. Live(e) # file[e] => e \in unsaved' /\ (Restoring => e \in exposed')
      BY <1>7 DEF SavePage
    <2>5. SaveTurn(e)
      BY <2>1, <2>3, <2>4 DEF SaveTurn
    <2>6. ASSUME NEW x \in Events \ {e} PROVE SaveTurn(x)
      BY <2>1, <2>2 DEF SaveTurn
    <2>7. QED
      BY <2>5, <2>6
  <1>8. ASSUME NEW p \in Operators, NEW e \in Events, RestorePage(p, e) PROVE Goal
    <2>1. \A x \in Events : Live(x)' \in {Live(x), bak[x]}
      BY <1>8, <1>t, RestoreLive
    <2>2. QED
      BY <1>8, <2>1 DEF SaveTurn, RestorePage, saves
  <1>9. CASE \E p \in Operators, e \in Events :
                 \/ write_if_absent(p, e) \/ delete_events_by_id(p, e)
                 \/ BackUpPage(p, e) \/ SavePage(p, e) \/ RestorePage(p, e)
    BY <1>5, <1>6, <1>7, <1>8, <1>9
  <1>10. QED
    BY <1>1, <1>2, <1>3, <1>4, <1>9, Zenon DEF Next

(***************************************************************************)
(* The inductive invariant.  What an archive will remove has been copied,  *)
(* or came in late; what a delete will remove was resolved, or has left    *)
(* and come back, or been reverted.                                        *)
(***************************************************************************)
Archived ==
  \A p \in Operators, e \in Events :
    job[p].cmd = "archive" /\ Live(e) # "absent" /\ ((job[p].pc = "select" /\ e \in Old) \/ e \in job[p].todo)
      => archive[e] > 0 \/ e \in late

Saved == \A e \in Events \ unsaved : Live(e) = bak[e]

Restored ==
  \A p \in Operators, e \in Events :
    job[p].pc = "restore" /\ e \in job[p].todo /\ Live(e) # bak[e] => e \in exposed

Matched ==
  \A p \in Operators, e \in Events :
    job[p].cmd = "delete" /\ e \in job[p].todo =>
      arrived[e] >= 1 /\ (arrived[e] > 1 \/ e \in exposed \/ Live(e) \in {"resolved", "absent"})

MaintenanceInv == Shape /\ Entered /\ Archived /\ Saved /\ Restored /\ Matched

LEMMA EnteredStep == Typed /\ Entered /\ Turn => Entered'
  BY DEF Typed, Entered, Turn, RowTurn, Untouched, ComesIn, IsRemoved, IsReverted

LEMMA SavedStep == Saved /\ (\A x \in Events : SaveTurn(x)) => Saved'
  BY DEF Saved, SaveTurn

LEMMA RestoredStep ==
  ASSUME Shape, Saved, Restored, Turn, \A x \in Events : SaveTurn(x), \A q \in Operators : JobTurn(q)
  PROVE  Restored'
  <1> SUFFICES ASSUME NEW p \in Operators, NEW e \in Events,
                      job'[p].pc = "restore", e \in job'[p].todo, Live(e)' # bak'[e]
               PROVE  e \in exposed'
    BY DEF Restored
  <1>1. CASE Shrinks(p)
    BY <1>1 DEF Shrinks, Restored, SaveTurn, Restoring, Turn, Grows
  <1>2. CASE Open(p)
    <2>1. Live(e)' = Live(e) /\ bak'[e] = bak[e]
      BY <1>2 DEF Open, rows, files, Live
    <2>2. QED
      BY <1>2, <2>1 DEF Open, Saved, Shape, Typed, Jobs, Idle
  <1>3. CASE Archive(p)
    BY <1>3 DEF Archive, Idle, Shape, Typed
  <1>4. CASE Select(p)
    BY <1>4 DEF Select, Idle, Shape, Typed, Jobs
  <1>5. ASSUME NEW S \in SUBSET Events, Delete(p, S, FALSE) PROVE FALSE
    BY <1>5 DEF Delete, Begin, Idle, Shape, Typed
  <1>6. QED
    BY <1>1, <1>2, <1>3, <1>4, <1>5 DEF JobTurn

LEMMA ArchivedStep ==
  ASSUME Shape, Shape', Archived, Turn, \A q \in Operators : JobTurn(q)
  PROVE  Archived'
  <1> SUFFICES ASSUME NEW p \in Operators, NEW e \in Events, job'[p].cmd = "archive", Live(e)' # "absent",
                      (job'[p].pc = "select" /\ e \in Old) \/ e \in job'[p].todo
               PROVE  archive'[e] > 0 \/ e \in late'
    BY DEF Archived
  <1>1. archive[e] \in Nat /\ archive'[e] \in Nat /\ archive'[e] >= archive[e] /\ RowTurn(e)
    BY DEF Turn, Grows, Shape, Typed
  <1>2. CASE Shrinks(p)
    <2>1. job[p].cmd = "archive" /\ ((job[p].pc = "select" /\ e \in Old) \/ e \in job[p].todo)
      BY <1>2 DEF Shrinks
    <2>2. CASE ComesIn(e)
      BY <2>1, <2>2 DEF ComesIn, Archiving
    <2>3. CASE Live(e) # "absent" /\ Untouched(e)
      BY <1>1, <2>1, <2>3 DEF Archived, Untouched
    <2>4. QED
      BY <1>1, <2>2, <2>3 DEF RowTurn, IsRemoved, IsReverted
  <1>3. CASE Archive(p)
    <2>1. Live(e)' = Live(e) /\ job' = [job EXCEPT ![p] = [Idle EXCEPT !.cmd = "archive", !.pc = "select", !.copied = Old \cap Stored]]
      BY <1>3 DEF Archive, rows, Live
    <2>2. job'[p].todo = {}
      BY <2>1 DEF Shape, Typed, Idle
    <2>3. e \in Old \cap Stored
      BY <2>1, <2>2 DEF Stored
    <2>4. QED
      BY <1>1, <1>3, <2>3 DEF Archive
  <1>4. CASE Select(p)
    <2>1. Live(e)' = Live(e) /\ late' = late /\ archive' = archive /\ job[p].pc = "select"
      BY <1>4 DEF Select, rows, Live, files, moves
    <2>2. e \in Old
      BY <1>4 DEF Select, Shape, Typed, Jobs, Idle
    <2>3. job[p].cmd = "archive"
      BY <2>1 DEF Shape, InStep
    <2>4. QED
      BY <2>1, <2>2, <2>3 DEF Archived
  <1>5. CASE Open(p)
    BY <1>5 DEF Open, Shape, Typed, InStep, Idle, Jobs
  <1>6. ASSUME NEW S \in SUBSET Events, Delete(p, S, FALSE) PROVE FALSE
    BY <1>6 DEF Delete, Begin, Idle, Shape, Typed
  <1>7. QED
    BY <1>2, <1>3, <1>4, <1>5, <1>6 DEF JobTurn

LEMMA MatchedStep ==
  ASSUME Shape, Entered, Restored, Matched, Turn, \A q \in Operators : JobTurn(q)
  PROVE  Matched'
  <1> SUFFICES ASSUME NEW p \in Operators, NEW e \in Events, job'[p].cmd = "delete", e \in job'[p].todo
               PROVE  /\ arrived'[e] >= 1
                      /\ arrived'[e] > 1 \/ e \in exposed' \/ Live(e)' \in {"resolved", "absent"}
    BY DEF Matched
  <1>1. RowTurn(e) /\ (e \in exposed => e \in exposed') /\ arrived[e] \in Nat
    BY DEF Turn, Grows, Shape, Typed
  <1>2. CASE Shrinks(p)
    <2>1. /\ arrived[e] >= 1
          /\ arrived[e] > 1 \/ e \in exposed \/ Live(e) \in {"resolved", "absent"}
      BY <1>2 DEF Shrinks, Matched
    <2>2. CASE IsReverted(e) /\ Live(e) # "absent"
      BY <1>1, <2>1, <2>2 DEF IsReverted, Untouched, Restored
    <2>3. CASE ComesIn(e)
      BY <1>1, <2>1, <2>3 DEF ComesIn
    <2>4. CASE Untouched(e) /\ Live(e)' \in {Live(e), "resolved", "absent"}
      BY <1>1, <2>1, <2>4 DEF Untouched
    <2>5. QED
      BY <1>1, <2>2, <2>3, <2>4 DEF RowTurn, IsRemoved
  <1>3. ASSUME NEW S \in SUBSET Events, Delete(p, S, FALSE)
        PROVE  arrived'[e] >= 1 /\ Live(e)' \in {"resolved", "absent"}
    <2>1. Live(e)' = Live(e) /\ arrived' = arrived
      BY <1>3 DEF Delete, rows, Live, moves
    <2>2. job'[p].todo = matching_delete_ids(S, FALSE)
      BY <1>3 DEF Delete, Begin, Idle, Shape, Typed
    <2>3. Live(e) = "resolved"
      BY <2>2 DEF matching_delete_ids
    <2>4. QED
      BY <2>1, <2>3 DEF Entered
  <1>4. CASE Archive(p)
    BY <1>4 DEF Archive, Idle, Shape, Typed
  <1>5. CASE Select(p)
    BY <1>5 DEF Select, Idle, Shape, Typed, InStep, Jobs
  <1>6. CASE Open(p)
    BY <1>6 DEF Open, Shape, Typed, InStep, Idle, Jobs
  <1>7. QED
    BY <1>2, <1>3, <1>4, <1>5, <1>6 DEF JobTurn

LEMMA InvInit == Init => MaintenanceInv /\ NothingVanishes /\ DeleteOnlyResolved
  BY ShapeInit DEF Init, MaintenanceInv, Entered, Archived, Saved, Restored, Matched,
     NothingVanishes, DeleteOnlyResolved, Stored, Live, Idle

LEMMA InvStep == MaintenanceInv /\ [Next]_vars => MaintenanceInv'
  BY ShapeStep, TurnStep, JobStep, SaveStep, EnteredStep, ArchivedStep, SavedStep, RestoredStep, MatchedStep
     DEF MaintenanceInv, Shape

(* Every reachable state satisfies the inductive invariant.                 *)
THEOREM InvariantHolds == Spec => []MaintenanceInv
  BY InvInit, InvStep, PTL DEF Spec

(***************************************************************************)
(* An event can only leave the database in the ways that NothingVanishes   *)
(* names.                                                                  *)
(***************************************************************************)
LEMMA KeptStep == MaintenanceInv /\ NothingVanishes /\ [Next]_vars => NothingVanishes'
  <1> SUFFICES ASSUME MaintenanceInv, NothingVanishes, [Next]_vars,
                      NEW e \in Events, arrived'[e] > 0, Live(e)' = "absent"
               PROVE  archive'[e] > 0 \/ e \in discarded' \cup late' \cup exposed'
    BY DEF NothingVanishes, Stored
  <1>1. Turn /\ Shape /\ Archived /\ Restored
    BY TurnStep DEF MaintenanceInv
  <1>2. /\ RowTurn(e) /\ (e \in exposed => e \in exposed')
        /\ archive[e] \in Nat /\ archive'[e] \in Nat /\ archive'[e] >= archive[e]
    BY <1>1, ShapeStep DEF Turn, Grows, Shape, Typed
  <1>3. CASE Live(e) = "absent" /\ Untouched(e)
    <2>1. archive[e] > 0 \/ e \in discarded \cup late \cup exposed
      BY <1>3 DEF NothingVanishes, Stored, Untouched
    <2>2. QED
      BY <1>2, <1>3, <2>1 DEF Untouched
  <1>4. CASE IsRemoved(e) /\ Live(e) # "absent"
    BY <1>1, <1>2, <1>4 DEF IsRemoved, Untouched, Archived
  <1>5. CASE IsReverted(e) /\ Live(e) # "absent"
    BY <1>1, <1>2, <1>5 DEF IsReverted, Restored
  <1>6. QED
    BY <1>2, <1>3, <1>4, <1>5 DEF RowTurn, ComesIn

(* Whatever commands run, and are killed, over a database that others      *)
(* write to, an event that came in is in the database, or in the archive,  *)
(* or was removed by a delete or prune, or taken by an archive it came too *)
(* late for, or reverted by migrate.                                       *)
THEOREM NothingIsLost == Spec => []NothingVanishes
  <1>1. Init => NothingVanishes
    BY InvInit
  <1>2. QED
    BY <1>1, KeptStep, InvariantHolds, PTL DEF Spec

LEMMA StrayStep ==
  Shape /\ [Next]_vars =>
    \A e \in stray' \ stray :
      e \in Events /\ Live(e) \notin {"resolved", "absent"} /\ \E p \in Operators : job[p].cmd = "delete" /\ e \in job[p].todo
  <1> SUFFICES ASSUME Shape, [Next]_vars, NEW e \in stray' \ stray
               PROVE  e \in Events /\ Live(e) \notin {"resolved", "absent"} /\ \E p \in Operators : job[p].cmd = "delete" /\ e \in job[p].todo
    OBVIOUS
  <1>1. CASE \E p \in Operators, x \in Events : delete_events_by_id(p, x)
    BY <1>1 DEF delete_events_by_id, Stored, moves
  <1>2. CASE UNCHANGED stray
    BY <1>2
  <1>3. CASE Checkpoint \/ Export \/ Vacuum \/ UNCHANGED vars
    BY <1>3 DEF Checkpoint, Export, Vacuum, vars, moves
  <1>4. CASE \E x \in Events : Capture(x) \/ mark_resolved(x)
    BY <1>4 DEF Capture, mark_resolved, Arrive, CameIn, moves
  <1>5. CASE \E p \in Operators :
                \/ Import(p) \/ Prune(p) \/ Archive(p) \/ Select(p) \/ Migrate(p) \/ Open(p) \/ Kill(p)
    BY <1>5 DEF Import, Prune, Archive, Select, Migrate, Open, Kill, moves
  <1>6. CASE \E p \in Operators, force \in BOOLEAN :
                BackUp(p, force) \/ \E S \in SUBSET Events : Delete(p, S, force)
    BY <1>6 DEF BackUp, Delete, moves
  <1>7. CASE \E p \in Operators, x \in Events :
                write_if_absent(p, x) \/ BackUpPage(p, x) \/ SavePage(p, x) \/ RestorePage(p, x)
    BY <1>7 DEF write_if_absent, BackUpPage, SavePage, RestorePage, Arrive, CameIn, moves
  <1>8. QED
    BY <1>1, <1>2, <1>3, <1>4, <1>5, <1>6, <1>7, Zenon DEF Next

LEMMA StraysStep == MaintenanceInv /\ DeleteOnlyResolved /\ [Next]_vars => DeleteOnlyResolved'
  <1> SUFFICES ASSUME MaintenanceInv, DeleteOnlyResolved, [Next]_vars, NEW e \in stray'
               PROVE  arrived'[e] > 1 \/ e \in exposed'
    BY DEF DeleteOnlyResolved
  <1>1. Turn /\ Shape /\ Matched
    BY TurnStep DEF MaintenanceInv
  <1>2. e \in Events /\ (arrived[e] > 1 \/ e \in exposed)
    BY <1>1, StrayStep DEF DeleteOnlyResolved, Matched, Shape, Typed
  <1>3. arrived'[e] >= arrived[e] /\ (e \in exposed => e \in exposed') /\ arrived[e] \in Nat /\ arrived'[e] \in Nat
    BY <1>1, <1>2, ShapeStep DEF Turn, RowTurn, Grows, Untouched, ComesIn, IsRemoved, IsReverted, Shape, Typed
  <1>4. QED
    BY <1>2, <1>3

(* A delete without force only removes resolved events, but for those that *)
(* left and came back, or were reverted, after it matched them.            *)
THEOREM DeletesTakeResolved == Spec => []DeleteOnlyResolved
  <1>1. Init => DeleteOnlyResolved
    BY InvInit
  <1>2. QED
    BY <1>1, StraysStep, InvariantHolds, PTL DEF Spec

LEMMA StandsStep ==
  MaintenanceInv /\ [Next]_vars =>
    [\A e \in Events : Live(e) = "resolved" => Live(e)' # "open" \/ e \in exposed']_vars
  <1> SUFFICES ASSUME MaintenanceInv, [Next]_vars, NEW e \in Events, Live(e) = "resolved", Live(e)' = "open"
               PROVE  e \in exposed'
    OBVIOUS
  <1>1. RowTurn(e) /\ Restored /\ (e \in exposed => e \in exposed')
    BY TurnStep DEF MaintenanceInv, Turn, Grows
  <1>2. IsReverted(e)
    BY <1>1 DEF RowTurn, ComesIn, IsRemoved
  <1>3. QED
    BY <1>1, <1>2 DEF IsReverted, Restored

(* No command makes a resolved event open again where it is.               *)
THEOREM ResolutionsStand == Spec => ResolutionStands
  <1>1. QED
    BY InvariantHolds, StandsStep, PTL DEF Spec, ResolutionStands

(***************************************************************************)
(* The copies in the archive.  An event in the database has been copied    *)
(* less often than it came in, unless an archive that copied it has yet to *)
(* remove it.                                                              *)
(***************************************************************************)
Pending(e) ==
  \E p \in Operators :
    job[p].cmd = "archive" /\ e \in job[p].copied /\ (job[p].pc = "select" \/ e \in job[p].todo)

CopiesInv ==
  \A e \in Events \ again :
    /\ archive[e] <= arrived[e]
    /\ Live(e) # "absent" /\ ~Pending(e) => archive[e] + 1 <= arrived[e]

CopyTurn(x) ==
  /\ x \in again => x \in again'
  /\ \/ archive'[x] = archive[x] /\ (Pending(x) => Pending(x)' \/ Live(x)' = "absent" \/ x \in again')
     \/ /\ archive'[x] = archive[x] + 1 /\ Untouched(x)
        /\ Live(x) # "absent" /\ (Pending(x) => x \in again')
        /\ Pending(x)'

\* A step of a command that is no archive leaves the copies of all others pending.
LEMMA PendingKept ==
  ASSUME NEW p \in Operators, job[p].cmd # "archive", \A q \in Operators \ {p} : job'[q] = job[q],
         UNCHANGED archive, UNCHANGED again
  PROVE  \A x \in Events : CopyTurn(x)
  BY DEF Pending, CopyTurn

LEMMA CopyStep == Shape /\ [Next]_vars => \A x \in Events : CopyTurn(x)
  <1> SUFFICES ASSUME Shape, [Next]_vars PROVE \A x \in Events : CopyTurn(x)
    OBVIOUS
  <1>t. Typed /\ InStep
    BY DEF Shape
  <1> DEFINE Goal == \A x \in Events : CopyTurn(x)
  <1>q. ASSUME UNCHANGED job, UNCHANGED archive, UNCHANGED again PROVE Goal
    BY <1>q DEF CopyTurn, Pending
  <1>b. ASSUME NEW p \in Operators, NEW cmd, NEW pc, NEW todo, Begin(p, cmd, pc, todo),
               UNCHANGED archive, UNCHANGED again
        PROVE  Goal
    <2>1. job[p].cmd # "archive" /\ \A q \in Operators \ {p} : job'[q] = job[q]
      BY <1>b, <1>t DEF Begin, Idle, Typed
    <2>2. QED
      BY <1>b, <2>1, PendingKept
  <1>1. CASE Checkpoint \/ Export \/ Vacuum \/ UNCHANGED vars
    BY <1>1, <1>q DEF Checkpoint, Export, Vacuum, vars, files
  <1>2. CASE \E e \in Events : Capture(e) \/ mark_resolved(e)
    BY <1>2, <1>q DEF Capture, mark_resolved, files
  <1>3. ASSUME NEW p \in Operators, Import(p) \/ Prune(p) \/ Migrate(p) PROVE Goal
    BY <1>3, <1>b DEF Import, Prune, Migrate, files
  <1>4. ASSUME NEW p \in Operators, Archive(p) PROVE Goal
    <2>1. /\ job[p] = Idle /\ \A q \in Operators \ {p} : job'[q] = job[q]
          /\ job'[p].cmd = "archive" /\ job'[p].pc = "select" /\ job'[p].copied = Old \cap Stored
      BY <1>4, <1>t DEF Archive, Typed, Idle
    <2>2. \A x \in Events : Pending(x) => \E q \in Operators \ {p} : job'[q] = job[q] /\ job[q].cmd = "archive"
                              /\ x \in job[q].copied /\ (job[q].pc = "select" \/ x \in job[q].todo)
      BY <2>1 DEF Pending, Idle
    <2>3. ASSUME NEW x \in Events, x \in Old \cap Stored PROVE CopyTurn(x)
      <3>1. archive'[x] = archive[x] + 1 /\ Untouched(x) /\ Live(x) # "absent"
        BY <1>4, <2>3 DEF Archive, Untouched, Stored, moves
      <3>2. (Pending(x) => x \in again') /\ (x \in again => x \in again')
        BY <1>4, <2>3 DEF Archive, Pending, Copying
      <3>3. Pending(x)'
        BY <2>1, <2>3 DEF Pending
      <3>4. QED
        BY <3>1, <3>2, <3>3 DEF CopyTurn
    <2>4. ASSUME NEW x \in Events, x \notin Old \cap Stored PROVE CopyTurn(x)
      BY <1>4, <2>2, <2>4 DEF Archive, CopyTurn, Pending
    <2>5. QED
      BY <2>3, <2>4
  <1>5. ASSUME NEW p \in Operators, Select(p) PROVE Goal
    <2>1. UNCHANGED archive /\ UNCHANGED again /\ \A x \in Events : Live(x)' = Live(x)
      BY <1>5 DEF Select, files, rows, Live
    <2>2. \A q \in Operators \ {p} : job'[q] = job[q]
      BY <1>5, <1>t DEF Select, Typed
    <2>3. job[p].pc = "select" /\ job[p].cmd = "archive" /\ job[p].copied \subseteq Old
      BY <1>5, <1>t DEF Select, Typed, InStep, Jobs
    <2>4. Old \cap Stored # {} =>
            job'[p].cmd = "archive" /\ job'[p].copied = job[p].copied /\ job'[p].todo = Old \cap Stored
      BY <1>5, <1>t, <2>3 DEF Select, Typed, Jobs
    <2>5. ASSUME NEW x \in Events, Pending(x), Live(x) # "absent" PROVE Pending(x)'
      <3>1. CASE x \in job[p].copied
        BY <2>3, <2>4, <2>5, <3>1 DEF Pending, Stored
      <3>2. CASE x \notin job[p].copied
        BY <2>2, <2>5, <3>2 DEF Pending
      <3>3. QED
        BY <3>1, <3>2
    <2>6. QED
      BY <2>1, <2>5 DEF CopyTurn
  <1>6. ASSUME NEW p \in Operators, Open(p) PROVE Goal
    <2>1. job[p].cmd # "archive" /\ \A q \in Operators \ {p} : job'[q] = job[q]
      BY <1>6, <1>t DEF Open, Typed, InStep
    <2>2. QED
      BY <1>6, <2>1, PendingKept DEF Open, files
  <1>7. ASSUME NEW p \in Operators, Kill(p) PROVE Goal
    <2>1. UNCHANGED archive /\ again' = again \cup job[p].copied /\ \A q \in Operators \ {p} : job'[q] = job[q]
      BY <1>7, <1>t DEF Kill, Typed, files
    <2>2. QED
      BY <2>1 DEF CopyTurn, Pending
  <1>8. CASE \E p \in Operators, force \in BOOLEAN :
                BackUp(p, force) \/ \E S \in SUBSET Events : Delete(p, S, force)
    BY <1>8, <1>b DEF BackUp, Delete, files
  <1>9. ASSUME NEW p \in Operators, NEW e \in Events,
               write_if_absent(p, e) \/ BackUpPage(p, e) \/ SavePage(p, e) \/ RestorePage(p, e)
        PROVE  Goal
    <2>1. job[p].cmd # "archive" /\ UNCHANGED archive /\ UNCHANGED again
      BY <1>9, <1>t DEF write_if_absent, BackUpPage, SavePage, RestorePage, InStep, files
    <2>2. \A q \in Operators \ {p} : job'[q] = job[q]
      BY <1>9, <1>t DEF write_if_absent, BackUpPage, SavePage, RestorePage, Past, Typed
    <2>3. QED
      BY <2>1, <2>2, PendingKept
  <1>10. ASSUME NEW p \in Operators, NEW e \in Events, delete_events_by_id(p, e) PROVE Goal
    <2>1. Past(p, e, Idle) /\ job[p].pc = "remove" /\ UNCHANGED archive /\ UNCHANGED again
      BY <1>10 DEF delete_events_by_id, files
    <2>2. /\ \A q \in Operators \ {p} : job'[q] = job[q]
          /\ job[p].todo # {e} => /\ job'[p].cmd = job[p].cmd
                                  /\ job'[p].todo = job[p].todo \ {e} /\ job'[p].copied = job[p].copied \ {e}
      BY <2>1, <1>t, IdleJob, PastJob
    <2>3. Live(e)' = "absent"
      <3>1. CASE e \in Stored
        BY <1>10, <1>t, <3>1, CommitLive DEF delete_events_by_id, Row
      <3>2. CASE e \notin Stored
        BY <1>10, <3>2 DEF delete_events_by_id, Stored, rows, Live
      <3>3. QED
        BY <3>1, <3>2
    <2>4. ASSUME NEW x \in Events \ {e}, Pending(x) PROVE Pending(x)'
      BY <2>1, <2>2, <2>4 DEF Pending
    <2>5. QED
      BY <2>1, <2>3, <2>4 DEF CopyTurn
  <1>11. CASE \E p \in Operators :
                 \/ Import(p) \/ Prune(p) \/ Archive(p) \/ Select(p) \/ Migrate(p) \/ Open(p) \/ Kill(p)
    BY <1>3, <1>4, <1>5, <1>6, <1>7, <1>11
  <1>12. CASE \E p \in Operators, e \in Events :
                 \/ write_if_absent(p, e) \/ delete_events_by_id(p, e)
                 \/ BackUpPage(p, e) \/ SavePage(p, e) \/ RestorePage(p, e)
    BY <1>9, <1>10, <1>12
  <1>13. QED
    BY <1>1, <1>2, <1>8, <1>11, <1>12, Zenon DEF Next

LEMMA CopiesStep == MaintenanceInv /\ CopiesInv /\ [Next]_vars => CopiesInv'
  <1> SUFFICES ASSUME MaintenanceInv, CopiesInv, [Next]_vars, NEW e \in Events \ again'
               PROVE  /\ archive'[e] <= arrived'[e]
                      /\ Live(e)' # "absent" /\ ~Pending(e)' => archive'[e] + 1 <= arrived'[e]
    BY DEF CopiesInv
  <1>1. /\ RowTurn(e) /\ CopyTurn(e)
        /\ archive[e] \in Nat /\ arrived[e] \in Nat /\ archive'[e] \in Nat /\ arrived'[e] \in Nat
    BY TurnStep, CopyStep, ShapeStep DEF MaintenanceInv, Turn, Shape, Typed
  <1>2. /\ archive[e] <= arrived[e]
        /\ Live(e) # "absent" /\ ~Pending(e) => archive[e] + 1 <= arrived[e]
    BY <1>1 DEF CopyTurn, CopiesInv
  <1>3. CASE ComesIn(e)
    BY <1>1, <1>2, <1>3 DEF ComesIn, CopyTurn
  <1>4. CASE Untouched(e) /\ (Live(e) = "absent" => Live(e)' = "absent")
    BY <1>1, <1>2, <1>4 DEF Untouched, CopyTurn
  <1>5. QED
    BY <1>1, <1>3, <1>4 DEF RowTurn, IsRemoved, IsReverted

(* The archive never holds more copies of an event than the event came in, *)
(* unless an archive was killed, or overlapped with another, between its   *)
(* copy and its removals.                                                  *)
THEOREM CopiesAreCounted == Spec => []ArchiveCopies
  <1>1. Init => CopiesInv
    BY DEF Init, CopiesInv, Live
  <1>2. MaintenanceInv /\ CopiesInv => ArchiveCopies
    BY DEF CopiesInv, ArchiveCopies
  <1>3. QED
    BY <1>1, <1>2, CopiesStep, InvariantHolds, PTL DEF Spec

(***************************************************************************)
(* Backups.  One copy is made at a time.  As long as nothing has disturbed *)
(* it, the file is what the database was when it began, and so is what has *)
(* been copied of it.                                                      *)
(***************************************************************************)
Snapshots == [rows : [Events -> Row], sure : BOOLEAN, done : BOOLEAN, snap : [Events -> Row]]

CopyOnly == \A p \in Operators : job[p].pc = "copy" <=> job[p].cmd = "backup"

OneCopies == \A p, q \in Operators : job[p].cmd = "backup" /\ job[q].cmd = "backup" => p = q

Underway ==
  \A p \in Operators : job[p].cmd = "backup" =>
    /\ backup.done = FALSE
    /\ backup.sure = TRUE => \A e \in Events :
         /\ file[e] = backup.snap[e]
         /\ e \notin job[p].todo => backup.rows[e] = backup.snap[e]

Finished == backup.done = TRUE /\ backup.sure = TRUE => backup.rows = backup.snap

CopyInv == backup \in Snapshots /\ CopyOnly /\ OneCopies /\ Underway /\ Finished

LEMMA NoBackupTyped ==
  NoBackup \in Snapshots /\ NoBackup.done = FALSE /\ NoBackup.rows = [e \in Events |-> "absent"]
  BY DEF NoBackup, Snapshots, Row

LEMMA CopyInit == Init => CopyInv
  <1> SUFFICES ASSUME Init PROVE CopyInv
    OBVIOUS
  <1>1. backup = NoBackup /\ \A p \in Operators : job[p].pc = "idle" /\ job[p].cmd = "none"
    BY IdleJob DEF Init
  <1>2. QED
    BY <1>1, NoBackupTyped DEF CopyInv, CopyOnly, OneCopies, Underway, Finished

\* Backups stay where they are, and other commands do not become one.
Beside == CopyOnly' /\ \A q \in Operators : job'[q].cmd = "backup" => job'[q] = job[q]

LEMMA BesideOne ==
  ASSUME Typed, CopyOnly, NEW p \in Operators, NEW r \in Jobs, job' = [job EXCEPT ![p] = r],
         r.cmd # "backup", r.pc # "copy"
  PROVE  Beside
  BY DEF Typed, CopyOnly, Beside

LEMMA BesideBegin ==
  ASSUME Typed, CopyOnly, NEW p \in Operators, NEW cmd, NEW pc, NEW todo, Begin(p, cmd, pc, todo),
         cmd # "backup", pc # "copy"
  PROVE  Beside
  BY DEF Typed, CopyOnly, Beside, Begin, Idle

LEMMA BesidePast ==
  ASSUME Typed, CopyOnly, NEW p \in Operators, NEW e \in Events, NEW next \in Jobs, Past(p, e, next),
         job[p].pc # "copy", next.pc # "copy", next.cmd # "backup"
  PROVE  Beside
  BY PastJob DEF CopyOnly, Beside

LEMMA BesideSame == CopyOnly /\ UNCHANGED job => Beside
  BY DEF CopyOnly, Beside

\* A step that leaves the file alone, or is noted where a copy is under way.
LEMMA CopyBeside ==
  ASSUME CopyInv, Beside, (UNCHANGED <<backup, file>>) \/ Disturb
  PROVE  CopyInv'
  <1>1. OneCopies'
    BY DEF CopyInv, Beside, OneCopies
  <1>2. CASE UNCHANGED <<backup, file>>
    BY <1>1, <1>2 DEF CopyInv, Beside, Underway, Finished
  <1>3. CASE Disturb
    <2>1. /\ backup' \in Snapshots /\ backup'.rows = backup.rows /\ backup'.snap = backup.snap
          /\ backup'.done = backup.done
          /\ backup'.sure = TRUE => backup.sure = TRUE /\ \A p \in Operators : job[p].cmd # "backup"
      BY <1>3 DEF Disturb, CopyInv, Snapshots
    <2>2. \A p \in Operators : job'[p].cmd = "backup" => job[p].cmd = "backup"
      BY DEF Beside
    <2>3. Underway'
      BY <2>1, <2>2 DEF CopyInv, Underway
    <2>4. Finished'
      BY <2>1 DEF CopyInv, Finished
    <2>5. QED
      BY <1>1, <2>1, <2>3, <2>4 DEF CopyInv, Beside
  <1>4. QED
    BY <1>2, <1>3

\* A copy begins: it is sure if the file is now the database.
LEMMA CopyBegins ==
  ASSUME Typed, CopyInv, NEW p \in Operators, NEW force \in BOOLEAN, BackUp(p, force)
  PROVE  CopyInv'
  <1>1. PICK blocked \in BOOLEAN :
          /\ IF blocked THEN UNCHANGED rows ELSE Flushed
          /\ backup' = [NoBackup EXCEPT !.sure = ~blocked, !.snap = [e \in Events |-> Live(e)]]
    BY DEF BackUp
  <1>2. /\ job'[p].cmd = "backup" /\ job'[p].pc = "copy" /\ job'[p].todo = Events
        /\ \A q \in Operators \ {p} : job'[q] = job[q] /\ job[q].cmd # "backup"
    BY DEF BackUp, Begin, Alone, Idle, Typed
  <1>3. \A e \in Events : Live(e) \in Row
    BY LiveTyped
  <1>4. /\ backup' \in Snapshots /\ backup'.done = FALSE /\ (backup'.sure = TRUE => blocked = FALSE)
        /\ \A e \in Events : backup'.snap[e] = Live(e)
    BY <1>1, <1>3, NoBackupTyped DEF Snapshots
  <1>5. backup'.sure = TRUE => \A e \in Events : file'[e] = backup'.snap[e]
    BY <1>1, <1>4 DEF Flushed
  <1>6. CopyOnly' /\ OneCopies'
    BY <1>2 DEF CopyInv, CopyOnly, OneCopies
  <1>7. Underway'
    BY <1>2, <1>4, <1>5 DEF Underway
  <1>8. QED
    BY <1>4, <1>6, <1>7 DEF CopyInv, Finished

\* A page is copied, perhaps the last.
LEMMA CopyPage ==
  ASSUME Typed, CopyInv, NEW p \in Operators, NEW e \in Events, BackUpPage(p, e)
  PROVE  CopyInv'
  <1>1. /\ job[p].pc = "copy" /\ job[p].cmd = "backup" /\ e \in job[p].todo /\ Past(p, e, Idle)
        /\ backup' = [backup EXCEPT !.rows[e] = file[e], !.done = job[p].todo = {e}]
        /\ UNCHANGED file
    BY DEF BackUpPage, CopyInv, CopyOnly, rows
  <1>2. /\ \A q \in Operators \ {p} : job'[q] = job[q] /\ job[q].cmd # "backup"
        /\ IF job[p].todo = {e} THEN job'[p] = Idle
           ELSE job'[p].pc = "copy" /\ job'[p].cmd = "backup" /\ job'[p].todo = job[p].todo \ {e}
    BY <1>1, IdleJob, PastJob DEF CopyInv, OneCopies
  <1>3. file[e] \in Row
    BY DEF Typed
  <1>4. /\ backup' \in Snapshots /\ backup'.snap = backup.snap /\ backup'.sure = backup.sure
        /\ backup'.done = (job[p].todo = {e})
        /\ \A x \in Events : backup'.rows[x] = IF x = e THEN file[e] ELSE backup.rows[x]
    <2> DEFINE last == job[p].todo = {e}
    <2>1. last \in BOOLEAN
      OBVIOUS
    <2>2. backup' = [backup EXCEPT !.rows = [backup.rows EXCEPT ![e] = file[e]], !.done = last]
      BY <1>1 DEF CopyInv, Snapshots
    <2> HIDE DEF last
    <2>3. /\ backup' \in Snapshots /\ backup'.snap = backup.snap /\ backup'.sure = backup.sure
          /\ backup'.done = last /\ backup'.rows = [backup.rows EXCEPT ![e] = file[e]]
      BY <1>3, <2>1, <2>2 DEF CopyInv, Snapshots
    <2>4. \A x \in Events : backup'.rows[x] = IF x = e THEN file[e] ELSE backup.rows[x]
      BY <2>3 DEF CopyInv, Snapshots
    <2>5. QED
      BY <2>3, <2>4 DEF last
  <1>5. CopyOnly' /\ OneCopies'
    BY <1>2, IdleJob DEF CopyInv, CopyOnly, OneCopies
  <1>6. backup.sure = TRUE => \A x \in Events :
          file[x] = backup.snap[x] /\ (x \notin job[p].todo \ {e} => backup'.rows[x] = backup.snap[x])
    BY <1>1, <1>4 DEF CopyInv, Underway
  <1>7. CASE job[p].todo = {e}
    <2>1. \A q \in Operators : job'[q].cmd # "backup"
      BY <1>2, <1>7, IdleJob
    <2>2. backup.sure = TRUE => \A x \in Events : backup'.rows[x] = backup'.snap[x]
      BY <1>4, <1>6, <1>7
    <2>3. backup'.rows \in [Events -> Row] /\ backup'.snap \in [Events -> Row]
      BY <1>4 DEF Snapshots
    <2>4. Finished'
      BY <1>4, <2>2, <2>3 DEF Finished
    <2>5. QED
      BY <1>4, <1>5, <2>1, <2>4 DEF CopyInv, Underway
  <1>8. CASE job[p].todo # {e}
    <2>1. backup'.done = FALSE
      BY <1>4, <1>8
    <2>2. Underway'
      BY <1>1, <1>2, <1>4, <1>6, <1>8, <2>1 DEF Underway
    <2>3. QED
      BY <1>4, <1>5, <2>1, <2>2 DEF CopyInv, Finished
  <1>9. QED
    BY <1>7, <1>8

LEMMA CopyPreserved == Shape /\ CopyInv /\ [Next]_vars => CopyInv'
  <1> SUFFICES ASSUME Shape, CopyInv, [Next]_vars PROVE CopyInv'
    OBVIOUS
  <1>t. Typed /\ CopyOnly
    BY DEF Shape, CopyInv
  <1>1. CASE Checkpoint \/ Vacuum
    BY <1>1, <1>t, BesideSame, CopyBeside DEF Checkpoint, Vacuum
  <1>2. CASE Export \/ UNCHANGED vars
    BY <1>2, <1>t, BesideSame, CopyBeside DEF Export, vars, rows, files
  <1>3. ASSUME NEW e \in Events, Capture(e) \/ mark_resolved(e) PROVE CopyInv'
    <2>1. UNCHANGED <<backup, file>> /\ UNCHANGED job
      BY <1>3 DEF Capture, mark_resolved, Arrive, Commit, files
    <2>2. QED
      BY <1>t, <2>1, BesideSame, CopyBeside
  <1>4. ASSUME NEW p \in Operators, Import(p) \/ Prune(p) \/ Migrate(p) PROVE CopyInv'
    <2>1. UNCHANGED <<backup, file>>
      BY <1>4 DEF Import, Prune, Migrate, rows, files
    <2>2. Beside
      BY <1>4, <1>t, BesideBegin DEF Import, Prune, Migrate
    <2>3. QED
      BY <2>1, <2>2, CopyBeside
  <1>5. ASSUME NEW p \in Operators, Archive(p) \/ Select(p) \/ Kill(p) PROVE CopyInv'
    <2>1. UNCHANGED <<backup, file>>
      BY <1>5 DEF Archive, Select, Kill, rows, files
    <2>2. Beside
      <3>1. CASE Archive(p)
        <4> DEFINE r == [Idle EXCEPT !.cmd = "archive", !.pc = "select", !.copied = Old \cap Stored]
        <4>1. r \in Jobs /\ r.cmd = "archive" /\ r.pc = "select" /\ job' = [job EXCEPT ![p] = r]
          BY <3>1 DEF Archive, Idle, Jobs
        <4> HIDE DEF r
        <4> QED
          BY <1>t, <4>1, BesideOne
      <3>2. CASE Select(p)
        <4> DEFINE r == IF Old \cap Stored = {} THEN Idle
                        ELSE [job[p] EXCEPT !.pc = "remove", !.todo = Old \cap Stored]
        <4>1. /\ r \in Jobs /\ r.cmd # "backup" /\ r.pc # "copy"
              /\ job' = [job EXCEPT ![p] = r]
          BY <3>2, <1>t, IdleJob, MaintenanceAssumption DEF Select, Typed, Jobs, CopyOnly
        <4> HIDE DEF r
        <4> QED
          BY <1>t, <4>1, BesideOne
      <3>3. CASE Kill(p)
        BY <3>3, <1>t, IdleJob, BesideOne DEF Kill
      <3> QED
        BY <1>5, <3>1, <3>2, <3>3
    <2>3. QED
      BY <2>1, <2>2, CopyBeside
  <1>6. ASSUME NEW p \in Operators, Open(p) PROVE CopyInv'
    <2>1. UNCHANGED <<backup, file>>
      BY <1>6 DEF Open, rows, files
    <2>2. Beside
      <3>1. job[p].pc = "open" /\ job[p] \in Jobs /\ job[p].cmd # "backup"
        BY <1>6, <1>t DEF Open, Typed, CopyOnly
      <3>2. CASE job' = [job EXCEPT ![p] = Idle]
        BY <3>2, <1>t, IdleJob, BesideOne
      <3>3. CASE job' = [job EXCEPT ![p].pc = "restore", ![p].todo = Events]
        <4> DEFINE r == [job[p] EXCEPT !.pc = "restore", !.todo = Events]
        <4>1. r \in Jobs /\ r.cmd # "backup" /\ r.pc # "copy"
          BY <3>1 DEF Jobs
        <4>2. job' = [job EXCEPT ![p] = r]
          BY <3>3, <1>t DEF Typed, Jobs
        <4> HIDE DEF r
        <4> QED
          BY <1>t, <4>1, <4>2, BesideOne
      <3> QED
        BY <1>6, <3>2, <3>3 DEF Open
    <2>3. QED
      BY <2>1, <2>2, CopyBeside
  <1>7. ASSUME NEW p \in Operators, NEW force \in BOOLEAN, BackUp(p, force) PROVE CopyInv'
    BY <1>7, <1>t, CopyBegins
  <1>8. ASSUME NEW p \in Operators, NEW S \in SUBSET Events, NEW force \in BOOLEAN, Delete(p, S, force)
        PROVE  CopyInv'
    <2>1. UNCHANGED <<backup, file>>
      BY <1>8 DEF Delete, rows, files
    <2>2. Beside
      BY <1>8, <1>t, BesideBegin DEF Delete
    <2>3. QED
      BY <2>1, <2>2, CopyBeside
  <1>9. ASSUME NEW p \in Operators, NEW e \in Events, write_if_absent(p, e) \/ delete_events_by_id(p, e)
        PROVE  CopyInv'
    <2>1. UNCHANGED <<backup, file>>
      BY <1>9 DEF write_if_absent, delete_events_by_id, Arrive, Commit, rows, files
    <2>2. Past(p, e, Idle) /\ job[p].pc # "copy"
      BY <1>9 DEF write_if_absent, delete_events_by_id
    <2>3. Beside
      BY <1>t, <2>2, IdleJob, BesidePast
    <2>4. QED
      BY <2>1, <2>3, CopyBeside
  <1>10. ASSUME NEW p \in Operators, NEW e \in Events, BackUpPage(p, e) PROVE CopyInv'
    BY <1>10, <1>t, CopyPage
  <1>11. ASSUME NEW p \in Operators, NEW e \in Events, SavePage(p, e) PROVE CopyInv'
    <2> DEFINE next == [Idle EXCEPT !.cmd = "migrate", !.pc = "open"]
    <2>1. UNCHANGED <<backup, file>> /\ Past(p, e, next) /\ job[p].pc # "copy"
      BY <1>11 DEF SavePage, rows
    <2>2. next \in Jobs /\ next.pc = "open" /\ next.cmd = "migrate"
      BY DEF Idle, Jobs
    <2> HIDE DEF next
    <2>3. Beside
      BY <1>t, <2>1, <2>2, BesidePast
    <2>4. QED
      BY <2>1, <2>3, CopyBeside
  <1>12. ASSUME NEW p \in Operators, NEW e \in Events, RestorePage(p, e) PROVE CopyInv'
    <2>1. Disturb /\ Past(p, e, Idle) /\ job[p].pc # "copy"
      BY <1>12 DEF RestorePage
    <2>2. Beside
      BY <1>t, <2>1, IdleJob, BesidePast
    <2>3. QED
      BY <2>1, <2>2, CopyBeside
  <1>13. CASE \E p \in Operators :
                 \/ Import(p) \/ Prune(p) \/ Archive(p) \/ Select(p) \/ Migrate(p) \/ Open(p) \/ Kill(p)
    BY <1>4, <1>5, <1>6, <1>13
  <1>14. CASE \E p \in Operators, force \in BOOLEAN :
                 BackUp(p, force) \/ \E S \in SUBSET Events : Delete(p, S, force)
    BY <1>7, <1>8, <1>14, Zenon
  <1>15. CASE \E p \in Operators, e \in Events :
                 \/ write_if_absent(p, e) \/ delete_events_by_id(p, e)
                 \/ BackUpPage(p, e) \/ SavePage(p, e) \/ RestorePage(p, e)
    BY <1>9, <1>10, <1>11, <1>12, <1>15
  <1>16. CASE \E e \in Events : Capture(e) \/ mark_resolved(e)
    BY <1>3, <1>16
  <1>17. QED
    BY <1>1, <1>2, <1>13, <1>14, <1>15, <1>16, Zenon DEF Next

(***************************************************************************)
(* A finished backup whose checkpoint was not blocked, and during which    *)
(* none ran, is the database of the moment it began (cmd_backup).          *)
(***************************************************************************)
THEOREM BackupsAreConsistent == Spec => []BackupConsistent
  <1>1. Init => Shape /\ CopyInv
    BY ShapeInit, CopyInit
  <1>2. Shape /\ CopyInv /\ [Next]_vars => (Shape /\ CopyInv)'
    BY ShapeStep, CopyPreserved
  <1>3. Shape /\ CopyInv => BackupConsistent
    BY DEF CopyInv, Finished, Snapshots, BackupConsistent
  <1> QED
    BY <1>1, <1>2, <1>3, PTL DEF Spec
=============================================================================
