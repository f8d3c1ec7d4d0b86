------------------------------ MODULE Provider ------------------------------
(***************************************************************************)
(* The process-wide logger: a configuration behind one lock and a buffer   *)
(* behind another.  The program has it twice, with separate state, and the *)
(* initial state chooses between them:                                     *)
(*   "ambient"  witslog-runtime lib.rs: arm, capture, flush, Guard, and    *)
(*              the panic hook, which captures on the thread that panics;  *)
(*   "abi"      witslog-ffi lib.rs: witslog_configure, witslog_log and     *)
(*              witslog_flush.                                             *)
(*                                                                         *)
(* A capture copies the configuration, and only then takes the buffer's    *)
(* lock; arm and configure replace the configuration, and only then take   *)
(* the buffer's lock to drop the buffer; whoever drops it joins its flush  *)
(* thread with the lock held.  What a capture does with the lock held is   *)
(* one step: nothing else looks at the buffer without the lock but the     *)
(* flush thread, which only takes from the queue.  The two attempts of     *)
(* flush_batch, and the size of its batches, are those of AsyncBuffer.     *)
(***************************************************************************)
EXTENDS Naturals, Sequences, FiniteSets

CONSTANTS
  Threads,        \* the application's threads
  FlushThread,    \* the flush thread of the buffer there is
  NoEvent,
  Events,         \* each is captured at most once
  Databases,
  InitialConfig,  \* what the process was mounted with
  Surfaces,       \* which of the two
  Arms,           \* the configurations arm is given
  Changes,        \* what configure is given: the settings present in its JSON
  Capacity,       \* the queue's
  MaxCalls        \* bound: calls of arm, configure and flush

ASSUME NamesAssumption == FlushThread \notin Threads /\ NoEvent \notin Events

(***************************************************************************)
(* db: where the events go; buffered: [buffer] enabled; sealed: whether a  *)
(* crypto key is configured.  configure has no setting for the database.   *)
(***************************************************************************)
Settings == {"db", "buffered", "sealed"}
Config == [db : Databases, buffered : BOOLEAN, sealed : BOOLEAN]

ASSUME ConfigAssumption ==
  /\ InitialConfig \in Config /\ Arms \subseteq Config
  /\ \A c \in Changes : DOMAIN c \subseteq {"buffered", "sealed"} /\ \A s \in DOMAIN c : c[s] \in BOOLEAN
  /\ Surfaces \subseteq {"ambient", "abi"}
  /\ Capacity \in Nat \ {0} /\ MaxCalls \in Nat

VARIABLES
  surface,   \* "ambient" or "abi"
  config,    \* RUNTIME, RUNTIME_CONFIG
  buffer,    \* BUFFER: a sequence of at most one buffer, see Fresh
  job,       \* per thread, the call it is in
  stored,    \* per database, the events written to it
  dropped,   \* events counted as dropped
  refused,   \* events whose capture returned None or -1
  torn,      \* history: those of them that were stored nevertheless
  abandoned, \* history: events a buffer still held when its thread ended
  sealed,    \* history: the events encrypted by their capture
  wanted,    \* history: every setting as it was asked for last
  asked,     \* history: the configurations a capture may meet now
  met,       \* history: per event captured, those that held during its capture
  placed,    \* history: per event, the database of the buffer or write it got
  late,      \* history: events enqueued while the flush thread was leaving
  settled,   \* history: events captured before a flush, arm or configure that dropped the buffer and returned
  stale,     \* history: a buffer was made for a database since replaced
  lost,      \* history: a configure wrote over the change of another
  calls      \* history: calls of arm, configure and flush

observed == <<stored, dropped, refused, torn, abandoned>>
fates == <<sealed, met, placed>>
goals == <<wanted, asked>>
marks == <<stale, lost, late>>
vars == <<surface, config, buffer, job, observed, fates, goals, marks, settled, calls>>

Callers == Threads \cup {FlushThread}

Idle == [pc |-> "idle", event |-> NoEvent, snap |-> InitialConfig,
         change |-> [s \in {} |-> TRUE], before |-> {}]

\* The pc of a call.  enqueue: waiting for the buffer's lock; clear: the same, to drop the buffer;
\* join: the lock is held, and the flush thread joined.

\* batch: what the flush thread has in hand; leaving: it is about to look at
\* the shutdown flag.
Fresh(d) == [db |-> d, queue |-> <<>>, batch |-> {}, leaving |-> FALSE]

HasBuffer == buffer # <<>>
Entries(q) == {q[i] : i \in 1..Len(q)}
Stored == UNION {stored[d] : d \in Databases}
Held == IF HasBuffer THEN Entries(buffer[1].queue) \cup buffer[1].batch ELSE {}
Captured == {e \in Events : met[e] # {}}
InCapture == {job[t].event : t \in Callers} \ {NoEvent}
Locked == \E t \in Threads : job[t].pc = "join"

Init ==
  /\ surface \in Surfaces
  /\ config = InitialConfig
  /\ buffer = <<>>
  /\ job = [t \in Callers |-> Idle]
  /\ stored = [d \in Databases |-> {}]
  /\ dropped = {} /\ refused = {} /\ torn = {} /\ abandoned = {}
  /\ sealed = {}
  /\ wanted = InitialConfig
  /\ asked = {InitialConfig}
  /\ met = [e \in Events |-> {}]
  /\ placed = [e \in Events |-> {}]
  /\ late = {} /\ settled = {} /\ stale = FALSE /\ lost = FALSE /\ calls = 0

-----------------------------------------------------------------------------
(* Captures.                                                               *)

Goto(t, pc) == job' = [job EXCEPT ![t].pc = pc]
Return(t) == job' = [job EXCEPT ![t] = Idle]

\* The copy of the configuration, and the key looked up: without the key that
\* is configured the event is refused.
Snapshot(t, e, forceSync) ==
  /\ job[t].pc = "idle"
  /\ e \notin Captured
  /\ met' = [met EXCEPT ![e] = asked]
  /\ \/ /\ job' = [job EXCEPT ![t] =
                     [Idle EXCEPT !.event = e, !.snap = config,
                       !.pc = IF config.buffered /\ ~forceSync THEN "enqueue" ELSE "write"]]
        /\ sealed' = IF config.sealed THEN sealed \cup {e} ELSE sealed
        /\ UNCHANGED refused
     \/ /\ config.sealed
        /\ refused' = refused \cup {e}
        /\ UNCHANGED <<job, sealed>>
  /\ UNCHANGED <<surface, config, buffer, stored, dropped, torn, abandoned, placed, goals, marks, settled, calls>>

\* capture, witslog_log.
Capture(t) == \E e \in Events : Snapshot(t, e, FALSE)

\* Store::open_or_create fails, or the INSERT of the unbuffered write.
Refuse(t) ==
  /\ \/ job[t].pc = "enqueue" /\ ~HasBuffer
     \/ job[t].pc = "write"
  /\ refused' = refused \cup {job[t].event}
  /\ Return(t)
  /\ UNCHANGED <<surface, config, buffer, stored, dropped, torn, abandoned, fates, goals, marks, settled, calls>>

\* The buffer, made from the capture's own copy of the configuration if there
\* is none.
BufferFor(t) == IF HasBuffer THEN buffer[1] ELSE Fresh(job[t].snap.db)

\* What an enqueue does whether or not there is room.
Handed(t) ==
  /\ placed' = [placed EXCEPT ![job[t].event] = {BufferFor(t).db}]
  /\ IF ~HasBuffer /\ job[t].snap.db # config.db THEN stale' = TRUE ELSE UNCHANGED stale
  /\ IF BufferFor(t).leaving THEN late' = late \cup {job[t].event} ELSE UNCHANGED late
  /\ Return(t)
  /\ UNCHANGED <<surface, config, stored, refused, torn, abandoned, sealed, met, goals, lost, settled, calls>>

\* Mutant: the error of try_send is ignored.
Enqueue_Uncounted(t) ==
  LET into == BufferFor(t) IN
  /\ job[t].pc = "enqueue"
  /\ ~Locked
  /\ buffer' = IF Len(into.queue) < Capacity
               THEN <<[into EXCEPT !.queue = Append(@, job[t].event)]>> ELSE <<into>>
  /\ UNCHANGED dropped
  /\ Handed(t)

Enqueue(t) ==
  LET into == BufferFor(t) IN
  /\ job[t].pc = "enqueue"
  /\ ~Locked
  /\ IF Len(into.queue) < Capacity
     THEN /\ buffer' = <<[into EXCEPT !.queue = Append(@, job[t].event)]>>
          /\ UNCHANGED dropped
     ELSE /\ buffer' = <<into>>
          /\ dropped' = dropped \cup {job[t].event}
  /\ Handed(t)

\* The unbuffered write, and the panic hook's.  It is several statements in
\* autocommit: if one after the INSERT fails, the row stays and the capture
\* returns None or -1.
WriteNow(t) ==
  LET e == job[t].event
      d == job[t].snap.db
  IN
  /\ job[t].pc = "write"
  /\ stored' = [stored EXCEPT ![d] = @ \cup {e}]
  /\ placed' = [placed EXCEPT ![e] = {d}]
  /\ \/ UNCHANGED <<refused, torn>>
     \/ refused' = refused \cup {e} /\ torn' = torn \cup {e}
  /\ Return(t)
  /\ UNCHANGED <<surface, config, buffer, dropped, abandoned, sealed, met, goals, marks, settled, calls>>

-----------------------------------------------------------------------------
(* The flush thread of the buffer (see AsyncBuffer).                       *)

Flushing == HasBuffer /\ job[FlushThread].pc = "idle" /\ ~buffer[1].leaving

Receive ==
  /\ Flushing
  /\ buffer[1].queue # <<>>
  /\ buffer' = <<[buffer[1] EXCEPT !.batch = @ \cup {Head(buffer[1].queue)}, !.queue = Tail(@)]>>
  /\ UNCHANGED <<surface, config, job, observed, fates, goals, marks, settled, calls>>

\* flush_batch, of a full batch or after a timeout: written, or given up.
FlushBatch ==
  LET batch == buffer[1].batch IN
  /\ Flushing
  /\ batch # {}
  /\ buffer' = <<[buffer[1] EXCEPT !.batch = {}]>>
  /\ \/ /\ stored' = [stored EXCEPT ![buffer[1].db] = @ \cup batch]
        /\ UNCHANGED dropped
     \/ /\ dropped' = dropped \cup batch
        /\ UNCHANGED stored
  /\ UNCHANGED <<surface, config, job, refused, torn, abandoned, fates, goals, marks, settled, calls>>

\* Mutant: the hook captures like any other code.
SinkPanics_Buffered ==
  /\ surface = "ambient"
  /\ Flushing /\ buffer[1].batch # {}
  /\ \E e \in Events : Snapshot(FlushThread, e, FALSE)

\* A panic in the sink: the hook installed by arm runs on the flush thread
\* (capture_sync), and the attempt has failed.
SinkPanics ==
  /\ surface = "ambient"
  /\ Flushing /\ buffer[1].batch # {}
  /\ \E e \in Events : Snapshot(FlushThread, e, TRUE)

\* recv_timeout has found nothing, and the batch has been flushed.
TimeOut ==
  /\ Flushing
  /\ buffer[1].queue = <<>> /\ buffer[1].batch = {}
  /\ buffer' = <<[buffer[1] EXCEPT !.leaving = TRUE]>>
  /\ UNCHANGED <<surface, config, job, observed, fates, goals, marks, settled, calls>>

\* The shutdown flag is not up.
NoShutdown ==
  /\ HasBuffer /\ buffer[1].leaving
  /\ ~Locked
  /\ buffer' = <<[buffer[1] EXCEPT !.leaving = FALSE]>>
  /\ UNCHANGED <<surface, config, job, observed, fates, goals, marks, settled, calls>>

-----------------------------------------------------------------------------
(* arm, configure and flush.                                               *)

Call(t) ==
  /\ job[t].pc = "idle"
  /\ calls < MaxCalls
  /\ calls' = calls + 1

\* The configuration becomes `new', which was meant to make it `goal'.
Install(new, goal) ==
  /\ config' = new
  /\ wanted' = goal
  /\ asked' = asked \cup {goal}
  /\ met' = [e \in Events |-> IF e \in InCapture THEN met[e] \cup {goal} ELSE met[e]]

\* arm: the whole runtime is replaced.
Arm(t) ==
  /\ surface = "ambient"
  /\ Call(t)
  /\ \E c \in Arms : Install(c, c)
  /\ job' = [job EXCEPT ![t] = [Idle EXCEPT !.pc = "clear", !.before = Held]]
  /\ UNCHANGED <<surface, buffer, observed, sealed, placed, marks, settled>>

\* witslog_configure: the configuration is copied, to be changed ...
Copy(t) ==
  /\ surface = "abi"
  /\ Call(t)
  /\ \E c \in Changes :
       job' = [job EXCEPT ![t] = [Idle EXCEPT !.pc = "copied", !.snap = config,
                                              !.change = c, !.before = Held]]
  /\ UNCHANGED <<surface, config, buffer, observed, fates, goals, marks, settled>>

Changed(old, c) == [s \in Settings |-> IF s \in DOMAIN c THEN c[s] ELSE old[s]]

\* Mutant: what the call does not mention falls back to the default.
WriteBack_FromDefault(t) ==
  /\ job[t].pc = "copied"
  /\ Install(Changed(InitialConfig, job[t].change), Changed(wanted, job[t].change))
  /\ IF config # job[t].snap THEN lost' = TRUE ELSE UNCHANGED lost
  /\ Goto(t, "clear")
  /\ UNCHANGED <<surface, buffer, observed, sealed, placed, stale, late, settled, calls>>

\* ... and written back.
WriteBack(t) ==
  /\ job[t].pc = "copied"
  /\ Install(Changed(job[t].snap, job[t].change), Changed(wanted, job[t].change))
  /\ IF config # job[t].snap THEN lost' = TRUE ELSE UNCHANGED lost
  /\ Goto(t, "clear")
  /\ UNCHANGED <<surface, buffer, observed, sealed, placed, stale, late, settled, calls>>

\* ... or not: a custom pattern does not compile, and the call returns -2 with
\* the configuration and the buffer as they were.
Rejected(t) ==
  /\ job[t].pc = "copied"
  /\ Return(t)
  /\ UNCHANGED <<surface, config, buffer, observed, fates, goals, marks, settled, calls>>

\* flush, witslog_flush, Drop for Guard.
Flush(t) ==
  /\ Call(t)
  /\ job' = [job EXCEPT ![t] = [Idle EXCEPT !.pc = "clear", !.before = Held]]
  /\ UNCHANGED <<surface, config, buffer, observed, fates, goals, marks, settled>>

\* The call returns: with no other under way, what it replaced no longer holds.
Done(t) ==
  /\ Return(t)
  /\ settled' = settled \cup job[t].before
  /\ asked' = IF \A u \in Threads \ {t} : job[u].pc \notin {"clear", "join"}
              THEN {wanted} ELSE asked

\* Mutant: try_lock, and nothing if the buffer is in use.
Clear_TryLock(t) ==
  /\ job[t].pc = "clear"
  /\ IF HasBuffer /\ ~Locked
     THEN Goto(t, "join") /\ UNCHANGED <<asked, settled>>
     ELSE Done(t)
  /\ UNCHANGED <<surface, config, buffer, observed, fates, wanted, marks, calls>>

\* Mutant: a buffer that is empty is kept.
Clear_EmptyKept(t) ==
  /\ job[t].pc = "clear"
  /\ ~Locked
  /\ IF Held # {}
     THEN Goto(t, "join") /\ UNCHANGED <<asked, settled>>
     ELSE Done(t)
  /\ UNCHANGED <<surface, config, buffer, observed, fates, wanted, marks, calls>>

\* *BUFFER.lock() = None: Drop for AsyncBuffer raises the flag and joins.
Clear(t) ==
  /\ job[t].pc = "clear"
  /\ ~Locked
  /\ IF HasBuffer
     THEN Goto(t, "join") /\ UNCHANGED <<asked, settled>>
     ELSE Done(t)
  /\ UNCHANGED <<surface, config, buffer, observed, fates, wanted, marks, calls>>

\* The flush thread sees the flag and ends; the lock is given back.
Join(t) ==
  /\ job[t].pc = "join"
  /\ buffer[1].leaving
  /\ abandoned' = abandoned \cup Held
  /\ buffer' = <<>>
  /\ Done(t)
  /\ UNCHANGED <<surface, config, stored, dropped, refused, torn, fates, wanted, marks, calls>>

-----------------------------------------------------------------------------
CaptureStep(t) == Refuse(t) \/ Enqueue(t) \/ WriteNow(t)
CallStep(t) == WriteBack(t) \/ Rejected(t) \/ Clear(t) \/ Join(t)
FlushStep == Receive \/ FlushBatch \/ TimeOut \/ NoShutdown

Next ==
  \/ \E t \in Threads :
       Capture(t) \/ Arm(t) \/ Copy(t) \/ Flush(t) \/ CallStep(t)
  \/ \E t \in Callers : CaptureStep(t)
  \/ FlushStep
  \/ SinkPanics

Spec == Init /\ [][Next]_vars

(***************************************************************************)
(* A thread in a call goes on, and so does the flush thread.  Nothing is   *)
(* assumed of the application's calls, or of the sink's panics.            *)
(***************************************************************************)
Fairness ==
  /\ \A t \in Threads : WF_vars(CaptureStep(t) \/ CallStep(t))
  /\ WF_vars(CaptureStep(FlushThread))
  /\ WF_vars(FlushStep)
LiveSpec == Spec /\ Fairness

-----------------------------------------------------------------------------
(***************************************************************************)
(* Whatever becomes of the buffer it was given to, a captured event has    *)
(* one fate: under way, refused to its caller, held by a buffer, written   *)
(* to one database, counted as dropped, or left to a thread that ended.    *)
(* One whose unbuffered write failed behind its INSERT is written, though  *)
(* its caller was told None or -1.                                         *)
(* (write_via_snapshot, enqueue_buffered, arm, flush)                      *)
(***************************************************************************)
Fates(e) ==
  {d \in Databases : e \in stored[d]}
  \cup {f \in {"under way", "refused", "held", "dropped", "abandoned"} :
          CASE f = "under way" -> e \in InCapture
            [] f = "refused"   -> e \in refused \ torn
            [] f = "held"      -> e \in Held
            [] f = "dropped"   -> e \in dropped
            [] f = "abandoned" -> e \in abandoned}

EachEventHasOneFate == \A e \in Captured : Cardinality(Fates(e)) = 1

(***************************************************************************)
(* When a flush, an arm or a configure that dropped the buffer returns,    *)
(* whoever else was dropping or making buffers meanwhile, every event that *)
(* was held when it was called is stored or counted as dropped, but for    *)
(* those enqueued while the flush thread was already leaving: they may be  *)
(* abandoned, stored and counted nowhere.  (flush, Guard, AsyncBuffer)     *)
(***************************************************************************)
FlushSettles ==
  /\ settled \cap Held = {}
  /\ settled \ (Stored \cup dropped) \subseteq abandoned \cap late

(***************************************************************************)
(* An event goes to a database that was asked for at some time during its  *)
(* capture (an arm under way counts as before and after).  (arm)           *)
(***************************************************************************)
EventsFollowConfig == \A e \in Captured : placed[e] \subseteq {c.db : c \in met[e]}

(***************************************************************************)
(* The same as long as no capture made a buffer from a configuration that  *)
(* an arm had replaced since its snapshot.  (arm, enqueue_buffered)        *)
(***************************************************************************)
EventsReachConfigured == ~stale => EventsFollowConfig

(***************************************************************************)
(* Once a call that names a key has returned, metadata is written only     *)
(* encrypted, whatever later calls change other settings, unless one       *)
(* configure wrote over another; and the other way round.                  *)
(* (witslog_configure, witslog_log)                                        *)
(***************************************************************************)
SealedAsAsked ==
  ~lost => \A e \in Captured :
             placed[e] # {} => (e \in sealed) \in {c.sealed : c \in met[e]}

(***************************************************************************)
(* Every call returns: no cycle of waiting between a capture, the thread   *)
(* that drops the buffer with the lock held, and the flush thread it       *)
(* joins, which may itself be in the panic hook.                           *)
(***************************************************************************)
CallsReturn == \A t \in Callers : job[t].pc # "idle" ~> job[t].pc = "idle"
=============================================================================
