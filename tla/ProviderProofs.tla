--------------------------- MODULE ProviderProofs ---------------------------
(***************************************************************************)
(* Theorems about the process-wide logger: about Provider, for any         *)
(* threads, events, databases, arms, changes and calls, and about what its *)
(* captures dispatch (Notify), for any plugins and interval.               *)
(***************************************************************************)
EXTENDS Provider, ThrottledNotifier, Integers, FiniteSetTheorems, TLAPS

NoChange == [s \in {} |-> TRUE]

Pcs == {"idle", "enqueue", "write", "copied", "clear", "join"}
Jobs == [pc : Pcs, event : Events \cup {NoEvent}, snap : Config, change : Changes \cup {NoChange}, before : SUBSET Events]
Buffers == [db : Databases, queue : Seq(Events), batch : SUBSET Events, leaving : BOOLEAN]

BufferTyped == buffer = <<>> \/ \E b \in Buffers : buffer = <<b>>

RestTyped ==
  /\ stored \in [Databases -> SUBSET Events]
  /\ dropped \subseteq Events /\ refused \subseteq Events /\ abandoned \subseteq Events
  /\ met \in [Events -> SUBSET Config] /\ asked \subseteq Config
  /\ placed \in [Events -> SUBSET Databases]

Typed ==
  /\ surface \in {"ambient", "abi"} /\ config \in Config /\ wanted \in Config /\ wanted \in asked
  /\ job \in [Callers -> Jobs] /\ BufferTyped /\ RestTyped

LEMMA IdleFields ==
  /\ Idle \in Jobs /\ Idle.pc = "idle" /\ Idle.event = NoEvent /\ Idle.before = {} /\ Idle.change = NoChange
  BY ConfigAssumption DEF Idle, Jobs, Pcs, NoChange

LEMMA FreshFields ==
  ASSUME NEW d \in Databases
  PROVE  /\ Fresh(d) \in Buffers /\ Fresh(d).db = d /\ Fresh(d).queue = <<>> /\ Fresh(d).batch = {}
  BY DEF Fresh, Buffers

LEMMA ChangedConfig ==
  ASSUME NEW old \in Config, NEW c \in Changes \cup {NoChange}
  PROVE  Changed(old, c) \in Config /\ Changed(old, c).db = old.db
  <1>1. DOMAIN c \subseteq {"buffered", "sealed"} /\ \A s \in DOMAIN c : c[s] \in BOOLEAN
    BY ConfigAssumption DEF NoChange
  <1>2. old.db \in Databases /\ old.buffered \in BOOLEAN /\ old.sealed \in BOOLEAN
    BY DEF Config
  <1>3. \A s \in Settings : Changed(old, c)[s] = IF s \in DOMAIN c THEN c[s] ELSE old[s]
    BY DEF Changed
  <1>4. Changed(old, c).db = old.db
    BY <1>1, <1>3 DEF Settings
  <1>5. Changed(old, c).buffered \in BOOLEAN /\ Changed(old, c).sealed \in BOOLEAN
    BY <1>1, <1>2, <1>3 DEF Settings
  <1>6. Changed(old, c) = [db |-> Changed(old, c).db, buffered |-> Changed(old, c).buffered, sealed |-> Changed(old, c).sealed]
    BY DEF Changed, Settings
  <1>7. QED
    BY <1>2, <1>4, <1>5, <1>6 DEF Config

LEMMA TypedInit == Init => Typed
  BY IdleFields, ConfigAssumption DEF Init, Typed, BufferTyped, RestTyped, Config

\* What the actions put in the place of a job.
LEMMA JobTypes ==
  ASSUME Typed, NEW t \in Callers
  PROVE  /\ \A e \in Events, pc \in Pcs : [Idle EXCEPT !.event = e, !.snap = config, !.pc = pc] \in Jobs
         /\ [Idle EXCEPT !.pc = "clear", !.before = Held] \in Jobs
         /\ \A c \in Changes : [Idle EXCEPT !.pc = "copied", !.snap = config, !.change = c, !.before = Held] \in Jobs
         /\ \A pc \in Pcs : [job[t] EXCEPT !.pc = pc] \in Jobs
  <1>1. Held \subseteq Events
    <2>1. CASE buffer = <<>>
      BY <2>1 DEF Held, HasBuffer
    <2>2. ASSUME NEW b \in Buffers, buffer = <<b>> PROVE Held \subseteq Events
      BY <2>2 DEF Held, HasBuffer, Entries, Buffers
    <2>3. QED
      BY <2>1, <2>2 DEF Typed, BufferTyped
  <1>2. \A pc \in Pcs : [job[t] EXCEPT !.pc = pc] \in Jobs
    BY DEF Typed, Jobs
  <1>3. QED
    BY <1>1, <1>2, IdleFields DEF Typed, Jobs, Pcs

(***************************************************************************)
(* One fate.  An event is with one thread until its capture is over, and   *)
(* once in the queue or the batch; every step hands it from one place to   *)
(* one other.                                                              *)
(***************************************************************************)
Capturing == {"enqueue", "write"}

Busy ==
  /\ \A t \in Callers : job[t].event # NoEvent <=> job[t].pc \in Capturing
  /\ \A t, u \in Callers : job[t].event # NoEvent /\ job[t].event = job[u].event => t = u

HeldOnce(b) ==
  /\ \A i, j \in 1..Len(b.queue) : b.queue[i] = b.queue[j] => i = j
  /\ Entries(b.queue) \cap b.batch = {}

OnceHeld == HasBuffer => HeldOnce(buffer[1])

StoredApart == \A d, f \in Databases : d # f => stored[d] \cap stored[f] = {}

\* C, the events captured, are divided among the other sets.
Division(C, U, R, H, D, A, S) ==
  /\ C = U \cup R \cup H \cup D \cup A \cup S
  /\ U \cap (R \cup H \cup D \cup A \cup S) = {}
  /\ R \cap (H \cup D \cup A \cup S) = {}
  /\ H \cap (D \cup A \cup S) = {}
  /\ D \cap (A \cup S) = {}
  /\ A \cap S = {}

Divided == Division(Captured, InCapture, refused \ torn, Held, dropped, abandoned, Stored)

TornStored == torn \subseteq Stored

FateInv == Typed /\ Busy /\ OnceHeld /\ StoredApart /\ Divided /\ TornStored

\* What a call that drops the buffer leaves behind.
Out == Stored \cup dropped \cup abandoned

\* Events that come in, and events that go from one place to the next.
LEMMA Moves ==
  ASSUME NEW C, NEW U, NEW R, NEW H, NEW D, NEW A, NEW S, Division(C, U, R, H, D, A, S), NEW B
  PROVE  /\ B \cap C = {} => /\ Division(C \cup B, U \cup B, R, H, D, A, S)
                             /\ Division(C \cup B, U, R \cup B, H, D, A, S)
         /\ B \subseteq U => /\ Division(C, U \ B, R \cup B, H, D, A, S)
                             /\ Division(C, U \ B, R, H \cup B, D, A, S)
                             /\ Division(C, U \ B, R, H, D \cup B, A, S)
                             /\ Division(C, U \ B, R, H, D, A, S \cup B)
         /\ B \subseteq H => /\ Division(C, U, R, H \ B, D \cup B, A, S)
                             /\ Division(C, U, R, H \ B, D, A \cup B, S)
                             /\ Division(C, U, R, H \ B, D, A, S \cup B)
  BY DEF Division

LEMMA JobBegins ==
  ASSUME Typed, Busy, NEW t \in Callers, NEW e \in Events, NEW j \in Jobs, e \notin InCapture,
         job[t].pc = "idle", job' = [job EXCEPT ![t] = j], j.event = e, j.pc \in Capturing
  PROVE  /\ job' \in [Callers -> Jobs] /\ Busy' /\ InCapture' = InCapture \cup {e}
         /\ job'[t] = j /\ \A u \in Callers \ {t} : job'[u] = job[u]
  <1>1. job' \in [Callers -> Jobs] /\ job'[t] = j /\ \A u \in Callers \ {t} : job'[u] = job[u]
    BY DEF Typed
  <1>2. e # NoEvent /\ job[t].event = NoEvent
    BY NamesAssumption DEF Busy, Capturing
  <1>3. \A u \in Callers : job[u].event # e
    BY <1>2 DEF InCapture
  <1>4. Busy'
    BY <1>1, <1>2, <1>3 DEF Busy
  <1>5. InCapture' = InCapture \cup {e}
    BY <1>1, <1>2 DEF InCapture
  <1>6. QED
    BY <1>1, <1>4, <1>5

LEMMA JobEnds ==
  ASSUME Typed, Busy, NEW t \in Callers, Return(t)
  PROVE  /\ job' \in [Callers -> Jobs] /\ Busy' /\ InCapture' = InCapture \ {job[t].event}
         /\ job'[t] = Idle /\ \A u \in Callers \ {t} : job'[u] = job[u]
  <1>1. job' \in [Callers -> Jobs] /\ job'[t] = Idle /\ \A u \in Callers \ {t} : job'[u] = job[u]
    BY IdleFields DEF Typed, Return
  <1>2. Busy'
    BY <1>1, IdleFields DEF Busy, Capturing
  <1>3. InCapture' = InCapture \ {job[t].event}
    BY <1>1, IdleFields DEF Busy, InCapture
  <1>4. QED
    BY <1>1, <1>2, <1>3

LEMMA JobTurns ==
  ASSUME Typed, Busy, NEW t \in Callers, NEW j \in Jobs, job[t].event = NoEvent,
         job' = [job EXCEPT ![t] = j], j.event = NoEvent, j.pc \notin Capturing
  PROVE  /\ job' \in [Callers -> Jobs] /\ Busy' /\ InCapture' = InCapture
         /\ job'[t] = j /\ \A u \in Callers \ {t} : job'[u] = job[u]
  <1>1. job' \in [Callers -> Jobs] /\ job'[t] = j /\ \A u \in Callers \ {t} : job'[u] = job[u]
    BY DEF Typed
  <1>2. Busy'
    BY <1>1 DEF Busy
  <1>3. InCapture' = InCapture
    BY <1>1 DEF InCapture
  <1>4. QED
    BY <1>1, <1>2, <1>3

LEMMA JobStays ==
  ASSUME Busy, UNCHANGED job
  PROVE  Busy' /\ InCapture' = InCapture
  BY DEF Busy, InCapture

\* The buffer there is, or the lack of one.
LEMMA HeldBy ==
  /\ buffer = <<>> => ~HasBuffer /\ Held = {}
  /\ \A b : buffer = <<b>> => HasBuffer /\ Held = Entries(b.queue) \cup b.batch /\ buffer[1] = b
  BY DEF HasBuffer, Held

LEMMA BufferThere ==
  ASSUME Typed, HasBuffer
  PROVE  buffer = <<buffer[1]>> /\ buffer[1] \in Buffers
  BY DEF Typed, BufferTyped, HasBuffer

LEMMA EntriesOf ==
  ASSUME NEW q \in Seq(Events)
  PROVE  /\ \A e \in Events : Entries(Append(q, e)) = Entries(q) \cup {e}
         /\ q # <<>> => Entries(q) = {Head(q)} \cup Entries(Tail(q)) /\ Head(q) \in Events
         /\ Entries(q) \subseteq Events
  <1>1. ASSUME NEW e \in Events PROVE Entries(Append(q, e)) = Entries(q) \cup {e}
    <2>1. /\ Len(Append(q, e)) = Len(q) + 1 /\ Append(q, e)[Len(q) + 1] = e
          /\ \A i \in 1..Len(q) : Append(q, e)[i] = q[i]
      OBVIOUS
    <2>2. 1..(Len(q) + 1) = (1..Len(q)) \cup {Len(q) + 1}
      OBVIOUS
    <2>3. QED
      BY <2>1, <2>2 DEF Entries
  <1>2. ASSUME q # <<>> PROVE Entries(q) = {Head(q)} \cup Entries(Tail(q)) /\ Head(q) \in Events
    <2>1. /\ Len(q) \in Nat \ {0} /\ Head(q) = q[1] /\ Tail(q) \in Seq(Events) /\ Len(Tail(q)) = Len(q) - 1
          /\ \A i \in 1..Len(Tail(q)) : Tail(q)[i] = q[i + 1]
      BY <1>2
    <2>2. \A i \in 1..Len(q) : i = 1 \/ i - 1 \in 1..Len(Tail(q))
      BY <2>1
    <2>3. Entries(q) \subseteq {Head(q)} \cup Entries(Tail(q))
      <3>1. \A i \in 2..Len(q) : q[i] = Tail(q)[i - 1]
        BY <2>1
      <3>2. QED
        BY <2>1, <2>2, <3>1 DEF Entries
    <2>4. \A i \in 1..Len(Tail(q)) : i + 1 \in 1..Len(q) /\ Tail(q)[i] = q[i + 1]
      BY <2>1
    <2>5. Entries(Tail(q)) \subseteq Entries(q)
      BY <2>4 DEF Entries
    <2>6. Head(q) \in Entries(q)
      BY <2>1 DEF Entries
    <2>7. QED
      BY <2>1, <2>3, <2>5, <2>6
  <1>3. Entries(q) \subseteq Events
    BY DEF Entries
  <1>4. QED
    BY <1>1, <1>2, <1>3

\* What a step does to events that are through with their capture: they
\* leave the buffer for one of these places, and stay there; and a call that
\* returns leaves none in a buffer.
Steady ==
  /\ Out \subseteq Out' /\ Held \subseteq Held' \cup Out'
  /\ \A t \in Callers : job'[t].before \subseteq job[t].before \cup Held
  /\ settled' = settled \/ (Held' = {} /\ \E t \in Callers : settled' = settled \cup job[t].before)

\* Nothing happens to the places of the events.
LEMMA PlacesStay ==
  ASSUME FateInv, UNCHANGED <<observed, met, buffer>>
  PROVE  /\ Captured' = Captured /\ Held' = Held /\ Stored' = Stored /\ OnceHeld' /\ StoredApart' /\ BufferTyped'
         /\ TornStored' /\ Out' = Out
  BY DEF FateInv, Typed, BufferTyped, Captured, Held, HasBuffer, Stored, OnceHeld, StoredApart, TornStored, Out, observed

LEMMA SnapshotMoves ==
  ASSUME FateInv, NEW t \in Callers, NEW e \in Events, NEW forceSync, Snapshot(t, e, forceSync)
  PROVE  FateInv' /\ Steady
  <1> DEFINE pc == IF config.buffered /\ ~forceSync THEN "enqueue" ELSE "write"
             j == [Idle EXCEPT !.event = e, !.snap = config, !.pc = pc]
  <1> USE DEF FateInv
  <1>1. e \notin Captured /\ e \notin InCapture
    BY DEF Snapshot, Divided, Division
  <1>2. met' \in [Events -> SUBSET Config] /\ Captured' = Captured \cup {e}
    BY DEF Snapshot, Typed, RestTyped, Captured
  <1>3. /\ Held' = Held /\ Stored' = Stored /\ OnceHeld' /\ StoredApart' /\ BufferTyped' /\ TornStored'
        /\ UNCHANGED <<surface, config, stored, dropped, torn, abandoned, placed, wanted, asked, settled>>
    BY DEF Snapshot, Typed, BufferTyped, Held, HasBuffer, Stored, OnceHeld, StoredApart, TornStored, goals
  <1>4. CASE /\ job' = [job EXCEPT ![t] = j]
             /\ UNCHANGED refused
    <2>1. j \in Jobs /\ j.event = e /\ j.pc \in Capturing /\ j.before = {}
      <3>1. pc \in Pcs /\ pc \in Capturing
        BY DEF Pcs, Capturing
      <3>2. j.event = e /\ j.pc = pc /\ j.before = {}
        BY IdleFields DEF Idle
      <3> HIDE DEF pc
      <3>3. QED
        BY <3>1, <3>2, JobTypes
    <2>2. job[t].pc = "idle"
      BY DEF Snapshot
    <2> HIDE DEF j
    <2>3. /\ job' \in [Callers -> Jobs] /\ Busy' /\ InCapture' = InCapture \cup {e}
          /\ job'[t] = j /\ \A u \in Callers \ {t} : job'[u] = job[u]
      BY <1>1, <1>4, <2>1, <2>2, JobBegins
    <2>4. Division(Captured \cup {e}, InCapture \cup {e}, refused \ torn, Held, dropped, abandoned, Stored)
      BY <1>1, Moves DEF Divided
    <2>5. Divided'
      BY <1>2, <1>3, <1>4, <2>3, <2>4 DEF Divided
    <2>6. Typed'
      BY <1>2, <1>3, <1>4, <2>3 DEF Typed, RestTyped
    <2>7. Steady
      BY <1>1, <1>2, <1>3, <2>1, <2>3 DEF Steady, Out
    <2>8. QED
      BY <1>3, <2>3, <2>5, <2>6, <2>7
  <1>5. CASE refused' = refused \cup {e} /\ UNCHANGED job
    <2>1. Busy' /\ InCapture' = InCapture
      BY <1>5, JobStays
    <2>2. Division(Captured \cup {e}, InCapture, (refused \ torn) \cup {e}, Held, dropped, abandoned, Stored)
      BY <1>1, Moves DEF Divided
    <2>3. refused' \ torn' = (refused \ torn) \cup {e}
      BY <1>1, <1>3, <1>5 DEF TornStored, Divided, Division
    <2>7. Divided'
      BY <1>2, <1>3, <2>1, <2>2, <2>3 DEF Divided
    <2>4. Typed'
      BY <1>2, <1>3, <1>5 DEF Typed, RestTyped
    <2>5. Steady
      BY <1>2, <1>3, <1>5, <2>1 DEF Steady, Out
    <2>6. QED
      BY <1>3, <2>1, <2>4, <2>5, <2>7
  <1>6. QED
    BY <1>4, <1>5 DEF Snapshot

\* The event a capture is about.
LEMMA InHand ==
  ASSUME FateInv, NEW t \in Callers, job[t].pc \in Capturing
  PROVE  /\ job[t].event \in Events /\ job[t].event \in InCapture /\ job[t].event \in Captured
         /\ job[t].event \notin Held /\ job[t].event \notin torn /\ job[t].snap \in Config /\ job[t].snap.db \in Databases
  <1>1. job[t].event \in Events /\ job[t].event \in InCapture
    BY DEF FateInv, Typed, Busy, Jobs, InCapture
  <1>2. job[t].snap \in Config /\ job[t].snap.db \in Databases
    BY DEF FateInv, Typed, Jobs, Config
  <1>3. QED
    BY <1>1, <1>2 DEF FateInv, Divided, Division, TornStored

LEMMA RefuseMoves ==
  ASSUME FateInv, NEW t \in Callers, Refuse(t)
  PROVE  FateInv' /\ Steady
  <1> DEFINE e == job[t].event
  <1> USE DEF FateInv
  <1>1. e \in Events /\ e \in InCapture /\ e \notin torn
    BY InHand DEF Refuse, Capturing
  <1>2. /\ UNCHANGED <<surface, config, buffer, stored, dropped, torn, abandoned, met, placed, wanted, asked, settled>>
        /\ refused' = refused \cup {e} /\ Return(t)
    BY DEF Refuse, fates, goals
  <1>3. /\ job' \in [Callers -> Jobs] /\ Busy' /\ InCapture' = InCapture \ {e}
        /\ job'[t] = Idle /\ \A u \in Callers \ {t} : job'[u] = job[u]
    BY <1>2, JobEnds
  <1> HIDE DEF e
  <1>4. Captured' = Captured /\ Held' = Held /\ Stored' = Stored /\ OnceHeld' /\ StoredApart' /\ BufferTyped' /\ TornStored'
    BY <1>2 DEF Typed, BufferTyped, Captured, Held, HasBuffer, Stored, OnceHeld, StoredApart, TornStored
  <1>5. Division(Captured, InCapture \ {e}, (refused \ torn) \cup {e}, Held, dropped, abandoned, Stored)
    BY <1>1, Moves DEF Divided
  <1>10. refused' \ torn' = (refused \ torn) \cup {e}
    BY <1>1, <1>2
  <1>6. Divided'
    BY <1>2, <1>3, <1>4, <1>5, <1>10 DEF Divided
  <1>7. Typed'
    BY <1>1, <1>2, <1>3, <1>4 DEF Typed, RestTyped
  <1>8. Steady
    BY <1>2, <1>3, <1>4, IdleFields DEF Steady, Out
  <1>9. QED
    BY <1>3, <1>4, <1>6, <1>7, <1>8

LEMMA StoredGrows ==
  ASSUME Typed, StoredApart, NEW d \in Databases, NEW B \in SUBSET Events, B \cap Stored = {},
         stored' = [stored EXCEPT ![d] = @ \cup B]
  PROVE  stored' \in [Databases -> SUBSET Events] /\ Stored' = Stored \cup B /\ StoredApart'
  <1>1. /\ stored' \in [Databases -> SUBSET Events] /\ stored'[d] = stored[d] \cup B
        /\ \A f \in Databases \ {d} : stored'[f] = stored[f]
    BY DEF Typed, RestTyped
  <1>2. Stored' = Stored \cup B
    BY <1>1 DEF Stored
  <1>3. StoredApart'
    BY <1>1 DEF StoredApart, Stored
  <1>4. QED
    BY <1>1, <1>2, <1>3

LEMMA WriteMoves ==
  ASSUME FateInv, NEW t \in Callers, WriteNow(t)
  PROVE  FateInv' /\ Steady
  <1> DEFINE e == job[t].event
             d == job[t].snap.db
  <1> USE DEF FateInv
  <1>1. e \in Events /\ e \in InCapture /\ d \in Databases
    BY InHand DEF WriteNow, Capturing
  <1>2. /\ UNCHANGED <<surface, config, buffer, dropped, abandoned, met, wanted, asked, settled>>
        /\ stored' = [stored EXCEPT ![d] = @ \cup {e}] /\ placed' = [placed EXCEPT ![e] = {d}] /\ Return(t)
        /\ \/ UNCHANGED <<refused, torn>>
           \/ refused' = refused \cup {e} /\ torn' = torn \cup {e}
    BY DEF WriteNow, goals
  <1>3. /\ job' \in [Callers -> Jobs] /\ Busy' /\ InCapture' = InCapture \ {e}
        /\ job'[t] = Idle /\ \A u \in Callers \ {t} : job'[u] = job[u]
    BY <1>2, JobEnds
  <1> HIDE DEF e, d
  <1>4. Captured' = Captured /\ Held' = Held /\ OnceHeld' /\ BufferTyped'
    BY <1>2 DEF Typed, BufferTyped, Captured, Held, HasBuffer, OnceHeld
  <1>12. refused' \ torn' = refused \ torn
    <2>1. e \notin refused \ torn
      BY <1>1 DEF Divided, Division
    <2>2. QED
      BY <1>2, <2>1
  <1>5. {e} \in SUBSET Events /\ {e} \cap Stored = {}
    BY <1>1 DEF Divided, Division
  <1>6. stored' \in [Databases -> SUBSET Events] /\ Stored' = Stored \cup {e} /\ StoredApart'
    BY <1>1, <1>2, <1>5, StoredGrows
  <1>7. Division(Captured, InCapture \ {e}, refused \ torn, Held, dropped, abandoned, Stored \cup {e})
    BY <1>1, Moves DEF Divided
  <1>8. Divided'
    BY <1>2, <1>3, <1>4, <1>6, <1>7, <1>12 DEF Divided
  <1>13. TornStored'
    BY <1>2, <1>6 DEF TornStored
  <1>9. Typed'
    BY <1>1, <1>2, <1>3, <1>4, <1>6 DEF Typed, RestTyped
  <1>10. Steady
    BY <1>2, <1>3, <1>4, <1>6, IdleFields DEF Steady, Out
  <1>11. QED
    BY <1>3, <1>4, <1>6, <1>8, <1>9, <1>10, <1>13

LEMMA BufferTurns ==
  ASSUME NEW b \in Buffers
  PROVE  /\ b.db \in Databases /\ b.queue \in Seq(Events) /\ b.batch \subseteq Events
         /\ \A e \in Events : LET new == [b EXCEPT !.queue = Append(b.queue, e)]
                              IN  new \in Buffers /\ new.queue = Append(b.queue, e) /\ new.batch = b.batch /\ new.db = b.db
         /\ \A leaving \in BOOLEAN : LET new == [b EXCEPT !.leaving = leaving]
                              IN  new \in Buffers /\ new.queue = b.queue /\ new.batch = b.batch /\ new.db = b.db
         /\ LET new == [b EXCEPT !.batch = {}]
            IN  new \in Buffers /\ new.queue = b.queue /\ new.batch = {} /\ new.db = b.db
  <1>1. b.db \in Databases /\ b.queue \in Seq(Events) /\ b.batch \subseteq Events
    BY DEF Buffers
  <1>2. ASSUME NEW e \in Events
        PROVE  LET new == [b EXCEPT !.queue = Append(b.queue, e)]
               IN  new \in Buffers /\ new.queue = Append(b.queue, e) /\ new.batch = b.batch /\ new.db = b.db
    <2>1. \A q \in Seq(Events) :
            LET new == [b EXCEPT !.queue = q]
            IN  new \in Buffers /\ new.queue = q /\ new.batch = b.batch /\ new.db = b.db
      BY DEF Buffers
    <2>2. Append(b.queue, e) \in Seq(Events)
      BY <1>1
    <2>3. QED
      BY <2>1, <2>2
  <1>3. QED
    BY <1>1, <1>2 DEF Buffers

\* The buffer an enqueue finds or makes.
LEMMA BufferForFields ==
  ASSUME FateInv, NEW t \in Callers, job[t].pc = "enqueue"
  PROVE  /\ BufferFor(t) \in Buffers /\ HeldOnce(BufferFor(t))
         /\ Held = Entries(BufferFor(t).queue) \cup BufferFor(t).batch
  <1> USE DEF FateInv
  <1>1. CASE HasBuffer
    BY <1>1, BufferThere, HeldBy DEF BufferFor, OnceHeld
  <1>2. CASE ~HasBuffer
    <2>1. BufferFor(t) = Fresh(job[t].snap.db) /\ Held = {}
      BY <1>2 DEF BufferFor, Held
    <2>2. job[t].snap.db \in Databases
      BY InHand DEF Capturing
    <2>3. BufferFor(t) \in Buffers /\ BufferFor(t).queue = <<>> /\ BufferFor(t).batch = {}
      BY <2>1, <2>2, FreshFields
    <2>4. QED
      BY <2>1, <2>3 DEF HeldOnce, Entries
  <1>3. QED
    BY <1>1, <1>2

LEMMA EnqueueMoves ==
  ASSUME FateInv, NEW t \in Callers, Enqueue(t)
  PROVE  FateInv' /\ Steady
  <1> DEFINE e == job[t].event
             into == BufferFor(t)
             grown == [into EXCEPT !.queue = Append(into.queue, e)]
  <1> USE DEF FateInv
  <1>1. e \in Events /\ e \in InCapture /\ e \notin Held
    BY InHand DEF Enqueue, Capturing
  <1>2. into \in Buffers /\ HeldOnce(into) /\ Held = Entries(into.queue) \cup into.batch
    BY BufferForFields DEF Enqueue
  <1>3. /\ UNCHANGED <<surface, config, stored, refused, torn, abandoned, met, wanted, asked, settled>>
        /\ placed' = [placed EXCEPT ![e] = {into.db}] /\ Return(t)
        /\ \/ buffer' = <<grown>> /\ UNCHANGED dropped
           \/ buffer' = <<into>> /\ dropped' = dropped \cup {e}
    BY DEF Enqueue, Handed, goals
  <1>4. /\ job' \in [Callers -> Jobs] /\ Busy' /\ InCapture' = InCapture \ {e}
        /\ job'[t] = Idle /\ \A u \in Callers \ {t} : job'[u] = job[u]
    BY <1>3, JobEnds
  <1>5. into.queue \in Seq(Events) /\ into.batch \subseteq Events /\ into.db \in Databases
    BY <1>2 DEF Buffers
  <1>6. /\ grown \in Buffers /\ grown.queue = Append(into.queue, e) /\ grown.batch = into.batch
    BY <1>1, <1>2, <1>5, BufferTurns
  <1> HIDE DEF grown, into, e
  <1>7. Entries(grown.queue) = Entries(into.queue) \cup {e}
    BY <1>1, <1>5, <1>6, EntriesOf
  <1>8. HeldOnce(grown)
    <2>1. \A i \in 1..Len(into.queue) : into.queue[i] # e
      BY <1>1, <1>2 DEF Entries
    <2>2. /\ Len(grown.queue) = Len(into.queue) + 1 /\ grown.queue[Len(into.queue) + 1] = e
          /\ \A i \in 1..Len(into.queue) : grown.queue[i] = into.queue[i]
      BY <1>1, <1>5, <1>6
    <2>3. \A i \in 1..Len(grown.queue) : i \in 1..Len(into.queue) \/ i = Len(into.queue) + 1
      BY <1>5, <2>2
    <2>4. \A i, j \in 1..Len(grown.queue) : grown.queue[i] = grown.queue[j] => i = j
      BY <1>2, <2>1, <2>2, <2>3 DEF HeldOnce
    <2>5. QED
      BY <1>1, <1>2, <1>6, <1>7, <2>4 DEF HeldOnce
  <1>9. Captured' = Captured /\ Stored' = Stored /\ StoredApart' /\ TornStored'
    BY <1>3 DEF Captured, Stored, StoredApart, TornStored
  <1>10. placed' \in [Events -> SUBSET Databases]
    BY <1>1, <1>3, <1>5 DEF Typed, RestTyped
  <1>11. CASE buffer' = <<grown>> /\ UNCHANGED dropped
    <2>1. Held' = Held \cup {e} /\ OnceHeld' /\ BufferTyped'
      BY <1>2, <1>6, <1>7, <1>8, <1>11 DEF Held, HasBuffer, OnceHeld, BufferTyped
    <2>2. Division(Captured, InCapture \ {e}, refused \ torn, Held \cup {e}, dropped, abandoned, Stored)
      BY <1>1, Moves DEF Divided
    <2>3. Divided'
      BY <1>3, <1>4, <1>9, <1>11, <2>1, <2>2 DEF Divided
    <2>4. Typed'
      BY <1>3, <1>4, <1>10, <1>11, <2>1 DEF Typed, RestTyped
    <2>5. Steady
      BY <1>1, <1>3, <1>4, <1>9, <1>11, <2>1, IdleFields DEF Steady, Out
    <2>6. QED
      BY <1>4, <1>9, <2>1, <2>3, <2>4, <2>5
  <1>12. CASE buffer' = <<into>> /\ dropped' = dropped \cup {e}
    <2>1. Held' = Held /\ OnceHeld' /\ BufferTyped'
      BY <1>2, <1>12 DEF Held, HasBuffer, OnceHeld, BufferTyped
    <2>2. Division(Captured, InCapture \ {e}, refused \ torn, Held, dropped \cup {e}, abandoned, Stored)
      BY <1>1, Moves DEF Divided
    <2>3. Divided'
      BY <1>3, <1>4, <1>9, <1>12, <2>1, <2>2 DEF Divided
    <2>4. Typed'
      BY <1>1, <1>3, <1>4, <1>10, <1>12, <2>1 DEF Typed, RestTyped
    <2>5. Steady
      BY <1>3, <1>4, <1>9, <1>12, <2>1, IdleFields DEF Steady, Out
    <2>6. QED
      BY <1>4, <1>9, <2>1, <2>3, <2>4, <2>5
  <1>13. QED
    BY <1>3, <1>11, <1>12

\* Steps of the flush thread that leave the jobs alone.
LEMMA FlushThreadMoves ==
  ASSUME FateInv, NEW b \in Buffers, buffer' = <<b>>, HeldOnce(b), NEW D \in SUBSET Events,
         Entries(b.queue) \cup b.batch = Held \ D, D \subseteq Held,
         UNCHANGED <<surface, config, job, refused, torn, abandoned, fates, goals, settled>>,
         \/ dropped' = dropped \cup D /\ UNCHANGED stored
         \/ \E d \in Databases : stored' = [stored EXCEPT ![d] = @ \cup D] /\ UNCHANGED dropped
  PROVE  FateInv' /\ Steady
  <1> USE DEF FateInv
  <1>1. Held' = Held \ D /\ OnceHeld' /\ BufferTyped'
    BY DEF Held, HasBuffer, OnceHeld, BufferTyped
  <1>2. Busy' /\ InCapture' = InCapture /\ Captured' = Captured
    BY JobStays DEF fates, Captured
  <1>3. ASSUME Out' = Out \cup D PROVE Steady
    BY <1>1, <1>2, <1>3 DEF Steady
  <1>4. CASE dropped' = dropped \cup D /\ UNCHANGED stored
    <2>1. Stored' = Stored /\ StoredApart' /\ TornStored' /\ Out' = Out \cup D
      BY <1>4 DEF Stored, StoredApart, TornStored, Out
    <2>2. Division(Captured, InCapture, refused \ torn, Held \ D, dropped \cup D, abandoned, Stored)
      BY Moves DEF Divided
    <2>3. Divided'
      BY <1>1, <1>2, <1>4, <2>1, <2>2 DEF Divided
    <2>4. Typed'
      BY <1>1, <1>4 DEF Typed, RestTyped, fates, goals
    <2>5. QED
      BY <1>1, <1>2, <1>3, <2>1, <2>3, <2>4
  <1>5. ASSUME NEW d \in Databases, stored' = [stored EXCEPT ![d] = @ \cup D], UNCHANGED dropped
        PROVE  FateInv' /\ Steady
    <2>1. D \cap Stored = {}
      BY DEF Divided, Division
    <2>2. stored' \in [Databases -> SUBSET Events] /\ Stored' = Stored \cup D /\ StoredApart'
      BY <1>5, <2>1, StoredGrows
    <2>7. TornStored' /\ Out' = Out \cup D
      BY <1>5, <2>2 DEF TornStored, Out
    <2>3. Division(Captured, InCapture, refused \ torn, Held \ D, dropped, abandoned, Stored \cup D)
      BY Moves DEF Divided
    <2>4. Divided'
      BY <1>1, <1>2, <1>5, <2>2, <2>3 DEF Divided
    <2>5. Typed'
      BY <1>1, <1>5, <2>2 DEF Typed, RestTyped, fates, goals
    <2>6. QED
      BY <1>1, <1>2, <1>3, <2>2, <2>4, <2>5, <2>7
  <1>6. QED
    BY <1>4, <1>5

LEMMA ReceiveMoves ==
  ASSUME FateInv, Receive
  PROVE  FateInv' /\ Steady
  <1> DEFINE b == buffer[1]
             new == [b EXCEPT !.batch = b.batch \cup {Head(b.queue)}, !.queue = Tail(b.queue)]
  <1>1. HasBuffer /\ b.queue # <<>> /\ buffer' = <<new>> /\ UNCHANGED <<surface, config, job, observed, fates, goals, settled>>
    BY DEF Receive, Flushing
  <1>2. b \in Buffers /\ HeldOnce(b) /\ Held = Entries(b.queue) \cup b.batch
    BY <1>1, BufferThere, HeldBy DEF FateInv, OnceHeld
  <1>3. b.db \in Databases /\ b.queue \in Seq(Events) /\ b.batch \subseteq Events
    BY <1>2, BufferTurns
  <1>4. Entries(b.queue) = {Head(b.queue)} \cup Entries(Tail(b.queue)) /\ Head(b.queue) \in Events
    BY <1>1, <1>3, EntriesOf
  <1>5. Tail(b.queue) \in Seq(Events)
    BY <1>1, <1>3
  <1>6. new \in Buffers /\ new.queue = Tail(b.queue) /\ new.batch = b.batch \cup {Head(b.queue)} /\ new.db = b.db
    <2>1. \A q \in Seq(Events), c \in SUBSET Events :
            LET n == [b EXCEPT !.batch = c, !.queue = q]
            IN  n \in Buffers /\ n.queue = q /\ n.batch = c /\ n.db = b.db
      BY <1>2 DEF Buffers
    <2>2. b.batch \cup {Head(b.queue)} \in SUBSET Events
      BY <1>3, <1>4
    <2>3. QED
      BY <1>5, <2>1, <2>2
  <1> HIDE DEF new
  <1>7. HeldOnce(new)
    <2> DEFINE q == b.queue
    <2>1. /\ Len(Tail(q)) = Len(q) - 1 /\ Len(q) \in Nat \ {0} /\ Head(q) = q[1]
          /\ \A i \in 1..Len(Tail(q)) : Tail(q)[i] = q[i + 1]
      BY <1>1, <1>3
    <2>2. \A i, j \in 1..Len(q) : q[i] = q[j] => i = j
      BY <1>2 DEF HeldOnce
    <2>3. \A i \in 1..Len(Tail(q)) : i + 1 \in 1..Len(q) /\ i + 1 # 1
      BY <2>1
    <2>4. \A i, j \in 1..Len(Tail(q)) : Tail(q)[i] = Tail(q)[j] => i = j
      BY <2>1, <2>2, <2>3
    <2>5. 1 \in 1..Len(q)
      BY <2>1
    <2>6. \A i \in 1..Len(Tail(q)) : Tail(q)[i] # Head(q)
      BY <2>1, <2>2, <2>3, <2>5
    <2>7. Head(q) \notin Entries(Tail(q))
      BY <2>6 DEF Entries
    <2>8. QED
      BY <1>2, <1>4, <1>6, <2>4, <2>7 DEF HeldOnce
  <1>8. Entries(new.queue) \cup new.batch = Held \ {}
    BY <1>2, <1>4, <1>6
  <1>9. /\ dropped' = dropped \cup {} /\ UNCHANGED stored /\ {} \in SUBSET Events /\ {} \subseteq Held
         /\ UNCHANGED <<surface, config, job, refused, torn, abandoned, fates, goals, settled>>
    BY <1>1 DEF observed
  <1>10. QED
    BY <1>1, <1>6, <1>7, <1>8, <1>9, FlushThreadMoves

LEMMA FlushMoves ==
  ASSUME FateInv, FlushBatch
  PROVE  FateInv' /\ Steady
  <1> DEFINE b == buffer[1]
             new == [b EXCEPT !.batch = {}]
  <1>1. /\ HasBuffer /\ buffer' = <<new>>
        /\ UNCHANGED <<surface, config, job, refused, torn, abandoned, fates, goals, settled>>
        /\ \/ stored' = [stored EXCEPT ![b.db] = @ \cup b.batch] /\ UNCHANGED dropped
           \/ dropped' = dropped \cup b.batch /\ UNCHANGED stored
    BY DEF FlushBatch, Flushing
  <1>2. b \in Buffers /\ HeldOnce(b) /\ Held = Entries(b.queue) \cup b.batch
    BY <1>1, BufferThere, HeldBy DEF FateInv, OnceHeld
  <1>3. b.db \in Databases /\ b.batch \in SUBSET Events
    BY <1>2, BufferTurns
  <1>4. new \in Buffers /\ new.queue = b.queue /\ new.batch = {}
    BY <1>2, BufferTurns
  <1> HIDE DEF new
  <1>5. HeldOnce(new) /\ Entries(new.queue) \cup new.batch = Held \ b.batch /\ b.batch \subseteq Held
    BY <1>2, <1>4 DEF HeldOnce
  <1>6. QED
    BY <1>1, <1>3, <1>4, <1>5, FlushThreadMoves

LEMMA FlagMoves ==
  ASSUME FateInv, TimeOut \/ NoShutdown
  PROVE  FateInv' /\ Steady
  <1> DEFINE b == buffer[1]
  <1>1. /\ HasBuffer /\ \E leaving \in BOOLEAN : buffer' = <<[b EXCEPT !.leaving = leaving]>>
        /\ UNCHANGED <<surface, config, job, observed, fates, goals, settled>>
    BY DEF TimeOut, NoShutdown, Flushing
  <1>2. b \in Buffers /\ HeldOnce(b) /\ Held = Entries(b.queue) \cup b.batch
    BY <1>1, BufferThere, HeldBy DEF FateInv, OnceHeld
  <1>3. PICK leaving \in BOOLEAN : buffer' = <<[b EXCEPT !.leaving = leaving]>>
    BY <1>1
  <1> DEFINE new == [b EXCEPT !.leaving = leaving]
  <1>4. new \in Buffers /\ new.queue = b.queue /\ new.batch = b.batch /\ buffer' = <<new>>
    BY <1>2, <1>3, BufferTurns
  <1> HIDE DEF new
  <1>5. HeldOnce(new) /\ Entries(new.queue) \cup new.batch = Held \ {}
    BY <1>2, <1>4 DEF HeldOnce
  <1>6. /\ dropped' = dropped \cup {} /\ UNCHANGED stored /\ {} \in SUBSET Events /\ {} \subseteq Held
         /\ UNCHANGED <<surface, config, job, refused, torn, abandoned, fates, goals, settled>>
    BY <1>1 DEF observed
  <1>7. QED
    BY <1>1, <1>4, <1>5, <1>6, FlushThreadMoves

LEMMA InstallKeeps ==
  ASSUME FateInv, NEW new \in Config, NEW goal \in Config, Install(new, goal)
  PROVE  /\ config' \in Config /\ wanted' \in Config /\ wanted' \in asked' /\ asked' \subseteq Config
         /\ met' \in [Events -> SUBSET Config] /\ Captured' = Captured
  <1>1. config' \in Config /\ wanted' \in Config /\ wanted' \in asked' /\ asked' \subseteq Config
    BY DEF Install, FateInv, Typed, RestTyped
  <1>2. met' \in [Events -> SUBSET Config]
    BY DEF Install, FateInv, Typed, RestTyped
  <1>3. \A e \in Events : met'[e] = IF e \in InCapture THEN met[e] \cup {goal} ELSE met[e]
    BY DEF Install
  <1>4. InCapture \subseteq Captured
    BY DEF FateInv, Divided, Division
  <1>5. Captured' = Captured
    BY <1>3, <1>4 DEF Captured
  <1>6. QED
    BY <1>1, <1>2, <1>5

\* A call goes on, and the events stay where they are.
LEMMA CallMoves ==
  ASSUME FateInv, NEW t \in Callers, NEW j \in Jobs, job[t].event = NoEvent,
         job' = [job EXCEPT ![t] = j], j.event = NoEvent, j.pc \notin Capturing,
         j.before \subseteq job[t].before \cup Held,
         UNCHANGED <<surface, buffer, observed, placed, settled>>,
         config' \in Config, wanted' \in Config, wanted' \in asked', asked' \subseteq Config,
         met' \in [Events -> SUBSET Config], Captured' = Captured
  PROVE  FateInv' /\ Steady
  <1> USE DEF FateInv
  <1>1. /\ job' \in [Callers -> Jobs] /\ Busy' /\ InCapture' = InCapture
        /\ job'[t] = j /\ \A u \in Callers \ {t} : job'[u] = job[u]
    BY JobTurns
  <1>2. Held' = Held /\ Stored' = Stored /\ OnceHeld' /\ StoredApart' /\ BufferTyped' /\ TornStored' /\ Out' = Out
    BY DEF Typed, BufferTyped, Held, HasBuffer, Stored, OnceHeld, StoredApart, TornStored, Out, observed
  <1>3. Divided'
    BY <1>1, <1>2 DEF Divided, observed
  <1>4. Typed'
    BY <1>1, <1>2 DEF Typed, RestTyped, observed
  <1>5. Steady
    BY <1>1, <1>2 DEF Steady
  <1>6. QED
    BY <1>1, <1>2, <1>3, <1>4, <1>5

\* A thread outside a capture has no event.
LEMMA EmptyHanded ==
  ASSUME FateInv, NEW t \in Callers, job[t].pc \notin Capturing
  PROVE  job[t].event = NoEvent
  BY DEF FateInv, Busy

LEMMA FlushCallMoves ==
  ASSUME FateInv, NEW t \in Threads, Flush(t)
  PROVE  FateInv' /\ Steady
  <1> DEFINE j == [Idle EXCEPT !.pc = "clear", !.before = Held]
  <1>1. t \in Callers /\ job[t].event = NoEvent
    BY EmptyHanded DEF Flush, Call, Callers, Capturing
  <1>2. j \in Jobs /\ j.event = NoEvent /\ j.pc = "clear" /\ j.before = Held
    BY <1>1, JobTypes, IdleFields DEF FateInv, Idle
  <1> HIDE DEF j
  <1>3. /\ job' = [job EXCEPT ![t] = j] /\ UNCHANGED <<surface, config, buffer, observed, placed, met, wanted, asked, settled>>
    BY DEF Flush, j, fates, goals
  <1>4. Captured' = Captured
    BY <1>3 DEF Captured
  <1>5. /\ config' \in Config /\ wanted' \in Config /\ wanted' \in asked' /\ asked' \subseteq Config
        /\ met' \in [Events -> SUBSET Config]
    BY <1>3 DEF FateInv, Typed, RestTyped
  <1>6. QED
    BY <1>1, <1>2, <1>3, <1>4, <1>5, CallMoves DEF Capturing

LEMMA CopyMoves ==
  ASSUME FateInv, NEW t \in Threads, Copy(t)
  PROVE  FateInv' /\ Steady
  <1>1. t \in Callers /\ job[t].event = NoEvent
    BY EmptyHanded DEF Copy, Call, Callers, Capturing
  <1>2. PICK c \in Changes :
          job' = [job EXCEPT ![t] = [Idle EXCEPT !.pc = "copied", !.snap = config, !.change = c, !.before = Held]]
    BY DEF Copy
  <1> DEFINE j == [Idle EXCEPT !.pc = "copied", !.snap = config, !.change = c, !.before = Held]
  <1>3. j \in Jobs /\ j.event = NoEvent /\ j.pc = "copied" /\ j.before = Held
    BY <1>1, <1>2, JobTypes, IdleFields DEF FateInv, Idle
  <1>4. job' = [job EXCEPT ![t] = j]
    BY <1>2
  <1> HIDE DEF j
  <1>5. UNCHANGED <<surface, config, buffer, observed, placed, met, wanted, asked, settled>>
    BY DEF Copy, fates, goals
  <1>6. Captured' = Captured
    BY <1>5 DEF Captured
  <1>7. /\ config' \in Config /\ wanted' \in Config /\ wanted' \in asked' /\ asked' \subseteq Config
        /\ met' \in [Events -> SUBSET Config]
    BY <1>5 DEF FateInv, Typed, RestTyped
  <1>8. QED
    BY <1>1, <1>3, <1>4, <1>5, <1>6, <1>7, CallMoves DEF Capturing

LEMMA ArmMoves ==
  ASSUME FateInv, NEW t \in Threads, Arm(t)
  PROVE  FateInv' /\ Steady
  <1> DEFINE j == [Idle EXCEPT !.pc = "clear", !.before = Held]
  <1>1. t \in Callers /\ job[t].event = NoEvent
    BY EmptyHanded DEF Arm, Call, Callers, Capturing
  <1>2. j \in Jobs /\ j.event = NoEvent /\ j.pc = "clear" /\ j.before = Held
    BY <1>1, JobTypes, IdleFields DEF FateInv, Idle
  <1> HIDE DEF j
  <1>3. PICK c \in Arms : Install(c, c)
    BY DEF Arm
  <1>4. /\ config' \in Config /\ wanted' \in Config /\ wanted' \in asked' /\ asked' \subseteq Config
        /\ met' \in [Events -> SUBSET Config] /\ Captured' = Captured
    <2>1. c \in Config
      BY <1>3, ConfigAssumption
    <2>2. QED
      BY <1>3, <2>1, InstallKeeps
  <1>5. job' = [job EXCEPT ![t] = j] /\ UNCHANGED <<surface, buffer, observed, placed, settled>>
    BY DEF Arm, j
  <1>6. QED
    BY <1>1, <1>2, <1>4, <1>5, CallMoves DEF Capturing

LEMMA WriteBackMoves ==
  ASSUME FateInv, NEW t \in Threads, WriteBack(t)
  PROVE  FateInv' /\ Steady
  <1> DEFINE j == [job[t] EXCEPT !.pc = "clear"]
             c == job[t].change
  <1>1. t \in Callers /\ job[t].event = NoEvent
    BY EmptyHanded DEF WriteBack, Callers, Capturing
  <1>2. j \in Jobs /\ j.event = job[t].event /\ j.pc = "clear" /\ j.before = job[t].before
    BY <1>1 DEF FateInv, Typed, Jobs, Pcs
  <1>3. c \in Changes \cup {NoChange} /\ job[t].snap \in Config /\ wanted \in Config
    BY <1>1 DEF FateInv, Typed, Jobs
  <1>4. Changed(job[t].snap, c) \in Config /\ Changed(wanted, c) \in Config
    BY <1>3, ChangedConfig
  <1>5. /\ config' \in Config /\ wanted' \in Config /\ wanted' \in asked' /\ asked' \subseteq Config
        /\ met' \in [Events -> SUBSET Config] /\ Captured' = Captured
    BY <1>4, InstallKeeps DEF WriteBack
  <1>6. job' = [job EXCEPT ![t] = j] /\ UNCHANGED <<surface, buffer, observed, placed, settled>>
    BY <1>1 DEF WriteBack, Goto, FateInv, Typed
  <1> HIDE DEF j, c
  <1>7. QED
    BY <1>1, <1>2, <1>5, <1>6, CallMoves DEF Capturing

\* A call is over: nothing is held.
LEMMA DoneMoves ==
  ASSUME FateInv, NEW t \in Callers, job[t].event = NoEvent, Done(t), Held' = {}, BufferTyped', ~HasBuffer',
         abandoned' = abandoned \cup Held,
         UNCHANGED <<surface, config, stored, dropped, refused, torn, placed, met, wanted>>
  PROVE  FateInv' /\ Steady
  <1> USE DEF FateInv
  <1>1. /\ job' \in [Callers -> Jobs] /\ Busy' /\ InCapture' = InCapture \ {NoEvent}
        /\ job'[t] = Idle /\ \A u \in Callers \ {t} : job'[u] = job[u]
    BY JobEnds DEF Done
  <1>2. InCapture' = InCapture
    BY <1>1 DEF InCapture
  <1>3. Captured' = Captured /\ Stored' = Stored /\ StoredApart' /\ OnceHeld' /\ TornStored'
    BY DEF Captured, Stored, StoredApart, OnceHeld, TornStored
  <1>4. Held \subseteq Events
    <2>1. Held \subseteq Captured
      BY DEF Divided, Division
    <2>2. QED
      BY <2>1 DEF Captured
  <1>5. asked' \subseteq Config /\ wanted \in asked'
    BY DEF Done, Typed, RestTyped
  <1>6. Division(Captured, InCapture, refused \ torn, Held \ Held, dropped, abandoned \cup Held, Stored)
    BY Moves DEF Divided
  <1>7. Divided'
    BY <1>2, <1>3, <1>6 DEF Divided
  <1>8. Typed'
    BY <1>1, <1>4, <1>5 DEF Typed, RestTyped
  <1>9. Steady
    BY <1>1, <1>2, <1>3, IdleFields DEF Steady, Out, Done
  <1>10. QED
    BY <1>1, <1>3, <1>7, <1>8, <1>9

LEMMA ClearMoves ==
  ASSUME FateInv, NEW t \in Threads, Clear(t)
  PROVE  FateInv' /\ Steady
  <1>1. t \in Callers /\ job[t].event = NoEvent
    BY EmptyHanded DEF Clear, Callers, Capturing
  <1>2. CASE HasBuffer
    <2> DEFINE j == [job[t] EXCEPT !.pc = "join"]
    <2>1. j \in Jobs /\ j.event = job[t].event /\ j.pc = "join" /\ j.before = job[t].before
      BY <1>1 DEF FateInv, Typed, Jobs, Pcs
    <2>2. job' = [job EXCEPT ![t] = j] /\ UNCHANGED <<surface, config, buffer, observed, placed, met, wanted, asked, settled>>
      BY <1>1, <1>2 DEF Clear, Goto, FateInv, Typed, fates
    <2> HIDE DEF j
    <2>3. Captured' = Captured
      BY <2>2 DEF Captured
    <2>4. /\ config' \in Config /\ wanted' \in Config /\ wanted' \in asked' /\ asked' \subseteq Config
          /\ met' \in [Events -> SUBSET Config]
      BY <2>2 DEF FateInv, Typed, RestTyped
    <2>5. QED
      BY <1>1, <2>1, <2>2, <2>3, <2>4, CallMoves DEF Capturing
  <1>3. CASE ~HasBuffer
    <2>1. /\ Done(t) /\ UNCHANGED <<surface, config, buffer, stored, dropped, refused, torn, abandoned, placed, met, wanted>>
      BY <1>3 DEF Clear, observed, fates
    <2>2. Held = {} /\ Held' = {} /\ ~HasBuffer' /\ BufferTyped'
      BY <1>3, <2>1 DEF Held, HasBuffer, FateInv, Typed, BufferTyped
    <2>3. abandoned' = abandoned \cup Held
      BY <2>1, <2>2
    <2>4. QED
      BY <1>1, <2>1, <2>2, <2>3, DoneMoves
  <1>4. QED
    BY <1>2, <1>3

LEMMA JoinMoves ==
  ASSUME FateInv, NEW t \in Threads, Join(t)
  PROVE  FateInv' /\ Steady
  <1>1. t \in Callers /\ job[t].event = NoEvent
    BY EmptyHanded DEF Join, Callers, Capturing
  <1>2. Held' = {} /\ ~HasBuffer' /\ BufferTyped'
    BY DEF Join, Held, HasBuffer, BufferTyped
  <1>3. /\ Done(t) /\ abandoned' = abandoned \cup Held
        /\ UNCHANGED <<surface, config, stored, dropped, refused, torn, placed, met, wanted>>
    BY DEF Join, fates
  <1>4. QED
    BY <1>1, <1>2, <1>3, DoneMoves

LEMMA RejectedMoves ==
  ASSUME FateInv, NEW t \in Threads, Rejected(t)
  PROVE  FateInv' /\ Steady
  <1>1. t \in Callers /\ job[t].event = NoEvent
    BY EmptyHanded DEF Rejected, Callers, Capturing
  <1>2. /\ job' = [job EXCEPT ![t] = Idle]
        /\ UNCHANGED <<surface, config, buffer, observed, placed, met, wanted, asked, settled>>
    BY DEF Rejected, Return, fates, goals
  <1>3. Captured' = Captured
    BY <1>2 DEF Captured
  <1>4. /\ config' \in Config /\ wanted' \in Config /\ wanted' \in asked' /\ asked' \subseteq Config
        /\ met' \in [Events -> SUBSET Config]
    BY <1>2 DEF FateInv, Typed, RestTyped
  <1>5. QED
    BY <1>1, <1>2, <1>3, <1>4, IdleFields, CallMoves DEF Capturing

LEMMA FateInit == Init => FateInv
  <1> SUFFICES ASSUME Init PROVE FateInv
    OBVIOUS
  <1>1. Captured = {} /\ InCapture = {} /\ Held = {} /\ Stored = {} /\ StoredApart
    BY IdleFields DEF Init, Captured, InCapture, Held, HasBuffer, Stored, StoredApart
  <1>2. Busy /\ OnceHeld
    BY IdleFields DEF Init, Busy, Capturing, OnceHeld, HasBuffer
  <1>3. Divided
    BY <1>1 DEF Init, Divided, Division
  <1>4. TornStored
    BY DEF Init, TornStored
  <1>5. QED
    BY <1>1, <1>2, <1>3, <1>4, TypedInit DEF FateInv

LEMMA FateStep == FateInv /\ [Next]_vars => FateInv' /\ Steady
  <1> SUFFICES ASSUME FateInv, [Next]_vars PROVE FateInv' /\ Steady
    OBVIOUS
  <1>1. ASSUME NEW t \in Threads, Capture(t) PROVE FateInv' /\ Steady
    BY <1>1, SnapshotMoves DEF Capture, Callers
  <1>2. ASSUME NEW t \in Threads, Arm(t) \/ Copy(t) \/ Flush(t) PROVE FateInv' /\ Steady
    BY <1>2, ArmMoves, CopyMoves, FlushCallMoves
  <1>3. ASSUME NEW t \in Threads, CallStep(t) PROVE FateInv' /\ Steady
    BY <1>3, WriteBackMoves, RejectedMoves, ClearMoves, JoinMoves DEF CallStep
  <1>4. ASSUME NEW t \in Callers, CaptureStep(t) PROVE FateInv' /\ Steady
    BY <1>4, RefuseMoves, EnqueueMoves, WriteMoves DEF CaptureStep
  <1>5. ASSUME FlushStep PROVE FateInv' /\ Steady
    BY <1>5, ReceiveMoves, FlushMoves, FlagMoves DEF FlushStep
  <1>6. ASSUME SinkPanics PROVE FateInv' /\ Steady
    BY <1>6, SnapshotMoves DEF SinkPanics, Callers
  <1>7. ASSUME UNCHANGED vars PROVE FateInv' /\ Steady
    <2>1. UNCHANGED <<surface, config, buffer, job, observed, met, placed, wanted, asked, settled>>
      BY <1>7 DEF vars, fates, goals
    <2>2. Busy' /\ InCapture' = InCapture
      BY <2>1, JobStays DEF FateInv
    <2>3. /\ Captured' = Captured /\ Held' = Held /\ Stored' = Stored /\ OnceHeld' /\ StoredApart' /\ BufferTyped'
          /\ TornStored' /\ Out' = Out
      BY <2>1, PlacesStay
    <2>4. Divided'
      BY <2>1, <2>2, <2>3 DEF FateInv, Divided, observed
    <2>5. Typed'
      BY <2>1, <2>3 DEF FateInv, Typed, RestTyped, observed
    <2>6. Steady
      BY <2>1, <2>2, <2>3 DEF Steady, Out
    <2>7. QED
      BY <2>2, <2>3, <2>4, <2>5, <2>6 DEF FateInv
  <1>8. QED
    BY <1>1, <1>2, <1>3, <1>4, <1>5, <1>6, <1>7, Zenon DEF Next

\* One fate each.
LEMMA OneFate == FateInv => EachEventHasOneFate
  <1> SUFFICES ASSUME FateInv, NEW e \in Captured PROVE Cardinality(Fates(e)) = 1
    BY DEF EachEventHasOneFate
  <1> USE DEF FateInv, Divided, Division
  <1>1. ASSUME e \notin Stored PROVE {d \in Databases : e \in stored[d]} = {}
    BY <1>1 DEF Stored
  <1>2. \E f : Fates(e) = {f}
    <2>1. CASE e \in InCapture
      <3>1. Fates(e) = {"under way"}
        BY <1>1, <2>1 DEF Fates
      <3>2. QED
        BY <3>1
    <2>2. CASE e \in refused \ torn
      <3>1. Fates(e) = {"refused"}
        BY <1>1, <2>2 DEF Fates
      <3>2. QED
        BY <3>1
    <2>3. CASE e \in Held
      <3>1. Fates(e) = {"held"}
        BY <1>1, <2>3 DEF Fates
      <3>2. QED
        BY <3>1
    <2>4. CASE e \in dropped
      <3>1. Fates(e) = {"dropped"}
        BY <1>1, <2>4 DEF Fates
      <3>2. QED
        BY <3>1
    <2>5. CASE e \in abandoned
      <3>1. Fates(e) = {"abandoned"}
        BY <1>1, <2>5 DEF Fates
      <3>2. QED
        BY <3>1
    <2>6. CASE e \in Stored
      <3>1. PICK d \in Databases : e \in stored[d]
        BY <2>6 DEF Stored
      <3>2. \A f \in Databases : e \in stored[f] => f = d
        BY <3>1 DEF StoredApart
      <3>3. Fates(e) = {d}
        BY <2>6, <3>1, <3>2 DEF Fates
      <3>4. QED
        BY <3>3
    <2>7. QED
      BY <2>1, <2>2, <2>3, <2>4, <2>5, <2>6
  <1>3. QED
    BY <1>2, FS_Singleton

(* Whatever becomes of the buffer it was given to, a captured event has    *)
(* one fate, with any number of threads and events, any arms and changes,  *)
(* and any capacity (write_via_snapshot, enqueue_buffered, arm, flush).    *)
THEOREM FatesAreSingle == Spec => []EachEventHasOneFate
  <1>1. FateInv /\ [Next]_vars => FateInv'
    BY FateStep
  <1>2. QED
    BY <1>1, FateInit, OneFate, PTL DEF Spec

(***************************************************************************)
(* What a call has waited for is out of the buffer, and what was abandoned *)
(* came while the flush thread was leaving: then there was nothing else.   *)
(***************************************************************************)
SettleInv ==
  /\ settled \subseteq Out
  /\ \A t \in Callers : job[t].before \subseteq Held \cup Out

LEMMA SettleStep == FateInv /\ SettleInv /\ [Next]_vars => SettleInv'
  <1> SUFFICES ASSUME FateInv, SettleInv, [Next]_vars PROVE SettleInv'
    OBVIOUS
  <1>1. Steady
    BY FateStep
  <1>2. Held \cup Out \subseteq Held' \cup Out'
    BY <1>1 DEF Steady
  <1>3. \A t \in Callers : job'[t].before \subseteq Held' \cup Out'
    BY <1>1, <1>2 DEF Steady, SettleInv
  <1>4. settled' \subseteq Out'
    <2>1. CASE settled' = settled
      BY <1>1, <2>1 DEF Steady, SettleInv
    <2>2. ASSUME NEW t \in Callers, Held' = {}, settled' = settled \cup job[t].before PROVE settled' \subseteq Out'
      BY <1>1, <1>2, <2>2 DEF Steady, SettleInv
    <2>3. QED
      BY <1>1, <2>1, <2>2 DEF Steady
  <1>5. QED
    BY <1>3, <1>4 DEF SettleInv

LateInv ==
  /\ abandoned \subseteq late
  /\ HasBuffer /\ buffer[1].leaving => Held \subseteq late

LEMMA LateStep == FateInv /\ LateInv /\ [Next]_vars => LateInv'
  <1> SUFFICES ASSUME FateInv, LateInv, [Next]_vars PROVE LateInv'
    OBVIOUS
  <1>1. ASSUME UNCHANGED <<buffer, abandoned, late>> PROVE LateInv'
    BY <1>1 DEF LateInv, HasBuffer, Held
  <1>2. ASSUME NEW b, buffer' = <<b>>, late \subseteq late', UNCHANGED abandoned,
               b.leaving => Entries(b.queue) \cup b.batch \subseteq late'
        PROVE  LateInv'
    BY <1>2 DEF LateInv, HasBuffer, Held
  <1>3. ASSUME NEW t \in Callers, Enqueue(t) PROVE LateInv'
    <2> DEFINE e == job[t].event
               into == BufferFor(t)
               grown == [into EXCEPT !.queue = Append(into.queue, e)]
    <2>1. e \in Events
      BY <1>3, InHand DEF Enqueue, Capturing
    <2>2. into \in Buffers /\ Held = Entries(into.queue) \cup into.batch
      BY <1>3, BufferForFields DEF Enqueue
    <2>3. into.queue \in Seq(Events) /\ grown.queue = Append(into.queue, e) /\ grown.batch = into.batch /\ grown.leaving = into.leaving
      BY <2>1, <2>2 DEF Buffers
    <2>4. /\ buffer' = <<grown>> \/ buffer' = <<into>>
          /\ UNCHANGED abandoned
          /\ late' = IF into.leaving THEN late \cup {e} ELSE late
      BY <1>3 DEF Enqueue, Handed
    <2>5. into.leaving => Held \subseteq late
      BY DEF BufferFor, Fresh, LateInv
    <2> HIDE DEF grown, into, e
    <2>6. Entries(grown.queue) = Entries(into.queue) \cup {e}
      BY <2>1, <2>3, EntriesOf
    <2>7. QED
      BY <1>2, <2>2, <2>3, <2>4, <2>5, <2>6
  <1>4. ASSUME FlushStep PROVE LateInv'
    <2> DEFINE b == buffer[1]
    <2>1. HasBuffer /\ b \in Buffers /\ UNCHANGED <<abandoned, late>>
      BY <1>4, BufferThere DEF FateInv, FlushStep, Receive, FlushBatch, TimeOut, NoShutdown, Flushing, observed, marks
    <2>2. CASE Receive
      <3>1. ~b.leaving /\ buffer' = <<[b EXCEPT !.batch = b.batch \cup {Head(b.queue)}, !.queue = Tail(b.queue)]>>
        BY <2>2 DEF Receive, Flushing
      <3>2. ~[b EXCEPT !.batch = b.batch \cup {Head(b.queue)}, !.queue = Tail(b.queue)].leaving
        BY <2>1, <3>1 DEF Buffers
      <3>3. QED
        BY <1>2, <2>1, <3>1, <3>2
    <2>3. CASE FlushBatch
      <3>1. ~b.leaving /\ buffer' = <<[b EXCEPT !.batch = {}]>>
        BY <2>3 DEF FlushBatch, Flushing
      <3>2. ~[b EXCEPT !.batch = {}].leaving
        BY <2>1, <3>1 DEF Buffers
      <3>3. QED
        BY <1>2, <2>1, <3>1, <3>2
    <2>4. CASE TimeOut
      <3>1. b.queue = <<>> /\ b.batch = {} /\ buffer' = <<[b EXCEPT !.leaving = TRUE]>>
        BY <2>4 DEF TimeOut
      <3>2. Entries([b EXCEPT !.leaving = TRUE].queue) \cup [b EXCEPT !.leaving = TRUE].batch = {}
        BY <2>1, <3>1 DEF Buffers, Entries
      <3>3. QED
        BY <1>2, <2>1, <3>1, <3>2
    <2>5. CASE NoShutdown
      <3>1. buffer' = <<[b EXCEPT !.leaving = FALSE]>> /\ ~[b EXCEPT !.leaving = FALSE].leaving
        BY <2>1, <2>5 DEF NoShutdown, Buffers
      <3>2. QED
        BY <1>2, <2>1, <3>1
    <2>6. QED
      BY <1>4, <2>2, <2>3, <2>4, <2>5 DEF FlushStep
  <1>5. ASSUME NEW t \in Threads, Join(t) PROVE LateInv'
    <2>1. ~HasBuffer => Held = {}
      BY DEF Held
    <2>2. abandoned' = abandoned \cup Held /\ buffer[1].leaving /\ buffer' = <<>> /\ UNCHANGED late
      BY <1>5 DEF Join, marks
    <2>3. QED
      BY <2>1, <2>2 DEF LateInv, HasBuffer
  <1>6. ASSUME NEW t \in Callers, Refuse(t) \/ WriteNow(t) PROVE LateInv'
    BY <1>1, <1>6 DEF Refuse, WriteNow, marks
  <1>7. ASSUME NEW t \in Callers, NEW e \in Events, NEW forceSync, Snapshot(t, e, forceSync) PROVE LateInv'
    BY <1>1, <1>7 DEF Snapshot, marks
  <1>8. ASSUME NEW t \in Threads, Arm(t) \/ Copy(t) \/ Flush(t) \/ WriteBack(t) \/ Rejected(t) \/ Clear(t) PROVE LateInv'
    <2>1. UNCHANGED <<buffer, abandoned, late>>
      BY <1>8 DEF Arm, Copy, Flush, WriteBack, Rejected, Clear, observed, marks
    <2>2. QED
      BY <1>1, <2>1
  <1>9. ASSUME UNCHANGED vars PROVE LateInv'
    BY <1>1, <1>9 DEF vars, observed, marks
  <1>10. QED
    BY <1>3, <1>4, <1>5, <1>6, <1>7, <1>8, <1>9, Zenon
       DEF Next, CallStep, CaptureStep, Capture, SinkPanics, Callers

(* When a flush, an arm or a configure that dropped the buffer returns,    *)
(* every event held when it was called is stored or counted as dropped,    *)
(* but for those enqueued while the flush thread was leaving, however many *)
(* threads drop or make buffers meanwhile (flush, Guard, witslog_flush).   *)
THEOREM FlushesSettle == Spec => []FlushSettles
  <1>1. Init => SettleInv /\ LateInv
    BY IdleFields DEF Init, SettleInv, LateInv, HasBuffer
  <1>2. FateInv /\ [Next]_vars => FateInv'
    BY FateStep
  <1>3. FateInv /\ SettleInv /\ LateInv => FlushSettles
    BY DEF FateInv, Divided, Division, SettleInv, LateInv, Out, FlushSettles
  <1>4. QED
    BY <1>1, <1>2, <1>3, FateInit, SettleStep, LateStep, PTL DEF Spec

(***************************************************************************)
(* Where events go and whether they are sealed.                            *)
(***************************************************************************)

\* What every step does that starts no capture: what a capture has met stays
\* met, and configurations asked for from now on are met by those under way.
Later ==
  /\ sealed' = sealed /\ Captured' = Captured /\ \A e \in Events : met[e] \subseteq met'[e]
  /\ \A t \in Callers : job'[t].event # NoEvent => job'[t] = job[t]
  /\ \A e \in Events : placed'[e] = placed[e] \/ e \in InCapture
  /\ \A e \in InCapture : \A c \in asked' : c \in asked \/ c \in met'[e]
  /\ (~lost' => ~lost) /\ (~stale' => ~stale)

LEMMA LaterCaptures ==
  ASSUME Later
  PROVE  InCapture' \subseteq InCapture
  BY DEF Later, InCapture

LEMMA CaptureIsLater ==
  ASSUME FateInv, NEW t \in Callers, CaptureStep(t)
  PROVE  /\ Later /\ UNCHANGED <<config, wanted, asked, met, surface, lost>>
         /\ \A u \in Callers : job'[u] = job[u] \/ job'[u] = Idle
  <1> DEFINE e == job[t].event
  <1>1. job[t].pc \in Capturing
    BY DEF CaptureStep, Refuse, Enqueue, WriteNow, Capturing
  <1>2. e \in InCapture
    BY <1>1, InHand
  <1>3. Return(t) /\ UNCHANGED <<config, wanted, asked, met, sealed, surface, lost>>
    BY DEF CaptureStep, Refuse, Enqueue, Handed, WriteNow, fates, goals, marks
  <1>4. \A u \in Callers : job'[u] = job[u] \/ job'[u] = Idle
    BY <1>3, JobEnds DEF FateInv
  <1>5. placed' = placed \/ \E d : placed' = [placed EXCEPT ![e] = d]
    BY DEF CaptureStep, Refuse, Enqueue, Handed, WriteNow, fates
  <1>6. \A f \in Events : placed'[f] = placed[f] \/ f = e
    BY <1>5 DEF FateInv, Typed, RestTyped
  <1>7. ~stale' => ~stale
    BY DEF CaptureStep, Refuse, Enqueue, Handed, WriteNow, marks
  <1>8. Captured' = Captured
    BY <1>3 DEF Captured
  <1> HIDE DEF e
  <1>9. QED
    BY <1>2, <1>3, <1>4, <1>6, <1>7, <1>8, IdleFields DEF Later

LEMMA FlushIsLater ==
  ASSUME FateInv, FlushStep \/ UNCHANGED vars
  PROVE  Later /\ UNCHANGED <<config, wanted, asked, surface, job, lost, stale, met, placed>>
  <1>1. UNCHANGED <<config, wanted, asked, surface, job, lost, stale, met, placed, sealed>>
    BY DEF FlushStep, Receive, FlushBatch, TimeOut, NoShutdown, vars, fates, goals, marks
  <1>2. QED
    BY <1>1 DEF Later, Captured

\* A thread that has no event goes on without one.
LEMMA CallTurns ==
  ASSUME FateInv, NEW t \in Threads, Arm(t) \/ Copy(t) \/ Flush(t) \/ CallStep(t)
  PROVE  /\ t \in Callers /\ job'[t].event = NoEvent /\ \A u \in Callers \ {t} : job'[u] = job[u]
         /\ job'[t].pc = "copied" => surface = "abi" /\ job'[t].snap = config
  <1>1. t \in Callers /\ job[t].event = NoEvent
    BY EmptyHanded DEF Arm, Copy, Flush, Call, CallStep, WriteBack, Rejected, Clear, Join, Callers, Capturing
  <1>2. ASSUME Arm(t) \/ Flush(t)
        PROVE  job'[t].event = NoEvent /\ job'[t].pc = "clear" /\ \A u \in Callers \ {t} : job'[u] = job[u]
    BY <1>1, <1>2, IdleFields DEF Arm, Flush, FateInv, Typed, Idle
  <1>3. ASSUME Copy(t)
        PROVE  /\ job'[t].event = NoEvent /\ job'[t].snap = config /\ surface = "abi"
               /\ \A u \in Callers \ {t} : job'[u] = job[u]
    BY <1>1, <1>3, IdleFields DEF Copy, FateInv, Typed, Idle
  <1>4. ASSUME WriteBack(t) \/ Rejected(t) \/ Clear(t) \/ Join(t)
        PROVE  job'[t].event = NoEvent /\ job'[t].pc # "copied" /\ \A u \in Callers \ {t} : job'[u] = job[u]
    <2>1. Return(t) \/ Goto(t, "clear") \/ Goto(t, "join")
      BY <1>4 DEF WriteBack, Rejected, Clear, Join, Done
    <2>2. CASE Return(t)
      BY <1>1, <2>2, IdleFields DEF Return, FateInv, Typed
    <2>3. ASSUME NEW pc \in {"clear", "join"}, Goto(t, pc)
          PROVE  job'[t].event = NoEvent /\ job'[t].pc # "copied" /\ \A u \in Callers \ {t} : job'[u] = job[u]
      <3>1. job'[t].event = job[t].event /\ job'[t].pc = pc /\ \A u \in Callers \ {t} : job'[u] = job[u]
        BY <1>1, <2>3 DEF Goto, FateInv, Typed, Jobs
      <3>2. QED
        BY <1>1, <3>1
    <2>4. QED
      BY <2>1, <2>2, <2>3
  <1>5. QED
    BY <1>1, <1>2, <1>3, <1>4 DEF CallStep

LEMMA CallIsLater ==
  ASSUME FateInv, NEW t \in Threads, Arm(t) \/ Copy(t) \/ Flush(t) \/ CallStep(t)
  PROVE  Later /\ UNCHANGED <<placed, stale, surface>>
  <1>1. \A u \in Callers : job'[u].event # NoEvent => job'[u] = job[u]
    BY CallTurns
  <1>2. UNCHANGED <<sealed, placed, stale, surface>>
    BY DEF Arm, Copy, Flush, CallStep, WriteBack, Rejected, Clear, Join, fates, marks
  <1>3. ~lost' => ~lost
    BY DEF Arm, Copy, Flush, CallStep, WriteBack, Rejected, Clear, Join, marks
  <1>4. ASSUME NEW new, NEW goal, Install(new, goal)
        PROVE  /\ Captured' = Captured /\ \A e \in Events : met[e] \subseteq met'[e]
               /\ \A e \in InCapture : \A c \in asked' : c \in asked \/ c \in met'[e]
    <2>1. \A e \in Events : met'[e] = IF e \in InCapture THEN met[e] \cup {goal} ELSE met[e]
      BY <1>4 DEF Install
    <2>2. InCapture \subseteq Captured /\ Captured \subseteq Events
      BY DEF FateInv, Divided, Division, Captured
    <2>3. asked' = asked \cup {goal}
      BY <1>4 DEF Install
    <2>4. Captured' = Captured
      BY <2>1, <2>2 DEF Captured
    <2>5. QED
      BY <2>1, <2>2, <2>3, <2>4
  <1>5. CASE Arm(t) \/ WriteBack(t)
    BY <1>1, <1>2, <1>3, <1>4, <1>5 DEF Arm, WriteBack, Later
  <1>6. CASE Copy(t) \/ Flush(t) \/ Rejected(t) \/ Clear(t) \/ Join(t)
    <2>1. met' = met /\ asked' \subseteq asked
      BY <1>6 DEF Copy, Flush, Rejected, Clear, Join, Done, fates, goals, FateInv, Typed
    <2>2. Captured' = Captured
      BY <2>1 DEF Captured
    <2>3. QED
      BY <1>1, <1>2, <1>3, <2>1, <2>2 DEF Later
  <1>7. QED
    BY <1>5, <1>6 DEF CallStep

\* A capture begins: what holds now is what it has met.
LEMMA SnapshotMeets ==
  ASSUME FateInv, NEW t \in Callers, NEW e \in Events, NEW forceSync, Snapshot(t, e, forceSync)
  PROVE  /\ UNCHANGED <<surface, config, buffer, placed, wanted, asked, lost, stale>>
         /\ e \notin Captured /\ Captured' = Captured \cup {e} /\ met'[e] = asked
         /\ \A f \in Events \ {e} : met'[f] = met[f] /\ (f \in sealed' <=> f \in sealed)
         /\ \A u \in Callers \ {t} : job'[u] = job[u]
         /\ \/ /\ job'[t].event = e /\ job'[t].snap = config /\ job'[t].pc # "copied"
               /\ sealed' = IF config.sealed THEN sealed \cup {e} ELSE sealed
            \/ job'[t] = job[t] /\ e \notin InCapture' /\ sealed' = sealed
  <1>1. /\ UNCHANGED <<surface, config, buffer, placed, wanted, asked, lost, stale>> /\ e \notin Captured
        /\ sealed' = (IF config.sealed THEN sealed \cup {e} ELSE sealed) \/ sealed' = sealed
    BY DEF Snapshot, goals, marks
  <1>2. /\ met'[e] = asked /\ \A f \in Events \ {e} : met'[f] = met[f]
    BY DEF Snapshot, FateInv, Typed, RestTyped
  <1>3. Captured' = Captured \cup {e}
    BY <1>1, <1>2 DEF FateInv, Typed, Captured
  <1>4. e \notin InCapture
    BY <1>1 DEF FateInv, Divided, Division
  <1>5. \/ /\ job'[t].event = e /\ job'[t].snap = config /\ job'[t].pc # "copied"
           /\ \A u \in Callers \ {t} : job'[u] = job[u]
           /\ sealed' = IF config.sealed THEN sealed \cup {e} ELSE sealed
        \/ job' = job /\ e \notin InCapture' /\ sealed' = sealed
    <2>1. CASE /\ job' = [job EXCEPT ![t] = [Idle EXCEPT !.event = e, !.snap = config,
                                        !.pc = IF config.buffered /\ ~forceSync THEN "enqueue" ELSE "write"]]
               /\ sealed' = IF config.sealed THEN sealed \cup {e} ELSE sealed
      BY <2>1 DEF Idle, FateInv, Typed
    <2>2. CASE job' = job /\ sealed' = sealed
      BY <1>4, <2>2 DEF InCapture
    <2>3. QED
      BY <2>1, <2>2 DEF Snapshot
  <1>6. QED
    BY <1>1, <1>2, <1>3, <1>5

(***************************************************************************)
(* The database in use is the one asked for last: arm replaces the whole   *)
(* configuration, and configure has no setting for the database.           *)
(***************************************************************************)
Surfaced ==
  /\ config.db = wanted.db
  /\ \A t \in Callers : job[t].pc = "copied" => surface = "abi" /\ job[t].snap.db = wanted.db

\* What has been asked for is met by the captures under way.
Meets == \A t \in Callers : job[t].event # NoEvent => asked \subseteq met[job[t].event]

SnapMet == \A t \in Callers : job[t].event # NoEvent => \E c \in met[job[t].event] : c.db = job[t].snap.db

BufferAsked == ~stale /\ HasBuffer => \E c \in asked : c.db = buffer[1].db

Unplaced == \A e \in Events \ Captured : placed[e] = {}

Follows == ~stale => \A e \in Events : \A d \in placed[e] : \E c \in met[e] : c.db = d

FollowInv == Surfaced /\ Meets /\ SnapMet /\ BufferAsked /\ Unplaced /\ Follows

LEMMA SurfacedStep ==
  ASSUME FateInv, Surfaced, [Next]_vars
  PROVE  Surfaced'
  <1>1. ASSUME NEW t \in Callers, NEW e \in Events, NEW forceSync, Snapshot(t, e, forceSync) PROVE Surfaced'
    BY <1>1, SnapshotMeets DEF Surfaced
  <1>2. ASSUME NEW t \in Callers, CaptureStep(t) PROVE Surfaced'
    BY <1>2, CaptureIsLater, IdleFields DEF Surfaced
  <1>3. ASSUME FlushStep \/ UNCHANGED vars PROVE Surfaced'
    BY <1>3, FlushIsLater DEF Surfaced
  <1>4. ASSUME NEW t \in Threads, Arm(t) PROVE Surfaced'
    <2>1. surface = "ambient" /\ config' = wanted'
      BY <1>4 DEF Arm, Install
    <2>2. \A u \in Callers : job'[u].pc # "copied"
      BY <1>4, <2>1, CallTurns DEF Surfaced
    <2>3. QED
      BY <2>1, <2>2 DEF Surfaced
  <1>5. ASSUME NEW t \in Threads, WriteBack(t) PROVE Surfaced'
    <2> DEFINE c == job[t].change
    <2>1. t \in Callers /\ job[t].pc = "copied" /\ job[t].snap.db = wanted.db
      BY <1>5 DEF WriteBack, Callers, Surfaced
    <2>2. c \in Changes \cup {NoChange} /\ job[t].snap \in Config /\ wanted \in Config
      BY <2>1 DEF FateInv, Typed, Jobs
    <2>3. config' = Changed(job[t].snap, c) /\ wanted' = Changed(wanted, c)
      BY <1>5 DEF WriteBack, Install
    <2>4. config'.db = wanted.db /\ wanted'.db = wanted.db
      BY <2>1, <2>2, <2>3, ChangedConfig
    <2>5. /\ job'[t].pc # "copied" /\ \A u \in Callers \ {t} : job'[u] = job[u]
          /\ surface' = surface
      <3>1. job'[t].pc = "clear"
        BY <1>5, <2>1 DEF WriteBack, Goto, FateInv, Typed, Jobs
      <3>2. QED
        BY <1>5, <3>1, CallTurns, CallIsLater DEF CallStep
    <2>6. QED
      BY <2>4, <2>5 DEF Surfaced
  <1>6. ASSUME NEW t \in Threads, Copy(t) \/ Flush(t) \/ Rejected(t) \/ Clear(t) \/ Join(t) PROVE Surfaced'
    <2>1. UNCHANGED <<config, wanted, surface>>
      BY <1>6 DEF Copy, Flush, Rejected, Clear, Join, goals
    <2>2. /\ t \in Callers /\ \A u \in Callers \ {t} : job'[u] = job[u]
          /\ job'[t].pc = "copied" => surface = "abi" /\ job'[t].snap = config
      BY <1>6, CallTurns DEF CallStep
    <2>3. QED
      BY <2>1, <2>2 DEF Surfaced
  <1>7. QED
    BY <1>1, <1>2, <1>3, <1>4, <1>5, <1>6, Zenon DEF Next, CallStep, Capture, SinkPanics, Callers

\* A step that starts no capture, and places an event where its capture may.
LEMMA FollowKeeps ==
  ASSUME FateInv, FollowInv, Later, Surfaced',
         \A e \in Events : placed'[e] = placed[e] \/ (~stale' => \A d \in placed'[e] : \E c \in met'[e] : c.db = d),
         BufferAsked'
  PROVE  FollowInv'
  <1>1. \A t \in Callers : job'[t].event # NoEvent =>
          job'[t] = job[t] /\ job[t].event \in Events /\ job[t].event \in InCapture
    BY DEF Later, InCapture, FateInv, Typed, Jobs
  <1>2. Meets'
    BY <1>1 DEF Later, FollowInv, Meets
  <1>3. SnapMet'
    BY <1>1 DEF Later, FollowInv, SnapMet
  <1>4. Unplaced'
    <2>1. InCapture \subseteq Captured
      BY DEF FateInv, Divided, Division
    <2>2. QED
      BY <2>1 DEF Later, FollowInv, Unplaced
  <1>5. Follows'
    BY DEF Later, FollowInv, Follows
  <1>6. QED
    BY <1>2, <1>3, <1>4, <1>5 DEF FollowInv

LEMMA FollowInit == Init => FollowInv
  BY IdleFields, ConfigAssumption
     DEF Init, FollowInv, Surfaced, Meets, SnapMet, BufferAsked, HasBuffer, Unplaced, Follows

LEMMA SnapshotFollows ==
  ASSUME FateInv, FollowInv, Surfaced', NEW t \in Callers, NEW e \in Events, NEW forceSync, Snapshot(t, e, forceSync)
  PROVE  FollowInv'
  <1>1. wanted \in asked /\ config.db = wanted.db
    BY DEF FateInv, Typed, FollowInv, Surfaced
  <1>2. \A u \in Callers : job[u].event # NoEvent => job[u].event # e
    BY SnapshotMeets DEF FateInv, Divided, Division, InCapture
  <1>3. \A u \in Callers : job[u].event # NoEvent => job[u].event \in Events
    BY DEF FateInv, Typed, Jobs
  <1>4. Meets'
    BY <1>2, <1>3, SnapshotMeets DEF FollowInv, Meets
  <1>5. SnapMet'
    BY <1>1, <1>2, <1>3, SnapshotMeets DEF FollowInv, SnapMet
  <1>6. BufferAsked'
    BY SnapshotMeets DEF FollowInv, BufferAsked, HasBuffer
  <1>7. Unplaced'
    BY SnapshotMeets DEF FollowInv, Unplaced
  <1>8. Follows'
    BY SnapshotMeets DEF FollowInv, Unplaced, Follows
  <1>9. QED
    BY <1>4, <1>5, <1>6, <1>7, <1>8 DEF FollowInv

LEMMA EnqueueFollows ==
  ASSUME FateInv, FollowInv, Surfaced', NEW t \in Callers, Enqueue(t)
  PROVE  FollowInv'
  <1> DEFINE e == job[t].event
             into == BufferFor(t)
  <1>1. e \in Events /\ e # NoEvent
    BY InHand, NamesAssumption DEF Enqueue, Capturing
  <1>2. /\ Later /\ UNCHANGED <<config, wanted, asked, met, surface, lost>>
    BY CaptureIsLater DEF CaptureStep
  <1>3. /\ placed' = [placed EXCEPT ![e] = {into.db}]
        /\ IF ~HasBuffer /\ job[t].snap.db # config.db THEN stale' = TRUE ELSE UNCHANGED stale
    BY DEF Enqueue, Handed
  <1>4. \E b : buffer' = <<b>> /\ b.db = into.db
    <2>1. into \in Buffers
      BY BufferForFields DEF Enqueue
    <2>2. [into EXCEPT !.queue = Append(into.queue, e)].db = into.db
      BY <1>1, <2>1, BufferTurns
    <2>3. buffer' = <<[into EXCEPT !.queue = Append(into.queue, e)]>> \/ buffer' = <<into>>
      BY DEF Enqueue
    <2>4. QED
      BY <2>2, <2>3
  <1>5. ~HasBuffer => into.db = job[t].snap.db
    BY DEF BufferFor, Fresh
  <1>6. HasBuffer => into = buffer[1]
    BY DEF BufferFor
  <1> HIDE DEF into, e
  <1>7. BufferAsked'
    <2>1. ~stale' => \E c \in asked : c.db = into.db
      <3>1. CASE HasBuffer
        BY <1>2, <1>3, <1>6, <3>1 DEF FollowInv, BufferAsked, Later
      <3>2. CASE ~HasBuffer
        BY <1>3, <1>5, <3>2 DEF FollowInv, Surfaced, FateInv, Typed
      <3>3. QED
        BY <3>1, <3>2
    <2>2. QED
      BY <1>2, <1>4, <2>1 DEF BufferAsked, HasBuffer
  <1>8. ~stale' => \E c \in met'[e] : c.db = into.db
    <2>1. asked \subseteq met[e] /\ \E c \in met[e] : c.db = job[t].snap.db
      BY <1>1 DEF FollowInv, Meets, SnapMet, e
    <2>2. CASE HasBuffer
      BY <1>2, <1>6, <2>1, <2>2 DEF FollowInv, BufferAsked, Later
    <2>3. CASE ~HasBuffer
      BY <1>2, <1>5, <2>1, <2>3
    <2>4. QED
      BY <2>2, <2>3
  <1>9. \A f \in Events : placed'[f] = placed[f] \/ (f = e /\ placed'[f] = {into.db})
    BY <1>3 DEF FateInv, Typed, RestTyped
  <1>10. \A f \in Events : placed'[f] = placed[f] \/ (~stale' => \A d \in placed'[f] : \E c \in met'[f] : c.db = d)
    BY <1>8, <1>9
  <1>11. QED
    BY <1>2, <1>7, <1>10, FollowKeeps

LEMMA WriteFollows ==
  ASSUME FateInv, FollowInv, Surfaced', NEW t \in Callers, Refuse(t) \/ WriteNow(t)
  PROVE  FollowInv'
  <1> DEFINE e == job[t].event
  <1>1. e \in Events /\ e # NoEvent
    BY InHand, NamesAssumption DEF Refuse, WriteNow, Capturing
  <1>2. Later /\ UNCHANGED <<asked, met>>
    BY CaptureIsLater DEF CaptureStep
  <1>3. (placed' = placed \/ placed' = [placed EXCEPT ![e] = {job[t].snap.db}]) /\ UNCHANGED <<buffer, stale>>
    BY DEF Refuse, WriteNow, fates, marks
  <1>4. \E c \in met'[e] : c.db = job[t].snap.db
    BY <1>1, <1>2 DEF FollowInv, SnapMet
  <1>5. \A f \in Events : placed'[f] = placed[f] \/ (f = e /\ placed'[f] = {job[t].snap.db})
    BY <1>3 DEF FateInv, Typed, RestTyped
  <1>6. BufferAsked'
    BY <1>2, <1>3 DEF FollowInv, BufferAsked, HasBuffer
  <1>7. \A f \in Events : placed'[f] = placed[f] \/ (~stale' => \A d \in placed'[f] : \E c \in met'[f] : c.db = d)
    BY <1>4, <1>5
  <1> HIDE DEF e
  <1>8. QED
    BY <1>2, <1>6, <1>7, FollowKeeps

LEMMA FlushFollows ==
  ASSUME FateInv, FollowInv, Surfaced', FlushStep \/ UNCHANGED vars
  PROVE  FollowInv'
  <1>1. Later /\ UNCHANGED <<asked, placed, stale>>
    BY FlushIsLater
  <1>2. buffer' = buffer \/ (HasBuffer /\ \E b : buffer' = <<b>> /\ b.db = buffer[1].db)
    <2>1. CASE Receive
      <3>1. HasBuffer /\ buffer[1] \in Buffers
        BY <2>1, BufferThere DEF Receive, Flushing, FateInv
      <3>2. [buffer[1] EXCEPT !.batch = buffer[1].batch \cup {Head(buffer[1].queue)}, !.queue = Tail(buffer[1].queue)].db = buffer[1].db
        BY <3>1 DEF Buffers
      <3>3. QED
        BY <2>1, <3>1, <3>2 DEF Receive
    <2>2. CASE FlushBatch \/ TimeOut \/ NoShutdown
      <3>1. HasBuffer /\ buffer[1] \in Buffers
        BY <2>2, BufferThere DEF FlushBatch, TimeOut, NoShutdown, Flushing, FateInv
      <3>2. QED
        BY <2>2, <3>1, BufferTurns DEF FlushBatch, TimeOut, NoShutdown
    <2>3. CASE UNCHANGED vars
      BY <2>3 DEF vars
    <2>4. QED
      BY <2>1, <2>2, <2>3 DEF FlushStep
  <1>3. BufferAsked'
    BY <1>1, <1>2 DEF FollowInv, BufferAsked, HasBuffer
  <1>4. QED
    BY <1>1, <1>3, FollowKeeps

LEMMA CallFollows ==
  ASSUME FateInv, FollowInv, Surfaced', NEW t \in Threads, Arm(t) \/ Copy(t) \/ Flush(t) \/ CallStep(t)
  PROVE  FollowInv'
  <1>1. Later /\ UNCHANGED <<placed, stale>>
    BY CallIsLater
  <1>2. (buffer' = buffer /\ asked \subseteq asked') \/ buffer' = <<>>
    BY DEF Arm, Copy, Flush, CallStep, WriteBack, Rejected, Install, Clear, Join, HasBuffer, goals
  <1>3. BufferAsked'
    BY <1>1, <1>2 DEF FollowInv, BufferAsked, HasBuffer
  <1>4. QED
    BY <1>1, <1>3, FollowKeeps

LEMMA FollowStep == FateInv /\ FollowInv /\ [Next]_vars => FollowInv'
  <1> SUFFICES ASSUME FateInv, FollowInv, [Next]_vars PROVE FollowInv'
    OBVIOUS
  <1>1. Surfaced'
    BY SurfacedStep DEF FollowInv
  <1>2. ASSUME NEW t \in Callers, NEW e \in Events, NEW forceSync, Snapshot(t, e, forceSync) PROVE FollowInv'
    BY <1>1, <1>2, SnapshotFollows
  <1>3. ASSUME NEW t \in Callers, CaptureStep(t) PROVE FollowInv'
    BY <1>1, <1>3, EnqueueFollows, WriteFollows DEF CaptureStep
  <1>4. ASSUME FlushStep \/ UNCHANGED vars PROVE FollowInv'
    BY <1>1, <1>4, FlushFollows
  <1>5. ASSUME NEW t \in Threads, Arm(t) \/ Copy(t) \/ Flush(t) \/ CallStep(t) PROVE FollowInv'
    BY <1>1, <1>5, CallFollows
  <1>6. QED
    BY <1>2, <1>3, <1>4, <1>5, Zenon DEF Next, Capture, SinkPanics, Callers

(* An event goes to a database that was asked for at some time during its  *)
(* capture, whatever arms, flushes and captures run beside it, as long as  *)
(* no capture made a buffer from a configuration that an arm had replaced  *)
(* since its snapshot (arm, enqueue_buffered).                             *)
THEOREM ConfiguredIsReached == Spec => []EventsReachConfigured
  <1>1. FateInv /\ [Next]_vars => FateInv'
    BY FateStep
  <1>2. FollowInv => EventsReachConfigured
    BY DEF FollowInv, Follows, EventsReachConfigured, EventsFollowConfig, Captured
  <1>3. QED
    BY <1>1, <1>2, FateInit, FollowInit, FollowStep, PTL DEF Spec

(***************************************************************************)
(* Until one configure writes over another, the configuration is the one   *)
(* asked for, and an event is sealed by what it has met.                   *)
(***************************************************************************)
Intended == ~lost => config = wanted

Unsealed == \A e \in Events \ Captured : e \notin sealed /\ placed[e] = {}

MetSealed ==
  ~lost => \A e \in Events : e \in InCapture \/ placed[e] # {} => \E c \in met[e] : c.sealed = TRUE <=> e \in sealed

SealInv == Intended /\ Unsealed /\ MetSealed

LEMMA SealInit == Init => SealInv
  BY IdleFields DEF Init, SealInv, Intended, Unsealed, MetSealed, InCapture

LEMMA SealKeeps ==
  ASSUME FateInv, SealInv, Later, Intended'
  PROVE  SealInv'
  <1>1. InCapture' \subseteq InCapture
    BY LaterCaptures
  <1>2. InCapture \subseteq Captured
    BY DEF FateInv, Divided, Division
  <1>3. Unsealed'
    BY <1>2 DEF Later, SealInv, Unsealed
  <1>4. MetSealed'
    BY <1>1 DEF Later, SealInv, MetSealed
  <1>5. QED
    BY <1>3, <1>4 DEF SealInv

LEMMA SealStep == FateInv /\ SealInv /\ [Next]_vars => SealInv'
  <1> SUFFICES ASSUME FateInv, SealInv, [Next]_vars PROVE SealInv'
    OBVIOUS
  <1>1. ASSUME NEW t \in Callers, NEW e \in Events, NEW forceSync, Snapshot(t, e, forceSync) PROVE SealInv'
    <2>1. Intended' /\ Unsealed'
      BY <1>1, SnapshotMeets DEF SealInv, Intended, Unsealed
    <2>2. \A f \in InCapture' : f = e \/ f \in InCapture
      BY <1>1, SnapshotMeets DEF InCapture
    <2>3. wanted \in asked /\ e \notin sealed /\ placed'[e] = {}
      BY <1>1, SnapshotMeets DEF FateInv, Typed, SealInv, Unsealed
    <2>4. ~lost /\ e \in InCapture' => \E c \in met'[e] : c.sealed = TRUE <=> e \in sealed'
      <3>1. config.sealed \in BOOLEAN
        BY DEF FateInv, Typed, Config
      <3>2. e \in InCapture' => (config.sealed = TRUE <=> e \in sealed')
        BY <1>1, <2>3, <3>1, SnapshotMeets
      <3>3. QED
        BY <1>1, <2>3, <3>2, SnapshotMeets DEF SealInv, Intended
    <2>5. MetSealed'
      BY <1>1, <2>2, <2>3, <2>4, SnapshotMeets DEF SealInv, MetSealed
    <2>6. QED
      BY <2>1, <2>5 DEF SealInv
  <1>2. ASSUME NEW t \in Callers, CaptureStep(t) PROVE SealInv'
    BY <1>2, CaptureIsLater, SealKeeps DEF SealInv, Intended
  <1>3. ASSUME FlushStep \/ UNCHANGED vars PROVE SealInv'
    BY <1>3, FlushIsLater, SealKeeps DEF SealInv, Intended
  <1>4. ASSUME NEW t \in Threads, Arm(t) \/ Copy(t) \/ Flush(t) \/ CallStep(t) PROVE SealInv'
    <2>1. CASE Arm(t)
      BY <1>4, <2>1, CallIsLater, SealKeeps DEF Arm, Install, Intended
    <2>2. CASE WriteBack(t)
      <3>1. ~lost' => ~lost /\ config = job[t].snap
        BY <2>2 DEF WriteBack
      <3>2. Intended'
        BY <2>2, <3>1 DEF WriteBack, Install, SealInv, Intended
      <3>3. QED
        BY <1>4, <3>2, CallIsLater, SealKeeps
    <2>3. CASE Copy(t) \/ Flush(t) \/ Rejected(t) \/ Clear(t) \/ Join(t)
      <3>1. UNCHANGED <<config, wanted, lost>>
        BY <2>3 DEF Copy, Flush, Rejected, Clear, Join, goals, marks
      <3>2. QED
        BY <1>4, <3>1, CallIsLater, SealKeeps DEF SealInv, Intended
    <2>4. QED
      BY <1>4, <2>1, <2>2, <2>3 DEF CallStep
  <1>5. QED
    BY <1>1, <1>2, <1>3, <1>4, Zenon DEF Next, Capture, SinkPanics, Callers

(* Metadata is written encrypted exactly if a key was asked for at some    *)
(* time during the capture, whatever later calls change other settings,    *)
(* unless one configure wrote over another (witslog_configure,             *)
(* witslog_log).                                                           *)
THEOREM SealedAsConfigured == Spec => []SealedAsAsked
  <1>1. FateInv /\ [Next]_vars => FateInv'
    BY FateStep
  <1>2. FateInv /\ SealInv => SealedAsAsked
    <2> SUFFICES ASSUME FateInv, SealInv, ~lost, NEW e \in Captured, placed[e] # {}
                 PROVE  (e \in sealed) \in {c.sealed : c \in met[e]}
      BY DEF SealedAsAsked
    <2>1. e \in Events
      BY DEF Captured
    <2>2. PICK c \in met[e] : c.sealed = TRUE <=> e \in sealed
      BY <2>1 DEF SealInv, MetSealed
    <2>3. c.sealed \in BOOLEAN
      BY <2>1, <2>2 DEF FateInv, Typed, RestTyped, Config
    <2>4. CASE e \in sealed
      <3>1. c.sealed = TRUE
        BY <2>2, <2>4
      <3>2. (e \in sealed) = c.sealed
        BY <2>4, <3>1, Zenon
      <3>3. QED
        BY <2>2, <3>2, Zenon
    <2>5. CASE e \notin sealed
      <3>1. c.sealed = FALSE
        BY <2>2, <2>3, <2>5
      <3>2. (e \in sealed) = c.sealed
        <4>1. (e \in sealed) = FALSE
          BY <2>5
        <4>2. QED
          BY <3>1, <4>1, Zenon
      <3>3. QED
        BY <2>2, <3>2, Zenon
    <2>6. QED
      BY <2>4, <2>5
  <1>3. QED
    BY <1>1, <1>2, FateInit, SealInit, SealStep, PTL DEF Spec

-----------------------------------------------------------------------------
(***************************************************************************)
(* Dispatch.  The threads and events are those above, and the throttle is  *)
(* ThrottledNotifier's; the other state of Notify is apart from Provider's.*)
(***************************************************************************)
CONSTANTS Loud, Throttled, MaxTime, MaxArms

VARIABLES armed, over

Dispatch == INSTANCE Notify

Registries == 0..MaxArms + 1

Dispatches == [pc : {"idle", "call", "inner"}, plugin : Nat, event : Events \cup {Never}, registry : Registries]

Verdicts == [event : Events, registry : Registries, at : Int, passed : BOOLEAN]

DispatchTyped ==
  /\ Dispatch!NotifyAssumption
  /\ now \in Int /\ armed \in Registries
  /\ last_fired \in [Registries -> [Dispatch!Fingerprints -> Int \cup {Never}]]
  /\ dispatching \in [Threads -> Dispatches]
  /\ \A t \in Threads : /\ dispatching[t].pc # "idle" => dispatching[t].event \in Events
                        /\ dispatching[t].pc = "inner" => dispatching[t].plugin \in 1..Len(Throttled)
  /\ verdicts \subseteq Verdicts
  /\ DOMAIN lines = {"written", "failed"}

LastFired(x) == last_fired[x.registry][Fingerprint[x.event]]

\* The throttle remembers the last event of a fingerprint that it let through.
Remembered ==
  /\ \A x \in verdicts : x.passed => LastFired(x) # Never /\ x.at <= LastFired(x)
  /\ \A r \in Registries, f \in Dispatch!Fingerprints : last_fired[r][f] # Never =>
       /\ last_fired[r][f] <= now
       /\ \E x \in verdicts : x.passed /\ x.registry = r /\ Fingerprint[x.event] = f /\ x.at = last_fired[r][f]

\* What was let through has its line, or could not be written, or is about to be.
Handled(e) ==
  \/ e \in lines.written \cup lines.failed
  \/ \E t \in Threads : dispatching[t].event = e /\ dispatching[t].pc = "inner"

Delivered == \A x \in verdicts : x.passed => Handled(x.event)

NotifyInv == DispatchTyped /\ Remembered /\ Delivered

LEMMA DispatchTypedInit == Dispatch!NotifyAssumption /\ Dispatch!Init => DispatchTyped
  BY DEF Dispatch!NotifyAssumption, Dispatch!Init, Dispatch!Fingerprints, DispatchTyped, Registries, Dispatches, Dispatch!Idle

LEMMA IdleDispatch ==
  Dispatch!NotifyAssumption => Dispatch!Idle \in Dispatches /\ Dispatch!Idle.pc = "idle"
  BY DEF Dispatch!NotifyAssumption, Dispatch!Idle, Dispatches, Registries

(***************************************************************************)
(* Steps that leave the throttle alone.                                    *)
(***************************************************************************)
LEMMA ProceedJob ==
  ASSUME DispatchTyped, NEW t \in Threads, dispatching[t].pc # "idle", dispatching[t].plugin \in 1..Len(Throttled), Dispatch!Proceed(t)
  PROVE  /\ dispatching' \in [Threads -> Dispatches]
         /\ \A u \in Threads : dispatching'[u].event = dispatching[u].event
         /\ \A u \in Threads \ {t} : dispatching'[u] = dispatching[u]
         /\ dispatching'[t].pc = "call"
  <1>1. dispatching[t] \in Dispatches /\ dispatching[t].plugin + 1 \in Nat
    BY DEF DispatchTyped, Dispatches
  <1>2. QED
    BY <1>1 DEF Dispatch!Proceed, DispatchTyped, Dispatches

LEMMA QuietDispatch ==
  ASSUME NotifyInv,
         UNCHANGED last_fired, UNCHANGED verdicts, UNCHANGED lines, now' \in {now, now + 1},
         \A u \in Threads : dispatching[u].pc = "inner" => dispatching'[u].pc = "inner" /\ dispatching'[u].event = dispatching[u].event
  PROVE  Remembered' /\ Delivered'
  <1>1. Remembered'
    BY DEF NotifyInv, DispatchTyped, Remembered, LastFired
  <1>2. Delivered'
    BY DEF NotifyInv, Delivered, Handled
  <1>3. QED
    BY <1>1, <1>2

(***************************************************************************)
(* The throttle.  An event let through is at least an interval later than  *)
(* the one remembered, which is the last of its fingerprint.               *)
(***************************************************************************)
Spaced == \A x, y \in verdicts :
  x.passed /\ y.passed /\ x.event # y.event /\ SameSource(x, y) => x.at - y.at >= Interval \/ y.at - x.at >= Interval

HeldBack ==
  \A y \in verdicts : ~y.passed =>
    \E x \in verdicts : x.passed /\ SameSource(x, y) /\ y.at - x.at \in 0..Interval - 1

IsVerdict(v, f, t) ==
  v.event = dispatching[t].event /\ v.registry = dispatching[t].registry /\ v.at = now /\ f = Fingerprint[v.event]

LEMMA VerdictFields ==
  ASSUME DispatchTyped, NEW t \in Threads, Dispatch!At(t, "call", TRUE), NEW b \in BOOLEAN
  PROVE  /\ Dispatch!Verdict(t, b) \in Verdicts /\ Dispatch!Verdict(t, b).passed = b
         /\ Fingerprint[Dispatch!Verdict(t, b).event] \in Dispatch!Fingerprints
         /\ IsVerdict(Dispatch!Verdict(t, b), Fingerprint[Dispatch!Verdict(t, b).event], t)
  BY DEF Dispatch!Verdict, Verdicts, DispatchTyped, Dispatches, Dispatch!At, Dispatch!Fingerprints, IsVerdict

LEMMA PassStep ==
  ASSUME NotifyInv, Spaced, HeldBack, NEW t \in Threads, Dispatch!At(t, "call", TRUE), Dispatch!Elapsed(t),
         NEW v \in Verdicts, NEW f \in Dispatch!Fingerprints, IsVerdict(v, f, t), v.passed = TRUE,
         verdicts' = verdicts \cup {v}, last_fired' = Dispatch!Fired(t), UNCHANGED now, UNCHANGED lines,
         UNCHANGED armed, dispatching' = [dispatching EXCEPT ![t].pc = "inner"]
  PROVE  NotifyInv' /\ Spaced' /\ HeldBack'
  <1>1. /\ v \in Verdicts /\ v.event = dispatching[t].event /\ v.registry = dispatching[t].registry /\ v.at = now
        /\ v.passed = TRUE /\ v.event \in Events /\ v.registry \in Registries
        /\ f \in Dispatch!Fingerprints /\ f = Fingerprint[v.event]
    BY DEF IsVerdict, Verdicts
  <1>2. last_fired[v.registry][f] = Never \/ now - last_fired[v.registry][f] >= Interval
    BY <1>1 DEF Dispatch!Elapsed
  <1>3. /\ last_fired' \in [Registries -> [Dispatch!Fingerprints -> Int \cup {Never}]]
        /\ last_fired'[v.registry][f] = now
        /\ \A q \in Registries, g \in Dispatch!Fingerprints : q # v.registry \/ g # f => last_fired'[q][g] = last_fired[q][g]
    BY <1>1 DEF NotifyInv, DispatchTyped, Dispatch!Fired
  <1>4. /\ verdicts' = verdicts \cup {v} /\ \A x \in verdicts : x \in Verdicts /\ Fingerprint[x.event] \in Dispatch!Fingerprints
        /\ now \in Int
    BY DEF NotifyInv, DispatchTyped, Verdicts, Dispatch!Fingerprints
  <1>5. /\ dispatching' \in [Threads -> Dispatches] /\ dispatching'[t].pc = "inner" /\ dispatching'[t].event = dispatching[t].event
        /\ \A u \in Threads \ {t} : dispatching'[u] = dispatching[u]
        /\ dispatching'[t].plugin \in 1..Len(Throttled)
    BY DEF NotifyInv, DispatchTyped, Dispatches, Dispatch!At
  <1>6. \A x \in verdicts : x.passed /\ x.registry = v.registry /\ Fingerprint[x.event] = f =>
          x.at \in Int /\ last_fired[v.registry][f] \in Int /\ last_fired[v.registry][f] <= now /\ x.at <= last_fired[v.registry][f]
    BY <1>1, <1>4 DEF NotifyInv, Remembered, LastFired, DispatchTyped, Verdicts
  <1>7. DispatchTyped'
    BY <1>1, <1>3, <1>4, <1>5 DEF NotifyInv, DispatchTyped
  <1>8. \A x \in verdicts : SameSource(x, v) <=> x.registry = v.registry /\ Fingerprint[x.event] = f
    BY <1>1 DEF SameSource
  <1>9. Remembered'
    <2>1. ASSUME NEW x \in verdicts', x.passed PROVE LastFired(x)' # Never /\ x.at <= LastFired(x)'
      <3>1. CASE x.registry = v.registry /\ Fingerprint[x.event] = f
        BY <1>1, <1>3, <1>4, <1>6, <2>1, <3>1 DEF LastFired, NotifyInv, DispatchTyped, Dispatch!NotifyAssumption
      <3>2. CASE ~(x.registry = v.registry /\ Fingerprint[x.event] = f)
        BY <1>1, <1>3, <1>4, <1>8, <2>1, <3>2 DEF LastFired, NotifyInv, Remembered, Verdicts
      <3>3. QED
        BY <3>1, <3>2
    <2>2. ASSUME NEW q \in Registries, NEW g \in Dispatch!Fingerprints, last_fired'[q][g] # Never
          PROVE  /\ last_fired'[q][g] <= now'
                 /\ \E x \in verdicts' : x.passed /\ x.registry = q /\ Fingerprint[x.event] = g /\ x.at = last_fired'[q][g]
      <3>1. CASE q = v.registry /\ g = f
        BY <1>1, <1>3, <1>4, <1>8, <3>1
      <3>2. CASE ~(q = v.registry /\ g = f)
        BY <1>3, <1>4, <2>2, <3>2 DEF NotifyInv, Remembered
      <3>3. QED
        BY <3>1, <3>2
    <2>3. QED
      BY <2>1, <2>2 DEF Remembered
  <1>10. Delivered'
    <2>1. Handled(v.event)'
      BY <1>1, <1>5 DEF Handled
    <2>2. ASSUME NEW x \in verdicts, x.passed PROVE Handled(x.event)'
      <3>1. Handled(x.event)
        BY <2>2 DEF NotifyInv, Delivered
      <3>2. dispatching[t].pc # "inner"
        BY DEF Dispatch!At
      <3>3. QED
        BY <1>5, <3>1, <3>2 DEF Handled
    <2>3. QED
      BY <1>4, <2>1, <2>2 DEF Delivered
  <1>11. \A x \in verdicts : x.passed /\ SameSource(x, v) => v.at - x.at >= Interval
    BY <1>1, <1>2, <1>4, <1>6, <1>8 DEF NotifyInv, DispatchTyped, Dispatch!NotifyAssumption
  <1>12. Spaced'
    BY <1>1, <1>4, <1>11 DEF Spaced, SameSource
  <1>13. HeldBack'
    BY <1>1, <1>4 DEF HeldBack
  <1>14. QED
    BY <1>7, <1>9, <1>10, <1>12, <1>13 DEF NotifyInv

LEMMA HoldStep ==
  ASSUME NotifyInv, Spaced, HeldBack, NEW t \in Threads, Dispatch!At(t, "call", TRUE), ~Dispatch!Elapsed(t),
         NEW v \in Verdicts, NEW f \in Dispatch!Fingerprints, IsVerdict(v, f, t), v.passed = FALSE,
         verdicts' = verdicts \cup {v}, UNCHANGED last_fired, UNCHANGED now, UNCHANGED lines,
         UNCHANGED armed, Dispatch!Proceed(t)
  PROVE  NotifyInv' /\ Spaced' /\ HeldBack'
  <1>1. /\ v \in Verdicts /\ v.event = dispatching[t].event /\ v.registry = dispatching[t].registry /\ v.at = now
        /\ v.passed = FALSE /\ v.event \in Events /\ v.registry \in Registries
        /\ f \in Dispatch!Fingerprints /\ f = Fingerprint[v.event]
    BY DEF IsVerdict, Verdicts
  <1>2. /\ dispatching' \in [Threads -> Dispatches] /\ \A u \in Threads : dispatching'[u].event = dispatching[u].event
        /\ \A u \in Threads \ {t} : dispatching'[u] = dispatching[u]
        /\ dispatching'[t].pc = "call" /\ dispatching[t].pc = "call"
    BY ProceedJob DEF NotifyInv, Dispatch!At
  <1>3. last_fired[v.registry][f] # Never /\ ~(now - last_fired[v.registry][f] >= Interval) /\ now \in Int /\ last_fired[v.registry][f] \in Int
    BY <1>1 DEF Dispatch!Elapsed, NotifyInv, DispatchTyped
  <1>4. verdicts' = verdicts \cup {v}
    OBVIOUS
  <1>5. /\ last_fired[v.registry][f] <= now
        /\ \E x \in verdicts : x.passed /\ x.registry = v.registry /\ Fingerprint[x.event] = f /\ x.at = last_fired[v.registry][f]
    BY <1>1, <1>3 DEF NotifyInv, Remembered
  <1>6. PICK x \in verdicts : x.passed /\ x.registry = v.registry /\ Fingerprint[x.event] = f /\ x.at = last_fired[v.registry][f]
    BY <1>5
  <1>7. SameSource(x, v)
    BY <1>1, <1>6 DEF SameSource
  <1>8. DispatchTyped'
    BY <1>1, <1>2, <1>4 DEF NotifyInv, DispatchTyped
  <1>9. Remembered'
    BY <1>1, <1>4 DEF NotifyInv, Remembered, LastFired
  <1>10. Delivered'
    BY <1>1, <1>2, <1>4 DEF NotifyInv, Delivered, Handled
  <1>11. Spaced'
    BY <1>1, <1>4 DEF Spaced
  <1>12. v.at - x.at \in 0..Interval - 1
    BY <1>1, <1>3, <1>5, <1>6 DEF NotifyInv, DispatchTyped, Dispatch!NotifyAssumption
  <1>13. HeldBack'
    BY <1>1, <1>4, <1>6, <1>7, <1>12 DEF HeldBack
  <1>14. QED
    BY <1>8, <1>9, <1>10, <1>11, <1>13 DEF NotifyInv

ThrottleInv == NotifyInv /\ Spaced /\ HeldBack

LEMMA ThrottleInit == Dispatch!NotifyAssumption /\ Dispatch!Init => ThrottleInv
  BY DispatchTypedInit
     DEF Dispatch!NotifyAssumption, Dispatch!Init, ThrottleInv, NotifyInv, Remembered, Delivered, Spaced, HeldBack, Registries

LEMMA ThrottleStep ==
  ASSUME ThrottleInv, NEW t \in Threads, Dispatch!Throttle(t)
  PROVE  ThrottleInv'
  <1>1. Dispatch!At(t, "call", TRUE) /\ UNCHANGED now /\ UNCHANGED lines /\ UNCHANGED armed
    BY DEF Dispatch!Throttle
  <1>2. CASE Dispatch!Elapsed(t)
    <2>1. /\ verdicts' = verdicts \cup {Dispatch!Verdict(t, TRUE)} /\ last_fired' = Dispatch!Fired(t)
          /\ dispatching' = [dispatching EXCEPT ![t].pc = "inner"]
      BY <1>2 DEF Dispatch!Throttle
    <2>2. QED
      BY <1>1, <1>2, <2>1, PassStep, VerdictFields DEF ThrottleInv, NotifyInv
  <1>3. CASE ~Dispatch!Elapsed(t)
    <2>1. Dispatch!Elapsed(t) = FALSE
      BY <1>3, Zenon DEF Dispatch!Elapsed
    <2>2. verdicts' = verdicts \cup {Dispatch!Verdict(t, FALSE)}
      BY <2>1, Zenon DEF Dispatch!Throttle
    <2>3. UNCHANGED last_fired /\ Dispatch!Proceed(t)
      BY <1>3, Zenon DEF Dispatch!Throttle
    <2>4. QED
      BY <1>1, <1>3, <2>2, <2>3, HoldStep, VerdictFields DEF ThrottleInv, NotifyInv
  <1>4. QED
    BY <1>2, <1>3

LEMMA ThrottleInvStep == ThrottleInv /\ [Dispatch!Next]_(Dispatch!vars) => ThrottleInv'
  <1> SUFFICES ASSUME ThrottleInv, [Dispatch!Next]_(Dispatch!vars) PROVE ThrottleInv'
    OBVIOUS
  <1>i. NotifyInv /\ DispatchTyped /\ Spaced /\ HeldBack
    BY DEF ThrottleInv, NotifyInv
  <1>q. ASSUME DispatchTyped', UNCHANGED last_fired, UNCHANGED verdicts, UNCHANGED lines, now' \in {now, now + 1},
               \A u \in Threads : dispatching[u].pc = "inner" => dispatching'[u].pc = "inner" /\ dispatching'[u].event = dispatching[u].event
        PROVE  ThrottleInv'
    BY <1>q, <1>i, QuietDispatch DEF ThrottleInv, NotifyInv, Spaced, HeldBack
  <1>1. CASE Dispatch!Tick
    <2>1. DispatchTyped' /\ UNCHANGED dispatching
      BY <1>1, <1>i DEF Dispatch!Tick, DispatchTyped, Dispatch!histories
    <2>2. QED
      BY <1>1, <2>1, <1>q DEF Dispatch!Tick, Dispatch!histories
  <1>2. CASE Dispatch!build_notify_registry
    <2>1. DispatchTyped' /\ UNCHANGED dispatching
      BY <1>2, <1>i DEF Dispatch!NotifyAssumption, Dispatch!build_notify_registry, DispatchTyped, Registries, Dispatch!histories
    <2>2. QED
      BY <1>2, <2>1, <1>q DEF Dispatch!build_notify_registry, Dispatch!histories
  <1>3. ASSUME NEW t \in Threads, NEW e \in Events, Dispatch!dispatch_notify(t, e) PROVE ThrottleInv'
    <2> DEFINE next == [Dispatch!Idle EXCEPT !.pc = "call", !.plugin = 1, !.event = e, !.registry = armed]
    <2>1. next \in Dispatches /\ next.pc = "call" /\ next.event = e
      BY <1>i DEF DispatchTyped, Dispatches, Dispatch!Idle
    <2>2. dispatching[t].pc = "idle" /\ dispatching' = [dispatching EXCEPT ![t] = next] /\ UNCHANGED <<now, armed, last_fired, verdicts, lines>>
      BY <1>i, <1>3, IdleDispatch DEF DispatchTyped, Dispatch!dispatch_notify, Dispatch!histories
    <2> HIDE DEF next
    <2>3. DispatchTyped'
      BY <1>i, <2>1, <2>2 DEF DispatchTyped
    <2>4. \A u \in Threads : dispatching[u].pc = "inner" => dispatching'[u] = dispatching[u]
      BY <1>i, <2>2 DEF DispatchTyped
    <2>5. QED
      BY <2>2, <2>3, <2>4, <1>q
  <1>4. ASSUME NEW t \in Threads, Dispatch!CallPlugin(t) PROVE ThrottleInv'
    <2>1. dispatching[t].pc = "call" /\ Dispatch!Proceed(t) /\ dispatching[t].plugin \in 1..Len(Throttled)
      BY <1>4 DEF Dispatch!CallPlugin, Dispatch!At
    <2>2. UNCHANGED <<now, armed, last_fired, verdicts, lines>>
      BY <1>4 DEF Dispatch!CallPlugin, Dispatch!histories
    <2>3. DispatchTyped'
      BY <1>i, <2>1, <2>2, ProceedJob DEF DispatchTyped
    <2>4. \A u \in Threads : dispatching[u].pc = "inner" => dispatching'[u] = dispatching[u]
      BY <1>i, <2>1, ProceedJob
    <2>5. QED
      BY <2>2, <2>3, <2>4, <1>q
  <1>5. ASSUME NEW t \in Threads, Dispatch!AppendLine(t) PROVE ThrottleInv'
    <2>1. dispatching[t].pc = "inner" /\ Dispatch!Proceed(t) /\ dispatching[t].plugin \in 1..Len(Throttled)
      BY <1>5 DEF Dispatch!AppendLine, Dispatch!At
    <2>2. UNCHANGED <<now, armed, last_fired, verdicts>>
      BY <1>5 DEF Dispatch!AppendLine
    <2>3. /\ dispatching' \in [Threads -> Dispatches] /\ dispatching'[t].pc = "call" /\ dispatching'[t].event = dispatching[t].event
          /\ \A u \in Threads \ {t} : dispatching'[u] = dispatching[u]
      BY <1>i, <2>1, ProceedJob
    <2>4. /\ DOMAIN lines' = {"written", "failed"} /\ dispatching[t].event \in lines'.written \cup lines'.failed
          /\ lines.written \subseteq lines'.written /\ lines.failed \subseteq lines'.failed
      BY <1>5, <1>i DEF Dispatch!AppendLine, DispatchTyped
    <2>5. DispatchTyped'
      BY <1>i, <2>1, <2>2, <2>3, <2>4 DEF DispatchTyped
    <2>6. Remembered'
      BY <1>i, <2>2 DEF NotifyInv, Remembered, LastFired
    <2>7. Delivered'
      BY <1>i, <2>2, <2>3, <2>4 DEF NotifyInv, Delivered, Handled
    <2>8. QED
      BY <1>i, <2>2, <2>5, <2>6, <2>7 DEF ThrottleInv, NotifyInv, Spaced, HeldBack
  <1>6. ASSUME NEW t \in Threads, Dispatch!Return(t) PROVE ThrottleInv'
    <2>1. dispatching' = [dispatching EXCEPT ![t] = Dispatch!Idle] /\ UNCHANGED <<now, armed, last_fired, verdicts, lines>>
      BY <1>6 DEF Dispatch!Return
    <2>2. dispatching[t].plugin = Len(Throttled) + 1
      BY <1>6 DEF Dispatch!Return
    <2>3. DispatchTyped'
      BY <1>i, <2>1, IdleDispatch DEF DispatchTyped
    <2>4. dispatching[t].pc # "inner"
      <3>1. Len(Throttled) \in Nat
        BY <1>i DEF DispatchTyped, Dispatch!NotifyAssumption
      <3>2. QED
        BY <1>i, <2>2, <3>1 DEF DispatchTyped
    <2>5. QED
      BY <1>i, <2>1, <2>3, <2>4, <1>q DEF DispatchTyped
  <1>7. CASE UNCHANGED Dispatch!vars
    <2>1. DispatchTyped'
      BY <1>7, <1>i DEF Dispatch!vars, Dispatch!histories, DispatchTyped
    <2>2. QED
      BY <1>7, <2>1, <1>q DEF Dispatch!vars, Dispatch!histories
  <1>8. CASE \E t \in Threads : Dispatch!Step(t)
    BY <1>i, <1>4, <1>5, <1>6, <1>8, ThrottleStep DEF Dispatch!Step
  <1>9. QED
    BY <1>1, <1>2, <1>3, <1>7, <1>8 DEF Dispatch!Next

(* Every reachable state satisfies the inductive invariant.                 *)
THEOREM ThrottleInvHolds ==
  ASSUME Dispatch!NotifyAssumption
  PROVE  Dispatch!Spec => []ThrottleInv
  BY ThrottleInit, ThrottleInvStep, PTL DEF Dispatch!Spec

(* One registry lets one event per fingerprint and interval through,       *)
(* however many threads race for it.                                       *)
THEOREM ThrottleHolds ==
  ASSUME Dispatch!NotifyAssumption
  PROVE  Dispatch!Spec => []OncePerInterval
  <1>1. ThrottleInv => OncePerInterval
    BY DEF ThrottleInv, Spaced, OncePerInterval
  <1>2. QED
    BY <1>1, ThrottleInvHolds, PTL

(* An event is held back only for one that was let through less than an    *)
(* interval before, and whose line is written, failed or under way.        *)
THEOREM HeldBackForOne ==
  ASSUME Dispatch!NotifyAssumption
  PROVE  Dispatch!Spec => []HeldBackForALine
  <1>1. ThrottleInv => DOMAIN dispatching = Threads
    BY DEF ThrottleInv, NotifyInv, DispatchTyped
  <1>2. ThrottleInv => HeldBackForALine
    BY <1>1 DEF ThrottleInv, NotifyInv, HeldBack, Delivered, Handled, HeldBackForALine
  <1>3. QED
    BY <1>2, ThrottleInvHolds, PTL
=============================================================================
