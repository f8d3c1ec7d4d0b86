------------------------------ MODULE AsyncBuffer ------------------------------
(***************************************************************************)
(* witslog_core::buffer: callers enqueue events into a bounded channel; a  *)
(* flush thread collects them into batches and hands each batch to a Sink  *)
(* (StoreSink: one transaction), retrying once before it counts the batch  *)
(* as dropped.  Drop raises the shutdown flag and joins the thread, which  *)
(* looks at the flag only after a receive that timed out.                  *)
(*                                                                         *)
(* Event k is the k-th one enqueued.  The Disconnected branch of the loop  *)
(* is left out: the sender lives in the AsyncBuffer until Drop has joined. *)
(***************************************************************************)
EXTENDS Naturals, Sequences, FiniteSets

CONSTANTS
  QueueCapacity,  \* BufferConfig.queue_capacity
  BatchSize,      \* BufferConfig.batch_size
  MaxEvents       \* bound: events enqueued

ASSUME ConfigAssumption ==
  QueueCapacity \in Nat /\ BatchSize \in Nat /\ MaxEvents \in Nat

AtLeastOne(k) == IF k = 0 THEN 1 ELSE k
Capacity == AtLeastOne(QueueCapacity)
BatchLimit == AtLeastOne(BatchSize)

VARIABLES
  sent,       \* number of events enqueued
  queue,      \* the channel
  batch,      \* the flush thread's Vec
  persisted,  \* what the sink has committed, in order
  dropped,    \* the dropped counter
  shutdown,   \* the shutdown flag
  handle,     \* "open", "joining" (in Drop) or "gone"
  pc,         \* the flush thread: see FlushPcs
  retrying,   \* the first attempt of flush_batch failed
  tick        \* history: sent when recv_timeout last timed out

vars == <<sent, queue, batch, persisted, dropped, shutdown, handle, pc, retrying, tick>>

\* In recv_timeout; flushing a full batch, or after a timeout; at the flag; ended.
FlushPcs == {"recv", "full", "timedOut", "check", "exited"}

Init ==
  /\ sent = 0
  /\ queue = <<>>
  /\ batch = <<>>
  /\ persisted = <<>>
  /\ dropped = 0
  /\ shutdown = FALSE
  /\ handle = "open"
  /\ pc = "recv"
  /\ retrying = FALSE
  /\ tick = 0

\* Mutant: an event is turned away one place too early.
Enqueue_Eager ==
  /\ handle = "open"
  /\ sent < MaxEvents
  /\ sent' = sent + 1
  /\ IF Len(queue) + 1 < Capacity
     THEN queue' = Append(queue, sent') /\ UNCHANGED dropped
     ELSE dropped' = dropped + 1 /\ UNCHANGED queue
  /\ UNCHANGED <<batch, persisted, shutdown, handle, pc, retrying, tick>>

\* enqueue: try_send, and the counter when the channel is full.
Enqueue ==
  /\ handle = "open"
  /\ sent < MaxEvents
  /\ sent' = sent + 1
  /\ \/ /\ Len(queue) < Capacity
        /\ queue' = Append(queue, sent')
        /\ UNCHANGED dropped
     \/ /\ Len(queue) >= Capacity
        /\ dropped' = dropped + 1
        /\ UNCHANGED queue
  /\ UNCHANGED <<batch, persisted, shutdown, handle, pc, retrying, tick>>

\* Mutant: Drop joins without raising the flag.
StartDrop_NoFlag ==
  /\ handle = "open"
  /\ handle' = "joining"
  /\ UNCHANGED <<sent, queue, batch, persisted, dropped, shutdown, pc, retrying, tick>>

\* Drop for AsyncBuffer: it owns the buffer, so no enqueue is or comes under way.
StartDrop ==
  /\ handle = "open"
  /\ shutdown' = TRUE
  /\ handle' = "joining"
  /\ UNCHANGED <<sent, queue, batch, persisted, dropped, pc, retrying, tick>>

Join ==
  /\ handle = "joining"
  /\ pc = "exited"
  /\ handle' = "gone"
  /\ UNCHANGED <<sent, queue, batch, persisted, dropped, shutdown, pc, retrying, tick>>

\* Mutant: the batch is flushed one event late.
Receive_OverLimit ==
  /\ pc = "recv"
  /\ queue # <<>>
  /\ batch' = Append(batch, Head(queue))
  /\ queue' = Tail(queue)
  /\ pc' = IF Len(batch') > BatchLimit THEN "full" ELSE "recv"
  /\ UNCHANGED <<sent, persisted, dropped, shutdown, handle, retrying, tick>>

\* Mutant: the flag is obeyed after every receive.
Receive_Impatient ==
  /\ pc = "recv"
  /\ queue # <<>>
  /\ batch' = Append(batch, Head(queue))
  /\ queue' = Tail(queue)
  /\ pc' = IF shutdown THEN "exited" ELSE IF Len(batch') >= BatchLimit THEN "full" ELSE "recv"
  /\ UNCHANGED <<sent, persisted, dropped, shutdown, handle, retrying, tick>>

Receive ==
  /\ pc = "recv"
  /\ queue # <<>>
  /\ batch' = Append(batch, Head(queue))
  /\ queue' = Tail(queue)
  /\ pc' = IF Len(batch') >= BatchLimit THEN "full" ELSE "recv"
  /\ UNCHANGED <<sent, persisted, dropped, shutdown, handle, retrying, tick>>

\* Mutant: a timeout does not flush the partial batch.
TimeOut_KeepsBatch ==
  /\ pc = "recv"
  /\ queue = <<>>
  /\ pc' = "check"
  /\ tick' = sent
  /\ UNCHANGED <<sent, queue, batch, persisted, dropped, shutdown, handle, retrying>>

\* recv_timeout gives up only when the channel is empty at the deadline.
TimeOut ==
  /\ pc = "recv"
  /\ queue = <<>>
  /\ pc' = IF batch = <<>> THEN "check" ELSE "timedOut"
  /\ tick' = sent
  /\ UNCHANGED <<sent, queue, batch, persisted, dropped, shutdown, handle, retrying>>

\* The end of flush_batch, back in the loop.
Flushed ==
  /\ batch' = <<>>
  /\ retrying' = FALSE
  /\ pc' = IF pc = "full" THEN "recv" ELSE "check"
  /\ UNCHANGED <<sent, queue, shutdown, handle, tick>>

WriteBatch ==
  /\ pc \in {"full", "timedOut"}
  /\ persisted' = persisted \o batch
  /\ Flushed
  /\ UNCHANGED dropped

\* write_batch returned an error or panicked: nothing of the batch is committed.
FailOnce ==
  /\ pc \in {"full", "timedOut"}
  /\ ~retrying
  /\ retrying' = TRUE
  /\ UNCHANGED <<sent, queue, batch, persisted, dropped, shutdown, handle, pc, tick>>

\* Mutant: the batch is cleared without counting it.
FailTwice_Uncounted ==
  /\ pc \in {"full", "timedOut"}
  /\ retrying
  /\ Flushed
  /\ UNCHANGED <<persisted, dropped>>

FailTwice ==
  /\ pc \in {"full", "timedOut"}
  /\ retrying
  /\ dropped' = dropped + Len(batch)
  /\ Flushed
  /\ UNCHANGED persisted

CheckShutdown ==
  /\ pc = "check"
  /\ pc' = IF shutdown THEN "exited" ELSE "recv"
  /\ UNCHANGED <<sent, queue, batch, persisted, dropped, shutdown, handle, retrying, tick>>

FlushThread ==
  Receive \/ TimeOut \/ WriteBatch \/ FailOnce \/ FailTwice \/ CheckShutdown

Next == Enqueue \/ StartDrop \/ Join \/ FlushThread

Spec == Init /\ [][Next]_vars

\* The OS runs the flush thread, the sink returns, and the joiner wakes up.
FairSpec == Spec /\ WF_vars(FlushThread) /\ WF_vars(Join)

-----------------------------------------------------------------------------
EventNo == 1..sent

TypeOK ==
  /\ sent \in Nat
  /\ queue \in Seq(EventNo) /\ Len(queue) <= Capacity
  /\ batch \in Seq(EventNo) /\ Len(batch) <= BatchLimit
  /\ persisted \in Seq(EventNo)
  /\ dropped \in Nat
  /\ shutdown \in BOOLEAN
  /\ handle \in {"open", "joining", "gone"}
  /\ pc \in FlushPcs
  /\ retrying \in BOOLEAN
  /\ tick \in 0..sent

(***************************************************************************)
(* No event is lost unnoticed or counted twice: each one enqueued is in    *)
(* the channel, in the flush thread's hands, committed, or in the dropped  *)
(* counter, through full queues, retries and shutdown.                     *)
(* (AsyncBuffer::enqueue, flush_batch)                                     *)
(***************************************************************************)
Conservation == sent = Len(queue) + Len(batch) + Len(persisted) + dropped

(***************************************************************************)
(* The thread never ends with a batch in hand, and whatever it leaves in   *)
(* the channel was enqueued after the receive that timed out last: an      *)
(* event that a timed-out receive could see is never abandoned.            *)
(***************************************************************************)
LossOnlyInExitWindow ==
  pc = "exited" => batch = <<>> /\ \A i \in 1..Len(queue) : queue[i] > tick

\* Dropping the buffer returns: the thread sees the flag after draining the channel.
DropReturns == handle = "joining" ~> handle = "gone"

InHand(k) == \E i \in 1..Len(batch \o queue) : (batch \o queue)[i] = k

(***************************************************************************)
(* An event taken in does not stay in the buffer for ever: with the sink   *)
(* answering, good or bad, it is committed or dropped, or the buffer goes. *)
(***************************************************************************)
EventsSettle == \A k \in 1..MaxEvents : InHand(k) ~> (~InHand(k) \/ handle = "gone")

-----------------------------------------------------------------------------
(* The buffer implements LossyLog: its batch and its channel are one       *)
(* pending sequence, taken from its head in batches.                       *)
Promise == INSTANCE LossyLog WITH
  offered <- sent,
  pending <- batch \o queue,
  stored <- persisted,
  closed <- handle = "gone"

KeepsPromise == Promise!Spec
=============================================================================
