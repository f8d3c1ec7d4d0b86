-------------------------- MODULE AsyncBufferProofs --------------------------
(***************************************************************************)
(* Theorems about AsyncBuffer, for every capacity, batch size and number   *)
(* of events.                                                              *)
(***************************************************************************)
EXTENDS AsyncBuffer, TLAPS

LEMMA Limits == Capacity \in Nat /\ Capacity >= 1 /\ BatchLimit \in Nat /\ BatchLimit >= 1
  BY ConfigAssumption DEF Capacity, BatchLimit, AtLeastOne

\* The numbers of events enqueued so far stay numbers of events enqueued.
LEMMA SeqGrows ==
  ASSUME NEW m \in Nat, NEW n \in Nat, m <= n, NEW s \in Seq(1..m)
  PROVE  s \in Seq(1..n)
  OBVIOUS

(***************************************************************************)
(* The inductive invariant.  A batch of BatchLimit events is flushed at    *)
(* once, so there is room for one more whenever the thread receives; after *)
(* a timeout the channel holds only newer events, and the batch is gone    *)
(* before the thread looks at the flag.                                    *)
(***************************************************************************)
BufferInv ==
  /\ TypeOK
  /\ pc = "recv" => Len(batch) < BatchLimit
  /\ pc \in {"check", "exited"} => batch = <<>>
  /\ pc \in {"timedOut", "check", "exited"} => \A i \in 1..Len(queue) : queue[i] > tick

LEMMA BufferInit == Init => BufferInv
  <1> SUFFICES ASSUME Init
               PROVE  BufferInv
    OBVIOUS
  <1>1. /\ queue \in Seq(1..sent) /\ Len(queue) = 0
        /\ batch \in Seq(1..sent) /\ Len(batch) = 0
        /\ persisted \in Seq(1..sent)
    BY DEF Init
  <1>2. /\ sent = 0 /\ dropped = 0 /\ shutdown = FALSE /\ handle = "open" /\ pc = "recv"
        /\ retrying = FALSE /\ tick = 0
    BY DEF Init
  <1>3. TypeOK
    <2>1. queue \in Seq(EventNo) /\ batch \in Seq(EventNo) /\ persisted \in Seq(EventNo)
      BY <1>1 DEF EventNo
    <2>2. Len(queue) <= Capacity /\ Len(batch) <= BatchLimit
      BY <1>1, Limits
    <2>3. tick \in 0..sent /\ sent \in Nat /\ dropped \in Nat /\ pc \in FlushPcs
      BY <1>2 DEF FlushPcs
    <2>4. QED
      BY <1>2, <2>1, <2>2, <2>3 DEF TypeOK
  <1>4. Len(batch) < BatchLimit
    BY <1>1, Limits
  <1>5. QED
    BY <1>2, <1>3, <1>4 DEF BufferInv

LEMMA BufferStep == BufferInv /\ [Next]_vars => BufferInv'
  <1> SUFFICES ASSUME BufferInv, [Next]_vars
               PROVE  BufferInv'
    OBVIOUS
  <1> USE Limits DEF BufferInv, TypeOK, EventNo, FlushPcs
  <1>f. ASSUME Flushed, pc \in {"full", "timedOut"}, dropped' \in Nat, persisted' \in Seq(1..sent)
        PROVE  BufferInv'
    <2>1. batch' \in Seq(1..sent) /\ Len(batch') = 0
      BY <1>f DEF Flushed
    <2>2. /\ pc' = (IF pc = "full" THEN "recv" ELSE "check")
          /\ retrying' = FALSE
          /\ sent' = sent /\ queue' = queue /\ shutdown' = shutdown
          /\ handle' = handle /\ tick' = tick
      BY <1>f DEF Flushed
    <2>3. TypeOK'
      <3>1. queue' \in Seq(EventNo') /\ batch' \in Seq(EventNo') /\ persisted' \in Seq(EventNo')
        BY <1>f, <2>1, <2>2
      <3>2. Len(queue') <= Capacity /\ Len(batch') <= BatchLimit
        BY <2>1, <2>2
      <3>3. tick' \in 0..sent' /\ sent' \in Nat /\ pc' \in FlushPcs
        BY <1>f, <2>2
      <3>4. handle' \in {"open", "joining", "gone"} /\ shutdown' \in BOOLEAN /\ retrying' \in BOOLEAN
        BY <2>2
      <3> HIDE DEF EventNo, FlushPcs, BufferInv
      <3>5. QED
        BY <1>f, <3>1, <3>2, <3>3, <3>4
    <2>4. Len(batch') < BatchLimit /\ batch' = <<>>
      BY <1>f, <2>1 DEF Flushed
    <2>5. QED
      BY <1>f, <2>2, <2>3, <2>4
  <1>1. CASE Enqueue
    <2>1. sent' = sent + 1 /\ sent \in Nat
      BY <1>1 DEF Enqueue
    <2>2. queue \in Seq(1..sent') /\ batch' \in Seq(1..sent') /\ persisted' \in Seq(1..sent')
      BY <1>1, <2>1, SeqGrows DEF Enqueue
    <2>3. /\ queue' \in Seq(1..sent') /\ Len(queue') <= Capacity
          /\ \A i \in 1..Len(queue') : queue'[i] = sent' \/ (i \in 1..Len(queue) /\ queue'[i] = queue[i])
      <3>1. CASE queue' = queue
        BY <2>2, <3>1
      <3>2. CASE queue' = Append(queue, sent') /\ Len(queue) < Capacity
        <4>1. sent' \in 1..sent' /\ queue \in Seq(1..sent')
          BY <2>1, <2>2
        <4>2. Len(queue') = Len(queue) + 1
          BY <3>2, <4>1
        <4>3. QED
          BY <3>2, <4>1, <4>2
      <3>3. QED
        BY <1>1, <3>1, <3>2 DEF Enqueue
    <2>4. /\ dropped' \in Nat
          /\ batch' = batch /\ persisted' = persisted /\ shutdown' = shutdown
          /\ handle' = handle /\ pc' = pc /\ retrying' = retrying /\ tick' = tick
      BY <1>1 DEF Enqueue
    <2>5. tick \in 0..sent'
      BY <2>1
    <2>6. TypeOK'
      <3>1. queue' \in Seq(EventNo') /\ batch' \in Seq(EventNo') /\ persisted' \in Seq(EventNo')
        BY <2>2, <2>3
      <3>2. Len(queue') <= Capacity /\ Len(batch') <= BatchLimit
        BY <2>3, <2>4
      <3>3. tick' \in 0..sent' /\ sent' \in Nat /\ pc' \in FlushPcs
        BY <2>1, <2>4, <2>5
      <3>4. handle' \in {"open", "joining", "gone"} /\ shutdown' \in BOOLEAN /\ retrying' \in BOOLEAN
        BY <2>4
      <3> HIDE DEF EventNo, FlushPcs, BufferInv
      <3>5. QED
        BY <2>4, <3>1, <3>2, <3>3, <3>4
    <2>7. pc \in {"timedOut", "check", "exited"} => \A i \in 1..Len(queue') : queue'[i] > tick
      <3> SUFFICES ASSUME pc \in {"timedOut", "check", "exited"}, NEW i \in 1..Len(queue')
                   PROVE  queue'[i] > tick
        OBVIOUS
      <3>1. sent' > tick
        BY <2>1
      <3>2. i \in 1..Len(queue) => queue[i] > tick
        OBVIOUS
      <3>3. QED
        BY <2>3, <3>1, <3>2
    <2>8. QED
      BY <2>4, <2>6, <2>7
  <1>2. CASE StartDrop \/ Join
    BY <1>2 DEF StartDrop, Join
  <1>3. CASE Receive
    <2>1. /\ Head(queue) \in 1..sent /\ Tail(queue) \in Seq(1..sent)
          /\ Len(Tail(queue)) <= Capacity
      BY <1>3 DEF Receive
    <2>2. batch' \in Seq(1..sent) /\ Len(batch') = Len(batch) + 1
      BY <1>3, <2>1 DEF Receive
    <2>3. QED
      BY <1>3, <2>1, <2>2 DEF Receive
  <1>4. CASE TimeOut
    BY <1>4 DEF TimeOut
  <1>5. CASE WriteBatch
    <2>1. persisted' \in Seq(1..sent)
      BY <1>5 DEF WriteBatch
    <2>2. dropped' \in Nat
      BY <1>5 DEF WriteBatch
    <2>3. QED
      BY <1>5, <1>f, <2>1, <2>2 DEF WriteBatch
  <1>6. CASE FailOnce
    BY <1>6 DEF FailOnce
  <1>7. CASE FailTwice
    <2>1. dropped' \in Nat
      BY <1>7 DEF FailTwice
    <2>2. persisted' \in Seq(1..sent)
      BY <1>7 DEF FailTwice
    <2>3. QED
      BY <1>7, <1>f, <2>1, <2>2 DEF FailTwice
  <1>8. CASE CheckShutdown
    BY <1>8 DEF CheckShutdown
  <1>9. CASE UNCHANGED vars
    BY <1>9 DEF vars
  <1>10. QED
    BY <1>1, <1>2, <1>3, <1>4, <1>5, <1>6, <1>7, <1>8, <1>9 DEF Next, FlushThread

(* Queue and batch keep to their limits and every variable to its type,    *)
(* for every configuration, capacities and batch sizes of 0 included.      *)
THEOREM TypeCorrect == Spec => []TypeOK
  <1>1. BufferInv => TypeOK
    BY DEF BufferInv
  <1>2. QED
    BY <1>1, BufferInit, BufferStep, PTL DEF Spec

(* The flush thread never ends with a batch in hand, and leaves behind     *)
(* only events enqueued after the last receive that timed out.             *)
THEOREM LossIsConfined == Spec => []LossOnlyInExitWindow
  <1>1. BufferInv => LossOnlyInExitWindow
    BY DEF BufferInv, LossOnlyInExitWindow
  <1>2. QED
    BY <1>1, BufferInit, BufferStep, PTL DEF Spec

(* No event is lost without being counted, and none is counted twice:      *)
(* channel, batch, committed events and dropped counter add up to all that *)
(* was enqueued, at every step of enqueue, flush_batch and Drop.           *)
THEOREM EventsAreConserved == Spec => []Conservation
  <1>1. Init => Conservation
    BY DEF Init, Conservation
  <1>2. BufferInv /\ Conservation /\ [Next]_vars => Conservation'
    <2> SUFFICES ASSUME BufferInv, Conservation, [Next]_vars
                 PROVE  Conservation'
      OBVIOUS
    <2>1. /\ sent \in Nat /\ dropped \in Nat
          /\ queue \in Seq(1..sent) /\ batch \in Seq(1..sent) /\ persisted \in Seq(1..sent)
          /\ Len(queue) \in Nat /\ Len(batch) \in Nat /\ Len(persisted) \in Nat
      BY DEF BufferInv, TypeOK, EventNo
    <2>2. CASE Enqueue
      BY <2>1, <2>2 DEF Enqueue, Conservation
    <2>3. CASE Receive
      <3>1. Len(batch') = Len(batch) + 1 /\ Len(queue') = Len(queue) - 1
        BY <2>1, <2>3 DEF Receive
      <3>2. QED
        BY <2>1, <2>3, <3>1 DEF Receive, Conservation
    <2>4. CASE WriteBatch
      <3>1. Len(persisted') = Len(persisted) + Len(batch)
        BY <2>1, <2>4 DEF WriteBatch
      <3>2. QED
        BY <2>1, <2>4, <3>1 DEF WriteBatch, Flushed, Conservation
    <2>5. CASE FailTwice
      BY <2>1, <2>5 DEF FailTwice, Flushed, Conservation
    <2>6. CASE StartDrop \/ Join \/ TimeOut \/ FailOnce \/ CheckShutdown \/ UNCHANGED vars
      BY <2>6 DEF StartDrop, Join, TimeOut, FailOnce, CheckShutdown, vars, Conservation
    <2>7. QED
      BY <2>2, <2>3, <2>4, <2>5, <2>6 DEF Next, FlushThread
  <1>3. QED
    BY <1>1, <1>2, BufferInit, BufferStep, PTL DEF Spec

(***************************************************************************)
(* The refinement.  A flush takes a batch that is not empty, and the       *)
(* thread has ended when the buffer is gone.                               *)
(***************************************************************************)
Ready ==
  /\ pc \in {"full", "timedOut"} => batch # <<>>
  /\ handle = "gone" => pc = "exited"

LEMMA ReadyStep == BufferInv /\ Ready /\ [Next]_vars => Ready'
  <1> SUFFICES ASSUME BufferInv, Ready, [Next]_vars
               PROVE  Ready'
    OBVIOUS
  <1>1. batch \in Seq(1..sent) /\ queue \in Seq(1..sent)
    BY DEF BufferInv, TypeOK, EventNo
  <1>2. CASE Receive
    <2>1. batch' # <<>>
      BY <1>1, <1>2 DEF Receive
    <2>2. QED
      BY <1>2, <2>1 DEF Receive, Ready
  <1>3. CASE Enqueue \/ StartDrop \/ Join \/ TimeOut \/ FailOnce \/ CheckShutdown \/ UNCHANGED vars
    BY <1>3 DEF Enqueue, StartDrop, Join, TimeOut, FailOnce, CheckShutdown, vars, Ready
  <1>4. CASE WriteBatch \/ FailTwice
    BY <1>4 DEF WriteBatch, FailTwice, Flushed, Ready
  <1>5. QED
    BY <1>2, <1>3, <1>4 DEF Next, FlushThread

\* What one flush takes from the head of the pending sequence.
LEMMA TakeBatch ==
  ASSUME NEW S, NEW s \in Seq(S), NEW t \in Seq(S)
  PROVE  /\ SubSeq(s \o t, 1, Len(s)) = s
         /\ SubSeq(s \o t, Len(s) + 1, Len(s \o t)) = t
  OBVIOUS

\* An event moves from the channel to the batch.
LEMMA MoveHead ==
  ASSUME NEW S, NEW s \in Seq(S), NEW t \in Seq(S), t # <<>>
  PROVE  Append(s, Head(t)) \o Tail(t) = s \o t
  OBVIOUS

LEMMA AppendAfter ==
  ASSUME NEW S, NEW s \in Seq(S), NEW t \in Seq(S), NEW e \in S
  PROVE  s \o Append(t, e) = Append(s \o t, e)
  OBVIOUS

LEMMA StepRefines == BufferInv /\ Ready /\ [Next]_vars => [Promise!Next]_Promise!vars
  <1> SUFFICES ASSUME BufferInv, Ready, [Next]_vars
               PROVE  [Promise!Next]_Promise!vars
    OBVIOUS
  <1>1. /\ sent \in Nat /\ dropped \in Nat
        /\ batch \in Seq(1..sent) /\ queue \in Seq(1..sent) /\ persisted \in Seq(1..sent)
        /\ Len(batch) <= BatchLimit
    BY DEF BufferInv, TypeOK, EventNo
  <1>2. CASE Enqueue
    <2>1. /\ sent' = sent + 1 /\ sent < MaxEvents /\ ~(handle = "gone")
          /\ UNCHANGED <<batch, persisted, handle>>
      BY <1>2 DEF Enqueue
    <2>2. Promise!Offer
      BY <2>1 DEF Promise!Offer
    <2>3. CASE Len(queue) < Capacity /\ queue' = Append(queue, sent') /\ UNCHANGED dropped
      <3>1. batch \in Seq(1..sent') /\ queue \in Seq(1..sent') /\ sent' \in 1..sent'
        BY <1>1, <2>1, SeqGrows
      <3>2. batch' \o queue' = Append(batch \o queue, sent')
        BY <2>1, <2>3, <3>1, AppendAfter
      <3>3. QED
        BY <2>1, <2>2, <2>3, <3>2 DEF Promise!Next, Promise!Accept
    <2>4. CASE Len(queue) >= Capacity /\ dropped' = dropped + 1 /\ UNCHANGED queue
      <3>1. Len(batch \o queue) >= Capacity
        BY <1>1, <2>4, Limits
      <3>2. QED
        BY <2>1, <2>2, <2>4, <3>1 DEF Promise!Next, Promise!TurnAway
    <2>5. QED
      BY <1>2, <2>3, <2>4 DEF Enqueue
  <1>3. CASE Join
    BY <1>3 DEF Join, Promise!Next, Promise!Close
  <1>4. CASE Receive
    <2>1. batch' \o queue' = batch \o queue
      BY <1>1, <1>4, MoveHead DEF Receive
    <2>2. QED
      BY <1>4, <2>1 DEF Receive, Promise!vars
  <1>5. CASE StartDrop \/ TimeOut \/ FailOnce \/ CheckShutdown \/ UNCHANGED vars
    BY <1>5 DEF StartDrop, TimeOut, FailOnce, CheckShutdown, vars, Promise!vars
  <1>6. ASSUME pc \in {"full", "timedOut"}, Flushed
        PROVE  /\ Promise!Settle(Len(batch)) /\ Len(batch) \in 1..BatchLimit /\ ~(handle = "gone")
               /\ SubSeq(batch \o queue, 1, Len(batch)) = batch
    <2>1. batch' = <<>> /\ UNCHANGED <<sent, queue, handle>>
      BY <1>6 DEF Flushed
    <2>2. batch' \o queue' = queue
      BY <1>1, <2>1
    <2>3. SubSeq(batch \o queue, Len(batch) + 1, Len(batch \o queue)) = queue
      BY <1>1, TakeBatch
    <2>4. Len(batch) \in 1..BatchLimit /\ Len(batch) <= Len(batch \o queue)
      BY <1>1, <1>6, Limits DEF Ready
    <2>5. QED
      BY <1>1, <1>6, <2>1, <2>2, <2>3, <2>4, TakeBatch DEF Promise!Settle, Ready
  <1>7. CASE WriteBatch
    <2>1. Promise!Store(Len(batch))
      BY <1>6, <1>7 DEF WriteBatch, Promise!Store
    <2>2. QED
      BY <1>6, <1>7, <2>1 DEF WriteBatch, Promise!Next
  <1>8. CASE FailTwice
    <2>1. Promise!Discard(Len(batch))
      BY <1>6, <1>8 DEF FailTwice, Promise!Discard
    <2>2. QED
      BY <1>6, <1>8, <2>1 DEF FailTwice, Promise!Next
  <1>9. QED
    BY <1>2, <1>3, <1>4, <1>5, <1>7, <1>8 DEF Next, FlushThread

(* The buffer keeps LossyLog's promise, for every capacity and batch size: *)
(* what it has in hand and in its channel is one sequence, stored and      *)
(* dropped from its head, batch by batch, whatever the sink, the callers   *)
(* and the shutdown do (AsyncBuffer::enqueue, flush_batch, Drop).          *)
THEOREM PromiseIsKept == Spec => KeepsPromise
  <1>1. Init => Promise!Init
    <2> SUFFICES ASSUME Init PROVE Promise!Init
      OBVIOUS
    <2>1. batch \o queue = <<>>
      BY DEF Init
    <2>2. QED
      BY <2>1 DEF Init, Promise!Init
  <1>2. Init => Ready
    BY DEF Init, Ready
  <1>3. QED
    BY <1>1, <1>2, BufferInit, BufferStep, ReadyStep, StepRefines, PTL DEF Spec, KeepsPromise, Promise!Spec
=============================================================================
