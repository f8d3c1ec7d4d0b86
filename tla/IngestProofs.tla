---------------------------- MODULE IngestProofs ----------------------------
(***************************************************************************)
(* Theorems about Ingest, for any pages, failures, keys, limits, windows   *)
(* and restarts.                                                           *)
(***************************************************************************)
EXTENDS Ingest, Integers, FiniteSetTheorems, TLAPS

Keys == {Key[p] : p \in Pages}

Requests == [page : Pages, events : Seq(Failures), pc : {"sent", "body", "done", "lost"}, raw : Nat, got : Nat,
             at : Nat, since : Nat, answer : Nat]

(***************************************************************************)
(* Types, and what the answer and the time of a request say of how far it  *)
(* has come.                                                               *)
(***************************************************************************)
Typed ==
  /\ queue \in [Pages -> Seq(Failures)]
  /\ request \in Seq(Requests)
  /\ buckets \in [Keys -> [count : Nat, resetAt : Nat]]
  /\ now \in Nat /\ now >= 1 /\ restarts \in Nat
  /\ happened \subseteq Failures /\ missed \subseteq Failures
  /\ stored \in [Failures -> Nat]

Answers ==
  \A r \in DOMAIN request :
    /\ request[r].pc = "sent" => request[r].at = 0 /\ request[r].answer = 0
    /\ request[r].answer = 202 => request[r].pc = "done"
    /\ request[r].answer = 429 => request[r].pc = "done"

Shape == Typed /\ Answers

LEMMA SentTyped ==
  ASSUME NEW p \in Pages, NEW events \in Seq(Failures)
  PROVE  /\ Sent(p, events) \in Requests
         /\ Sent(p, events).events = events /\ Sent(p, events).pc = "sent"
         /\ Sent(p, events).at = 0 /\ Sent(p, events).answer = 0
  BY DEF Sent, Requests

LEMMA HeardOnce == \A f \in Failures : Cardinality(Heard(Kind[f])) = 1
  <1> SUFFICES ASSUME NEW f \in Failures PROVE Cardinality(Heard(Kind[f])) = 1
    OBVIOUS
  <1>1. \E l : Heard(Kind[f]) = {l}
    BY DEF Heard
  <1> QED
    BY <1>1, FS_Singleton

(***************************************************************************)
(* What each step does to the queues and the requests.                     *)
(***************************************************************************)
LEMMA HappenQueue ==
  ASSUME Typed, NEW p \in Pages, NEW f \in Failures, Happen(p, f)
  PROVE  /\ queue' = [queue EXCEPT ![p] = Append(queue[p], f)]
         /\ Len(queue'[p]) = Len(queue[p]) + 1 /\ queue'[p][Len(queue[p]) + 1] = f
         /\ \A i \in 1..Len(queue[p]) : queue'[p][i] = queue[p][i]
         /\ queue' \in [Pages -> Seq(Failures)] /\ \A q \in Pages \ {p} : queue'[q] = queue[q]
  <1>1. queue' = [queue EXCEPT ![p] = queue[p] \o [i \in 1..1 |-> f]]
    BY HeardOnce DEF Happen
  <1>2. queue[p] \in Seq(Failures)
    BY DEF Typed
  <1>3. queue[p] \o [i \in 1..1 |-> f] = Append(queue[p], f)
    <2>1. [i \in 1..1 |-> f] = <<f>>
      OBVIOUS
    <2> QED
      BY <1>2, <2>1
  <1> QED
    <2>1. queue' = [queue EXCEPT ![p] = Append(queue[p], f)]
      BY <1>1, <1>3
    <2>2. Append(queue[p], f) \in Seq(Failures)
      BY <1>2
    <2>3. queue' \in [Pages -> Seq(Failures)] /\ queue'[p] = Append(queue[p], f)
          /\ \A q \in Pages \ {p} : queue'[q] = queue[q]
      BY <2>1, <2>2 DEF Typed
    <2>4. /\ Len(Append(queue[p], f)) = Len(queue[p]) + 1 /\ Append(queue[p], f)[Len(queue[p]) + 1] = f
          /\ \A i \in 1..Len(queue[p]) : Append(queue[p], f)[i] = queue[p][i]
      BY <1>2
    <2> QED
      BY <2>1, <2>3, <2>4

\* One request more, the others as they were.
Ships(r, p) ==
  /\ r = Len(request) + 1 /\ Len(request') = r
  /\ request'[r] = Sent(p, queue[p])
  /\ \A s \in DOMAIN request : request'[s] = request[s]
  /\ queue' = [queue EXCEPT ![p] = <<>>]

LEMMA FlushShips ==
  ASSUME Typed, NEW p \in Pages, flush(p)
  PROVE  /\ Ships(Len(request) + 1, p)
         /\ request' \in Seq(Requests) /\ DOMAIN request = 1..Len(request) /\ DOMAIN request' = 1..Len(request) + 1
         /\ queue' \in [Pages -> Seq(Failures)]
  <1>1. queue[p] \in Seq(Failures)
    BY DEF Typed
  <1>2. Sent(p, queue[p]) \in Requests
    BY <1>1, SentTyped
  <1>3. request' = Append(request, Sent(p, queue[p])) /\ queue' = [queue EXCEPT ![p] = <<>>]
    BY DEF flush
  <1>4. request \in Seq(Requests)
    BY DEF Typed
  <1> HIDE DEF Requests
  <1>5. /\ request' \in Seq(Requests) /\ Len(request') = Len(request) + 1
        /\ DOMAIN request = 1..Len(request) /\ DOMAIN request' = 1..Len(request) + 1
        /\ \A s \in DOMAIN request : request'[s] = request[s]
        /\ request'[Len(request) + 1] = Sent(p, queue[p])
    BY <1>2, <1>3, <1>4
  <1>6. queue' \in [Pages -> Seq(Failures)]
    BY <1>3 DEF Typed
  <1> QED
    BY <1>3, <1>5, <1>6 DEF Ships

\* A request goes on as x, the others stay as they are.
LEMMA RequestSet ==
  ASSUME Typed, NEW r \in DOMAIN request, NEW x \in Requests, request' = [request EXCEPT ![r] = x]
  PROVE  /\ request' \in Seq(Requests) /\ DOMAIN request' = DOMAIN request
         /\ request'[r] = x /\ \A s \in DOMAIN request \ {r} : request'[s] = request[s]
  <1>1. request \in Seq(Requests) /\ DOMAIN request = 1..Len(request)
    BY DEF Typed
  <1> HIDE DEF Requests
  <1> QED
    BY <1>1

LEMMA RequestTyped == ASSUME Typed, NEW r \in DOMAIN request PROVE request[r] \in Requests
  BY DEF Typed

\* What a step of a request that is under way leaves as it was.
Same(x, y) == x.page = y.page /\ x.events = y.events

Unchecked(x, y) == Same(x, y) /\ x.at = y.at /\ x.since = y.since

\* The fields that steps set.
Answering(y, pc, answer) == [y EXCEPT !.pc = pc, !.answer = answer]

Checking(y, pc, at, since, answer) == [y EXCEPT !.pc = pc, !.at = at, !.since = since, !.answer = answer]

LEMMA AnsweringFields ==
  ASSUME NEW y \in Requests, NEW pc \in {"sent", "body", "done", "lost"}, NEW answer \in Nat
  PROVE  /\ Answering(y, pc, answer) \in Requests /\ Unchecked(Answering(y, pc, answer), y)
         /\ Answering(y, pc, answer).pc = pc /\ Answering(y, pc, answer).answer = answer
  BY DEF Requests, Unchecked, Same, Answering

Checked(x, y, pc, at, since, answer) ==
  x \in Requests /\ Same(x, y) /\ x.pc = pc /\ x.at = at /\ x.since = since /\ x.answer = answer

LEMMA CheckingFields ==
  ASSUME NEW y \in Requests, NEW pc \in {"sent", "body", "done", "lost"}, NEW at \in Nat, NEW since \in Nat,
         NEW answer \in Nat
  PROVE  Checked(Checking(y, pc, at, since, answer), y, pc, at, since, answer)
  <1> DEFINE x == Checking(y, pc, at, since, answer)
  <1>1. x \in Requests
    BY DEF Requests, Checking
  <1>2. Same(x, y)
    BY DEF Requests, Same, Checking
  <1>3. x.pc = pc /\ x.at = at /\ x.since = since /\ x.answer = answer
    BY DEF Requests, Checking
  <1> QED
    BY <1>1, <1>2, <1>3 DEF Checked

LEMMA LoseRequest ==
  ASSUME Typed, NEW r, Lose(r)
  PROVE  \E x \in Requests :
           /\ r \in DOMAIN request /\ request' = [request EXCEPT ![r] = x]
           /\ Unchecked(x, request[r]) /\ x.pc = "lost" /\ x.answer = request[r].answer
           /\ request[r].pc \in {"sent", "body"}
  <1> DEFINE x == [request[r] EXCEPT !.pc = "lost"]
  <1>1. r \in DOMAIN request /\ request' = [request EXCEPT ![r] = x] /\ request[r].pc \in {"sent", "body"}
    BY DEF Lose, At
  <1>2. request[r] \in Requests
    BY <1>1, RequestTyped
  <1>3. x \in Requests /\ Unchecked(x, request[r]) /\ x.pc = "lost" /\ x.answer = request[r].answer
    BY <1>2 DEF Requests, Unchecked, Same
  <1> HIDE DEF x
  <1> QED
    BY <1>1, <1>3

LEMMA DataRequest ==
  ASSUME Typed, NEW r, Data(r)
  PROVE  \E x \in Requests :
           /\ r \in DOMAIN request /\ request' = [request EXCEPT ![r] = x]
           /\ Unchecked(x, request[r]) /\ request[r].pc = "body" /\ x.pc = "body"
           /\ x.answer = request[r].answer \/ (request[r].answer = 0 /\ x.answer = 413)
  <1> DEFINE y == request[r]
             raw == y.raw + Size[y.events[y.got + 1]]
             x == [y EXCEPT !.got = y.got + 1, !.raw = IF y.answer = 0 THEN raw ELSE y.raw,
                            !.answer = IF y.answer = 0 /\ raw > maxBytes THEN 413 ELSE y.answer]
  <1>1. r \in DOMAIN request /\ y.pc = "body" /\ y.got < Len(y.events)
    BY DEF Data, At
  <1>2. y \in Requests
    BY <1>1, RequestTyped
  <1>3. y.events \in Seq(Failures) /\ y.got \in Nat /\ y.raw \in Nat /\ y.answer \in Nat
    BY <1>2 DEF Requests
  <1>4. y.events[y.got + 1] \in Failures
    <2> DEFINE events == y.events  got == y.got
    <2>1. events \in Seq(Failures) /\ got \in Nat /\ got < Len(events)
      BY <1>1, <1>3
    <2> HIDE DEF events, got
    <2>2. events[got + 1] \in Failures
      BY <2>1
    <2> QED
      BY <2>2 DEF events, got
  <1>5. raw \in Nat
    <2>1. PICK f \in Failures : f = y.events[y.got + 1]
      BY <1>4
    <2>2. Size[f] \in Nat
      BY IngestAssumption
    <2> QED
      BY <1>3, <2>1, <2>2
  <1>6. request' = [request EXCEPT ![r] = x]
    BY <1>1 DEF Data
  <1> HIDE DEF raw
  <1>7. x \in Requests /\ Unchecked(x, y) /\ x.pc = "body" /\ (x.answer = y.answer \/ (y.answer = 0 /\ x.answer = 413))
    <2>1. y.got + 1 \in Nat /\ (IF y.answer = 0 THEN raw ELSE y.raw) \in Nat
          /\ (IF y.answer = 0 /\ raw > maxBytes THEN 413 ELSE y.answer) \in Nat
      BY <1>3, <1>5
    <2>2. x \in Requests
      BY <1>2, <2>1 DEF Requests
    <2>3. Unchecked(x, y) /\ x.pc = y.pc
      BY <1>2 DEF Requests, Unchecked, Same
    <2>4. x.answer = IF y.answer = 0 /\ raw > maxBytes THEN 413 ELSE y.answer
      BY <1>2 DEF Requests
    <2> QED
      BY <1>1, <2>2, <2>3, <2>4
  <1> HIDE DEF x
  <1> QED
    BY <1>1, <1>6, <1>7

LEMMA EndRequest ==
  ASSUME Typed, NEW r, End(r)
  PROVE  \E x \in Requests :
           /\ r \in DOMAIN request /\ request' = [request EXCEPT ![r] = x]
           /\ Unchecked(x, request[r]) /\ request[r].pc = "body" /\ x.pc = "done"
           /\ x.answer = request[r].answer \/ (request[r].answer = 0 /\ x.answer = 202)
           /\ x.answer = 202 \/ UNCHANGED stored
  <1> DEFINE y == request[r]
  <1>1. r \in DOMAIN request /\ y.pc = "body"
    BY DEF End, At
  <1>2. y \in Requests
    BY <1>1, RequestTyped
  <1>3. CASE y.answer = 0
    <2> DEFINE x == [y EXCEPT !.pc = "done", !.answer = 202]
    <2>1. request' = [request EXCEPT ![r] = x]
      BY <1>1, <1>3 DEF End, Answered
    <2>2. x \in Requests /\ Unchecked(x, y) /\ x.pc = "done" /\ x.answer = 202
      BY <1>2 DEF Requests, Unchecked, Same
    <2> HIDE DEF x
    <2> QED
      BY <1>1, <1>3, <2>1, <2>2
  <1>4. CASE y.answer # 0
    <2> DEFINE x == [y EXCEPT !.pc = "done"]
    <2>1. request' = [request EXCEPT ![r] = x] /\ UNCHANGED stored
      BY <1>1, <1>4 DEF End
    <2>2. x \in Requests /\ Unchecked(x, y) /\ x.pc = "done" /\ x.answer = y.answer
      BY <1>2 DEF Requests, Unchecked, Same
    <2> HIDE DEF x
    <2> QED
      BY <1>1, <2>1, <2>2
  <1> QED
    BY <1>3, <1>4

\* A request is counted, and let through or turned away.
Counts(r, x) ==
  LET k == Key[request[r].page]
  IN  /\ request[r].page \in Allowed
      /\ buckets' = [buckets EXCEPT ![k] = Bucket(k)]
      /\ x.at = now /\ x.since = restarts
      /\ IF Bucket(k).count <= max THEN x.pc = "body" /\ x.answer = 0 ELSE x.pc = "done" /\ x.answer = 429

Refuses(r, x) ==
  /\ request[r].page \notin Allowed /\ UNCHANGED buckets
  /\ x.at = request[r].at /\ x.since = request[r].since /\ x.pc = "done" /\ x.answer = 403

LEMMA GuardRequest ==
  ASSUME Typed, NEW r, checkIngestGuardrails(r)
  PROVE  \E x \in Requests :
           /\ r \in DOMAIN request /\ request' = [request EXCEPT ![r] = x]
           /\ Same(x, request[r]) /\ request[r].pc = "sent"
           /\ Counts(r, x) \/ Refuses(r, x)
  <1> DEFINE y == request[r]
             k == Key[y.page]
  <1>1. r \in DOMAIN request /\ y.pc = "sent"
    BY DEF checkIngestGuardrails, At
  <1>2. y \in Requests
    BY <1>1, RequestTyped
  <1>3. CASE y.page \notin Allowed
    <2>1. request' = [request EXCEPT ![r] = Answering(y, "done", 403)] /\ UNCHANGED buckets
      BY <1>1, <1>3 DEF checkIngestGuardrails, Answered, Answering
    <2>2. PICK x : x = Answering(y, "done", 403)
      OBVIOUS
    <2>3. x \in Requests /\ Unchecked(x, y) /\ x.pc = "done" /\ x.answer = 403
      <3>1. "done" \in {"sent", "body", "done", "lost"} /\ 403 \in Nat
        OBVIOUS
      <3> HIDE DEF y, k
      <3>2. \A a \in Nat : /\ Answering(y, "done", a) \in Requests /\ Unchecked(Answering(y, "done", a), y)
                           /\ Answering(y, "done", a).pc = "done" /\ Answering(y, "done", a).answer = a
        BY <1>2, <3>1, AnsweringFields, Zenon
      <3> QED
        BY <2>2, <3>1, <3>2
    <2>4. Same(x, y) /\ Refuses(r, x)
      BY <1>3, <2>1, <2>3 DEF Unchecked, Refuses
    <2> QED
      BY <1>1, <2>1, <2>2, <2>3, <2>4
  <1>4. CASE y.page \in Allowed
    <2>1. /\ buckets' = [buckets EXCEPT ![k] = Bucket(k)]
          /\ request' = [request EXCEPT ![r] = Checking(y, IF Bucket(k).count <= max THEN "body" ELSE "done", now, restarts,
                                                        IF Bucket(k).count <= max THEN 0 ELSE 429)]
      BY <1>1, <1>4 DEF checkIngestGuardrails, Checking
    <2>2. PICK pc \in {"body", "done"}, answer \in {0, 429} :
            IF Bucket(k).count <= max THEN pc = "body" /\ answer = 0 ELSE pc = "done" /\ answer = 429
      OBVIOUS
    <2>3. PICK x : x = Checking(y, pc, now, restarts, answer)
      OBVIOUS
    <2>4. request' = [request EXCEPT ![r] = x]
      <3>1. CASE Bucket(k).count <= max
        BY <2>1, <2>2, <2>3, <3>1
      <3>2. CASE ~(Bucket(k).count <= max)
        BY <2>1, <2>2, <2>3, <3>2
      <3> QED
        BY <3>1, <3>2
    <2>5. now \in Nat /\ restarts \in Nat /\ answer \in Nat
      BY DEF Typed
    <2>6. /\ x \in Requests /\ Same(x, y) /\ x.pc = pc /\ x.at = now /\ x.since = restarts /\ x.answer = answer
      <3>1. pc \in {"sent", "body", "done", "lost"}
        OBVIOUS
      <3> HIDE DEF y, k
      <3> QED
        <4>1. Checked(Checking(y, pc, now, restarts, answer), y, pc, now, restarts, answer)
          BY <1>2, <2>5, <3>1, CheckingFields, Zenon
        <4> QED
          BY <2>3, <4>1 DEF Checked
    <2>7. Counts(r, x)
      BY <1>4, <2>1, <2>2, <2>6 DEF Counts
    <2> QED
      BY <1>1, <2>4, <2>6, <2>7
  <1> QED
    BY <1>3, <1>4

\* A restart loses the requests whose body is coming in.
LEMMA RestartRequests ==
  ASSUME Typed, Restart
  PROVE  /\ request' \in Seq(Requests) /\ DOMAIN request' = DOMAIN request
         /\ \A s \in DOMAIN request :
              /\ Unchecked(request'[s], request[s]) /\ request'[s].answer = request[s].answer
              /\ request'[s].pc = IF request[s].pc = "body" THEN "lost" ELSE request[s].pc
  <1>1. request \in Seq(Requests) /\ DOMAIN request = 1..Len(request)
    BY DEF Typed
  <1>2. request' = [s \in DOMAIN request |->
                      IF request[s].pc = "body" THEN [request[s] EXCEPT !.pc = "lost"] ELSE request[s]]
    BY DEF Restart
  <1>3. ASSUME NEW s \in DOMAIN request
        PROVE  /\ request'[s] \in Requests /\ Unchecked(request'[s], request[s])
               /\ request'[s].answer = request[s].answer
               /\ request'[s].pc = IF request[s].pc = "body" THEN "lost" ELSE request[s].pc
    <2>1. request[s] \in Requests
      BY RequestTyped
    <2> QED
      BY <1>2, <2>1 DEF Requests, Unchecked, Same
  <1>4. request' \in Seq(Requests)
    <2> HIDE DEF Requests
    <2>1. request' \in [1..Len(request) -> Requests]
      BY <1>1, <1>2, <1>3
    <2>2. Len(request) \in Nat
      BY <1>1
    <2> QED
      BY <2>1, <2>2
  <1> QED
    BY <1>2, <1>3, <1>4

LEMMA ShapeInit == Init => Shape
  <1> SUFFICES ASSUME Init PROVE Shape
    OBVIOUS
  <1>1. buckets \in [Keys -> [count : Nat, resetAt : Nat]]
    BY DEF Init, Fresh, Keys
  <1>2. request = <<>> /\ queue \in [Pages -> Seq(Failures)] /\ stored \in [Failures -> Nat]
    BY DEF Init
  <1>3. Answers
    BY <1>2 DEF Answers
  <1> QED
    BY <1>1, <1>2, <1>3 DEF Init, Shape, Typed

\* A request that goes on as x answers as it should.
Fits(x) ==
  /\ x.pc = "sent" => x.at = 0 /\ x.answer = 0
  /\ x.answer = 202 => x.pc = "done"
  /\ x.answer = 429 => x.pc = "done"

LEMMA ShapeRequest ==
  ASSUME Shape, NEW r \in DOMAIN request, NEW x \in Requests, request' = [request EXCEPT ![r] = x], Fits(x),
         UNCHANGED <<queue, now, restarts, happened, missed>>,
         buckets' \in [Keys -> [count : Nat, resetAt : Nat]], stored' \in [Failures -> Nat]
  PROVE  Shape'
  <1>1. Typed /\ Answers
    BY DEF Shape
  <1>2. /\ request' \in Seq(Requests) /\ DOMAIN request' = DOMAIN request
        /\ request'[r] = x /\ \A s \in DOMAIN request \ {r} : request'[s] = request[s]
    BY <1>1, RequestSet
  <1>3. Answers'
    BY <1>1, <1>2 DEF Answers, Fits
  <1>4. Typed'
    BY <1>1, <1>2 DEF Typed
  <1> QED
    BY <1>3, <1>4 DEF Shape

\* The other variables of a step that changes the queue of a page, or ships it.
LEMMA ShapeQueue ==
  ASSUME Shape, NEW p \in Pages, UNCHANGED <<server, now>>, happened' \subseteq Failures, missed' \subseteq Failures,
         (queue' \in [Pages -> Seq(Failures)] /\ UNCHANGED request) \/ flush(p)
  PROVE  Shape'
  <1>1. Typed /\ Answers /\ UNCHANGED <<buckets, restarts, stored, now>>
    BY DEF Shape, server
  <1>2. CASE queue' \in [Pages -> Seq(Failures)] /\ UNCHANGED request
    BY <1>1, <1>2 DEF Shape, Typed, Answers
  <1>3. CASE flush(p)
    <2>1. /\ Ships(Len(request) + 1, p) /\ request' \in Seq(Requests) /\ queue' \in [Pages -> Seq(Failures)]
          /\ DOMAIN request = 1..Len(request) /\ DOMAIN request' = 1..Len(request) + 1
      BY <1>1, <1>3, FlushShips
    <2>2. queue[p] \in Seq(Failures) /\ request \in Seq(Requests)
      BY <1>1 DEF Typed
    <2>3. request'[Len(request) + 1].pc = "sent" /\ request'[Len(request) + 1].at = 0 /\ request'[Len(request) + 1].answer = 0
      BY <2>1, <2>2, SentTyped DEF Ships
    <2>4. \A s \in DOMAIN request' : s = Len(request) + 1 \/ (s \in DOMAIN request /\ request'[s] = request[s])
      <3> HIDE DEF Requests
      <3>1. Len(request) \in Nat
        BY <2>2
      <3> QED
        BY <2>1, <3>1 DEF Ships
    <2>5. Answers'
      BY <1>1, <2>3, <2>4 DEF Answers
    <2> QED
      BY <1>1, <2>1, <2>5 DEF Shape, Typed
  <1> QED
    BY <1>2, <1>3

LEMMA CrashMissed ==
  ASSUME Typed, NEW p \in Pages
  PROVE  {queue[p][i] : i \in DOMAIN queue[p]} \subseteq Failures
  <1>1. queue[p] \in Seq(Failures)
    BY DEF Typed
  <1> DEFINE s == queue[p]
  <1>2. s \in Seq(Failures)
    BY <1>1
  <1> HIDE DEF s
  <1>3. {s[i] : i \in DOMAIN s} \subseteq Failures
    BY <1>2
  <1> QED
    BY <1>3 DEF s

LEMMA BucketTyped ==
  ASSUME Typed, NEW k \in Keys
  PROVE  Bucket(k) \in [count : Nat, resetAt : Nat]
  <1>1. buckets[k] \in [count : Nat, resetAt : Nat] /\ now \in Nat /\ windowMs \in Nat
    BY IngestAssumption DEF Typed
  <1> QED
    BY <1>1 DEF Bucket

LEMMA PersistTyped ==
  ASSUME Typed, NEW r \in DOMAIN request, persistIngestBatch(r)
  PROVE  stored' \in [Failures -> Nat]
  <1>1. PICK logged \in SUBSET Kept(r) : stored' = [f \in Failures |-> stored[f] + Times(r, logged, f)]
    BY DEF persistIngestBatch
  <1>2. IsFiniteSet(logged)
    <2>1. request[r].events \in Seq(Failures)
      BY RequestTyped DEF Requests
    <2>2. Len(request[r].events) \in Nat
      BY <2>1
    <2>3. IsFiniteSet(1..Len(request[r].events))
      BY <2>2, FS_Interval
    <2> QED
      BY <2>3, FS_Subset DEF Kept
  <1>3. \A f \in Failures : Times(r, logged, f) \in Nat
    <2> SUFFICES ASSUME NEW f \in Failures PROVE Times(r, logged, f) \in Nat
      OBVIOUS
    <2>1. IsFiniteSet({i \in logged : request[r].events[i] = f})
      BY <1>2, FS_Subset
    <2> QED
      BY <2>1, FS_CardinalityType DEF Times
  <1> QED
    BY <1>1, <1>3 DEF Typed

LEMMA ShapeStep == Shape /\ [Next]_vars => Shape'
  <1> SUFFICES ASSUME Shape, [Next]_vars PROVE Shape'
    OBVIOUS
  <1>t. Typed /\ Answers
    BY DEF Shape
  <1>1. ASSUME NEW p \in Pages, NEW f \in Failures, Happen(p, f) PROVE Shape'
    <2>1. queue' \in [Pages -> Seq(Failures)]
      BY <1>1, <1>t, HappenQueue
    <2> QED
      BY <1>1, <1>t, <2>1, ShapeQueue DEF Happen, Typed
  <1>2. ASSUME NEW p \in Pages, NEW f \in Failures, SampleAway(p, f) PROVE Shape'
    <2>1. queue' \in [Pages -> Seq(Failures)]
      BY <1>2, <1>t DEF SampleAway, Typed
    <2> QED
      BY <1>2, <1>t, <2>1, ShapeQueue DEF SampleAway, Typed
  <1>3. ASSUME NEW p \in Pages, Hide(p) \/ Leave(p) PROVE Shape'
    <2>1. UNCHANGED <<server, now>> /\ happened' \subseteq Failures /\ missed' \subseteq Failures
      BY <1>3, <1>t DEF Hide, Leave, Typed
    <2>2. (queue' \in [Pages -> Seq(Failures)] /\ UNCHANGED request) \/ flush(p)
      BY <1>3, <1>t DEF Hide, Leave, Typed
    <2> QED
      BY <2>1, <2>2, ShapeQueue
  <1>4. ASSUME NEW p \in Pages, Crash(p) PROVE Shape'
    <2>1. missed' \subseteq Failures
      BY <1>4, <1>t, CrashMissed DEF Crash, Typed
    <2>2. queue' \in [Pages -> Seq(Failures)] /\ UNCHANGED request
      BY <1>4, <1>t DEF Crash, Typed
    <2>3. UNCHANGED <<server, now>> /\ happened' \subseteq Failures
      BY <1>4, <1>t DEF Crash, Typed
    <2> QED
      BY <2>1, <2>2, <2>3, ShapeQueue
  <1>5. ASSUME NEW r \in 1..MaxRequests, Lose(r) PROVE Shape'
    <2>1. PICK x \in Requests :
            /\ r \in DOMAIN request /\ request' = [request EXCEPT ![r] = x]
            /\ Unchecked(x, request[r]) /\ x.pc = "lost" /\ x.answer = request[r].answer
            /\ request[r].pc \in {"sent", "body"}
      BY <1>5, <1>t, LoseRequest
    <2>2. Fits(x)
      BY <1>t, <2>1 DEF Answers, Fits
    <2>3. UNCHANGED <<queue, now, restarts, happened, missed>> /\ UNCHANGED <<buckets, stored>>
      BY <1>5 DEF Lose, page, server
    <2> QED
      BY <1>t, <2>1, <2>2, <2>3, ShapeRequest DEF Typed
  <1>6. ASSUME NEW r \in 1..MaxRequests, Data(r) PROVE Shape'
    <2>1. PICK x \in Requests :
            /\ r \in DOMAIN request /\ request' = [request EXCEPT ![r] = x]
            /\ Unchecked(x, request[r]) /\ request[r].pc = "body" /\ x.pc = "body"
            /\ x.answer = request[r].answer \/ (request[r].answer = 0 /\ x.answer = 413)
      BY <1>6, <1>t, DataRequest
    <2>2. Fits(x)
      BY <1>t, <2>1 DEF Answers, Fits
    <2>3. UNCHANGED <<queue, now, restarts, happened, missed>> /\ UNCHANGED <<buckets, stored>>
      BY <1>6 DEF Data, page, server
    <2> QED
      BY <1>t, <2>1, <2>2, <2>3, ShapeRequest DEF Typed
  <1>7. ASSUME NEW r \in 1..MaxRequests, End(r) PROVE Shape'
    <2>1. PICK x \in Requests :
            /\ r \in DOMAIN request /\ request' = [request EXCEPT ![r] = x]
            /\ Unchecked(x, request[r]) /\ request[r].pc = "body" /\ x.pc = "done"
            /\ x.answer = request[r].answer \/ (request[r].answer = 0 /\ x.answer = 202)
            /\ x.answer = 202 \/ UNCHANGED stored
      BY <1>7, <1>t, EndRequest
    <2>2. Fits(x)
      BY <1>t, <2>1 DEF Answers, Fits
    <2>3. UNCHANGED <<queue, now, restarts, happened, missed>> /\ UNCHANGED buckets
      BY <1>7 DEF End, page
    <2>4. stored' \in [Failures -> Nat]
      BY <1>7, <1>t, <2>1, PersistTyped DEF End, Typed
    <2> QED
      BY <1>t, <2>1, <2>2, <2>3, <2>4, ShapeRequest DEF Typed
  <1>8. ASSUME NEW r \in 1..MaxRequests, checkIngestGuardrails(r) PROVE Shape'
    <2>1. PICK x \in Requests :
            /\ r \in DOMAIN request /\ request' = [request EXCEPT ![r] = x]
            /\ Same(x, request[r]) /\ request[r].pc = "sent"
            /\ Counts(r, x) \/ Refuses(r, x)
      BY <1>8, <1>t, GuardRequest
    <2>2. Fits(x)
      BY <2>1 DEF Fits, Counts, Refuses
    <2>3. UNCHANGED <<queue, now, restarts, happened, missed>> /\ UNCHANGED stored
      BY <1>8 DEF checkIngestGuardrails, page
    <2>4. buckets' \in [Keys -> [count : Nat, resetAt : Nat]]
      <3>1. Key[request[r].page] \in Keys
        BY <1>t, <2>1, RequestTyped DEF Requests, Keys
      <3>2. Bucket(Key[request[r].page]) \in [count : Nat, resetAt : Nat]
        BY <1>t, <3>1, BucketTyped
      <3>3. CASE Counts(r, x)
        <4> DEFINE k == Key[request[r].page]
        <4>1. buckets' = [buckets EXCEPT ![k] = Bucket(k)] /\ Bucket(k) \in [count : Nat, resetAt : Nat]
          BY <3>2, <3>3 DEF Counts
        <4> HIDE DEF k
        <4> QED
          BY <1>t, <4>1 DEF Typed
      <3>4. CASE Refuses(r, x)
        BY <1>t, <3>4 DEF Refuses, Typed
      <3> QED
        BY <2>1, <3>3, <3>4
    <2> QED
      BY <1>t, <2>1, <2>2, <2>3, <2>4, ShapeRequest DEF Typed
  <1>9. CASE Restart
    <2>1. /\ request' \in Seq(Requests) /\ DOMAIN request' = DOMAIN request
          /\ \A s \in DOMAIN request :
               /\ Unchecked(request'[s], request[s]) /\ request'[s].answer = request[s].answer
               /\ request'[s].pc = IF request[s].pc = "body" THEN "lost" ELSE request[s].pc
      BY <1>9, <1>t, RestartRequests
    <2>2. Answers'
      BY <1>t, <2>1 DEF Answers, Unchecked
    <2>3. UNCHANGED <<queue, happened, missed>> /\ UNCHANGED <<stored, now>> /\ restarts' = restarts + 1
      BY <1>9 DEF Restart, page
    <2>4. buckets' \in [Keys -> [count : Nat, resetAt : Nat]]
      BY <1>9 DEF Restart, Fresh, Keys
    <2> QED
      BY <1>t, <2>1, <2>2, <2>3, <2>4 DEF Shape, Typed
  <1>10. CASE Tick \/ UNCHANGED vars
    <2>1. UNCHANGED <<queue, happened, missed>> /\ UNCHANGED <<buckets, restarts, stored, request>> /\ now' \in {now, now + 1}
      BY <1>10 DEF Tick, vars, page, server
    <2> QED
      BY <1>t, <2>1 DEF Shape, Typed, Answers
  <1> QED
    BY <1>1, <1>2, <1>3, <1>4, <1>5, <1>6, <1>7, <1>8, <1>9, <1>10, Zenon DEF Next

-----------------------------------------------------------------------------
(***************************************************************************)
(* Where the event of a failure is.                                        *)
(***************************************************************************)
Queued(f) == UNION {{<<p, i>> : i \in {j \in DOMAIN queue[p] : queue[p][j] = f}} : p \in Pages}

Shipped(f) ==
  UNION {{<<r, i>> : i \in {j \in DOMAIN request[r].events : request[r].events[j] = f}} : r \in DOMAIN request}

\* Nowhere before the failure, and in one place from then on.
Placed(f) ==
  /\ f \notin happened => f \notin missed /\ Queued(f) = {} /\ Shipped(f) = {}
  /\ f \in happened =>
       \/ f \in missed /\ Queued(f) = {} /\ Shipped(f) = {}
       \/ f \notin missed /\ (\E x : Queued(f) = {x}) /\ Shipped(f) = {}
       \/ f \notin missed /\ Queued(f) = {} /\ (\E x : Shipped(f) = {x})

\* Stored once, and out of a request that was answered 202.
Kept202(f) == \E x \in Shipped(f) : request[x[1]].answer = 202 /\ x[2] <= maxBatch

Stored(f) == stored[f] = 0 \/ (stored[f] = 1 /\ Kept202(f))

OneInv == Shape /\ \A f \in Failures : Placed(f) /\ Stored(f)

LEMMA QueuedMembers ==
  ASSUME NEW f
  PROVE  \A x : x \in Queued(f) <=> \E p \in Pages : \E i \in DOMAIN queue[p] : x = <<p, i>> /\ queue[p][i] = f
  BY DEF Queued

LEMMA QueuedMembersPrime ==
  ASSUME NEW f
  PROVE  \A x : x \in Queued(f)' <=> \E p \in Pages : \E i \in DOMAIN queue'[p] : x = <<p, i>> /\ queue'[p][i] = f
  BY DEF Queued

LEMMA ShippedMembers ==
  ASSUME NEW f
  PROVE  \A x : x \in Shipped(f) <=>
           \E r \in DOMAIN request : \E i \in DOMAIN request[r].events : x = <<r, i>> /\ request[r].events[i] = f
  BY DEF Shipped

LEMMA ShippedMembersPrime ==
  ASSUME NEW f
  PROVE  \A x : x \in Shipped(f)' <=>
           \E r \in DOMAIN request' : \E i \in DOMAIN request'[r].events : x = <<r, i>> /\ request'[r].events[i] = f
  BY DEF Shipped

LEMMA HappenQueued ==
  ASSUME Typed, NEW p \in Pages, NEW f \in Failures, Happen(p, f)
  PROVE  /\ \E x : Queued(f)' = Queued(f) \cup {x}
         /\ \A g \in Failures \ {f} : Queued(g)' = Queued(g)
  <1> DEFINE n == Len(queue[p])
  <1>1. /\ n \in Nat /\ DOMAIN queue[p] = 1..n
        /\ Len(queue'[p]) = n + 1 /\ queue'[p][n + 1] = f
        /\ \A i \in 1..n : queue'[p][i] = queue[p][i]
        /\ queue' \in [Pages -> Seq(Failures)] /\ \A q \in Pages \ {p} : queue'[q] = queue[q]
    <2>1. queue[p] \in Seq(Failures)
      BY DEF Typed
    <2>2. n \in Nat /\ DOMAIN queue[p] = 1..n
      BY <2>1
    <2> QED
      BY <2>2, HappenQueue
  <1>2. DOMAIN queue'[p] = 1..n + 1
    <2>1. queue'[p] \in Seq(Failures)
      BY <1>1
    <2> QED
      BY <1>1, <2>1
  <1> HIDE DEF n
  <1>3. 1..n + 1 = 1..n \cup {n + 1}
    BY <1>1
  <1>4. ASSUME NEW g, NEW x
        PROVE  x \in Queued(g)' <=> x \in Queued(g) \/ (g = f /\ x = <<p, n + 1>>)
    <2>1. x \in Queued(g)' <=> \E q \in Pages : \E i \in DOMAIN queue'[q] : x = <<q, i>> /\ queue'[q][i] = g
      BY QueuedMembersPrime
    <2>2. x \in Queued(g) <=> \E q \in Pages : \E i \in DOMAIN queue[q] : x = <<q, i>> /\ queue[q][i] = g
      BY QueuedMembers
    <2>3. ASSUME x \in Queued(g)' PROVE x \in Queued(g) \/ (g = f /\ x = <<p, n + 1>>)
      <3>1. PICK q \in Pages : \E i \in DOMAIN queue'[q] : x = <<q, i>> /\ queue'[q][i] = g
        BY <2>1, <2>3
      <3>2. PICK i \in DOMAIN queue'[q] : x = <<q, i>> /\ queue'[q][i] = g
        BY <3>1
      <3>3. CASE q = p /\ i = n + 1
        BY <1>1, <3>2, <3>3
      <3>4. CASE q = p /\ i \in 1..n
        BY <1>1, <2>2, <3>2, <3>4
      <3>5. CASE q # p
        BY <1>1, <2>2, <3>1, <3>2, <3>5
      <3> QED
        BY <1>2, <1>3, <3>2, <3>3, <3>4, <3>5
    <2>4. ASSUME x \in Queued(g) PROVE x \in Queued(g)'
      <3>1. PICK q \in Pages : \E i \in DOMAIN queue[q] : x = <<q, i>> /\ queue[q][i] = g
        BY <2>2, <2>4
      <3>2. PICK i \in DOMAIN queue[q] : x = <<q, i>> /\ queue[q][i] = g
        BY <3>1
      <3>3. i \in DOMAIN queue'[q] /\ queue'[q][i] = g
        <4>1. CASE q = p
          BY <1>1, <1>2, <1>3, <3>2, <4>1
        <4>2. CASE q # p
          BY <1>1, <3>2, <4>2
        <4> QED
          BY <4>1, <4>2
      <3> QED
        BY <2>1, <3>1, <3>2, <3>3
    <2>5. ASSUME g = f, x = <<p, n + 1>> PROVE x \in Queued(g)'
      BY <1>1, <1>2, <1>3, <2>1, <2>5
    <2> QED
      BY <2>3, <2>4, <2>5
  <1>5. Queued(f)' = Queued(f) \cup {<<p, n + 1>>}
    BY <1>4
  <1>6. ASSUME NEW g \in Failures \ {f} PROVE Queued(g)' = Queued(g)
    BY <1>4, <1>6
  <1> QED
    BY <1>5, <1>6

\* The queue of a page is emptied.
LEMMA TakeQueued ==
  ASSUME Typed, NEW p \in Pages, queue' = [queue EXCEPT ![p] = <<>>], NEW f
  PROVE  \A x : x \in Queued(f)' <=> x \in Queued(f) /\ x[1] # p
  <1>1. queue'[p] = <<>> /\ \A q \in Pages \ {p} : queue'[q] = queue[q]
    BY DEF Typed
  <1>2. DOMAIN queue'[p] = {}
    BY <1>1
  <1> SUFFICES ASSUME NEW x PROVE x \in Queued(f)' <=> x \in Queued(f) /\ x[1] # p
    OBVIOUS
  <1>3. x \in Queued(f)' <=> \E q \in Pages : \E i \in DOMAIN queue'[q] : x = <<q, i>> /\ queue'[q][i] = f
    BY QueuedMembersPrime
  <1>4. x \in Queued(f) <=> \E q \in Pages : \E i \in DOMAIN queue[q] : x = <<q, i>> /\ queue[q][i] = f
    BY QueuedMembers
  <1>5. ASSUME x \in Queued(f)' PROVE x \in Queued(f) /\ x[1] # p
    <2>1. PICK q \in Pages : \E i \in DOMAIN queue'[q] : x = <<q, i>> /\ queue'[q][i] = f
      BY <1>3, <1>5
    <2>2. PICK i \in DOMAIN queue'[q] : x = <<q, i>> /\ queue'[q][i] = f
      BY <2>1
    <2>3. q # p /\ x[1] = q
      BY <1>2, <2>2
    <2> QED
      BY <1>1, <1>4, <2>1, <2>2, <2>3
  <1>6. ASSUME x \in Queued(f), x[1] # p PROVE x \in Queued(f)'
    <2>1. PICK q \in Pages : \E i \in DOMAIN queue[q] : x = <<q, i>> /\ queue[q][i] = f
      BY <1>4, <1>6
    <2>2. PICK i \in DOMAIN queue[q] : x = <<q, i>> /\ queue[q][i] = f
      BY <2>1
    <2>3. q # p
      BY <1>6, <2>2
    <2> QED
      BY <1>1, <1>3, <2>1, <2>2, <2>3
  <1> QED
    BY <1>5, <1>6

LEMMA ShipShipped ==
  ASSUME Typed, NEW p \in Pages, flush(p), NEW f
  PROVE  \A x : x \in Shipped(f)' <=>
           \/ x \in Shipped(f)
           \/ \E i \in DOMAIN queue[p] : x = <<Len(request) + 1, i>> /\ queue[p][i] = f
  <1> DEFINE n == Len(request) + 1
  <1>1. /\ Ships(n, p) /\ DOMAIN request = 1..Len(request) /\ DOMAIN request' = 1..n
        /\ request'[n].events = queue[p] /\ \A s \in DOMAIN request : request'[s] = request[s]
    <2>1. queue[p] \in Seq(Failures)
      BY DEF Typed
    <2> QED
      BY <2>1, FlushShips, SentTyped DEF Ships
  <1>2. DOMAIN request' = DOMAIN request \cup {n}
    <2>1. Len(request) \in Nat
      <3>1. request \in Seq(Requests)
        BY DEF Typed
      <3> HIDE DEF Requests
      <3> QED
        BY <3>1
    <2>2. 1..n = 1..Len(request) \cup {n}
      BY <2>1
    <2> QED
      BY <1>1, <2>2
  <1> HIDE DEF n
  <1> SUFFICES ASSUME NEW x
               PROVE  x \in Shipped(f)' <=>
                        x \in Shipped(f) \/ \E i \in DOMAIN queue[p] : x = <<n, i>> /\ queue[p][i] = f
    BY DEF n
  <1>3. x \in Shipped(f)' <=>
          \E r \in DOMAIN request' : \E i \in DOMAIN request'[r].events : x = <<r, i>> /\ request'[r].events[i] = f
    BY ShippedMembersPrime
  <1>4. x \in Shipped(f) <=>
          \E r \in DOMAIN request : \E i \in DOMAIN request[r].events : x = <<r, i>> /\ request[r].events[i] = f
    BY ShippedMembers
  <1> QED
    BY <1>1, <1>2, <1>3, <1>4

LEMMA SameShipped ==
  ASSUME DOMAIN request' = DOMAIN request, \A r \in DOMAIN request : request'[r].events = request[r].events
  PROVE  \A f : Shipped(f)' = Shipped(f)
  <1> SUFFICES ASSUME NEW f PROVE Shipped(f)' = Shipped(f)
    OBVIOUS
  <1>1. \A x : x \in Shipped(f)' <=> x \in Shipped(f)
    BY ShippedMembers, ShippedMembersPrime
  <1> QED
    BY <1>1

LEMMA OneInit == Init => OneInv
  <1> SUFFICES ASSUME Init PROVE OneInv
    OBVIOUS
  <1>1. ASSUME NEW f \in Failures PROVE Placed(f) /\ Stored(f)
    <2>1. \A x : x \notin Queued(f) /\ x \notin Shipped(f)
      BY QueuedMembers, ShippedMembers DEF Init
    <2>2. Queued(f) = {} /\ Shipped(f) = {}
      BY <2>1
    <2> QED
      BY <2>2 DEF Init, Placed, Stored
  <1> QED
    BY <1>1, ShapeInit DEF OneInv

(***************************************************************************)
(* Steps of the page.                                                      *)
(***************************************************************************)
LEMMA PlacedHappen ==
  ASSUME OneInv, NEW p \in Pages, NEW f \in Failures, Happen(p, f) \/ SampleAway(p, f), NEW g \in Failures
  PROVE  Placed(g)'
  <1>1. Typed /\ Placed(g) /\ Placed(f)
    BY DEF OneInv, Shape
  <1>2. Shipped(g)' = Shipped(g)
    BY SameShipped DEF Happen, SampleAway
  <1>3. f \notin happened /\ happened' = happened \cup {f}
    BY DEF Happen, SampleAway
  <1>4. CASE Happen(p, f)
    <2>1. missed' = missed
      BY <1>4 DEF Happen
    <2>2. (\E x : Queued(f)' = Queued(f) \cup {x}) /\ \A h \in Failures \ {f} : Queued(h)' = Queued(h)
      BY <1>1, <1>4, HappenQueued
    <2>3. CASE g = f
      <3>1. f \notin missed /\ Queued(f) = {} /\ Shipped(f) = {}
        BY <1>1, <1>3 DEF Placed
      <3>2. \E x : Queued(f)' = {x}
        BY <2>2, <3>1
      <3> QED
        BY <1>2, <1>3, <2>1, <2>3, <3>1, <3>2 DEF Placed
    <2>4. CASE g # f
      BY <1>1, <1>2, <1>3, <2>1, <2>2, <2>4 DEF Placed
    <2> QED
      BY <2>3, <2>4
  <1>5. CASE SampleAway(p, f)
    <2>1. missed' = missed \cup {f} /\ queue' = queue
      BY <1>5 DEF SampleAway
    <2>2. Queued(g)' = Queued(g)
      BY <2>1 DEF Queued
    <2> QED
      BY <1>1, <1>2, <1>3, <2>1, <2>2 DEF Placed
  <1> QED
    BY <1>4, <1>5

LEMMA PlacedFlush ==
  ASSUME OneInv, NEW p \in Pages, flush(p), UNCHANGED <<happened, missed>>, NEW g \in Failures
  PROVE  Placed(g)'
  <1>1. Typed /\ Placed(g)
    BY DEF OneInv, Shape
  <1>2. \A x : x \in Queued(g)' <=> x \in Queued(g) /\ x[1] # p
    BY <1>1, TakeQueued DEF flush
  <1>3. \A x : x \in Shipped(g)' <=>
           \/ x \in Shipped(g)
           \/ \E i \in DOMAIN queue[p] : x = <<Len(request) + 1, i>> /\ queue[p][i] = g
    BY <1>1, ShipShipped
  <1>4. \A x : x \in Queued(g) <=> \E q \in Pages : \E i \in DOMAIN queue[q] : x = <<q, i>> /\ queue[q][i] = g
    BY QueuedMembers
  <1>5. CASE Queued(g) = {}
    <2>1. Queued(g)' = {}
      BY <1>2, <1>5
    <2>2. \A i \in DOMAIN queue[p] : queue[p][i] # g
      BY <1>4, <1>5
    <2>3. Shipped(g)' = Shipped(g)
      BY <1>3, <2>2
    <2> QED
      BY <1>1, <1>5, <2>1, <2>3 DEF Placed
  <1>6. CASE Queued(g) # {}
    <2>1. g \in happened /\ g \notin missed /\ Shipped(g) = {}
      BY <1>1, <1>6 DEF Placed
    <2>2. PICK y : Queued(g) = {y}
      BY <1>1, <1>6 DEF Placed
    <2>3. PICK q \in Pages : \E i \in DOMAIN queue[q] : y = <<q, i>> /\ queue[q][i] = g
      BY <1>4, <2>2
    <2>4. PICK i \in DOMAIN queue[q] : y = <<q, i>> /\ queue[q][i] = g
      BY <2>3
    <2>5. CASE q = p
      <3>1. Queued(g)' = {}
        BY <1>2, <2>2, <2>4, <2>5
      <3>2. ASSUME NEW j \in DOMAIN queue[p], queue[p][j] = g PROVE j = i
        <4>1. <<p, j>> \in Queued(g)
          BY <1>4, <3>2
        <4>2. <<p, j>> = <<q, i>>
          BY <2>2, <2>4, <4>1
        <4> QED
          BY <4>2
      <3>3. \A x : x \in Shipped(g)' <=> x = <<Len(request) + 1, i>>
        BY <1>3, <2>1, <2>4, <2>5, <3>2
      <3>4. Shipped(g)' = {<<Len(request) + 1, i>>}
        BY <3>3
      <3> QED
        BY <2>1, <3>1, <3>4 DEF Placed
    <2>6. CASE q # p
      <3>1. Queued(g)' = Queued(g)
        BY <1>2, <2>2, <2>4, <2>6
      <3>2. ASSUME NEW j \in DOMAIN queue[p] PROVE queue[p][j] # g
        <4>1. SUFFICES ASSUME queue[p][j] = g PROVE FALSE
          OBVIOUS
        <4>2. <<p, j>> \in Queued(g)
          BY <1>4, <4>1
        <4>3. <<p, j>> = <<q, i>>
          BY <2>2, <2>4, <4>2
        <4> QED
          BY <2>6, <4>3
      <3>3. Shipped(g)' = Shipped(g)
        BY <1>3, <3>2
      <3> QED
        BY <2>1, <2>2, <3>1, <3>3 DEF Placed
    <2> QED
      BY <2>5, <2>6
  <1> QED
    BY <1>5, <1>6

LEMMA PlacedCrash ==
  ASSUME OneInv, NEW p \in Pages, Crash(p), NEW g \in Failures
  PROVE  Placed(g)'
  <1>1. Typed /\ Placed(g)
    BY DEF OneInv, Shape
  <1>2. /\ queue' = [queue EXCEPT ![p] = <<>>] /\ happened' = happened /\ request' = request
        /\ missed' = missed \cup {queue[p][i] : i \in DOMAIN queue[p]}
    BY DEF Crash
  <1>3. \A x : x \in Queued(g)' <=> x \in Queued(g) /\ x[1] # p
    BY <1>1, <1>2, TakeQueued
  <1>4. Shipped(g)' = Shipped(g)
    BY <1>2, SameShipped
  <1>5. \A x : x \in Queued(g) <=> \E q \in Pages : \E i \in DOMAIN queue[q] : x = <<q, i>> /\ queue[q][i] = g
    BY QueuedMembers
  <1>6. g \in missed' <=> g \in missed \/ \E i \in DOMAIN queue[p] : queue[p][i] = g
    BY <1>2
  <1>7. CASE \E i \in DOMAIN queue[p] : queue[p][i] = g
    <2>1. PICK i \in DOMAIN queue[p] : queue[p][i] = g
      BY <1>7
    <2>2. <<p, i>> \in Queued(g)
      BY <1>5, <2>1
    <2>3. g \in happened /\ Shipped(g) = {}
      BY <1>1, <2>2 DEF Placed
    <2>4. Queued(g) = {<<p, i>>}
      BY <1>1, <2>2 DEF Placed
    <2>5. Queued(g)' = {}
      BY <1>3, <2>4
    <2> QED
      BY <1>2, <1>4, <1>6, <1>7, <2>3, <2>5 DEF Placed
  <1>8. CASE ~ \E i \in DOMAIN queue[p] : queue[p][i] = g
    <2>1. ASSUME NEW x \in Queued(g) PROVE x[1] # p
      <3>1. PICK q \in Pages : \E i \in DOMAIN queue[q] : x = <<q, i>> /\ queue[q][i] = g
        BY <1>5, <2>1
      <3> QED
        BY <1>8, <3>1
    <2>2. Queued(g)' = Queued(g)
      BY <1>3, <2>1
    <2> QED
      BY <1>1, <1>2, <1>4, <1>6, <1>8, <2>2 DEF Placed
  <1> QED
    BY <1>7, <1>8

\* What is stored stays as it is while the requests keep their events and answers.
LEMMA StoredStays ==
  ASSUME UNCHANGED stored, NEW g,
         \A x \in Shipped(g) : x \in Shipped(g)' /\ (request[x[1]].answer = 202 => request'[x[1]].answer = 202),
         Stored(g)
  PROVE  Stored(g)'
  BY DEF Stored, Kept202

(***************************************************************************)
(* Steps of the server: they leave the queues and all events alone.        *)
(***************************************************************************)
Quiet ==
  /\ UNCHANGED <<queue, happened, missed>>
  /\ DOMAIN request' = DOMAIN request
  /\ \A r \in DOMAIN request : request'[r].events = request[r].events

LEMMA PlacedQuiet ==
  ASSUME OneInv, Quiet, NEW g \in Failures
  PROVE  Placed(g)' /\ Queued(g)' = Queued(g) /\ Shipped(g)' = Shipped(g)
  <1>1. Shipped(g)' = Shipped(g)
    BY SameShipped DEF Quiet
  <1>2. Queued(g)' = Queued(g)
    BY DEF Quiet, Queued
  <1> QED
    BY <1>1, <1>2 DEF Quiet, Placed, OneInv

LEMMA StoredQuiet ==
  ASSUME OneInv, Quiet, UNCHANGED stored, NEW g \in Failures,
         \A r \in DOMAIN request : request[r].answer = 202 => request'[r].answer = 202
  PROVE  Stored(g)'
  <1>1. Shipped(g)' = Shipped(g)
    BY PlacedQuiet
  <1>2. \A x \in Shipped(g) : x[1] \in DOMAIN request
    BY ShippedMembers
  <1>3. \A x \in Shipped(g) : x \in Shipped(g)' /\ (request[x[1]].answer = 202 => request'[x[1]].answer = 202)
    BY <1>1, <1>2
  <1> QED
    BY <1>3, StoredStays DEF OneInv

LEMMA RequestQuiet ==
  ASSUME Typed, NEW r \in DOMAIN request, NEW x \in Requests, request' = [request EXCEPT ![r] = x],
         Same(x, request[r]), UNCHANGED <<queue, happened, missed>>
  PROVE  Quiet
  <1>1. DOMAIN request' = DOMAIN request /\ request'[r] = x /\ \A s \in DOMAIN request \ {r} : request'[s] = request[s]
    BY RequestSet
  <1> QED
    BY <1>1 DEF Quiet, Same

\* A request is answered 202 and each of its events stored, or refused by log.
LEMMA StoredEnd ==
  ASSUME OneInv, NEW r, End(r), NEW g \in Failures
  PROVE  Stored(g)'
  <1>1. Typed /\ Answers /\ Placed(g) /\ Stored(g)
    BY DEF OneInv, Shape
  <1>2. PICK x \in Requests :
            /\ r \in DOMAIN request /\ request' = [request EXCEPT ![r] = x]
            /\ Unchecked(x, request[r]) /\ request[r].pc = "body" /\ x.pc = "done"
            /\ x.answer = request[r].answer \/ (request[r].answer = 0 /\ x.answer = 202)
            /\ x.answer = 202 \/ UNCHANGED stored
    BY <1>1, EndRequest
  <1>3. /\ DOMAIN request' = DOMAIN request
        /\ request'[r] = x /\ \A s \in DOMAIN request \ {r} : request'[s] = request[s]
    BY <1>1, <1>2, RequestSet
  <1>4. Quiet
    BY <1>1, <1>2, RequestQuiet DEF End, page, Unchecked
  <1>5. request[r].answer # 202
    BY <1>1, <1>2 DEF Answers
  <1>6. \A s \in DOMAIN request : request[s].answer = 202 => request'[s].answer = 202
    BY <1>3, <1>5
  <1>7. CASE UNCHANGED stored
    BY <1>4, <1>6, <1>7, StoredQuiet
  <1>8. CASE stored' # stored
    <2>1. x.answer = 202 /\ request[r].answer = 0
      BY <1>2, <1>5, <1>8
    <2>2. PICK logged \in SUBSET Kept(r) : stored' = [f \in Failures |-> stored[f] + Times(r, logged, f)]
      BY <2>1 DEF End, persistIngestBatch
    <2> DEFINE mine == {i \in logged : request[r].events[i] = g}
    <2>3. stored'[g] = stored[g] + Cardinality(mine)
      BY <2>2 DEF Times
    <2>4. Shipped(g)' = Shipped(g)
      BY <1>4, PlacedQuiet
    <2>5. \A i \in mine : <<r, i>> \in Shipped(g) /\ i <= maxBatch
      <3>1. request[r].events \in Seq(Failures)
        BY <1>1, <1>2, RequestTyped DEF Requests
      <3>2. DOMAIN request[r].events = 1..Len(request[r].events)
        BY <3>1
      <3> QED
        BY <1>2, <2>2, <3>2, ShippedMembers DEF Kept
    <2> HIDE DEF mine
    <2>6. CASE mine = {}
      <3>1. stored'[g] = stored[g]
        BY <1>1, <2>3, <2>6, FS_EmptySet DEF Typed
      <3>2. CASE stored[g] = 0
        BY <3>1, <3>2 DEF Stored
      <3>3. CASE stored[g] = 1 /\ Kept202(g)
        <4>1. PICK y \in Shipped(g) : request[y[1]].answer = 202 /\ y[2] <= maxBatch
          BY <3>3 DEF Kept202
        <4>2. y[1] \in DOMAIN request
          BY ShippedMembers
        <4>3. request'[y[1]].answer = 202
          BY <1>6, <4>1, <4>2
        <4>4. Kept202(g)'
          BY <2>4, <4>1, <4>3 DEF Kept202
        <4> QED
          BY <3>1, <3>3, <4>4 DEF Stored
      <3> QED
        BY <1>1, <3>2, <3>3 DEF Stored
    <2>7. CASE mine # {}
      <3>1. PICK i : i \in mine
        BY <2>7
      <3>2. PICK y : Shipped(g) = {y}
        BY <1>1, <2>5, <3>1 DEF Placed
      <3>3. mine = {i}
        <4>1. ASSUME NEW j \in mine PROVE j = i
          <5>1. <<r, j>> = <<r, i>>
            BY <2>5, <3>1, <3>2
          <5> QED
            BY <5>1
        <4> QED
          BY <3>1, <4>1
      <3>4. Cardinality(mine) = 1
        BY <3>3, FS_Singleton
      <3>5. stored[g] = 0
        <4>1. SUFFICES ASSUME Kept202(g) PROVE FALSE
          BY <1>1 DEF Stored
        <4>2. request[y[1]].answer = 202
          BY <3>2, <4>1 DEF Kept202
        <4>3. y = <<r, i>>
          BY <2>5, <3>1, <3>2
        <4> QED
          BY <1>5, <4>2, <4>3
      <3>6. stored'[g] = 1
        BY <2>3, <3>4, <3>5
      <3>7. Kept202(g)'
        <4>1. <<r, i>> \in Shipped(g)' /\ request'[r].answer = 202 /\ i <= maxBatch
          BY <1>3, <2>1, <2>4, <2>5, <3>1
        <4>2. request'[<<r, i>>[1]].answer = 202 /\ <<r, i>>[2] <= maxBatch
          BY <4>1
        <4> QED
          BY <4>1, <4>2 DEF Kept202
      <3> QED
        BY <3>6, <3>7 DEF Stored
    <2> QED
      BY <2>6, <2>7
  <1> QED
    BY <1>7, <1>8

LEMMA StoredFlush ==
  ASSUME OneInv, NEW p \in Pages, flush(p), UNCHANGED stored, NEW g \in Failures
  PROVE  Stored(g)'
  <1>1. Typed /\ Stored(g)
    BY DEF OneInv, Shape
  <1>2. \A x \in Shipped(g) : x \in Shipped(g)' /\ x[1] \in DOMAIN request
    BY <1>1, ShipShipped, ShippedMembers
  <1>3. \A s \in DOMAIN request : request'[s] = request[s]
    BY <1>1, FlushShips DEF Ships
  <1> QED
    BY <1>1, <1>2, <1>3, StoredStays

LEMMA OneStep == OneInv /\ [Next]_vars => OneInv'
  <1> SUFFICES ASSUME OneInv, [Next]_vars PROVE OneInv'
    OBVIOUS
  <1>s. Shape'
    BY ShapeStep DEF OneInv
  <1> SUFFICES ASSUME NEW g \in Failures PROVE Placed(g)' /\ Stored(g)'
    BY <1>s DEF OneInv
  <1>t. Typed /\ Answers /\ Placed(g) /\ Stored(g)
    BY DEF OneInv, Shape
  <1>0. ASSUME UNCHANGED <<request, stored>> PROVE Stored(g)'
    BY <1>0, <1>t DEF Stored, Kept202, Shipped
  <1>1. ASSUME NEW p \in Pages, NEW f \in Failures, Happen(p, f) \/ SampleAway(p, f) PROVE Placed(g)' /\ Stored(g)'
    <2>1. UNCHANGED <<request, stored>>
      BY <1>1 DEF Happen, SampleAway, server
    <2> QED
      BY <1>0, <1>1, <2>1, PlacedHappen
  <1>2. ASSUME NEW p \in Pages, Hide(p) \/ Leave(p) PROVE Placed(g)' /\ Stored(g)'
    <2>1. UNCHANGED <<happened, missed, stored>>
      BY <1>2 DEF Hide, Leave, server
    <2>2. CASE flush(p)
      BY <2>1, <2>2, PlacedFlush, StoredFlush
    <2>3. CASE UNCHANGED <<queue, request>>
      <3>2. Queued(g)' = Queued(g) /\ Shipped(g)' = Shipped(g)
        BY <2>3 DEF Queued, Shipped
      <3>1. Placed(g)'
        BY <1>t, <2>1, <3>2 DEF Placed
      <3> QED
        BY <1>0, <2>1, <2>3, <3>1
    <2> QED
      BY <1>2, <2>2, <2>3 DEF Hide, Leave
  <1>3. ASSUME NEW p \in Pages, Crash(p) PROVE Placed(g)' /\ Stored(g)'
    <2>1. UNCHANGED <<request, stored>>
      BY <1>3 DEF Crash, server
    <2> QED
      BY <1>0, <1>3, <2>1, PlacedCrash
  <1>4. ASSUME NEW r \in 1..MaxRequests, Lose(r) PROVE Placed(g)' /\ Stored(g)'
    <2>1. PICK x \in Requests :
            /\ r \in DOMAIN request /\ request' = [request EXCEPT ![r] = x]
            /\ Unchecked(x, request[r]) /\ x.pc = "lost" /\ x.answer = request[r].answer
            /\ request[r].pc \in {"sent", "body"}
      BY <1>4, <1>t, LoseRequest
    <2>2. UNCHANGED <<queue, happened, missed>> /\ UNCHANGED stored
      BY <1>4 DEF Lose, page, server
    <2>3. Quiet
      BY <1>t, <2>1, <2>2, RequestQuiet DEF Unchecked
    <2>4. \A s \in DOMAIN request : request[s].answer = 202 => request'[s].answer = 202
      BY <1>t, <2>1, RequestSet
    <2> QED
      BY <2>2, <2>3, <2>4, PlacedQuiet, StoredQuiet
  <1>5. ASSUME NEW r \in 1..MaxRequests, Data(r) PROVE Placed(g)' /\ Stored(g)'
    <2>1. PICK x \in Requests :
            /\ r \in DOMAIN request /\ request' = [request EXCEPT ![r] = x]
            /\ Unchecked(x, request[r]) /\ request[r].pc = "body" /\ x.pc = "body"
            /\ x.answer = request[r].answer \/ (request[r].answer = 0 /\ x.answer = 413)
      BY <1>5, <1>t, DataRequest
    <2>2. UNCHANGED <<queue, happened, missed>> /\ UNCHANGED stored
      BY <1>5 DEF Data, page, server
    <2>3. Quiet
      BY <1>t, <2>1, <2>2, RequestQuiet DEF Unchecked
    <2>4. \A s \in DOMAIN request : request[s].answer = 202 => request'[s].answer = 202
      BY <1>t, <2>1, RequestSet
    <2> QED
      BY <2>2, <2>3, <2>4, PlacedQuiet, StoredQuiet
  <1>6. ASSUME NEW r \in 1..MaxRequests, checkIngestGuardrails(r) PROVE Placed(g)' /\ Stored(g)'
    <2>1. PICK x \in Requests :
            /\ r \in DOMAIN request /\ request' = [request EXCEPT ![r] = x]
            /\ Same(x, request[r]) /\ request[r].pc = "sent"
            /\ Counts(r, x) \/ Refuses(r, x)
      BY <1>6, <1>t, GuardRequest
    <2>2. UNCHANGED <<queue, happened, missed>> /\ UNCHANGED stored
      BY <1>6 DEF checkIngestGuardrails, page
    <2>3. Quiet
      BY <1>t, <2>1, <2>2, RequestQuiet
    <2>4. request[r].answer # 202
      BY <1>t, <2>1 DEF Answers
    <2>5. \A s \in DOMAIN request : request[s].answer = 202 => request'[s].answer = 202
      BY <1>t, <2>1, <2>4, RequestSet
    <2> QED
      BY <2>2, <2>3, <2>5, PlacedQuiet, StoredQuiet
  <1>7. ASSUME NEW r \in 1..MaxRequests, End(r) PROVE Placed(g)' /\ Stored(g)'
    <2>1. PICK x \in Requests :
            /\ r \in DOMAIN request /\ request' = [request EXCEPT ![r] = x]
            /\ Unchecked(x, request[r]) /\ request[r].pc = "body" /\ x.pc = "done"
            /\ x.answer = request[r].answer \/ (request[r].answer = 0 /\ x.answer = 202)
            /\ x.answer = 202 \/ UNCHANGED stored
      BY <1>7, <1>t, EndRequest
    <2>2. Quiet
      BY <1>7, <1>t, <2>1, RequestQuiet DEF End, page, Unchecked
    <2> QED
      BY <1>7, <2>2, PlacedQuiet, StoredEnd
  <1>8. CASE Restart
    <2>1. /\ request' \in Seq(Requests) /\ DOMAIN request' = DOMAIN request
          /\ \A s \in DOMAIN request :
               /\ Unchecked(request'[s], request[s]) /\ request'[s].answer = request[s].answer
               /\ request'[s].pc = IF request[s].pc = "body" THEN "lost" ELSE request[s].pc
      BY <1>8, <1>t, RestartRequests
    <2>2. UNCHANGED <<queue, happened, missed>> /\ UNCHANGED stored
      BY <1>8 DEF Restart, page
    <2>3. Quiet
      BY <2>1, <2>2 DEF Quiet, Unchecked, Same
    <2> QED
      BY <2>1, <2>2, <2>3, PlacedQuiet, StoredQuiet
  <1>9. CASE Tick \/ UNCHANGED vars
    <2>1. UNCHANGED <<queue, happened, missed>> /\ UNCHANGED <<stored, request>>
      BY <1>9 DEF Tick, vars, page, server
    <2>3. Queued(g)' = Queued(g) /\ Shipped(g)' = Shipped(g)
      BY <2>1 DEF Queued, Shipped
    <2>2. Placed(g)'
      BY <1>t, <2>1, <2>3 DEF Placed
    <2> QED
      BY <1>0, <2>1, <2>2
  <1> QED
    BY <1>1, <1>2, <1>3, <1>4, <1>5, <1>6, <1>7, <1>8, <1>9, Zenon DEF Next

(***************************************************************************)
(* A failure makes one event, wherever it goes, and that is stored at most *)
(* once, and only of a request answered 202: for any pages, failures,      *)
(* limits and restarts, and any order in which requests are lost, refused  *)
(* and come in (flush, witslogBrowserIngest).                              *)
(***************************************************************************)
THEOREM OneEventPerFailure == Spec => []OneEventEach
<1>1. OneInv => OneEventEach
  <2> SUFFICES ASSUME OneInv, NEW f \in happened
               PROVE  /\ Cardinality(Queued(f)) + Cardinality(Shipped(f)) + Cardinality(missed \cap {f}) = 1
                      /\ stored[f] <= Cardinality({x \in Shipped(f) : request[x[1]].answer = 202 /\ x[2] <= maxBatch})
    BY DEF OneEventEach, Queued, Shipped
  <2>1. f \in Failures /\ Placed(f) /\ Stored(f)
    BY DEF OneInv, Shape, Typed
  <2>2. Cardinality({}) = 0 /\ \A x : Cardinality({x}) = 1
    BY FS_EmptySet, FS_Singleton
  <2>3. missed \cap {f} = IF f \in missed THEN {f} ELSE {}
    OBVIOUS
  <2>4. Cardinality(Queued(f)) + Cardinality(Shipped(f)) + Cardinality(missed \cap {f}) = 1
    <3>1. CASE f \in missed
      BY <2>1, <2>2, <2>3, <3>1 DEF Placed
    <3>2. CASE f \notin missed
      <4>1. Cardinality(missed \cap {f}) = 0
        BY <2>2, <2>3, <3>2
      <4>2. \/ (\E x : Queued(f) = {x}) /\ Shipped(f) = {}
            \/ Queued(f) = {} /\ (\E x : Shipped(f) = {x})
        BY <2>1, <3>2 DEF Placed
      <4>3. \/ Cardinality(Queued(f)) = 1 /\ Cardinality(Shipped(f)) = 0
            \/ Cardinality(Queued(f)) = 0 /\ Cardinality(Shipped(f)) = 1
        BY <2>2, <4>2
      <4> QED
        BY <4>1, <4>3
    <3> QED
      BY <3>1, <3>2
  <2> DEFINE good == {x \in Shipped(f) : request[x[1]].answer = 202 /\ x[2] <= maxBatch}
  <2>5. stored[f] <= Cardinality(good)
    <3>1. Shipped(f) = {} \/ \E x : Shipped(f) = {x}
      BY <2>1 DEF Placed
    <3>2. good = {} \/ \E x : good = {x}
      BY <3>1
    <3>3. Kept202(f) => good # {}
      BY DEF Kept202
    <3> HIDE DEF good
    <3>4. Cardinality(good) = IF good = {} THEN 0 ELSE 1
      BY <2>2, <3>2
    <3> QED
      BY <2>1, <3>3, <3>4 DEF Stored
  <2> QED
    BY <2>4, <2>5
<1> QED
  BY <1>1, OneInit, OneStep, PTL DEF Spec

-----------------------------------------------------------------------------
(***************************************************************************)
(* The rate limit.  A request that was counted belongs to a window, which  *)
(* W gives the start of.  Windows of one key and one server do not         *)
(* overlap, at most max requests pass in one, and a bucket has counted     *)
(* those of the last.                                                      *)
(***************************************************************************)
CountedOnes == {r \in DOMAIN request : request[r].at > 0}

Passed(r) == request[r].answer # 429

\* Those a bucket of key k may have counted since the server started.
Mine(s, k) == Key[request[s].page] = k /\ request[s].since = restarts

Current(W, k) == {s \in CountedOnes : Mine(s, k) /\ W[s] + windowMs = buckets[k].resetAt}

PassedWith(W, s) == {t \in CountedOnes : Together(s, t) /\ W[t] = W[s] /\ Passed(t)}

Inside(W) == \A s \in CountedOnes : W[s] <= request[s].at /\ request[s].at < W[s] + windowMs

Apart(W) ==
  \A s, t \in CountedOnes : Together(s, t) => W[s] = W[t] \/ W[s] + windowMs <= W[t] \/ W[t] + windowMs <= W[s]

Few(W) == \A s \in CountedOnes : Cardinality(PassedWith(W, s)) <= max

Newest(W) ==
  \A k \in Keys :
    /\ \A s \in CountedOnes : Mine(s, k) =>
         \/ W[s] + windowMs = buckets[k].resetAt
         \/ W[s] + windowMs + windowMs <= buckets[k].resetAt
    /\ Cardinality(Current(W, k)) = buckets[k].count

Windows(W) == Inside(W) /\ Apart(W) /\ Few(W) /\ Newest(W)

Before(r) ==
  {s \in DOMAIN request \ {r} : /\ Counted(s) /\ Together(r, s) /\ request[s].page \in Allowed
                                /\ request[r].at - request[s].at \in 0..windowMs - 1}

RateInv ==
  /\ Shape
  /\ \A r \in CountedOnes :
       /\ request[r].page \in Allowed /\ request[r].since <= restarts /\ request[r].at <= now
       /\ IF Passed(r) THEN max >= 1 ELSE Cardinality(Before(r)) >= max
  /\ \A k \in Keys : buckets[k].resetAt <= now + windowMs
  /\ windowMs > 0 => \E W \in [CountedOnes -> Int] : Windows(W)

LEMMA CountedFinite == Typed => IsFiniteSet(CountedOnes) /\ IsFiniteSet(DOMAIN request)
  <1> SUFFICES ASSUME Typed PROVE IsFiniteSet(CountedOnes) /\ IsFiniteSet(DOMAIN request)
    OBVIOUS
  <1>1. request \in Seq(Requests)
    BY DEF Typed
  <1> HIDE DEF Requests
  <1>2. DOMAIN request = 1..Len(request) /\ Len(request) \in Nat
    BY <1>1
  <1>3. IsFiniteSet(DOMAIN request)
    BY <1>2, FS_Interval
  <1> QED
    BY <1>3, FS_Subset DEF CountedOnes

LEMMA CountedFields ==
  ASSUME Typed, NEW r \in CountedOnes
  PROVE  /\ r \in DOMAIN request /\ request[r].page \in Pages /\ Key[request[r].page] \in Keys
         /\ request[r].at \in Nat /\ request[r].since \in Nat /\ request[r].answer \in Nat
  BY RequestTyped DEF CountedOnes, Requests, Keys

LEMMA BeforeCounted == \A r : Before(r) \subseteq CountedOnes
  BY DEF Before, CountedOnes, Counted

LEMMA RateInit == Init => RateInv
  <1> SUFFICES ASSUME Init PROVE RateInv
    OBVIOUS
  <1>1. Shape
    BY ShapeInit
  <1>2. CountedOnes = {}
    BY DEF Init, CountedOnes
  <1>3. \A k \in Keys : buckets[k].resetAt = 0 /\ buckets[k].count = 0
    BY DEF Init, Fresh, Keys
  <1>4. PICK W : W = [s \in {} |-> 0]
    OBVIOUS
  <1>5. W \in [CountedOnes -> Int]
    BY <1>2, <1>4
  <1>6. \A k \in Keys : Current(W, k) = {}
    BY <1>2 DEF Current
  <1>7. Windows(W)
    BY <1>2, <1>3, <1>6, FS_EmptySet DEF Windows, Inside, Apart, Few, Newest
  <1>8. \A k \in Keys : buckets[k].resetAt <= now + windowMs
    BY <1>1, <1>3, IngestAssumption DEF Shape, Typed
  <1> QED
    BY <1>1, <1>2, <1>5, <1>7, <1>8 DEF RateInv

(***************************************************************************)
(* What was counted stays as it was counted.                               *)
(***************************************************************************)
Stays(r) ==
  /\ request'[r].page = request[r].page /\ request'[r].at = request[r].at /\ request'[r].since = request[r].since
  /\ request'[r].answer = 429 <=> request[r].answer = 429

LEMMA BeforeTyped ==
  ASSUME Typed', NEW r
  PROVE  IsFiniteSet(Before(r)') /\ Cardinality(Before(r)') \in Nat
  <1>1. Before(r)' \subseteq CountedOnes'
    BY DEF Before, CountedOnes, Counted
  <1>2. IsFiniteSet(CountedOnes')
    <2>1. request' \in Seq(Requests)
      BY DEF Typed
    <2> HIDE DEF Requests
    <2>2. DOMAIN request' = 1..Len(request') /\ Len(request') \in Nat
      BY <2>1
    <2>3. IsFiniteSet(DOMAIN request')
      BY <2>2, FS_Interval
    <2> QED
      BY <2>3, FS_Subset DEF CountedOnes
  <1>3. IsFiniteSet(Before(r)')
    BY <1>1, <1>2, FS_Subset
  <1> QED
    BY <1>3, FS_CardinalityType

LEMMA BeforeStays ==
  ASSUME Typed, Typed', CountedOnes \subseteq CountedOnes', \A s \in CountedOnes : Stays(s), NEW r \in CountedOnes
  PROVE  Cardinality(Before(r)) <= Cardinality(Before(r)') /\ Cardinality(Before(r)) \in Nat
  <1>1. Before(r) \subseteq Before(r)'
    BY DEF Before, Counted, Together, Stays, CountedOnes
  <1>2. IsFiniteSet(Before(r)')
    BY BeforeTyped
  <1>3. IsFiniteSet(Before(r))
    BY <1>1, <1>2, FS_Subset
  <1> QED
    BY <1>1, <1>2, <1>3, FS_Subset, FS_CardinalityType

\* Steps that count nothing.
LEMMA RateQuiet ==
  ASSUME RateInv, Shape', CountedOnes' = CountedOnes, \A s \in CountedOnes : Stays(s),
         UNCHANGED <<buckets, restarts>>, now' \in {now, now + 1}
  PROVE  RateInv'
  <1>1. Typed /\ Typed'
    BY DEF RateInv, Shape
  <1>2. now \in Nat /\ windowMs \in Nat /\ max \in Nat
    BY <1>1, IngestAssumption DEF Typed
  <1>3. ASSUME NEW r \in CountedOnes'
        PROVE  /\ request'[r].page \in Allowed /\ request'[r].since <= restarts' /\ request'[r].at <= now'
               /\ IF Passed(r)' THEN max >= 1 ELSE Cardinality(Before(r)') >= max
    <2>1. r \in CountedOnes
      BY <1>3
    <2>2. request[r].at \in Nat /\ request[r].at <= now
      BY <1>1, <2>1, CountedFields DEF RateInv
    <2>3. request'[r].page \in Allowed /\ request'[r].since <= restarts' /\ request'[r].at <= now'
      BY <1>2, <2>1, <2>2 DEF RateInv, Stays
    <2>4. Passed(r)' <=> Passed(r)
      BY <2>1 DEF Passed, Stays
    <2>5. Cardinality(Before(r)) <= Cardinality(Before(r)') /\ Cardinality(Before(r)) \in Nat
      BY <1>1, <2>1, BeforeStays
    <2>6. Cardinality(Before(r)') \in Nat
      BY <1>1, <2>1, BeforeTyped
    <2>7. IF Passed(r) THEN max >= 1 ELSE Cardinality(Before(r)) >= max
      BY <2>1 DEF RateInv
    <2>8. IF Passed(r)' THEN max >= 1 ELSE Cardinality(Before(r)') >= max
      BY <1>2, <2>4, <2>5, <2>6, <2>7
    <2> QED
      BY <2>3, <2>8
  <1>4. ASSUME windowMs > 0 PROVE \E W \in [CountedOnes' -> Int] : Windows(W)'
    <2>1. PICK W \in [CountedOnes -> Int] : Windows(W)
      BY <1>4 DEF RateInv
    <2>2. \A s \in CountedOnes : PassedWith(W, s)' = PassedWith(W, s)
      BY DEF PassedWith, Together, Passed, Stays
    <2>3. \A k \in Keys : Current(W, k)' = Current(W, k)
      BY DEF Current, Mine, Stays
    <2>4. Inside(W)' /\ Apart(W)' /\ Few(W)'
      BY <2>1, <2>2 DEF Windows, Inside, Apart, Few, Together, Stays
    <2>5. Newest(W)'
      BY <2>1, <2>3 DEF Windows, Newest, Mine, Stays
    <2> QED
      BY <2>4, <2>5 DEF Windows
  <1>5. \A k \in Keys : buckets'[k].resetAt <= now' + windowMs
    <2>1. \A k \in Keys : buckets[k].resetAt \in Nat /\ buckets[k].resetAt <= now + windowMs
      BY <1>1 DEF Typed, RateInv
    <2> QED
      BY <1>2, <2>1
  <1> QED
    BY <1>3, <1>4, <1>5 DEF RateInv

LEMMA RateRestart ==
  ASSUME RateInv, Shape', Restart
  PROVE  RateInv'
  <1>1. Typed /\ Typed'
    BY DEF RateInv, Shape
  <1>2. now \in Nat /\ windowMs \in Nat /\ max \in Nat /\ restarts \in Nat /\ restarts' = restarts + 1 /\ now' = now
    BY <1>1, IngestAssumption DEF Typed, Restart
  <1>3. /\ DOMAIN request' = DOMAIN request
        /\ \A s \in DOMAIN request : Unchecked(request'[s], request[s]) /\ request'[s].answer = request[s].answer
    BY <1>1, RestartRequests
  <1>4. CountedOnes' = CountedOnes /\ \A s \in CountedOnes : Stays(s)
    BY <1>3 DEF CountedOnes, Stays, Unchecked, Same
  <1>5. ASSUME NEW r \in CountedOnes'
        PROVE  /\ request'[r].page \in Allowed /\ request'[r].since <= restarts' /\ request'[r].at <= now'
               /\ request'[r].since < restarts'
               /\ IF Passed(r)' THEN max >= 1 ELSE Cardinality(Before(r)') >= max
    <2>1. r \in CountedOnes
      BY <1>4, <1>5
    <2>2. /\ request[r].at \in Nat /\ request[r].at <= now
          /\ request[r].since \in Nat /\ request[r].since <= restarts
      BY <1>1, <2>1, CountedFields DEF RateInv
    <2>3. request'[r].page \in Allowed /\ request'[r].since < restarts' /\ request'[r].at <= now'
      BY <1>2, <1>4, <2>1, <2>2 DEF RateInv, Stays
    <2>4. Passed(r)' <=> Passed(r)
      BY <1>4, <2>1 DEF Passed, Stays
    <2>5. Cardinality(Before(r)) <= Cardinality(Before(r)') /\ Cardinality(Before(r)) \in Nat
      BY <1>1, <1>4, <2>1, BeforeStays
    <2>6. Cardinality(Before(r)') \in Nat
      BY <1>1, <1>4, <2>1, BeforeTyped
    <2>7. IF Passed(r) THEN max >= 1 ELSE Cardinality(Before(r)) >= max
      BY <2>1 DEF RateInv
    <2>8. IF Passed(r)' THEN max >= 1 ELSE Cardinality(Before(r)') >= max
      BY <1>2, <2>4, <2>5, <2>6, <2>7
    <2>9. request'[r].since <= restarts'
      BY <1>2, <1>4, <2>1, <2>2 DEF Stays
    <2> QED
      BY <2>3, <2>8, <2>9
  <1>6. \A k \in Keys : buckets'[k].resetAt = 0 /\ buckets'[k].count = 0
    BY DEF Restart, Fresh, Keys
  <1>7. ASSUME windowMs > 0 PROVE \E W \in [CountedOnes' -> Int] : Windows(W)'
    <2>1. PICK W \in [CountedOnes -> Int] : Windows(W)
      BY <1>7 DEF RateInv
    <2>2. \A s \in CountedOnes : PassedWith(W, s)' = PassedWith(W, s)
      BY <1>4 DEF PassedWith, Together, Passed, Stays
    <2>3. ASSUME NEW s \in CountedOnes' PROVE request'[s].since # restarts'
      <3>1. request'[s].since < restarts'
        BY <1>5, <2>3
      <3>2. request'[s].since \in Nat
        BY <1>1, <1>4, <2>3, CountedFields DEF Stays
      <3> QED
        BY <1>2, <3>1, <3>2
    <2>4. \A k \in Keys : Current(W, k)' = {}
      BY <2>3 DEF Current, Mine
    <2>5. Inside(W)' /\ Apart(W)' /\ Few(W)'
      BY <1>4, <2>1, <2>2 DEF Windows, Inside, Apart, Few, Together, Stays
    <2>6. Newest(W)'
      BY <1>6, <2>3, <2>4, FS_EmptySet DEF Newest, Mine
    <2>7. W \in [CountedOnes' -> Int]
      BY <1>4
    <2> QED
      BY <2>5, <2>6, <2>7 DEF Windows
  <1>8. \A k \in Keys : buckets'[k].resetAt <= now' + windowMs
    BY <1>2, <1>6
  <1> QED
    BY <1>5, <1>7, <1>8 DEF RateInv

\* The window of a request that is counted now.
WindowNow(k) == IF now >= buckets[k].resetAt THEN now ELSE buckets[k].resetAt - windowMs

LEMMA WindowFields ==
  ASSUME Typed, NEW k \in Keys, buckets[k].resetAt <= now + windowMs, windowMs > 0
  PROVE  /\ WindowNow(k) \in Int /\ WindowNow(k) <= now /\ now < WindowNow(k) + windowMs
         /\ Bucket(k).resetAt = WindowNow(k) + windowMs
         /\ Bucket(k).count \in Nat /\ Bucket(k).count >= 1
  <1>1. buckets[k] \in [count : Nat, resetAt : Nat] /\ now \in Nat /\ windowMs \in Nat
    BY IngestAssumption DEF Typed
  <1>2. CASE now >= buckets[k].resetAt
    BY <1>1, <1>2 DEF WindowNow, Bucket
  <1>3. CASE ~(now >= buckets[k].resetAt)
    BY <1>1, <1>3 DEF WindowNow, Bucket
  <1> QED
    BY <1>2, <1>3

\* The requests already counted in that window.
LEMMA WindowCounted ==
  ASSUME RateInv, windowMs > 0, NEW k \in Keys, NEW W \in [CountedOnes -> Int], Windows(W)
  PROVE  LET old == {s \in CountedOnes : Mine(s, k) /\ W[s] = WindowNow(k)}
         IN  /\ IsFiniteSet(old) /\ Cardinality(old) \in Nat /\ Cardinality(old) + 1 = Bucket(k).count
             /\ \A s \in CountedOnes : Mine(s, k) => W[s] = WindowNow(k) \/ W[s] + windowMs <= WindowNow(k)
  <1> DEFINE old == {s \in CountedOnes : Mine(s, k) /\ W[s] = WindowNow(k)}
  <1>1. Typed /\ buckets[k].resetAt <= now + windowMs
    BY DEF RateInv, Shape
  <1>2. buckets[k] \in [count : Nat, resetAt : Nat] /\ now \in Nat /\ windowMs \in Nat
    BY <1>1, IngestAssumption DEF Typed
  <1>3. IsFiniteSet(old) /\ Cardinality(old) \in Nat
    BY <1>1, CountedFinite, FS_Subset, FS_CardinalityType
  <1>4. \A s \in CountedOnes : W[s] \in Int
    OBVIOUS
  <1>5. \A s \in CountedOnes : Mine(s, k) =>
          W[s] + windowMs = buckets[k].resetAt \/ W[s] + windowMs + windowMs <= buckets[k].resetAt
    BY DEF Windows, Newest
  <1>6. Cardinality(Current(W, k)) = buckets[k].count
    BY DEF Windows, Newest
  <1>7. CASE now >= buckets[k].resetAt
    <2>1. WindowNow(k) = now /\ Bucket(k).count = 1
      BY <1>7 DEF WindowNow, Bucket
    <2>2. \A s \in CountedOnes : Mine(s, k) => W[s] + windowMs <= now
      BY <1>2, <1>4, <1>5, <1>7
    <2>3. \A s \in CountedOnes : Mine(s, k) => W[s] # now
      BY <1>2, <1>4, <2>2
    <2>4. old = {}
      BY <2>1, <2>3
    <2>5. Cardinality(old) = 0
      BY <2>4, FS_EmptySet
    <2> QED
      BY <1>3, <2>1, <2>2, <2>5
  <1>8. CASE ~(now >= buckets[k].resetAt)
    <2>1. WindowNow(k) = buckets[k].resetAt - windowMs /\ Bucket(k).count = buckets[k].count + 1
      BY <1>2, <1>8 DEF WindowNow, Bucket
    <2>2. \A s \in CountedOnes : W[s] = WindowNow(k) <=> W[s] + windowMs = buckets[k].resetAt
      BY <1>2, <1>4, <2>1
    <2>3. old = Current(W, k)
      BY <2>2 DEF Current
    <2>4. \A s \in CountedOnes : Mine(s, k) => W[s] = WindowNow(k) \/ W[s] + windowMs <= WindowNow(k)
      BY <1>2, <1>4, <1>5, <2>1
    <2>5. Cardinality(old) = buckets[k].count
      BY <1>6, <2>3
    <2> HIDE DEF old
    <2>6. Cardinality(old) + 1 = Bucket(k).count
      BY <1>2, <2>1, <2>5
    <2> QED
      BY <1>3, <2>4, <2>6 DEF old
  <1> QED
    BY <1>7, <1>8

\* A request is counted.
Counting(r, x) ==
  /\ r \in DOMAIN request /\ x \in Requests /\ request' = [request EXCEPT ![r] = x]
  /\ Same(x, request[r]) /\ request[r].pc = "sent" /\ Counts(r, x)
  /\ UNCHANGED <<now, restarts>>

LEMMA CountingFields ==
  ASSUME Typed, Answers, NEW r, NEW x, Counting(r, x)
  PROVE  /\ r \notin CountedOnes /\ CountedOnes' = CountedOnes \cup {r} /\ \A s \in CountedOnes : Stays(s)
         /\ request'[r] = x /\ x.page \in Pages /\ x.page = request[r].page
         /\ x.page \in Allowed /\ x.at = now /\ x.since = restarts
         /\ buckets' = [buckets EXCEPT ![Key[x.page]] = Bucket(Key[x.page])] /\ Key[x.page] \in Keys
         /\ IF Bucket(Key[x.page]).count <= max THEN x.answer = 0 ELSE x.answer = 429
  <1>1. /\ r \in DOMAIN request /\ x \in Requests /\ request' = [request EXCEPT ![r] = x]
        /\ Same(x, request[r]) /\ request[r].pc = "sent" /\ Counts(r, x)
    BY DEF Counting
  <1>2. /\ DOMAIN request' = DOMAIN request /\ request'[r] = x
        /\ \A s \in DOMAIN request \ {r} : request'[s] = request[s]
    BY <1>1, RequestSet
  <1>3. x.page \in Pages /\ x.page = request[r].page
    BY <1>1 DEF Requests, Same
  <1>4. Key[x.page] \in Keys
    BY <1>3 DEF Keys
  <1>5. /\ x.page \in Allowed /\ x.at = now /\ x.since = restarts
        /\ buckets' = [buckets EXCEPT ![Key[x.page]] = Bucket(Key[x.page])]
        /\ IF Bucket(Key[x.page]).count <= max THEN x.answer = 0 ELSE x.answer = 429
    BY <1>1, <1>3 DEF Counts
  <1>6. request[r].at = 0
    BY <1>1 DEF Answers
  <1>7. r \notin CountedOnes
    BY <1>6 DEF CountedOnes
  <1>8. x.at > 0
    BY <1>5 DEF Typed
  <1>9. CountedOnes' = CountedOnes \cup {r}
    BY <1>1, <1>2, <1>8 DEF CountedOnes
  <1>10. \A s \in CountedOnes : Stays(s)
    BY <1>2, <1>7 DEF CountedOnes, Stays
  <1> QED
    BY <1>2, <1>3, <1>4, <1>5, <1>7, <1>9, <1>10

\* The windows with the new request in its own.
LEMMA CountWindows ==
  ASSUME RateInv, Shape', windowMs > 0, NEW r, NEW x, Counting(r, x)
  PROVE  \E V \in [CountedOnes' -> Int] : Windows(V)'
  <1> DEFINE k == Key[x.page]
             c == WindowNow(k)
  <1>t. Typed /\ Answers /\ Typed'
    BY DEF RateInv, Shape
  <1>1. /\ r \notin CountedOnes /\ CountedOnes' = CountedOnes \cup {r} /\ \A s \in CountedOnes : Stays(s)
        /\ request'[r] = x /\ x.page \in Pages /\ x.page = request[r].page
        /\ x.page \in Allowed /\ x.at = now /\ x.since = restarts
        /\ buckets' = [buckets EXCEPT ![k] = Bucket(k)] /\ k \in Keys
        /\ IF Bucket(k).count <= max THEN x.answer = 0 ELSE x.answer = 429
    BY <1>t, CountingFields
  <1>2. PICK W \in [CountedOnes -> Int] : Windows(W)
    BY DEF RateInv
  <1>3. buckets[k].resetAt <= now + windowMs
    BY <1>1 DEF RateInv
  <1>4. /\ c \in Int /\ c <= now /\ now < c + windowMs
        /\ Bucket(k).resetAt = c + windowMs /\ Bucket(k).count \in Nat
    BY <1>t, <1>1, <1>3, WindowFields
  <1> DEFINE old == {s \in CountedOnes : Mine(s, k) /\ W[s] = c}
  <1>5. /\ IsFiniteSet(old) /\ Cardinality(old) \in Nat /\ Cardinality(old) + 1 = Bucket(k).count
        /\ \A s \in CountedOnes : Mine(s, k) => W[s] = c \/ W[s] + windowMs <= c
    BY <1>1, <1>2, WindowCounted
  <1>6. windowMs \in Nat /\ max \in Nat
    BY IngestAssumption
  <1>7. PICK V : V = [s \in CountedOnes \cup {r} |-> IF s = r THEN c ELSE W[s]]
    OBVIOUS
  <1>8. /\ V \in [CountedOnes' -> Int] /\ V[r] = c
        /\ \A s \in CountedOnes : V[s] = W[s] /\ W[s] \in Int /\ s # r
    BY <1>1, <1>2, <1>4, <1>7
  <1>9. restarts' = restarts /\ now' = now
    BY DEF Counting
  <1>10. /\ buckets'[k] = Bucket(k) /\ \A j \in Keys \ {k} : buckets'[j] = buckets[j]
    BY <1>t, <1>1 DEF Typed
  <1>11. Mine(r, k)' /\ \A s \in CountedOnes, j \in Keys : Mine(s, j)' <=> Mine(s, j)
    BY <1>1, <1>9 DEF Mine, Stays
  <1>12. \A s \in CountedOnes : (Together(s, r)' <=> Mine(s, k)) /\ (Together(r, s)' <=> Mine(s, k))
    BY <1>1 DEF Mine, Together, Stays
  <1>13. \A s, t \in CountedOnes : Together(s, t)' <=> Together(s, t)
    BY <1>1 DEF Together, Stays
  <1>14. Together(r, r)'
    BY DEF Together
  <1>15. \A s \in CountedOnes : Passed(s)' <=> Passed(s)
    BY <1>1 DEF Passed, Stays
  <1> HIDE DEF k, c
  <1>16. Inside(V)'
    <2>1. \A s \in CountedOnes : W[s] <= request[s].at /\ request[s].at < W[s] + windowMs
      BY <1>2 DEF Windows, Inside
    <2> QED
      BY <1>1, <1>4, <1>8, <2>1 DEF Inside, Stays
  <1>17. Apart(V)'
    <2>1. \A s, t \in CountedOnes : Together(s, t) =>
            W[s] = W[t] \/ W[s] + windowMs <= W[t] \/ W[t] + windowMs <= W[s]
      BY <1>2 DEF Windows, Apart
    <2> SUFFICES ASSUME NEW s \in CountedOnes', NEW t \in CountedOnes', Together(s, t)'
                 PROVE  V[s] = V[t] \/ V[s] + windowMs <= V[t] \/ V[t] + windowMs <= V[s]
      BY DEF Apart
    <2>2. CASE s \in CountedOnes /\ t \in CountedOnes
      BY <1>8, <1>13, <2>1, <2>2
    <2>3. CASE s = r /\ t \in CountedOnes
      BY <1>5, <1>8, <1>12, <2>3
    <2>4. CASE s \in CountedOnes /\ t = r
      BY <1>5, <1>8, <1>12, <2>4
    <2>5. CASE s = r /\ t = r
      BY <2>5
    <2> QED
      BY <1>1, <2>2, <2>3, <2>4, <2>5
  <1>18. Newest(V)'
    <2>1. ASSUME NEW j \in Keys
          PROVE  /\ \A s \in CountedOnes' : Mine(s, j)' =>
                      \/ V[s] + windowMs = buckets'[j].resetAt
                      \/ V[s] + windowMs + windowMs <= buckets'[j].resetAt
                 /\ Cardinality(Current(V, j)') = buckets'[j].count
      <3>1. CASE j = k
        <4>1. buckets'[j].resetAt = c + windowMs /\ buckets'[j].count = Bucket(k).count
          BY <1>4, <1>10, <3>1
        <4>2. ASSUME NEW s \in CountedOnes', Mine(s, j)'
              PROVE  V[s] + windowMs = c + windowMs \/ V[s] + windowMs + windowMs <= c + windowMs
          <5>1. CASE s = r
            BY <1>8, <5>1
          <5>2. CASE s \in CountedOnes
            <6>1. W[s] = c \/ W[s] + windowMs <= c
              BY <1>1, <1>5, <1>11, <3>1, <4>2, <5>2
            <6> QED
              BY <1>4, <1>6, <1>8, <5>2, <6>1
          <5> QED
            BY <1>1, <5>1, <5>2
        <4>3. Current(V, j)' = old \cup {r}
          <5>1. \A s \in CountedOnes : V[s] + windowMs = c + windowMs <=> W[s] = c
            BY <1>4, <1>6, <1>8
          <5>2. ASSUME NEW s PROVE s \in Current(V, j)' <=> s \in old \cup {r}
            <6>1. s \in Current(V, j)' <=> s \in CountedOnes' /\ Mine(s, j)' /\ V[s] + windowMs = c + windowMs
              BY <4>1 DEF Current
            <6> QED
              BY <1>1, <1>8, <1>11, <3>1, <5>1, <6>1
          <5> QED
            BY <5>2
        <4>4. r \notin old
          BY <1>1
        <4> HIDE DEF old
        <4>5. Cardinality(Current(V, j)') = Bucket(k).count
          BY <1>5, <4>3, <4>4, FS_AddElement
        <4> QED
          BY <4>1, <4>2, <4>5
      <3>2. CASE j # k
        <4>1. buckets'[j] = buckets[j]
          BY <1>10, <3>2
        <4>2. ~Mine(r, j)'
          BY <1>1, <3>2 DEF Mine, k
        <4>3. \A s \in CountedOnes : Mine(s, j) =>
                W[s] + windowMs = buckets[j].resetAt \/ W[s] + windowMs + windowMs <= buckets[j].resetAt
          BY <1>2 DEF Windows, Newest
        <4>4. \A s \in CountedOnes' : Mine(s, j)' =>
                V[s] + windowMs = buckets'[j].resetAt \/ V[s] + windowMs + windowMs <= buckets'[j].resetAt
          BY <1>1, <1>8, <1>11, <4>1, <4>2, <4>3
        <4>5. Current(V, j)' = Current(W, j)
          BY <1>1, <1>8, <1>11, <4>1, <4>2 DEF Current
        <4>6. Cardinality(Current(W, j)) = buckets[j].count
          BY <1>2 DEF Windows, Newest
        <4> QED
          BY <4>1, <4>4, <4>5, <4>6
      <3> QED
        BY <3>1, <3>2
    <2>2. Keys' = Keys /\ windowMs' = windowMs
      OBVIOUS
    <2> QED
      BY <2>1, <2>2 DEF Newest
  <1>19. Few(V)'
    <2> SUFFICES ASSUME NEW s \in CountedOnes' PROVE Cardinality(PassedWith(V, s)') <= max
      BY DEF Few
    <2>f. \A t \in CountedOnes : Cardinality(PassedWith(W, t)) <= max
      BY <1>2 DEF Windows, Few
    <2>1. CASE Together(s, r)' /\ V[s] = c
      <3>1. PassedWith(V, s)' \subseteq old \cup {r}
        <4> SUFFICES ASSUME NEW t \in PassedWith(V, s)', t # r PROVE t \in old
          OBVIOUS
        <4>1. t \in CountedOnes /\ Together(s, t)' /\ V[t] = c
          BY <1>1, <2>1 DEF PassedWith
        <4>2. Together(r, t)'
          BY <2>1, <4>1 DEF Together
        <4> QED
          BY <1>8, <1>12, <4>1, <4>2
      <3>2. CASE Bucket(k).count <= max
        <4>1. r \notin old
          BY <1>1
        <4> HIDE DEF old
        <4>2. IsFiniteSet(old \cup {r}) /\ Cardinality(old \cup {r}) = Bucket(k).count
          BY <1>5, <4>1, FS_AddElement
        <4>3. IsFiniteSet(PassedWith(V, s)') /\ Cardinality(PassedWith(V, s)') <= Bucket(k).count
          BY <3>1, <4>2, FS_Subset
        <4>4. Cardinality(PassedWith(V, s)') \in Nat
          BY <4>3, FS_CardinalityType
        <4> QED
          BY <1>4, <1>6, <3>2, <4>3, <4>4
      <3>3. CASE ~(Bucket(k).count <= max)
        <4>1. ~Passed(r)'
          BY <1>1, <3>3 DEF Passed
        <4>2. PassedWith(V, s)' \subseteq old
          BY <3>1, <4>1 DEF PassedWith
        <4>3. CASE PassedWith(V, s)' = {}
          BY <1>6, <4>3, FS_EmptySet
        <4>4. CASE PassedWith(V, s)' # {}
          <5>1. PICK u : u \in PassedWith(V, s)'
            BY <4>4
          <5>2. u \in CountedOnes /\ Mine(u, k) /\ W[u] = c
            BY <4>2, <5>1
          <5>3. PassedWith(V, s)' \subseteq PassedWith(W, u)
            <6> SUFFICES ASSUME NEW t \in PassedWith(V, s)' PROVE t \in PassedWith(W, u)
              OBVIOUS
            <6>1. t \in CountedOnes /\ Mine(t, k) /\ W[t] = c
              BY <4>2
            <6>2. Passed(t)
              BY <1>15, <6>1 DEF PassedWith
            <6> QED
              BY <5>2, <6>1, <6>2 DEF PassedWith, Together, Mine
          <5>4. IsFiniteSet(PassedWith(W, u))
            BY <1>t, CountedFinite, FS_Subset DEF PassedWith
          <5>5. Cardinality(PassedWith(V, s)') <= Cardinality(PassedWith(W, u)) /\ IsFiniteSet(PassedWith(V, s)')
            BY <5>3, <5>4, FS_Subset
          <5>6. Cardinality(PassedWith(V, s)') \in Nat /\ Cardinality(PassedWith(W, u)) \in Nat
            BY <5>4, <5>5, FS_CardinalityType
          <5> QED
            BY <1>6, <2>f, <5>2, <5>5, <5>6
        <4> QED
          BY <4>3, <4>4
      <3> QED
        BY <3>2, <3>3
    <2>2. CASE ~(Together(s, r)' /\ V[s] = c)
      <3>1. s # r /\ s \in CountedOnes
        BY <1>1, <1>8, <1>14, <2>2
      <3>2. PassedWith(V, s)' = PassedWith(W, s)
        <4> SUFFICES ASSUME NEW t PROVE t \in PassedWith(V, s)' <=> t \in PassedWith(W, s)
          OBVIOUS
        <4>1. t \in PassedWith(V, s)' <=> t \in CountedOnes' /\ Together(s, t)' /\ V[t] = V[s] /\ Passed(t)'
          BY DEF PassedWith
        <4>2. t \in PassedWith(W, s) <=> t \in CountedOnes /\ Together(s, t) /\ W[t] = W[s] /\ Passed(t)
          BY DEF PassedWith
        <4>3. t = r => ~(Together(s, t)' /\ V[t] = V[s])
          BY <1>8, <2>2
        <4> QED
          BY <1>1, <1>8, <1>13, <1>15, <3>1, <4>1, <4>2, <4>3
      <3> QED
        BY <2>f, <3>1, <3>2
    <2> QED
      BY <2>1, <2>2
  <1> QED
    BY <1>8, <1>16, <1>17, <1>18, <1>19 DEF Windows

LEMMA RateCount ==
  ASSUME RateInv, Shape', NEW r, NEW x, Counting(r, x)
  PROVE  RateInv'
  <1> DEFINE k == Key[x.page]
  <1>t. Typed /\ Answers /\ Typed'
    BY DEF RateInv, Shape
  <1>1. /\ r \notin CountedOnes /\ CountedOnes' = CountedOnes \cup {r} /\ \A s \in CountedOnes : Stays(s)
        /\ request'[r] = x /\ x.page \in Pages /\ x.page = request[r].page
        /\ x.page \in Allowed /\ x.at = now /\ x.since = restarts
        /\ buckets' = [buckets EXCEPT ![k] = Bucket(k)] /\ k \in Keys
        /\ IF Bucket(k).count <= max THEN x.answer = 0 ELSE x.answer = 429
    BY <1>t, CountingFields
  <1>2. restarts' = restarts /\ now' = now /\ now \in Nat /\ restarts \in Nat /\ windowMs \in Nat /\ max \in Nat
    BY <1>t, IngestAssumption DEF Counting, Typed
  <1>3. buckets[k].resetAt <= now + windowMs /\ buckets[k] \in [count : Nat, resetAt : Nat]
    BY <1>t, <1>1 DEF RateInv, Typed
  <1>4. Bucket(k).resetAt <= now + windowMs /\ Bucket(k).count \in Nat /\ Bucket(k).count >= 1
    <2>1. CASE now >= buckets[k].resetAt
      BY <1>2, <2>1 DEF Bucket
    <2>2. CASE ~(now >= buckets[k].resetAt)
      BY <1>2, <1>3, <2>2 DEF Bucket
    <2> QED
      BY <2>1, <2>2
  <1>5. Cardinality(Before(r)') \in Nat
    BY <1>t, BeforeTyped
  <1>6. ASSUME ~(Bucket(k).count <= max) PROVE Cardinality(Before(r)') >= max
    <2>1. Cardinality(Before(r)') >= max
      <3>1. CASE now >= buckets[k].resetAt
        <4>1. max = 0
          BY <1>2, <1>6, <3>1 DEF Bucket
        <4> QED
          BY <1>5, <4>1
      <3>2. CASE ~(now >= buckets[k].resetAt)
        <4>1. windowMs > 0
          BY <1>2, <1>3, <3>2
        <4>2. PICK W \in [CountedOnes -> Int] : Windows(W)
          BY <4>1 DEF RateInv
        <4>3. Cardinality(Current(W, k)) = buckets[k].count /\ Inside(W)
          BY <1>1, <4>2 DEF Windows, Newest
        <4>4. Bucket(k).count = buckets[k].count + 1
          BY <1>3, <3>2 DEF Bucket
        <4>5. Current(W, k) \subseteq Before(r)'
          <5> SUFFICES ASSUME NEW s \in Current(W, k) PROVE s \in Before(r)'
            OBVIOUS
          <5>1. s \in CountedOnes /\ Mine(s, k) /\ W[s] + windowMs = buckets[k].resetAt
            BY DEF Current
          <5>2. W[s] \in Int /\ W[s] <= request[s].at /\ request[s].at < W[s] + windowMs
            BY <4>3, <5>1 DEF Inside
          <5>3. request[s].at \in Nat /\ request[s].at <= now /\ request[s].page \in Allowed
            BY <1>t, <5>1, CountedFields DEF RateInv
          <5>4. now - request[s].at \in 0..windowMs - 1
            BY <1>2, <1>3, <3>2, <5>1, <5>2, <5>3
          <5>5. request'[r].at - request'[s].at \in 0..windowMs - 1
            BY <1>1, <5>1, <5>4 DEF Stays
          <5>6. s \in CountedOnes' /\ s # r /\ Together(r, s)' /\ request'[s].page \in Allowed
            BY <1>1, <5>1, <5>3 DEF Stays, Together, Mine
          <5> QED
            BY <5>5, <5>6 DEF Before, CountedOnes, Counted
        <4>6. Cardinality(Current(W, k)) <= Cardinality(Before(r)')
          BY <1>t, <4>5, BeforeTyped, FS_Subset
        <4> QED
          BY <1>2, <1>3, <1>5, <1>6, <4>3, <4>4, <4>6
      <3> QED
        BY <3>1, <3>2
    <2> QED
      BY <2>1
  <1>7. IF Passed(r)' THEN max >= 1 ELSE Cardinality(Before(r)') >= max
    <2>1. CASE Bucket(k).count <= max
      BY <1>1, <1>2, <1>4, <2>1 DEF Passed
    <2>2. CASE ~(Bucket(k).count <= max)
      <3>1. ~Passed(r)'
        BY <1>1, <2>2 DEF Passed
      <3> QED
        BY <1>6, <2>2, <3>1
    <2> QED
      BY <2>1, <2>2
  <1>8. ASSUME NEW s \in CountedOnes'
        PROVE  /\ request'[s].page \in Allowed /\ request'[s].since <= restarts' /\ request'[s].at <= now'
               /\ IF Passed(s)' THEN max >= 1 ELSE Cardinality(Before(s)') >= max
    <2>1. CASE s = r
      BY <1>1, <1>2, <1>7, <2>1
    <2>2. CASE s \in CountedOnes
      <3>1. request'[s].page \in Allowed /\ request'[s].since <= restarts' /\ request'[s].at <= now'
        BY <1>1, <1>2, <2>2 DEF RateInv, Stays
      <3>2. Passed(s)' <=> Passed(s)
        BY <1>1, <2>2 DEF Passed, Stays
      <3>3. Cardinality(Before(s)) <= Cardinality(Before(s)') /\ Cardinality(Before(s)) \in Nat
        BY <1>t, <1>1, <2>2, BeforeStays
      <3>4. Cardinality(Before(s)') \in Nat
        BY <1>t, BeforeTyped
      <3>5. IF Passed(s) THEN max >= 1 ELSE Cardinality(Before(s)) >= max
        BY <2>2 DEF RateInv
      <3>6. IF Passed(s)' THEN max >= 1 ELSE Cardinality(Before(s)') >= max
        BY <1>2, <3>2, <3>3, <3>4, <3>5
      <3> QED
        BY <3>1, <3>6
    <2> QED
      BY <1>1, <2>1, <2>2
  <1>9. \A j \in Keys : buckets'[j].resetAt <= now' + windowMs
    <2> HIDE DEF k
    <2> SUFFICES ASSUME NEW j \in Keys PROVE buckets'[j].resetAt <= now' + windowMs
      OBVIOUS
    <2>1. CASE j = k
      BY <1>t, <1>1, <1>2, <1>4, <2>1 DEF Typed
    <2>2. CASE j # k
      <3>1. buckets'[j] = buckets[j]
        BY <1>t, <1>1, <2>2 DEF Typed
      <3> QED
        BY <1>2, <3>1 DEF RateInv
    <2> QED
      BY <2>1, <2>2
  <1> QED
    BY <1>8, <1>9, CountWindows DEF RateInv

LEMMA RequestStays ==
  ASSUME Shape, NEW r \in DOMAIN request, NEW x \in Requests, request' = [request EXCEPT ![r] = x],
         x.page = request[r].page, x.at = request[r].at, x.since = request[r].since,
         request[r].at > 0 => (x.answer = 429 <=> request[r].answer = 429)
  PROVE  CountedOnes' = CountedOnes /\ \A s \in CountedOnes : Stays(s)
  <1>1. DOMAIN request' = DOMAIN request /\ request'[r] = x /\ \A s \in DOMAIN request \ {r} : request'[s] = request[s]
    BY RequestSet DEF Shape
  <1> QED
    BY <1>1 DEF CountedOnes, Stays

LEMMA RateStep == RateInv /\ [Next]_vars => RateInv'
  <1> SUFFICES ASSUME RateInv, [Next]_vars PROVE RateInv'
    OBVIOUS
  <1>s. Shape'
    BY ShapeStep DEF RateInv
  <1>t. Shape /\ Typed /\ Answers
    BY DEF RateInv, Shape
  <1>0. ASSUME UNCHANGED <<request, buckets, restarts>>, now' \in {now, now + 1} PROVE RateInv'
    <2>1. CountedOnes' = CountedOnes /\ \A s \in CountedOnes : Stays(s)
      BY <1>0 DEF CountedOnes, Stays
    <2> QED
      BY <1>0, <1>s, <2>1, RateQuiet
  <1>1. ASSUME NEW p \in Pages, NEW f \in Failures, Happen(p, f) \/ SampleAway(p, f) PROVE RateInv'
    BY <1>0, <1>1 DEF Happen, SampleAway, server
  <1>2. ASSUME NEW p \in Pages, Hide(p) \/ Leave(p) PROVE RateInv'
    <2>1. UNCHANGED <<buckets, restarts>> /\ now' = now
      BY <1>2 DEF Hide, Leave, server
    <2>2. CASE flush(p)
      <3>1. /\ Ships(Len(request) + 1, p) /\ request' \in Seq(Requests)
            /\ DOMAIN request = 1..Len(request) /\ DOMAIN request' = 1..Len(request) + 1
        BY <1>t, <2>2, FlushShips
      <3>2. queue[p] \in Seq(Failures) /\ Len(request) \in Nat
        <4>1. request \in Seq(Requests) /\ queue[p] \in Seq(Failures)
          BY <1>t DEF Typed
        <4> HIDE DEF Requests
        <4> QED
          BY <4>1
      <3>3. request'[Len(request) + 1].at = 0
        BY <3>1, <3>2, SentTyped DEF Ships
      <3>4. DOMAIN request' = DOMAIN request \cup {Len(request) + 1}
        <4>1. 1..Len(request) + 1 = 1..Len(request) \cup {Len(request) + 1}
          BY <3>2
        <4> QED
          BY <3>1, <4>1
      <3>5. \A s \in DOMAIN request : request'[s] = request[s]
        BY <3>1 DEF Ships
      <3>6. CountedOnes' = CountedOnes /\ \A s \in CountedOnes : Stays(s)
        BY <3>3, <3>4, <3>5 DEF CountedOnes, Stays
      <3> QED
        BY <1>s, <2>1, <3>6, RateQuiet
    <2>3. CASE UNCHANGED <<queue, request>>
      BY <1>0, <2>1, <2>3
    <2> QED
      BY <1>2, <2>2, <2>3 DEF Hide, Leave
  <1>3. ASSUME NEW p \in Pages, Crash(p) PROVE RateInv'
    BY <1>0, <1>3 DEF Crash, server
  <1>4. ASSUME NEW r \in 1..MaxRequests, Lose(r) PROVE RateInv'
    <2>1. PICK x \in Requests :
            /\ r \in DOMAIN request /\ request' = [request EXCEPT ![r] = x]
            /\ Unchecked(x, request[r]) /\ x.pc = "lost" /\ x.answer = request[r].answer
            /\ request[r].pc \in {"sent", "body"}
      BY <1>4, <1>t, LoseRequest
    <2>2. UNCHANGED <<buckets, restarts>> /\ now' = now
      BY <1>4 DEF Lose, server
    <2>3. CountedOnes' = CountedOnes /\ \A s \in CountedOnes : Stays(s)
      BY <1>t, <2>1, RequestStays DEF Unchecked, Same
    <2> QED
      BY <1>s, <2>2, <2>3, RateQuiet
  <1>5. ASSUME NEW r \in 1..MaxRequests, Data(r) PROVE RateInv'
    <2>1. PICK x \in Requests :
            /\ r \in DOMAIN request /\ request' = [request EXCEPT ![r] = x]
            /\ Unchecked(x, request[r]) /\ request[r].pc = "body" /\ x.pc = "body"
            /\ x.answer = request[r].answer \/ (request[r].answer = 0 /\ x.answer = 413)
      BY <1>5, <1>t, DataRequest
    <2>2. UNCHANGED <<buckets, restarts>> /\ now' = now
      BY <1>5 DEF Data, server
    <2>4. /\ x.page = request[r].page /\ x.at = request[r].at /\ x.since = request[r].since
          /\ x.answer = 429 <=> request[r].answer = 429
      BY <2>1 DEF Unchecked, Same
    <2>3. CountedOnes' = CountedOnes /\ \A s \in CountedOnes : Stays(s)
      BY <1>t, <2>1, <2>4, RequestStays
    <2> QED
      BY <1>s, <2>2, <2>3, RateQuiet
  <1>6. ASSUME NEW r \in 1..MaxRequests, End(r) PROVE RateInv'
    <2>1. PICK x \in Requests :
            /\ r \in DOMAIN request /\ request' = [request EXCEPT ![r] = x]
            /\ Unchecked(x, request[r]) /\ request[r].pc = "body" /\ x.pc = "done"
            /\ x.answer = request[r].answer \/ (request[r].answer = 0 /\ x.answer = 202)
            /\ x.answer = 202 \/ UNCHANGED stored
      BY <1>6, <1>t, EndRequest
    <2>2. UNCHANGED <<buckets, restarts>> /\ now' = now
      BY <1>6 DEF End
    <2>4. /\ x.page = request[r].page /\ x.at = request[r].at /\ x.since = request[r].since
          /\ x.answer = 429 <=> request[r].answer = 429
      BY <2>1 DEF Unchecked, Same
    <2>3. CountedOnes' = CountedOnes /\ \A s \in CountedOnes : Stays(s)
      BY <1>t, <2>1, <2>4, RequestStays
    <2> QED
      BY <1>s, <2>2, <2>3, RateQuiet
  <1>7. ASSUME NEW r \in 1..MaxRequests, checkIngestGuardrails(r) PROVE RateInv'
    <2>1. PICK x \in Requests :
            /\ r \in DOMAIN request /\ request' = [request EXCEPT ![r] = x]
            /\ Same(x, request[r]) /\ request[r].pc = "sent"
            /\ Counts(r, x) \/ Refuses(r, x)
      BY <1>7, <1>t, GuardRequest
    <2>2. restarts' = restarts /\ now' = now
      BY <1>7 DEF checkIngestGuardrails
    <2>3. CASE Counts(r, x)
      BY <1>s, <2>1, <2>2, <2>3, RateCount DEF Counting
    <2>4. CASE Refuses(r, x)
      <3>1. request[r].at = 0
        BY <1>t, <2>1 DEF Answers
      <3>2. CountedOnes' = CountedOnes /\ \A s \in CountedOnes : Stays(s)
        <4>1. x.page = request[r].page /\ x.at = request[r].at /\ x.since = request[r].since
          BY <2>1, <2>4 DEF Refuses, Same
        <4>2. ~(request[r].at > 0)
          BY <3>1
        <4> QED
          BY <1>t, <2>1, <4>1, <4>2, RequestStays
      <3> QED
        BY <1>s, <2>2, <2>4, <3>2, RateQuiet DEF Refuses
    <2> QED
      BY <2>1, <2>3, <2>4
  <1>8. CASE Restart
    BY <1>8, <1>s, RateRestart
  <1>9. CASE Tick \/ UNCHANGED vars
    BY <1>0, <1>9 DEF Tick, vars, server
  <1> QED
    BY <1>1, <1>2, <1>3, <1>4, <1>5, <1>6, <1>7, <1>8, <1>9, Zenon DEF Next

(***************************************************************************)
(* At most max requests of one key pass in a window, and 2 * max in any    *)
(* time of its length; and one is turned away only when max others were    *)
(* counted less than a window before it: for any keys, limits, windows and *)
(* restarts (checkIngestGuardrails).                                       *)
(***************************************************************************)
THEOREM RateIsBounded == Spec => []RateBounded
<1>1. RateInv => RateBounded
  <2> SUFFICES ASSUME RateInv, NEW r \in DOMAIN request, Counted(r)
               PROVE  IF request[r].answer = 429 THEN Cardinality(Before(r)) >= max
                      ELSE Cardinality({s \in Before(r) : request[s].answer # 429}) < 2 * max
    BY DEF RateBounded, Before
  <2> DEFINE passed == {s \in Before(r) : request[s].answer # 429}
  <2>1. r \in CountedOnes
    BY DEF Counted, CountedOnes
  <2>2. Typed /\ windowMs \in Nat /\ max \in Nat
    BY IngestAssumption DEF RateInv, Shape
  <2>3. CASE request[r].answer = 429
    BY <2>1, <2>3 DEF RateInv, Passed
  <2>4. CASE request[r].answer # 429
    <3>1. max >= 1
      BY <2>1, <2>4 DEF RateInv, Passed
    <3>2. \A s \in passed : /\ s \in CountedOnes /\ s # r /\ Together(r, s) /\ Passed(s)
                            /\ request[r].at - request[s].at \in 0..windowMs - 1
      BY DEF Before, Counted, CountedOnes, Passed
    <3>3. CASE windowMs = 0
      <4>1. passed = {}
        BY <3>2, <3>3
      <4>2. Cardinality(passed) = 0
        BY <4>1, FS_EmptySet
      <4> QED
        BY <2>2, <2>4, <3>1, <4>2
    <3>4. CASE windowMs # 0
      <4>1. PICK W \in [CountedOnes -> Int] : Windows(W)
        BY <2>2, <3>4 DEF RateInv
      <4>2. \A s \in CountedOnes : /\ request[s].at \in Nat /\ W[s] \in Int
                                   /\ W[s] <= request[s].at /\ request[s].at < W[s] + windowMs
        BY <2>2, <4>1, CountedFields DEF Windows, Inside
      <4>3. \A s, t \in CountedOnes : Together(s, t) =>
              W[s] = W[t] \/ W[s] + windowMs <= W[t] \/ W[t] + windowMs <= W[s]
        BY <4>1 DEF Windows, Apart
      <4>4. \A s \in CountedOnes : IsFiniteSet(PassedWith(W, s)) /\ Cardinality(PassedWith(W, s)) \in Nat
                                   /\ Cardinality(PassedWith(W, s)) <= max
        BY <2>2, <4>1, CountedFinite, FS_Subset, FS_CardinalityType DEF Windows, Few, PassedWith
      <4>5. r \in PassedWith(W, r)
        BY <2>1, <2>4 DEF PassedWith, Together, Passed
      <4>6. r \notin passed /\ IsFiniteSet(passed)
        <5>1. passed \subseteq CountedOnes /\ r \notin passed
          BY <3>2
        <5> QED
          BY <2>2, <5>1, CountedFinite, FS_Subset
      <4> HIDE DEF passed
      <4>7. Cardinality(passed \cup {r}) = Cardinality(passed) + 1 /\ Cardinality(passed) \in Nat
        BY <4>6, FS_AddElement, FS_CardinalityType
      <4>8. CASE \A s \in passed : W[s] = W[r]
        <5>1. passed \cup {r} \subseteq PassedWith(W, r)
          BY <3>2, <4>5, <4>8 DEF PassedWith
        <5>2. Cardinality(passed \cup {r}) <= Cardinality(PassedWith(W, r))
          BY <2>1, <4>4, <5>1, FS_Subset
        <5>3. Cardinality(passed) < 2 * max
          BY <2>1, <2>2, <4>4, <4>7, <5>2
        <5> QED
          BY <2>4, <5>3 DEF passed
      <4>9. ASSUME NEW s \in passed, W[s] # W[r] PROVE Cardinality(passed) < 2 * max
        <5>1. \A t \in passed : W[t] # W[r] => W[t] + windowMs <= W[r]
          BY <2>1, <2>2, <3>2, <4>2, <4>3
        <5>2. ASSUME NEW t \in passed, W[t] # W[r] PROVE W[t] = W[s] /\ Together(s, t)
          <6>1. Together(s, t)
            BY <3>2, <4>9, <5>2 DEF Together
          <6>2. W[s] + windowMs <= W[r] /\ W[t] + windowMs <= W[r]
            BY <4>9, <5>1, <5>2
          <6>3. W[s] = W[t] \/ W[s] + windowMs <= W[t] \/ W[t] + windowMs <= W[s]
            BY <3>2, <4>3, <4>9, <5>2, <6>1
          <6>4. W[r] < W[s] + windowMs + windowMs /\ W[r] < W[t] + windowMs + windowMs
            BY <2>1, <2>2, <3>2, <4>2, <4>9, <5>2
          <6> QED
            BY <2>1, <2>2, <3>2, <4>2, <4>9, <5>2, <6>1, <6>2, <6>3, <6>4
        <5>3. passed \cup {r} \subseteq PassedWith(W, r) \cup PassedWith(W, s)
          BY <3>2, <4>5, <5>2 DEF PassedWith
        <5>4. s \in CountedOnes
          BY <3>2
        <5>5. /\ IsFiniteSet(PassedWith(W, r) \cup PassedWith(W, s))
              /\ Cardinality(PassedWith(W, r) \cup PassedWith(W, s)) \in Nat
              /\ Cardinality(PassedWith(W, r) \cup PassedWith(W, s)) <= 2 * max
          <6>1. IsFiniteSet(PassedWith(W, r)) /\ IsFiniteSet(PassedWith(W, s))
            BY <2>1, <4>4, <5>4
          <6>2. /\ IsFiniteSet(PassedWith(W, r) \cup PassedWith(W, s))
                /\ IsFiniteSet(PassedWith(W, r) \cap PassedWith(W, s))
                /\ Cardinality(PassedWith(W, r) \cup PassedWith(W, s)) =
                     Cardinality(PassedWith(W, r)) + Cardinality(PassedWith(W, s))
                       - Cardinality(PassedWith(W, r) \cap PassedWith(W, s))
            BY <6>1, FS_Union, FS_Intersection
          <6>3. Cardinality(PassedWith(W, r) \cap PassedWith(W, s)) \in Nat
            BY <6>2, FS_CardinalityType
          <6>4. Cardinality(PassedWith(W, r) \cup PassedWith(W, s)) \in Nat
            BY <6>2, FS_CardinalityType
          <6> QED
            BY <2>1, <2>2, <4>4, <5>4, <6>2, <6>3, <6>4
        <5>6. Cardinality(passed \cup {r}) <= Cardinality(PassedWith(W, r) \cup PassedWith(W, s))
          BY <5>3, <5>5, FS_Subset
        <5> QED
          BY <2>2, <4>7, <5>5, <5>6
      <4> QED
        BY <2>4, <4>8, <4>9 DEF passed
    <3> QED
      BY <2>2, <3>3, <3>4
  <2> QED
    BY <2>3, <2>4
<1> QED
  BY <1>1, RateInit, RateStep, PTL DEF Spec
=============================================================================
