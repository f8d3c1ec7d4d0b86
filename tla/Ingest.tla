------------------------------- MODULE Ingest -------------------------------
(***************************************************************************)
(* Errors of web pages on their way to the store: the reporter in the      *)
(* browser (bindings/browser/witslog-browser.js), which queues what its    *)
(* listeners hear and ships it in batches, and the endpoint in a Node      *)
(* server (frameworks/express.js over lib/ingest-core.js), which guards,   *)
(* buffers and persists them.                                              *)
(*                                                                         *)
(* A page is one event loop, and so is the server: a handler runs to its   *)
(* end, but the body of a request arrives in chunks, between which the     *)
(* server handles others.  Reporting is best effort, nothing is retried.   *)
(***************************************************************************)
EXTENDS Naturals, Sequences, FiniteSets

CONSTANTS
  Pages,
  Allowed,      \* those from an allowed origin
  Key,          \* per page, what the rate limit goes by: its address, or its origin
  Failures,     \* what goes wrong in pages, each once
  Kind,         \* per failure
  Size,         \* per failure, its share of the body
  maxBatch, maxBytes, max, windowMs,
  MaxTime, MaxRestarts, MaxRequests \* bounds

ASSUME IngestAssumption ==
  /\ Allowed \subseteq Pages
  /\ \A f \in Failures : Kind[f] \in {"script", "resource", "rejection", "console"} /\ Size[f] \in Nat
  /\ {maxBatch, maxBytes, max, windowMs, MaxTime, MaxRestarts, MaxRequests} \subseteq Nat

VARIABLES
  open,     \* the pages that are
  queue,    \* per page
  request,  \* the requests made, in order, and how far each has come
  buckets,  \* per key: requests counted, and when the count starts anew
  now, restarts,
  happened, \* history: failures that happened
  missed,   \* history: failures that were sampled away, or still queued in a page that crashed
  stored    \* history: per failure, its events in the store

page == <<open, queue, happened, missed>>
server == <<buckets, restarts, stored>>
vars == <<page, request, server, now>>

Fresh == [k \in {Key[p] : p \in Pages} |-> [count |-> 0, resetAt |-> 0]]

Init ==
  /\ open = Pages /\ queue = [p \in Pages |-> <<>>]
  /\ request = <<>> /\ buckets = Fresh
  /\ now = 1 /\ restarts = 0
  /\ happened = {} /\ missed = {} /\ stored = [f \in Failures |-> 0]

(***************************************************************************)
(* The page.  A script error is dispatched at the window, where both       *)
(* listeners for "error" hear it; a resource that failed to load is heard  *)
(* on the way down to its element only.                                    *)
(***************************************************************************)
\* Mutant: the capturing listener does not look where the event was dispatched.
Heard_Twice(kind) ==
  IF kind = "script" THEN {"onError", "onResourceError"}
  ELSE IF kind = "resource" THEN {"onResourceError"}
  ELSE IF kind = "rejection" THEN {"onRejection"} ELSE {"patched"}

Heard(kind) ==
  IF kind = "script" THEN {"onError"}
  ELSE IF kind = "resource" THEN {"onResourceError"}
  ELSE IF kind = "rejection" THEN {"onRejection"} ELSE {"patched"}

Happen(p, f) ==
  /\ p \in open /\ f \notin happened
  /\ happened' = happened \cup {f}
  /\ queue' = [queue EXCEPT ![p] = @ \o [i \in 1..Cardinality(Heard(Kind[f])) |-> f]]
  /\ UNCHANGED <<open, missed, request, server, now>>

\* shouldSample: the listener heard it and let it go.
SampleAway(p, f) ==
  /\ p \in open /\ f \notin happened
  /\ happened' = happened \cup {f} /\ missed' = missed \cup {f}
  /\ UNCHANGED <<open, queue, request, server, now>>

Sent(p, events) ==
  [page |-> p, events |-> events, pc |-> "sent", raw |-> 0, got |-> 0,
   at |-> 0, since |-> 0, answer |-> 0]

\* Mutant: the queue is emptied only by a beacon that was accepted.
flush_KeepsQueue(p) ==
  /\ queue[p] # <<>> /\ Len(request) < MaxRequests
  /\ \E beacon \in BOOLEAN : queue' = IF beacon THEN [queue EXCEPT ![p] = <<>>] ELSE queue
  /\ request' = Append(request, Sent(p, queue[p]))

\* The queue is empty from here on; whether the beacon is accepted, or a
\* keepalive fetch takes the batch, it is on its way or lost (Lose).
flush(p) ==
  /\ queue[p] # <<>> /\ Len(request) < MaxRequests
  /\ queue' = [queue EXCEPT ![p] = <<>>]
  /\ request' = Append(request, Sent(p, queue[p]))

\* visibilitychange to hidden, or the application's own call.
Hide(p) == p \in open /\ flush(p) /\ UNCHANGED <<open, happened, missed, server, now>>

\* pagehide.
Leave(p) ==
  /\ p \in open /\ open' = open \ {p}
  /\ IF queue[p] = <<>> THEN UNCHANGED <<queue, request>> ELSE flush(p)
  /\ UNCHANGED <<happened, missed, server, now>>

Crash(p) ==
  /\ p \in open /\ open' = open \ {p}
  /\ missed' = missed \cup {queue[p][i] : i \in DOMAIN queue[p]}
  /\ queue' = [queue EXCEPT ![p] = <<>>]
  /\ UNCHANGED <<happened, request, server, now>>

(***************************************************************************)
(* The server.                                                             *)
(***************************************************************************)
At(r, pc) == r \in DOMAIN request /\ request[r].pc = pc

\* The network loses the request, or the connection breaks: 'end' never comes.
Lose(r) ==
  /\ At(r, "sent") \/ At(r, "body")
  /\ request' = [request EXCEPT ![r].pc = "lost"]
  /\ UNCHANGED <<page, server, now>>

Answered(r, pc, status) == [request EXCEPT ![r].pc = pc, ![r].answer = status]

\* The bucket that counts a request coming now.
Bucket(k) ==
  IF now >= buckets[k].resetAt THEN [count |-> 1, resetAt |-> now + windowMs]
  ELSE [buckets[k] EXCEPT !.count = @ + 1]

\* Mutant: requests of any origin use up the allowance.
checkIngestGuardrails_CountsFirst(r) ==
  LET k == Key[request[r].page]
  IN  /\ At(r, "sent")
      /\ buckets' = [buckets EXCEPT ![k] = Bucket(k)]
      /\ request' = [request EXCEPT
           ![r].pc = IF request[r].page \in Allowed /\ Bucket(k).count <= max THEN "body" ELSE "done",
           ![r].at = now, ![r].since = restarts,
           ![r].answer = IF request[r].page \notin Allowed THEN 403 ELSE IF Bucket(k).count <= max THEN 0 ELSE 429]
      /\ UNCHANGED <<page, restarts, stored, now>>

\* Requests of other hosts, refused with 403 before anything is counted, are left out.
checkIngestGuardrails(r) ==
  LET k == Key[request[r].page]
  IN  /\ At(r, "sent")
      /\ IF request[r].page \notin Allowed
         THEN request' = Answered(r, "done", 403) /\ UNCHANGED buckets
         ELSE /\ buckets' = [buckets EXCEPT ![k] = Bucket(k)]
              /\ request' = [request EXCEPT ![r].pc = IF Bucket(k).count <= max THEN "body" ELSE "done",
                                            ![r].at = now, ![r].since = restarts,
                                            ![r].answer = IF Bucket(k).count <= max THEN 0 ELSE 429]
      /\ UNCHANGED <<page, restarts, stored, now>>

\* One chunk per event.  Too much is answered at once; what still comes of
\* a request that was destroyed is passed over.
Data(r) ==
  /\ At(r, "body") /\ request[r].got < Len(request[r].events)
  /\ LET raw == request[r].raw + Size[request[r].events[request[r].got + 1]]
     IN  request' = [request EXCEPT ![r].got = @ + 1,
                       ![r].raw = IF request[r].answer = 0 THEN raw ELSE @,
                       ![r].answer = IF @ = 0 /\ raw > maxBytes THEN 413 ELSE @]
  /\ UNCHANGED <<page, server, now>>

Events(r) == {request[r].events[i] : i \in 1..Len(request[r].events)}

\* events.slice(0, maxBatch).
Kept(r) == {i \in 1..Len(request[r].events) : i <= maxBatch}

Times(r, S, f) == Cardinality({i \in S : request[r].events[i] = f})

\* Each event by itself: one that log refuses does not keep the others back.  A
\* body that is no JSON comes from no page modelled; it is answered 400.
persistIngestBatch(r) ==
  \E logged \in SUBSET Kept(r) :
    stored' = [f \in Failures |-> stored[f] + Times(r, logged, f)]

\* Mutant: the body is persisted whatever was answered.
End_Regardless(r) ==
  /\ At(r, "body") /\ request[r].got = Len(request[r].events)
  /\ persistIngestBatch(r)
  /\ request' = IF request[r].answer = 0 THEN Answered(r, "done", 202) ELSE [request EXCEPT ![r].pc = "done"]
  /\ UNCHANGED <<page, buckets, restarts, now>>

End(r) ==
  /\ At(r, "body") /\ request[r].got = Len(request[r].events)
  /\ IF request[r].answer = 0
     THEN persistIngestBatch(r) /\ request' = Answered(r, "done", 202)
     ELSE UNCHANGED stored /\ request' = [request EXCEPT ![r].pc = "done"]
  /\ UNCHANGED <<page, buckets, restarts, now>>

\* A new process: the buckets are new, the connections gone.
Restart ==
  /\ restarts < MaxRestarts /\ restarts' = restarts + 1
  /\ buckets' = Fresh
  /\ request' = [r \in DOMAIN request |->
                   IF request[r].pc = "body" THEN [request[r] EXCEPT !.pc = "lost"] ELSE request[r]]
  /\ UNCHANGED <<page, stored, now>>

Tick ==
  /\ now < MaxTime /\ now' = now + 1
  /\ UNCHANGED <<page, request, server>>

Next ==
  \/ \E p \in Pages : Hide(p) \/ Leave(p) \/ Crash(p) \/ \E f \in Failures : Happen(p, f) \/ SampleAway(p, f)
  \/ \E r \in 1..MaxRequests : Lose(r) \/ checkIngestGuardrails(r) \/ Data(r) \/ End(r)
  \/ Restart \/ Tick

Spec == Init /\ [][Next]_vars

-----------------------------------------------------------------------------
(* A failure makes one event, which waits in its page's queue or is in one *)
(* batch, and is stored at most once; and only of a batch that was         *)
(* answered 202, of which events beyond maxBatch and those that log        *)
(* refuses are missing without a word (flush, onResourceError, the         *)
(* responded flag of witslogBrowserIngest).                                *)
OneEventEach ==
  \A f \in happened :
    LET queued == UNION {{<<p, i>> : i \in {j \in DOMAIN queue[p] : queue[p][j] = f}} : p \in Pages}
        shipped == UNION {{<<r, i>> : i \in {j \in DOMAIN request[r].events : request[r].events[j] = f}} :
                            r \in DOMAIN request}
    IN  /\ Cardinality(queued) + Cardinality(shipped) + Cardinality(missed \cap {f}) = 1
        /\ stored[f] <= Cardinality({x \in shipped : request[x[1]].answer = 202 /\ x[2] <= maxBatch})

Counted(r) == r \in DOMAIN request /\ request[r].at > 0
Together(r, s) == Key[request[r].page] = Key[request[s].page] /\ request[r].since = request[s].since

(* Of one key, at most max requests are let through in a window, and so    *)
(* 2 * max in any time of its length, as windows are fixed; and one is     *)
(* turned away only when max others of allowed origins were counted less   *)
(* than a window before it: since the server started, the buckets are not  *)
(* kept (checkIngestGuardrails).                                           *)
RateBounded ==
  \A r \in DOMAIN request : Counted(r) =>
    LET before == {s \in DOMAIN request \ {r} : /\ Counted(s) /\ Together(r, s) /\ request[s].page \in Allowed
                                                /\ request[r].at - request[s].at \in 0..windowMs - 1}
        passed == {s \in before : request[s].answer # 429}
    IN  IF request[r].answer = 429 THEN Cardinality(before) >= max ELSE Cardinality(passed) < 2 * max
=============================================================================
