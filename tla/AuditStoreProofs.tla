--------------------------- MODULE AuditStoreProofs ---------------------------
(***************************************************************************)
(* Theorems about AuditStore, for every set of connections, events and     *)
(* fingerprints and every bound.                                           *)
(***************************************************************************)
EXTENDS AuditStore, FiniteSetTheorems, TLAPS

-----------------------------------------------------------------------------
(* What each statement does to a well-typed database, field by field.      *)

LEMMA PutFacts ==
  ASSUME NEW S, NEW t, DOMAIN t \subseteq RowIds, t \in [DOMAIN t -> S],
         NEW k \in RowIds, NEW v \in S
  PROVE  /\ DOMAIN Put(t, k, v) = DOMAIN t \cup {k}
         /\ DOMAIN Put(t, k, v) \subseteq RowIds
         /\ Put(t, k, v) \in [DOMAIN Put(t, k, v) -> S]
         /\ Put(t, k, v)[k] = v
         /\ \A i \in DOMAIN t \ {k} : Put(t, k, v)[i] = t[i]
  BY DEF Put

LEMMA NewRow ==
  ASSUME NEW e \in Events, NEW h \in Hash, NEW r \in BOOLEAN
  PROVE  [event |-> e, hash |-> h, resolved |-> r] \in Row
  BY DEF Row

LEMMA HashFacts ==
  /\ Genesis \in Hash /\ NoHash \in Hash
  /\ \A h \in Hash, e \in Events : compute_hash(h, e) \in Hash
  /\ \A h \in Hash, e \in Events : compute_hash(h, e) # NoHash
  BY DEF Genesis, NoHash, Hash, compute_hash

\* Statements that leave the events, the tombstones and the chain alone.
SameChain(d, r) ==
  /\ r.rows = d.rows
  /\ r.tombs = d.tombs
  /\ r.last = d.last
  /\ r.high = d.high
  /\ r.reused = d.reused
  /\ r.written = d.written

LEMMA InsertRowFacts ==
  ASSUME NEW d, IsDb(d), NEW n \in RowIds, NEW e \in Events
  PROVE  LET r == InsertRow(d, n, e)
         IN  /\ IsDb(r)
             /\ DOMAIN r.rows = DOMAIN d.rows \cup {n}
             /\ r.rows[n].event = e
             /\ r.rows[n].hash = NoHash
             /\ \A i \in DOMAIN d.rows \ {n} : r.rows[i] = d.rows[i]
             /\ r.tombs = d.tombs
             /\ r.last = d.last
             /\ r.high = (IF n > d.high THEN n ELSE d.high)
             /\ r.reused = (d.reused \/ n <= d.high)
             /\ r.written = d.written \cup {e}
  <1> DEFINE v == [event |-> e, hash |-> NoHash, resolved |-> FALSE]
             r == InsertRow(d, n, e)
             p == Put(d.rows, n, v)
             h == IF n > d.high THEN n ELSE d.high
             u == (d.reused \/ n <= d.high)
             w == d.written \cup {e}
             x == [d.inserts EXCEPT ![FingerprintOf[e]] = @ + 1]
  <1>1. v \in Row /\ v.event = e /\ v.hash = NoHash
    BY NewRow, HashFacts
  <1>2. r = [d EXCEPT !.rows = p, !.high = h, !.reused = u,
                      !.written = w, !.inserts = x]
    BY DEF InsertRow, IsDb, DbOver
  <1> HIDE DEF v
  <1>3. /\ DOMAIN p = DOMAIN d.rows \cup {n}
        /\ DOMAIN p \subseteq RowIds
        /\ p \in [DOMAIN p -> Row]
        /\ p[n] = v
        /\ \A i \in DOMAIN d.rows \ {n} : p[i] = d.rows[i]
    <2>1. DOMAIN d.rows \subseteq RowIds /\ d.rows \in [DOMAIN d.rows -> Row]
      BY DEF IsDb, DbOver
    <2>2. QED
      BY <1>1, <2>1 DEF Put
  <1>4. h \in RowIds \cup {0} /\ u \in BOOLEAN /\ w \in SUBSET Events /\ x \in [Fingerprints -> Nat]
    BY EventsAssumption DEF IsDb, DbOver
  <1> HIDE DEF p, h, u, w, x
  <1>5. /\ r.rows = p
        /\ r.tombs = d.tombs
        /\ r.last = d.last
        /\ r.high = h
        /\ r.reused = u
        /\ r.written = w
    BY <1>2 DEF IsDb, DbOver
  <1>6. IsDb(r)
    <2>1. d \in DbOver(DOMAIN d.rows, DOMAIN d.tombs)
      BY DEF IsDb, DbOver
    <2>2. r \in DbOver(DOMAIN p, DOMAIN d.tombs)
      BY <1>2, <1>3, <1>4, <2>1 DEF DbOver
    <2>3. QED
      BY <1>3, <1>5, <2>2 DEF IsDb, DbOver
  <1>7. QED
    <2>1. h = (IF n > d.high THEN n ELSE d.high) /\ u = (d.reused \/ n <= d.high)
          /\ w = d.written \cup {e}
      BY DEF h, u, w
    <2>2. QED
      BY <1>1, <1>3, <1>5, <1>6, <2>1

LEMMA UpdateFingerprintFacts ==
  ASSUME NEW d, IsDb(d), NEW e \in Events
  PROVE  LET r == update_fingerprint(d, e)
         IN  IsDb(r) /\ SameChain(d, r)
  <1> DEFINE r == update_fingerprint(d, e)
             x == [d.count EXCEPT ![FingerprintOf[e]] = @ + 1]
  <1>1. r = [d EXCEPT !.count = x]
    BY DEF update_fingerprint, IsDb, DbOver
  <1>2. x \in [Fingerprints -> Nat]
    BY EventsAssumption DEF IsDb, DbOver
  <1> HIDE DEF x
  <1>3. SameChain(d, r)
    BY <1>1 DEF SameChain, IsDb, DbOver
  <1>4. r \in DbOver(DOMAIN d.rows, DOMAIN d.tombs)
    BY <1>1, <1>2 DEF IsDb, DbOver
  <1>5. QED
    BY <1>3, <1>4 DEF IsDb, SameChain

LEMMA SetHashFacts ==
  ASSUME NEW d, IsDb(d), NEW n \in RowIds, NEW h \in Hash
  PROVE  LET r == SetHash(d, n, h)
         IN  /\ IsDb(r)
             /\ DOMAIN r.rows = DOMAIN d.rows
             /\ n \in DOMAIN d.rows => r.rows[n].hash = h
             /\ \A i \in DOMAIN d.rows : r.rows[i].event = d.rows[i].event
             /\ \A i \in DOMAIN d.rows \ {n} : r.rows[i] = d.rows[i]
             /\ r.tombs = d.tombs
             /\ r.last = d.last
             /\ r.high = d.high
             /\ r.reused = d.reused
             /\ r.written = d.written
  <1> DEFINE r == SetHash(d, n, h)
             p == [d.rows EXCEPT ![n].hash = h]
  <1>1. CASE n \notin DOMAIN d.rows
    BY <1>1 DEF SetHash
  <1>2. CASE n \in DOMAIN d.rows
    <2>1. r = [d EXCEPT !.rows = p]
      BY <1>2 DEF SetHash, IsDb, DbOver
    <2>2. /\ DOMAIN p = DOMAIN d.rows
          /\ p \in [DOMAIN d.rows -> Row]
          /\ p[n].hash = h
          /\ \A i \in DOMAIN d.rows : p[i].event = d.rows[i].event
          /\ \A i \in DOMAIN d.rows \ {n} : p[i] = d.rows[i]
      <3>1. d.rows \in [DOMAIN d.rows -> Row]
        BY DEF IsDb, DbOver
      <3>2. QED
        BY <1>2, <3>1 DEF Row
    <2> HIDE DEF p
    <2>3. /\ r.rows = p
          /\ r.tombs = d.tombs
          /\ r.last = d.last
          /\ r.high = d.high
          /\ r.reused = d.reused
          /\ r.written = d.written
      BY <2>1 DEF IsDb, DbOver
    <2>4. r \in DbOver(DOMAIN d.rows, DOMAIN d.tombs)
      BY <2>1, <2>2 DEF IsDb, DbOver
    <2>5. QED
      BY <1>2, <2>2, <2>3, <2>4 DEF IsDb
  <1>3. QED
    BY <1>1, <1>2

LEMMA SetLastHashFacts ==
  ASSUME NEW d, IsDb(d), NEW h \in Hash
  PROVE  LET r == set_last_hash(d, h)
         IN  /\ IsDb(r)
             /\ r.rows = d.rows
             /\ r.tombs = d.tombs
             /\ r.last = h
             /\ r.high = d.high
             /\ r.reused = d.reused
             /\ r.written = d.written
  <1> DEFINE r == set_last_hash(d, h)
  <1>1. /\ r.rows = d.rows
        /\ r.tombs = d.tombs
        /\ r.last = h
        /\ r.high = d.high
        /\ r.reused = d.reused
        /\ r.written = d.written
    BY DEF set_last_hash, IsDb, DbOver
  <1>2. r \in DbOver(DOMAIN d.rows, DOMAIN d.tombs)
    BY DEF set_last_hash, IsDb, DbOver
  <1>3. QED
    BY <1>1, <1>2 DEF IsDb

LEMMA PutTombstoneFacts ==
  ASSUME NEW d, IsDb(d), NEW n \in RowIds, NEW h \in Hash
  PROVE  LET r == PutTombstone(d, n, h)
         IN  /\ IsDb(r)
             /\ r.rows = d.rows
             /\ DOMAIN r.tombs = DOMAIN d.tombs \cup {n}
             /\ r.tombs[n] = h
             /\ \A i \in DOMAIN d.tombs \ {n} : r.tombs[i] = d.tombs[i]
             /\ r.last = d.last
             /\ r.high = d.high
             /\ r.reused = d.reused
             /\ r.written = d.written
  <1> DEFINE r == PutTombstone(d, n, h)
             p == Put(d.tombs, n, h)
  <1>1. r = [d EXCEPT !.tombs = p]
    BY DEF PutTombstone, IsDb, DbOver
  <1>2. /\ DOMAIN p = DOMAIN d.tombs \cup {n}
        /\ DOMAIN p \subseteq RowIds
        /\ p \in [DOMAIN p -> Hash]
        /\ p[n] = h
        /\ \A i \in DOMAIN d.tombs \ {n} : p[i] = d.tombs[i]
    <2>1. DOMAIN d.tombs \subseteq RowIds /\ d.tombs \in [DOMAIN d.tombs -> Hash]
      BY DEF IsDb, DbOver
    <2>2. QED
      BY <2>1 DEF Put
  <1> HIDE DEF p
  <1>3. /\ r.rows = d.rows
        /\ r.tombs = p
        /\ r.last = d.last
        /\ r.high = d.high
        /\ r.reused = d.reused
        /\ r.written = d.written
    BY <1>1 DEF IsDb, DbOver
  <1>4. r \in DbOver(DOMAIN d.rows, DOMAIN p)
    BY <1>1, <1>2 DEF IsDb, DbOver
  <1>5. QED
    BY <1>2, <1>3, <1>4 DEF IsDb

LEMMA DeleteRowFacts ==
  ASSUME NEW d, IsDb(d), NEW n \in RowIds
  PROVE  LET r == DeleteRow(d, n)
         IN  /\ IsDb(r)
             /\ DOMAIN r.rows = DOMAIN d.rows \ {n}
             /\ \A i \in DOMAIN d.rows \ {n} : r.rows[i] = d.rows[i]
             /\ r.tombs = d.tombs
             /\ r.last = d.last
             /\ r.high = d.high
             /\ r.reused = d.reused
             /\ r.written = d.written
  <1> DEFINE r == DeleteRow(d, n)
             p == [i \in DOMAIN d.rows \ {n} |-> d.rows[i]]
  <1>1. r = [d EXCEPT !.rows = p]
    BY DEF DeleteRow
  <1>2. /\ DOMAIN p = DOMAIN d.rows \ {n}
        /\ p \in [DOMAIN p -> Row]
        /\ \A i \in DOMAIN d.rows \ {n} : p[i] = d.rows[i]
    <2>1. d.rows \in [DOMAIN d.rows -> Row]
      BY DEF IsDb, DbOver
    <2>2. QED
      BY <2>1
  <1> HIDE DEF p
  <1>3. /\ r.rows = p
        /\ r.tombs = d.tombs
        /\ r.last = d.last
        /\ r.high = d.high
        /\ r.reused = d.reused
        /\ r.written = d.written
    BY <1>1 DEF IsDb, DbOver
  <1>4. r \in DbOver(DOMAIN p, DOMAIN d.tombs)
    BY <1>1, <1>2 DEF IsDb, DbOver
  <1>5. QED
    BY <1>2, <1>3, <1>4 DEF IsDb

LEMMA SetResolvedFacts ==
  ASSUME NEW d, IsDb(d), NEW n \in DOMAIN d.rows
  PROVE  LET r == SetResolved(d, n)
         IN  /\ IsDb(r)
             /\ DOMAIN r.rows = DOMAIN d.rows
             /\ \A i \in DOMAIN d.rows : /\ r.rows[i].event = d.rows[i].event
                                         /\ r.rows[i].hash = d.rows[i].hash
             /\ r.tombs = d.tombs
             /\ r.last = d.last
             /\ r.high = d.high
             /\ r.reused = d.reused
             /\ r.written = d.written
  <1> DEFINE r == SetResolved(d, n)
             p == [d.rows EXCEPT ![n].resolved = TRUE]
  <1>1. r = [d EXCEPT !.rows = p]
    BY DEF SetResolved, IsDb, DbOver
  <1>2. /\ DOMAIN p = DOMAIN d.rows
        /\ p \in [DOMAIN d.rows -> Row]
        /\ \A i \in DOMAIN d.rows : p[i].event = d.rows[i].event /\ p[i].hash = d.rows[i].hash
    <2>1. d.rows \in [DOMAIN d.rows -> Row]
      BY DEF IsDb, DbOver
    <2>2. QED
      BY <2>1 DEF Row
  <1> HIDE DEF p
  <1>3. /\ r.rows = p
        /\ r.tombs = d.tombs
        /\ r.last = d.last
        /\ r.high = d.high
        /\ r.reused = d.reused
        /\ r.written = d.written
    BY <1>1 DEF IsDb, DbOver
  <1>4. r \in DbOver(DOMAIN d.rows, DOMAIN d.tombs)
    BY <1>1, <1>2 DEF IsDb, DbOver
  <1>5. QED
    BY <1>2, <1>3, <1>4 DEF IsDb

LEMMA WriteEventFacts ==
  ASSUME NEW d, IsDb(d), NEW n \in RowIds, NEW e \in Events
  PROVE  LET r == write_event(d, n, e)
         IN  /\ IsDb(r)
             /\ DOMAIN r.rows = DOMAIN d.rows \cup {n}
             /\ r.rows[n].event = e
             /\ r.rows[n].hash = compute_hash(d.last, e)
             /\ \A i \in DOMAIN d.rows \ {n} : r.rows[i] = d.rows[i]
             /\ r.tombs = d.tombs
             /\ r.last = compute_hash(d.last, e)
             /\ r.high = (IF n > d.high THEN n ELSE d.high)
             /\ r.reused = (d.reused \/ n <= d.high)
             /\ r.written = d.written \cup {e}
  <1> DEFINE h == compute_hash(d.last, e)
             d1 == InsertRow(d, n, e)
             d2 == update_fingerprint(d1, e)
             d3 == SetHash(d2, n, h)
  <1>1. d.last \in Hash
    BY DEF IsDb, DbOver
  <1>2. h \in Hash
    BY <1>1, HashFacts
  <1> HIDE DEF h
  <1>3. /\ IsDb(d1)
        /\ DOMAIN d1.rows = DOMAIN d.rows \cup {n}
        /\ d1.rows[n].event = e
        /\ \A i \in DOMAIN d.rows \ {n} : d1.rows[i] = d.rows[i]
        /\ d1.tombs = d.tombs
        /\ d1.high = (IF n > d.high THEN n ELSE d.high)
        /\ d1.reused = (d.reused \/ n <= d.high)
        /\ d1.written = d.written \cup {e}
    BY InsertRowFacts
  <1> HIDE DEF d1
  <1>4. IsDb(d2) /\ SameChain(d1, d2)
    BY <1>3, UpdateFingerprintFacts
  <1> HIDE DEF d2
  <1>5. /\ IsDb(d3)
        /\ DOMAIN d3.rows = DOMAIN d2.rows
        /\ n \in DOMAIN d2.rows => d3.rows[n].hash = h
        /\ \A i \in DOMAIN d2.rows : d3.rows[i].event = d2.rows[i].event
        /\ \A i \in DOMAIN d2.rows \ {n} : d3.rows[i] = d2.rows[i]
        /\ d3.tombs = d2.tombs
        /\ d3.high = d2.high
        /\ d3.reused = d2.reused
        /\ d3.written = d2.written
    BY <1>2, <1>4, SetHashFacts
  <1> HIDE DEF d3
  <1> DEFINE r == set_last_hash(d3, h)
  <1>6. /\ IsDb(r)
        /\ r.rows = d3.rows
        /\ r.tombs = d3.tombs
        /\ r.last = h
        /\ r.high = d3.high
        /\ r.reused = d3.reused
        /\ r.written = d3.written
    BY <1>2, <1>5, SetLastHashFacts
  <1>7. write_event(d, n, e) = r
    BY DEF write_event, h, d1, d2, d3
  <1> HIDE DEF r
  <1>8. QED
    BY <1>3, <1>4, <1>5, <1>6, <1>7 DEF SameChain, h

-----------------------------------------------------------------------------
(* Type correctness.                                                       *)

LEMMA EmptyDbType == IsDb(EmptyDb)
  <1>1. NoRows \in [{} -> Row] /\ NoRows \in [{} -> Hash] /\ DOMAIN NoRows = {}
    BY DEF NoRows
  <1> HIDE DEF NoRows
  <1>2. EmptyDb \in DbOver({}, {}) /\ EmptyDb.rows = NoRows /\ EmptyDb.tombs = NoRows
    BY <1>1, HashFacts DEF EmptyDb, DbOver
  <1>3. QED
    BY <1>1, <1>2 DEF IsDb

LEMMA IdleType == Idle \in Job
  BY HashFacts DEF Idle, Job

LEMMA ToDeleteType == \A ids \in SUBSET Events : ToDelete(ids) \in Job
  BY IdleType DEF ToDelete, Idle, Job, DeletePcs

LEMMA DbFields ==
  ASSUME NEW d, IsDb(d)
  PROVE  /\ DOMAIN d.rows \subseteq RowIds
         /\ DOMAIN d.tombs \subseteq RowIds
         /\ \A i \in DOMAIN d.rows : /\ d.rows[i] \in Row
                                     /\ d.rows[i].event \in Events
                                     /\ d.rows[i].hash \in Hash
         /\ \A i \in DOMAIN d.tombs : d.tombs[i] \in Hash
         /\ d.last \in Hash
         /\ d.high \in RowIds \cup {0}
         /\ d.high \in Nat
         /\ d.reused \in BOOLEAN
         /\ d.written \subseteq Events
  BY BoundsAssumption DEF IsDb, DbOver, Row, RowIds

\* A step that gives connection c a well-typed job and the database a well-typed value.
LEMMA ExecuteType ==
  ASSUME TypeOK, NEW c \in Connections, NEW d, IsDb(d), NEW next \in Job,
         Execute(c, d, next), UNCHANGED <<matched, torn, unrolled>>,
         crossed' \in BOOLEAN, retaken' \in BOOLEAN
  PROVE  TypeOK'
  BY DEF TypeOK, Execute, IsDb, DbOver

LEMMA TypeStep == TypeOK /\ [Next]_vars => TypeOK'
  <1> SUFFICES ASSUME TypeOK, [Next]_vars
               PROVE  TypeOK'
    OBVIOUS
  <1> USE DEF TypeOK
  <1>j. ASSUME NEW c \in Connections
        PROVE  /\ job[c] \in Job
               /\ job[c].event \in Events \cup {NoEvent}
               /\ job[c].row \in RowIds \cup {0}
               /\ job[c].link \in Hash
               /\ job[c].todo \in SUBSET Events
               /\ job[c].pc \notin {"idle", "batch", "deleting"} =>
                    job[c].event \in Events /\ job[c].row \in RowIds
    BY DEF Job
  <1>1. ASSUME NEW c \in Connections, NEW e \in Events, Insert(c, e)
        PROVE  TypeOK'
    <2>1. PICK n \in RowIds : Execute(c, InsertRow(db, n, e),
                 [Idle EXCEPT !.pc = "inserted", !.event = e, !.row = n])
      BY <1>1 DEF Insert
    <2>2. [Idle EXCEPT !.pc = "inserted", !.event = e, !.row = n] \in Job
      BY HashFacts DEF Idle, Job, WritePcs
    <2>3. QED
      BY <1>1, <2>1, <2>2, InsertRowFacts, ExecuteType DEF Insert, Crosses
  <1>2. ASSUME NEW c \in Connections, RollUp(c)
        PROVE  TypeOK'
    <2>1. [job[c] EXCEPT !.pc = "rolledUp"] \in Job
      BY <1>2 DEF RollUp, Job, WritePcs
    <2>2. job[c].event \in Events
      BY <1>2, <1>j DEF RollUp
    <2>3. QED
      BY <1>2, <2>1, <2>2, UpdateFingerprintFacts, ExecuteType DEF RollUp, History
  <1>3. ASSUME NEW c \in Connections, ReadLink(c)
        PROVE  TypeOK'
    <2>1. [job[c] EXCEPT !.pc = "linked", !.link = db.last] \in Job
      BY <1>3, DbFields DEF ReadLink, Job, WritePcs
    <2>2. QED
      BY <1>3, <2>1 DEF ReadLink, History, IsDb, DbOver
  <1>4. ASSUME NEW c \in Connections, Stamp(c)
        PROVE  TypeOK'
    <2>1. [job[c] EXCEPT !.pc = "stamped"] \in Job
      BY <1>4 DEF Stamp, Job, WritePcs
    <2>2. job[c].row \in RowIds /\ compute_hash(job[c].link, job[c].event) \in Hash
      BY <1>4, <1>j, HashFacts DEF Stamp
    <2>3. QED
      BY <1>4, <2>1, <2>2, SetHashFacts, ExecuteType DEF Stamp, History
  <1>5. ASSUME NEW c \in Connections, Advance(c)
        PROVE  TypeOK'
    <2>1. compute_hash(job[c].link, job[c].event) \in Hash
      BY <1>5, <1>j, HashFacts DEF Advance
    <2>2. QED
      BY <1>5, <2>1, SetLastHashFacts, IdleType, ExecuteType DEF Advance, History
  <1>6. ASSUME NEW c \in Connections, Begin(c)
        PROVE  TypeOK'
    <2>1. [job[c] EXCEPT !.pc = "batch"] \in Job
      BY <1>6 DEF Begin, Job
    <2>2. QED
      BY <1>6, <2>1 DEF Begin, Crosses, IsDb, DbOver
  <1>7. ASSUME NEW c \in Connections, NEW e \in Events, WriteInBatch(c, e)
        PROVE  TypeOK'
    <2>1. PICK n \in RowIds : draft' = write_event(draft, n, e)
      BY <1>7 DEF WriteInBatch
    <2>2. IsDb(draft')
      BY <2>1, WriteEventFacts
    <2>3. QED
      BY <1>7, <2>2 DEF WriteInBatch, IsDb, DbOver
  <1>8. ASSUME NEW c \in Connections, Commit(c) \/ Rollback(c)
        PROVE  TypeOK'
    BY <1>8, EmptyDbType, IdleType DEF Commit, Rollback, History, IsDb, DbOver
  <1>9. ASSUME NEW c \in Connections, NEW e \in Events, Resolve(c, e)
        PROVE  TypeOK'
    <2>1. PICK i \in DOMAIN db.rows : Execute(c, SetResolved(db, i), Idle)
      BY <1>9 DEF Resolve
    <2>2. QED
      BY <1>9, <2>1, SetResolvedFacts, IdleType, ExecuteType DEF Resolve, History
  <1>10. ASSUME NEW c \in Connections, NEW force \in BOOLEAN, Match(c, force)
         PROVE  TypeOK'
    <2>1. PICK ids \in SUBSET Live(db) : /\ job' = [job EXCEPT ![c] = ToDelete(ids)]
                                         /\ matched' = matched \cup ids
      BY <1>10 DEF Match
    <2>2. ids \in SUBSET Events
      BY DbFields DEF Live
    <2>3. QED
      BY <1>10, <2>1, <2>2, ToDeleteType DEF Match, IsDb, DbOver
  <1>11. ASSUME NEW c \in Connections, NEW e \in Events, Lookup(c, e)
         PROVE  TypeOK'
    <2>1. ASSUME NEW i \in DOMAIN db.rows
          PROVE  [job[c] EXCEPT !.pc = "found", !.event = e, !.row = i,
                                !.link = db.rows[i].hash] \in Job
      BY <1>11, <1>j, DbFields DEF Job, DeletePcs
    <2>2. ToDelete(job[c].todo \ {e}) \in Job
      BY <1>j, ToDeleteType
    <2>3. job' \in [Connections -> Job]
      <3>1. CASE \E i \in DOMAIN db.rows :
                   job' = [job EXCEPT ![c].pc = "found", ![c].event = e, ![c].row = i,
                                      ![c].link = db.rows[i].hash]
        <4>1. PICK i \in DOMAIN db.rows :
                job' = [job EXCEPT ![c] = [@ EXCEPT !.pc = "found", !.event = e, !.row = i,
                                                    !.link = db.rows[i].hash]]
          BY <3>1
        <4>2. QED
          BY <2>1, <4>1
      <3>2. CASE job' = [job EXCEPT ![c] = ToDelete(job[c].todo \ {e})]
        BY <2>2, <3>2
      <3>3. QED
        BY <1>11, <3>1, <3>2 DEF Lookup
    <2>4. QED
      BY <1>11, <2>3 DEF Lookup, Crosses, IsDb, DbOver
  <1>12. ASSUME NEW c \in Connections, Entomb(c)
         PROVE  TypeOK'
    <2>1. [job[c] EXCEPT !.pc = "tombstoned"] \in Job
      BY <1>12 DEF Entomb, Job, DeletePcs
    <2>2. QED
      BY <1>12, <1>j, <2>1, PutTombstoneFacts, ExecuteType DEF Entomb, History
  <1>13. ASSUME NEW c \in Connections, Remove(c)
         PROVE  TypeOK'
    <2>1. ToDelete(job[c].todo \ {job[c].event}) \in Job
      BY <1>j, ToDeleteType
    <2>2. job[c].row \in RowIds
      BY <1>13, <1>j DEF Remove
    <2>3. IsDb(DeleteRow(db, job[c].row))
      BY <2>2, DeleteRowFacts
    <2>4. QED
      BY <1>13, <2>1, <2>3, ExecuteType DEF Remove, History
  <1>14. ASSUME NEW c \in Connections, Abort(c)
         PROVE  TypeOK'
    <2>1. unrolled' \in [Fingerprints -> Nat]
      BY <1>14, <1>j, EventsAssumption DEF Abort
    <2>2. torn' \in BOOLEAN
      BY <1>14 DEF Abort
    <2>3. QED
      BY <1>14, <2>1, <2>2, IdleType DEF Abort, IsDb, DbOver
  <1>15. CASE UNCHANGED vars
    BY <1>15 DEF vars, IsDb, DbOver
  <1>16. ASSUME NEW c \in AutocommitWriters, Write(c)
         PROVE  TypeOK'
    BY <1>1, <1>2, <1>3, <1>4, <1>5, <1>16, RolesAssumption DEF Write
  <1>17. ASSUME NEW c \in BatchWriters, Batch(c)
         PROVE  TypeOK'
    BY <1>6, <1>7, <1>8, <1>17, RolesAssumption DEF Batch
  <1>18. ASSUME NEW c \in Maintainers, Delete(c)
         PROVE  TypeOK'
    BY <1>10, <1>11, <1>12, <1>13, <1>18, RolesAssumption DEF Delete
  <1> HIDE DEF TypeOK
  <1>19. QED
    BY <1>9, <1>14, <1>15, <1>16, <1>17, <1>18, RolesAssumption DEF Next

LEMMA InitType == Init => TypeOK
  <1> SUFFICES ASSUME Init
               PROVE  TypeOK
    OBVIOUS
  <1>1. IsDb(db) /\ IsDb(draft)
    BY EmptyDbType DEF Init
  <1>2. job \in [Connections -> Job]
    BY IdleType DEF Init
  <1>3. unrolled \in [Fingerprints -> Nat] /\ torn \in BOOLEAN /\ crossed \in BOOLEAN /\ retaken \in BOOLEAN
    BY DEF Init
  <1>4. QED
    BY <1>1, <1>2, <1>3 DEF Init, TypeOK

(* In every reachable state the variables have the types TypeOK gives them *)
(* (a database with rows, tombstones and counters for known row ids, jobs  *)
(* that know their event and row): what every other proof starts from.     *)
THEOREM TypeCorrect == Spec => []TypeOK
  BY InitType, TypeStep, PTL DEF Spec

-----------------------------------------------------------------------------
(* Removed rows are entombed.                                              *)

LEMMA JobStep ==
  ASSUME TypeOK, NEW c \in Connections, NEW j, job' = [job EXCEPT ![c] = j]
  PROVE  /\ job'[c] = j
         /\ \A x \in Connections \ {c} : job'[x] = job[x]
  BY DEF TypeOK

\* A new row takes the id after the newest row's: never past the end of the used ids.
LEMMA InsertEntombs ==
  ASSUME NEW d, IsDb(d), Entombed(d), NEW n \in RowIds, IsNextRowId(d, n),
         NEW r, DOMAIN r.rows = DOMAIN d.rows \cup {n}, r.tombs = d.tombs,
         r.high = IF n > d.high THEN n ELSE d.high
  PROVE  Entombed(r) /\ d.high <= r.high /\ n <= d.high + 1
  <1>1. d.high \in Nat /\ n \in Nat /\ n >= 1
    BY DbFields, BoundsAssumption DEF RowIds
  <1>2. n <= d.high + 1
    BY <1>1 DEF IsNextRowId, Entombed
  <1>3. QED
    BY <1>1, <1>2 DEF Entombed

\* Digging deletes keep what they know when the used ids and tombstones only grow.
LEMMA DiggersKept ==
  ASSUME EntombInv, NEW c \in Connections, NEW j, job' = [job EXCEPT ![c] = j],
         \/ j.pc \notin {"found", "tombstoned"}
         \/ /\ j.row \in 1..db'.high
            /\ j.pc = "tombstoned" => j.row \in DOMAIN db'.tombs,
         db.high \in Nat, db'.high \in Nat, db.high <= db'.high,
         DOMAIN db.tombs \subseteq DOMAIN db'.tombs
  PROVE  \A x \in Digging' :
           /\ job'[x].row \in 1..db'.high
           /\ job'[x].pc = "tombstoned" => job'[x].row \in DOMAIN db'.tombs
  <1> SUFFICES ASSUME NEW x \in Digging'
               PROVE  /\ job'[x].row \in 1..db'.high
                      /\ job'[x].pc = "tombstoned" => job'[x].row \in DOMAIN db'.tombs
    OBVIOUS
  <1>1. /\ x \in Connections
        /\ job'[x].pc \in {"found", "tombstoned"}
    BY DEF Digging
  <1>2. CASE x = c
    BY <1>1, <1>2, JobStep DEF EntombInv
  <1>3. CASE x # c
    <2>1. job'[x] = job[x]
      BY <1>1, <1>3, JobStep DEF EntombInv
    <2>2. x \in Digging
      BY <1>1, <2>1 DEF Digging
    <2>3. QED
      BY <2>1, <2>2 DEF EntombInv
  <1>4. QED
    BY <1>2, <1>3

\* A statement that commits at once keeps EntombInv when it keeps Entombed.
LEMMA ExecuteEntombs ==
  ASSUME EntombInv, TypeOK', NEW c \in Connections, NEW d, NEW j, Execute(c, d, j),
         Entombed(d), db.high <= d.high, DOMAIN db.tombs \subseteq DOMAIN d.tombs,
         \/ j.pc \notin {"found", "tombstoned"}
         \/ /\ j.row \in 1..d.high
            /\ j.pc = "tombstoned" => j.row \in DOMAIN d.tombs
  PROVE  EntombInv'
  <1>1. db.high \in Nat /\ db'.high \in Nat
    BY DbFields DEF EntombInv, TypeOK
  <1>2. db' = d /\ lock' = NoConnection /\ job' = [job EXCEPT ![c] = j]
    BY DEF Execute
  <1>3. \A x \in Digging' : /\ job'[x].row \in 1..db'.high
                            /\ job'[x].pc = "tombstoned" => job'[x].row \in DOMAIN db'.tombs
    BY <1>1, <1>2, DiggersKept
  <1>4. QED
    BY <1>2, <1>3 DEF EntombInv

\* So does a step that reads.
LEMMA ReadEntombs ==
  ASSUME EntombInv, TypeOK', NEW c \in Connections, NEW j, job' = [job EXCEPT ![c] = j],
         UNCHANGED <<db, draft, lock>>,
         \/ j.pc \notin {"found", "tombstoned"}
         \/ j.row \in 1..db.high /\ j.pc # "tombstoned"
  PROVE  EntombInv'
  <1>1. /\ db.high \in Nat /\ db' = db
        /\ db.high <= db'.high /\ DOMAIN db.tombs \subseteq DOMAIN db'.tombs
    BY DbFields DEF EntombInv, TypeOK
  <1>2. \A x \in Digging' : /\ job'[x].row \in 1..db'.high
                            /\ job'[x].pc = "tombstoned" => job'[x].row \in DOMAIN db'.tombs
    BY <1>1, DiggersKept
  <1>3. QED
    BY <1>2 DEF EntombInv, Entombed

LEMMA ToDeletePc == \A ids : ToDelete(ids).pc \in {"idle", "deleting"}
  BY DEF ToDelete, Idle

LEMMA EntombStep == EntombInv /\ [Next]_vars => EntombInv'
  <1> SUFFICES ASSUME EntombInv, [Next]_vars
               PROVE  EntombInv'
    OBVIOUS
  <1>t. TypeOK /\ TypeOK' /\ IsDb(db) /\ IsDb(draft)
    BY TypeStep DEF EntombInv, TypeOK
  <1>h. /\ db.high \in Nat /\ db'.high \in Nat
        /\ draft.high \in Nat /\ draft'.high \in Nat
    BY <1>t, DbFields DEF TypeOK
  <1>j. ASSUME NEW c \in Connections
        PROVE  /\ job[c].row \in RowIds \cup {0}
               /\ job[c].link \in Hash
               /\ job[c].pc \notin {"idle", "batch", "deleting"} =>
                    job[c].event \in Events /\ job[c].row \in RowIds
    BY <1>t DEF TypeOK, Job
  <1>1. ASSUME NEW c \in Connections, NEW e \in Events, Insert(c, e)
        PROVE  EntombInv'
    <2> DEFINE j(n) == [Idle EXCEPT !.pc = "inserted", !.event = e, !.row = n]
    <2>1. PICK n \in RowIds : IsNextRowId(db, n) /\ Execute(c, InsertRow(db, n, e), j(n))
      BY <1>1 DEF Insert
    <2>2. PICK d : d = InsertRow(db, n, e)
      OBVIOUS
    <2>3. /\ DOMAIN d.rows = DOMAIN db.rows \cup {n}
          /\ d.tombs = db.tombs
          /\ d.high = IF n > db.high THEN n ELSE db.high
      BY <1>t, <2>2, InsertRowFacts
    <2>4. Entombed(d) /\ db.high <= d.high
      BY <1>t, <2>1, <2>3, InsertEntombs DEF EntombInv
    <2>5. j(n).pc = "inserted"
      BY DEF Idle
    <2> HIDE DEF j
    <2>6. QED
      BY <1>t, <2>1, <2>2, <2>3, <2>4, <2>5, ExecuteEntombs
  <1>2. ASSUME NEW c \in Connections, RollUp(c)
        PROVE  EntombInv'
    <2> DEFINE d == update_fingerprint(db, job[c].event)
               j == [job[c] EXCEPT !.pc = "rolledUp"]
    <2>1. SameChain(db, d) /\ Execute(c, d, j)
      BY <1>2, <1>j, <1>t, UpdateFingerprintFacts DEF RollUp
    <2>2. j.pc = "rolledUp"
      BY <1>t DEF TypeOK, Job
    <2> HIDE DEF d, j
    <2>3. Entombed(d) /\ db.high <= d.high /\ d.tombs = db.tombs
      BY <1>h, <2>1 DEF SameChain, Entombed, EntombInv
    <2>4. QED
      BY <1>t, <2>1, <2>2, <2>3, ExecuteEntombs
  <1>3. ASSUME NEW c \in Connections, ReadLink(c)
        PROVE  EntombInv'
    <2> DEFINE j == [job[c] EXCEPT !.pc = "linked", !.link = db.last]
    <2>1. job' = [job EXCEPT ![c] = j] /\ UNCHANGED <<db, draft, lock>>
      BY <1>3 DEF ReadLink
    <2>2. j.pc = "linked"
      BY <1>t DEF TypeOK, Job
    <2> HIDE DEF j
    <2>3. QED
      BY <1>t, <2>1, <2>2, ReadEntombs
  <1>4. ASSUME NEW c \in Connections, Stamp(c)
        PROVE  EntombInv'
    <2> DEFINE d == SetHash(db, job[c].row, compute_hash(job[c].link, job[c].event))
               j == [job[c] EXCEPT !.pc = "stamped"]
    <2>1. job[c].row \in RowIds /\ compute_hash(job[c].link, job[c].event) \in Hash
      BY <1>4, <1>j, HashFacts DEF Stamp
    <2>2. DOMAIN d.rows = DOMAIN db.rows /\ d.tombs = db.tombs /\ d.high = db.high
      BY <1>t, <2>1, SetHashFacts
    <2>3. Execute(c, d, j) /\ j.pc = "stamped"
      BY <1>4, <1>t DEF Stamp, TypeOK, Job
    <2> HIDE DEF d, j
    <2>4. QED
      BY <1>t, <1>h, <2>2, <2>3, ExecuteEntombs DEF Entombed, EntombInv
  <1>5. ASSUME NEW c \in Connections, Advance(c)
        PROVE  EntombInv'
    <2> DEFINE d == set_last_hash(db, compute_hash(job[c].link, job[c].event))
    <2>1. compute_hash(job[c].link, job[c].event) \in Hash
      BY <1>5, <1>j, HashFacts DEF Advance
    <2>2. d.rows = db.rows /\ d.tombs = db.tombs /\ d.high = db.high
      BY <1>t, <2>1, SetLastHashFacts
    <2>3. Execute(c, d, Idle) /\ Idle.pc = "idle"
      BY <1>5 DEF Advance, Idle
    <2> HIDE DEF d
    <2>4. QED
      BY <1>t, <1>h, <2>2, <2>3, ExecuteEntombs DEF Entombed, EntombInv
  <1>6. ASSUME NEW c \in Connections, Begin(c)
        PROVE  EntombInv'
    <2> DEFINE j == [job[c] EXCEPT !.pc = "batch"]
    <2>1. job' = [job EXCEPT ![c] = j] /\ draft' = db /\ db' = db
      BY <1>6 DEF Begin
    <2>2. j.pc = "batch"
      BY <1>t DEF TypeOK, Job
    <2> HIDE DEF j
    <2>3. \A x \in Digging' : /\ job'[x].row \in 1..db'.high
                              /\ job'[x].pc = "tombstoned" => job'[x].row \in DOMAIN db'.tombs
      <3>1. db.high <= db'.high /\ DOMAIN db.tombs \subseteq DOMAIN db'.tombs
        BY <1>h, <2>1
      <3>2. QED
        BY <1>h, <2>1, <2>2, <3>1, DiggersKept
    <2>4. QED
      BY <1>t, <1>h, <2>1, <2>3 DEF EntombInv, Entombed
  <1>7. ASSUME NEW c \in Connections, NEW e \in Events, WriteInBatch(c, e)
        PROVE  EntombInv'
    <2>1. PICK n \in RowIds : IsNextRowId(draft, n) /\ draft' = write_event(draft, n, e)
      BY <1>7 DEF WriteInBatch
    <2>2. /\ DOMAIN draft'.rows = DOMAIN draft.rows \cup {n}
          /\ draft'.tombs = draft.tombs
          /\ draft'.high = IF n > draft.high THEN n ELSE draft.high
      BY <1>t, <2>1, WriteEventFacts
    <2>3. lock = c /\ lock # NoConnection /\ UNCHANGED <<db, lock, job>>
      BY <1>7, RolesAssumption DEF WriteInBatch
    <2>4. Entombed(draft') /\ draft.high <= draft'.high
      BY <1>t, <2>1, <2>2, <2>3, InsertEntombs DEF EntombInv
    <2>5. QED
      BY <1>t, <1>h, <2>2, <2>3, <2>4 DEF EntombInv, Entombed, Digging
  <1>8. ASSUME NEW c \in Connections, Commit(c)
        PROVE  EntombInv'
    <2>1. /\ lock # NoConnection /\ lock' = NoConnection
          /\ db' = draft /\ job' = [job EXCEPT ![c] = Idle] /\ Idle.pc = "idle"
      BY <1>8, RolesAssumption DEF Commit, Idle
    <2>2. \A x \in Digging' : /\ job'[x].row \in 1..db'.high
                              /\ job'[x].pc = "tombstoned" => job'[x].row \in DOMAIN db'.tombs
      BY <1>h, <2>1, DiggersKept DEF EntombInv
    <2>3. QED
      BY <1>t, <2>1, <2>2 DEF EntombInv
  <1>9. ASSUME NEW c \in Connections, Rollback(c)
        PROVE  EntombInv'
    <2>1. /\ lock' = NoConnection /\ db' = db
          /\ job' = [job EXCEPT ![c] = Idle] /\ Idle.pc = "idle"
      BY <1>9 DEF Rollback, Idle
    <2>2. \A x \in Digging' : /\ job'[x].row \in 1..db'.high
                              /\ job'[x].pc = "tombstoned" => job'[x].row \in DOMAIN db'.tombs
      <3>1. db.high <= db'.high /\ DOMAIN db.tombs \subseteq DOMAIN db'.tombs
        BY <1>h, <2>1
      <3>2. QED
        BY <1>h, <2>1, <3>1, DiggersKept
    <2>3. QED
      BY <1>t, <2>1, <2>2 DEF EntombInv, Entombed
  <1>10. ASSUME NEW c \in Connections, NEW e \in Events, Resolve(c, e)
         PROVE  EntombInv'
    <2>1. PICK i \in DOMAIN db.rows : Execute(c, SetResolved(db, i), Idle)
      BY <1>10 DEF Resolve
    <2> DEFINE d == SetResolved(db, i)
    <2>2. DOMAIN d.rows = DOMAIN db.rows /\ d.tombs = db.tombs /\ d.high = db.high
      BY <1>t, SetResolvedFacts
    <2> HIDE DEF d
    <2>3. Idle.pc = "idle"
      BY DEF Idle
    <2>4. QED
      BY <1>t, <1>h, <2>1, <2>2, <2>3, ExecuteEntombs DEF Entombed, EntombInv, d
  <1>11. ASSUME NEW c \in Connections, NEW force \in BOOLEAN, Match(c, force)
         PROVE  EntombInv'
    <2>1. PICK ids : job' = [job EXCEPT ![c] = ToDelete(ids)]
      BY <1>11 DEF Match
    <2>2. QED
      BY <1>11, <1>t, <2>1, ToDeletePc, ReadEntombs DEF Match
  <1>12. ASSUME NEW c \in Connections, NEW e \in Events, Lookup(c, e)
         PROVE  EntombInv'
    <2>1. CASE \E i \in DOMAIN db.rows :
                 job' = [job EXCEPT ![c].pc = "found", ![c].event = e, ![c].row = i,
                                    ![c].link = db.rows[i].hash]
      <3>1. PICK i \in DOMAIN db.rows :
              job' = [job EXCEPT ![c] = [@ EXCEPT !.pc = "found", !.event = e, !.row = i,
                                                  !.link = db.rows[i].hash]]
        BY <2>1
      <3> DEFINE j == [job[c] EXCEPT !.pc = "found", !.event = e, !.row = i,
                                    !.link = db.rows[i].hash]
      <3>2. j.pc = "found" /\ j.row = i
        BY <1>t DEF TypeOK, Job
      <3>3. job' = [job EXCEPT ![c] = j]
        BY <3>1
      <3> HIDE DEF j
      <3>4. i \in 1..db.high
        BY DEF EntombInv, Entombed
      <3>5. QED
        BY <1>12, <1>t, <3>2, <3>3, <3>4, ReadEntombs DEF Lookup
    <2>2. CASE job' = [job EXCEPT ![c] = ToDelete(job[c].todo \ {e})]
      BY <1>12, <1>t, <2>2, ToDeletePc, ReadEntombs DEF Lookup
    <2>3. QED
      BY <1>12, <2>1, <2>2 DEF Lookup
  <1>13. ASSUME NEW c \in Connections, Entomb(c)
         PROVE  EntombInv'
    <2> DEFINE d == PutTombstone(db, job[c].row, job[c].link)
               j == [job[c] EXCEPT !.pc = "tombstoned"]
    <2>1. job[c].row \in RowIds /\ job[c].link \in Hash /\ job[c].row \in 1..db.high
      BY <1>13, <1>j DEF Entomb, EntombInv, Digging
    <2>2. /\ d.rows = db.rows /\ d.high = db.high
          /\ DOMAIN d.tombs = DOMAIN db.tombs \cup {job[c].row}
      BY <1>t, <2>1, PutTombstoneFacts
    <2>3. Execute(c, d, j) /\ j.pc = "tombstoned" /\ j.row = job[c].row
      BY <1>13, <1>t DEF Entomb, TypeOK, Job
    <2> HIDE DEF d, j
    <2>4. Entombed(d)
      BY <2>1, <2>2 DEF Entombed, EntombInv
    <2>5. QED
      BY <1>t, <1>h, <2>1, <2>2, <2>3, <2>4, ExecuteEntombs
  <1>14. ASSUME NEW c \in Connections, Remove(c)
         PROVE  EntombInv'
    <2> DEFINE d == DeleteRow(db, job[c].row)
               j == ToDelete(job[c].todo \ {job[c].event})
    <2>1. job[c].row \in RowIds /\ job[c].row \in DOMAIN db.tombs
      BY <1>14, <1>j DEF Remove, EntombInv, Digging
    <2>2. /\ DOMAIN d.rows = DOMAIN db.rows \ {job[c].row}
          /\ d.tombs = db.tombs /\ d.high = db.high
      BY <1>t, <2>1, DeleteRowFacts
    <2>3. Execute(c, d, j) /\ j.pc \in {"idle", "deleting"}
      BY <1>14, ToDeletePc DEF Remove
    <2> HIDE DEF d, j
    <2>4. Entombed(d)
      BY <2>1, <2>2 DEF Entombed, EntombInv
    <2>5. QED
      BY <1>t, <1>h, <2>2, <2>3, <2>4, ExecuteEntombs
  <1>15. ASSUME NEW c \in Connections, Abort(c)
         PROVE  EntombInv'
    BY <1>15, <1>t, ReadEntombs DEF Abort, Idle
  <1>16. CASE UNCHANGED vars
    BY <1>16, <1>t DEF vars, EntombInv, Entombed, Digging
  <1>17. ASSUME NEW c \in AutocommitWriters, Write(c)
         PROVE  EntombInv'
    BY <1>1, <1>2, <1>3, <1>4, <1>5, <1>17, RolesAssumption DEF Write
  <1>18. ASSUME NEW c \in BatchWriters, Batch(c)
         PROVE  EntombInv'
    BY <1>6, <1>7, <1>8, <1>9, <1>18, RolesAssumption DEF Batch
  <1>19. ASSUME NEW c \in Maintainers, Delete(c)
         PROVE  EntombInv'
    BY <1>11, <1>12, <1>13, <1>14, <1>19, RolesAssumption DEF Delete
  <1>20. QED
    BY <1>10, <1>15, <1>16, <1>17, <1>18, <1>19, RolesAssumption DEF Next

LEMMA InitEntomb == Init => EntombInv
  <1> SUFFICES ASSUME Init
               PROVE  EntombInv
    OBVIOUS
  <1>1. TypeOK
    BY InitType
  <1>2. db.high = 0 /\ DOMAIN db.rows = {} /\ DOMAIN db.tombs = {}
    BY DEF Init, EmptyDb, NoRows
  <1>3. Digging = {} /\ lock = NoConnection
    BY DEF Init, Idle, Digging
  <1>4. QED
    BY <1>1, <1>2, <1>3 DEF EntombInv, Entombed

(* Whatever deletes, kills, transactions and writes interleave, on any     *)
(* number of connections, a row id that was ever used has its row or its   *)
(* tombstone: delete_events_by_id writes the tombstone first.              *)
THEOREM RemovalsAreEntombed == Spec => []RemovalsEntombed
  <1>1. EntombInv => RemovalsEntombed
    BY DEF EntombInv, Entombed, RemovalsEntombed
  <1>2. QED
    BY <1>1, InitEntomb, EntombStep, PTL DEF Spec

-----------------------------------------------------------------------------
(* The chain verifies.                                                     *)

\* A row inserted at an unused id follows the newest one, and moves no other link.
LEMMA InsertLinks ==
  ASSUME NEW d, IsDb(d), Entombed(d), Links(d, {}), EndsAt(d),
         NEW n \in RowIds, IsNextRowId(d, n), ~(n <= d.high),
         NEW r, DOMAIN r.rows = DOMAIN d.rows \cup {n}, r.tombs = d.tombs,
         \A i \in DOMAIN d.rows \ {n} : r.rows[i] = d.rows[i]
  PROVE  /\ n = d.high + 1 /\ n \notin DOMAIN d.rows /\ n \notin DOMAIN d.tombs
         /\ \A i \in 1..d.high : HashAt(r, i) = HashAt(d, i)
         /\ Base(r, n) = d.last
         /\ n = 1 \/ n - 1 \in DOMAIN r.rows \cup DOMAIN r.tombs
         /\ Links(r, {n})
  <1>1. d.high \in Nat /\ n \in Nat /\ n >= 1
    BY DbFields, BoundsAssumption DEF RowIds
  <1>2. /\ n = d.high + 1
        /\ \A i \in DOMAIN d.rows \cup DOMAIN d.tombs : i \in Nat /\ 1 <= i /\ i <= d.high
        /\ \A i \in 1..d.high : i \in DOMAIN d.rows \cup DOMAIN d.tombs
    BY <1>1 DEF IsNextRowId, Entombed
  <1>3. n \notin DOMAIN d.rows /\ n \notin DOMAIN d.tombs
    BY <1>1, <1>2
  <1>4. \A i \in 1..d.high : HashAt(r, i) = HashAt(d, i)
    BY <1>1, <1>2 DEF HashAt
  <1>5. n = 1 \/ n - 1 \in DOMAIN d.rows
    BY DEF IsNextRowId
  <1>6. Base(r, n) = d.last
    <2>1. CASE n = 1
      BY <1>1, <1>2, <2>1 DEF Base, EndsAt
    <2>2. CASE n # 1
      <3>1. n - 1 = d.high /\ d.high \in DOMAIN d.rows /\ d.high \in 1..d.high
        BY <1>1, <1>2, <1>5, <2>2
      <3>2. Base(r, n) = HashAt(d, d.high)
        BY <1>4, <2>2, <3>1 DEF Base
      <3>3. QED
        BY <3>1, <3>2 DEF HashAt, EndsAt
    <2>3. QED
      BY <2>1, <2>2
  <1>7. ASSUME NEW i \in DOMAIN d.rows
        PROVE  Linked(r, i)
    <2>1. i \in Nat /\ 1 <= i /\ i <= d.high /\ r.rows[i] = d.rows[i] /\ Linked(d, i)
      BY <1>2, <1>3 DEF Links
    <2>2. Base(r, i) = Base(d, i)
      BY <1>1, <1>4, <2>1 DEF Base
    <2>3. QED
      BY <2>1, <2>2 DEF Linked
  <1>8. Links(r, {n})
    BY <1>3, <1>7 DEF Links
  <1>9. QED
    BY <1>2, <1>3, <1>4, <1>5, <1>6, <1>8

\* A statement that changes no hash of a used id and no event keeps the links.
LEMMA SameLinks ==
  ASSUME NEW d, IsDb(d), Entombed(d), NEW P, Links(d, P), NEW r, Entombed(r),
         r.high = d.high, DOMAIN r.rows \subseteq DOMAIN d.rows,
         \A i \in DOMAIN r.rows : /\ r.rows[i].event = d.rows[i].event
                                 /\ r.rows[i].hash = d.rows[i].hash,
         \A i \in 1..d.high : HashAt(r, i) = HashAt(d, i),
         \A i \in DOMAIN r.rows \cap DOMAIN r.tombs : r.tombs[i] = r.rows[i].hash
  PROVE  Links(r, P)
  <1>1. d.high \in Nat
    BY DbFields
  <1>2. ASSUME NEW i \in DOMAIN r.rows \ P
        PROVE  Linked(r, i)
    <2>1. i \in Nat /\ 1 <= i /\ i <= d.high /\ Linked(d, i)
      BY <1>1 DEF Links, Entombed
    <2>2. Base(r, i) = Base(d, i)
      BY <1>1, <2>1 DEF Base
    <2>3. i = 1 \/ i - 1 \in DOMAIN r.rows \cup DOMAIN r.tombs
      BY <1>1, <2>1 DEF Entombed
    <2>4. QED
      BY <2>1, <2>2, <2>3 DEF Linked
  <1>3. QED
    BY <1>2 DEF Links

\* What a new job of c does to the sets of connections that are busy.
LEMMA JobSets ==
  ASSUME TypeOK, NEW c \in Connections, NEW j, job' = [job EXCEPT ![c] = j]
  PROVE  /\ job'[c] = j /\ \A x \in Connections \ {c} : job'[x] = job[x]
         /\ c \notin Writing /\ j.pc \notin WritePcs => Writing' = Writing
         /\ j.pc \in WritePcs => Writing' = Writing \cup {c}
         /\ j.pc \notin WritePcs => Writing' = Writing \ {c}
         /\ c \notin Digging /\ j.pc \notin {"found", "tombstoned"} =>
              Digging' = Digging /\ \A x \in Digging : job'[x] = job[x]
         /\ j.pc \notin {"found", "tombstoned"} =>
              Digging' \subseteq Digging /\ \A x \in Digging' : job'[x] = job[x]
         /\ Digging' \subseteq Digging \cup {c}
         /\ \A x \in Digging' \ {c} : x \in Digging /\ job'[x] = job[x]
  <1>1. job'[c] = j /\ \A x \in Connections \ {c} : job'[x] = job[x]
    BY JobStep
  <1>2. \A x \in Connections \ {c} : (x \in Writing' <=> x \in Writing) /\ (x \in Digging' <=> x \in Digging)
    BY <1>1 DEF Writing, Digging
  <1>3. (c \in Writing' <=> j.pc \in WritePcs) /\ (c \in Digging' <=> j.pc \in {"found", "tombstoned"})
    BY <1>1 DEF Writing, Digging
  <1>4. Writing \subseteq Connections /\ Digging \subseteq Connections
    BY DEF Writing, Digging
  <1>5. Writing' \subseteq Connections /\ Digging' \subseteq Connections
    BY DEF Writing, Digging
  <1>6. QED
    BY <1>1, <1>2, <1>3, <1>4, <1>5

\* The histories only grow.
LEMMA HistoryGrows ==
  ASSUME TypeOK, [Next]_vars, ~crossed', ~torn'
  PROVE  ~crossed /\ ~torn
  <1>t. crossed \in BOOLEAN /\ torn \in BOOLEAN
    BY DEF TypeOK
  <1>h. ASSUME UNCHANGED History PROVE ~crossed /\ ~torn
    BY <1>h DEF History
  <1>c. ASSUME NEW overlap, Crosses(overlap) PROVE ~crossed /\ ~torn
    BY <1>c, <1>t DEF Crosses
  <1>1. ASSUME NEW c, NEW e, Insert(c, e) PROVE ~crossed /\ ~torn
    BY <1>1, <1>c DEF Insert
  <1>2. ASSUME NEW c, RollUp(c) \/ ReadLink(c) \/ Stamp(c) \/ Advance(c) PROVE ~crossed /\ ~torn
    <2>1. UNCHANGED History
      BY <1>2 DEF RollUp, ReadLink, Stamp, Advance
    <2>2. QED
      BY <2>1, <1>h
  <1>3. ASSUME NEW c, Begin(c) PROVE ~crossed /\ ~torn
    BY <1>3, <1>c DEF Begin
  <1>4. ASSUME NEW c, NEW e, WriteInBatch(c, e) PROVE ~crossed /\ ~torn
    BY <1>4 DEF WriteInBatch
  <1>5. ASSUME NEW c, Commit(c) \/ Rollback(c) PROVE ~crossed /\ ~torn
    <2>1. UNCHANGED History
      BY <1>5 DEF Commit, Rollback
    <2>2. QED
      BY <2>1, <1>h
  <1>6. ASSUME NEW c, NEW force, Match(c, force) PROVE ~crossed /\ ~torn
    BY <1>6 DEF Match
  <1>7. ASSUME NEW c, NEW e, Lookup(c, e) PROVE ~crossed /\ ~torn
    BY <1>7, <1>c DEF Lookup
  <1>8. ASSUME NEW c, Entomb(c) \/ Remove(c) \/ \E e \in Events : Resolve(c, e) PROVE ~crossed /\ ~torn
    <2>1. UNCHANGED History
      BY <1>8 DEF Entomb, Remove, Resolve
    <2>2. QED
      BY <2>1, <1>h
  <1>9. ASSUME NEW c, Abort(c) PROVE ~crossed /\ ~torn
    BY <1>9, <1>t DEF Abort
  <1>10. CASE UNCHANGED vars
    BY <1>10 DEF vars
  <1>11. QED
    BY <1>1, <1>2, <1>3, <1>4, <1>5, <1>6, <1>7, <1>8, <1>9, <1>10, Zenon DEF Next, Write, Batch, Delete

\* With no autocommit write under way, Chained is about db and the draft.
LEMMA QuietChain ==
  ASSUME (~db.reused)' => Writing' = {} /\ Links(db', {}) /\ EndsAt(db') /\ LinksRead(db)',
         lock' # NoConnection => Writing' = {} /\ (~draft'.reused => DraftInv')
  PROVE  Chained'
  <1>1. Writing' = {} => Pending' = {}
    BY DEF Pending
  <1>2. Writing' = {} => WriterInv'
    BY DEF WriterInv
  <1>3. QED
    BY <1>1, <1>2 DEF Chained, Links, EndsAt, LinksRead, Linked, Base, HashAt

\* A writer keeps what it knows when others change neither its row, which no
\* delete has looked up, nor the hash before it.
LEMMA WriterStays ==
  ASSUME WriterInv, Writing' = Writing, \A x \in Writing : job'[x] = job[x],
         db'.high = db.high, db'.last = db.last,
         \A x \in Writing : /\ job[x].row \in DOMAIN db'.rows \ DOMAIN db'.tombs
                            /\ job[x].row \notin LookedUp'
                            /\ db'.rows[job[x].row].event = db.rows[job[x].row].event
                            /\ db'.rows[job[x].row].hash = db.rows[job[x].row].hash
                            /\ Base(db', job[x].row) = Base(db, job[x].row)
  PROVE  WriterInv'
  <1> SUFFICES ASSUME NEW x \in Writing
               PROVE  /\ Writing' = {x}
                      /\ job'[x].row = db'.high
                      /\ job'[x].row \in DOMAIN db'.rows \ DOMAIN db'.tombs
                      /\ job'[x].row \notin LookedUp'
                      /\ db'.rows[job'[x].row].event = job'[x].event
                      /\ db'.last = Base(db', job'[x].row)
                      /\ job'[x].pc \in {"linked", "stamped"} => job'[x].link = db'.last
                      /\ job'[x].pc = "stamped" =>
                           db'.rows[job'[x].row].hash = compute_hash(job'[x].link, job'[x].event)
    BY DEF WriterInv, Base, HashAt
  <1>1. QED
    BY DEF WriterInv

LEMMA ChainStep ==
  ASSUME EntombInv, EntombInv', Chained, [Next]_vars, ~crossed', ~torn'
  PROVE  Chained'
  <1>t. TypeOK /\ TypeOK' /\ IsDb(db) /\ IsDb(draft) /\ IsDb(db') /\ IsDb(draft')
    BY DEF EntombInv, TypeOK
  <1>d. /\ Entombed(db) /\ (lock # NoConnection => Entombed(draft))
        /\ \A x \in Digging : job[x].row \in 1..db.high
    BY DEF EntombInv
  <1>h. db.high \in Nat /\ draft.high \in Nat
    BY <1>t, DbFields
  <1>j. ASSUME NEW c \in Connections
        PROVE  /\ job[c].row \in RowIds \cup {0}
               /\ job[c].link \in Hash
               /\ job[c].pc \notin {"idle", "batch", "deleting"} =>
                    job[c].event \in Events /\ job[c].row \in RowIds
    BY <1>t DEF TypeOK, Job
  <1>g. ASSUME ~db.reused
        PROVE  /\ WriterInv /\ Links(db, Pending) /\ LinksRead(db)
               /\ Writing = {} => Pending = {} /\ Links(db, {}) /\ EndsAt(db)
    BY <1>g DEF Chained, Pending
  <1>l. lock # NoConnection => Writing = {} /\ (~draft.reused => DraftInv)
    BY DEF Chained
  <1>w. ASSUME ~db.reused, NEW c \in Connections, job[c].pc \in WritePcs
        PROVE  /\ Writing = {c} /\ Pending = {job[c].row}
               /\ job[c].row = db.high
               /\ job[c].row \in DOMAIN db.rows /\ job[c].row \notin DOMAIN db.tombs
               /\ job[c].row \notin LookedUp
               /\ db.rows[job[c].row].event = job[c].event
               /\ db.last = Base(db, job[c].row)
               /\ job[c].pc \in {"linked", "stamped"} => job[c].link = db.last
               /\ job[c].pc = "stamped" => db.rows[job[c].row].hash
                                             = compute_hash(job[c].link, job[c].event)
               /\ Links(db, {job[c].row}) /\ LinksRead(db)
    <2>1. c \in Writing
      BY <1>w DEF Writing
    <2>2. Writing = {c}
      BY <1>g, <1>w, <2>1 DEF WriterInv
    <2>3. Pending = {job[c].row}
      BY <2>2 DEF Pending
    <2>4. QED
      BY <1>g, <1>w, <2>1, <2>2, <2>3 DEF WriterInv
  \* A step of an autocommit writer from one statement to the next.
  <1>b. ASSUME NEW c \in Connections, job[c].pc \in WritePcs, NEW j, job' = [job EXCEPT ![c] = j],
               j.pc \notin {"found", "tombstoned"}
        PROVE  /\ lock = NoConnection
               /\ job'[c] = j /\ Digging' = Digging /\ \A x \in Digging : job'[x] = job[x]
               /\ LookedUp' = LookedUp
               /\ ~db.reused /\ j.pc \in WritePcs => Writing' = {c} /\ Pending' = {j.row}
               /\ ~db.reused /\ j.pc \notin WritePcs => Writing' = {}
    <2>1. c \in Writing /\ c \notin Digging
      BY <1>b DEF Writing, Digging, WritePcs
    <2>2. /\ Digging' = Digging /\ job'[c] = j /\ \A x \in Digging : job'[x] = job[x]
          /\ j.pc \in WritePcs => Writing' = Writing \cup {c}
          /\ j.pc \notin WritePcs => Writing' = Writing \ {c}
      BY <1>t, <1>b, <2>1, JobSets
    <2>4. LookedUp' = LookedUp
      BY <2>2 DEF LookedUp
    <2>5. ~db.reused => Writing = {c}
      BY <1>b, <1>w
    <2>6. ~db.reused /\ j.pc \in WritePcs => Writing' = {c} /\ Pending' = {j.row}
      BY <2>2, <2>5 DEF Pending
    <2>7. lock = NoConnection
      BY <1>l, <2>1
    <2>8. QED
      BY <2>2, <2>4, <2>5, <2>6, <2>7
  <1>1. ASSUME NEW c \in Connections, NEW e \in Events, Insert(c, e)
        PROVE  Chained'
    <2> DEFINE j(n) == [Idle EXCEPT !.pc = "inserted", !.event = e, !.row = n]
    <2>1. PICK n \in RowIds : IsNextRowId(db, n) /\ Execute(c, InsertRow(db, n, e), j(n))
      BY <1>1 DEF Insert
    <2>2. /\ job[c].pc = "idle" /\ job' = [job EXCEPT ![c] = j(n)]
          /\ lock' = NoConnection /\ Writing = {}
      BY <1>1, <2>1 DEF Insert, Execute, Crosses
    <2>3. j(n).pc = "inserted" /\ j(n).event = e /\ j(n).row = n
      BY DEF Idle
    <2> HIDE DEF j
    <2>5. /\ DOMAIN db'.rows = DOMAIN db.rows \cup {n}
          /\ db'.rows[n].event = e
          /\ \A i \in DOMAIN db.rows \ {n} : db'.rows[i] = db.rows[i]
          /\ db'.tombs = db.tombs
          /\ db'.last = db.last
          /\ db'.high = IF n > db.high THEN n ELSE db.high
          /\ db'.reused = (db.reused \/ n <= db.high)
      BY <1>t, <2>1, InsertRowFacts DEF Execute
    <2>6. /\ job'[c] = j(n) /\ Writing' = {c} /\ Digging' = Digging
          /\ \A x \in Digging : job'[x] = job[x]
      <3>1. c \notin Digging
        BY <2>2 DEF Digging
      <3>2. j(n).pc \in WritePcs /\ j(n).pc \notin {"found", "tombstoned"}
        BY <2>3 DEF WritePcs
      <3>3. QED
        BY <1>t, <2>2, <3>1, <3>2, JobSets
    <2>7. Pending' = {n} /\ LookedUp' = LookedUp
      BY <2>3, <2>6 DEF Pending, LookedUp
    <2>8. ASSUME ~db'.reused
          PROVE  /\ ~db.reused
                 /\ n = db.high + 1 /\ n \notin DOMAIN db.rows /\ n \notin DOMAIN db.tombs
                 /\ \A i \in 1..db.high : HashAt(db', i) = HashAt(db, i)
                 /\ Base(db', n) = db.last
                 /\ Links(db', {n})
      <3>1. ~db.reused /\ ~(n <= db.high)
        BY <2>5, <2>8
      <3>2. Links(db, {}) /\ EndsAt(db)
        BY <1>g, <2>2, <3>1
      <3>3. QED
        BY <1>t, <1>d, <2>1, <2>5, <3>1, <3>2, InsertLinks
    <2>9. ~db'.reused => db'.high = n /\ n \notin LookedUp
      BY <1>d, <1>h, <2>5, <2>8 DEF LookedUp
    <2>10. ~db'.reused => WriterInv'
      <3> SUFFICES ASSUME ~db'.reused, NEW x \in Writing'
                   PROVE  /\ Writing' = {x}
                          /\ job'[x].row = db'.high
                          /\ job'[x].row \in DOMAIN db'.rows \ DOMAIN db'.tombs
                          /\ job'[x].row \notin LookedUp'
                          /\ db'.rows[job'[x].row].event = job'[x].event
                          /\ db'.last = Base(db', job'[x].row)
                          /\ job'[x].pc = "inserted"
        BY DEF WriterInv, Base, HashAt
      <3>1. x = c
        BY <2>6
      <3>2. QED
        BY <2>3, <2>5, <2>6, <2>7, <2>8, <2>9, <3>1
    <2>11. ~db'.reused => LinksRead(db)'
      <3> SUFFICES ASSUME ~db'.reused, NEW x \in Digging PROVE HashAt(db', job[x].row) = job[x].link
        BY <2>6 DEF LinksRead, HashAt
      <3>1. job[x].row \in 1..db.high /\ HashAt(db, job[x].row) = job[x].link
        BY <1>d, <1>g, <2>8 DEF LinksRead
      <3>2. QED
        BY <2>8, <3>1
    <2>12. QED
      BY <2>2, <2>6, <2>7, <2>8, <2>10, <2>11 DEF Chained, Links, Linked, Base, HashAt
  <1>2. ASSUME NEW c \in Connections, RollUp(c) \/ ReadLink(c)
        PROVE  Chained'
    <2>1. /\ db'.rows = db.rows /\ db'.tombs = db.tombs /\ db'.last = db.last
          /\ db'.high = db.high /\ db'.reused = db.reused
      <3>1. CASE RollUp(c)
        <4>1. db' = update_fingerprint(db, job[c].event) /\ job[c].event \in Events
          BY <1>j, <3>1 DEF RollUp, Execute
        <4>2. QED
          BY <1>t, <4>1, UpdateFingerprintFacts DEF SameChain
      <3>2. QED
        BY <1>2, <3>1 DEF ReadLink
    <2>2. job[c].pc \in WritePcs
      BY <1>2 DEF RollUp, ReadLink, WritePcs
    <2>3. PICK j : /\ job' = [job EXCEPT ![c] = j] /\ j.pc \in {"rolledUp", "linked"}
                   /\ j.row = job[c].row /\ j.event = job[c].event
                   /\ j.pc = "linked" => j.link = db.last
      <3>1. CASE RollUp(c)
        <4>1. PICK j : j = [job[c] EXCEPT !.pc = "rolledUp"]
          OBVIOUS
        <4>2. job' = [job EXCEPT ![c] = j] /\ j.pc = "rolledUp" /\ j.row = job[c].row /\ j.event = job[c].event
          BY <1>t, <3>1, <4>1 DEF RollUp, Execute, TypeOK, Job
        <4>3. QED
          BY <4>2
      <3>2. CASE ReadLink(c)
        <4>1. PICK j : j = [job[c] EXCEPT !.pc = "linked", !.link = db.last]
          OBVIOUS
        <4>2. /\ job' = [job EXCEPT ![c] = j] /\ j.pc = "linked" /\ j.row = job[c].row /\ j.event = job[c].event
              /\ j.link = db.last
          BY <1>t, <3>2, <4>1 DEF ReadLink, TypeOK, Job
        <4>3. QED
          BY <4>2
      <3>3. QED
        BY <1>2, <3>1, <3>2
    <2>4. j.pc \in WritePcs /\ j.pc \notin {"found", "tombstoned"} /\ j.pc # "stamped"
      BY <2>3 DEF WritePcs
    <2>5. /\ lock = NoConnection /\ job'[c] = j /\ Digging' = Digging /\ LookedUp' = LookedUp
          /\ \A x \in Digging : job'[x] = job[x]
          /\ ~db.reused => Writing' = {c} /\ Pending' = {job[c].row}
      BY <1>b, <2>2, <2>3, <2>4
    <2>6. lock' = NoConnection
      BY <1>2, <2>5 DEF RollUp, ReadLink, Execute
    <2>7. ASSUME ~db'.reused
          PROVE  WriterInv' /\ Links(db', Pending') /\ LinksRead(db)' /\ Writing' # {}
      <3>1. ~db.reused
        BY <2>1, <2>7
      <3>2. WriterInv'
        BY <1>w, <2>1, <2>2, <2>3, <2>4, <2>5, <3>1 DEF WriterInv, Base, HashAt
      <3>3. Links(db', {job[c].row})
        BY <1>w, <2>1, <2>2, <3>1 DEF Links, Linked, Base, HashAt
      <3>4. LinksRead(db)'
        <4> SUFFICES ASSUME NEW x \in Digging PROVE HashAt(db', job[x].row) = job[x].link
          BY <2>5 DEF LinksRead, HashAt
        <4>1. HashAt(db, job[x].row) = job[x].link
          BY <1>w, <2>2, <3>1 DEF LinksRead
        <4>2. QED
          BY <2>1, <4>1 DEF HashAt
      <3>5. QED
        BY <2>5, <3>1, <3>2, <3>3, <3>4
    <2>8. QED
      BY <2>6, <2>7 DEF Chained, Links, Linked, Base, HashAt
  <1>4. ASSUME NEW c \in Connections, Stamp(c)
        PROVE  Chained'
    <2> DEFINE n == job[c].row
               h == compute_hash(job[c].link, job[c].event)
               j == [job[c] EXCEPT !.pc = "stamped"]
    <2>1. /\ job[c].pc = "linked" /\ job[c].pc \in WritePcs
          /\ lock' = NoConnection /\ db' = SetHash(db, n, h) /\ job' = [job EXCEPT ![c] = j]
      BY <1>4 DEF Stamp, WritePcs, Execute
    <2>2. n \in RowIds /\ h \in Hash
      BY <1>j, <2>1, HashFacts
    <2>3. /\ j.pc = "stamped" /\ j.row = n /\ j.event = job[c].event /\ j.link = job[c].link
      BY <1>t DEF TypeOK, Job
    <2> HIDE DEF n, h, j
    <2>4. /\ DOMAIN db'.rows = DOMAIN db.rows
          /\ n \in DOMAIN db.rows => db'.rows[n].hash = h
          /\ \A i \in DOMAIN db.rows : db'.rows[i].event = db.rows[i].event
          /\ \A i \in DOMAIN db.rows \ {n} : db'.rows[i] = db.rows[i]
          /\ db'.tombs = db.tombs
          /\ db'.last = db.last
          /\ db'.high = db.high
          /\ db'.reused = db.reused
      BY <1>t, <2>1, <2>2, SetHashFacts
    <2>5. /\ job'[c] = j /\ Digging' = Digging /\ LookedUp' = LookedUp
          /\ \A x \in Digging : job'[x] = job[x]
          /\ ~db.reused => Writing' = {c} /\ Pending' = {n}
      <3>1. j.pc \in WritePcs /\ j.pc \notin {"found", "tombstoned"}
        BY <2>3 DEF WritePcs
      <3>2. QED
        BY <1>b, <2>1, <2>3, <3>1
    <2>6. ASSUME ~db'.reused
          PROVE  /\ ~db.reused /\ LinksRead(db)
                 /\ n = db.high /\ n \in DOMAIN db.rows /\ n \notin DOMAIN db.tombs
                 /\ n \notin LookedUp
                 /\ db.rows[n].event = job[c].event
                 /\ db.last = Base(db, n)
                 /\ job[c].link = db.last
                 /\ Links(db, {n})
      BY <1>w, <2>1, <2>4, <2>6 DEF n
    <2>7. ASSUME ~db'.reused, NEW i \in DOMAIN db'.rows
          PROVE  Base(db', i) = Base(db, i)
      <3>1. n = db.high /\ i <= db.high /\ i \in Nat
        BY <1>d, <1>h, <2>4, <2>6, <2>7 DEF Entombed
      <3>2. i - 1 # n
        BY <1>h, <3>1
      <3>3. QED
        BY <2>4, <3>2 DEF Base, HashAt
    <2>8. ~db'.reused => WriterInv'
      <3> SUFFICES ASSUME ~db'.reused, NEW x \in Writing'
                   PROVE  /\ Writing' = {x}
                          /\ job'[x].row = db'.high
                          /\ job'[x].row \in DOMAIN db'.rows \ DOMAIN db'.tombs
                          /\ job'[x].row \notin LookedUp'
                          /\ db'.rows[job'[x].row].event = job'[x].event
                          /\ db'.last = Base(db', job'[x].row)
                          /\ job'[x].link = db'.last
                          /\ db'.rows[job'[x].row].hash
                               = compute_hash(job'[x].link, job'[x].event)
        BY DEF WriterInv, Base, HashAt
      <3>1. x = c
        BY <2>5, <2>6
      <3>2. QED
        BY <2>3, <2>4, <2>5, <2>6, <2>7, <3>1 DEF h
    <2>9. ~db'.reused => Links(db', {n})
      <3> SUFFICES ASSUME ~db'.reused
                   PROVE  Links(db', {n})
        OBVIOUS
      <3>1. \A i \in DOMAIN db'.rows \ {n} : Linked(db', i)
        BY <2>4, <2>6, <2>7 DEF Links, Linked
      <3>2. QED
        BY <2>4, <2>6, <3>1 DEF Links
    <2>10. ~db'.reused => LinksRead(db)'
      <3> SUFFICES ASSUME ~db'.reused, NEW x \in Digging PROVE HashAt(db', job[x].row) = job[x].link
        BY <2>5 DEF LinksRead, HashAt
      <3>1. job[x].row # n /\ HashAt(db, job[x].row) = job[x].link
        BY <2>6 DEF LinksRead, LookedUp
      <3>2. QED
        BY <2>4, <3>1 DEF HashAt
    <2>11. QED
      BY <2>1, <2>5, <2>6, <2>8, <2>9, <2>10 DEF Chained, Links, Linked, Base, HashAt
  <1>5. ASSUME NEW c \in Connections, Advance(c)
        PROVE  Chained'
    <2> DEFINE n == job[c].row
               h == compute_hash(job[c].link, job[c].event)
    <2>1. /\ job[c].pc = "stamped" /\ job[c].pc \in WritePcs
          /\ lock' = NoConnection /\ db' = set_last_hash(db, h)
          /\ job' = [job EXCEPT ![c] = Idle]
      BY <1>5 DEF Advance, WritePcs, Execute
    <2>2. h \in Hash
      BY <1>j, <2>1, HashFacts
    <2> HIDE DEF n, h
    <2>3. /\ db'.rows = db.rows /\ db'.tombs = db.tombs /\ db'.last = h
          /\ db'.high = db.high /\ db'.reused = db.reused
      BY <1>t, <2>1, <2>2, SetLastHashFacts
    <2>4. Idle.pc \notin WritePcs /\ Idle.pc \notin {"found", "tombstoned"}
      BY DEF Idle, WritePcs
    <2>5. /\ Digging' = Digging /\ \A x \in Digging : job'[x] = job[x]
          /\ ~db.reused => Writing' = {}
      BY <1>b, <2>1, <2>4
    <2>6. ASSUME ~db'.reused
          PROVE  Writing' = {} /\ Links(db', {}) /\ EndsAt(db') /\ LinksRead(db)'
      <3>1. /\ n = db.high /\ n \in DOMAIN db.rows
            /\ db.rows[n].event = job[c].event
            /\ db.last = Base(db, n) /\ job[c].link = db.last
            /\ db.rows[n].hash = h
            /\ Links(db, {n}) /\ LinksRead(db)
        BY <1>w, <2>1, <2>3, <2>6 DEF n, h
      <3>2. n \in Nat /\ n >= 1 /\ (n = 1 \/ n - 1 \in DOMAIN db.rows \cup DOMAIN db.tombs)
        BY <1>d, <1>h, <3>1 DEF Entombed
      <3>3. Linked(db, n)
        BY <3>1, <3>2 DEF Linked, h
      <3>4. Links(db', {})
        BY <2>3, <3>1, <3>3 DEF Links, Linked, Base, HashAt
      <3>5. EndsAt(db')
        BY <2>3, <3>1, <3>2 DEF EndsAt
      <3>6. LinksRead(db)'
        BY <2>3, <2>5, <3>1 DEF LinksRead, HashAt
      <3>7. QED
        BY <2>3, <2>5, <2>6, <3>4, <3>5, <3>6
    <2>7. QED
      BY <2>1, <2>6, QuietChain
  <1>6. ASSUME NEW c \in Connections, Begin(c)
        PROVE  Chained'
    <2> DEFINE j == [job[c] EXCEPT !.pc = "batch"]
    <2>1. /\ job' = [job EXCEPT ![c] = j] /\ draft' = db /\ db' = db /\ job[c].pc = "idle"
          /\ Writing = {}
      BY <1>6 DEF Begin, Crosses
    <2>2. j.pc = "batch" /\ j.pc \notin WritePcs
      BY <1>t DEF TypeOK, Job, WritePcs
    <2> HIDE DEF j
    <2>3. Writing' = {} /\ Digging' \subseteq Digging /\ \A x \in Digging' : job'[x] = job[x]
      <3>1. Writing' = Writing \ {c}
        BY <1>t, <2>1, <2>2, JobSets
      <3>2. j.pc \notin {"found", "tombstoned"}
        BY <2>2
      <3>3. QED
        BY <1>t, <2>1, <3>1, <3>2, JobSets
    <2>4. ~db.reused => Links(db, {}) /\ EndsAt(db) /\ LinksRead(db)
      BY <1>g, <2>1
    <2>5. LinksRead(db) => LinksRead(db)' /\ LinksRead(draft)'
      BY <2>1, <2>3 DEF LinksRead, HashAt
    <2>6. ~draft'.reused => DraftInv'
      BY <2>1, <2>4, <2>5 DEF DraftInv, Links, EndsAt, Linked, Base, HashAt
    <2>7. QED
      BY <2>1, <2>3, <2>4, <2>5, <2>6, QuietChain
  <1>7. ASSUME NEW c \in Connections, NEW e \in Events, WriteInBatch(c, e)
        PROVE  Chained'
    <2> DEFINE h == compute_hash(draft.last, e)
    <2>1. PICK n \in RowIds : IsNextRowId(draft, n) /\ draft' = write_event(draft, n, e)
      BY <1>7 DEF WriteInBatch
    <2>2. /\ lock # NoConnection /\ db' = db /\ lock' = lock /\ job' = job
      BY <1>7, RolesAssumption DEF WriteInBatch
    <2>3. /\ DOMAIN draft'.rows = DOMAIN draft.rows \cup {n}
          /\ draft'.rows[n].event = e
          /\ draft'.rows[n].hash = h
          /\ \A i \in DOMAIN draft.rows \ {n} : draft'.rows[i] = draft.rows[i]
          /\ draft'.tombs = draft.tombs
          /\ draft'.last = h
          /\ draft'.high = IF n > draft.high THEN n ELSE draft.high
          /\ draft'.reused = (draft.reused \/ n <= draft.high)
      BY <1>t, <2>1, WriteEventFacts
    <2> HIDE DEF h
    <2>4. /\ Writing = {} /\ Writing' = {} /\ Digging' = Digging
      BY <1>l, <2>2 DEF Writing, Digging
    <2>5. ~db.reused => Links(db, {}) /\ EndsAt(db) /\ LinksRead(db)
      BY <1>g, <2>4
    <2>6. ASSUME ~draft'.reused
          PROVE  /\ DraftInv /\ ~(n <= draft.high)
                 /\ n \notin DOMAIN draft.rows
                 /\ \A i \in DOMAIN db.rows : /\ i \in DOMAIN draft'.rows
                                             /\ draft'.rows[i].hash = db.rows[i].hash
      <3>1. ~draft.reused /\ ~(n <= draft.high)
        BY <2>3, <2>6
      <3>2. n \notin DOMAIN draft.rows
        BY <1>d, <1>h, <2>2, <3>1 DEF Entombed
      <3>3. QED
        BY <1>l, <2>2, <2>3, <3>1, <3>2 DEF DraftInv
    <2>7. ASSUME ~draft'.reused
          PROVE  Links(draft', {}) /\ EndsAt(draft') /\ LinksRead(draft)'
      <3>1. Links(draft, {}) /\ EndsAt(draft) /\ LinksRead(draft)
        BY <2>6, <2>7 DEF DraftInv
      <3>2. /\ n = draft.high + 1 /\ n \notin DOMAIN draft.tombs
            /\ \A i \in 1..draft.high : HashAt(draft', i) = HashAt(draft, i)
            /\ Base(draft', n) = draft.last
            /\ n = 1 \/ n - 1 \in DOMAIN draft'.rows \cup DOMAIN draft'.tombs
            /\ Links(draft', {n})
        <4>1. IsDb(draft) /\ Entombed(draft) /\ IsNextRowId(draft, n) /\ ~(n <= draft.high)
          BY <1>t, <1>d, <2>1, <2>2, <2>6, <2>7
        <4>2. /\ DOMAIN draft'.rows = DOMAIN draft.rows \cup {n} /\ draft'.tombs = draft.tombs
              /\ \A i \in DOMAIN draft.rows \ {n} : draft'.rows[i] = draft.rows[i]
          BY <2>3
        <4>3. QED
          BY <3>1, <4>1, <4>2, InsertLinks
      <3>3. Linked(draft', n)
        BY <2>3, <3>2 DEF Linked, h
      <3>4. Links(draft', {})
        BY <3>2, <3>3 DEF Links
      <3>5. EndsAt(draft')
        BY <1>h, <2>3, <3>2 DEF EndsAt
      <3>6. \A x \in Digging : job[x].row \in 1..draft.high
        BY <1>h, <2>2 DEF EntombInv
      <3>7. LinksRead(draft)'
        BY <2>2, <2>4, <3>1, <3>2, <3>6 DEF LinksRead, HashAt
      <3>8. QED
        BY <3>4, <3>5, <3>7
    <2>8. ~draft'.reused => DraftInv'
      BY <2>2, <2>4, <2>6, <2>7 DEF DraftInv, Links, EndsAt, Linked, Base, HashAt
    <2>9. LinksRead(db) => LinksRead(db)'
      BY <2>2, <2>4 DEF LinksRead, HashAt
    <2>10. QED
      BY <2>2, <2>4, <2>5, <2>8, <2>9, QuietChain
  <1>8. ASSUME NEW c \in Connections, Commit(c) \/ Rollback(c)
        PROVE  Chained'
    <2>1. /\ job' = [job EXCEPT ![c] = Idle] /\ (db' = draft \/ db' = db)
          /\ lock # NoConnection /\ lock' = NoConnection
      BY <1>8, RolesAssumption DEF Commit, Rollback
    <2>2. Idle.pc = "idle" /\ Idle.pc \notin WritePcs
      BY DEF Idle, WritePcs
    <2>3. Writing' = {} /\ Writing = {} /\ Digging' \subseteq Digging /\ \A x \in Digging' : job'[x] = job[x]
      <3>1. Writing' = Writing \ {c} /\ Writing = {}
        BY <1>l, <1>t, <2>1, <2>2, JobSets
      <3>2. Idle.pc \notin {"found", "tombstoned"}
        BY <2>2
      <3>3. QED
        BY <1>t, <2>1, <3>1, <3>2, JobSets
    <2>4. ~draft.reused => Links(draft, {}) /\ EndsAt(draft) /\ LinksRead(draft)
      BY <1>l, <2>1 DEF DraftInv
    <2>5. ~db.reused => Links(db, {}) /\ EndsAt(db) /\ LinksRead(db)
      BY <1>g, <2>3
    <2>6. CASE db' = draft
      <3>1. LinksRead(draft) => LinksRead(db)'
        BY <2>3, <2>6 DEF LinksRead, HashAt
      <3>2. QED
        BY <2>1, <2>3, <2>4, <2>6, <3>1, QuietChain
    <2>7. CASE db' = db
      <3>1. LinksRead(db) => LinksRead(db)'
        BY <2>3, <2>7 DEF LinksRead, HashAt
      <3>2. QED
        BY <2>1, <2>3, <2>5, <2>7, <3>1, QuietChain
    <2>8. QED
      BY <2>1, <2>6, <2>7
  \* A step that writes nothing, of a connection that is in no autocommit write.
  <1>r. ASSUME NEW c \in Connections, NEW j,
               job' = [job EXCEPT ![c] = j], UNCHANGED <<db, draft, lock>>,
               job[c].pc \notin WritePcs, j.pc \notin WritePcs,
               \/ j.pc \notin {"found", "tombstoned"}
               \/ j.row \in DOMAIN db.rows /\ j.link = db.rows[j.row].hash /\ j.row \notin Pending
        PROVE  Chained'
    <2>1. /\ Writing' = Writing /\ c \notin Writing
          /\ \A x \in Digging' \ {c} : x \in Digging /\ job'[x] = job[x]
          /\ job'[c] = j /\ \A x \in Connections \ {c} : job'[x] = job[x]
      <3>1. c \notin Writing
        BY <1>r DEF Writing
      <3>2. QED
        BY <1>t, <1>r, <3>1, JobSets
    <2>2. Pending' = Pending /\ \A x \in Writing : job'[x] = job[x]
      BY <2>1 DEF Pending, Writing
    <2>3. ASSUME NEW x \in Digging'
          PROVE  \/ x \in Digging /\ job'[x] = job[x]
                 \/ /\ job'[x] = j /\ j.row \in DOMAIN db.rows /\ j.link = db.rows[j.row].hash
                    /\ j.row \notin Pending
      BY <1>r, <2>1 DEF Digging
    <2>4. ASSUME NEW d, LinksRead(d),
                 \A i \in DOMAIN db.rows : i \in DOMAIN d.rows /\ d.rows[i].hash = db.rows[i].hash
          PROVE  \A x \in Digging' : HashAt(d, job'[x].row) = job'[x].link
      BY <2>3, <2>4 DEF LinksRead, HashAt
    <2>5. LinksRead(db) => LinksRead(db)'
      BY <1>r, <2>4 DEF LinksRead, HashAt
    <2>6. DraftInv => DraftInv'
      <3> SUFFICES ASSUME DraftInv PROVE DraftInv'
        OBVIOUS
      <3>1. LinksRead(draft)'
        BY <1>r, <2>4 DEF DraftInv, LinksRead, HashAt
      <3>2. QED
        BY <1>r, <3>1 DEF DraftInv, Links, EndsAt, Linked, Base, HashAt
    <2>7. WriterInv => WriterInv'
      <3> SUFFICES ASSUME WriterInv PROVE WriterInv'
        OBVIOUS
      <3>1. \A x \in Writing : job[x].row \notin LookedUp'
        <4> SUFFICES ASSUME NEW x \in Writing, NEW y \in Digging', job[x].row = job'[y].row PROVE FALSE
          BY DEF LookedUp
        <4>1. job[x].row \in Pending
          BY DEF Pending
        <4>2. y \in Digging /\ job'[y] = job[y]
          BY <2>3, <4>1
        <4>3. job[x].row \in LookedUp
          BY <4>2 DEF LookedUp
        <4>4. QED
          BY <4>3 DEF WriterInv
      <3>2. \A x \in Writing : job[x].row \in DOMAIN db.rows \ DOMAIN db.tombs
        BY DEF WriterInv
      <3>3. QED
        BY <1>r, <2>1, <2>2, <3>1, <3>2, WriterStays
    <2>8. QED
      BY <1>r, <2>1, <2>2, <2>5, <2>6, <2>7 DEF Chained, Links, EndsAt, Linked, Base, HashAt
  \* A statement of such a connection that changes no row that is being written.
  <1>x. ASSUME NEW c \in Connections, NEW d, NEW j, Execute(c, d, j),
               job[c].pc \notin WritePcs, j.pc \notin WritePcs,
               d.high = db.high, d.last = db.last, d.reused = db.reused,
               DOMAIN d.rows \subseteq DOMAIN db.rows,
               \A i \in DOMAIN d.rows : /\ d.rows[i].event = db.rows[i].event
                                       /\ d.rows[i].hash = db.rows[i].hash,
               ~db.reused =>
                 /\ \A i \in 1..db.high : HashAt(d, i) = HashAt(db, i)
                 /\ \A i \in DOMAIN d.rows \cap DOMAIN d.tombs : d.tombs[i] = d.rows[i].hash
                 /\ \A x \in Writing : job[x].row \in DOMAIN d.rows \ DOMAIN d.tombs,
               \/ j.pc \notin {"found", "tombstoned"}
               \/ c \in Digging /\ j.row = job[c].row /\ j.link = job[c].link
        PROVE  Chained'
    <2>1. db' = d /\ job' = [job EXCEPT ![c] = j] /\ lock' = NoConnection
      BY <1>x DEF Execute
    <2>2. /\ Writing' = Writing /\ c \notin Writing
          /\ job'[c] = j /\ \A x \in Connections \ {c} : job'[x] = job[x]
          /\ \A x \in Digging' \ {c} : x \in Digging /\ job'[x] = job[x]
      <3>1. c \notin Writing
        BY <1>x DEF Writing
      <3>2. QED
        BY <1>t, <1>x, <2>1, <3>1, JobSets
    <2>3. Pending' = Pending /\ \A x \in Writing : job'[x] = job[x]
      BY <2>2 DEF Pending, Writing
    <2>4. ASSUME NEW x \in Digging'
          PROVE  x \in Digging /\ job'[x].row = job[x].row /\ job'[x].link = job[x].link
      BY <1>x, <2>2 DEF Digging
    <2>5. Entombed(d)
      BY <2>1 DEF EntombInv, Entombed
    <2>6. ASSUME ~db.reused
          PROVE  WriterInv' /\ Links(d, Pending) /\ (Writing = {} => EndsAt(d)) /\ LinksRead(db)'
      <3>1. WriterInv /\ Links(db, Pending) /\ LinksRead(db) /\ (Writing = {} => EndsAt(db))
        BY <1>g, <2>6
      <3>2. Links(d, Pending)
        BY <1>t, <1>d, <1>x, <2>5, <2>6, <3>1, SameLinks
      <3>3. Writing = {} => EndsAt(d)
        BY <1>x, <3>1 DEF EndsAt
      <3>4. LinksRead(db)'
        <4> SUFFICES ASSUME NEW x \in Digging'
                     PROVE  HashAt(db', job'[x].row) = job'[x].link
          BY DEF LinksRead, HashAt
        <4>1. job[x].row \in 1..db.high /\ HashAt(db, job[x].row) = job[x].link
          BY <1>d, <2>4, <3>1 DEF LinksRead
        <4>2. QED
          BY <1>x, <2>1, <2>4, <2>6, <4>1
      <3>5. ASSUME NEW x \in Writing
            PROVE  /\ job[x].row \in DOMAIN d.rows \ DOMAIN d.tombs
                   /\ job[x].row \notin LookedUp'
                   /\ d.rows[job[x].row].event = db.rows[job[x].row].event
                   /\ d.rows[job[x].row].hash = db.rows[job[x].row].hash
                   /\ Base(d, job[x].row) = Base(db, job[x].row)
        <4>1. job[x].row \in DOMAIN d.rows \ DOMAIN d.tombs
          BY <1>x, <2>6
        <4>2. job[x].row \notin LookedUp'
          BY <2>4, <3>1 DEF WriterInv, LookedUp
        <4>3. job[x].row = db.high /\ job[x].row \in 1..db.high
          BY <1>d, <1>x, <3>1, <4>1 DEF WriterInv, Entombed
        <4>4. Base(d, job[x].row) = Base(db, job[x].row)
          <5>1. job[x].row = 1 \/ job[x].row - 1 \in 1..db.high
            BY <1>h, <4>3
          <5>2. QED
            BY <1>x, <2>6, <5>1 DEF Base
        <4>5. QED
          BY <1>x, <4>1, <4>2, <4>4
      <3>6. WriterInv'
        BY <1>x, <2>1, <2>2, <2>3, <3>1, <3>5, WriterStays
      <3>7. QED
        BY <3>2, <3>3, <3>4, <3>6
    <2>7. QED
      BY <1>x, <2>1, <2>2, <2>3, <2>6 DEF Chained, Links, EndsAt, Linked, Base, HashAt
  <1>10. ASSUME NEW c \in Connections, NEW e \in Events, Resolve(c, e)
         PROVE  Chained'
    <2>1. PICK i \in DOMAIN db.rows : Execute(c, SetResolved(db, i), Idle)
      BY <1>10 DEF Resolve
    <2> DEFINE d == SetResolved(db, i)
    <2>2. /\ DOMAIN d.rows = DOMAIN db.rows
          /\ \A k \in DOMAIN db.rows : /\ d.rows[k].event = db.rows[k].event
                                       /\ d.rows[k].hash = db.rows[k].hash
          /\ d.tombs = db.tombs /\ d.last = db.last
          /\ d.high = db.high /\ d.reused = db.reused
      BY <1>t, SetResolvedFacts
    <2>3. Execute(c, d, Idle)
      BY <2>1
    <2> HIDE DEF d
    <2>4. Idle.pc = "idle" /\ job[c].pc = "idle" /\ "idle" \notin WritePcs
      BY <1>10 DEF Resolve, Idle, WritePcs
    <2>5. \A k \in 1..db.high : HashAt(d, k) = HashAt(db, k)
      BY <2>2 DEF HashAt
    <2>6. ~db.reused =>
            /\ \A k \in DOMAIN d.rows \cap DOMAIN d.tombs : d.tombs[k] = d.rows[k].hash
            /\ \A x \in Writing : job[x].row \in DOMAIN d.rows \ DOMAIN d.tombs
      BY <1>g, <2>2 DEF Links, WriterInv
    <2>7. QED
      BY <1>x, <2>2, <2>3, <2>4, <2>5, <2>6
  <1>11. ASSUME NEW c \in Connections, NEW force \in BOOLEAN, Match(c, force)
         PROVE  Chained'
    <2>1. PICK ids : job' = [job EXCEPT ![c] = ToDelete(ids)]
      BY <1>11 DEF Match
    <2>2. job[c].pc \notin WritePcs /\ UNCHANGED <<db, draft, lock>>
      BY <1>11 DEF Match, WritePcs
    <2>3. ToDelete(ids).pc \notin WritePcs /\ ToDelete(ids).pc \notin {"found", "tombstoned"}
      BY ToDeletePc DEF WritePcs
    <2>4. QED
      BY <1>r, <2>1, <2>2, <2>3
  <1>12. ASSUME NEW c \in Connections, NEW e \in Events, Lookup(c, e)
         PROVE  Chained'
    <2>1. job[c].pc \notin WritePcs /\ UNCHANGED <<db, draft, lock>>
      BY <1>12 DEF Lookup, WritePcs
    <2>2. CASE \E i \in DOMAIN db.rows :
                 /\ job' = [job EXCEPT ![c].pc = "found", ![c].event = e, ![c].row = i,
                                       ![c].link = db.rows[i].hash]
                 /\ Crosses(i \in Pending)
      <3>1. PICK i \in DOMAIN db.rows :
              /\ job' = [job EXCEPT ![c] = [@ EXCEPT !.pc = "found", !.event = e, !.row = i,
                                                     !.link = db.rows[i].hash]]
              /\ Crosses(i \in Pending)
        BY <2>2
      <3> DEFINE j == [job[c] EXCEPT !.pc = "found", !.event = e, !.row = i,
                                    !.link = db.rows[i].hash]
      <3>2. j.pc = "found" /\ j.row = i /\ j.link = db.rows[i].hash
        BY <1>t DEF TypeOK, Job
      <3>3. job' = [job EXCEPT ![c] = j] /\ i \notin Pending
        BY <3>1 DEF Crosses
      <3> HIDE DEF j
      <3>4. /\ j.pc \notin WritePcs /\ j.row \in DOMAIN db.rows /\ j.link = db.rows[j.row].hash
            /\ j.row \notin Pending
        BY <3>1, <3>2, <3>3 DEF WritePcs
      <3>5. QED
        BY <1>r, <2>1, <3>3, <3>4
    <2>3. CASE job' = [job EXCEPT ![c] = ToDelete(job[c].todo \ {e})]
      <3>1. PICK j : j = ToDelete(job[c].todo \ {e})
        OBVIOUS
      <3>2. j.pc \notin WritePcs /\ j.pc \notin {"found", "tombstoned"}
        BY <3>1, ToDeletePc DEF WritePcs
      <3>3. QED
        BY <1>r, <2>1, <2>3, <3>1, <3>2
    <2>4. QED
      BY <1>12, <2>2, <2>3 DEF Lookup
  <1>13. ASSUME NEW c \in Connections, Entomb(c)
         PROVE  Chained'
    <2> DEFINE n == job[c].row
               d == PutTombstone(db, n, job[c].link)
               j == [job[c] EXCEPT !.pc = "tombstoned"]
    <2>1. c \in Digging /\ n \in LookedUp /\ n \in RowIds /\ job[c].link \in Hash /\ job[c].pc \notin WritePcs
      BY <1>13, <1>j DEF Entomb, Digging, LookedUp, WritePcs
    <2>2. /\ d.rows = db.rows
          /\ DOMAIN d.tombs = DOMAIN db.tombs \cup {n}
          /\ d.tombs[n] = job[c].link
          /\ \A i \in DOMAIN db.tombs \ {n} : d.tombs[i] = db.tombs[i]
          /\ d.last = db.last /\ d.high = db.high /\ d.reused = db.reused
      BY <1>t, <2>1, PutTombstoneFacts
    <2>3. /\ Execute(c, d, j) /\ j.pc \notin WritePcs
          /\ j.row = n /\ j.link = job[c].link
      BY <1>13, <1>t DEF Entomb, TypeOK, Job, WritePcs
    <2> HIDE DEF d, j
    <2>4. ASSUME ~db.reused
          PROVE  /\ \A i \in 1..db.high : HashAt(d, i) = HashAt(db, i)
                 /\ \A i \in DOMAIN d.rows \cap DOMAIN d.tombs : d.tombs[i] = d.rows[i].hash
                 /\ \A x \in Writing : job[x].row \in DOMAIN d.rows \ DOMAIN d.tombs
      <3>1. Links(db, Pending) /\ LinksRead(db) /\ WriterInv
        BY <1>g, <2>4
      <3>2. HashAt(db, n) = job[c].link
        BY <2>1, <3>1 DEF LinksRead
      <3>5. \A x \in Writing : job[x].row \in DOMAIN d.rows \ DOMAIN d.tombs
        <4>1. \A x \in Writing : job[x].row # n
          BY <2>1, <3>1 DEF WriterInv
        <4>2. QED
          BY <2>2, <3>1, <4>1 DEF WriterInv
      <3> HIDE DEF n
      <3>3. \A i \in 1..db.high : HashAt(d, i) = HashAt(db, i)
        BY <1>d, <2>2, <3>2 DEF HashAt, Entombed
      <3>4. \A i \in DOMAIN d.rows \cap DOMAIN d.tombs : d.tombs[i] = d.rows[i].hash
        BY <2>2, <3>1, <3>2 DEF HashAt, Links
      <3>6. QED
        BY <3>3, <3>4, <3>5
    <2>5. QED
      BY <1>x, <2>1, <2>2, <2>3, <2>4
  <1>14. ASSUME NEW c \in Connections, Remove(c)
         PROVE  Chained'
    <2> DEFINE n == job[c].row
               d == DeleteRow(db, n)
               j == ToDelete(job[c].todo \ {job[c].event})
    <2>1. n \in RowIds /\ n \in DOMAIN db.tombs /\ n \in LookedUp /\ job[c].pc \notin WritePcs
      BY <1>14, <1>j DEF Remove, Digging, LookedUp, WritePcs, EntombInv
    <2>2. /\ DOMAIN d.rows = DOMAIN db.rows \ {n}
          /\ \A i \in DOMAIN db.rows \ {n} : d.rows[i] = db.rows[i]
          /\ d.tombs = db.tombs
          /\ d.last = db.last /\ d.high = db.high /\ d.reused = db.reused
      BY <1>t, <2>1, DeleteRowFacts
    <2>3. /\ Execute(c, d, j)
          /\ j.pc \notin WritePcs /\ j.pc \notin {"found", "tombstoned"}
      BY <1>14, ToDeletePc DEF Remove, WritePcs
    <2> HIDE DEF d, j, n
    <2>4. ASSUME ~db.reused
          PROVE  /\ \A i \in 1..db.high : HashAt(d, i) = HashAt(db, i)
                 /\ \A i \in DOMAIN d.rows \cap DOMAIN d.tombs : d.tombs[i] = d.rows[i].hash
                 /\ \A x \in Writing : job[x].row \in DOMAIN d.rows \ DOMAIN d.tombs
      <3>1. WriterInv /\ \A i \in DOMAIN db.rows \cap DOMAIN db.tombs : db.tombs[i] = db.rows[i].hash
        BY <1>g, <2>4 DEF Links
      <3>2. \A x \in Writing : job[x].row \in DOMAIN d.rows \ DOMAIN d.tombs
        BY <2>1, <2>2, <3>1 DEF WriterInv
      <3>3. QED
        BY <2>1, <2>2, <3>1, <3>2 DEF HashAt
    <2>5. /\ DOMAIN d.rows \subseteq DOMAIN db.rows
          /\ \A i \in DOMAIN d.rows : /\ d.rows[i].event = db.rows[i].event
                                      /\ d.rows[i].hash = db.rows[i].hash
      BY <2>2
    <2>6. QED
      BY <1>x, <2>1, <2>2, <2>3, <2>4, <2>5
  <1>15. ASSUME NEW c \in Connections, Abort(c)
         PROVE  Chained'
    <2>1. /\ job' = [job EXCEPT ![c] = Idle] /\ Idle.pc = "idle" /\ UNCHANGED <<db, draft, lock>>
          /\ job[c].pc \notin WritePcs
      BY <1>15 DEF Abort, Idle
    <2>2. QED
      BY <1>r, <2>1 DEF WritePcs
  <1>16. CASE UNCHANGED vars
    BY <1>16 DEF vars, Chained, WriterInv, DraftInv, Links, EndsAt, LinksRead, Linked,
                 Base, HashAt, Pending, LookedUp, Writing, Digging
  <1>17. ASSUME NEW c \in AutocommitWriters, Write(c)
         PROVE  Chained'
    BY <1>1, <1>2, <1>4, <1>5, <1>17, RolesAssumption DEF Write
  <1>18. ASSUME NEW c \in BatchWriters, Batch(c)
         PROVE  Chained'
    BY <1>6, <1>7, <1>8, <1>18, RolesAssumption DEF Batch
  <1>19. ASSUME NEW c \in Maintainers, Delete(c)
         PROVE  Chained'
    BY <1>11, <1>12, <1>13, <1>14, <1>19, RolesAssumption DEF Delete
  <1>20. QED
    BY <1>10, <1>15, <1>16, <1>17, <1>18, <1>19, RolesAssumption DEF Next

(* However many connections write, delete, roll back and die, as long as   *)
(* no autocommit write stopped half way or overlapped another write or the *)
(* delete of its row, and no row id was given twice, doctor --verify-audit *)
(* finds the chain intact.  (audit::verify_chain)                          *)
THEOREM ChainIsVerified == Spec => []ChainVerifies
  <1>1. Init => ChainInv
    <2> SUFFICES ASSUME Init
                 PROVE  ChainInv
      OBVIOUS
    <2>1. EntombInv
      BY InitEntomb
    <2>2. /\ db.high = 0 /\ DOMAIN db.rows = {} /\ DOMAIN db.tombs = {}
          /\ db.last = Genesis
      BY DEF Init, EmptyDb, NoRows
    <2>3. Digging = {} /\ Writing = {} /\ lock = NoConnection
      BY DEF Init, Idle, Digging, Writing, WritePcs
    <2>4. QED
      BY <2>1, <2>2, <2>3 DEF ChainInv, Chained, WriterInv, Links, EndsAt, LinksRead
  <1>2. ChainInv /\ [Next]_vars => ChainInv'
    <2> SUFFICES ASSUME ChainInv, [Next]_vars PROVE ChainInv'
      OBVIOUS
    <2>1. EntombInv /\ EntombInv'
      BY EntombStep DEF ChainInv
    <2>2. ASSUME ~crossed', ~torn' PROVE Chained'
      <3>1. Chained
        BY <2>1, <2>2, HistoryGrows DEF ChainInv, EntombInv
      <3>2. QED
        BY <2>1, <2>2, <3>1, ChainStep
    <2>3. QED
      BY <2>1, <2>2 DEF ChainInv
  <1>3. ChainInv => ChainVerifies
    <2> SUFFICES ASSUME ChainInv, Writing = {}, ~crossed, ~torn, ~db.reused
                 PROVE  verify_chain(db)
      BY DEF ChainVerifies, AppendsChained
    <2>1. Pending = {}
      BY DEF Pending
    <2>2. QED
      BY <2>1 DEF ChainInv, Chained, Links, verify_chain
  <1>4. QED
    BY <1>1, <1>2, <1>3, PTL DEF Spec

-----------------------------------------------------------------------------
(* Only what a delete matched is removed.                                  *)

\* Every row of d is in r, as the row of the same event.
Keeps(d, r) == \A i \in DOMAIN d.rows : i \in DOMAIN r.rows /\ r.rows[i].event = d.rows[i].event

\* A row id that a delete has looked up holds the row of its event, or none.
Found(d) == \A c \in Digging : job[c].row \in DOMAIN d.rows => d.rows[job[c].row].event = job[c].event

OnlyMatched == db.written \ Live(db) \subseteq matched

Matched ==
  /\ OnlyMatched
  /\ \A c \in Connections : job[c].todo \subseteq matched
  /\ \A c \in Digging : job[c].event \in job[c].todo
  /\ Found(db)
  /\ lock # NoConnection => /\ Keeps(db, draft) /\ Found(draft)
                            /\ draft.written \subseteq db.written \cup Live(draft)

MatchInv == TypeOK /\ (~retaken => Matched)

LEMMA KeepsLive ==
  ASSUME NEW d, NEW r, Keeps(d, r)
  PROVE  Live(d) \subseteq Live(r)
  BY DEF Keeps, Live

\* The rows of r that deletes have looked up are rows of d.
Fits(d, r) == \A i \in DOMAIN r.rows : i \in LookedUp => i \in DOMAIN d.rows /\ r.rows[i].event = d.rows[i].event

\* The step gives connection c the job j.
Becomes(c, j) == job' = [job EXCEPT ![c] = j]

LEMMA FoundStays ==
  ASSUME TypeOK, NEW c \in Connections, NEW j, Becomes(c, j),
         NEW d, NEW r, Found(d), Fits(d, r),
         j.pc \in {"found", "tombstoned"} /\ j.row \in DOMAIN r.rows =>
           r.rows[j.row].event = j.event
  PROVE  \A x \in Digging' : job'[x].row \in DOMAIN r.rows => r.rows[job'[x].row].event = job'[x].event
  <1> SUFFICES ASSUME NEW x \in Digging', job'[x].row \in DOMAIN r.rows
               PROVE  r.rows[job'[x].row].event = job'[x].event
    OBVIOUS
  <1>1. job'[c] = j /\ \A y \in Digging' \ {c} : y \in Digging /\ job'[y] = job[y]
    BY JobSets DEF Becomes
  <1>2. CASE x = c
    <2>1. j.pc \in {"found", "tombstoned"}
      BY <1>1, <1>2 DEF Digging
    <2>2. QED
      BY <1>1, <1>2, <2>1
  <1>3. CASE x # c
    <2>1. x \in Digging /\ job'[x] = job[x]
      BY <1>1, <1>3
    <2>2. job[x].row \in LookedUp
      BY <2>1 DEF LookedUp
    <2>3. QED
      BY <2>1, <2>2 DEF Fits, Found
  <1>4. QED
    BY <1>2, <1>3

\* What remains to be shown of a step.
LEMMA MatchKept ==
  ASSUME TypeOK, Matched, NEW c \in Connections, NEW j, job' = [job EXCEPT ![c] = j],
         matched \subseteq matched', j.todo \subseteq matched',
         j.pc \in {"found", "tombstoned"} => j.event \in j.todo,
         OnlyMatched', Found(db)',
         lock' # NoConnection => /\ Keeps(db', draft') /\ Found(draft)'
                                 /\ draft'.written \subseteq db'.written \cup Live(draft')
  PROVE  Matched'
  <1>1. job'[c] = j /\ \A x \in Connections \ {c} : job'[x] = job[x]
    BY JobStep
  <1>2. \A x \in Connections : job'[x].todo \subseteq matched'
    BY <1>1 DEF Matched
  <1>3. ASSUME NEW x \in Digging' PROVE job'[x].event \in job'[x].todo
    BY <1>1 DEF Matched, Digging
  <1>4. QED
    BY <1>2, <1>3 DEF Matched, Keeps, Live

\* The history only grows.
LEMMA RetakenGrows ==
  ASSUME TypeOK, [Next]_vars, ~retaken'
  PROVE  ~retaken
  <1>t. retaken \in BOOLEAN
    BY DEF TypeOK
  <1>h. ASSUME UNCHANGED History PROVE ~retaken
    BY <1>h DEF History
  <1>1. ASSUME NEW c, NEW e, Insert(c, e) \/ WriteInBatch(c, e) PROVE ~retaken
    BY <1>1, <1>t DEF Insert, WriteInBatch
  <1>2. ASSUME NEW c, RollUp(c) \/ ReadLink(c) \/ Stamp(c) \/ Advance(c) PROVE ~retaken
    <2>1. UNCHANGED History
      BY <1>2 DEF RollUp, ReadLink, Stamp, Advance
    <2>2. QED
      BY <2>1, <1>h
  <1>3. ASSUME NEW c, Begin(c) PROVE ~retaken
    BY <1>3 DEF Begin
  <1>5. ASSUME NEW c, Commit(c) \/ Rollback(c) PROVE ~retaken
    <2>1. UNCHANGED History
      BY <1>5 DEF Commit, Rollback
    <2>2. QED
      BY <2>1, <1>h
  <1>6. ASSUME NEW c, NEW force, Match(c, force) PROVE ~retaken
    BY <1>6 DEF Match
  <1>7. ASSUME NEW c, NEW e, Lookup(c, e) PROVE ~retaken
    BY <1>7 DEF Lookup
  <1>8. ASSUME NEW c, Entomb(c) \/ Remove(c) \/ \E e \in Events : Resolve(c, e) PROVE ~retaken
    <2>1. UNCHANGED History
      BY <1>8 DEF Entomb, Remove, Resolve
    <2>2. QED
      BY <2>1, <1>h
  <1>9. ASSUME NEW c, Abort(c) PROVE ~retaken
    BY <1>9 DEF Abort
  <1>10. CASE UNCHANGED vars
    BY <1>10 DEF vars
  <1>11. QED
    BY <1>1, <1>2, <1>3, <1>5, <1>6, <1>7, <1>8, <1>9, <1>10, Zenon DEF Next, Write, Batch, Delete

LEMMA MatchStep ==
  ASSUME TypeOK, Matched, [Next]_vars, ~retaken'
  PROVE  Matched'
  <1>t. /\ IsDb(db) /\ IsDb(draft) /\ job \in [Connections -> Job] /\ matched \subseteq Events
        /\ retaken \in BOOLEAN
        /\ \A c \in Connections : job[c].todo \subseteq matched
    BY DEF TypeOK, Matched
  <1>j. ASSUME NEW c \in Connections
        PROVE  /\ job[c] \in Job
               /\ job[c].link \in Hash
               /\ job[c].pc \notin {"idle", "batch", "deleting"} =>
                    job[c].event \in Events /\ job[c].row \in RowIds
    BY <1>t DEF Job
  <1>i. Idle.todo = {} /\ Idle.pc = "idle"
    BY DEF Idle
  <1>d. \A ids : ToDelete(ids).todo = ids /\ ToDelete(ids).pc \in {"idle", "deleting"}
    BY DEF ToDelete, Idle
  <1>k. /\ Keeps(db, db) /\ Found(db) /\ Fits(db, db) /\ Fits(draft, draft) /\ OnlyMatched
        /\ lock # NoConnection => /\ Keeps(db, draft) /\ Found(draft)
                                  /\ draft.written \subseteq db.written \cup Live(draft)
    BY DEF Matched, Keeps, Fits
  \* One statement that removes no event.
  <1>x. ASSUME NEW c \in Connections, NEW d, NEW j, Execute(c, d, j), matched' = matched,
               j.todo \subseteq matched,
               \/ j.pc \notin {"found", "tombstoned"}
               \/ c \in Digging /\ j.event = job[c].event /\ j.todo = job[c].todo /\ j.row = job[c].row,
               Fits(db, d), Live(db) \subseteq Live(d), d.written \subseteq db.written \cup Live(d)
        PROVE  Matched'
    <2>1. job' = [job EXCEPT ![c] = j] /\ db' = d /\ lock' = NoConnection
      BY <1>x DEF Execute
    <2>2. Found(db)'
      <3>1. ASSUME j.pc \in {"found", "tombstoned"}, j.row \in DOMAIN d.rows
            PROVE  d.rows[j.row].event = j.event
        <4>1. c \in Digging /\ j.event = job[c].event /\ j.row = job[c].row
          BY <1>x, <3>1
        <4>2. j.row \in LookedUp
          BY <4>1 DEF LookedUp
        <4>3. QED
          BY <1>k, <1>x, <3>1, <4>1, <4>2 DEF Found, Fits
      <3>2. Found(db) /\ Fits(db, d) /\ Becomes(c, j)
        BY <1>k, <1>x, <2>1 DEF Becomes
      <3>3. \A x \in Digging' : job'[x].row \in DOMAIN d.rows => d.rows[job'[x].row].event = job'[x].event
        BY <3>1, <3>2, FoundStays
      <3>4. QED
        BY <2>1, <3>3 DEF Found
    <2>3. OnlyMatched'
      BY <1>k, <1>x, <2>1 DEF OnlyMatched, Live
    <2>4. j.pc \in {"found", "tombstoned"} => j.event \in j.todo
      BY <1>x DEF Matched
    <2>5. QED
      BY <1>x, <2>1, <2>2, <2>3, <2>4, MatchKept
  \* A step that writes nothing.
  <1>r. ASSUME NEW c \in Connections, NEW j, job' = [job EXCEPT ![c] = j],
               UNCHANGED <<db, draft, lock>>, matched \subseteq matched', j.todo \subseteq matched',
               \/ j.pc \notin {"found", "tombstoned"}
               \/ /\ j.event \in j.todo /\ j.row \in DOMAIN db.rows
                  /\ db.rows[j.row].event = j.event
        PROVE  Matched'
    <2>1. Found(db)'
      <3>1. j.pc \in {"found", "tombstoned"} /\ j.row \in DOMAIN db.rows => db.rows[j.row].event = j.event
        BY <1>r
      <3>2. Found(db) /\ Fits(db, db) /\ Becomes(c, j)
        BY <1>k, <1>r DEF Becomes
      <3>3. \A x \in Digging' : job'[x].row \in DOMAIN db.rows => db.rows[job'[x].row].event = job'[x].event
        BY <3>1, <3>2, FoundStays
      <3>4. QED
        BY <1>r, <3>3 DEF Found
    <2>2. lock # NoConnection => Found(draft)'
      <3>1. SUFFICES ASSUME lock # NoConnection PROVE Found(draft)'
        OBVIOUS
      <3>2. j.pc \in {"found", "tombstoned"} /\ j.row \in DOMAIN draft.rows => draft.rows[j.row].event = j.event
        BY <1>k, <1>r, <3>1 DEF Keeps
      <3>3. Found(draft) /\ Fits(draft, draft) /\ Becomes(c, j)
        BY <1>k, <1>r, <3>1 DEF Becomes
      <3>4. \A x \in Digging' : job'[x].row \in DOMAIN draft.rows => draft.rows[job'[x].row].event = job'[x].event
        BY <3>2, <3>3, FoundStays
      <3>5. QED
        BY <1>r, <3>4 DEF Found
    <2>3. OnlyMatched'
      BY <1>k, <1>r DEF OnlyMatched, Live
    <2>4. lock' # NoConnection => /\ Keeps(db', draft')
                                  /\ draft'.written \subseteq db'.written \cup Live(draft')
      BY <1>k, <1>r
    <2>5. QED
      BY <1>r, <2>1, <2>2, <2>3, <2>4, MatchKept
  <1>s. ASSUME NEW d, DOMAIN d.rows = DOMAIN db.rows, d.written = db.written,
               \A i \in DOMAIN db.rows : d.rows[i].event = db.rows[i].event
        PROVE  Fits(db, d) /\ Live(db) \subseteq Live(d) /\ d.written \subseteq db.written \cup Live(d)
    BY <1>s DEF Fits, Live
  <1>1. ASSUME NEW c \in Connections, NEW e \in Events, Insert(c, e)
        PROVE  Matched'
    <2> DEFINE j(n) == [Idle EXCEPT !.pc = "inserted", !.event = e, !.row = n]
    <2>1. PICK n \in RowIds : /\ IsNextRowId(db, n) /\ Execute(c, InsertRow(db, n, e), j(n))
                              /\ retaken' = (retaken \/ n \in LookedUp)
      BY <1>1 DEF Insert
    <2>2. PICK d : d = InsertRow(db, n, e)
      OBVIOUS
    <2>3. /\ DOMAIN d.rows = DOMAIN db.rows \cup {n}
          /\ d.rows[n].event = e
          /\ \A i \in DOMAIN db.rows \ {n} : d.rows[i] = db.rows[i]
          /\ d.written = db.written \cup {e}
      BY <1>t, <2>2, InsertRowFacts
    <2>4. n \notin DOMAIN db.rows /\ n \notin LookedUp
      <3>1. n \notin DOMAIN db.rows
        BY <2>1, BoundsAssumption DEF IsNextRowId, RowIds
      <3>2. n \notin LookedUp
        BY <1>t, <2>1, Zenon
      <3>3. QED
        BY <3>1, <3>2
    <2>5. Fits(db, d) /\ Live(db) \subseteq Live(d) /\ d.written \subseteq db.written \cup Live(d)
      BY <2>3, <2>4 DEF Fits, Live
    <2>6. j(n).pc = "inserted" /\ j(n).todo = {} /\ matched' = matched
      BY <1>1 DEF Idle, Insert, Crosses
    <2> HIDE DEF j
    <2>7. QED
      BY <1>x, <2>1, <2>2, <2>5, <2>6
  <1>2. ASSUME NEW c \in Connections, RollUp(c)
        PROVE  Matched'
    <2> DEFINE d == update_fingerprint(db, job[c].event)
               j == [job[c] EXCEPT !.pc = "rolledUp"]
    <2>1. SameChain(db, d) /\ Execute(c, d, j) /\ matched' = matched
      BY <1>2, <1>j, <1>t, UpdateFingerprintFacts DEF RollUp, History
    <2>2. j.pc = "rolledUp" /\ j.todo = job[c].todo
      BY <1>j DEF Job
    <2> HIDE DEF d, j
    <2>3. DOMAIN d.rows = DOMAIN db.rows /\ d.written = db.written
          /\ \A i \in DOMAIN db.rows : d.rows[i].event = db.rows[i].event
      BY <2>1 DEF SameChain
    <2>4. QED
      BY <1>t, <1>s, <1>x, <2>1, <2>2, <2>3
  <1>3. ASSUME NEW c \in Connections, ReadLink(c)
        PROVE  Matched'
    <2> DEFINE j == [job[c] EXCEPT !.pc = "linked", !.link = db.last]
    <2>1. job' = [job EXCEPT ![c] = j] /\ UNCHANGED <<db, draft, lock, matched>>
      BY <1>3 DEF ReadLink, History
    <2>2. j.pc = "linked" /\ j.todo = job[c].todo
      BY <1>j DEF Job
    <2> HIDE DEF j
    <2>3. QED
      BY <1>t, <1>r, <2>1, <2>2
  <1>4. ASSUME NEW c \in Connections, Stamp(c)
        PROVE  Matched'
    <2> DEFINE d == SetHash(db, job[c].row, compute_hash(job[c].link, job[c].event))
               j == [job[c] EXCEPT !.pc = "stamped"]
    <2>1. job[c].row \in RowIds /\ compute_hash(job[c].link, job[c].event) \in Hash
      BY <1>4, <1>j, HashFacts DEF Stamp
    <2>2. /\ DOMAIN d.rows = DOMAIN db.rows /\ d.written = db.written
          /\ \A i \in DOMAIN db.rows : d.rows[i].event = db.rows[i].event
      BY <1>t, <2>1, SetHashFacts
    <2>3. Execute(c, d, j) /\ matched' = matched /\ j.pc = "stamped" /\ j.todo = job[c].todo
      BY <1>4, <1>j DEF Stamp, Job, History
    <2> HIDE DEF d, j
    <2>4. QED
      BY <1>t, <1>s, <1>x, <2>2, <2>3
  <1>5. ASSUME NEW c \in Connections, Advance(c)
        PROVE  Matched'
    <2> DEFINE d == set_last_hash(db, compute_hash(job[c].link, job[c].event))
    <2>1. compute_hash(job[c].link, job[c].event) \in Hash
      BY <1>5, <1>j, HashFacts DEF Advance
    <2>2. d.rows = db.rows /\ d.written = db.written
      BY <1>t, <2>1, SetLastHashFacts
    <2>3. Execute(c, d, Idle) /\ matched' = matched
      BY <1>5 DEF Advance, History
    <2> HIDE DEF d
    <2>4. QED
      BY <1>i, <1>s, <1>x, <2>2, <2>3
  <1>6. ASSUME NEW c \in Connections, Begin(c)
        PROVE  Matched'
    <2> DEFINE j == [job[c] EXCEPT !.pc = "batch"]
    <2>1. job' = [job EXCEPT ![c] = j] /\ draft' = db /\ db' = db /\ matched' = matched
      BY <1>6 DEF Begin, Crosses
    <2>2. j.pc = "batch" /\ j.todo = job[c].todo
      BY <1>j DEF Job
    <2> HIDE DEF j
    <2>3. Found(db)' /\ Found(draft)'
      <3>1. \A x \in Digging' : job'[x].row \in DOMAIN db.rows => db.rows[job'[x].row].event = job'[x].event
        <4>1. Found(db) /\ Fits(db, db) /\ Becomes(c, j)
          BY <1>k, <2>1 DEF Becomes
        <4>2. j.pc \in {"found", "tombstoned"} /\ j.row \in DOMAIN db.rows => db.rows[j.row].event = j.event
          BY <2>2
        <4>3. QED
          BY <4>1, <4>2, FoundStays
      <3>2. QED
        BY <2>1, <3>1 DEF Found
    <2>4. OnlyMatched' /\ Keeps(db', draft') /\ draft'.written \subseteq db'.written \cup Live(draft')
      BY <1>k, <2>1 DEF OnlyMatched, Live, Keeps
    <2>5. QED
      BY <1>t, <2>1, <2>2, <2>3, <2>4, MatchKept
  <1>7. ASSUME NEW c \in Connections, NEW e \in Events, WriteInBatch(c, e)
        PROVE  Matched'
    <2>1. PICK n \in RowIds : /\ IsNextRowId(draft, n) /\ draft' = write_event(draft, n, e)
                              /\ retaken' = (retaken \/ n \in LookedUp)
      BY <1>7 DEF WriteInBatch
    <2>2. /\ DOMAIN draft'.rows = DOMAIN draft.rows \cup {n}
          /\ draft'.rows[n].event = e
          /\ \A i \in DOMAIN draft.rows \ {n} : draft'.rows[i] = draft.rows[i]
          /\ draft'.written = draft.written \cup {e}
      BY <1>t, <2>1, WriteEventFacts
    <2>3. n \notin DOMAIN draft.rows /\ n \notin LookedUp
      <3>1. n \notin DOMAIN draft.rows
        BY <2>1, BoundsAssumption DEF IsNextRowId, RowIds
      <3>2. n \notin LookedUp
        BY <1>t, <2>1, Zenon
      <3>3. QED
        BY <3>1, <3>2
    <2>4. lock # NoConnection /\ UNCHANGED <<db, lock, job, matched>>
      BY <1>7, RolesAssumption DEF WriteInBatch
    <2>5. Keeps(db, draft) /\ Found(draft) /\ draft.written \subseteq db.written \cup Live(draft)
      BY <1>k, <2>4
    <2>6. Keeps(db, draft') /\ draft'.written \subseteq db.written \cup Live(draft')
      BY <2>2, <2>3, <2>5 DEF Keeps, Live
    <2>7. \A x \in Digging : job[x].row \in DOMAIN draft'.rows => draft'.rows[job[x].row].event = job[x].event
      BY <2>2, <2>3, <2>5 DEF Found, LookedUp
    <2>8. Digging' = Digging
      BY <2>4 DEF Digging
    <2>9. QED
      BY <2>4, <2>6, <2>7, <2>8 DEF Matched, OnlyMatched, Found, Keeps, Live
  <1>8. ASSUME NEW c \in Connections, Commit(c) \/ Rollback(c)
        PROVE  Matched'
    <2>1. /\ lock # NoConnection /\ lock' = NoConnection /\ db' \in {db, draft}
          /\ job' = [job EXCEPT ![c] = Idle] /\ matched' = matched
      BY <1>8, RolesAssumption DEF Commit, Rollback, History
    <2>2. PICK d \in {db, draft} : db' = d
      BY <2>1
    <2>3. Found(d) /\ Fits(d, d) /\ Live(db) \subseteq Live(d) /\ d.written \subseteq db.written \cup Live(d)
      BY <1>k, <2>1, KeepsLive
    <2>4. Found(db)'
      <3>1. \A x \in Digging' : job'[x].row \in DOMAIN d.rows => d.rows[job'[x].row].event = job'[x].event
        <4>1. Found(d) /\ Fits(d, d) /\ Becomes(c, Idle)
          BY <2>1, <2>3 DEF Becomes
        <4>2. Idle.pc \in {"found", "tombstoned"} /\ Idle.row \in DOMAIN d.rows => d.rows[Idle.row].event = Idle.event
          BY <1>i
        <4>3. QED
          BY <4>1, <4>2, FoundStays
      <3>2. QED
        BY <2>2, <3>1 DEF Found
    <2>5. OnlyMatched'
      BY <1>k, <2>1, <2>2, <2>3 DEF OnlyMatched, Live
    <2>6. QED
      BY <1>i, <2>1, <2>4, <2>5, MatchKept
  <1>10. ASSUME NEW c \in Connections, NEW e \in Events, Resolve(c, e)
         PROVE  Matched'
    <2>1. PICK i \in DOMAIN db.rows : Execute(c, SetResolved(db, i), Idle)
      BY <1>10 DEF Resolve
    <2> DEFINE d == SetResolved(db, i)
    <2>2. /\ DOMAIN d.rows = DOMAIN db.rows /\ d.written = db.written
          /\ \A k \in DOMAIN db.rows : d.rows[k].event = db.rows[k].event
      BY <1>t, SetResolvedFacts
    <2>3. Execute(c, d, Idle) /\ matched' = matched
      BY <1>10, <2>1 DEF Resolve, History
    <2> HIDE DEF d
    <2>4. QED
      BY <1>i, <1>s, <1>x, <2>2, <2>3
  <1>11. ASSUME NEW c \in Connections, NEW force \in BOOLEAN, Match(c, force)
         PROVE  Matched'
    <2>1. PICK ids : job' = [job EXCEPT ![c] = ToDelete(ids)] /\ matched' = matched \cup ids
      BY <1>11 DEF Match
    <2>2. UNCHANGED <<db, draft, lock>>
      BY <1>11 DEF Match
    <2>3. QED
      BY <1>d, <1>r, <2>1, <2>2
  <1>12. ASSUME NEW c \in Connections, NEW e \in Events, Lookup(c, e)
         PROVE  Matched'
    <2>1. /\ UNCHANGED <<db, draft, lock>> /\ matched' = matched
          /\ e \in job[c].todo /\ job[c].todo \subseteq matched
      BY <1>12, <1>t DEF Lookup, Crosses
    <2>2. CASE \E i \in DOMAIN db.rows :
                 /\ db.rows[i].event = e
                 /\ job' = [job EXCEPT ![c].pc = "found", ![c].event = e, ![c].row = i,
                                       ![c].link = db.rows[i].hash]
      <3>1. PICK i \in DOMAIN db.rows :
              /\ db.rows[i].event = e
              /\ job' = [job EXCEPT ![c] = [@ EXCEPT !.pc = "found", !.event = e, !.row = i,
                                                     !.link = db.rows[i].hash]]
        BY <2>2
      <3> DEFINE j == [job[c] EXCEPT !.pc = "found", !.event = e, !.row = i,
                                    !.link = db.rows[i].hash]
      <3>2. j.row = i /\ j.event = e /\ j.todo = job[c].todo
        BY <1>j, <2>1 DEF Job
      <3>3. job' = [job EXCEPT ![c] = j]
        BY <3>1
      <3> HIDE DEF j
      <3>4. j.todo \subseteq matched' /\ j.event \in j.todo /\ j.row \in DOMAIN db.rows
            /\ db.rows[j.row].event = j.event /\ matched \subseteq matched'
        BY <2>1, <3>1, <3>2
      <3>5. QED
        BY <1>r, <1>12, <2>1, <3>3, <3>4
    <2>3. CASE job' = [job EXCEPT ![c] = ToDelete(job[c].todo \ {e})]
      <3>1. PICK j : j = ToDelete(job[c].todo \ {e})
        OBVIOUS
      <3>2. j.todo \subseteq matched' /\ matched \subseteq matched' /\ j.pc \notin {"found", "tombstoned"}
        BY <1>d, <2>1, <3>1
      <3>3. QED
        BY <1>r, <2>1, <2>3, <3>1, <3>2
    <2>4. QED
      BY <1>12, <2>2, <2>3 DEF Lookup
  <1>13. ASSUME NEW c \in Connections, Entomb(c)
         PROVE  Matched'
    <2> DEFINE d == PutTombstone(db, job[c].row, job[c].link)
               j == [job[c] EXCEPT !.pc = "tombstoned"]
    <2>1. c \in Digging /\ job[c].row \in RowIds /\ job[c].link \in Hash
      BY <1>13, <1>j DEF Entomb, Digging
    <2>2. d.rows = db.rows /\ d.written = db.written
      BY <1>t, <2>1, PutTombstoneFacts
    <2>3. /\ Execute(c, d, j) /\ matched' = matched
          /\ j.event = job[c].event /\ j.row = job[c].row /\ j.todo = job[c].todo
      BY <1>13, <1>j DEF Entomb, Job, History
    <2> HIDE DEF d, j
    <2>4. QED
      BY <1>t, <1>s, <1>x, <2>1, <2>2, <2>3
  <1>14. ASSUME NEW c \in Connections, Remove(c)
         PROVE  Matched'
    <2> DEFINE n == job[c].row
               d == DeleteRow(db, n)
               j == ToDelete(job[c].todo \ {job[c].event})
    <2>1. c \in Digging /\ n \in RowIds
      BY <1>14, <1>j DEF Remove, Digging
    <2>2. /\ DOMAIN d.rows = DOMAIN db.rows \ {n}
          /\ \A i \in DOMAIN db.rows \ {n} : d.rows[i] = db.rows[i]
          /\ d.written = db.written
      BY <1>t, <2>1, DeleteRowFacts
    <2>3. /\ db' = d /\ job' = [job EXCEPT ![c] = j] /\ lock' = NoConnection /\ matched' = matched
          /\ j.pc \notin {"found", "tombstoned"} /\ j.todo \subseteq matched
      BY <1>14, <1>d, <1>t, <2>1 DEF Remove, Execute, History
    <2>4. n \in DOMAIN db.rows => db.rows[n].event \in matched
      BY <1>k, <1>t, <2>1 DEF Matched, Found
    <2> HIDE DEF d, j, n
    <2>5. Found(db)'
      <3>1. Fits(db, d)
        BY <2>2 DEF Fits
      <3>2. \A x \in Digging' : job'[x].row \in DOMAIN d.rows => d.rows[job'[x].row].event = job'[x].event
        <4>1. Found(db) /\ Becomes(c, j)
          BY <1>k, <2>3 DEF Becomes
        <4>2. j.pc \in {"found", "tombstoned"} /\ j.row \in DOMAIN d.rows => d.rows[j.row].event = j.event
          BY <2>3
        <4>3. QED
          BY <3>1, <4>1, <4>2, FoundStays
      <3>3. QED
        BY <2>3, <3>2 DEF Found
    <2>6. OnlyMatched'
      <3>1. Live(db) \subseteq Live(d) \cup matched
        BY <2>2, <2>4 DEF Live
      <3>2. db.written \ Live(db) \subseteq matched
        BY <1>k DEF OnlyMatched
      <3>3. Live(db)' = Live(d)
        BY <2>3 DEF Live
      <3>4. QED
        BY <2>2, <2>3, <3>1, <3>2, <3>3 DEF OnlyMatched
    <2>7. QED
      BY <2>3, <2>5, <2>6, MatchKept
  <1>15. ASSUME NEW c \in Connections, Abort(c)
         PROVE  Matched'
    BY <1>15, <1>i, <1>r DEF Abort
  <1>16. CASE UNCHANGED vars
    BY <1>16 DEF vars, Matched, OnlyMatched, Found, Digging, Keeps, Live
  <1>17. ASSUME NEW c \in AutocommitWriters, Write(c)
         PROVE  Matched'
    BY <1>1, <1>2, <1>3, <1>4, <1>5, <1>17, RolesAssumption DEF Write
  <1>18. ASSUME NEW c \in BatchWriters, Batch(c)
         PROVE  Matched'
    BY <1>6, <1>7, <1>8, <1>18, RolesAssumption DEF Batch
  <1>19. ASSUME NEW c \in Maintainers, Delete(c)
         PROVE  Matched'
    BY <1>11, <1>12, <1>13, <1>14, <1>19, RolesAssumption DEF Delete
  <1>20. QED
    BY <1>10, <1>15, <1>16, <1>17, <1>18, <1>19, RolesAssumption DEF Next

(* Whatever writers, batches, kills and other maintainers come between the *)
(* statements of a delete, a row leaves the events table only because a    *)
(* SELECT of a delete had returned its event: the DELETE by row id hits    *)
(* the row that was looked up, or none, unless an insert took that id.     *)
(* (delete_events_by_id)                                                   *)
THEOREM OnlyMatchedIsRemoved == Spec => []OnlyMatchedRemoved
  <1>1. Init => MatchInv
    <2> SUFFICES ASSUME Init
                 PROVE  MatchInv
      OBVIOUS
    <2>1. db.written = {} /\ lock = NoConnection /\ Digging = {}
      BY DEF Init, EmptyDb, Idle, Digging
    <2>2. \A c \in Connections : job[c].todo = {}
      BY DEF Init, Idle
    <2>3. QED
      BY <2>1, <2>2, InitType DEF MatchInv, Matched, OnlyMatched, Found
  <1>2. MatchInv => OnlyMatchedRemoved
    BY DEF MatchInv, Matched, OnlyMatched, OnlyMatchedRemoved
  <1>3. MatchInv /\ [Next]_vars => MatchInv'
    <2> SUFFICES ASSUME MatchInv, [Next]_vars PROVE MatchInv'
      OBVIOUS
    <2>1. TypeOK /\ TypeOK'
      BY TypeStep DEF MatchInv
    <2>2. ASSUME ~retaken' PROVE Matched'
      <3>1. Matched
        BY <2>1, <2>2, RetakenGrows DEF MatchInv
      <3>2. QED
        BY <2>1, <2>2, <3>1, MatchStep
    <2>3. QED
      BY <2>1, <2>2 DEF MatchInv
  <1>4. QED
    BY <1>1, <1>2, <1>3, PTL DEF Spec

-----------------------------------------------------------------------------
(* The rollup counts inserts.                                              *)

\* Connections whose insert has not reached its upsert, by fingerprint.
Unrolled(f) == {c \in Connections : job[c].pc = "inserted" /\ FingerprintOf[job[c].event] = f}

\* An open transaction has rolled up whatever it has inserted.
RollupInv ==
  /\ \A f \in Fingerprints :
       /\ IsFiniteSet(Unrolled(f))
       /\ db.count[f] + unrolled[f] + Cardinality(Unrolled(f)) = db.inserts[f]
  /\ lock # NoConnection =>
       /\ job[lock].pc = "batch"
       /\ \A f \in Fingerprints : draft.count[f] + db.inserts[f] = draft.inserts[f] + db.count[f]

SameCounts(d, r) == r.count = d.count /\ r.inserts = d.inserts

LEMMA CountFields ==
  ASSUME NEW d, IsDb(d), NEW f \in Fingerprints
  PROVE  d.count[f] \in Nat /\ d.inserts[f] \in Nat
  BY DEF IsDb, DbOver

\* Statements that neither insert nor roll up.
LEMMA CountsKept ==
  ASSUME NEW d, IsDb(d), NEW n, NEW h
  PROVE  /\ SameCounts(d, SetHash(d, n, h))
         /\ SameCounts(d, set_last_hash(d, h))
         /\ SameCounts(d, PutTombstone(d, n, h))
         /\ SameCounts(d, DeleteRow(d, n))
         /\ SameCounts(d, SetResolved(d, n))
  <1>1. ASSUME NEW x
        PROVE  /\ SameCounts(d, [d EXCEPT !.rows = x])
               /\ SameCounts(d, [d EXCEPT !.tombs = x])
               /\ SameCounts(d, [d EXCEPT !.last = x])
    BY DEF SameCounts, IsDb, DbOver
  <1>2. d \in DbOver(DOMAIN d.rows, DOMAIN d.tombs)
    BY DEF IsDb
  <1>3. SameCounts(d, SetHash(d, n, h))
    <2>1. CASE n \in DOMAIN d.rows
      <3>1. SetHash(d, n, h) = [d EXCEPT !.rows = [d.rows EXCEPT ![n].hash = h]]
        BY <1>2, <2>1 DEF SetHash, DbOver
      <3>2. QED
        BY <1>1, <3>1
    <2>2. CASE n \notin DOMAIN d.rows
      BY <2>2 DEF SetHash, SameCounts
    <2>3. QED
      BY <2>1, <2>2
  <1>4. SameCounts(d, PutTombstone(d, n, h))
    <2>1. PutTombstone(d, n, h) = [d EXCEPT !.tombs = Put(d.tombs, n, h)]
      BY <1>2 DEF PutTombstone, DbOver
    <2>2. QED
      BY <1>1, <2>1
  <1>5. SameCounts(d, SetResolved(d, n))
    <2>1. SetResolved(d, n) = [d EXCEPT !.rows = [d.rows EXCEPT ![n].resolved = TRUE]]
      BY <1>2 DEF SetResolved, DbOver
    <2>2. QED
      BY <1>1, <2>1
  <1>6. SameCounts(d, set_last_hash(d, h)) /\ SameCounts(d, DeleteRow(d, n))
    BY <1>1 DEF set_last_hash, DeleteRow
  <1>7. QED
    BY <1>3, <1>4, <1>5, <1>6

LEMMA InsertCounts ==
  ASSUME NEW d, IsDb(d), NEW n, NEW e \in Events
  PROVE  LET r == InsertRow(d, n, e)
         IN  /\ r.count = d.count
             /\ \A f \in Fingerprints :
                  r.inserts[f] = d.inserts[f] + (IF f = FingerprintOf[e] THEN 1 ELSE 0)
  <1> DEFINE x == [d.inserts EXCEPT ![FingerprintOf[e]] = @ + 1]
             p == Put(d.rows, n, [event |-> e, hash |-> NoHash, resolved |-> FALSE])
             h == IF n > d.high THEN n ELSE d.high
             u == (d.reused \/ n <= d.high)
             w == d.written \cup {e}
  <1>1. InsertRow(d, n, e) = [d EXCEPT !.rows = p, !.high = h, !.reused = u,
                                       !.written = w, !.inserts = x]
    BY DEF InsertRow, IsDb, DbOver
  <1>2. \A f \in Fingerprints : x[f] = d.inserts[f] + (IF f = FingerprintOf[e] THEN 1 ELSE 0)
    BY EventsAssumption DEF IsDb, DbOver
  <1> HIDE DEF x, p, h, u, w
  <1>3. QED
    BY <1>1, <1>2 DEF IsDb, DbOver

LEMMA RollUpCounts ==
  ASSUME NEW d, IsDb(d), NEW e \in Events
  PROVE  LET r == update_fingerprint(d, e)
         IN  /\ r.inserts = d.inserts
             /\ \A f \in Fingerprints :
                  r.count[f] = d.count[f] + (IF f = FingerprintOf[e] THEN 1 ELSE 0)
  <1> DEFINE x == [d.count EXCEPT ![FingerprintOf[e]] = @ + 1]
  <1>1. update_fingerprint(d, e) = [d EXCEPT !.count = x]
    BY DEF update_fingerprint, IsDb, DbOver
  <1>2. \A f \in Fingerprints : x[f] = d.count[f] + (IF f = FingerprintOf[e] THEN 1 ELSE 0)
    BY EventsAssumption DEF IsDb, DbOver
  <1> HIDE DEF x
  <1>3. QED
    BY <1>1, <1>2 DEF IsDb, DbOver

\* A whole write rolls up what it inserts.
LEMMA WriteEventCounts ==
  ASSUME NEW d, IsDb(d), NEW n \in RowIds, NEW e \in Events, NEW f \in Fingerprints
  PROVE  write_event(d, n, e).count[f] + d.inserts[f] = write_event(d, n, e).inserts[f] + d.count[f]
  <1> DEFINE h == compute_hash(d.last, e)
             d1 == InsertRow(d, n, e)
             d2 == update_fingerprint(d1, e)
             d3 == SetHash(d2, n, h)
  <1>1. h \in Hash
    BY HashFacts DEF IsDb, DbOver
  <1>2. /\ IsDb(d1) /\ d1.count = d.count
        /\ d1.inserts[f] = d.inserts[f] + (IF f = FingerprintOf[e] THEN 1 ELSE 0)
    BY InsertRowFacts, InsertCounts
  <1>3. write_event(d, n, e) = set_last_hash(d3, h)
    BY DEF write_event
  <1> HIDE DEF h, d1
  <1>4. /\ IsDb(d2) /\ d2.inserts = d1.inserts
        /\ d2.count[f] = d1.count[f] + (IF f = FingerprintOf[e] THEN 1 ELSE 0)
    BY <1>2, UpdateFingerprintFacts, RollUpCounts
  <1> HIDE DEF d2
  <1>5. IsDb(d3) /\ SameCounts(d2, d3)
    BY <1>1, <1>4, SetHashFacts, CountsKept
  <1> HIDE DEF d3
  <1>6. SameCounts(d3, set_last_hash(d3, h))
    BY <1>5, CountsKept
  <1>7. d.count[f] \in Nat /\ d.inserts[f] \in Nat
    BY CountFields
  <1>8. QED
    BY <1>2, <1>3, <1>4, <1>5, <1>6, <1>7 DEF SameCounts

LEMMA UnrolledStep ==
  ASSUME TypeOK, NEW c \in Connections, NEW j, job' = [job EXCEPT ![c] = j], NEW f
  PROVE  Unrolled(f)' = (Unrolled(f) \ {c}) \cup
                        (IF j.pc = "inserted" /\ FingerprintOf[j.event] = f THEN {c} ELSE {})
  <1>1. job'[c] = j /\ \A x \in Connections \ {c} : job'[x] = job[x]
    BY JobStep
  <1>2. Unrolled(f)' = {x \in Connections : job'[x].pc = "inserted" /\ FingerprintOf[job'[x].event] = f}
    BY DEF Unrolled
  <1>3. QED
    BY <1>1, <1>2 DEF Unrolled

\* A step of a connection that neither begins nor ends at an insert.
LEMMA QuietRollup ==
  ASSUME TypeOK, RollupInv, NEW c \in Connections, NEW j, job' = [job EXCEPT ![c] = j],
         job[c].pc \notin {"inserted", "batch"}, j.pc # "inserted",
         unrolled' = unrolled, SameCounts(db, db'), lock' = lock, draft' = draft
  PROVE  RollupInv'
  <1>1. ASSUME NEW f \in Fingerprints
        PROVE  Unrolled(f)' = Unrolled(f)
    <2>1. c \notin Unrolled(f)
      BY DEF Unrolled
    <2>2. Unrolled(f)' = (Unrolled(f) \ {c}) \cup
                         (IF j.pc = "inserted" /\ FingerprintOf[j.event] = f THEN {c} ELSE {})
      BY UnrolledStep
    <2>3. QED
      BY <2>1, <2>2
  <1>2. lock # NoConnection => lock # c /\ job'[lock] = job[lock]
    BY JobStep DEF RollupInv, TypeOK
  <1>3. QED
    BY <1>1, <1>2 DEF RollupInv, SameCounts

\* A connection with an insert that is not rolled up yet is counted once.
LEMMA OneLess ==
  ASSUME TypeOK, RollupInv, NEW c \in Connections, job[c].pc = "inserted",
         NEW j, job' = [job EXCEPT ![c] = j], j.pc # "inserted", NEW f \in Fingerprints
  PROVE  /\ IsFiniteSet(Unrolled(f)')
         /\ Cardinality(Unrolled(f)') + (IF f = FingerprintOf[job[c].event] THEN 1 ELSE 0)
              = Cardinality(Unrolled(f))
         /\ Cardinality(Unrolled(f)') \in Nat
  <1>1. Unrolled(f)' = (Unrolled(f) \ {c}) \cup
                       (IF j.pc = "inserted" /\ FingerprintOf[j.event] = f THEN {c} ELSE {})
    BY UnrolledStep
  <1>2. Unrolled(f)' = Unrolled(f) \ {c}
    BY <1>1
  <1>3. IsFiniteSet(Unrolled(f))
    BY DEF RollupInv
  <1>4. c \in Unrolled(f) <=> f = FingerprintOf[job[c].event]
    BY DEF Unrolled
  <1>5. /\ IsFiniteSet(Unrolled(f) \ {c})
        /\ Cardinality(Unrolled(f) \ {c}) =
             IF c \in Unrolled(f) THEN Cardinality(Unrolled(f)) - 1 ELSE Cardinality(Unrolled(f))
    BY <1>3, FS_RemoveElement
  <1>6. Cardinality(Unrolled(f)) \in Nat /\ Cardinality(Unrolled(f) \ {c}) \in Nat
    BY <1>3, <1>5, FS_CardinalityType
  <1>7. QED
    BY <1>2, <1>4, <1>5, <1>6

LEMMA RollupStep == TypeOK /\ RollupInv /\ [Next]_vars => RollupInv'
  <1> SUFFICES ASSUME TypeOK, RollupInv, [Next]_vars
               PROVE  RollupInv'
    OBVIOUS
  <1>t. IsDb(db) /\ IsDb(draft) /\ job \in [Connections -> Job] /\ unrolled \in [Fingerprints -> Nat]
    BY DEF TypeOK
  <1>n. \A f \in Fingerprints :
          /\ db.count[f] \in Nat /\ db.inserts[f] \in Nat /\ unrolled[f] \in Nat
          /\ draft.count[f] \in Nat /\ draft.inserts[f] \in Nat
          /\ IsFiniteSet(Unrolled(f)) /\ Cardinality(Unrolled(f)) \in Nat
    BY <1>t, CountFields, FS_CardinalityType DEF RollupInv
  <1>j. ASSUME NEW c \in Connections
        PROVE  /\ job[c] \in Job
               /\ job[c].pc \notin {"idle", "batch", "deleting"} =>
                    job[c].event \in Events /\ job[c].row \in RowIds
    BY <1>t DEF Job
  <1>x. ASSUME NEW c \in Connections, NEW d, NEW j, Execute(c, d, j), UNCHANGED History,
               job[c].pc \notin {"inserted", "batch"}, j.pc # "inserted", SameCounts(db, d)
        PROVE  RollupInv'
    <2>1. /\ job' = [job EXCEPT ![c] = j] /\ db' = d /\ lock' = lock /\ draft' = draft
          /\ unrolled' = unrolled
      BY <1>x DEF Execute, History
    <2>2. QED
      BY <1>x, <2>1, QuietRollup
  <1>r. ASSUME NEW c \in Connections, NEW j, job' = [job EXCEPT ![c] = j],
               job[c].pc \notin {"inserted", "batch"}, j.pc # "inserted",
               UNCHANGED <<db, draft, lock, unrolled>>
        PROVE  RollupInv'
    BY <1>r, QuietRollup DEF SameCounts
  <1>1. ASSUME NEW c \in Connections, NEW e \in Events, Insert(c, e)
        PROVE  RollupInv'
    <2> DEFINE j(n) == [Idle EXCEPT !.pc = "inserted", !.event = e, !.row = n]
    <2>1. PICK n \in RowIds : Execute(c, InsertRow(db, n, e), j(n))
      BY <1>1 DEF Insert
    <2>2. j(n).pc = "inserted" /\ j(n).event = e
      BY DEF Idle
    <2>3. /\ job' = [job EXCEPT ![c] = j(n)] /\ lock' = NoConnection
          /\ job[c].pc = "idle" /\ unrolled' = unrolled
      BY <1>1, <2>1 DEF Execute, Insert, Crosses
    <2>4. /\ db'.count = db.count
          /\ \A f \in Fingerprints :
               db'.inserts[f] = db.inserts[f] + (IF f = FingerprintOf[e] THEN 1 ELSE 0)
      BY <1>t, <2>1, InsertCounts DEF Execute
    <2> HIDE DEF j
    <2>5. ASSUME NEW f \in Fingerprints
          PROVE  /\ IsFiniteSet(Unrolled(f)')
                 /\ db'.count[f] + unrolled'[f] + Cardinality(Unrolled(f)') = db'.inserts[f]
      <3>1. Unrolled(f)' = (Unrolled(f) \ {c}) \cup
                    (IF j(n).pc = "inserted" /\ FingerprintOf[j(n).event] = f THEN {c} ELSE {})
        BY <2>3, UnrolledStep
      <3>2. c \notin Unrolled(f)
        BY <2>3 DEF Unrolled
      <3>3. Unrolled(f)' = IF f = FingerprintOf[e] THEN Unrolled(f) \cup {c} ELSE Unrolled(f)
        BY <2>2, <3>1, <3>2
      <3>4. /\ IsFiniteSet(Unrolled(f) \cup {c})
            /\ Cardinality(Unrolled(f) \cup {c}) =
                 IF c \in Unrolled(f) THEN Cardinality(Unrolled(f)) ELSE Cardinality(Unrolled(f)) + 1
        BY <1>n, FS_AddElement
      <3>5. db.count[f] + unrolled[f] + Cardinality(Unrolled(f)) = db.inserts[f]
        BY DEF RollupInv
      <3>6. QED
        BY <1>n, <2>3, <2>4, <3>2, <3>3, <3>4, <3>5
    <2>6. QED
      BY <2>3, <2>5 DEF RollupInv
  <1>2. ASSUME NEW c \in Connections, RollUp(c)
        PROVE  RollupInv'
    <2> DEFINE j == [job[c] EXCEPT !.pc = "rolledUp"]
               e == job[c].event
    <2>1. /\ job' = [job EXCEPT ![c] = j] /\ lock' = NoConnection
          /\ job[c].pc = "inserted" /\ unrolled' = unrolled /\ db' = update_fingerprint(db, e)
      BY <1>2 DEF Execute, RollUp, History
    <2>2. j.pc = "rolledUp"
      BY <1>j DEF Job
    <2>3. e \in Events
      BY <1>j, <2>1
    <2>4. /\ db'.inserts = db.inserts
          /\ \A f \in Fingerprints :
               db'.count[f] = db.count[f] + (IF f = FingerprintOf[e] THEN 1 ELSE 0)
      BY <1>t, <2>1, <2>3, RollUpCounts
    <2> HIDE DEF j
    <2>5. ASSUME NEW f \in Fingerprints
          PROVE  /\ IsFiniteSet(Unrolled(f)')
                 /\ db'.count[f] + unrolled'[f] + Cardinality(Unrolled(f)') = db'.inserts[f]
      <3>1. /\ IsFiniteSet(Unrolled(f)')
            /\ Cardinality(Unrolled(f)') + (IF f = FingerprintOf[e] THEN 1 ELSE 0)
                 = Cardinality(Unrolled(f))
            /\ Cardinality(Unrolled(f)') \in Nat
        BY <2>1, <2>2, OneLess
      <3>2. db.count[f] + unrolled[f] + Cardinality(Unrolled(f)) = db.inserts[f]
        BY DEF RollupInv
      <3>3. QED
        BY <1>n, <2>1, <2>4, <3>1, <3>2
    <2>6. QED
      BY <2>1, <2>5 DEF RollupInv
  <1>3. ASSUME NEW c \in Connections, ReadLink(c)
        PROVE  RollupInv'
    <2>1. [job[c] EXCEPT !.pc = "linked", !.link = db.last].pc = "linked"
      BY <1>j DEF Job
    <2>2. job' = [job EXCEPT ![c] = [job[c] EXCEPT !.pc = "linked", !.link = db.last]]
      BY <1>3 DEF ReadLink
    <2>3. QED
      BY <1>3, <1>r, <2>1, <2>2 DEF ReadLink, History
  <1>4. ASSUME NEW c \in Connections, Stamp(c)
        PROVE  RollupInv'
    <2>1. [job[c] EXCEPT !.pc = "stamped"].pc = "stamped"
      BY <1>j DEF Job
    <2>2. QED
      BY <1>4, <1>t, <1>x, <2>1, CountsKept DEF Stamp
  <1>5. ASSUME NEW c \in Connections, Advance(c)
        PROVE  RollupInv'
    BY <1>5, <1>t, <1>x, CountsKept DEF Advance, Idle
  <1>6. ASSUME NEW c \in Connections, Begin(c)
        PROVE  RollupInv'
    <2> DEFINE j == [job[c] EXCEPT !.pc = "batch"]
    <2>1. /\ job' = [job EXCEPT ![c] = j] /\ lock' = c /\ draft' = db /\ db' = db
          /\ unrolled' = unrolled /\ job[c].pc = "idle"
      BY <1>6 DEF Begin, Crosses
    <2>2. j.pc = "batch"
      BY <1>j DEF Job
    <2> HIDE DEF j
    <2>3. job'[c].pc = "batch"
      BY <2>1, <2>2, JobStep
    <2>4. \A f \in Fingerprints : Unrolled(f)' = Unrolled(f)
      <3>1. SUFFICES ASSUME NEW f \in Fingerprints
                     PROVE  Unrolled(f)' = Unrolled(f)
        OBVIOUS
      <3>2. Unrolled(f)' = (Unrolled(f) \ {c}) \cup
                    (IF j.pc = "inserted" /\ FingerprintOf[j.event] = f THEN {c} ELSE {})
        BY <2>1, UnrolledStep
      <3>3. c \notin Unrolled(f)
        BY <2>1 DEF Unrolled
      <3>4. QED
        BY <2>2, <3>2, <3>3
    <2>5. QED
      BY <1>n, <2>1, <2>3, <2>4 DEF RollupInv
  <1>7. ASSUME NEW c \in Connections, NEW e \in Events, WriteInBatch(c, e)
        PROVE  RollupInv'
    <2>1. PICK n \in RowIds : draft' = write_event(draft, n, e)
      BY <1>7 DEF WriteInBatch
    <2>2. lock # NoConnection /\ UNCHANGED <<db, lock, job, unrolled>>
      BY <1>7, RolesAssumption DEF WriteInBatch
    <2>3. \A f \in Fingerprints : Unrolled(f)' = Unrolled(f)
      BY <2>2 DEF Unrolled
    <2>4. ASSUME NEW f \in Fingerprints
          PROVE  draft'.count[f] + db.inserts[f] = draft'.inserts[f] + db.count[f]
      <3>1. draft'.count[f] + draft.inserts[f] = draft'.inserts[f] + draft.count[f]
        BY <1>t, <2>1, WriteEventCounts
      <3>2. draft.count[f] + db.inserts[f] = draft.inserts[f] + db.count[f]
        BY <2>2 DEF RollupInv
      <3>3. draft'.count[f] \in Nat /\ draft'.inserts[f] \in Nat
        BY <1>t, <2>1, WriteEventFacts, CountFields
      <3>4. QED
        BY <1>n, <3>1, <3>2, <3>3
    <2>5. QED
      BY <2>2, <2>3, <2>4 DEF RollupInv
  <1>8. ASSUME NEW c \in Connections, Commit(c) \/ Rollback(c)
        PROVE  RollupInv'
    <2>1. /\ lock = c /\ lock # NoConnection /\ lock' = NoConnection
          /\ job' = [job EXCEPT ![c] = Idle] /\ unrolled' = unrolled
          /\ db' = draft \/ db' = db
      BY <1>8, RolesAssumption DEF Commit, Rollback, History
    <2>2. job[c].pc = "batch" /\ Idle.pc = "idle"
      BY <2>1 DEF RollupInv, Idle
    <2>3. ASSUME NEW f \in Fingerprints
          PROVE  Unrolled(f)' = Unrolled(f)
      <3>1. Unrolled(f)' = (Unrolled(f) \ {c}) \cup
                    (IF Idle.pc = "inserted" /\ FingerprintOf[Idle.event] = f THEN {c} ELSE {})
        BY <2>1, UnrolledStep
      <3>2. c \notin Unrolled(f)
        BY <2>2 DEF Unrolled
      <3>3. QED
        BY <2>2, <3>1, <3>2
    <2>4. ASSUME NEW f \in Fingerprints
          PROVE  db'.count[f] + unrolled[f] + Cardinality(Unrolled(f)) = db'.inserts[f]
      <3>1. /\ db.count[f] + unrolled[f] + Cardinality(Unrolled(f)) = db.inserts[f]
            /\ draft.count[f] + db.inserts[f] = draft.inserts[f] + db.count[f]
        BY <2>1 DEF RollupInv
      <3>2. QED
        BY <1>n, <2>1, <3>1
    <2>5. QED
      BY <1>n, <2>1, <2>3, <2>4 DEF RollupInv
  <1>9. ASSUME NEW c \in Connections, NEW e \in Events, Resolve(c, e)
        PROVE  RollupInv'
    BY <1>9, <1>t, <1>x, CountsKept DEF Resolve, Idle
  <1>10. ASSUME NEW c \in Connections, NEW force \in BOOLEAN, Match(c, force)
         PROVE  RollupInv'
    <2>1. PICK ids : job' = [job EXCEPT ![c] = ToDelete(ids)]
      BY <1>10 DEF Match
    <2>2. QED
      BY <1>10, <1>r, <2>1, ToDeletePc DEF Match
  <1>11. ASSUME NEW c \in Connections, NEW e \in Events, Lookup(c, e)
         PROVE  RollupInv'
    <2>1. CASE \E i \in DOMAIN db.rows :
                 job' = [job EXCEPT ![c].pc = "found", ![c].event = e, ![c].row = i,
                                    ![c].link = db.rows[i].hash]
      <3>1. PICK i \in DOMAIN db.rows :
              job' = [job EXCEPT ![c] = [@ EXCEPT !.pc = "found", !.event = e, !.row = i,
                                                  !.link = db.rows[i].hash]]
        BY <2>1
      <3> DEFINE j == [job[c] EXCEPT !.pc = "found", !.event = e, !.row = i,
                                    !.link = db.rows[i].hash]
      <3>2. j.pc = "found"
        BY <1>j DEF Job
      <3>3. job' = [job EXCEPT ![c] = j]
        BY <3>1
      <3> HIDE DEF j
      <3>4. QED
        BY <1>11, <1>r, <3>2, <3>3 DEF Lookup, Crosses
    <2>2. CASE job' = [job EXCEPT ![c] = ToDelete(job[c].todo \ {e})]
      BY <1>11, <1>r, <2>2, ToDeletePc DEF Lookup, Crosses
    <2>3. QED
      BY <1>11, <2>1, <2>2 DEF Lookup
  <1>12. ASSUME NEW c \in Connections, Entomb(c)
         PROVE  RollupInv'
    <2>1. [job[c] EXCEPT !.pc = "tombstoned"].pc = "tombstoned"
      BY <1>j DEF Job
    <2>2. QED
      BY <1>12, <1>t, <1>x, <2>1, CountsKept DEF Entomb
  <1>13. ASSUME NEW c \in Connections, Remove(c)
         PROVE  RollupInv'
    BY <1>13, <1>t, <1>x, CountsKept, ToDeletePc DEF Remove
  <1>14. ASSUME NEW c \in Connections, Abort(c)
         PROVE  RollupInv'
    <2>1. /\ job' = [job EXCEPT ![c] = Idle] /\ UNCHANGED <<db, draft, lock>> /\ Idle.pc = "idle"
          /\ job[c].pc # "batch"
      BY <1>14 DEF Abort, Idle, WritePcs, DeletePcs
    <2>2. CASE job[c].pc = "inserted"
      <3>1. unrolled' = [unrolled EXCEPT ![FingerprintOf[job[c].event]] = @ + 1]
        BY <1>14, <2>2 DEF Abort
      <3>2. lock # NoConnection => job'[lock] = job[lock]
        BY <2>1, JobStep DEF RollupInv, TypeOK
      <3>3. ASSUME NEW f \in Fingerprints
            PROVE  /\ IsFiniteSet(Unrolled(f)')
                   /\ db.count[f] + unrolled'[f] + Cardinality(Unrolled(f)') = db.inserts[f]
        <4>1. /\ IsFiniteSet(Unrolled(f)')
              /\ Cardinality(Unrolled(f)') + (IF f = FingerprintOf[job[c].event] THEN 1 ELSE 0)
                   = Cardinality(Unrolled(f))
              /\ Cardinality(Unrolled(f)') \in Nat
          BY <2>1, <2>2, OneLess
        <4>2. db.count[f] + unrolled[f] + Cardinality(Unrolled(f)) = db.inserts[f]
          BY DEF RollupInv
        <4>3. unrolled'[f] = unrolled[f] + (IF f = FingerprintOf[job[c].event] THEN 1 ELSE 0)
          BY <1>t, <3>1
        <4>4. QED
          BY <1>n, <4>1, <4>2, <4>3
      <3>4. QED
        BY <2>1, <3>2, <3>3 DEF RollupInv
    <2>3. CASE job[c].pc # "inserted"
      BY <1>14, <1>r, <2>1, <2>3 DEF Abort
    <2>4. QED
      BY <2>2, <2>3
  <1>15. CASE UNCHANGED vars
    BY <1>15 DEF vars, RollupInv, Unrolled
  <1>16. ASSUME NEW c \in AutocommitWriters, Write(c)
         PROVE  RollupInv'
    BY <1>1, <1>2, <1>3, <1>4, <1>5, <1>16, RolesAssumption DEF Write
  <1>17. ASSUME NEW c \in BatchWriters, Batch(c)
         PROVE  RollupInv'
    BY <1>6, <1>7, <1>8, <1>17, RolesAssumption DEF Batch
  <1>18. ASSUME NEW c \in Maintainers, Delete(c)
         PROVE  RollupInv'
    BY <1>10, <1>11, <1>12, <1>13, <1>18, RolesAssumption DEF Delete
  <1>19. QED
    BY <1>9, <1>14, <1>15, <1>16, <1>17, <1>18, RolesAssumption DEF Next

(* fingerprints.count is, for every fingerprint and at every moment, the   *)
(* number of inserts less the writes that have not reached their upsert or *)
(* stopped before it: concurrent upserts lose nothing, and a rolled back   *)
(* batch counts nothing.  (update_fingerprint)                             *)
THEOREM RollupIsCounted == Spec => []RollupCounts
  <1>1. Init => RollupInv
    <2> SUFFICES ASSUME Init
                 PROVE  RollupInv
      OBVIOUS
    <2>1. \A f : Unrolled(f) = {}
      BY DEF Init, Idle, Unrolled
    <2>2. \A f \in Fingerprints : db.count[f] = 0 /\ db.inserts[f] = 0 /\ unrolled[f] = 0
      BY DEF Init, EmptyDb
    <2>3. IsFiniteSet({}) /\ Cardinality({}) = 0
      BY FS_EmptySet
    <2>4. QED
      BY <2>1, <2>2, <2>3 DEF Init, RollupInv
  <1>2. RollupInv => RollupCounts
    BY DEF RollupInv, RollupCounts, Unrolled
  <1>3. TypeOK /\ RollupInv /\ [Next]_vars => TypeOK' /\ RollupInv'
    BY TypeStep, RollupStep
  <1>4. QED
    BY <1>1, <1>2, <1>3, InitType, PTL DEF Spec
=============================================================================
