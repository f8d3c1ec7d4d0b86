--------------------------- MODULE MigratorProofs ---------------------------
(***************************************************************************)
(* Theorems about Migrator, for any number of processes, rows and stops.   *)
(***************************************************************************)
EXTENDS Migrator, TLAPS

(***************************************************************************)
(* A thing that is checked for is one thing: if any of Added[k] exists,    *)
(* all of it does.                                                         *)
(***************************************************************************)
LEMMA StepObjects ==
  ASSUME NEW k \in Steps
  PROVE  /\ Added[k] \subseteq Objects
         /\ Created[k] \subseteq Objects
         /\ Added[k] \cap objects # {} => Added[k] \subseteq objects
         /\ Kept(k) \subseteq Added[k] \cup Created[k]
         /\ Added[k] \subseteq Kept(k)
         /\ k = 5 => Kept(k) = Added[k]
         /\ k # 5 => Kept(k) = Added[k] \cup Created[k]
<1>1. /\ Added[k] \subseteq Objects
      /\ Created[k] \subseteq Objects
  BY DEF Objects
<1>2. \E x : Added[k] = {} \/ Added[k] = {x}
  <2>1. CASE k = 2
    BY <2>1 DEF Added
  <2>2. CASE k = 5
    BY <2>2 DEF Added
  <2>3. CASE k = 6
    BY <2>3 DEF Added
  <2>4. CASE k \notin {2, 5, 6}
    BY <2>4 DEF Added
  <2> QED
    BY <2>1, <2>2, <2>3, <2>4
<1>3. Added[k] \cap objects # {} => Added[k] \subseteq objects
  BY <1>2
<1> QED
  BY <1>1, <1>3 DEF Kept

-----------------------------------------------------------------------------
(* Type correctness.                                                       *)

ProcType ==
  [pc : MigratingPcs \cup {"closed", "ready", "refused"},
   step : 0..CURRENT_SCHEMA_VERSION, link : Hash, todo : SUBSET Nat]

Typed(r) == r \in ProcType /\ (r.pc \in MigratingPcs => r.step \in Steps)

LEMMA HashTypes ==
  /\ Genesis \in Hash
  /\ NoHash \in Hash
  /\ \A i \in Nat : IntactHash(i) \in Hash
  /\ \A h \in Hash, i \in Nat : compute_hash(h, i) \in Hash
<1>1. Genesis \in Hash
  BY DEF Genesis, Hash
<1>2. NoHash \in Hash
  BY DEF NoHash, Hash
<1>3. ASSUME NEW i \in Nat PROVE IntactHash(i) \in Hash
  <2>1. IntactHash(i) \in [1..i -> Nat]
    BY DEF IntactHash
  <2> QED
    BY <2>1 DEF Hash
<1>4. ASSUME NEW h \in Hash, NEW i \in Nat PROVE compute_hash(h, i) \in Hash
  BY DEF compute_hash, Hash
<1> QED
  BY <1>1, <1>2, <1>3, <1>4

LEMMA ClosedTyped == Closed \in ProcType
  BY HashTypes, 0 \in Nat DEF Closed, ProcType, CURRENT_SCHEMA_VERSION

LEMMA EnteredTyped ==
  ASSUME NEW k \in Nat
  PROVE  Typed(IF k \in Steps
               THEN [Closed EXCEPT !.pc = FirstPc(k), !.step = k]
               ELSE [Closed EXCEPT !.pc = "ready"])
<1>1. FirstPc(k) \in MigratingPcs /\ "ready" \notin MigratingPcs
  BY DEF FirstPc, MigratingPcs
<1>2. Steps \subseteq 0..CURRENT_SCHEMA_VERSION
  BY DEF Steps, CURRENT_SCHEMA_VERSION
<1>3. CASE k \in Steps
  BY <1>1, <1>2, <1>3, ClosedTyped DEF Typed, ProcType
<1>4. CASE k \notin Steps
  BY <1>1, <1>4, ClosedTyped DEF Typed, ProcType
<1> QED
  BY <1>3, <1>4

LEMMA TypeInit ==
  ASSUME Init PROVE TypeOK
<1>1. version \in Nat /\ log \subseteq Nat
  BY BoundsAssumption DEF Init
<1>2. objects \subseteq Objects
  BY DEF Init, Objects
<1>3. rows \in Seq(Row) /\ last \in Hash
  <2>1. PICK n \in 0..(IF version = 0 THEN 0 ELSE MaxOldRows) :
          /\ rows = [i \in 1..n |->
                      [hash |-> IF version >= 6 THEN IntactHash(i) ELSE NoHash,
                       indexed |-> IF version >= 5 THEN 1 ELSE 0]]
          /\ last = IF version >= 6 THEN IntactHash(n) ELSE Genesis
    BY DEF Init
  <2>2. n \in Nat
    BY <2>1, BoundsAssumption
  <2>3. rows \in [1..n -> Row]
    BY <2>1, <2>2, HashTypes DEF Row
  <2> QED
    BY <2>1, <2>2, <2>3, HashTypes
<1>4. \A p \in Processes : Typed(proc[p])
  BY ClosedTyped DEF Init, Typed, Closed, MigratingPcs
<1>5. proc \in [Processes -> ProcType]
  BY <1>4 DEF Init, Typed
<1>6. /\ stops \in 0..MaxStops
      /\ misread \subseteq {"version", "index"}
      /\ torn \subseteq {"index", "chain"}
      /\ failed \in BOOLEAN
      /\ overlapped \in BOOLEAN
  <2>1. stops \in 0..MaxStops
    BY BoundsAssumption DEF Init
  <2> QED
    BY <2>1 DEF Init
<1> QED
  BY <1>1, <1>2, <1>3, <1>4, <1>5, <1>6 DEF TypeOK, ProcType, Typed, Migrating

ProcsTyped == proc \in [Processes -> ProcType] /\ \A x \in Processes : Typed(proc[x])

RestTyped ==
  /\ version \in Nat
  /\ log \subseteq Nat
  /\ objects \subseteq Objects
  /\ rows \in Seq(Row)
  /\ last \in Hash
  /\ stops \in 0..MaxStops
  /\ misread \subseteq {"version", "index"}
  /\ torn \subseteq {"index", "chain"}
  /\ failed \in BOOLEAN
  /\ overlapped \in BOOLEAN

LEMMA TypeParts == TypeOK <=> RestTyped /\ ProcsTyped
  BY DEF TypeOK, RestTyped, ProcsTyped, Typed, ProcType, Migrating

LEMMA TypeParts2 == TypeOK' <=> RestTyped' /\ ProcsTyped'
  BY DEF TypeOK, RestTyped, ProcsTyped, Typed, ProcType, Migrating

\* What changes one process into a typed one keeps them all typed.
LEMMA OneProc ==
  ASSUME ProcsTyped, NEW p \in Processes, NEW r, Typed(r),
         proc' = [proc EXCEPT ![p] = r]
  PROVE  ProcsTyped'
<1>1. r \in ProcType
  BY DEF Typed
<1> QED
  BY <1>1 DEF ProcsTyped

LEMMA GotoTyped ==
  ASSUME ProcsTyped, NEW p \in Processes,
         NEW pc \in MigratingPcs \cup {"ready", "refused"},
         pc \in MigratingPcs => proc[p].step \in Steps, Goto(p, pc)
  PROVE  ProcsTyped'
<1>1. proc[p] \in ProcType
  BY DEF ProcsTyped
<1>2. proc' = [proc EXCEPT ![p] = [proc[p] EXCEPT !.pc = pc]]
  BY DEF Goto
<1>3. Typed([proc[p] EXCEPT !.pc = pc])
  BY <1>1 DEF Typed, ProcType
<1> QED
  BY <1>2, <1>3, OneProc

LEMMA EnterTyped ==
  ASSUME ProcsTyped, NEW p \in Processes, NEW k \in Nat, Enter(p, k)
  PROVE  ProcsTyped'
  BY EnteredTyped, OneProc DEF Enter

LEMMA CloseTyped ==
  ASSUME ProcsTyped, NEW p \in Processes, proc' = [proc EXCEPT ![p] = Closed]
  PROVE  ProcsTyped'
<1>1. Typed(Closed)
  BY ClosedTyped DEF Typed, Closed, MigratingPcs
<1> QED
  BY <1>1, OneProc

LEMMA FailTyped ==
  ASSUME RestTyped, ProcsTyped, NEW p \in Processes, Fail(p)
  PROVE  RestTyped' /\ ProcsTyped'
  BY CloseTyped DEF Fail, RestTyped, schema, data

LEMMA MisreadTyped ==
  ASSUME RestTyped, NEW what \in {"version", "index"}, Misread(what)
  PROVE  stops' \in 0..MaxStops /\ misread' \subseteq {"version", "index"}
  BY BoundsAssumption DEF RestTyped, Misread

\* The two ways to open: with the version there is, or as if there were none.
LEMMA OpenReads ==
  ASSUME NEW p \in Processes, Open(p)
  PROVE  /\ proc[p].pc = "closed"
         /\ version' = version /\ log' = log /\ objects' = objects
         /\ rows' = rows /\ last' = last /\ torn' = torn /\ failed' = failed
         /\ \E read \in {version, 0} :
              /\ Overlap(p, read)
              /\ Goto(p, "refused") \/ Enter(p, read + 1)
              /\ \/ read = version /\ UNCHANGED <<stops, misread>>
                 \/ read = 0 /\ Misread("version")
  BY DEF Open, Begin, schema, data

\* Nothing else is misread, and what was stays so.
LEMMA MisreadStays ==
  ASSUME [Next]_vars
  PROVE  misread \subseteq misread'
<1>1. CASE UNCHANGED vars
  BY <1>1 DEF vars
<1>2. CASE Next
  <2>0. PICK p \in Processes :
          Open(p) \/ Migrate(p) \/ Stop(p) \/ Close(p) \/ Write(p)
    BY <1>2 DEF Next
  <2>1. CASE Open(p)
    BY <2>1, OpenReads DEF Misread
  <2>2. CASE Migrate(p)
    BY <2>2 DEF Migrate, Check, Add, Create, EndCreate, FillIndex, ReadEnd,
           SelectUnhashed, HashRow, SetEnd, Stamp, Record, Fail, Misread, history
  <2>3. CASE Stop(p) \/ Close(p) \/ Write(p)
    BY <2>3 DEF Stop, Close, Write, history
  <2> QED
    BY <2>0, <2>1, <2>2, <2>3
<1> QED
  BY <1>1, <1>2

-----------------------------------------------------------------------------
LEMMA MigrateTyped ==
  ASSUME TypeOK, NEW p \in Processes, Migrate(p)
  PROVE  TypeOK'
<1> DEFINE k == proc[p].step
<1>0. RestTyped /\ ProcsTyped
  BY TypeParts
<1>1. proc[p].pc \in MigratingPcs /\ k \in Steps /\ k \in Nat /\ proc[p] \in ProcType
  <2>1. proc[p].pc \in MigratingPcs
    BY DEF Migrate, Check, Add, Create, EndCreate, FillIndex, ReadEnd,
           SelectUnhashed, HashRow, SetEnd, Stamp, Record, MigratingPcs
  <2> QED
    BY <2>1, <1>0 DEF ProcsTyped, Typed, Steps, CURRENT_SCHEMA_VERSION
<1>2. k + 1 \in Nat /\ k \in 1..CURRENT_SCHEMA_VERSION
  BY <1>1 DEF Steps
<1>k. /\ Added[k] \subseteq Objects
      /\ Created[k] \subseteq Objects
  BY <1>1, StepObjects
<1>pcs. /\ "add" \in MigratingPcs /\ "create" \in MigratingPcs
        /\ "stamp" \in MigratingPcs /\ "record" \in MigratingPcs
        /\ AfterCreate(k) \in MigratingPcs
  BY DEF MigratingPcs, AfterCreate
<1> HIDE DEF k
<1>3. CASE Check(p)
  <2>1. stops' \in 0..MaxStops /\ misread' \subseteq {"version", "index"}
    <3>1. UNCHANGED <<stops, misread>> \/ Misread("index")
      BY <1>3 DEF Check
    <3> QED
      BY <3>1, <1>0, MisreadTyped DEF RestTyped
  <2>3. RestTyped'
    BY <1>3, <1>0, <2>1 DEF Check, RestTyped, schema, data
  <2>2. PICK pc \in MigratingPcs : Goto(p, pc)
    BY <1>3, <1>pcs DEF Check, k
  <2> QED
    BY <2>3, <2>2, <1>0, <1>1, GotoTyped, TypeParts2 DEF k
<1>4. CASE Add(p)
  <2>1. CASE Fail(p)
    BY <2>1, <1>0, FailTyped, TypeParts2
  <2>2. CASE ~Fail(p)
    <3>1. /\ objects' = objects \cup Added[k]
          /\ Goto(p, "create")
          /\ UNCHANGED <<version, log, data, history>>
      BY <1>4, <2>2 DEF Add, k
    <3>2. RestTyped'
      BY <3>1, <1>0, <1>k DEF RestTyped, data, history
    <3> QED
      BY <3>1, <3>2, <1>0, <1>1, <1>pcs, GotoTyped, TypeParts2 DEF k
  <2> QED
    BY <2>1, <2>2
<1>5. CASE Create(p)
  <2>1. RestTyped'
    BY <1>5, <1>0, <1>k DEF Create, RestTyped, data, history, k
  <2>2. ProcsTyped'
    BY <1>5, <1>0 DEF Create, ProcsTyped
  <2> QED
    BY <2>1, <2>2, TypeParts2
<1>6. CASE EndCreate(p)
  <2>1. RestTyped'
    BY <1>6, <1>0 DEF EndCreate, RestTyped, schema, data, history
  <2>2. Goto(p, AfterCreate(k))
    BY <1>6 DEF EndCreate, k
  <2> QED
    BY <2>1, <2>2, <1>0, <1>1, <1>pcs, GotoTyped, TypeParts2 DEF k
<1>7. CASE FillIndex(p)
  <2>1. rows' \in Seq(Row)
    <3>1. rows \in [1..Len(rows) -> Row] /\ DOMAIN rows = 1..Len(rows) /\ Len(rows) \in Nat
      BY <1>0 DEF RestTyped
    <3>2. rows' = [i \in 1..Len(rows) |-> [rows[i] EXCEPT !.indexed = @ + 1]]
      BY <1>7, <3>1 DEF FillIndex
    <3>3. \A i \in 1..Len(rows) : [rows[i] EXCEPT !.indexed = @ + 1] \in Row
      BY <3>1 DEF Row
    <3>4. rows' \in [1..Len(rows) -> Row]
      BY <3>2, <3>3
    <3> QED
      BY <3>1, <3>4
  <2>2. RestTyped'
    BY <2>1, <1>7, <1>0 DEF FillIndex, RestTyped, schema, history
  <2>3. Goto(p, "stamp")
    BY <1>7 DEF FillIndex
  <2> QED
    BY <2>2, <2>3, <1>0, <1>1, <1>pcs, GotoTyped, TypeParts2 DEF k
<1>8. CASE ReadEnd(p)
  <2>1. RestTyped'
    BY <1>8, <1>0 DEF ReadEnd, RestTyped, schema, data, history
  <2>2. proc' = [proc EXCEPT ![p] = [proc[p] EXCEPT !.pc = "select", !.link = last]]
    BY <1>8, <1>0 DEF ReadEnd, ProcsTyped
  <2>3. Typed([proc[p] EXCEPT !.pc = "select", !.link = last])
    <3>1. last \in Hash
      BY <1>0 DEF RestTyped
    <3> QED
      BY <3>1, <1>1 DEF Typed, ProcType, MigratingPcs, k
  <2> QED
    BY <2>1, <2>2, <2>3, <1>0, OneProc, TypeParts2
<1>9. CASE SelectUnhashed(p)
  <2> DEFINE S == {i \in DOMAIN rows : rows[i].hash = NoHash}
  <2>1. RestTyped'
    BY <1>9, <1>0 DEF SelectUnhashed, RestTyped, schema, data, history
  <2>2. S \in SUBSET Nat
    BY <1>0 DEF RestTyped
  <2>3. proc' = [proc EXCEPT ![p] = [proc[p] EXCEPT !.pc = "chain", !.todo = S]]
    BY <1>9, <1>0 DEF SelectUnhashed, ProcsTyped
  <2> HIDE DEF S
  <2>4. Typed([proc[p] EXCEPT !.pc = "chain", !.todo = S])
    BY <2>2, <1>1 DEF Typed, ProcType, MigratingPcs, k
  <2> QED
    BY <2>1, <2>3, <2>4, <1>0, OneProc, TypeParts2
<1>10. CASE HashRow(p)
  <2> DEFINE h(i) == compute_hash(proc[p].link, i)
             r(i) == [proc[p] EXCEPT !.link = h(i), !.todo = @ \ {i}]
  <2>1. PICK i \in proc[p].todo :
          /\ rows' = [rows EXCEPT ![i].hash = h(i)]
          /\ proc' = [proc EXCEPT ![p].link = h(i), ![p].todo = @ \ {i}]
    BY <1>10 DEF HashRow
  <2>2. proc[p].todo \in SUBSET Nat /\ proc[p].link \in Hash
    BY <1>1 DEF ProcType
  <2>3. h(i) \in Hash
    BY <2>1, <2>2, HashTypes
  <2> HIDE DEF h
  <2>4. proc' = [proc EXCEPT ![p] = r(i)]
    BY <2>1, <1>0 DEF ProcsTyped
  <2>5. Typed(r(i))
    BY <2>1, <2>2, <2>3, <1>1 DEF Typed, ProcType, k
  <2> HIDE DEF r
  <2>6. rows' \in Seq(Row)
    <3>1. rows \in [1..Len(rows) -> Row] /\ DOMAIN rows = 1..Len(rows) /\ Len(rows) \in Nat
      BY <1>0 DEF RestTyped
    <3>2. rows' = [rows EXCEPT ![i] = [rows[i] EXCEPT !.hash = h(i)]]
      BY <2>1
    <3>3. i \in 1..Len(rows) => [rows[i] EXCEPT !.hash = h(i)] \in Row
      BY <3>1, <2>3 DEF Row
    <3>4. rows' \in [1..Len(rows) -> Row]
      BY <3>1, <3>2, <3>3
    <3> QED
      BY <3>1, <3>4
  <2>7. RestTyped'
    BY <2>6, <1>10, <1>0 DEF HashRow, RestTyped, schema, history
  <2> QED
    BY <2>4, <2>5, <2>7, <1>0, OneProc, TypeParts2
<1>11. CASE SetEnd(p)
  <2>1. proc[p].link \in Hash
    BY <1>1 DEF ProcType
  <2>2. RestTyped'
    BY <2>1, <1>11, <1>0 DEF SetEnd, RestTyped, schema, history
  <2>3. Goto(p, "stamp")
    BY <1>11 DEF SetEnd
  <2> QED
    BY <2>2, <2>3, <1>0, <1>1, <1>pcs, GotoTyped, TypeParts2 DEF k
<1>12. CASE Stamp(p)
  <2>1. RestTyped'
    BY <1>12, <1>0, <1>1 DEF Stamp, RestTyped, data, history, k
  <2>2. Goto(p, "record")
    BY <1>12 DEF Stamp
  <2> QED
    BY <2>1, <2>2, <1>0, <1>1, <1>pcs, GotoTyped, TypeParts2 DEF k
<1>13. CASE Record(p)
  <2>1. CASE Fail(p)
    BY <2>1, <1>0, FailTyped, TypeParts2
  <2>2. CASE ~Fail(p)
    <3>1. /\ log' = log \cup {k}
          /\ Enter(p, k + 1)
          /\ UNCHANGED <<version, objects, data, history>>
      BY <1>13, <2>2 DEF Record, k
    <3>2. RestTyped'
      BY <3>1, <1>0, <1>1 DEF RestTyped, data, history
    <3> QED
      BY <3>1, <3>2, <1>0, <1>2, EnterTyped, TypeParts2
  <2> QED
    BY <2>1, <2>2
<1> QED
  BY <1>3, <1>4, <1>5, <1>6, <1>7, <1>8, <1>9, <1>10, <1>11, <1>12, <1>13 DEF Migrate

LEMMA TypeStep ==
  ASSUME TypeOK, [Next]_vars PROVE TypeOK'
<1>0. RestTyped /\ ProcsTyped
  BY TypeParts
<1>1. CASE UNCHANGED vars
  BY <1>1 DEF vars, TypeOK, Migrating
<1>2. CASE Next
  <2>0. PICK p \in Processes :
          Open(p) \/ Migrate(p) \/ Stop(p) \/ Close(p) \/ Write(p)
    BY <1>2 DEF Next
  <2>1. CASE Open(p)
    <3>0. PICK read \in {version, 0} :
            /\ Overlap(p, read)
            /\ Goto(p, "refused") \/ Enter(p, read + 1)
            /\ UNCHANGED <<stops, misread>> \/ Misread("version")
      BY <2>1, OpenReads
    <3>1. RestTyped'
      <4>1. stops' \in 0..MaxStops /\ misread' \subseteq {"version", "index"}
        BY <3>0, <1>0, MisreadTyped DEF RestTyped
      <4> QED
        BY <2>1, <3>0, <4>1, <1>0, OpenReads DEF Overlap, RestTyped
    <3>2. CASE Goto(p, "refused")
      <4>1. "refused" \notin MigratingPcs
        BY DEF MigratingPcs
      <4> QED
        BY <3>1, <3>2, <4>1, <1>0, GotoTyped, TypeParts2
    <3>3. CASE Enter(p, read + 1)
      <4>1. read + 1 \in Nat
        BY <1>0 DEF RestTyped
      <4> QED
        BY <3>1, <3>3, <4>1, <1>0, EnterTyped, TypeParts2
    <3> QED
      BY <3>0, <3>2, <3>3
  <2>2. CASE Migrate(p)
    BY <2>2, MigrateTyped
  <2>3. CASE Stop(p)
    <3>1. stops' \in 0..MaxStops
      BY <2>3, <1>0, BoundsAssumption DEF Stop, RestTyped
    <3>2. torn' \subseteq {"index", "chain"}
      BY <2>3, <1>0 DEF Stop, RestTyped, LeavesTorn
    <3>3. RestTyped'
      BY <3>1, <3>2, <2>3, <1>0 DEF Stop, RestTyped, schema, data
    <3> QED
      BY <3>3, <2>3, <1>0, CloseTyped, TypeParts2 DEF Stop
  <2>4. CASE Close(p)
    <3>1. RestTyped'
      BY <2>4, <1>0 DEF Close, RestTyped, schema, data, history
    <3> QED
      BY <3>1, <2>4, <1>0, CloseTyped, TypeParts2 DEF Close
  <2>5. CASE Write(p)
    <3> DEFINE h == compute_hash(last, Len(rows) + 1)
               x == IF "events_ai" \in objects THEN 1 ELSE 0
    <3>1. Len(rows) + 1 \in Nat /\ last \in Hash /\ rows \in Seq(Row)
      BY <1>0 DEF RestTyped
    <3>2. h \in Hash
      BY <3>1, HashTypes
    <3>3. rows' = Append(rows, [hash |-> h, indexed |-> x]) /\ last' = h
      BY <2>5 DEF Write
    <3>4. x \in Nat
      OBVIOUS
    <3> HIDE DEF h, x
    <3>5. [hash |-> h, indexed |-> x] \in Row
      BY <3>2, <3>4 DEF Row
    <3>6. rows' \in Seq(Row)
      BY <3>1, <3>3, <3>5
    <3>9. torn' \subseteq {"index", "chain"}
      BY <2>5, <1>0 DEF Write, RestTyped
    <3>7. RestTyped'
      BY <3>2, <3>3, <3>6, <3>9, <2>5, <1>0 DEF Write, RestTyped, schema
    <3>8. ProcsTyped'
      BY <2>5, <1>0 DEF Write, ProcsTyped
    <3> QED
      BY <3>7, <3>8, TypeParts2
  <2> QED
    BY <2>0, <2>1, <2>2, <2>3, <2>4, <2>5
<1> QED
  BY <1>1, <1>2

(***************************************************************************)
(* The state of the database and of every migrating process has its type.  *)
(***************************************************************************)
THEOREM TypeCorrect == Spec => []TypeOK
<1>1. Init => TypeOK
  BY TypeInit
<1>2. TypeOK /\ [Next]_vars => TypeOK'
  BY TypeStep
<1> QED
  BY <1>1, <1>2, PTL DEF Spec

-----------------------------------------------------------------------------
(* The schema is complete.                                                 *)

(***************************************************************************)
(* What a process knows of the database: the steps below its own are done; *)
(* past the check, what its step adds exists; past the creation, its step  *)
(* is done.  Nothing is ever dropped, so no other process can change that. *)
(***************************************************************************)
Knows(r, objs) ==
  /\ r.pc \in MigratingPcs => \A j \in Steps : j < r.step => Kept(j) \subseteq objs
  /\ r.pc = "create" => Added[r.step] \subseteq objs
  /\ r.pc \in {"fill", "readEnd", "select", "chain", "stamp", "record"}
       => Kept(r.step) \subseteq objs
  /\ r.pc = "ready" => \A j \in Steps : Kept(j) \subseteq objs

SchemaInv ==
  /\ TypeOK
  /\ \A j \in Steps : j <= version => Kept(j) \subseteq objects
  /\ \A p \in Processes : Knows(proc[p], objects)

LEMMA KnowsGrows ==
  ASSUME NEW r, NEW A, NEW B, A \subseteq B, Knows(r, A)
  PROVE  Knows(r, B)
  BY DEF Knows

LEMMA EnteredKnows ==
  ASSUME NEW k \in Nat, NEW objs,
         \A j \in Steps : j < k => Kept(j) \subseteq objs
  PROVE  Knows(IF k \in Steps
               THEN [Closed EXCEPT !.pc = FirstPc(k), !.step = k]
               ELSE [Closed EXCEPT !.pc = "ready"], objs) \/ k = 0
<1>1. CASE k \in Steps
  <2> DEFINE r == [Closed EXCEPT !.pc = FirstPc(k), !.step = k]
  <2>1. r.step = k /\ r.pc = FirstPc(k)
    BY DEF Closed
  <2>2. r.pc = "check" \/ (r.pc = "create" /\ Added[k] = {})
    BY <2>1 DEF FirstPc
  <2> HIDE DEF r
  <2>3. Knows(r, objs)
    BY <2>1, <2>2, <1>1 DEF Knows
  <2> QED
    BY <2>3, <1>1 DEF r
<1>2. CASE k \notin Steps /\ k # 0
  <2> DEFINE r == [Closed EXCEPT !.pc = "ready"]
  <2>1. \A j \in Steps : j < k
    BY <1>2 DEF Steps, CURRENT_SCHEMA_VERSION
  <2>2. r.pc = "ready"
    BY DEF Closed
  <2> HIDE DEF r
  <2>3. Knows(r, objs)
    BY <2>1, <2>2 DEF Knows, MigratingPcs
  <2> QED
    BY <2>3, <1>2 DEF r
<1> QED
  BY <1>1, <1>2

\* Only what one process comes to know has to be shown, if nothing is dropped.
LEMMA OneKnows ==
  ASSUME SchemaInv, NEW p \in Processes, NEW r,
         proc' = [proc EXCEPT ![p] = r], objects \subseteq objects',
         Knows(r, objects')
  PROVE  \A x \in Processes : Knows(proc'[x], objects')
<1> SUFFICES ASSUME NEW x \in Processes PROVE Knows(proc'[x], objects')
  OBVIOUS
<1>1. proc \in [Processes -> ProcType]
  BY DEF SchemaInv, TypeOK, ProcType
<1>2. CASE x = p
  BY <1>1, <1>2
<1>3. CASE x # p
  <2>1. proc'[x] = proc[x] /\ Knows(proc[x], objects)
    BY <1>1, <1>3 DEF SchemaInv
  <2> QED
    BY <2>1, KnowsGrows
<1> QED
  BY <1>2, <1>3

LEMMA ClosedKnows == ASSUME NEW objs PROVE Knows(Closed, objs)
  BY DEF Knows, Closed, MigratingPcs

LEMMA SchemaInit == ASSUME Init PROVE SchemaInv
<1>1. TypeOK
  BY TypeInit
<1>2. ASSUME NEW j \in Steps, j <= version PROVE Kept(j) \subseteq objects
  BY <1>2, StepObjects DEF Init
<1>3. \A p \in Processes : proc[p] = Closed
  BY DEF Init
<1>4. \A p \in Processes : Knows(proc[p], objects)
  BY <1>3, ClosedKnows
<1> QED
  BY <1>1, <1>2, <1>4 DEF SchemaInv

\* Going to pc within the step, with what the step has made so far.
LEMMA GotoKnows ==
  ASSUME SchemaInv, NEW p \in Processes, NEW pc \in MigratingPcs,
         proc[p].pc \in MigratingPcs, Goto(p, pc), objects \subseteq objects',
         pc = "create" => Added[proc[p].step] \subseteq objects',
         pc \in {"fill", "readEnd", "select", "chain", "stamp", "record"}
           => Kept(proc[p].step) \subseteq objects'
  PROVE  \A x \in Processes : Knows(proc'[x], objects')
<1> DEFINE r == [proc[p] EXCEPT !.pc = pc]
<1>1. proc[p] \in ProcType
  BY DEF SchemaInv, TypeOK, ProcType
<1>2. r.pc = pc /\ r.step = proc[p].step
  BY <1>1 DEF ProcType
<1>3. proc' = [proc EXCEPT ![p] = r]
  BY DEF Goto
<1> HIDE DEF r
<1>4. Knows(proc[p], objects)
  BY DEF SchemaInv
<1>5. Knows(r, objects')
  BY <1>2, <1>4 DEF Knows, MigratingPcs
<1> QED
  BY <1>3, <1>5, OneKnows

\* Chaining a row leaves the process where it is.
LEMMA HashRowProc ==
  ASSUME TypeOK, NEW p \in Processes, HashRow(p)
  PROVE  proc'[p].step = proc[p].step /\ proc'[p].pc = "chain" /\ proc[p].pc = "chain"
<1> DEFINE h(i) == compute_hash(proc[p].link, i)
<1>1. PICK i \in proc[p].todo :
        proc' = [proc EXCEPT ![p].link = h(i), ![p].todo = @ \ {i}]
  BY DEF HashRow
<1> HIDE DEF h
<1>2. proc \in [Processes -> ProcType] /\ proc[p].pc = "chain"
  BY DEF TypeOK, ProcType, HashRow
<1> QED
  BY <1>1, <1>2 DEF ProcType

LEMMA MigrateKnows ==
  ASSUME SchemaInv, NEW p \in Processes, Migrate(p)
  PROVE  /\ objects \subseteq objects'
         /\ \A x \in Processes : Knows(proc'[x], objects')
<1> DEFINE k == proc[p].step
<1>1. proc[p].pc \in MigratingPcs
  BY DEF Migrate, Check, Add, Create, EndCreate, FillIndex, ReadEnd,
         SelectUnhashed, HashRow, SetEnd, Stamp, Record, MigratingPcs
<1>2. /\ k \in Steps /\ k \in Nat /\ k + 1 \in Nat
      /\ proc[p] \in ProcType /\ proc \in [Processes -> ProcType]
  BY <1>1 DEF SchemaInv, TypeOK, ProcType, Steps, CURRENT_SCHEMA_VERSION, Migrating
<1>3. /\ Added[k] \cap objects # {} => Added[k] \subseteq objects
      /\ k = 5 => Kept(k) = Added[k]
      /\ Kept(k) \subseteq Added[k] \cup Created[k]
  BY <1>2, StepObjects
<1>4. Knows(proc[p], objects)
  BY DEF SchemaInv
<1>pcs. /\ "add" \in MigratingPcs /\ "create" \in MigratingPcs
        /\ "stamp" \in MigratingPcs /\ "record" \in MigratingPcs
        /\ AfterCreate(k) \in MigratingPcs /\ AfterCreate(k) # "create"
  BY DEF MigratingPcs, AfterCreate
<1>f. ASSUME Fail(p)
      PROVE  objects \subseteq objects' /\ \A x \in Processes : Knows(proc'[x], objects')
  <2>1. objects' = objects /\ proc' = [proc EXCEPT ![p] = Closed]
    BY <1>f DEF Fail, schema
  <2> QED
    BY <2>1, ClosedKnows, OneKnows
<1>5. CASE Check(p)
  <2>1. objects' = objects
    BY <1>5 DEF Check, schema
  <2>2. PICK pc \in {"add", "stamp", "create"} :
          /\ Goto(p, pc)
          /\ pc \in {"stamp", "create"} => Added[k] \subseteq objects
          /\ pc = "stamp" => k = 5
    BY <1>5, <1>3 DEF Check
  <2> HIDE DEF k
  <2> QED
    BY <2>1, <2>2, <1>1, <1>3, <1>pcs, GotoKnows DEF k
<1>6. CASE Add(p)
  <2>1. CASE ~Fail(p)
    <3>1. objects' = objects \cup Added[k] /\ Goto(p, "create")
      BY <1>6, <2>1 DEF Add
    <3> QED
      BY <3>1, <1>1, <1>pcs, GotoKnows
  <2> QED
    BY <2>1, <1>f
<1>7. CASE Create(p)
  <2>1. objects \subseteq objects' /\ proc' = proc
    BY <1>7 DEF Create
  <2>2. \A x \in Processes : Knows(proc[x], objects')
    BY <2>1, KnowsGrows DEF SchemaInv
  <2> QED
    BY <2>1, <2>2
<1>8. CASE EndCreate(p)
  <2>1. objects' = objects /\ Goto(p, AfterCreate(k)) /\ Created[k] \subseteq objects
    BY <1>8 DEF EndCreate, schema
  <2>2. Added[k] \subseteq objects
    BY <1>8, <1>4 DEF EndCreate, Knows
  <2>3. Kept(k) \subseteq objects
    BY <2>1, <2>2, <1>3
  <2> QED
    BY <2>1, <2>3, <1>1, <1>pcs, GotoKnows
<1>9. CASE FillIndex(p) \/ SetEnd(p)
  <2>1. objects' = objects /\ Goto(p, "stamp") /\ Kept(k) \subseteq objects
    BY <1>9, <1>4 DEF FillIndex, SetEnd, schema, Knows
  <2> QED
    BY <2>1, <1>1, <1>pcs, GotoKnows
<1>10. CASE Stamp(p)
  <2>1. objects' = objects /\ Goto(p, "record") /\ Kept(k) \subseteq objects
    BY <1>10, <1>4 DEF Stamp, Knows
  <2> QED
    BY <2>1, <1>1, <1>pcs, GotoKnows
<1>11. CASE ReadEnd(p) \/ SelectUnhashed(p) \/ HashRow(p)
  <2> DEFINE r == proc'[p]
  <2>1. objects' = objects
    BY <1>11 DEF ReadEnd, SelectUnhashed, HashRow, schema
  <2>2. proc' = [proc EXCEPT ![p] = r]
    BY <1>11, <1>2 DEF ReadEnd, SelectUnhashed, HashRow
  <2>3. /\ r.step = k
        /\ r.pc \in {"select", "chain"}
        /\ proc[p].pc \in {"readEnd", "select", "chain"}
    <3>1. CASE ReadEnd(p)
      BY <3>1, <1>2 DEF ReadEnd, ProcType
    <3>2. CASE SelectUnhashed(p)
      BY <3>2, <1>2 DEF SelectUnhashed, ProcType
    <3>3. CASE HashRow(p)
      BY <3>3, HashRowProc DEF SchemaInv
    <3> QED
      BY <1>11, <3>1, <3>2, <3>3
  <2> HIDE DEF r
  <2>4. Knows(r, objects)
    BY <2>3, <1>4 DEF Knows, MigratingPcs
  <2> QED
    BY <2>1, <2>2, <2>4, OneKnows
<1>12. CASE Record(p)
  <2>1. CASE ~Fail(p)
    <3>1. objects' = objects /\ Enter(p, k + 1)
      BY <1>12, <2>1 DEF Record
    <3>2. ASSUME NEW j \in Steps, j < k + 1 PROVE Kept(j) \subseteq objects
      <4>1. j < k \/ j = k
        BY <3>2, <1>2 DEF Steps
      <4>2. proc[p].pc = "record"
        BY <1>12 DEF Record
      <4> QED
        BY <4>1, <4>2, <1>1, <1>4 DEF Knows
    <3>3. k + 1 # 0
      BY <1>2
    <3> HIDE DEF k
    <3>4. PICK r : proc' = [proc EXCEPT ![p] = r] /\ Knows(r, objects)
      BY <3>1, <3>2, <3>3, <1>2, EnteredKnows DEF Enter
    <3> QED
      BY <3>1, <3>4, OneKnows
  <2> QED
    BY <2>1, <1>f
<1> QED
  BY <1>5, <1>6, <1>7, <1>8, <1>9, <1>10, <1>11, <1>12 DEF Migrate

\* A version that is written is that of a step the process has done.
LEMMA VersionKept ==
  ASSUME SchemaInv, NEW p \in Processes, Migrate(p), objects \subseteq objects'
  PROVE  \A j \in Steps : j <= version' => Kept(j) \subseteq objects'
<1>1. CASE Stamp(p)
  <2>1. /\ version' = proc[p].step /\ proc[p].pc = "stamp"
        /\ Knows(proc[p], objects) /\ proc[p].pc \in MigratingPcs
    BY <1>1 DEF Stamp, SchemaInv, MigratingPcs
  <2>2. proc[p].step \in Nat
    BY DEF SchemaInv, TypeOK, CURRENT_SCHEMA_VERSION
  <2>3. ASSUME NEW j \in Steps, j <= version' PROVE Kept(j) \subseteq objects
    <3>1. j < proc[p].step \/ j = proc[p].step
      BY <2>1, <2>2, <2>3 DEF Steps
    <3> QED
      BY <2>1, <3>1 DEF Knows
  <2> QED
    BY <2>3
<1>2. CASE ~Stamp(p)
  <2>1. version' = version
    BY <1>2 DEF Migrate, Check, Add, Create, EndCreate, FillIndex, ReadEnd,
                SelectUnhashed, HashRow, SetEnd, Record, Fail, schema
  <2> QED
    BY <2>1 DEF SchemaInv
<1> QED
  BY <1>1, <1>2

LEMMA SchemaStep ==
  ASSUME SchemaInv, [Next]_vars PROVE SchemaInv'
<1>1. TypeOK'
  BY TypeStep DEF SchemaInv
<1>2. CASE UNCHANGED vars
  <2>1. version' = version /\ objects' = objects /\ proc' = proc
    BY <1>2 DEF vars
  <2> QED
    BY <2>1, <1>1 DEF SchemaInv
<1>3. CASE Next
  <2>0. PICK p \in Processes :
          Open(p) \/ Migrate(p) \/ Stop(p) \/ Close(p) \/ Write(p)
    BY <1>3 DEF Next
  <2>1. CASE Open(p)
    <3>1. objects' = objects /\ version' = version
      BY <2>1, OpenReads
    <3>0. PICK read \in {version, 0} : Goto(p, "refused") \/ Enter(p, read + 1)
      BY <2>1, OpenReads
    <3>2. CASE Goto(p, "refused")
      <4> DEFINE r == [proc[p] EXCEPT !.pc = "refused"]
      <4>1. proc' = [proc EXCEPT ![p] = r]
        BY <3>2 DEF Goto
      <4>2. r.pc = "refused"
        BY DEF SchemaInv, TypeOK
      <4> HIDE DEF r
      <4>3. Knows(r, objects)
        BY <4>2 DEF Knows, MigratingPcs
      <4> QED
        BY <3>1, <4>1, <4>3, <1>1, OneKnows DEF SchemaInv
    <3>3. CASE Enter(p, read + 1)
      <4>1. version \in Nat /\ read \in Nat /\ read + 1 \in Nat /\ read + 1 # 0
        BY DEF SchemaInv, TypeOK
      <4>2. ASSUME NEW j \in Steps, j < read + 1 PROVE Kept(j) \subseteq objects
        BY <4>1, <4>2 DEF SchemaInv, Steps
      <4>3. PICK r : proc' = [proc EXCEPT ![p] = r] /\ Knows(r, objects)
        BY <3>3, <4>1, <4>2, EnteredKnows DEF Enter
      <4> QED
        BY <3>1, <4>3, <1>1, OneKnows DEF SchemaInv
    <3> QED
      BY <3>0, <3>2, <3>3
  <2>2. CASE Migrate(p)
    BY <2>2, <1>1, MigrateKnows, VersionKept DEF SchemaInv
  <2>3. CASE Stop(p) \/ Close(p)
    <3>1. /\ objects' = objects /\ version' = version
          /\ proc' = [proc EXCEPT ![p] = Closed]
      BY <2>3 DEF Stop, Close, schema
    <3> QED
      BY <3>1, <1>1, ClosedKnows, OneKnows DEF SchemaInv
  <2>4. CASE Write(p)
    <3>1. objects' = objects /\ version' = version /\ proc' = proc
      BY <2>4 DEF Write, schema
    <3> QED
      BY <3>1, <1>1 DEF SchemaInv
  <2> QED
    BY <2>0, <2>1, <2>2, <2>3, <2>4
<1> QED
  BY <1>2, <1>3

\* The process that creates the index creates its triggers, or is stopped.
LEMMA TriggeredStep ==
  ASSUME SchemaInv, Triggered, [Next]_vars
  PROVE  Triggered'
<1> DEFINE Creating(r) == r.step = 5 /\ r.pc = "create"
<1> SUFFICES ASSUME Added[5] \subseteq objects', "index" \notin torn',
                    \A x \in Processes : ~Creating(proc'[x])
             PROVE  Created[5] \subseteq objects'
  BY DEF Triggered
<1>0. proc \in [Processes -> ProcType] /\ TypeOK
  BY DEF SchemaInv, TypeOK, ProcType
<1>1. CASE UNCHANGED vars
  BY <1>1 DEF vars, Triggered
<1>2. CASE Next
  <2>0. PICK p \in Processes :
          Open(p) \/ Migrate(p) \/ Stop(p) \/ Close(p) \/ Write(p)
    BY <1>2 DEF Next
  \* A step that adds nothing, and after which p does not create, if it did.
  <2>q. ASSUME objects' = objects, torn \subseteq torn', ~Creating(proc[p]),
               \A x \in Processes \ {p} : proc'[x] = proc[x]
        PROVE  Created[5] \subseteq objects'
    BY <2>q DEF Triggered
  <2>1. CASE Open(p)
    <3>1. \A x \in Processes \ {p} : proc'[x] = proc[x]
      BY <2>1, <1>0, OpenReads DEF Goto, Enter
    <3> QED
      BY <2>1, <3>1, <2>q, OpenReads
  <2>2. CASE Migrate(p)
    <3>0. torn' = torn
      BY <2>2 DEF Migrate, Check, Add, Create, EndCreate, FillIndex, ReadEnd,
             SelectUnhashed, HashRow, SetEnd, Stamp, Record, Fail, history
    <3>1. CASE Create(p)
      <4>1. proc' = proc /\ objects \subseteq objects'
        BY <3>1 DEF Create
      <4>2. \E o : objects' = objects \cup {o} /\ o \in Created[proc[p].step]
        BY <3>1 DEF Create
      <4>3. ~Creating(proc[p]) /\ proc[p].pc = "create" /\ proc[p].step \in Steps
        BY <3>1, <4>1, <1>0 DEF Create, TypeOK, Migrating, MigratingPcs
      <4>4. Added[5] \subseteq objects
        <5>1. "events_fts" \notin Created[proc[p].step] /\ Added[5] = {"events_fts"}
          BY <4>3 DEF Steps, CURRENT_SCHEMA_VERSION, Created, Added
        <5> QED
          BY <4>2, <5>1
      <4> QED
        BY <3>0, <4>1, <4>4 DEF Triggered
    <3>2. CASE Add(p)
      <4>1. CASE Fail(p)
        <5>1. ~Creating(proc[p]) /\ \A x \in Processes \ {p} : proc'[x] = proc[x]
          BY <3>2, <4>1, <1>0 DEF Add, Fail
        <5> QED
          BY <3>0, <4>1, <5>1, <2>q DEF Fail, schema
      <4>2. CASE ~Fail(p)
        <5>1. /\ objects' = objects \cup Added[proc[p].step] /\ Goto(p, "create")
              /\ proc[p].pc = "add"
          BY <3>2, <4>2 DEF Add
        <5>2. proc'[p].pc = "create" /\ proc'[p].step = proc[p].step /\ proc[p].step \in Steps
          BY <5>1, <1>0 DEF Goto, ProcType, TypeOK, Migrating, MigratingPcs
        <5>3. proc[p].step # 5
          BY <5>2
        <5>4. "events_fts" \notin Added[proc[p].step] /\ Added[5] = {"events_fts"}
          BY <5>2, <5>3 DEF Steps, CURRENT_SCHEMA_VERSION, Added
        <5>5. \A x \in Processes : ~Creating(proc[x])
          BY <5>1, <1>0 DEF Goto
        <5> QED
          BY <3>0, <5>1, <5>4, <5>5 DEF Triggered
      <4> QED
        BY <4>1, <4>2
    <3>3. CASE EndCreate(p)
      <4>1. objects' = objects /\ Created[proc[p].step] \subseteq objects /\ Goto(p, AfterCreate(proc[p].step))
        BY <3>3 DEF EndCreate, schema
      <4>2. \A x \in Processes \ {p} : proc'[x] = proc[x]
        BY <4>1, <1>0 DEF Goto
      <4> QED
        BY <3>0, <4>1, <4>2, <2>q
    <3>4. CASE ~Create(p) /\ ~Add(p) /\ ~EndCreate(p)
      <4>1. objects' = objects /\ ~Creating(proc[p])
        BY <2>2, <3>4 DEF Migrate, Check, FillIndex, ReadEnd, SelectUnhashed, HashRow,
             SetEnd, Stamp, Record, Fail, schema
      <4>2. \A x \in Processes \ {p} : proc'[x] = proc[x]
        BY <2>2, <3>4, <1>0 DEF Migrate, Check, FillIndex, ReadEnd, SelectUnhashed, HashRow,
             SetEnd, Stamp, Record, Fail, Goto, Enter
      <4> QED
        BY <3>0, <4>1, <4>2, <2>q
    <3> QED
      BY <3>1, <3>2, <3>3, <3>4
  <2>3. CASE Stop(p)
    <3>1. ~Creating(proc[p]) /\ \A x \in Processes \ {p} : proc'[x] = proc[x]
      BY <2>3, <1>0 DEF Stop, LeavesTorn
    <3> QED
      BY <2>3, <3>1, <2>q DEF Stop, schema
  <2>4. CASE Close(p)
    <3>1. ~Creating(proc[p]) /\ \A x \in Processes \ {p} : proc'[x] = proc[x]
      BY <2>4, <1>0 DEF Close
    <3> QED
      BY <2>4, <3>1, <2>q DEF Close, schema, history
  <2>5. CASE Write(p)
    <3>1. proc' = proc /\ objects' = objects /\ torn \subseteq torn'
      BY <2>5 DEF Write, schema
    <3> QED
      BY <3>1 DEF Triggered
  <2> QED
    BY <2>0, <2>1, <2>2, <2>3, <2>4, <2>5
<1> QED
  BY <1>1, <1>2

LEMMA TriggeredInit == ASSUME Init PROVE Triggered
<1>1. objects = UNION {Added[k] \cup Created[k] : k \in {s \in Steps : s <= version}}
  BY DEF Init
<1>2. \A k \in Steps : "events_fts" \in Added[k] \cup Created[k] => k = 5
  BY DEF Steps, CURRENT_SCHEMA_VERSION, Added, Created
<1>3. Added[5] = {"events_fts"}
  BY DEF Steps, CURRENT_SCHEMA_VERSION, Added
<1> QED
  BY <1>1, <1>2, <1>3 DEF Triggered

(***************************************************************************)
(* Whatever the number of processes that migrate the database at once, the *)
(* kills and the misread versions, schema_version never names a step that  *)
(* is not done, and a store that was opened has all that the steps make;   *)
(* but for the triggers of the full-text index: these are there unless a   *)
(* process is about to create them, or was stopped when it was.            *)
(***************************************************************************)
THEOREM SchemaIsComplete == Spec => []SchemaComplete
<1>1. Init => SchemaInv /\ Triggered
  BY SchemaInit, TriggeredInit
<1>2. SchemaInv /\ Triggered /\ [Next]_vars => SchemaInv' /\ Triggered'
  BY SchemaStep, TriggeredStep
<1>3. SchemaInv /\ Triggered => SchemaComplete
  BY DEF SchemaInv, SchemaComplete, Knows, Has, Ready
<1> QED
  BY <1>1, <1>2, <1>3, PTL DEF Spec

-----------------------------------------------------------------------------
(* Migrations that do not overlap.                                         *)

(***************************************************************************)
(* One process migrates at a time, and the version is the one it has read  *)
(* or written last, if it is not in the first step for a misread version.  *)
(***************************************************************************)
Reached(r) == IF r.pc = "record" THEN r.step ELSE r.step - 1

Fresh(r, mis) == r.step = 1 /\ r.pc # "record" /\ "version" \in mis

OneAtATime ==
  ~overlapped =>
    /\ \A x, y \in Processes : Migrating(x) /\ Migrating(y) => x = y
    /\ \A x \in Processes :
         Migrating(x) => version = Reached(proc[x]) \/ Fresh(proc[x], misread)

\* What a step of p has to show.
LEMMA OneMoves ==
  ASSUME OneAtATime, NEW p \in Processes,
         \A x \in Processes \ {p} : proc'[x] = proc[x],
         ~overlapped' /\ Migrating(p)' =>
           /\ \A x \in Processes \ {p} : ~Migrating(x)
           /\ version' = Reached(proc'[p]) \/ Fresh(proc'[p], misread'),
         ~overlapped' => ~overlapped, misread \subseteq misread',
         ~overlapped' /\ ~Migrating(p)' => Migrating(p) \/ version' = version
  PROVE  OneAtATime'
<1> SUFFICES ASSUME ~overlapped' PROVE OneAtATime'
  BY DEF OneAtATime
<1>1. \A x, y \in Processes : Migrating(x) /\ Migrating(y) => x = y
  BY DEF OneAtATime
<1>2. \A x \in Processes \ {p} : Migrating(x)' <=> Migrating(x)
  BY DEF Migrating
<1>3. \A x, y \in Processes : Migrating(x)' /\ Migrating(y)' => x = y
  BY <1>1, <1>2
<1>4. \A x \in Processes : Migrating(x)' =>
        version' = Reached(proc'[x]) \/ Fresh(proc'[x], misread')
  <2> SUFFICES ASSUME NEW x \in Processes, Migrating(x)'
               PROVE  version' = Reached(proc'[x]) \/ Fresh(proc'[x], misread')
    OBVIOUS
  <2>1. CASE x = p
    BY <2>1
  <2>2. CASE x # p
    <3>1. Migrating(x) /\ proc'[x] = proc[x] /\ ~Migrating(p)'
      BY <2>2, <1>2, <1>3
    <3>2. version' = version
      BY <3>1, <2>2, <1>1
    <3> QED
      BY <3>1, <3>2 DEF OneAtATime, Reached, Fresh
  <2> QED
    BY <2>1, <2>2
<1> QED
  BY <1>3, <1>4 DEF OneAtATime, Reached, Fresh

LEMMA OneAtATimeStep ==
  ASSUME TypeOK, OneAtATime, [Next]_vars
  PROVE  OneAtATime' /\ (~overlapped' /\ "version" \notin misread => version' >= version)
<1>0. version \in Nat /\ proc \in [Processes -> ProcType] /\ overlapped \in BOOLEAN
  BY DEF TypeOK, ProcType
<1>1. CASE UNCHANGED vars
  BY <1>0, <1>1 DEF vars, OneAtATime, Migrating
<1>2. CASE Next
  <2>0. PICK p \in Processes :
          Open(p) \/ Migrate(p) \/ Stop(p) \/ Close(p) \/ Write(p)
    BY <1>2 DEF Next
  <2>2. proc[p] \in ProcType
    BY <1>0
  <2>3. Migrating(p) /\ ~overlapped =>
          /\ version = Reached(proc[p]) \/ Fresh(proc[p], misread)
          /\ \A x \in Processes \ {p} : ~Migrating(x)
    BY DEF OneAtATime
  <2>4. Migrating(p) => proc[p].step \in Nat
    BY <2>2 DEF ProcType, CURRENT_SCHEMA_VERSION
  \* What is to be shown of each action.
  <2> DEFINE Moved ==
        /\ \A x \in Processes \ {p} : proc'[x] = proc[x]
        /\ ~overlapped' => ~overlapped
        /\ ~overlapped' /\ Migrating(p)' =>
             /\ \A x \in Processes \ {p} : ~Migrating(x)
             /\ version' = Reached(proc'[p]) \/ Fresh(proc'[p], misread')
        /\ ~overlapped' /\ "version" \notin misread => version' >= version
        /\ ~overlapped' /\ ~Migrating(p)' => Migrating(p) \/ version' = version
  <2>m. Moved => OneAtATime' /\ (~overlapped' /\ "version" \notin misread => version' >= version)
    BY OneMoves, MisreadStays
  <2>s. SUFFICES Moved
    BY <2>m
  <2>5. CASE /\ proc' = [proc EXCEPT ![p] = Closed]
             /\ version' = version /\ overlapped' = overlapped
    <3>1. ~Migrating(p)'
      BY <2>5, <1>0 DEF Migrating, Closed, MigratingPcs
    <3> QED
      BY <2>5, <3>1, <1>0
  <2>6. ASSUME NEW ver \in Nat, Enter(p, ver + 1)
        PROVE  /\ \A x \in Processes \ {p} : proc'[x] = proc[x]
               /\ Migrating(p)' =>
                    /\ ver + 1 \in Steps
                    /\ proc'[p].step = ver + 1
                    /\ proc'[p].pc # "record"
    <3>1. CASE ver + 1 \in Steps
      BY <2>6, <3>1, <1>0 DEF Enter, Closed, FirstPc
    <3>2. CASE ver + 1 \notin Steps
      BY <2>6, <3>2, <1>0 DEF Enter, Closed, MigratingPcs, Migrating
    <3> QED
      BY <3>1, <3>2
  <2>7. CASE Open(p)
    <3>0. PICK read \in {version, 0} :
            /\ Overlap(p, read)
            /\ Goto(p, "refused") \/ Enter(p, read + 1)
            /\ read = version \/ (read = 0 /\ Misread("version"))
      BY <2>7, OpenReads
    <3>1. version' = version /\ read \in Nat
      BY <2>7, <1>0, OpenReads
    <3>2. ~overlapped' =>
            /\ ~overlapped
            /\ read < CURRENT_SCHEMA_VERSION =>
                 \A x \in Processes \ {p} : ~Migrating(x)
      BY <3>0 DEF Overlap
    <3>3. CASE Goto(p, "refused")
      <4>1. ~Migrating(p)' /\ \A x \in Processes \ {p} : proc'[x] = proc[x]
        BY <3>3, <1>0, <2>2 DEF Goto, MigratingPcs, Migrating, ProcType
      <4> QED
        BY <3>1, <3>2, <4>1, <1>0
    <3>4. CASE Enter(p, read + 1)
      <4>1. Migrating(p)' =>
              /\ read < CURRENT_SCHEMA_VERSION
              /\ version' = Reached(proc'[p]) \/ Fresh(proc'[p], misread')
        <5>1. Migrating(p)' => read + 1 \in Steps /\ proc'[p].step = read + 1 /\ proc'[p].pc # "record"
          BY <3>1, <3>4, <2>6
        <5>2. read + 1 \in Steps => read < CURRENT_SCHEMA_VERSION
          BY <3>1 DEF Steps, CURRENT_SCHEMA_VERSION
        <5>3. CASE read = version
          BY <3>1, <5>1, <5>2, <5>3 DEF Reached
        <5>4. CASE read = 0 /\ Misread("version")
          BY <5>1, <5>2, <5>4 DEF Fresh, Misread
        <5> QED
          BY <3>0, <5>3, <5>4
      <4>2. \A x \in Processes \ {p} : proc'[x] = proc[x]
        BY <3>1, <3>4, <2>6
      <4> QED
        BY <3>1, <3>2, <4>1, <4>2, <1>0
    <3> QED
      BY <3>0, <3>3, <3>4
  <2>8. CASE Migrate(p)
    <3>0. Migrating(p) /\ overlapped' = overlapped
      BY <2>8 DEF Migrate, Check, Add, Create, EndCreate, FillIndex, ReadEnd,
           SelectUnhashed, HashRow, SetEnd, Stamp, Record, MigratingPcs,
           Migrating, Fail, history
    <3>1. CASE Stamp(p)
      <4>1. /\ proc' = [proc EXCEPT ![p].pc = "record"]
            /\ version' = proc[p].step /\ proc[p].pc = "stamp"
        BY <3>1 DEF Stamp, Goto
      <4>2. /\ proc'[p].pc = "record" /\ proc'[p].step = proc[p].step
            /\ \A x \in Processes \ {p} : proc'[x] = proc[x]
        BY <4>1, <1>0, <2>2 DEF ProcType
      <4>3. version' = Reached(proc'[p])
        BY <4>1, <4>2 DEF Reached
      <4>4. ~overlapped /\ "version" \notin misread => version' >= version
        BY <3>0, <4>1, <1>0, <2>3, <2>4 DEF Reached, Fresh
      <4> QED
        BY <3>0, <4>2, <4>3, <4>4, <2>3
    <3>2. CASE Record(p)
      <4>1. CASE Fail(p)
        BY <4>1, <2>5 DEF Fail, schema
      <4>2. CASE ~Fail(p)
        <5>1. Enter(p, proc[p].step + 1) /\ version' = version /\ proc[p].pc = "record"
          BY <3>2, <4>2 DEF Record
        <5>2. CASE overlapped
          <6>1. \A x \in Processes \ {p} : proc'[x] = proc[x]
            BY <5>1, <1>0 DEF Enter
          <6> QED
            BY <3>0, <5>2, <6>1
        <5>3. CASE ~overlapped
          <6>1. version = proc[p].step
            BY <5>1, <5>3, <3>0, <2>3 DEF Reached, Fresh
          <6>2. Migrating(p)' => version' = Reached(proc'[p])
            BY <5>1, <6>1, <1>0, <2>6 DEF Reached
          <6> QED
            BY <3>0, <5>1, <5>3, <6>1, <6>2, <1>0, <2>3, <2>6
        <5> QED
          BY <5>2, <5>3, <1>0
      <4> QED
        BY <4>1, <4>2
    <3>3. CASE Fail(p)
      BY <3>3, <2>5 DEF Fail, schema
    <3>4. CASE ~Stamp(p) /\ ~Record(p) /\ ~Fail(p)
      <4>1. version' = version
        BY <2>8, <3>4 DEF Migrate, Check, Add, Create, EndCreate, FillIndex,
             ReadEnd, SelectUnhashed, HashRow, SetEnd, schema
      <4>2. proc[p].pc # "record"
        BY <2>8, <3>4 DEF Migrate, Check, Add, Create, EndCreate, FillIndex,
             ReadEnd, SelectUnhashed, HashRow, SetEnd
      <4>3. /\ proc'[p].step = proc[p].step /\ proc'[p].pc # "record"
            /\ \A x \in Processes \ {p} : proc'[x] = proc[x]
        <5>1. CASE Check(p) \/ Add(p) \/ EndCreate(p) \/ FillIndex(p) \/ SetEnd(p)
          <6>1. PICK pc \in {"add", "stamp", "create", "fill", "readEnd"} : Goto(p, pc)
            BY <3>4, <5>1 DEF Check, Add, EndCreate, FillIndex, SetEnd, AfterCreate
          <6> QED
            BY <6>1, <1>0, <2>2 DEF Goto, ProcType
        <5>2. CASE Create(p)
          BY <5>2, <4>2 DEF Create
        <5>3. CASE ReadEnd(p)
          BY <5>3, <1>0, <2>2 DEF ReadEnd, ProcType
        <5>4. CASE SelectUnhashed(p)
          BY <5>4, <1>0, <2>2 DEF SelectUnhashed, ProcType
        <5>5. CASE HashRow(p)
          <6>1. \A x \in Processes \ {p} : proc'[x] = proc[x]
            BY <5>5, <1>0 DEF HashRow
          <6> QED
            BY <5>5, <6>1, HashRowProc
        <5> QED
          BY <2>8, <3>4, <5>1, <5>2, <5>3, <5>4, <5>5 DEF Migrate
      <4>4. Reached(proc'[p]) = Reached(proc[p]) /\ (Fresh(proc[p], misread) => Fresh(proc'[p], misread'))
        BY <4>2, <4>3, <1>2, MisreadStays DEF Reached, Fresh
      <4> QED
        BY <3>0, <4>1, <4>3, <4>4, <1>0, <2>3
    <3> QED
      BY <2>8, <3>1, <3>2, <3>3, <3>4
  <2>9. CASE Stop(p) \/ Close(p)
    BY <2>9, <2>5 DEF Stop, Close, schema, history
  <2>10. CASE Write(p)
    BY <2>10, <1>0, <2>3 DEF Write, schema, history, Ready, Migrating, MigratingPcs
  <2> QED
    BY <2>0, <2>7, <2>8, <2>9, <2>10
<1> QED
  BY <1>1, <1>2

(***************************************************************************)
(* As long as no migration has begun while another was under way, and no   *)
(* failing SELECT of it was taken for version 0, the schema_version never  *)
(* goes back, however often processes are killed and open the database     *)
(* again.                                                                  *)
(***************************************************************************)
THEOREM VersionGrows == Spec => VersionOnlyGrows
<1>1. Init => OneAtATime
  BY DEF Init, OneAtATime, Migrating, Closed, MigratingPcs
<1>2. TypeOK /\ OneAtATime /\ [Next]_vars => OneAtATime'
  BY OneAtATimeStep
<1>3. TypeOK /\ OneAtATime /\ [Next]_vars
        => [~overlapped' /\ "version" \notin misread => version' >= version]_vars
  BY OneAtATimeStep
<1> QED
  BY <1>1, <1>2, <1>3, TypeCorrect, PTL DEF Spec, VersionOnlyGrows

-----------------------------------------------------------------------------
(* Opens that succeed.                                                     *)

(***************************************************************************)
(* What holds of a process while migrations do not overlap and nothing is  *)
(* misread: the steps from its own on are not recorded, what it is about   *)
(* to add is not there, and it has the store open only at the last         *)
(* version.                                                                *)
(***************************************************************************)
Fits(r, ver, lg, objs) ==
  /\ r.pc \in MigratingPcs => lg \subseteq 0..(r.step - 1)
  /\ r.pc = "add" => Added[r.step] \cap objs = {}
  /\ r.pc = "ready" => ver >= CURRENT_SCHEMA_VERSION

Ahead ==
  ~overlapped /\ misread = {} =>
    /\ ~failed
    /\ log \subseteq 0..version
    /\ \A x \in Processes : Fits(proc[x], version, log, objects)

LEMMA NotYet ==
  ASSUME [Next]_vars, ~overlapped'
  PROVE  ~overlapped
<1>1. CASE UNCHANGED vars
  BY <1>1 DEF vars
<1>2. CASE Next
  <2>0. PICK p \in Processes :
          Open(p) \/ Migrate(p) \/ Stop(p) \/ Close(p) \/ Write(p)
    BY <1>2 DEF Next
  <2>1. CASE Open(p)
    BY <2>1, OpenReads DEF Overlap
  <2>2. CASE Migrate(p)
    BY <2>2 DEF Migrate, Check, Add, Create, EndCreate, FillIndex, ReadEnd,
           SelectUnhashed, HashRow, SetEnd, Stamp, Record, Fail, history
  <2>3. CASE Stop(p) \/ Close(p) \/ Write(p)
    BY <2>3 DEF Stop, Close, Write, history
  <2> QED
    BY <2>0, <2>1, <2>2, <2>3
<1> QED
  BY <1>1, <1>2

LEMMA Alone ==
  ASSUME OneAtATime, ~overlapped, NEW p \in Processes, Migrating(p)
  PROVE  /\ \A x \in Processes \ {p} : proc[x].pc \notin MigratingPcs
         /\ version = Reached(proc[p]) \/ Fresh(proc[p], misread)
         /\ proc[p].step # 1 =>
              version = IF proc[p].pc = "record" THEN proc[p].step ELSE proc[p].step - 1
  BY DEF OneAtATime, Migrating, Reached, Fresh

\* Only the process that moves has to be looked at.
LEMMA FitsOne ==
  ASSUME TypeOK, OneAtATime, Ahead, ~overlapped, misread = {}, NEW p \in Processes, NEW r,
         proc' = [proc EXCEPT ![p] = r],
         ~failed', log' \subseteq 0..version', version' >= version, version' \in Nat,
         Migrating(p) \/ (log' = log /\ objects' = objects),
         Fits(r, version', log', objects')
  PROVE  Ahead'
<1>1. ASSUME NEW x \in Processes PROVE Fits(proc'[x], version', log', objects')
  <2>1. CASE x = p
    BY <2>1 DEF TypeOK
  <2>2. CASE x # p
    <3>1. proc'[x] = proc[x] /\ Fits(proc[x], version, log, objects)
      BY <2>2 DEF TypeOK, Ahead
    <3>2. version \in Nat
      BY DEF TypeOK
    <3>3. CASE Migrating(p)
      <4>1. proc[x].pc \notin MigratingPcs
        BY <2>2, <3>3, Alone
      <4>2. "add" \in MigratingPcs
        BY DEF MigratingPcs
      <4> QED
        BY <3>1, <3>2, <4>1, <4>2 DEF Fits, CURRENT_SCHEMA_VERSION
    <3>4. CASE log' = log /\ objects' = objects
      BY <3>1, <3>2, <3>4 DEF Fits, CURRENT_SCHEMA_VERSION
    <3> QED
      BY <3>3, <3>4
  <2> QED
    BY <2>1, <2>2
<1> QED
  BY <1>1 DEF Ahead

LEMMA ClosedFits ==
  ASSUME NEW ver, NEW lg, NEW objs
  PROVE  Fits(Closed, ver, lg, objs)
  BY DEF Fits, Closed, MigratingPcs

LEMMA EnteredFits ==
  ASSUME NEW ver \in Nat, NEW lg \in SUBSET (0..ver), NEW objs
  PROVE  \E r : /\ r = IF ver + 1 \in Steps
                       THEN [Closed EXCEPT !.pc = FirstPc(ver + 1), !.step = ver + 1]
                       ELSE [Closed EXCEPT !.pc = "ready"]
                /\ Fits(r, ver, lg, objs)
<1>1. CASE ver + 1 \in Steps
  <2> DEFINE r == [Closed EXCEPT !.pc = FirstPc(ver + 1), !.step = ver + 1]
  <2>1. r.step = ver + 1 /\ r.pc \in {"check", "create"}
    BY DEF Closed, FirstPc
  <2> HIDE DEF r
  <2>2. Fits(r, ver, lg, objs)
    BY <2>1 DEF Fits
  <2> QED
    BY <1>1, <2>2 DEF r
<1>2. CASE ver + 1 \notin Steps
  <2> DEFINE r == [Closed EXCEPT !.pc = "ready"]
  <2>1. r.pc = "ready" /\ ver >= CURRENT_SCHEMA_VERSION
    BY <1>2 DEF Closed, Steps, CURRENT_SCHEMA_VERSION
  <2> HIDE DEF r
  <2>2. Fits(r, ver, lg, objs)
    BY <2>1 DEF Fits, MigratingPcs
  <2> QED
    BY <1>2, <2>2 DEF r
<1> QED
  BY <1>1, <1>2

\* Going on within the step, with what it has made.
LEMMA GotoFits ==
  ASSUME TypeOK, OneAtATime, Ahead, ~overlapped, misread = {}, NEW p \in Processes, Migrating(p),
         NEW pc \in MigratingPcs, Goto(p, pc), UNCHANGED <<log, failed>>,
         version' >= version, version' \in Nat,
         pc = "add" => Added[proc[p].step] \cap objects' = {}
  PROVE  Ahead'
<1> DEFINE r == [proc[p] EXCEPT !.pc = pc]
<1>1. proc' = [proc EXCEPT ![p] = r]
  BY DEF Goto
<1>2. r.pc = pc /\ r.step = proc[p].step /\ pc # "ready"
  BY DEF TypeOK, MigratingPcs
<1> HIDE DEF r
<1>3. Fits(proc[p], version, log, objects) /\ log \subseteq 0..version /\ ~failed /\ version \in Nat
  BY DEF Ahead, TypeOK
<1>4. Fits(r, version', log', objects')
  BY <1>2, <1>3 DEF Fits, Migrating
<1>5. log' \subseteq 0..version' /\ ~failed'
  BY <1>3
<1> QED
  BY <1>1, <1>4, <1>5, FitsOne

LEMMA AheadMigrate ==
  ASSUME TypeOK, OneAtATime, Ahead, ~overlapped, misread = {}, NEW p \in Processes, Migrate(p),
         version' >= version, TypeOK', misread' = {}
  PROVE  Ahead'
<1>1. Migrating(p)
  BY DEF Migrate, Check, Add, Create, EndCreate, FillIndex, ReadEnd,
         SelectUnhashed, HashRow, SetEnd, Stamp, Record, MigratingPcs, Migrating
<1>2. /\ version = IF proc[p].pc = "record" THEN proc[p].step ELSE proc[p].step - 1
      /\ proc[p].step \in Nat /\ proc[p].step \in Steps
  BY <1>1, Alone DEF TypeOK, Steps, CURRENT_SCHEMA_VERSION, Reached, Fresh
<1>3. /\ log \subseteq 0..version /\ ~failed /\ Fits(proc[p], version, log, objects)
      /\ version \in Nat /\ version' \in Nat
  BY DEF Ahead, TypeOK
<1>4. log \subseteq 0..(proc[p].step - 1)
  BY <1>1, <1>3 DEF Fits, Migrating
<1>5. CASE Check(p)
  <2>1. /\ UNCHANGED <<log, failed, objects>>
        /\ Goto(p, IF Added[proc[p].step] \cap objects = {} THEN "add"
                   ELSE IF proc[p].step = 5 THEN "stamp" ELSE "create")
    BY <1>5 DEF Check, Misread, schema
  <2>2. CASE Added[proc[p].step] \cap objects = {}
    <3>1. Goto(p, "add") /\ "add" \in MigratingPcs
      BY <2>1, <2>2 DEF MigratingPcs
    <3> QED
      BY <1>1, <1>3, <2>1, <2>2, <3>1, GotoFits
  <2>3. CASE Added[proc[p].step] \cap objects # {}
    <3>1. PICK pc \in {"stamp", "create"} : Goto(p, pc)
      BY <2>1, <2>3
    <3>2. pc \in MigratingPcs /\ pc # "add"
      BY DEF MigratingPcs
    <3> QED
      BY <1>1, <1>3, <2>1, <3>1, <3>2, GotoFits
  <2> QED
    BY <2>2, <2>3
<1>6. CASE Add(p)
  <2>1. proc[p].pc = "add" /\ Added[proc[p].step] \cap objects = {}
    BY <1>3, <1>6 DEF Add, Fits
  <2>2. Goto(p, "create") /\ UNCHANGED <<log, failed>>
    BY <1>6, <2>1 DEF Add, history
  <2>3. "create" \in MigratingPcs
    BY DEF MigratingPcs
  <2> QED
    BY <1>1, <1>3, <2>2, <2>3, GotoFits
<1>7. CASE EndCreate(p) \/ FillIndex(p) \/ SetEnd(p) \/ Stamp(p)
  <2>1. UNCHANGED <<log, failed>>
    BY <1>7 DEF EndCreate, FillIndex, SetEnd, Stamp, schema, history
  <2>2. PICK pc \in {"fill", "readEnd", "stamp", "record"} : Goto(p, pc)
    BY <1>7 DEF EndCreate, FillIndex, SetEnd, Stamp, AfterCreate
  <2>3. pc \in MigratingPcs /\ pc # "add"
    BY DEF MigratingPcs
  <2> QED
    BY <1>1, <1>3, <2>1, <2>2, <2>3, GotoFits
<1>8. CASE Create(p) \/ ReadEnd(p) \/ SelectUnhashed(p) \/ HashRow(p)
  <2> DEFINE r == proc'[p]
  <2>1. UNCHANGED <<log, failed, version>>
    BY <1>8 DEF Create, ReadEnd, SelectUnhashed, HashRow, schema, history
  <2>2. /\ r.step = proc[p].step /\ r.pc \in {"create", "select", "chain"}
        /\ proc' = [proc EXCEPT ![p] = r]
    <3>1. CASE Create(p)
      BY <3>1 DEF Create, TypeOK
    <3>2. CASE ReadEnd(p) \/ SelectUnhashed(p)
      BY <3>2 DEF ReadEnd, SelectUnhashed, TypeOK
    <3>3. CASE HashRow(p)
      <4>1. proc' = [proc EXCEPT ![p] = r]
        BY <3>3 DEF HashRow, TypeOK
      <4> QED
        BY <3>3, <4>1, HashRowProc
    <3> QED
      BY <1>8, <3>1, <3>2, <3>3
  <2> HIDE DEF r
  <2>3. Fits(r, version', log', objects')
    BY <1>4, <2>1, <2>2 DEF Fits
  <2> QED
    BY <1>1, <1>3, <2>1, <2>2, <2>3, FitsOne
<1>9. CASE Record(p)
  <2>1. proc[p].pc = "record" /\ proc[p].step \notin log /\ version = proc[p].step
    BY <1>2, <1>4, <1>9 DEF Record
  <2>2. /\ log' = log \cup {version} /\ Enter(p, version + 1)
        /\ UNCHANGED <<version, objects, failed>>
    BY <1>9, <2>1 DEF Record, history
  <2>3. log' \subseteq 0..version
    BY <1>3, <2>2
  <2>4. PICK r : proc' = [proc EXCEPT ![p] = r] /\ Fits(r, version, log', objects)
    BY <1>3, <2>2, <2>3, EnteredFits DEF Enter
  <2> QED
    BY <1>1, <1>3, <2>2, <2>3, <2>4, FitsOne
<1> QED
  BY <1>5, <1>6, <1>7, <1>8, <1>9 DEF Migrate

LEMMA AheadStep ==
  ASSUME TypeOK, OneAtATime, Ahead, [Next]_vars
  PROVE  Ahead'
<1> SUFFICES ASSUME ~overlapped', misread' = {} PROVE Ahead'
  BY DEF Ahead
<1>1. /\ ~overlapped /\ misread = {} /\ version' >= version
      /\ TypeOK' /\ version \in Nat /\ version' \in Nat
  BY NotYet, MisreadStays, OneAtATimeStep, TypeStep DEF TypeOK
<1>2. log \subseteq 0..version /\ ~failed
  BY <1>1 DEF Ahead
<1>3. CASE UNCHANGED vars
  BY <1>3 DEF vars, Ahead
<1>4. CASE Next
  <2>0. PICK p \in Processes :
          Open(p) \/ Migrate(p) \/ Stop(p) \/ Close(p) \/ Write(p)
    BY <1>4 DEF Next
  <2>1. CASE Open(p)
    <3>1. UNCHANGED <<version, log, objects, failed>>
      BY <2>1, OpenReads
    <3>0. Goto(p, "refused") \/ Enter(p, version + 1)
      BY <1>1, <2>1, OpenReads DEF Misread
    <3>2. CASE Goto(p, "refused")
      <4> DEFINE r == [proc[p] EXCEPT !.pc = "refused"]
      <4>1. proc' = [proc EXCEPT ![p] = r]
        BY <3>2 DEF Goto
      <4>2. r.pc = "refused"
        BY DEF TypeOK
      <4> HIDE DEF r
      <4>3. Fits(r, version', log', objects')
        BY <4>2 DEF Fits, MigratingPcs
      <4> QED
        BY <1>1, <1>2, <3>1, <4>1, <4>3, FitsOne
    <3>3. CASE Enter(p, version + 1)
      <4>1. PICK r : proc' = [proc EXCEPT ![p] = r] /\ Fits(r, version, log, objects)
        BY <1>1, <1>2, <3>3, EnteredFits DEF Enter
      <4> QED
        BY <1>1, <1>2, <3>1, <4>1, FitsOne
    <3> QED
      BY <3>0, <3>2, <3>3
  <2>2. CASE Migrate(p)
    BY <1>1, <2>2, AheadMigrate
  <2>3. CASE Stop(p) \/ Close(p)
    <3>1. UNCHANGED <<version, log, objects, failed>> /\ proc' = [proc EXCEPT ![p] = Closed]
      BY <2>3 DEF Stop, Close, schema, history
    <3>2. Fits(Closed, version', log', objects')
      BY ClosedFits
    <3> QED
      BY <1>1, <1>2, <3>1, <3>2, FitsOne
  <2>4. CASE Write(p)
    <3>1. UNCHANGED <<version, log, objects, failed, proc, overlapped, misread>>
      BY <2>4 DEF Write, schema
    <3> QED
      BY <3>1 DEF Ahead
  <2> QED
    BY <2>0, <2>1, <2>2, <2>3, <2>4
<1> QED
  BY <1>3, <1>4

LEMMA AheadInit == ASSUME Init PROVE OneAtATime /\ Ahead
<1>1. \A x \in Processes : proc[x] = Closed
  BY DEF Init
<1>2. OneAtATime
  BY <1>1 DEF OneAtATime, Migrating, Closed, MigratingPcs
<1>3. version \in Nat /\ log = 1..version /\ ~failed
  BY BoundsAssumption DEF Init
<1>4. log \subseteq 0..version
  BY <1>3
<1>5. \A x \in Processes : Fits(proc[x], version, log, objects)
  BY <1>1, ClosedFits
<1> QED
  BY <1>2, <1>3, <1>4, <1>5 DEF Ahead

(***************************************************************************)
(* As long as no migration has begun while another was under way and no    *)
(* SELECT of the version or of the index has failed, no open has failed    *)
(* over what it found in the database: a column or index that exists       *)
(* already, a version recorded already; wherever the processes before it   *)
(* were killed, and however often.                                         *)
(***************************************************************************)
THEOREM ReopensDoSucceed == Spec => []ReopensSucceed
<1>1. Init => OneAtATime /\ Ahead
  BY AheadInit
<1>2. TypeOK /\ OneAtATime /\ Ahead /\ [Next]_vars => OneAtATime' /\ Ahead'
  BY OneAtATimeStep, AheadStep
<1>3. Ahead => ReopensSucceed
  BY DEF Ahead, ReopensSucceed
<1> QED
  BY <1>1, <1>2, <1>3, TypeCorrect, PTL DEF Spec

-----------------------------------------------------------------------------
(* What migrations that do not overlap leave behind.                       *)

\* The program counters of one step only.
Places(r) ==
  /\ r.pc = "fill" => r.step = 5
  /\ r.pc \in {"readEnd", "select", "chain"} => r.step = 6

StepsFit == \A x \in Processes : Places(proc[x])

LEMMA StepsFitStep ==
  ASSUME TypeOK, StepsFit, [Next]_vars
  PROVE  StepsFit'
<1>r. ASSUME NEW p \in Processes, NEW r, proc' = [proc EXCEPT ![p] = r], Places(r)
      PROVE  StepsFit'
  BY <1>r DEF StepsFit, TypeOK
<1>e. ASSUME NEW p \in Processes, NEW k \in Nat, Enter(p, k) PROVE StepsFit'
  <2> DEFINE r == IF k \in Steps THEN [Closed EXCEPT !.pc = FirstPc(k), !.step = k]
                  ELSE [Closed EXCEPT !.pc = "ready"]
  <2>1. r.pc \in {"check", "create", "ready"}
    BY DEF Closed, FirstPc
  <2>2. proc' = [proc EXCEPT ![p] = r]
    BY <1>e DEF Enter
  <2> HIDE DEF r
  <2>3. Places(r)
    BY <2>1 DEF Places
  <2> QED
    BY <2>2, <2>3, <1>r
<1>g. ASSUME NEW p \in Processes, NEW pc, Goto(p, pc), pc = "fill" => proc[p].step = 5,
             pc \in {"readEnd", "select", "chain"} => proc[p].step = 6
      PROVE  StepsFit'
  <2> DEFINE r == [proc[p] EXCEPT !.pc = pc]
  <2>1. r.pc = pc /\ r.step = proc[p].step /\ proc' = [proc EXCEPT ![p] = r]
    BY <1>g DEF Goto, TypeOK
  <2> HIDE DEF r
  <2>2. Places(r)
    BY <1>g, <2>1 DEF Places
  <2> QED
    BY <2>1, <2>2, <1>r
<1>c. ASSUME NEW p \in Processes, proc' = [proc EXCEPT ![p] = Closed] PROVE StepsFit'
  <2>1. Places(Closed)
    BY DEF Places, Closed
  <2> QED
    BY <1>c, <2>1, <1>r
<1>1. CASE UNCHANGED vars
  BY <1>1 DEF vars, StepsFit
<1>2. CASE Next
  <2>0. PICK p \in Processes :
          Open(p) \/ Migrate(p) \/ Stop(p) \/ Close(p) \/ Write(p)
    BY <1>2 DEF Next
  <2>p. Places(proc[p])
    BY DEF StepsFit
  <2>1. CASE Open(p)
    <3>1. PICK read \in {version, 0} : Goto(p, "refused") \/ Enter(p, read + 1)
      BY <2>1, OpenReads
    <3>2. CASE Goto(p, "refused")
      BY <3>2, <1>g
    <3>3. CASE Enter(p, read + 1)
      <4>1. read + 1 \in Nat
        BY DEF TypeOK
      <4> QED
        BY <3>3, <4>1, <1>e
    <3> QED
      BY <3>1, <3>2, <3>3
  <2>2. CASE Migrate(p)
    <3>1. CASE Check(p) \/ EndCreate(p) \/ FillIndex(p) \/ SetEnd(p) \/ Stamp(p)
      <4>1. PICK pc \in {"add", "stamp", "create", "fill", "readEnd", "record"} :
              /\ Goto(p, pc) /\ (pc = "fill" => proc[p].step = 5)
              /\ pc = "readEnd" => proc[p].step = 6
        BY <3>1 DEF Check, EndCreate, FillIndex, SetEnd, Stamp, AfterCreate
      <4> QED
        BY <4>1, <1>g
    <3>2. CASE Add(p)
      <4>1. proc' = [proc EXCEPT ![p] = Closed] \/ Goto(p, "create")
        BY <3>2 DEF Add, Fail
      <4> QED
        BY <4>1, <1>c, <1>g
    <3>3. CASE Create(p)
      BY <3>3 DEF Create, StepsFit
    <3>4. CASE ReadEnd(p) \/ SelectUnhashed(p) \/ HashRow(p)
      <4> DEFINE r == proc'[p]
      <4>1. proc' = [proc EXCEPT ![p] = r]
        BY <3>4 DEF ReadEnd, SelectUnhashed, HashRow, TypeOK
      <4>2. r.step = proc[p].step /\ r.pc \in {"select", "chain"} /\ proc[p].pc \in {"readEnd", "select", "chain"}
        <5>1. CASE ReadEnd(p) \/ SelectUnhashed(p)
          BY <5>1 DEF ReadEnd, SelectUnhashed, TypeOK
        <5>2. CASE HashRow(p)
          BY <5>2, HashRowProc
        <5> QED
          BY <3>4, <5>1, <5>2
      <4> HIDE DEF r
      <4>3. Places(r)
        BY <2>p, <4>2 DEF Places
      <4> QED
        BY <4>1, <4>3, <1>r
    <3>5. CASE Record(p)
      <4>1. proc' = [proc EXCEPT ![p] = Closed] \/ Enter(p, proc[p].step + 1)
        BY <3>5 DEF Record, Fail
      <4>2. proc[p].step + 1 \in Nat
        BY DEF TypeOK, CURRENT_SCHEMA_VERSION
      <4> QED
        BY <4>1, <4>2, <1>c, <1>e
    <3> QED
      BY <2>2, <3>1, <3>2, <3>3, <3>4, <3>5 DEF Migrate
  <2>3. CASE Stop(p) \/ Close(p)
    BY <2>3, <1>c DEF Stop, Close
  <2>4. CASE Write(p)
    BY <2>4 DEF Write, StepsFit
  <2> QED
    BY <2>0, <2>1, <2>2, <2>3, <2>4
<1> QED
  BY <1>1, <1>2

\* All that migrations that do not overlap have in common.
Base == SchemaInv /\ OneAtATime /\ StepsFit

LEMMA BaseStep == ASSUME Base, [Next]_vars PROVE Base'
<1>1. TypeOK
  BY DEF Base, SchemaInv
<1> QED
  BY <1>1, SchemaStep, OneAtATimeStep, StepsFitStep DEF Base

LEMMA BaseInit == ASSUME Init PROVE Base
<1>1. StepsFit
  BY DEF Init, StepsFit, Places, Closed
<1> QED
  BY <1>1, SchemaInit, AheadInit DEF Base

\* A process gets the store open by finding the last version, or by recording
\* the last step.
LEMMA GetsReady ==
  ASSUME Base, ~overlapped, NEW p \in Processes, Open(p) \/ Migrate(p), Ready(p)'
  PROVE  /\ version = CURRENT_SCHEMA_VERSION
         /\ UNCHANGED <<version, rows, last, objects>>
         /\ \A x \in Processes : Migrating(x) => proc[x].pc = "record" \/ proc[x].step = 1
         /\ \A x \in Processes \ {p} : proc'[x] = proc[x]
<1>t. TypeOK /\ proc \in [Processes -> ProcType] /\ version \in Nat
  BY DEF Base, SchemaInv, TypeOK, ProcType
<1>e. ASSUME NEW k \in Nat \ {0}, Enter(p, k)
      PROVE  k > CURRENT_SCHEMA_VERSION /\ \A x \in Processes \ {p} : proc'[x] = proc[x]
  <2>1. proc'[p] = IF k \in Steps THEN [Closed EXCEPT !.pc = FirstPc(k), !.step = k]
                   ELSE [Closed EXCEPT !.pc = "ready"]
    BY <1>e, <1>t DEF Enter
  <2>2. k \notin Steps
    BY <2>1 DEF Ready, Closed, FirstPc
  <2> QED
    BY <1>e, <1>t, <2>2 DEF Steps, Enter, CURRENT_SCHEMA_VERSION
<1>1. CASE Open(p)
  <2>1. PICK read \in {version, 0} : Overlap(p, read) /\ (Goto(p, "refused") \/ Enter(p, read + 1))
    BY <1>1, OpenReads
  <2>2. ~Goto(p, "refused")
    BY <1>t DEF Goto, Ready, ProcType
  <2>3. read + 1 > CURRENT_SCHEMA_VERSION /\ read = version /\ \A x \in Processes \ {p} : proc'[x] = proc[x]
    BY <1>t, <1>e, <2>1, <2>2 DEF CURRENT_SCHEMA_VERSION
  <2>4. version <= CURRENT_SCHEMA_VERSION
    <3>1. \/ Begin(p, version)
          \/ Begin(p, 0) /\ version # 0
      BY <1>1 DEF Open
    <3>2. ~(version > CURRENT_SCHEMA_VERSION /\ Begin(p, version))
      BY <2>2 DEF Begin
    <3>3. ~Begin(p, 0)
      <4>1. Begin(p, 0) => Enter(p, 0 + 1)
        BY DEF Begin, CURRENT_SCHEMA_VERSION
      <4> QED
        BY <4>1, <1>e DEF CURRENT_SCHEMA_VERSION
    <3> QED
      BY <1>t, <3>1, <3>2, <3>3 DEF CURRENT_SCHEMA_VERSION
  <2>5. version = CURRENT_SCHEMA_VERSION
    BY <1>t, <2>3, <2>4 DEF CURRENT_SCHEMA_VERSION
  <2>6. ASSUME NEW x \in Processes, Migrating(x) PROVE proc[x].pc = "record" \/ proc[x].step = 1
    <3>1. version = Reached(proc[x]) \/ Fresh(proc[x], misread)
      BY <2>6, Alone DEF Base
    <3>2. proc[x].step \in Steps
      BY <2>6, <1>t DEF TypeOK
    <3> QED
      BY <2>5, <3>1, <3>2 DEF Reached, Fresh, Steps, CURRENT_SCHEMA_VERSION
  <2> QED
    BY <1>1, <2>3, <2>5, <2>6, OpenReads
<1>2. CASE Migrate(p)
  <2>1. ~Fail(p)
    BY <1>t DEF Fail, Ready, Closed
  <2>2. ASSUME NEW pc, Goto(p, pc) PROVE pc = "ready"
    BY <1>t, <2>2 DEF Goto, Ready, ProcType
  <2>3. Record(p)
    <3>1. ~Check(p) /\ ~EndCreate(p) /\ ~FillIndex(p) /\ ~SetEnd(p) /\ ~Stamp(p)
      <4>1. ~Goto(p, "add") /\ ~Goto(p, "stamp") /\ ~Goto(p, "create") /\ ~Goto(p, "fill")
            /\ ~Goto(p, "readEnd") /\ ~Goto(p, "record")
        BY <2>2
      <4> QED
        BY <4>1 DEF Check, EndCreate, FillIndex, SetEnd, Stamp, AfterCreate
    <3>2. ~Add(p)
      BY <2>1, <2>2 DEF Add
    <3>3. ~Create(p)
      BY DEF Create, Ready
    <3>4. ~ReadEnd(p) /\ ~SelectUnhashed(p)
      BY <1>t DEF ReadEnd, SelectUnhashed, Ready, ProcType
    <3>5. ~HashRow(p)
      BY <1>t, HashRowProc DEF Ready
    <3> QED
      BY <1>2, <3>1, <3>2, <3>3, <3>4, <3>5 DEF Migrate
  <2>4. /\ proc[p].pc = "record" /\ Enter(p, proc[p].step + 1)
        /\ UNCHANGED <<version, rows, last, objects>>
    BY <2>1, <2>3 DEF Record, data
  <2>5. Migrating(p) /\ proc[p].step \in Steps
    BY <2>4, <1>t DEF Migrating, MigratingPcs, TypeOK
  <2>6. proc[p].step + 1 > CURRENT_SCHEMA_VERSION /\ \A x \in Processes \ {p} : proc'[x] = proc[x]
    <3>1. proc[p].step + 1 \in Nat \ {0}
      BY <2>5 DEF Steps, CURRENT_SCHEMA_VERSION
    <3> QED
      BY <2>4, <3>1, <1>e
  <2>7. version = proc[p].step /\ \A x \in Processes \ {p} : ~Migrating(x)
    BY <2>4, <2>5, Alone DEF Base, Reached, Fresh, Migrating
  <2> QED
    BY <2>4, <2>5, <2>6, <2>7 DEF Steps, CURRENT_SCHEMA_VERSION
<1> QED
  BY <1>1, <1>2

-----------------------------------------------------------------------------
(* The index.                                                              *)

\* Step 5 has created the index, and not filled it yet.
InIndex(r) == r.step = 5 /\ r.pc \in {"create", "fill"}

Filling(r, objs, rs) ==
  /\ "events_fts" \in objs /\ (r.pc = "fill" => "events_ai" \in objs)
  /\ \A i \in DOMAIN rs : rs[i].indexed = 0

\* All rows are in the index and new ones will be, or there is none.
Filled(objs, rs) ==
  IF "events_fts" \in objs
  THEN "events_ai" \in objs /\ \A i \in DOMAIN rs : rs[i].indexed = 1
  ELSE "events_ai" \notin objs /\ \A i \in DOMAIN rs : rs[i].indexed = 0

IndexInv ==
  ~overlapped /\ "index" \notin torn =>
    /\ \A x \in Processes : InIndex(proc[x]) => Filling(proc[x], objects, rows)
    /\ (\A x \in Processes : ~InIndex(proc[x])) => Filled(objects, rows)

\* Of the objects, the two that matter here are those of step 5.
LEMMA IndexObjects ==
  /\ \A k \in Steps \ {5} : "events_fts" \notin Added[k] \cup Created[k] /\ "events_ai" \notin Added[k] \cup Created[k]
  /\ Added[5] = {"events_fts"} /\ Created[5] = {"events_ai", "events_ad"}
  /\ 5 \in Steps /\ 6 \in Steps /\ 7 \in Steps
<1>1. Steps = {1, 2, 3, 4, 5, 6, 7}
  BY DEF Steps, CURRENT_SCHEMA_VERSION
<1>2. /\ Added[1] = {} /\ Added[2] = {"resolved_at"} /\ Added[3] = {} /\ Added[4] = {}
      /\ Added[5] = {"events_fts"} /\ Added[6] = {"audit_hash"} /\ Added[7] = {}
  BY <1>1 DEF Added
<1>3. /\ Created[1] = {"migrations", "events", "categories"} /\ Created[2] = {"ix_events_unresolved"}
      /\ Created[3] = {"runtime_stats"} /\ Created[4] = {"builtin_categories"}
      /\ Created[5] = {"events_ai", "events_ad"} /\ Created[6] = {"audit_meta"} /\ Created[7] = {"audit_tombstones"}
  BY <1>1 DEF Created
<1> QED
  BY <1>1, <1>2, <1>3

\* The process that moves is the only one that could be in the step.
LEMMA IndexOne ==
  ASSUME Base, IndexInv, ~overlapped, "index" \notin torn, NEW p \in Processes, NEW r,
         proc' = [proc EXCEPT ![p] = r],
         Migrating(p), IF InIndex(r) THEN Filling(r, objects', rows') ELSE Filled(objects', rows')
  PROVE  IndexInv'
<1>1. ASSUME NEW x \in Processes \ {p} PROVE ~InIndex(proc'[x])
  <2>1. proc[x].pc \notin MigratingPcs /\ proc'[x] = proc[x]
    BY Alone DEF Base, SchemaInv, TypeOK
  <2> QED
    BY <2>1 DEF InIndex, MigratingPcs
<1>2. proc'[p] = r
  BY DEF Base, SchemaInv, TypeOK
<1> QED
  BY <1>1, <1>2 DEF IndexInv

\* Steps outside it that leave the rows and the two objects alone.
LEMMA IndexQuiet ==
  ASSUME TypeOK, IndexInv, ~overlapped, "index" \notin torn, NEW p \in Processes, NEW r,
         proc' = [proc EXCEPT ![p] = r], ~InIndex(proc[p]), ~InIndex(r),
         UNCHANGED rows, "events_fts" \in objects' <=> "events_fts" \in objects,
         "events_ai" \in objects' <=> "events_ai" \in objects
  PROVE  IndexInv'
<1>1. \A x \in Processes : InIndex(proc'[x]) <=> InIndex(proc[x])
  BY DEF TypeOK
<1>2. ASSUME NEW x \in Processes, InIndex(proc'[x]) PROVE Filling(proc'[x], objects', rows')
  <2>1. x # p /\ proc'[x] = proc[x] /\ Filling(proc[x], objects, rows)
    BY <1>1, <1>2 DEF TypeOK, IndexInv
  <2> QED
    BY <2>1 DEF Filling
<1>3. (\A x \in Processes : ~InIndex(proc'[x])) => Filled(objects', rows')
  BY <1>1 DEF IndexInv, Filled
<1> QED
  BY <1>2, <1>3 DEF IndexInv

LEMMA EnteredIndex ==
  ASSUME NEW p \in Processes, NEW k, Enter(p, k)
  PROVE  \E r : proc' = [proc EXCEPT ![p] = r] /\ ~InIndex(r) /\ r.pc \notin {"chain", "select", "stamp"}
<1> DEFINE r == IF k \in Steps THEN [Closed EXCEPT !.pc = FirstPc(k), !.step = k]
                ELSE [Closed EXCEPT !.pc = "ready"]
<1>1. proc' = [proc EXCEPT ![p] = r]
  BY DEF Enter
<1>2. CASE k \in Steps
  <2>1. r.pc = FirstPc(k) /\ r.step = k
    BY <1>2 DEF Closed
  <2>2. FirstPc(5) = "check" /\ FirstPc(k) \in {"check", "create"}
    BY IndexObjects DEF FirstPc
  <2> HIDE DEF r
  <2> QED
    BY <1>1, <2>1, <2>2 DEF InIndex
<1>3. CASE k \notin Steps
  <2>1. r.pc = "ready"
    BY <1>3 DEF Closed
  <2> HIDE DEF r
  <2> QED
    BY <1>1, <2>1 DEF InIndex
<1> QED
  BY <1>2, <1>3

\* Going on outside of step 5, and what is not of step 5.
LEMMA IndexGoto ==
  ASSUME TypeOK, IndexInv, ~overlapped, "index" \notin torn, NEW p \in Processes, NEW pc, Goto(p, pc),
         ~InIndex(proc[p]), pc \notin {"create", "fill"} \/ proc[p].step # 5,
         UNCHANGED rows, "events_fts" \in objects' <=> "events_fts" \in objects,
         "events_ai" \in objects' <=> "events_ai" \in objects
  PROVE  IndexInv'
<1> DEFINE r == [proc[p] EXCEPT !.pc = pc]
<1>1. proc' = [proc EXCEPT ![p] = r] /\ r.pc = pc /\ r.step = proc[p].step
  BY DEF Goto, TypeOK
<1> HIDE DEF r
<1>2. ~InIndex(r)
  BY <1>1 DEF InIndex
<1> QED
  BY <1>1, <1>2, IndexQuiet

\* Chaining a row changes nothing but its hash.
LEMMA HashRowRows ==
  ASSUME TypeOK, NEW p \in Processes, HashRow(p)
  PROVE  /\ DOMAIN rows' = DOMAIN rows /\ \A i \in DOMAIN rows : rows'[i].indexed = rows[i].indexed
         /\ \E i \in proc[p].todo :
              /\ IsOldest(i, proc[p].todo)
              /\ i \in DOMAIN rows => rows'[i].hash = compute_hash(proc[p].link, i)
              /\ \A j \in DOMAIN rows \ {i} : rows'[j] = rows[j]
              /\ proc' = [proc EXCEPT ![p] = [proc[p] EXCEPT !.link = compute_hash(proc[p].link, i),
                                                            !.todo = proc[p].todo \ {i}]]
<1> DEFINE h(i) == compute_hash(proc[p].link, i)
<1>1. PICK i \in proc[p].todo :
        /\ IsOldest(i, proc[p].todo) /\ rows' = [rows EXCEPT ![i].hash = h(i)]
        /\ proc' = [proc EXCEPT ![p].link = h(i), ![p].todo = @ \ {i}]
  BY DEF HashRow
<1> HIDE DEF h
<1>2. DOMAIN rows = 1..Len(rows) /\ rows \in [1..Len(rows) -> Row]
  BY DEF TypeOK
<1>3. \A j \in DOMAIN rows : rows[j].indexed = rows[j].indexed /\ rows[j] \in Row
  BY <1>2
<1>4. /\ DOMAIN rows' = DOMAIN rows
      /\ i \in DOMAIN rows => rows'[i] = [rows[i] EXCEPT !.hash = h(i)]
      /\ \A j \in DOMAIN rows \ {i} : rows'[j] = rows[j]
  BY <1>1, <1>2
<1>5. i \in DOMAIN rows => rows'[i].hash = h(i) /\ rows'[i].indexed = rows[i].indexed
  BY <1>3, <1>4 DEF Row
<1>6. proc' = [proc EXCEPT ![p] = [proc[p] EXCEPT !.link = h(i), !.todo = proc[p].todo \ {i}]]
  BY <1>1 DEF TypeOK
<1> QED
  BY <1>1, <1>4, <1>5, <1>6 DEF h

LEMMA IndexMigrate ==
  ASSUME Base, IndexInv, ~overlapped, "index" \notin torn, NEW p \in Processes, Migrate(p)
  PROVE  IndexInv'
<1> DEFINE k == proc[p].step
<1>t. TypeOK /\ Places(proc[p])
  BY DEF Base, SchemaInv, StepsFit
<1>1. Migrating(p) /\ k \in Steps
  <2>1. Migrating(p)
    BY DEF Migrate, Check, Add, Create, EndCreate, FillIndex, ReadEnd,
         SelectUnhashed, HashRow, SetEnd, Stamp, Record, MigratingPcs, Migrating
  <2> QED
    BY <2>1, <1>t DEF TypeOK
<1>2. InIndex(proc[p]) => Filling(proc[p], objects, rows)
  BY DEF IndexInv
<1>3. ~InIndex(proc[p]) => Filled(objects, rows)
  <2>1. \A x \in Processes \ {p} : ~InIndex(proc[x])
    BY <1>1, Alone DEF Base, InIndex, MigratingPcs
  <2> QED
    BY <2>1 DEF IndexInv
<1>o. k # 5 => /\ "events_fts" \notin Added[k] \cup Created[k] /\ "events_ai" \notin Added[k] \cup Created[k]
  BY <1>1, IndexObjects
<1>4. CASE Check(p)
  <2>1. /\ UNCHANGED <<objects, rows>> /\ proc[p].pc = "check"
        /\ \E pc : Goto(p, pc) /\ (pc \notin {"create", "fill"} \/ proc[p].step # 5)
    BY <1>4 DEF Check, schema, data
  <2> QED
    BY <1>t, <2>1, IndexGoto DEF InIndex
<1>f. CASE Add(p) /\ Fail(p)
  <2>1. /\ proc' = [proc EXCEPT ![p] = Closed] /\ UNCHANGED <<objects, rows>>
        /\ ~InIndex(proc[p]) /\ ~InIndex(Closed)
    BY <1>f DEF Add, Fail, schema, data, InIndex, Closed
  <2> QED
    BY <1>t, <2>1, IndexQuiet
<1>5. CASE Add(p) /\ ~Fail(p)
  <2>1. /\ proc[p].pc = "add" /\ Added[k] \cap objects = {} /\ objects' = objects \cup Added[k]
        /\ Goto(p, "create") /\ UNCHANGED rows /\ ~InIndex(proc[p])
    BY <1>5 DEF Add, data, InIndex
  <2>2. CASE k = 5
    <3> DEFINE r == [proc[p] EXCEPT !.pc = "create"]
    <3>1. proc' = [proc EXCEPT ![p] = r] /\ r.pc = "create" /\ r.step = 5
      BY <2>1, <2>2, <1>t DEF Goto, TypeOK
    <3> HIDE DEF r
    <3>2. "events_fts" \notin objects /\ "events_fts" \in objects'
      BY <2>1, <2>2, IndexObjects
    <3>3. Filling(r, objects', rows')
      BY <1>3, <2>1, <3>1, <3>2 DEF Filling, Filled
    <3>4. InIndex(r)
      BY <3>1 DEF InIndex
    <3> QED
      BY <1>1, <3>1, <3>3, <3>4, IndexOne
  <2>3. CASE k # 5
    BY <1>t, <1>o, <2>1, <2>3, IndexGoto
  <2> QED
    BY <2>2, <2>3
<1>6. CASE Create(p)
  <2>1. /\ proc[p].pc = "create" /\ proc' = proc /\ UNCHANGED rows
        /\ \E o \in Created[k] : objects' = objects \cup {o}
    BY <1>6 DEF Create, data
  <2>2. proc' = [proc EXCEPT ![p] = proc[p]]
    BY <1>t, <2>1 DEF TypeOK
  <2>3. CASE k = 5
    <3>1. InIndex(proc[p])
      BY <2>1, <2>3 DEF InIndex
    <3>2. Filling(proc[p], objects', rows')
      BY <1>2, <2>1, <3>1 DEF Filling
    <3> QED
      BY <1>1, <2>2, <3>1, <3>2, IndexOne
  <2>4. CASE k # 5
    <3>1. ~InIndex(proc[p])
      BY <2>4 DEF InIndex
    <3> QED
      BY <1>t, <1>o, <2>1, <2>2, <2>4, <3>1, IndexQuiet
  <2> QED
    BY <2>3, <2>4
<1>7. CASE EndCreate(p)
  <2>1. proc[p].pc = "create" /\ Created[k] \subseteq objects /\ Goto(p, AfterCreate(k)) /\ UNCHANGED <<objects, rows>>
    BY <1>7 DEF EndCreate, schema, data
  <2>2. CASE k = 5
    <3> DEFINE r == [proc[p] EXCEPT !.pc = "fill"]
    <3>1. proc' = [proc EXCEPT ![p] = r] /\ r.pc = "fill" /\ r.step = 5
      BY <2>1, <2>2, <1>t DEF Goto, TypeOK, AfterCreate
    <3> HIDE DEF r
    <3>2. "events_ai" \in objects /\ InIndex(proc[p]) /\ InIndex(r)
      BY <2>1, <2>2, <3>1, IndexObjects DEF InIndex
    <3>3. Filling(r, objects', rows')
      BY <1>2, <2>1, <3>1, <3>2 DEF Filling
    <3> QED
      BY <1>1, <3>1, <3>2, <3>3, IndexOne
  <2>3. CASE k # 5
    <3>1. ~InIndex(proc[p])
      BY <2>3 DEF InIndex
    <3> QED
      BY <1>t, <2>1, <2>3, <3>1, IndexGoto
  <2> QED
    BY <2>2, <2>3
<1>8. CASE FillIndex(p)
  <2>1. /\ proc[p].pc = "fill" /\ Goto(p, "stamp") /\ UNCHANGED objects
        /\ rows' = [i \in DOMAIN rows |-> [rows[i] EXCEPT !.indexed = @ + 1]]
    BY <1>8 DEF FillIndex, schema
  <2>2. InIndex(proc[p])
    BY <1>t, <2>1 DEF InIndex, Places
  <2>3. \A i \in DOMAIN rows : rows[i] \in Row
    BY <1>t DEF TypeOK
  <2>4. DOMAIN rows' = DOMAIN rows /\ \A i \in DOMAIN rows' : rows'[i].indexed = 1
    <3>1. ASSUME NEW i \in DOMAIN rows PROVE rows'[i].indexed = 1
      <4>1. rows'[i].indexed = rows[i].indexed + 1
        BY <2>1, <2>3 DEF Row
      <4> QED
        BY <1>2, <2>2, <4>1 DEF Filling
    <3> QED
      BY <2>1, <3>1
  <2> DEFINE r == [proc[p] EXCEPT !.pc = "stamp"]
  <2>5. proc' = [proc EXCEPT ![p] = r] /\ r.pc = "stamp"
    BY <2>1, <1>t DEF Goto, TypeOK
  <2> HIDE DEF r
  <2>6. ~InIndex(r) /\ Filled(objects', rows')
    BY <1>2, <2>1, <2>2, <2>4, <2>5 DEF InIndex, Filled, Filling
  <2> QED
    BY <1>1, <2>5, <2>6, IndexOne
<1>9. CASE ReadEnd(p) \/ SelectUnhashed(p)
  <2> DEFINE r == proc'[p]
  <2>1. /\ proc' = [proc EXCEPT ![p] = r] /\ r.pc \in {"select", "chain"} /\ UNCHANGED <<objects, rows>>
        /\ proc[p].pc \in {"readEnd", "select"}
    BY <1>9, <1>t DEF ReadEnd, SelectUnhashed, TypeOK, schema, data
  <2> HIDE DEF r
  <2>2. ~InIndex(proc[p]) /\ ~InIndex(r)
    BY <2>1 DEF InIndex
  <2> QED
    BY <1>t, <2>1, <2>2, IndexQuiet
<1>10. CASE HashRow(p)
  <2> DEFINE r == proc'[p]
  <2>1. proc' = [proc EXCEPT ![p] = r] /\ objects' = objects
    BY <1>10, <1>t DEF HashRow, TypeOK, schema
  <2>2. r.pc = "chain" /\ proc[p].pc = "chain"
    BY <1>10, <1>t, HashRowProc
  <2> HIDE DEF r
  <2>3. ~InIndex(proc[p]) /\ ~InIndex(r)
    BY <2>2 DEF InIndex
  <2>4. Filled(objects', rows')
    BY <1>3, <1>10, <1>t, <2>1, <2>3, HashRowRows DEF Filled
  <2> QED
    BY <1>1, <2>1, <2>3, <2>4, IndexOne
<1>11. CASE SetEnd(p) \/ Stamp(p)
  <2>1. /\ UNCHANGED <<objects, rows>> /\ proc[p].pc \in {"chain", "stamp"}
        /\ \E pc \in {"stamp", "record"} : Goto(p, pc)
    BY <1>11 DEF SetEnd, Stamp, schema, data
  <2>2. ~InIndex(proc[p])
    BY <2>1 DEF InIndex
  <2> QED
    BY <1>t, <2>1, <2>2, IndexGoto
<1>12. CASE Record(p)
  <2>1. UNCHANGED <<objects, rows>> /\ proc[p].pc = "record"
    BY <1>12 DEF Record, Fail, schema, data
  <2>2. \E r : proc' = [proc EXCEPT ![p] = r] /\ ~InIndex(r)
    <3>1. CASE Fail(p)
      <4>1. ~InIndex(Closed) /\ proc' = [proc EXCEPT ![p] = Closed]
        BY <3>1 DEF Fail, InIndex, Closed
      <4> QED
        BY <4>1
    <3>2. CASE ~Fail(p)
      BY <1>12, <3>2, EnteredIndex DEF Record
    <3> QED
      BY <3>1, <3>2
  <2>3. ~InIndex(proc[p])
    BY <2>1 DEF InIndex
  <2> QED
    BY <1>t, <2>1, <2>2, <2>3, IndexQuiet
<1> QED
  BY <1>4, <1>f, <1>5, <1>6, <1>7, <1>8, <1>9, <1>10, <1>11, <1>12 DEF Migrate

\* A process that has the store open has the index, so none creates it.
ReadyApart ==
  ~overlapped => \A x, y \in Processes : Ready(x) => ~InIndex(proc[y])

LEMMA EntersIndex ==
  ASSUME TypeOK, NEW p \in Processes, ~InIndex(proc[p]), InIndex(proc'[p]),
         Open(p) \/ Migrate(p) \/ Stop(p) \/ Close(p) \/ Write(p)
  PROVE  "events_fts" \notin objects /\ \A x \in Processes \ {p} : proc'[x] = proc[x]
<1>0. proc \in [Processes -> ProcType] /\ proc[p] \in ProcType
  BY DEF TypeOK, ProcType
<1>c. proc' # [proc EXCEPT ![p] = Closed]
  BY <1>0 DEF InIndex, Closed
<1>e. ASSUME NEW k, Enter(p, k) PROVE FALSE
  <2>1. PICK r : proc' = [proc EXCEPT ![p] = r] /\ ~InIndex(r)
    BY <1>e, EnteredIndex
  <2> QED
    BY <1>0, <2>1
<1>g. ASSUME NEW pc, Goto(p, pc)
      PROVE  /\ pc \in {"create", "fill"} /\ proc[p].step = 5
             /\ \A x \in Processes \ {p} : proc'[x] = proc[x]
  BY <1>0, <1>g DEF Goto, InIndex, ProcType
<1>1. Migrate(p)
  <2>1. ~Open(p)
    BY <1>e, <1>g, OpenReads
  <2> QED
    BY <2>1, <1>c DEF Stop, Close, Write
<1>2. Add(p) /\ ~Fail(p)
  <2>1. ~Check(p)
    <3>1. ASSUME Check(p) PROVE FALSE
      <4>1. PICK pc : Goto(p, pc) /\ (pc \notin {"create", "fill"} \/ proc[p].step # 5)
        BY <3>1 DEF Check
      <4> QED
        BY <4>1, <1>g
    <3> QED
      BY <3>1
  <2>2. ~EndCreate(p)
    BY <1>g DEF EndCreate, AfterCreate, InIndex
  <2>3. ~FillIndex(p) /\ ~SetEnd(p) /\ ~Stamp(p)
    BY <1>g DEF FillIndex, SetEnd, Stamp
  <2>4. ~Create(p)
    BY DEF Create
  <2>5. ~ReadEnd(p) /\ ~SelectUnhashed(p)
    BY <1>0 DEF ReadEnd, SelectUnhashed, InIndex, ProcType
  <2>6. ~HashRow(p)
    BY HashRowProc DEF InIndex
  <2>7. ~Record(p) /\ ~Fail(p)
    BY <1>c, <1>e DEF Record, Fail
  <2> QED
    BY <1>1, <2>1, <2>2, <2>3, <2>4, <2>5, <2>6, <2>7 DEF Migrate
<1>3. Added[proc[p].step] \cap objects = {} /\ Goto(p, "create")
  BY <1>2 DEF Add
<1> QED
  BY <1>3, <1>g, IndexObjects

LEMMA ReadyApartStep ==
  ASSUME Base, ReadyApart, [Next]_vars
  PROVE  ReadyApart'
<1> SUFFICES ASSUME ~overlapped', NEW x \in Processes, NEW y \in Processes,
                    proc'[x].pc = "ready", InIndex(proc'[y])
             PROVE  FALSE
  BY DEF ReadyApart, Ready, InIndex
<1>t. TypeOK /\ proc \in [Processes -> ProcType] /\ ~overlapped
  BY NotYet DEF Base, SchemaInv, TypeOK, ProcType
<1>h. Ready(x) => "events_fts" \in objects
  BY IndexObjects DEF Base, SchemaInv, Knows, Ready, Kept
<1>1. CASE UNCHANGED vars
  BY <1>1, <1>t DEF vars, ReadyApart, Ready
<1>2. CASE Next
  <2>0. PICK p \in Processes :
          Open(p) \/ Migrate(p) \/ Stop(p) \/ Close(p) \/ Write(p)
    BY <1>2 DEF Next
  <2>1. \A z \in Processes \ {p} : proc'[z] = proc[z]
    <3>1. CASE Open(p)
      BY <3>1, <1>t, OpenReads DEF Goto, Enter
    <3>2. CASE Migrate(p)
      BY <3>2, <1>t DEF Migrate, Check, Add, Create, EndCreate, FillIndex, ReadEnd,
         SelectUnhashed, HashRow, SetEnd, Stamp, Record, Fail, Goto, Enter
    <3>3. CASE Stop(p) \/ Close(p) \/ Write(p)
      BY <3>3, <1>t DEF Stop, Close, Write
    <3> QED
      BY <2>0, <3>1, <3>2, <3>3
  <2>2. CASE Ready(x)
    <3>1. ~InIndex(proc[y]) /\ "events_fts" \in objects
      BY <1>h, <1>t, <2>2 DEF ReadyApart
    <3>2. y = p
      BY <2>1, <3>1
    <3> QED
      BY <1>t, <2>0, <3>1, <3>2, EntersIndex
  <2>3. CASE ~Ready(x)
    <3>1. x = p /\ Ready(p)'
      BY <2>1, <2>3 DEF Ready
    <3>2. Open(p) \/ Migrate(p)
      <4>1. ~Stop(p) /\ ~Close(p)
        BY <1>t, <3>1 DEF Stop, Close, Ready, Closed
      <4>2. ~Write(p)
        BY <2>3, <3>1 DEF Write, Ready
      <4> QED
        BY <2>0, <4>1, <4>2
    <3>3. \A z \in Processes : Migrating(z) => proc[z].pc = "record" \/ proc[z].step = 1
      BY <1>t, <3>1, <3>2, GetsReady
    <3>4. y # x /\ proc'[y] = proc[y]
      <4>1. y # x
        BY <1>t DEF InIndex
      <4> QED
        BY <2>1, <3>1, <4>1
    <3> QED
      BY <3>3, <3>4 DEF InIndex, Migrating, MigratingPcs
  <2> QED
    BY <2>2, <2>3
<1> QED
  BY <1>1, <1>2

LEMMA IndexStep ==
  ASSUME Base, ReadyApart, IndexInv, [Next]_vars
  PROVE  IndexInv'
<1> SUFFICES ASSUME ~overlapped', "index" \notin torn' PROVE IndexInv'
  BY DEF IndexInv
<1>t. TypeOK /\ ~overlapped
  BY NotYet DEF Base, SchemaInv
<1>1. CASE UNCHANGED vars
  BY <1>1 DEF vars, IndexInv, Filling
<1>2. CASE Next
  <2>0. PICK p \in Processes :
          Open(p) \/ Migrate(p) \/ Stop(p) \/ Close(p) \/ Write(p)
    BY <1>2 DEF Next
  <2>1. CASE Open(p)
    <3>1. UNCHANGED <<objects, rows, torn>> /\ ~InIndex(proc[p])
      BY <2>1, OpenReads DEF InIndex
    <3>0. PICK read : Goto(p, "refused") \/ Enter(p, read + 1)
      BY <2>1, OpenReads
    <3>2. CASE Goto(p, "refused")
      BY <1>t, <3>1, <3>2, IndexGoto
    <3>3. CASE Enter(p, read + 1)
      <4>1. PICK r : proc' = [proc EXCEPT ![p] = r] /\ ~InIndex(r)
        BY <3>3, EnteredIndex
      <4> QED
        BY <1>t, <3>1, <4>1, IndexQuiet
    <3> QED
      BY <3>0, <3>2, <3>3
  <2>2. CASE Migrate(p)
    <3>1. torn' = torn
      BY <2>2 DEF Migrate, Check, Add, Create, EndCreate, FillIndex, ReadEnd,
             SelectUnhashed, HashRow, SetEnd, Stamp, Record, Fail, history
    <3> QED
      BY <1>t, <2>2, <3>1, IndexMigrate
  <2>3. CASE Stop(p) \/ Close(p)
    <3>1. /\ UNCHANGED <<objects, rows>> /\ proc' = [proc EXCEPT ![p] = Closed]
          /\ "index" \notin torn /\ ~InIndex(proc[p])
      BY <2>3 DEF Stop, Close, schema, data, history, LeavesTorn, InIndex
    <3>2. ~InIndex(Closed)
      BY DEF InIndex, Closed
    <3> QED
      BY <1>t, <3>1, <3>2, IndexQuiet
  <2>4. CASE Write(p)
    <3>1. /\ UNCHANGED <<objects, proc>> /\ "index" \notin torn /\ Ready(p)
          /\ \E h : rows' = Append(rows, [hash |-> h, indexed |-> IF "events_ai" \in objects THEN 1 ELSE 0])
      BY <2>4 DEF Write, schema
    <3>2. \A x \in Processes : ~InIndex(proc[x])
      BY <1>t, <3>1 DEF ReadyApart
    <3>3. Filled(objects, rows)
      BY <1>t, <3>1, <3>2 DEF IndexInv
    <3>4. /\ DOMAIN rows = 1..Len(rows) /\ DOMAIN rows' = 1..Len(rows) + 1 /\ Len(rows) \in Nat
          /\ \A i \in 1..Len(rows) : rows'[i] = rows[i]
          /\ rows'[Len(rows) + 1].indexed = IF "events_ai" \in objects THEN 1 ELSE 0
      BY <1>t, <3>1 DEF TypeOK
    <3>5. Filled(objects', rows')
      <4>1. ASSUME NEW i \in DOMAIN rows' PROVE rows'[i].indexed = IF "events_fts" \in objects THEN 1 ELSE 0
        <5>1. i \in 1..Len(rows) \/ i = Len(rows) + 1
          BY <3>4
        <5> QED
          BY <3>3, <3>4, <5>1 DEF Filled
      <4> QED
        BY <3>1, <3>3, <4>1 DEF Filled
    <3> QED
      BY <3>1, <3>2, <3>5 DEF IndexInv
  <2> QED
    BY <2>0, <2>1, <2>2, <2>3, <2>4
<1> QED
  BY <1>1, <1>2

LEMMA IndexInit == ASSUME Init PROVE IndexInv
<1>1. \A x \in Processes : ~InIndex(proc[x])
  BY DEF Init, Closed, InIndex
<1>2. version \in Nat /\ objects = UNION {Added[k] \cup Created[k] : k \in {s \in Steps : s <= version}}
  BY BoundsAssumption DEF Init
<1>3. "events_fts" \in objects <=> version >= 5
  <2>1. "events_fts" \in objects <=> \E k \in {s \in Steps : s <= version} : "events_fts" \in Added[k] \cup Created[k]
    BY <1>2
  <2> QED
    BY <1>2, <2>1, IndexObjects
<1>4. "events_ai" \in objects <=> version >= 5
  <2>1. "events_ai" \in objects <=> \E k \in {s \in Steps : s <= version} : "events_ai" \in Added[k] \cup Created[k]
    BY <1>2
  <2> QED
    BY <1>2, <2>1, IndexObjects
<1>5. \A i \in DOMAIN rows : rows[i].indexed = IF version >= 5 THEN 1 ELSE 0
  BY DEF Init
<1> QED
  BY <1>1, <1>3, <1>4, <1>5 DEF IndexInv, Filled

(***************************************************************************)
(* As long as migrations do not overlap and no stop fell between the       *)
(* creation of the index and the end of its backfill, every row there is   *)
(* at rest from version 5 on is in the full-text index exactly once, for   *)
(* any number of rows, processes and other stops (migrate_0005_fts5, the   *)
(* triggers), and through any misread version or table.                    *)
(***************************************************************************)
THEOREM IndexDoesCoverHistory == Spec => []IndexCoversHistory
<1>1. Init => Base /\ ReadyApart /\ IndexInv
  <2>1. Init => ReadyApart
    BY DEF Init, ReadyApart, Ready, Closed
  <2> QED
    BY <2>1, BaseInit, IndexInit
<1>2. Base /\ ReadyApart /\ IndexInv /\ [Next]_vars => Base' /\ ReadyApart' /\ IndexInv'
  BY BaseStep, ReadyApartStep, IndexStep
<1>3. Base /\ IndexInv => IndexCoversHistory
  <2> SUFFICES ASSUME Base, IndexInv, "index" \notin torn, ~overlapped, AtRest, version >= 5
               PROVE  \A i \in DOMAIN rows : rows[i].indexed = 1
    BY DEF IndexCoversHistory, HistoryIndexed
  <2>1. \A x \in Processes : ~InIndex(proc[x])
    BY DEF AtRest, InIndex, Migrating, MigratingPcs
  <2>2. "events_fts" \in objects
    <3>1. Kept(5) \subseteq objects
      BY IndexObjects DEF Base, SchemaInv
    <3> QED
      BY <3>1, IndexObjects DEF Kept
  <2> QED
    BY <2>1, <2>2 DEF IndexInv, Filled
<1> QED
  BY <1>1, <1>2, <1>3, PTL DEF Spec

-----------------------------------------------------------------------------
(* The chain.                                                              *)

Intact(rs, ls) ==
  /\ \A i \in DOMAIN rs : rs[i].hash = IntactHash(i)
  /\ ls = IntactHash(Len(rs))

Bare(rs, ls) ==
  /\ \A i \in DOMAIN rs : rs[i].hash = NoHash
  /\ ls = Genesis

\* A process that chains has done the rows up to m, and has the others to do.
HalfAt(m, r, rs, ls) ==
  /\ r.link = IntactHash(m) /\ r.todo = (m + 1)..Len(rs)
  /\ \A i \in DOMAIN rs : rs[i].hash = IF i <= m THEN IntactHash(i) ELSE NoHash
  /\ ls = Genesis \/ (m = Len(rs) /\ ls = IntactHash(m))

Half(r, rs, ls) == \E m \in 0..Len(rs) : HalfAt(m, r, rs, ls)

\* What one process has to do with it.
Chains(r, rs, ls) ==
  /\ r.pc = "chain" => Half(r, rs, ls)
  /\ r.pc = "select" => r.link = ls
  /\ r.pc = "stamp" /\ r.step = 6 => Intact(rs, ls)

\* Rows are all hashed from version 6 on, and all or none of them before.
Even(rs, ls, ver) == Intact(rs, ls) \/ (Bare(rs, ls) /\ ver < 6)

ChainInv ==
  ~overlapped /\ "chain" \notin torn =>
    /\ \A x \in Processes : Chains(proc[x], rows, last)
    /\ (\A x \in Processes : proc[x].pc # "chain") => Even(rows, last, version)
    /\ (\E x \in Processes : Ready(x)) => Intact(rows, last)

LEMMA IntactHashes ==
  /\ IntactHash(0) = Genesis
  /\ \A m \in Nat : compute_hash(IntactHash(m), m + 1) = IntactHash(m + 1)
  /\ \A m \in Nat : IntactHash(m) = Genesis => m = 0
  /\ \A m \in Nat \ {0} : IntactHash(m) # NoHash
<1>0. ASSUME NEW m \in Nat
      PROVE  IntactHash(m) \in Seq(Nat) /\ Len(IntactHash(m)) = m /\ \A j \in 1..m : IntactHash(m)[j] = j
  <2>1. IntactHash(m) \in [1..m -> Nat]
    BY DEF IntactHash
  <2> QED
    BY <2>1 DEF IntactHash
<1>1. IntactHash(0) = Genesis
  BY <1>0 DEF Genesis
<1>2. ASSUME NEW m \in Nat PROVE compute_hash(IntactHash(m), m + 1) = IntactHash(m + 1)
  <2>1. /\ IntactHash(m) \in Seq(Nat) /\ Len(IntactHash(m)) = m /\ \A j \in 1..m : IntactHash(m)[j] = j
        /\ IntactHash(m + 1) \in Seq(Nat) /\ Len(IntactHash(m + 1)) = m + 1
        /\ \A j \in 1..m + 1 : IntactHash(m + 1)[j] = j
    BY <1>0
  <2> DEFINE a == Append(IntactHash(m), m + 1)
  <2>2. a \in Seq(Nat) /\ Len(a) = m + 1 /\ \A j \in 1..m + 1 : a[j] = j
    BY <2>1
  <2> HIDE DEF a
  <2>3. a = IntactHash(m + 1)
    BY <2>1, <2>2
  <2> QED
    BY <2>3 DEF a, compute_hash
<1>3. ASSUME NEW m \in Nat, IntactHash(m) = Genesis PROVE m = 0
  <2>1. Len(IntactHash(m)) = m /\ Len(Genesis) = 0
    BY <1>0 DEF Genesis
  <2> QED
    BY <1>3, <2>1
<1>4. ASSUME NEW m \in Nat \ {0} PROVE IntactHash(m) # NoHash
  <2>1. IntactHash(m)[1] = 1 /\ NoHash[1] = 0
    BY <1>0 DEF NoHash
  <2> QED
    BY <2>1
<1> QED
  BY <1>1, <1>2, <1>3, <1>4

LEMMA ChainOne ==
  ASSUME Base, ChainInv, ~overlapped, "chain" \notin torn, NEW p \in Processes, NEW r,
         proc' = [proc EXCEPT ![p] = r], Migrating(p),
         Chains(r, rows', last'), r.pc # "chain" => Even(rows', last', version'),
         (\E x \in Processes : Ready(x)') => Intact(rows', last')
  PROVE  ChainInv'
<1>1. ASSUME NEW x \in Processes \ {p} PROVE Chains(proc'[x], rows', last') /\ proc'[x].pc # "chain"
  <2>1. proc[x].pc \notin MigratingPcs /\ proc'[x] = proc[x]
    BY Alone DEF Base, SchemaInv, TypeOK
  <2> QED
    BY <2>1 DEF Chains, MigratingPcs
<1>2. proc'[p] = r
  BY DEF Base, SchemaInv, TypeOK
<1>3. \A x \in Processes : Chains(proc'[x], rows', last')
  BY <1>1, <1>2
<1>4. (\A x \in Processes : proc'[x].pc # "chain") => Even(rows', last', version')
  BY <1>2
<1> QED
  BY <1>3, <1>4 DEF ChainInv

\* Hashes that stay.
SameHashes ==
  /\ last' = last /\ DOMAIN rows' = DOMAIN rows /\ Len(rows') = Len(rows)
  /\ \A i \in DOMAIN rows : rows'[i].hash = rows[i].hash

LEMMA SameEven ==
  ASSUME SameHashes
  PROVE  /\ Intact(rows', last') <=> Intact(rows, last)
         /\ Bare(rows', last') <=> Bare(rows, last)
         /\ \A r : Half(r, rows', last') <=> Half(r, rows, last)
         /\ \A r : Chains(r, rows', last') <=> Chains(r, rows, last)
<1>1. Intact(rows', last') <=> Intact(rows, last)
  BY DEF SameHashes, Intact
<1>2. Bare(rows', last') <=> Bare(rows, last)
  BY DEF SameHashes, Bare
<1>3. ASSUME NEW r PROVE Half(r, rows', last') <=> Half(r, rows, last)
  <2>1. \A m : HalfAt(m, r, rows', last') <=> HalfAt(m, r, rows, last)
    BY DEF SameHashes, HalfAt
  <2> QED
    BY <2>1 DEF Half, SameHashes
<1>4. ASSUME NEW r PROVE Chains(r, rows', last') <=> Chains(r, rows, last)
  BY <1>1, <1>3 DEF Chains, SameHashes
<1> QED
  BY <1>1, <1>2, <1>3, <1>4

LEMMA ChainQuiet ==
  ASSUME TypeOK, ChainInv, ~overlapped, "chain" \notin torn, NEW p \in Processes, NEW r,
         proc' = [proc EXCEPT ![p] = r], proc[p].pc # "chain",
         r.pc \notin {"chain", "select"}, r.pc = "stamp" => r.step # 6,
         SameHashes, version' = version,
         (\E x \in Processes : Ready(x)') => Intact(rows, last)
  PROVE  ChainInv'
<1>1. \A x \in Processes : proc'[x].pc = "chain" <=> proc[x].pc = "chain"
  BY DEF TypeOK
<1>2. ASSUME NEW x \in Processes PROVE Chains(proc'[x], rows', last')
  <2>1. CASE x = p
    BY <2>1 DEF Chains, TypeOK
  <2>2. CASE x # p
    <3>1. proc'[x] = proc[x] /\ Chains(proc[x], rows, last)
      BY <2>2 DEF ChainInv, TypeOK
    <3> QED
      BY <3>1, SameEven
  <2> QED
    BY <2>1, <2>2
<1>3. (\A x \in Processes : proc'[x].pc # "chain") => Even(rows', last', version')
  BY <1>1, SameEven DEF ChainInv, Even
<1> QED
  BY <1>2, <1>3, SameEven DEF ChainInv

LEMMA ChainGoto ==
  ASSUME TypeOK, ChainInv, ~overlapped, "chain" \notin torn, NEW p \in Processes, NEW pc, Goto(p, pc),
         proc[p].pc # "chain", pc \notin {"chain", "select"}, pc = "stamp" => proc[p].step # 6,
         SameHashes, version' = version,
         (\E x \in Processes : Ready(x)') => Intact(rows, last)
  PROVE  ChainInv'
<1> DEFINE r == [proc[p] EXCEPT !.pc = pc]
<1>1. proc' = [proc EXCEPT ![p] = r] /\ r.pc = pc /\ r.step = proc[p].step
  BY DEF Goto, TypeOK
<1> HIDE DEF r
<1> QED
  BY <1>1, ChainQuiet

\* A process that gets the store open finds the chain intact.
LEMMA ReadyIntact ==
  ASSUME Base, ChainInv, ~overlapped, "chain" \notin torn, NEW p \in Processes,
         Open(p) \/ Migrate(p) \/ Stop(p) \/ Close(p) \/ Write(p),
         NEW x \in Processes, Ready(x)'
  PROVE  Intact(rows, last)
<1>t. TypeOK /\ proc \in [Processes -> ProcType]
  BY DEF Base, SchemaInv, TypeOK, ProcType
<1>1. CASE Ready(x)
  BY <1>1 DEF ChainInv
<1>2. CASE ~Ready(x)
  <2>1. x = p /\ (Open(p) \/ Migrate(p))
    <3>1. \A z \in Processes \ {p} : proc'[z] = proc[z]
      <4>1. CASE Open(p)
        BY <4>1, <1>t, OpenReads DEF Goto, Enter
      <4>2. CASE Migrate(p)
        BY <4>2, <1>t DEF Migrate, Check, Add, Create, EndCreate, FillIndex, ReadEnd,
           SelectUnhashed, HashRow, SetEnd, Stamp, Record, Fail, Goto, Enter
      <4>3. CASE Stop(p) \/ Close(p) \/ Write(p)
        BY <4>3, <1>t DEF Stop, Close, Write
      <4> QED
        BY <4>1, <4>2, <4>3
    <3>2. x = p
      BY <1>2, <3>1 DEF Ready
    <3>3. ~Stop(p) /\ ~Close(p) /\ ~Write(p)
      BY <1>2, <1>t, <3>2 DEF Stop, Close, Write, Ready, Closed
    <3> QED
      BY <3>2, <3>3
  <2>2. /\ version = CURRENT_SCHEMA_VERSION
        /\ \A z \in Processes : Migrating(z) => proc[z].pc = "record" \/ proc[z].step = 1
    BY <2>1, GetsReady
  <2>3. ASSUME NEW z \in Processes PROVE proc[z].pc # "chain"
    <3>1. proc[z].pc = "chain" => Migrating(z) /\ proc[z].step = 6
      BY DEF Base, StepsFit, Places, Migrating, MigratingPcs
    <3> QED
      BY <2>2, <3>1
  <2> QED
    BY <2>2, <2>3 DEF ChainInv, Even, CURRENT_SCHEMA_VERSION
<1> QED
  BY <1>1, <1>2

\* A row is chained.
LEMMA HashRowChain ==
  ASSUME TypeOK, NEW p \in Processes, HashRow(p), Half(proc[p], rows, last)
  PROVE  Half(proc'[p], rows', last') /\ last' = last
<1>1. PICK m \in 0..Len(rows) : HalfAt(m, proc[p], rows, last)
  BY DEF Half
<1>2. rows \in Seq(Row) /\ DOMAIN rows = 1..Len(rows) /\ Len(rows) \in Nat /\ m \in Nat
  BY DEF TypeOK
<1>3. PICK i \in proc[p].todo :
        /\ IsOldest(i, proc[p].todo)
        /\ i \in DOMAIN rows => rows'[i].hash = compute_hash(proc[p].link, i)
        /\ \A j \in DOMAIN rows \ {i} : rows'[j] = rows[j]
        /\ proc' = [proc EXCEPT ![p] = [proc[p] EXCEPT !.link = compute_hash(proc[p].link, i),
                                                      !.todo = proc[p].todo \ {i}]]
  BY HashRowRows
<1>4. proc[p].link = IntactHash(m) /\ proc[p].todo = (m + 1)..Len(rows)
  BY <1>1 DEF HalfAt
<1>5. i = m + 1 /\ m + 1 \in 1..Len(rows)
  BY <1>2, <1>3, <1>4 DEF IsOldest
<1>6. compute_hash(proc[p].link, i) = IntactHash(m + 1)
  BY <1>2, <1>4, <1>5, IntactHashes
<1>7. proc'[p].link = IntactHash(m + 1) /\ proc'[p].todo = (m + 2)..Len(rows)
  <2>1. proc'[p] = [proc[p] EXCEPT !.link = IntactHash(m + 1), !.todo = proc[p].todo \ {i}]
    BY <1>3, <1>6 DEF TypeOK
  <2>2. ((m + 1)..Len(rows)) \ {m + 1} = (m + 2)..Len(rows)
    BY <1>2, <1>5
  <2> QED
    BY <1>4, <1>5, <2>1, <2>2 DEF TypeOK
<1>8. DOMAIN rows' = DOMAIN rows /\ Len(rows') = Len(rows)
  <2>1. DOMAIN rows' = DOMAIN rows /\ rows' \in [1..Len(rows) -> Row]
    <3>1. TypeOK'
      BY TypeStep DEF Next, Migrate
    <3>2. rows' \in Seq(Row) /\ DOMAIN rows' = DOMAIN rows
      BY <3>1, HashRowRows DEF TypeOK
    <3> QED
      BY <1>2, <3>2
  <2> QED
    BY <1>2, <2>1
<1>9. \A j \in DOMAIN rows' : rows'[j].hash = IF j <= m + 1 THEN IntactHash(j) ELSE NoHash
  <2>1. ASSUME NEW j \in DOMAIN rows PROVE rows'[j].hash = IF j <= m + 1 THEN IntactHash(j) ELSE NoHash
    <3>1. CASE j = i
      BY <1>3, <1>5, <1>6, <2>1, <3>1
    <3>2. CASE j # i
      <4>1. rows'[j] = rows[j] /\ rows[j].hash = IF j <= m THEN IntactHash(j) ELSE NoHash
        BY <1>1, <1>3, <3>2 DEF HalfAt
      <4>2. j <= m <=> j <= m + 1
        BY <1>2, <1>5, <3>2
      <4> QED
        BY <4>1, <4>2
    <3> QED
      BY <3>1, <3>2
  <2> QED
    BY <1>8, <2>1
<1>10. last' = last /\ last = Genesis
  BY <1>1, <1>2, <1>5 DEF HashRow, HalfAt
<1>11. m + 1 \in 0..Len(rows') /\ (m + 1) + 1 = m + 2
  BY <1>2, <1>5, <1>8
<1>12. HalfAt(m + 1, proc'[p], rows', last')
  BY <1>7, <1>8, <1>9, <1>10, <1>11 DEF HalfAt
<1> QED
  BY <1>10, <1>11, <1>12 DEF Half

LEMMA ChainMigrate ==
  ASSUME Base, ChainInv, ~overlapped, "chain" \notin torn, NEW p \in Processes, Migrate(p)
  PROVE  ChainInv'
<1> DEFINE k == proc[p].step
<1>t. TypeOK /\ Places(proc[p])
  BY DEF Base, SchemaInv, StepsFit
<1>1. Migrating(p) /\ k \in Steps /\ k \in Nat
  <2>1. Migrating(p)
    BY DEF Migrate, Check, Add, Create, EndCreate, FillIndex, ReadEnd,
         SelectUnhashed, HashRow, SetEnd, Stamp, Record, MigratingPcs, Migrating
  <2> QED
    BY <2>1, <1>t DEF TypeOK, CURRENT_SCHEMA_VERSION
<1>2. Chains(proc[p], rows, last)
  BY DEF ChainInv
<1>r. (\E x \in Processes : Ready(x)') => Intact(rows, last)
  BY ReadyIntact
<1>3. proc[p].pc # "chain" => Even(rows, last, version)
  <2>1. \A x \in Processes \ {p} : proc[x].pc # "chain"
    BY <1>1, Alone DEF Base, MigratingPcs
  <2> QED
    BY <2>1 DEF ChainInv
<1>4. /\ k # 1 => version = IF proc[p].pc = "record" THEN k ELSE k - 1
      /\ rows \in Seq(Row) /\ DOMAIN rows = 1..Len(rows) /\ Len(rows) \in Nat
  BY <1>1, <1>t, Alone DEF Base, TypeOK
<1>s. rows' = rows /\ last' = last => SameHashes
  BY DEF SameHashes
<1>5. CASE Check(p) \/ EndCreate(p)
  <2>1. /\ UNCHANGED <<rows, last, version>> /\ proc[p].pc # "chain"
        /\ \E pc : Goto(p, pc) /\ pc \notin {"chain", "select"} /\ (pc = "stamp" => k # 6)
    BY <1>5 DEF Check, EndCreate, AfterCreate, schema, data
  <2> QED
    BY <1>r, <1>s, <1>t, <2>1, ChainGoto
<1>f. CASE Add(p) /\ Fail(p)
  <2>1. /\ proc[p].pc = "add" /\ proc' = [proc EXCEPT ![p] = Closed] /\ Closed.pc = "closed"
        /\ UNCHANGED <<rows, last, version>>
    BY <1>f DEF Add, Fail, schema, data, Closed
  <2> QED
    BY <1>r, <1>s, <1>t, <2>1, ChainQuiet
<1>6. CASE Add(p) /\ ~Fail(p)
  <2>1. proc[p].pc = "add" /\ Goto(p, "create") /\ UNCHANGED <<rows, last, version>>
    BY <1>6 DEF Add, data
  <2> QED
    BY <1>r, <1>s, <1>t, <2>1, ChainGoto
<1>7. CASE Create(p)
  <2>1. proc[p].pc = "create" /\ proc' = [proc EXCEPT ![p] = proc[p]] /\ UNCHANGED <<rows, last, version>>
    BY <1>7, <1>t DEF Create, data, TypeOK
  <2> QED
    BY <1>r, <1>s, <1>t, <2>1, ChainQuiet
<1>8. CASE FillIndex(p)
  <2>1. /\ proc[p].pc = "fill" /\ Goto(p, "stamp") /\ UNCHANGED <<last, version>>
        /\ rows' = [i \in DOMAIN rows |-> [rows[i] EXCEPT !.indexed = @ + 1]]
    BY <1>8 DEF FillIndex, schema
  <2>2. SameHashes
    <3>1. \A i \in DOMAIN rows : rows[i] \in Row
      BY <1>4
    <3>2. DOMAIN rows' = DOMAIN rows /\ \A i \in DOMAIN rows : rows'[i].hash = rows[i].hash
      BY <2>1, <3>1 DEF Row
    <3>3. rows' = [i \in 1..Len(rows) |-> rows'[i]]
      BY <1>4, <2>1
    <3>4. Len(rows') = Len(rows)
      BY <1>4, <3>3
    <3> QED
      BY <2>1, <3>2, <3>4 DEF SameHashes
  <2>3. k = 5
    BY <1>t, <2>1 DEF Places
  <2> QED
    BY <1>r, <1>t, <2>1, <2>2, <2>3, ChainGoto
<1>9. CASE ReadEnd(p)
  <2> DEFINE r == [proc[p] EXCEPT !.pc = "select", !.link = last]
  <2>1. proc' = [proc EXCEPT ![p] = r] /\ proc[p].pc = "readEnd" /\ UNCHANGED <<rows, last, version>>
    BY <1>9, <1>t DEF ReadEnd, TypeOK, schema, data
  <2>2. r.pc = "select" /\ r.link = last
    BY <1>t DEF TypeOK
  <2> HIDE DEF r
  <2>3. Chains(r, rows', last') /\ Even(rows', last', version')
    BY <1>3, <2>1, <2>2 DEF Chains
  <2> QED
    BY <1>r, <1>1, <2>1, <2>3, ChainOne
<1>10. CASE SelectUnhashed(p)
  <2> DEFINE S == {i \in DOMAIN rows : rows[i].hash = NoHash}
             r == [proc[p] EXCEPT !.pc = "chain", !.todo = S]
  <2>1. proc' = [proc EXCEPT ![p] = r] /\ proc[p].pc = "select" /\ UNCHANGED <<rows, last, version>>
    BY <1>10, <1>t DEF SelectUnhashed, TypeOK, schema, data
  <2>2. r.pc = "chain" /\ r.link = last /\ r.todo = S
    BY <1>2, <1>t, <2>1 DEF TypeOK, Chains
  <2> HIDE DEF r
  <2>3. CASE Intact(rows, last)
    <3>1. \A i \in DOMAIN rows : rows[i].hash # NoHash
      <4>1. \A i \in DOMAIN rows : rows[i].hash = IntactHash(i) /\ i \in Nat \ {0}
        BY <1>4, <2>3 DEF Intact
      <4> QED
        BY <4>1, IntactHashes
    <3>2. S = (Len(rows) + 1)..Len(rows)
      BY <1>4, <3>1
    <3>3. HalfAt(Len(rows), r, rows, last)
      BY <1>4, <2>2, <2>3, <3>2 DEF HalfAt, Intact
    <3>4. Len(rows) \in 0..Len(rows)
      BY <1>4
    <3> QED
      BY <1>r, <1>1, <2>1, <2>2, <3>3, <3>4, ChainOne DEF Chains, Half
  <2>4. CASE Bare(rows, last)
    <3>1. S = (0 + 1)..Len(rows)
      BY <1>4, <2>4 DEF Bare
    <3>2. HalfAt(0, r, rows, last)
      <4>1. last = Genesis /\ r.link = IntactHash(0) /\ r.todo = (0 + 1)..Len(rows)
        BY <2>2, <2>4, <3>1, IntactHashes DEF Bare
      <4>2. \A i \in DOMAIN rows : rows[i].hash = NoHash /\ ~(i <= 0)
        BY <1>4, <2>4 DEF Bare
      <4> QED
        BY <4>1, <4>2 DEF HalfAt
    <3>3. 0 \in 0..Len(rows)
      BY <1>4
    <3> QED
      BY <1>r, <1>1, <2>1, <2>2, <3>2, <3>3, ChainOne DEF Chains, Half
  <2> QED
    BY <1>3, <2>1, <2>3, <2>4 DEF Even
<1>11. CASE HashRow(p)
  <2> DEFINE r == proc'[p]
  <2>1. proc' = [proc EXCEPT ![p] = r]
    BY <1>11, <1>t DEF HashRow, TypeOK
  <2>2. proc[p].pc = "chain" /\ r.pc = "chain"
    BY <1>11, <1>t, HashRowProc
  <2>3. Half(r, rows', last')
    BY <1>2, <1>11, <1>t, <2>2, HashRowChain DEF Chains
  \* There is a row to chain, so no chain is intact yet.
  <2>4. ~Intact(rows, last)
    <3>1. PICK m \in 0..Len(rows) : HalfAt(m, proc[p], rows, last)
      BY <1>2, <2>2 DEF Chains, Half
    <3>2. PICK i \in proc[p].todo : TRUE
      BY <1>11 DEF HashRow
    <3>3. i \in DOMAIN rows /\ i > m /\ i \in Nat \ {0} /\ m \in Nat
      <4>1. i \in (m + 1)..Len(rows)
        BY <3>1, <3>2 DEF HalfAt
      <4>2. m \in Nat /\ Len(rows) \in Nat
        BY <1>4
      <4> QED
        BY <1>4, <4>1, <4>2
    <3>4. rows[i].hash = NoHash
      BY <3>1, <3>3 DEF HalfAt
    <3> QED
      BY <3>3, <3>4, IntactHashes DEF Intact
  <2> HIDE DEF r
  <2> QED
    BY <1>r, <1>1, <2>1, <2>2, <2>3, <2>4, ChainOne DEF Chains
<1>12. CASE SetEnd(p)
  <2> DEFINE r == [proc[p] EXCEPT !.pc = "stamp"]
  <2>1. /\ proc[p].pc = "chain" /\ proc[p].todo = {} /\ last' = proc[p].link /\ rows' = rows
        /\ proc' = [proc EXCEPT ![p] = r]
    BY <1>12 DEF SetEnd, Goto
  <2>2. r.pc = "stamp"
    BY <1>t DEF TypeOK
  <2> HIDE DEF r
  <2>3. PICK m \in 0..Len(rows) : HalfAt(m, proc[p], rows, last)
    BY <1>2, <2>1 DEF Chains, Half
  <2>4. m = Len(rows)
    <3>1. proc[p].todo = (m + 1)..Len(rows)
      BY <2>3 DEF HalfAt
    <3>2. ~(m + 1 \in (m + 1)..Len(rows))
      BY <2>1, <3>1
    <3>3. /\ m \in Nat /\ Len(rows) \in Nat /\ m <= Len(rows)
      BY <1>4, <2>3
    <3>4. ~(m < Len(rows))
      BY <3>2, <3>3
    <3> QED
      BY <3>3, <3>4
  <2>5. Intact(rows', last')
    BY <1>4, <2>1, <2>3, <2>4 DEF HalfAt, Intact
  <2> QED
    BY <1>r, <1>1, <2>1, <2>2, <2>5, ChainOne DEF Chains, Even
<1>13. CASE Stamp(p)
  <2> DEFINE r == [proc[p] EXCEPT !.pc = "record"]
  <2>1. /\ proc[p].pc = "stamp" /\ version' = k /\ UNCHANGED <<rows, last>>
        /\ proc' = [proc EXCEPT ![p] = r]
    BY <1>13 DEF Stamp, Goto, data
  <2>2. r.pc = "record"
    BY <1>t DEF TypeOK
  <2> HIDE DEF r
  <2>3. Even(rows', last', version')
    <3>1. CASE k = 6
      BY <1>2, <2>1, <3>1 DEF Chains, Even
    <3>2. CASE k = 1
      BY <1>3, <2>1, <3>2 DEF Even
    <3>3. CASE k # 6 /\ k # 1
      <4>1. version = k - 1 /\ (version < 6 => version' < 6)
        BY <1>1, <1>4, <2>1, <3>3
      <4> QED
        BY <1>3, <2>1, <4>1 DEF Even
    <3> QED
      BY <3>1, <3>2, <3>3
  <2> QED
    BY <1>r, <1>1, <2>1, <2>2, <2>3, ChainOne DEF Chains
<1>14. CASE Record(p)
  <2>1. UNCHANGED <<rows, last, version>> /\ proc[p].pc = "record"
    BY <1>14 DEF Record, Fail, schema, data
  <2>2. \E r : proc' = [proc EXCEPT ![p] = r] /\ r.pc \notin {"chain", "select", "stamp"}
    <3>1. CASE Fail(p)
      <4>1. proc' = [proc EXCEPT ![p] = Closed] /\ Closed.pc = "closed"
        BY <3>1 DEF Fail, Closed
      <4> QED
        BY <4>1
    <3>2. CASE ~Fail(p)
      BY <1>14, <3>2, EnteredIndex DEF Record
    <3> QED
      BY <3>1, <3>2
  <2> QED
    BY <1>r, <1>s, <1>t, <2>1, <2>2, ChainQuiet
<1> QED
  BY <1>5, <1>f, <1>6, <1>7, <1>8, <1>9, <1>10, <1>11, <1>12, <1>13, <1>14 DEF Migrate

LEMMA ChainStep ==
  ASSUME Base, ChainInv, [Next]_vars
  PROVE  ChainInv'
<1> SUFFICES ASSUME ~overlapped', "chain" \notin torn' PROVE ChainInv'
  BY DEF ChainInv
<1>t. TypeOK /\ ~overlapped
  BY NotYet DEF Base, SchemaInv
<1>s. rows' = rows /\ last' = last => SameHashes
  BY DEF SameHashes
<1>1. CASE UNCHANGED vars
  BY <1>1 DEF vars, ChainInv, Ready
<1>2. CASE Next
  <2>0. PICK p \in Processes :
          Open(p) \/ Migrate(p) \/ Stop(p) \/ Close(p) \/ Write(p)
    BY <1>2 DEF Next
  <2>1. CASE Open(p)
    <3>1. UNCHANGED <<rows, last, version, torn>> /\ proc[p].pc = "closed"
      BY <2>1, OpenReads
    <3>0. PICK read : Goto(p, "refused") \/ Enter(p, read + 1)
      BY <2>1, OpenReads
    <3>r. (\E x \in Processes : Ready(x)') => Intact(rows, last)
      BY <1>t, <2>1, <3>1, ReadyIntact
    <3>2. CASE Goto(p, "refused")
      BY <1>s, <1>t, <3>r, <3>1, <3>2, ChainGoto
    <3>3. CASE Enter(p, read + 1)
      <4>1. PICK r : proc' = [proc EXCEPT ![p] = r] /\ r.pc \notin {"chain", "select", "stamp"}
        BY <3>3, EnteredIndex
      <4> QED
        BY <1>s, <1>t, <3>r, <3>1, <4>1, ChainQuiet
    <3> QED
      BY <3>0, <3>2, <3>3
  <2>2. CASE Migrate(p)
    <3>1. torn' = torn
      BY <2>2 DEF Migrate, Check, Add, Create, EndCreate, FillIndex, ReadEnd,
             SelectUnhashed, HashRow, SetEnd, Stamp, Record, Fail, history
    <3> QED
      BY <1>t, <2>2, <3>1, ChainMigrate
  <2>3. CASE Stop(p) \/ Close(p)
    <3>1. /\ UNCHANGED <<rows, last, version>> /\ proc' = [proc EXCEPT ![p] = Closed]
          /\ "chain" \notin torn /\ (proc[p].pc = "chain" => Migrating(p) /\ proc[p].link = last)
      BY <2>3 DEF Stop, Close, schema, data, history, LeavesTorn
    <3>2. Closed.pc = "closed"
      BY DEF Closed
    <3>r. (\E x \in Processes : Ready(x)') => Intact(rows', last')
      BY <1>t, <2>3, <3>1, ReadyIntact
    <3>3. CASE proc[p].pc # "chain"
      BY <1>s, <1>t, <3>r, <3>1, <3>2, <3>3, ChainQuiet
    \* It has hashed no row yet, or none was to be hashed.
    <3>4. CASE proc[p].pc = "chain"
      <4>1. PICK m \in 0..Len(rows) : HalfAt(m, proc[p], rows, last)
        BY <1>t, <3>1, <3>4 DEF ChainInv, Chains, Half
      <4>2. last = IntactHash(m) /\ m \in Nat /\ DOMAIN rows = 1..Len(rows) /\ Len(rows) \in Nat
        BY <1>t, <3>1, <3>4, <4>1 DEF HalfAt, TypeOK
      <4>3. last = Genesis \/ m = Len(rows)
        BY <4>1 DEF HalfAt
      <4>4. CASE last = Genesis
        <5>1. m = 0
          BY <4>2, <4>4, IntactHashes
        <5>2. \A i \in DOMAIN rows : rows[i].hash = NoHash
          BY <4>1, <4>2, <5>1 DEF HalfAt
        <5>3. version < 6
          <6>1. version = proc[p].step - 1 /\ proc[p].step = 6
            BY <1>t, <3>1, <3>4, Alone DEF Base, StepsFit, Places
          <6> QED
            BY <6>1
        <5> QED
          BY <3>r, <3>1, <3>2, <3>4, <4>4, <5>2, <5>3, <1>t, ChainOne DEF Even, Bare, Chains
      <4>5. CASE m = Len(rows)
        <5>1. Intact(rows, last)
          BY <4>1, <4>2, <4>5 DEF HalfAt, Intact
        <5> QED
          BY <3>r, <3>1, <3>2, <3>4, <5>1, <1>t, ChainOne DEF Even, Chains
      <4> QED
        BY <4>3, <4>4, <4>5
    <3> QED
      BY <3>3, <3>4
  <2>4. CASE Write(p)
    <3> DEFINE n == Len(rows) + 1
               h == compute_hash(last, n)
    <3>1. /\ UNCHANGED <<version, proc>> /\ "chain" \notin torn /\ Ready(p) /\ last' = h
          /\ \A x \in Processes : proc[x].pc \notin {"chain", "select"}
          /\ \E x : rows' = Append(rows, [hash |-> h, indexed |-> x])
      BY <2>4 DEF Write, schema
    <3>3. Len(rows) \in Nat /\ rows \in Seq(Row)
      BY <1>t DEF TypeOK
    <3>4. Intact(rows, last)
      BY <1>t, <3>1 DEF ChainInv
    <3>5. h = IntactHash(n)
      BY <3>3, <3>4, IntactHashes DEF Intact
    <3>6. Intact(rows', last')
      <4>1. PICK x : rows' = Append(rows, [hash |-> h, indexed |-> x])
        BY <3>1
      <4> HIDE DEF h
      <4>2. /\ DOMAIN rows = 1..Len(rows) /\ DOMAIN rows' = 1..n /\ Len(rows') = n
            /\ \A i \in 1..Len(rows) : rows'[i] = rows[i]
            /\ rows'[n].hash = h
        BY <3>3, <4>1
      <4>3. ASSUME NEW i \in DOMAIN rows' PROVE rows'[i].hash = IntactHash(i)
        <5>1. i \in 1..Len(rows) \/ i = n
          BY <3>3, <4>2
        <5> QED
          BY <3>4, <3>5, <4>2, <5>1 DEF Intact
      <4>4. last' = IntactHash(Len(rows'))
        BY <3>1, <3>5, <4>2
      <4> QED
        BY <4>3, <4>4 DEF Intact
    <3>7. \A x \in Processes : Chains(proc'[x], rows', last')
      BY <3>1, <3>6 DEF Chains
    <3> QED
      BY <3>6, <3>7 DEF ChainInv, Even
  <2> QED
    BY <2>0, <2>1, <2>2, <2>3, <2>4
<1> QED
  BY <1>1, <1>2

LEMMA ChainInit == ASSUME Init PROVE ChainInv
<1>1. \A x \in Processes : Chains(proc[x], rows, last)
  BY DEF Init, Closed, Chains
<1>2. PICK n \in 0..(IF version = 0 THEN 0 ELSE MaxOldRows) :
        /\ rows = [i \in 1..n |->
                    [hash |-> IF version >= 6 THEN IntactHash(i) ELSE NoHash,
                     indexed |-> IF version >= 5 THEN 1 ELSE 0]]
        /\ last = IF version >= 6 THEN IntactHash(n) ELSE Genesis
  BY DEF Init
<1>3. n \in Nat /\ version \in Nat
  BY <1>2, BoundsAssumption DEF Init
<1>4. DOMAIN rows = 1..n /\ Len(rows) = n
  BY <1>2, <1>3
<1>5. Even(rows, last, version)
  BY <1>2, <1>3, <1>4 DEF Even, Intact, Bare
<1>6. \A x \in Processes : ~Ready(x)
  BY DEF Init, Closed, Ready
<1> QED
  BY <1>1, <1>5, <1>6 DEF ChainInv

(***************************************************************************)
(* As long as migrations do not overlap, no stop fell between the first    *)
(* UPDATE of the backfill and its set_last_hash, and no row was written    *)
(* after a backfill had read the end, the chain at rest from version 6 on  *)
(* covers every row, in order and once, and the stored end is that of the  *)
(* last row, for any number of rows, processes, other stops and misread    *)
(* versions (backfill_chain, write_event).                                 *)
(***************************************************************************)
THEOREM ChainDoesCoverHistory == Spec => []ChainCoversHistory
<1>1. Init => Base /\ ChainInv
  BY BaseInit, ChainInit
<1>2. Base /\ ChainInv /\ [Next]_vars => Base' /\ ChainInv'
  BY BaseStep, ChainStep
<1>3. Base /\ ChainInv => ChainCoversHistory
  <2> SUFFICES ASSUME Base, ChainInv, "chain" \notin torn, ~overlapped, AtRest, version >= 6
               PROVE  Intact(rows, last)
    BY DEF ChainCoversHistory, HistoryChained, Intact
  <2>1. \A x \in Processes : proc[x].pc # "chain"
    BY DEF AtRest, Migrating, MigratingPcs
  <2>2. version \in Nat
    BY DEF Base, SchemaInv, TypeOK
  <2> QED
    BY <2>1, <2>2 DEF ChainInv, Even
<1> QED
  BY <1>1, <1>2, <1>3, PTL DEF Spec
=============================================================================
